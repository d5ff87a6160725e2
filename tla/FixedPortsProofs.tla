-------------------------- MODULE FixedPortsProofs --------------------------
(***************************************************************************)
(* Proofs about FixedPorts, for every set of devices and every legal port  *)
(* range.  Everything follows from one inductive invariant, Inv: the maps  *)
(* are inverse to each other, they are the snapshot, and they are the      *)
(* table, except for the one device whose change is committed and not yet  *)
(* published.                                                              *)
(***************************************************************************)
EXTENDS FixedPorts, TLAPS

MapsInverse ==
    \A d \in Device, p \in Port : mappings[p].device = d <=> devicePorts[d] = p

SnapshotIsMaps ==
    snapshot = [devicePorts |-> devicePorts, mappings |-> mappings]

MapsAreTable ==
    up => \A d \in Device : saving.device # d => db[d].port = devicePorts[d]

\* The change in flight: what it wrote, and that its port is free for it.
SavingSound ==
    /\ saving.kind = "none" => saving = NoChange
    /\ saving.kind = "save" =>
          /\ saving.device \in Device /\ saving.port \in Port
          /\ db[saving.device].port = saving.port
          /\ mappings[saving.port].device \in {NoDevice, saving.device}
    /\ saving.kind = "delete" =>
          /\ saving.device \in Device /\ saving.port \in Port
          /\ db[saving.device].port = NoPort
          /\ devicePorts[saving.device] = saving.port

DownIsEmpty ==
    ~up => devicePorts = NoPorts /\ mappings = NoEntries /\ saving = NoChange

Inv ==
    /\ MapsInverse
    /\ SnapshotIsMaps
    /\ MapsAreTable
    /\ SavingSound
    /\ DownIsEmpty
    /\ UniquePorts

-----------------------------------------------------------------------------
LEMMA NoPortOutside == NoPort \notin Port
BY PortRangeAssumption DEF NoPort, Port

\* Every variable of FixedPorts keeps its type, whatever sequence of calls,
\* crashes and restarts the service goes through.
THEOREM TypeCorrect == Spec => []TypeOK
<1>1. Init => TypeOK
  <2> SUFFICES ASSUME Init PROVE TypeOK
    OBVIOUS
  <2> USE DEF Init
  <2>1. db \in [Device -> Row]
    BY DEF NoRow, Row
  <2>2. NoPorts \in [Device -> Port \cup {NoPort}] /\ NoEntries \in [Port -> Entry]
    BY DEF NoPorts, NoEntries, NoEntry, Entry
  <2>3. NoChange \in Change
    BY DEF NoChange, Change
  <2> QED BY <2>1, <2>2, <2>3 DEF TypeOK
<1>2. ASSUME TypeOK, [Next]_vars PROVE TypeOK'
  <2>1. ASSUME NEW d \in Device, NEW p \in Port, NEW o \in BOOLEAN, Commit(d, p, o)
        PROVE TypeOK'
    BY <1>2, <2>1 DEF TypeOK, Commit, Row, Change
  <2>2. ASSUME NEW d \in Device, NEW p \in Port, NEW o \in BOOLEAN, PublishRow(d, p, o),
               saving' \in Change, UNCHANGED <<up, db>>
        PROVE TypeOK'
    BY <1>2, <2>2 DEF TypeOK, PublishRow, Entry, NoEntry
  <2>3. ASSUME NEW d \in Device, AllocatePort(d) PROVE TypeOK'
    BY <2>1, <2>3 DEF AllocatePort
  <2>4. ASSUME NEW d \in Device, MarkOnline(d) PROVE TypeOK'
    BY <1>2, <2>1, <2>4 DEF TypeOK, MarkOnline
  <2>5. ASSUME NEW d \in Device, MarkOffline(d) PROVE TypeOK'
    BY <1>2, <2>2, <2>5 DEF TypeOK, MarkOffline
  <2>6. ASSUME NEW d \in Device, NEW p \in Port, UpdateExternalPort(d, p) PROVE TypeOK'
    <3>1. mappings[devicePorts[d]].online \in BOOLEAN
      BY <1>2, <2>6 DEF TypeOK, UpdateExternalPort, Entry
    <3> QED BY <2>1, <2>6, <3>1 DEF UpdateExternalPort
  <2>7. ASSUME NEW d \in Device, NEW p \in Port, SetFixedPort(d, p) PROVE TypeOK'
    BY <2>1, <2>7 DEF SetFixedPort
  <2>8. ASSUME NEW d \in Device, ReleasePort(d) PROVE TypeOK'
    BY <1>2, <2>8 DEF TypeOK, ReleasePort, Row, NoRow, Change
  <2>9. CASE Publish
    <3>1. saving.device \in Device /\ saving.port \in Port /\ saving.online \in BOOLEAN
      BY <1>2, <2>9 DEF TypeOK, Publish, Change, NoChange
    <3>2. saving' \in Change
      BY <2>9 DEF Publish, Change
    <3> QED BY <2>2, <2>9, <3>1, <3>2 DEF Publish
  <2>10. CASE Unpublish
    <3>1. saving.device \in Device /\ saving.port \in Port
      BY <1>2, <2>10 DEF TypeOK, Unpublish, Change, NoChange
    <3>2. saving' \in Change
      BY <2>10 DEF Unpublish, Change
    <3> QED BY <1>2, <2>10, <3>1, <3>2 DEF TypeOK, Unpublish, NoEntry, Entry
  <2>11. CASE Crash
    BY <1>2, <2>11 DEF TypeOK, Crash, NoPorts, NoEntries, NoEntry, Entry, NoChange, Change
  <2>12. CASE LoadPersistedMappings
    <3>1. devicePorts' \in [Device -> Port \cup {NoPort}]
      BY <1>2, <2>12 DEF TypeOK, LoadPersistedMappings, Row
    <3>2. ASSUME NEW p \in Port, Persisted(p) PROVE Owner(p) \in Device
      BY <3>2 DEF Persisted, Owner
    <3>3. mappings' \in [Port -> Entry]
      BY <2>12, <3>2 DEF LoadPersistedMappings, Entry, NoEntry
    <3> QED BY <1>2, <2>12, <3>1, <3>3 DEF TypeOK, LoadPersistedMappings
  <2>13. CASE UNCHANGED vars
    BY <1>2, <2>13 DEF TypeOK, vars
  <2> QED
    BY <1>2, <2>3, <2>4, <2>5, <2>6, <2>7, <2>8, <2>9, <2>10, <2>11, <2>12, <2>13 DEF Next
<1> QED BY <1>1, <1>2, PTL DEF Spec

-----------------------------------------------------------------------------
(* The inductive invariant, one lemma per kind of step. *)

\* A commit changes one row: to the port the device has, or to one nobody has.
LEMMA CommitKeepsInv ==
    ASSUME TypeOK, Inv, NEW d \in Device, NEW p \in Port, NEW o \in BOOLEAN,
           Commit(d, p, o), mappings[p].device \in {NoDevice, d}
    PROVE  Inv'
<1> USE DEF Commit
<1>1. up /\ saving.device = NoDevice /\ \A e \in Device : e # NoDevice
  BY NoDeviceAssumption DEF NoChange
<1>2. \A e \in Device : db[e].port = devicePorts[e]
  BY <1>1 DEF Inv, MapsAreTable
<1>3. db'[d].port = p /\ \A e \in Device \ {d} : db'[e] = db[e]
  BY DEF TypeOK, Row
<1>4. \A e \in Device \ {d} : devicePorts[e] # p
  BY <1>1 DEF Inv, MapsInverse
<1>5. UniquePorts'
  BY <1>2, <1>3, <1>4 DEF Inv, UniquePorts
<1>6. MapsAreTable' /\ SavingSound'
  BY <1>1, <1>2, <1>3 DEF MapsAreTable, SavingSound
<1>7. MapsInverse' /\ SnapshotIsMaps' /\ DownIsEmpty'
  BY <1>1 DEF Inv, MapsInverse, SnapshotIsMaps, DownIsEmpty
<1> QED BY <1>5, <1>6, <1>7 DEF Inv

\* Publishing the row of a device whose port nobody else has keeps the maps
\* inverse to each other and the snapshot equal to them.
LEMMA PublishRowKeepsMaps ==
    ASSUME TypeOK, Inv, NEW d \in Device, NEW p \in Port, NEW o \in BOOLEAN,
           PublishRow(d, p, o), mappings[p].device \in {NoDevice, d}
    PROVE  /\ MapsInverse' /\ SnapshotIsMaps'
           /\ devicePorts'[d] = p
           /\ \A e \in Device \ {d} : devicePorts'[e] = devicePorts[e]
<1> USE DEF PublishRow
<1>1. devicePorts'[d] = p /\ \A e \in Device \ {d} : devicePorts'[e] = devicePorts[e]
  BY DEF TypeOK
<1>2. ASSUME NEW e \in Device, NEW q \in Port
      PROVE mappings'[q].device = e <=> devicePorts'[e] = q
  <2>1. e # NoDevice
    BY NoDeviceAssumption
  <2>2. mappings[q].device = e <=> devicePorts[e] = q
    BY DEF Inv, MapsInverse
  <2>3. mappings[q].device = d <=> devicePorts[d] = q
    BY DEF Inv, MapsInverse
  <2>4. mappings[p].device = e <=> devicePorts[e] = p
    BY DEF Inv, MapsInverse
  <2>5. CASE q = p
    BY <1>1, <2>1, <2>4, <2>5
  <2>6. CASE q # p /\ q = devicePorts[d]
    BY <1>1, <2>1, <2>2, <2>3, <2>6 DEF NoEntry
  <2>7. CASE q # p /\ q # devicePorts[d]
    BY <1>1, <2>2, <2>3, <2>7
  <2> QED BY <2>5, <2>6, <2>7
<1> QED BY <1>1, <1>2 DEF MapsInverse, SnapshotIsMaps

THEOREM InvInductive == Spec => []Inv
<1>1. Init => Inv
  <2> SUFFICES ASSUME Init PROVE Inv
    OBVIOUS
  <2> QED BY NoDeviceAssumption, NoPortOutside DEF Init, Inv, MapsInverse, SnapshotIsMaps, MapsAreTable,
             SavingSound, DownIsEmpty, UniquePorts, NoPorts, NoEntries, NoEntry, NoChange, NoRow
<1>2. ASSUME TypeOK, TypeOK', Inv, [Next]_vars PROVE Inv'
  <2>1. ASSUME NEW d \in Device, AllocatePort(d) PROVE Inv'
    BY <1>2, <2>1, CommitKeepsInv DEF AllocatePort, LowestFree, Free
  <2>2. ASSUME NEW d \in Device, MarkOnline(d) PROVE Inv'
    <3>1. devicePorts[d] \in Port
      BY <1>2, <2>2 DEF TypeOK, MarkOnline
    <3>2. mappings[devicePorts[d]].device = d
      BY <1>2, <3>1 DEF Inv, MapsInverse
    <3> QED BY <1>2, <2>2, <3>1, <3>2, CommitKeepsInv DEF MarkOnline
  <2>3. ASSUME NEW d \in Device, MarkOffline(d) PROVE Inv'
    <3>1. devicePorts[d] \in Port
      BY <1>2, <2>3 DEF TypeOK, MarkOffline
    <3>2. mappings[devicePorts[d]].device = d
      BY <1>2, <3>1 DEF Inv, MapsInverse
    <3>3. /\ MapsInverse' /\ SnapshotIsMaps'
          /\ devicePorts'[d] = devicePorts[d]
          /\ \A e \in Device \ {d} : devicePorts'[e] = devicePorts[e]
      BY <1>2, <2>3, <3>1, <3>2, PublishRowKeepsMaps DEF MarkOffline
    <3>4. MapsAreTable' /\ SavingSound' /\ DownIsEmpty' /\ UniquePorts'
      BY <1>2, <2>3, <3>3 DEF MarkOffline, Inv, MapsAreTable, SavingSound, DownIsEmpty,
         UniquePorts, NoChange
    <3> QED BY <3>3, <3>4 DEF Inv
  <2>4. ASSUME NEW d \in Device, NEW p \in Port, UpdateExternalPort(d, p) PROVE Inv'
    <3>1. mappings[devicePorts[d]].online \in BOOLEAN
      BY <1>2, <2>4 DEF TypeOK, UpdateExternalPort, Entry
    <3>2. mappings[p].device = NoDevice
      BY <1>2, <2>4 DEF UpdateExternalPort, DeviceByPort, Inv, SnapshotIsMaps
    <3> QED BY <1>2, <2>4, <3>1, <3>2, CommitKeepsInv DEF UpdateExternalPort
  <2>5. ASSUME NEW d \in Device, NEW p \in Port, SetFixedPort(d, p) PROVE Inv'
    BY <1>2, <2>5, CommitKeepsInv DEF SetFixedPort, Free
  <2>6. ASSUME NEW d \in Device, ReleasePort(d) PROVE Inv'
    <3>1. up /\ devicePorts[d] \in Port /\ saving.device = NoDevice /\ NoDevice \notin Device
      BY <1>2, <2>6, NoDeviceAssumption DEF TypeOK, ReleasePort, NoChange
    <3>2. /\ db'[d].port = NoPort /\ saving'.device = d /\ saving'.port = devicePorts[d]
          /\ saving'.kind = "delete"
          /\ \A e \in Device \ {d} : db'[e] = db[e]
      BY <1>2, <2>6 DEF TypeOK, ReleasePort, NoRow
    <3>3. MapsAreTable' /\ SavingSound' /\ DownIsEmpty' /\ UniquePorts'
      BY <1>2, <2>6, <3>1, <3>2 DEF ReleasePort, Inv, MapsAreTable, SavingSound, DownIsEmpty, UniquePorts
    <3>4. MapsInverse' /\ SnapshotIsMaps'
      BY <1>2, <2>6 DEF ReleasePort, Inv, MapsInverse, SnapshotIsMaps
    <3> QED BY <3>3, <3>4 DEF Inv
  <2>7. CASE Publish
    <3>1. /\ saving.device \in Device /\ saving.port \in Port /\ saving.online \in BOOLEAN
          /\ db[saving.device].port = saving.port
          /\ mappings[saving.port].device \in {NoDevice, saving.device}
          /\ saving # NoChange
      BY <1>2, <2>7 DEF TypeOK, Publish, Change, NoChange, Inv, SavingSound
    <3>2. /\ MapsInverse' /\ SnapshotIsMaps'
          /\ devicePorts'[saving.device] = saving.port
          /\ \A e \in Device \ {saving.device} : devicePorts'[e] = devicePorts[e]
      BY <1>2, <2>7, <3>1, PublishRowKeepsMaps DEF Publish
    <3>3. MapsAreTable' /\ SavingSound' /\ DownIsEmpty' /\ UniquePorts'
      BY <1>2, <2>7, <3>1, <3>2 DEF Publish, Inv, MapsAreTable, SavingSound, DownIsEmpty,
         UniquePorts, NoChange
    <3> QED BY <3>2, <3>3 DEF Inv
  <2>8. CASE Unpublish
    <3> DEFINE d == saving.device
    <3>1. /\ d \in Device /\ saving.port \in Port /\ db[d].port = NoPort
          /\ devicePorts[d] = saving.port /\ saving # NoChange
      BY <1>2, <2>8 DEF TypeOK, Unpublish, Change, NoChange, Inv, SavingSound
    <3>2. devicePorts'[d] = NoPort /\ \A e \in Device \ {d} : devicePorts'[e] = devicePorts[e]
      BY <1>2, <2>8, <3>1 DEF TypeOK, Unpublish
    <3>3. MapsAreTable' /\ SavingSound' /\ DownIsEmpty' /\ UniquePorts' /\ SnapshotIsMaps'
      BY <1>2, <2>8, <3>1, <3>2 DEF Unpublish, Inv, MapsAreTable, SavingSound, DownIsEmpty,
         UniquePorts, NoChange, SnapshotIsMaps
    <3>4. ASSUME NEW e \in Device, NEW q \in Port
          PROVE mappings'[q].device = e <=> devicePorts'[e] = q
      <4>1. mappings[q].device = e <=> devicePorts[e] = q
        BY <1>2 DEF Inv, MapsInverse
      <4>2. mappings[q].device = d <=> devicePorts[d] = q
        BY <1>2, <3>1 DEF Inv, MapsInverse
      <4> QED BY <1>2, <2>8, <3>1, <3>2, <4>1, <4>2, NoDeviceAssumption, NoPortOutside
              DEF TypeOK, Unpublish, NoEntry
    <3>5. MapsInverse'
      BY <3>4 DEF MapsInverse
    <3> QED BY <3>3, <3>5 DEF Inv
  <2>9. CASE Crash
    BY <1>2, <2>9, NoDeviceAssumption, NoPortOutside DEF Crash, Inv, MapsInverse, SnapshotIsMaps,
       MapsAreTable, SavingSound, DownIsEmpty, UniquePorts, NoPorts, NoEntries, NoEntry, NoChange
  <2>10. CASE LoadPersistedMappings
    <3>1. saving = NoChange /\ saving' = NoChange /\ up' /\ db' = db
      BY <1>2, <2>10 DEF LoadPersistedMappings, Inv, DownIsEmpty
    <3>2. \A e \in Device : devicePorts'[e] = db[e].port
      BY <2>10 DEF LoadPersistedMappings
    <3>3. ASSUME NEW e \in Device, NEW q \in Port
          PROVE mappings'[q].device = e <=> devicePorts'[e] = q
      <4>1. CASE Persisted(q)
        <5>1. Owner(q) \in Device /\ db[Owner(q)].port = q
          BY <4>1 DEF Persisted, Owner
        <5>2. mappings'[q].device = Owner(q)
          BY <2>10, <4>1 DEF LoadPersistedMappings
        <5>3. db[e].port = q => e = Owner(q)
          BY <2>10, <5>1, NoPortOutside DEF LoadPersistedMappings, UniquePorts
        <5> QED BY <3>2, <5>1, <5>2, <5>3
      <4>2. CASE ~Persisted(q)
        <5>1. mappings'[q].device = NoDevice /\ db[e].port # q
          BY <2>10, <4>2 DEF LoadPersistedMappings, NoEntry, Persisted
        <5> QED BY <3>2, <5>1, NoDeviceAssumption
      <4> QED BY <4>1, <4>2
    <3>4. MapsInverse'
      BY <3>3 DEF MapsInverse
    <3>5. SnapshotIsMaps' /\ MapsAreTable' /\ SavingSound' /\ DownIsEmpty' /\ UniquePorts'
      BY <1>2, <2>10, <3>1, <3>2 DEF LoadPersistedMappings, Inv, SnapshotIsMaps, MapsAreTable,
         SavingSound, DownIsEmpty, UniquePorts, NoChange
    <3> QED BY <3>4, <3>5 DEF Inv
  <2>11. CASE UNCHANGED vars
    BY <1>2, <2>11 DEF vars, Inv, MapsInverse, SnapshotIsMaps, MapsAreTable, SavingSound,
       DownIsEmpty, UniquePorts
  <2> QED
    BY <1>2, <2>1, <2>2, <2>3, <2>4, <2>5, <2>6, <2>7, <2>8, <2>9, <2>10, <2>11 DEF Next
<1> QED BY <1>1, <1>2, TypeCorrect, PTL DEF Spec

-----------------------------------------------------------------------------
(* What the invariant gives *)

\* No two devices ever hold the same persisted port, and what other threads
\* route by is consistent and committed: across crashes and restarts.
THEOREM FixedPortsSafe == Spec => []Reliable
<1>1. ASSUME TypeOK, Inv PROVE Reliable
  <2>1. SnapshotInverse
    BY <1>1 DEF Inv, SnapshotIsMaps, MapsInverse, SnapshotInverse
  <2>2. SnapshotCommitted
    BY <1>1 DEF Inv, SnapshotIsMaps, MapsAreTable, DownIsEmpty, NoPorts, SnapshotCommitted
  <2> QED BY <1>1, <2>1, <2>2 DEF Inv, Reliable
<1> QED BY <1>1, TypeCorrect, InvInductive, PTL

\* A device is shown online only by the publication of a committed online row.
THEOREM OnlineIsPublished == Spec => OnlineOnlyByPublish
<1> DEFINE Step == \A p \in Port :
          snapshot'.mappings[p].online /\ ~snapshot.mappings[p].online
              => saving.kind = "save" /\ saving.port = p /\ saving.online
<1>1. ASSUME TypeOK, Inv, [Next]_vars PROVE [Step]_vars
  <2> SUFFICES ASSUME NEW p \in Port,
                      snapshot'.mappings[p].online, ~snapshot.mappings[p].online
               PROVE  saving.kind = "save" /\ saving.port = p /\ saving.online
    OBVIOUS
  <2>1. snapshot.mappings = mappings /\ ~NoEntry.online
    BY <1>1 DEF Inv, SnapshotIsMaps, NoEntry
  <2>2. ASSUME NEW d \in Device, NEW q \in Port, NEW o \in BOOLEAN, PublishRow(d, q, o)
        PROVE  q = p /\ o
    BY <2>1, <2>2 DEF PublishRow
  <2>3. CASE Publish
    <3>1. saving.device \in Device /\ saving.port \in Port /\ saving.online \in BOOLEAN
      BY <1>1, <2>3 DEF TypeOK, Publish, Change, NoChange
    <3> QED BY <2>2, <2>3, <3>1 DEF Publish
  <2>4. ASSUME NEW d \in Device, MarkOffline(d) PROVE FALSE
    <3>1. devicePorts[d] \in Port
      BY <1>1, <2>4 DEF TypeOK, MarkOffline
    <3> QED BY <2>2, <2>4, <3>1 DEF MarkOffline
  <2>5. CASE Unpublish
    BY <1>1, <2>1, <2>5 DEF TypeOK, Unpublish
  <2>6. CASE Crash
    BY <2>1, <2>6 DEF Crash, NoEntries
  <2>7. CASE LoadPersistedMappings
    BY <2>1, <2>7 DEF LoadPersistedMappings
  <2>8. snapshot' = snapshot => FALSE
    OBVIOUS
  <2> QED
    BY <1>1, <2>3, <2>4, <2>5, <2>6, <2>7, <2>8 DEF Next, vars, AllocatePort, MarkOnline,
       UpdateExternalPort, SetFixedPort, ReleasePort, Commit
<1> QED BY <1>1, TypeCorrect, InvInductive, PTL DEF Spec, OnlineOnlyByPublish

\* The port_mapping table implements the abstract reservations: every step of
\* the service, a crash or a restart included, assigns a free port, releases
\* one, or leaves all reservations as they are.
THEOREM TableImplementsReservations == Spec => ReservationsKept
<1> DEFINE reserved == [d \in Device |-> db[d].port]
<1>1. Init => R!Init
  BY DEF Init, R!Init, NoRow
<1>2. ASSUME TypeOK, Inv, [Next]_vars PROVE [R!Next]_reserved
  <2>1. ASSUME NEW d \in Device, NEW p \in Port, NEW o \in BOOLEAN, Commit(d, p, o),
               mappings[p].device \in {NoDevice, d}
        PROVE  [R!Next]_reserved
    <3>1. \A e \in Device : db[e].port = devicePorts[e] /\ e # NoDevice
      BY <1>2, <2>1, NoDeviceAssumption DEF Commit, Inv, MapsAreTable, NoChange
    <3>2. reserved' = [reserved EXCEPT ![d] = p]
      BY <1>2, <2>1 DEF TypeOK, Commit, Row
    <3>3. CASE devicePorts[d] = p
      BY <3>1, <3>2, <3>3
    <3>4. CASE devicePorts[d] # p
      <4>1. \A e \in Device : db[e].port # p
        BY <1>2, <2>1, <3>1, <3>4 DEF Inv, MapsInverse
      <4>2. R!Assign(d, p)
        BY <3>2, <4>1 DEF R!Assign, R!Held
      <4> QED BY <4>2 DEF R!Next
    <3> QED BY <3>3, <3>4
  <2>2. ASSUME NEW d \in Device, AllocatePort(d) PROVE [R!Next]_reserved
    BY <2>1, <2>2 DEF AllocatePort, LowestFree, Free
  <2>3. ASSUME NEW d \in Device, MarkOnline(d) PROVE [R!Next]_reserved
    <3>1. devicePorts[d] \in Port
      BY <1>2, <2>3 DEF TypeOK, MarkOnline
    <3>2. mappings[devicePorts[d]].device = d
      BY <1>2, <3>1 DEF Inv, MapsInverse
    <3> QED BY <2>1, <2>3, <3>1, <3>2 DEF MarkOnline
  <2>4. ASSUME NEW d \in Device, NEW p \in Port, UpdateExternalPort(d, p)
        PROVE [R!Next]_reserved
    <3>1. mappings[devicePorts[d]].online \in BOOLEAN
      BY <1>2, <2>4 DEF TypeOK, UpdateExternalPort, Entry
    <3>2. mappings[p].device = NoDevice
      BY <1>2, <2>4 DEF UpdateExternalPort, DeviceByPort, Inv, SnapshotIsMaps
    <3> QED BY <2>1, <2>4, <3>1, <3>2 DEF UpdateExternalPort
  <2>5. ASSUME NEW d \in Device, NEW p \in Port, SetFixedPort(d, p) PROVE [R!Next]_reserved
    BY <2>1, <2>5 DEF SetFixedPort, Free
  <2>6. ASSUME NEW d \in Device, ReleasePort(d) PROVE [R!Next]_reserved
    <3>1. reserved' = [reserved EXCEPT ![d] = NoPort]
      BY <1>2, <2>6 DEF TypeOK, ReleasePort, NoRow
    <3>2. db[d].port = devicePorts[d]
      BY <1>2, <2>6, NoDeviceAssumption DEF ReleasePort, Inv, MapsAreTable, NoChange
    <3>3. R!Release(d)
      BY <2>6, <3>1, <3>2 DEF ReleasePort, R!Release
    <3> QED BY <3>3 DEF R!Next
  <2>7. db' = db => [R!Next]_reserved
    OBVIOUS
  <2> QED
    BY <1>2, <2>2, <2>3, <2>4, <2>5, <2>6, <2>7 DEF Next, vars, MarkOffline, Publish, Unpublish,
       Crash, LoadPersistedMappings
<1> QED BY <1>1, <1>2, TypeCorrect, InvInductive, PTL DEF Spec, ReservationsKept, R!Spec
=============================================================================
