----------------------------- MODULE FixedPorts -----------------------------
(***************************************************************************)
(* PortMappingService: the fixed-port reservations of a server.            *)
(*                                                                         *)
(* Every mutator is a synchronized method, so one runs at a time, but a    *)
(* mutator that saves is not one step: it commits the row to the database  *)
(* and only then publishes it to the maps and to the volatile snapshot.    *)
(* In between, IO threads still read the old snapshot and the process may  *)
(* die.  `saving' is the commit whose publication is outstanding; while it *)
(* is set the monitor is held.  A commit that fails throws before anything *)
(* changes, which is a stuttering step.                                    *)
(*                                                                         *)
(* The port_mapping table has device_id as its primary key and no unique   *)
(* constraint on external_port: nothing but this code keeps ports unique,  *)
(* and a server refuses to start on a table that holds a port twice.       *)
(***************************************************************************)
EXTENDS Naturals

CONSTANTS Device, NoDevice, PortStart, PortEnd

ASSUME NoDeviceAssumption == NoDevice \notin Device

\* loadPersistedMappings rejects any other configured range.
ASSUME PortRangeAssumption ==
    /\ PortStart \in Nat /\ PortEnd \in Nat
    /\ 1 <= PortStart /\ PortStart <= PortEnd /\ PortEnd <= 65535

Port == PortStart .. PortEnd
NoPort == 0

VARIABLES
    up,            \* the service is constructed and loaded
    db,            \* table port_mapping: the row of each device
    devicePorts,   \* map device -> port, guarded by the monitor
    mappings,      \* map port -> row, guarded by the monitor
    snapshot,      \* what threads outside the monitor read
    saving         \* a committed change that is not published yet

vars == <<up, db, devicePorts, mappings, snapshot, saving>>

Row == [port : Port \cup {NoPort}, online : BOOLEAN]
NoRow == [port |-> NoPort, online |-> FALSE]

Entry == [device : Device \cup {NoDevice}, online : BOOLEAN]
NoEntry == [device |-> NoDevice, online |-> FALSE]

NoChange == [kind |-> "none", device |-> NoDevice, port |-> NoPort, online |-> FALSE]
Change == {NoChange} \cup
          [kind : {"save", "delete"}, device : Device, port : Port, online : BOOLEAN]

NoPorts == [d \in Device |-> NoPort]
NoEntries == [p \in Port |-> NoEntry]

TypeOK ==
    /\ up \in BOOLEAN
    /\ db \in [Device -> Row]
    /\ devicePorts \in [Device -> Port \cup {NoPort}]
    /\ mappings \in [Port -> Entry]
    /\ snapshot \in [devicePorts : [Device -> Port \cup {NoPort}],
                     mappings : [Port -> Entry]]
    /\ saving \in Change

-----------------------------------------------------------------------------
(* Reads *)

Free(p) == mappings[p].device = NoDevice

\* Where allocatePort's loop from the first port of the range upwards stops.
LowestFree(p) == Free(p) /\ \A q \in Port : Free(q) => p <= q

\* getDeviceByPort, getPortByDevice: outside the monitor, from the snapshot.
DeviceByPort(p) == snapshot.mappings[p].device

-----------------------------------------------------------------------------
(* The two halves of save *)

\* repository.saveAndFlush returns: the row is durable, nobody sees it yet.
Commit(d, p, o) ==
    /\ up /\ saving = NoChange
    /\ db' = [db EXCEPT ![d] = [port |-> p, online |-> o]]
    /\ saving' = [kind |-> "save", device |-> d, port |-> p, online |-> o]
    /\ UNCHANGED <<up, devicePorts, mappings, snapshot>>

\* publish keeping the entry of the port the device has left.
FaultyPublishRow(d, p, o) ==
    /\ devicePorts' = [devicePorts EXCEPT ![d] = p]
    /\ mappings' = [mappings EXCEPT ![p] = [device |-> d, online |-> o]]
    /\ snapshot' = [devicePorts |-> devicePorts', mappings |-> mappings']

PublishRow(d, p, o) ==
    /\ devicePorts' = [devicePorts EXCEPT ![d] = p]
    /\ mappings' = [q \in Port |-> IF q = p THEN [device |-> d, online |-> o]
                                   ELSE IF q = devicePorts[d] THEN NoEntry
                                   ELSE mappings[q]]
    /\ snapshot' = [devicePorts |-> devicePorts', mappings |-> mappings']

Publish ==
    /\ saving.kind = "save"
    /\ PublishRow(saving.device, saving.port, saving.online)
    /\ saving' = NoChange
    /\ UNCHANGED <<up, db>>

-----------------------------------------------------------------------------
(* The mutators *)

\* A device that has a port keeps it; only a new device takes a free one.
AllocatePort(d) ==
    /\ devicePorts[d] = NoPort
    /\ \E p \in Port : LowestFree(p) /\ Commit(d, p, FALSE)

MarkOnline(d) ==
    /\ devicePorts[d] # NoPort
    /\ Commit(d, devicePorts[d], TRUE)

\* Publishes without saving: a database that cannot be written must not keep
\* a device shown as online.
MarkOffline(d) ==
    /\ up /\ saving = NoChange
    /\ devicePorts[d] # NoPort
    /\ PublishRow(d, devicePorts[d], FALSE)
    /\ UNCHANGED <<up, db, saving>>

UpdateExternalPort(d, p) ==
    /\ devicePorts[d] \notin {NoPort, p}
    /\ DeviceByPort(p) = NoDevice
    /\ Commit(d, p, mappings[devicePorts[d]].online)

\* setFixedPort without the check that the port is free.
FaultySetFixedPort(d, p) ==
    /\ devicePorts[d] = NoPort
    /\ Commit(d, p, FALSE)

SetFixedPort(d, p) ==
    /\ devicePorts[d] = NoPort
    /\ Free(p)
    /\ Commit(d, p, FALSE)

\* releasePort, first half: repository.deleteById.
ReleasePort(d) ==
    /\ up /\ saving = NoChange
    /\ devicePorts[d] # NoPort
    /\ db' = [db EXCEPT ![d] = NoRow]
    /\ saving' = [kind |-> "delete", device |-> d, port |-> devicePorts[d], online |-> FALSE]
    /\ UNCHANGED <<up, devicePorts, mappings, snapshot>>

\* releasePort, second half: the maps and the snapshot.
FaultyUnpublish ==
    /\ saving.kind = "delete"
    /\ devicePorts' = [devicePorts EXCEPT ![saving.device] = NoPort]
    /\ snapshot' = [devicePorts |-> devicePorts', mappings |-> mappings]
    /\ saving' = NoChange
    /\ UNCHANGED <<up, db, mappings>>

Unpublish ==
    /\ saving.kind = "delete"
    /\ devicePorts' = [devicePorts EXCEPT ![saving.device] = NoPort]
    /\ mappings' = [mappings EXCEPT ![saving.port] = NoEntry]
    /\ snapshot' = [devicePorts |-> devicePorts', mappings |-> mappings']
    /\ saving' = NoChange
    /\ UNCHANGED <<up, db>>

-----------------------------------------------------------------------------
(* The process *)

Crash ==
    /\ up
    /\ up' = FALSE
    /\ devicePorts' = NoPorts
    /\ mappings' = NoEntries
    /\ snapshot' = [devicePorts |-> NoPorts, mappings |-> NoEntries]
    /\ saving' = NoChange
    /\ UNCHANGED db

\* No port is persisted for two devices.
UniquePorts ==
    \A d, e \in Device : db[d].port # NoPort /\ db[d].port = db[e].port => d = e

Owner(p) == CHOOSE d \in Device : db[d].port = p
Persisted(p) == \E d \in Device : db[d].port = p

\* loadPersistedMappings without mapping.setOnline(false).
FaultyLoadPersistedMappings ==
    /\ ~up
    /\ UniquePorts
    /\ up' = TRUE
    /\ devicePorts' = [d \in Device |-> db[d].port]
    /\ mappings' = [p \in Port |->
            IF Persisted(p) THEN [device |-> Owner(p), online |-> db[Owner(p)].online]
                            ELSE NoEntry]
    /\ snapshot' = [devicePorts |-> devicePorts', mappings |-> mappings']
    /\ UNCHANGED <<db, saving>>

\* Every row is published offline; a table with a port held twice is refused,
\* and the server then never comes up.
LoadPersistedMappings ==
    /\ ~up
    /\ UniquePorts
    /\ up' = TRUE
    /\ devicePorts' = [d \in Device |-> db[d].port]
    /\ mappings' = [p \in Port |->
            IF Persisted(p) THEN [device |-> Owner(p), online |-> FALSE] ELSE NoEntry]
    /\ snapshot' = [devicePorts |-> devicePorts', mappings |-> mappings']
    /\ UNCHANGED <<db, saving>>

Init ==
    /\ up = FALSE
    /\ db = [d \in Device |-> NoRow]
    /\ devicePorts = NoPorts
    /\ mappings = NoEntries
    /\ snapshot = [devicePorts |-> NoPorts, mappings |-> NoEntries]
    /\ saving = NoChange

Next ==
    \/ \E d \in Device :
          \/ AllocatePort(d)
          \/ MarkOnline(d)
          \/ MarkOffline(d)
          \/ ReleasePort(d)
          \/ \E p \in Port : UpdateExternalPort(d, p) \/ SetFixedPort(d, p)
    \/ Publish
    \/ Unpublish
    \/ Crash
    \/ LoadPersistedMappings

Spec == Init /\ [][Next]_vars

-----------------------------------------------------------------------------
(* Properties *)

\* What IO threads route by is committed: a port visible in the snapshot is
\* the port the table holds for that device, unless the change of that very
\* device is the one between its commit and its publication.  (The class
\* comment: publish the cache only after the database commit succeeded.)
SnapshotCommitted ==
    \A d \in Device :
        snapshot.devicePorts[d] # NoPort /\ saving.device # d
            => db[d].port = snapshot.devicePorts[d]

\* The two maps a snapshot carries are inverse to each other: getDeviceByPort
\* (routing of an external connection) and getPortByDevice (what an operator
\* is told) never disagree.
SnapshotInverse ==
    \A d \in Device, p \in Port :
        snapshot.mappings[p].device = d <=> snapshot.devicePorts[d] = p

\* What the server routes by can be relied on in every state: no port belongs to
\* two devices, and the snapshot is committed and consistent in itself.
Reliable == UniquePorts /\ SnapshotCommitted /\ SnapshotInverse

\* A device is shown online only by the publication of a committed markOnline
\* (or of a move of a device that was online): never because a restart reads
\* back a row that was online when the server died.
OnlineOnlyByPublish ==
    [][\A p \in Port :
          snapshot'.mappings[p].online /\ ~snapshot.mappings[p].online
              => saving.kind = "save" /\ saving.port = p /\ saving.online]_vars

\* The durable table implements the reservations the product promises: a
\* crash between commit and publication, and a restart, change nothing in it.
R == INSTANCE Reservations WITH reserved <- [d \in Device |-> db[d].port]
ReservationsKept == R!Spec
=============================================================================
