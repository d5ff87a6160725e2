--------------------------- MODULE OfflineDevices ---------------------------
(***************************************************************************)
(* What is left of a device that is not connected.                         *)
(*                                                                         *)
(* DeviceLifecycle with a history variable.  register asks whether         *)
(* somebody listens on the port of the device before it starts a listener, *)
(* and takes whatever it finds for its own: on failure it leaves it alone. *)
(* `misled' remembers the devices for which it found another device's      *)
(* listener, one that updatePort has bound before it saves.                *)
(***************************************************************************)
EXTENDS DeviceLifecycle

VARIABLE misled

offlineVars == <<vars, misled>>

\* A registration is about to take the listener of another device for its own.
Misleading(c) ==
    task[c].at = "probe" /\ listener[task[c].port] \notin {NoDevice, task[c].device}

OfflineInit == Init /\ misled = {}

OfflineNext ==
    /\ Next
    /\ misled' = misled \cup
          {task[c].device : c \in {k \in Channel : Misleading(k) /\ task'[k].at = "bind"}}

OfflineSpec == OfflineInit /\ [][OfflineNext]_offlineVars
OfflineFairSpec == OfflineSpec /\ Fairness

\* "Offline reservations start no listener" (docs/USER_MANUAL.md): between
\* calls, a device without a session neither listens nor is shown online,
\* whichever step of a registration, a disconnection or a change of its port
\* failed.  register keeps it unless it was misled.
OfflineIsSilent ==
    \A d \in Device \ misled :
        LockFree(d) /\ sessionMap[d] = NoSession
            => ~online[d] /\ \A p \in Port : listener[p] # d
=============================================================================
