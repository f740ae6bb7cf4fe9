--------------------------- MODULE RegistryAbstract ---------------------------
(***************************************************************************)
(* What the server registry promises its callers (spec 4.5): every        *)
(* change to the two collections is one atomic import, release, add or     *)
(* remove of one device, however the sessions and administrative callers   *)
(* interleave.  A refused remove or a failed import changes nothing.       *)
(***************************************************************************)
CONSTANTS BusIds, InitDevices

VARIABLES available, imported

regVars == <<available, imported>>

Init ==
  /\ available = InitDevices
  /\ imported = {}

(* import(bus_id): atomic move from available to imported.                *)
Import(b) ==
  /\ b \in available
  /\ available' = available \ {b}
  /\ imported' = imported \cup {b}

(* release(bus_id): atomic move back.                                     *)
Release(b) ==
  /\ b \in imported
  /\ imported' = imported \ {b}
  /\ available' = available \cup {b}

(* add(device): the caller guarantees a fresh bus id.                     *)
Add(b) ==
  /\ b \notin available \cup imported
  /\ available' = available \cup {b}
  /\ UNCHANGED imported

(* remove(bus_id) of an available device.                                 *)
Remove(b) ==
  /\ b \in available
  /\ available' = available \ {b}
  /\ UNCHANGED imported

Next == \E b \in BusIds : Import(b) \/ Release(b) \/ Add(b) \/ Remove(b)

Spec == Init /\ [][Next]_regVars
=============================================================================
