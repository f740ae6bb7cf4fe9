----------------------- MODULE UsbIpServer_remove_proofs -----------------------
(***************************************************************************)
(* Proof that remove_device's answers are sound (RemoveVerdictSound) for   *)
(* every value of the constants.  remove_device looks at                   *)
(* available_devices and at used_devices in two different steps, with an   *)
(* await between them (usbip_server.rs 38-46); the answer is right only    *)
(* because the write guard on available_devices, taken at line 38, is      *)
(* still held when used_devices is read, so that no release can push the   *)
(* device back in between.                                                 *)
(***************************************************************************)
EXTENDS UsbIpServer_proofs

USE ConstantsAssumption

(* An admin between the two checks of remove_device still holds the      *)
(* available_devices write guard, and its bus id is not available.        *)
RemoveHoldsAvailable ==
  \A a \in Admins : pc[a] = "remove_used" =>
    /\ writer["available"] = a
    /\ bus_id_arg[a] \notin available_devices

RemoveInv == TypeInv /\ RemoveHoldsAvailable

-----------------------------------------------------------------------------
(* While admin a holds available W, a session step leaves a's state and   *)
(* guard alone and can only take devices out of available_devices: the    *)
(* release, the one session step that pushes, needs that same guard.      *)
LEMMA SessionKeepsRemove ==
  ASSUME TypeOK, NEW s \in Sessions, NEW a \in Admins,
         writer["available"] = a,
         Accept(s) \/ ReadCommand(s) \/ ReadError(s) \/ SessionStep(s)
  PROVE  /\ pc'[a] = pc[a]
         /\ bus_id_arg' = bus_id_arg
         /\ writer'["available"] = a
         /\ available_devices' \subseteq available_devices
<1>0. s # a
  BY DEF Tasks
<1>1. CASE Accept(s) \/ ReadCommand(s) \/ ReadError(s)
  BY <1>0, <1>1 DEF Accept, ReadCommand, ReadError, SetPc, lockVars, TypeOK, Tasks
<1>2. CASE DispatchDevlist(s) \/ DispatchImport(s) \/ ImportSecondLock(s)
           \/ ReleaseSecondLock(s) \/ SubmitPanic(s)
  BY <1>0, <1>2 DEF DispatchDevlist, DispatchImport, ImportSecondLock,
     ReleaseSecondLock, SubmitPanic, DropGuards, SetPc, TypeOK, Tasks, Locks
<1>3. CASE DevlistReply(s) \/ ImportReply(s) \/ Submit(s) \/ Unlink(s)
  BY <1>0, <1>3 DEF DevlistReply, ImportReply, Submit, Unlink, Reply,
     DropGuards, SetPc, TypeOK, Tasks, Locks
<1>4. CASE ImportDevice(s)
  BY <1>0, <1>4 DEF ImportDevice, SetPc, lockVars, TypeOK, Tasks
<1>5. CASE ReleaseDevice(s)
  BY <1>0, <1>5 DEF ReleaseDevice, Holds
<1>6. QED BY <1>1, <1>2, <1>3, <1>4, <1>5 DEF SessionStep

(* RemoveHoldsAvailable holds initially: no admin is inside remove_device. *)
LEMMA RemoveInit == Init => RemoveHoldsAvailable
BY DEF Init, RemoveHoldsAvailable, Tasks

(* Every step preserves RemoveHoldsAvailable.                             *)
LEMMA RemoveHoldsStep ==
  TypeInv /\ RemoveHoldsAvailable /\ [Next]_vars => RemoveHoldsAvailable'
<1> SUFFICES ASSUME TypeInv, RemoveHoldsAvailable, [Next]_vars,
                    NEW a \in Admins, pc'[a] = "remove_used"
             PROVE  /\ writer'["available"] = a
                    /\ bus_id_arg'[a] \notin available_devices'
  BY DEF RemoveHoldsAvailable
<1> USE DEF TypeInv
<1>1. CASE \E l \in Locks : GrantRead(l) \/ GrantWrite(l)
  <2>1. pc[a] = "remove_used"
    BY <1>1 DEF GrantRead, GrantWrite
  <2>2. writer["available"] = a /\ bus_id_arg[a] \notin available_devices
    BY <2>1 DEF RemoveHoldsAvailable
  <2>3. a # NoTask
    OBVIOUS
  <2>4. QED BY <1>1, <2>2, <2>3 DEF GrantRead, GrantWrite, TypeOK, Locks
<1>2. CASE \E s \in Sessions : Accept(s) \/ ReadCommand(s) \/ ReadError(s)
                                \/ SessionStep(s)
  <2>1. PICK s \in Sessions : Accept(s) \/ ReadCommand(s) \/ ReadError(s)
                                \/ SessionStep(s)
    BY <1>2
  <2>2. s # a
    BY DEF Tasks
  <2>3. pc[a] = "remove_used"
    BY <2>1, <2>2 DEF Accept, ReadCommand, ReadError, SessionStep,
       DispatchDevlist, DevlistReply, DispatchImport, ImportSecondLock,
       ImportDevice, ImportReply, Submit, SubmitPanic, Unlink,
       ReleaseSecondLock, ReleaseDevice, Reply, SetPc, lockVars, TypeOK, Tasks
  <2>4. writer["available"] = a /\ bus_id_arg[a] \notin available_devices
    BY <2>3 DEF RemoveHoldsAvailable
  <2>5. QED BY <2>1, <2>4, SessionKeepsRemove
<1>3. ASSUME NEW o \in Admins, CallAddDevice(o) \/ CallRemoveDevice(o)
      PROVE  /\ writer'["available"] = a
             /\ bus_id_arg'[a] \notin available_devices'
  <2>1. o # a
    BY <1>3 DEF CallAddDevice, CallRemoveDevice, SetPc, TypeOK, Tasks
  <2>2. pc[a] = "remove_used"
    BY <1>3, <2>1 DEF CallAddDevice, CallRemoveDevice, SetPc, TypeOK, Tasks
  <2>3. writer["available"] = a /\ bus_id_arg[a] \notin available_devices
    BY <2>2 DEF RemoveHoldsAvailable
  <2>4. QED BY <1>3, <2>1, <2>3 DEF CallAddDevice, CallRemoveDevice, Enqueue,
             TypeOK
<1>4. ASSUME NEW o \in Admins, AdminStep(o)
      PROVE  /\ writer'["available"] = a
             /\ bus_id_arg'[a] \notin available_devices'
  <2>1. CASE o = a
    (* the only step of a's own that arrives at remove_used *)
    <3>1. RemoveCheckUsed(a)
      BY <1>4, <2>1 DEF AdminStep, AddDevice, RemoveFromAvailable,
         RemoveVerdict, SetPc, TypeOK, Tasks
    <3>2. QED BY <3>1 DEF RemoveCheckUsed, Holds
  <2>2. CASE o # a
    <3>1. pc[a] = "remove_used"
      BY <1>4, <2>2 DEF AdminStep, AddDevice, RemoveFromAvailable,
         RemoveCheckUsed, RemoveVerdict, SetPc, TypeOK, Tasks
    <3>2. writer["available"] = a /\ bus_id_arg[a] \notin available_devices
      BY <3>1 DEF RemoveHoldsAvailable
    (* add_device and the first remove check of o need the guard a holds *)
    <3>3. ~AddDevice(o) /\ ~RemoveFromAvailable(o)
      BY <2>2, <3>2 DEF AddDevice, RemoveFromAvailable, Holds
    <3>4. CASE RemoveCheckUsed(o)
      BY <3>2, <3>4 DEF RemoveCheckUsed
    <3>5. CASE RemoveVerdict(o)
      BY <2>2, <3>2, <3>5 DEF RemoveVerdict, DropGuards, Locks, TypeOK
    <3>6. QED BY <1>4, <3>3, <3>4, <3>5 DEF AdminStep
  <2>3. QED BY <2>1, <2>2
<1>5. CASE UNCHANGED vars
  BY <1>5 DEF vars, RemoveHoldsAvailable
<1>6. QED BY <1>1, <1>2, <1>3, <1>4, <1>5 DEF Next

-----------------------------------------------------------------------------
(* An admin's answer goes from "none" to "not_found" or "in_use" only in  *)
(* its own second check, which reads used_devices and changes neither     *)
(* collection.                                                            *)
LEMMA VerdictStep ==
  ASSUME TypeOK, [Next]_vars, NEW a \in Admins,
         verdict[a] = "none", verdict'[a] \in {"not_found", "in_use"}
  PROVE  RemoveVerdict(a)
<1>1. CASE \E l \in Locks : GrantRead(l) \/ GrantWrite(l)
  BY <1>1 DEF GrantRead, GrantWrite
<1>2. CASE \E s \in Sessions : Accept(s) \/ ReadCommand(s) \/ ReadError(s)
                                \/ SessionStep(s)
  BY <1>2 DEF Accept, ReadCommand, ReadError, SessionStep,
     DispatchDevlist, DevlistReply, DispatchImport, ImportSecondLock,
     ImportDevice, ImportReply, Submit, SubmitPanic, Unlink,
     ReleaseSecondLock, ReleaseDevice
<1>3. CASE \E o \in Admins : CallAddDevice(o) \/ CallRemoveDevice(o)
  BY <1>3 DEF CallAddDevice, CallRemoveDevice, TypeOK
<1>4. ASSUME NEW o \in Admins, AdminStep(o)
      PROVE  RemoveVerdict(a)
  <2>1. CASE AddDevice(o) \/ RemoveCheckUsed(o)
    BY <2>1 DEF AddDevice, RemoveCheckUsed
  <2>2. CASE RemoveFromAvailable(o)
    BY <2>2 DEF RemoveFromAvailable, TypeOK
  <2>3. CASE RemoveVerdict(o)
    <3>1. o = a
      BY <2>3 DEF RemoveVerdict, TypeOK
    <3>2. QED BY <2>3, <3>1
  <2>4. QED BY <1>4, <2>1, <2>2, <2>3 DEF AdminStep
<1>5. CASE UNCHANGED vars
  BY <1>5 DEF vars
<1>6. QED BY <1>1, <1>2, <1>3, <1>4, <1>5 DEF Next

(* The answers of remove_device are sound, for every number of sessions,  *)
(* admins and devices: "not found" only for a device in neither            *)
(* collection and "in use" only for an imported one, although the two     *)
(* collections are read under different guards with an await between.    *)
THEOREM RemoveAnswersSound == Spec => RemoveVerdictSound
<1>1. Init => RemoveInv
  BY OwnershipInit, RemoveInit DEF OwnershipInv, RemoveInv
<1>2. RemoveInv /\ [Next]_vars => RemoveInv'
  BY TypeInvStep, RemoveHoldsStep DEF RemoveInv
<1>3. ASSUME RemoveInv, [Next]_vars, NEW a \in Admins
      PROVE  /\ verdict[a] = "none" /\ verdict'[a] = "not_found"
                  => bus_id_arg[a] \notin available_devices' \cup used_devices'
             /\ verdict[a] = "none" /\ verdict'[a] = "in_use"
                  => bus_id_arg[a] \in used_devices'
  <2>1. SUFFICES ASSUME verdict[a] = "none",
                        verdict'[a] \in {"not_found", "in_use"}
                 PROVE  /\ verdict'[a] = "not_found"
                           => bus_id_arg[a] \notin available_devices'
                                                   \cup used_devices'
                        /\ verdict'[a] = "in_use"
                           => bus_id_arg[a] \in used_devices'
    OBVIOUS
  <2>2. RemoveVerdict(a)
    BY <1>3, <2>1, VerdictStep DEF RemoveInv, TypeInv
  <2>3. bus_id_arg[a] \notin available_devices
    BY <2>2, <1>3 DEF RemoveVerdict, RemoveInv, RemoveHoldsAvailable
  <2>4. verdict'[a] = IF bus_id_arg[a] \in used_devices THEN "in_use"
                                                       ELSE "not_found"
    BY <2>2, <1>3 DEF RemoveVerdict, RemoveInv, TypeInv, TypeOK
  <2>5. QED BY <2>2, <2>3, <2>4 DEF RemoveVerdict
<1>4. RemoveInv /\ [Next]_vars =>
        [\A a \in Admins :
           /\ verdict[a] = "none" /\ verdict'[a] = "not_found"
                => bus_id_arg[a] \notin available_devices' \cup used_devices'
           /\ verdict[a] = "none" /\ verdict'[a] = "in_use"
                => bus_id_arg[a] \in used_devices']_vars
  BY <1>3
<1>5. QED BY <1>1, <1>2, <1>4, PTL DEF Spec, RemoveVerdictSound
=============================================================================
