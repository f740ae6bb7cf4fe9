-------------------------- MODULE UsbIpServer_proofs --------------------------
(***************************************************************************)
(* Proofs about UsbIpServer for every value of the constants: the type    *)
(* invariant, single ownership of devices across sessions, and that the    *)
(* server implements the atomic registry of RegistryAbstract.             *)
(***************************************************************************)
EXTENDS UsbIpServer, SequenceTheorems, TLAPS

USE ConstantsAssumption


(* The argument of an admin's add_device/remove_device call is a bus id  *)
(* while the call runs: the part of typing that TypeOK alone does not     *)
(* carry from step to step.                                               *)
AdminArgOK ==
  \A a \in Admins : pc[a] \in {"add", "remove", "remove_used"}
                      => bus_id_arg[a] \in BusIds

TypeInv == TypeOK /\ AdminArgOK

(* The bus id of an add_device in progress is held by no one, and no two  *)
(* adds in progress carry the same one: the caller's guarantee, carried   *)
(* to the push.                                                           *)
AddArgFresh ==
  \A a \in Admins : pc[a] = "add" =>
    /\ bus_id_arg[a] \notin available_devices \cup used_devices
    /\ \A o \in Admins : o # a /\ pc[o] = "add" => bus_id_arg[o] # bus_id_arg[a]

(* The inductive invariant behind SingleOwnership.                        *)
OwnershipInv == TypeInv /\ AddArgFresh /\ SingleOwnership

-----------------------------------------------------------------------------
(* The head of a non-empty queue is a request and its tail a queue.       *)
LEMMA QueueHeadTail ==
  ASSUME NEW q \in Seq(LockRequest), q # << >>
  PROVE  /\ Head(q).task \in Tasks
         /\ Head(q).mode \in Modes
         /\ Tail(q) \in Seq(LockRequest)
  <1>1. Head(q) \in LockRequest /\ Tail(q) \in Seq(LockRequest)
    BY HeadTailProperties
  <1>2. QED BY <1>1 DEF LockRequest

(* Appending a lock request keeps every queue a sequence of requests.     *)
LEMMA EnqueueType ==
  ASSUME NEW t \in Tasks, NEW l \in Locks, NEW m \in Modes,
         waiting \in [Locks -> Seq(LockRequest)],
         Enqueue(t, l, m)
  PROVE  waiting' \in [Locks -> Seq(LockRequest)]
  <1>1. [task |-> t, mode |-> m] \in LockRequest
    BY DEF LockRequest
  <1>2. Append(waiting[l], [task |-> t, mode |-> m]) \in Seq(LockRequest)
    BY <1>1, AppendProperties
  <1>3. QED BY <1>2 DEF Enqueue

(* Dropping the guards of a task keeps holders of the right type.         *)
LEMMA DropGuardsType ==
  ASSUME NEW t \in Tasks,
         readers \in [Locks -> SUBSET Tasks],
         writer \in [Locks -> Tasks \cup {NoTask}],
         DropGuards(t)
  PROVE  /\ readers' \in [Locks -> SUBSET Tasks]
         /\ writer' \in [Locks -> Tasks \cup {NoTask}]
  BY DEF DropGuards

(* The type of what Reply leaves behind.                                  *)
LEMMA ReplyType ==
  ASSUME NEW s \in Sessions, TypeOK, Reply(s)
  PROVE  /\ readers' \in [Locks -> SUBSET Tasks]
         /\ writer' \in [Locks -> Tasks \cup {NoTask}]
         /\ pc' \in [Tasks -> SessionPcs \cup AdminPcs]
         /\ current_import_device_id' \in [Sessions -> BusIds \cup {NoDev}]
  <1>1. readers' \in [Locks -> SUBSET Tasks]
        /\ writer' \in [Locks -> Tasks \cup {NoTask}]
    BY DropGuardsType DEF Reply, TypeOK, Tasks
  <1>2. pc' \in [Tasks -> SessionPcs \cup AdminPcs]
        /\ current_import_device_id' \in [Sessions -> BusIds \cup {NoDev}]
    BY DEF Reply, TypeOK, SetPc, SessionPcs, Tasks
  <1>3. QED BY <1>1, <1>2

-----------------------------------------------------------------------------
(* The admin argument stays a bus id while the call runs.                 *)
LEMMA AdminArgStep == TypeOK /\ AdminArgOK /\ [Next]_vars => AdminArgOK'
<1> SUFFICES ASSUME TypeOK, AdminArgOK, [Next]_vars,
                    NEW a \in Admins,
                    pc'[a] \in {"add", "remove", "remove_used"}
             PROVE  bus_id_arg'[a] \in BusIds
  BY DEF AdminArgOK
<1>1. CASE \E l \in Locks : GrantRead(l) \/ GrantWrite(l)
  BY <1>1 DEF GrantRead, GrantWrite, AdminArgOK
<1>2. CASE \E s \in Sessions : Accept(s) \/ ReadCommand(s) \/ ReadError(s)
                                \/ SessionStep(s)
  <2>1. PICK s \in Sessions : Accept(s) \/ ReadCommand(s) \/ ReadError(s)
                                \/ SessionStep(s)
    BY <1>2
  <2>2. s # a
    BY DEF Tasks
  <2>3. pc'[a] = pc[a] /\ bus_id_arg' = bus_id_arg
    BY <2>1, <2>2 DEF Accept, ReadCommand, ReadError, SessionStep,
       DispatchDevlist, DevlistReply, DispatchImport, ImportSecondLock,
       ImportDevice, ImportReply, Submit, SubmitPanic, Unlink,
       ReleaseSecondLock, ReleaseDevice, Reply, SetPc, TypeOK, Tasks
  <2>4. QED BY <2>3 DEF AdminArgOK
<1>3. CASE \E o \in Admins : CallAddDevice(o) \/ CallRemoveDevice(o)
  BY <1>3 DEF CallAddDevice, CallRemoveDevice, AdminArgOK, SetPc, TypeOK,
             Tasks
<1>4. CASE \E o \in Admins : AdminStep(o)
  BY <1>4 DEF AdminStep, AddDevice, RemoveFromAvailable, RemoveCheckUsed,
             RemoveVerdict, AdminArgOK, SetPc, TypeOK, Tasks
<1>5. CASE UNCHANGED vars
  BY <1>5 DEF vars, AdminArgOK
<1>6. QED BY <1>1, <1>2, <1>3, <1>4, <1>5 DEF Next

(* Typing is preserved by every step.                                      *)
LEMMA TypeInvStep == TypeInv /\ [Next]_vars => TypeInv'
<1> SUFFICES ASSUME TypeOK, AdminArgOK, [Next]_vars
             PROVE  TypeOK' /\ AdminArgOK'
  BY DEF TypeInv
<1>0. AdminArgOK'
  BY AdminArgStep
<1> SUFFICES TypeOK'
  BY <1>0
<1>1. ASSUME NEW l \in Locks, GrantRead(l) PROVE TypeOK'
  <2>1. Head(waiting[l]).task \in Tasks
        /\ Tail(waiting[l]) \in Seq(LockRequest)
    BY <1>1, QueueHeadTail DEF GrantRead, TypeOK
  <2>2. QED BY <1>1, <2>1 DEF GrantRead, TypeOK
<1>2. ASSUME NEW l \in Locks, GrantWrite(l) PROVE TypeOK'
  <2>1. Head(waiting[l]).task \in Tasks
        /\ Tail(waiting[l]) \in Seq(LockRequest)
    BY <1>2, QueueHeadTail DEF GrantWrite, TypeOK
  <2>2. QED BY <1>2, <2>1 DEF GrantWrite, TypeOK
<1>3. ASSUME NEW s \in Sessions, Accept(s) PROVE TypeOK'
  BY <1>3 DEF Accept, lockVars, TypeOK, SetPc, SessionPcs, Tasks
<1>4. ASSUME NEW s \in Sessions, ReadCommand(s) PROVE TypeOK'
  <2>1. waiting' \in [Locks -> Seq(LockRequest)]
    BY <1>4, EnqueueType DEF ReadCommand, TypeOK, Tasks, Locks, Modes
  <2>2. command' \in [Sessions -> Commands]
    BY <1>4 DEF ReadCommand, TypeOK, ClientCommands, Commands
  <2>3. QED BY <1>4, <2>1, <2>2 DEF ReadCommand, TypeOK, SetPc, SessionPcs,
                                    Tasks
<1>5. ASSUME NEW s \in Sessions, ReadError(s) PROVE TypeOK'
  <2>1. waiting' \in [Locks -> Seq(LockRequest)]
    BY <1>5, EnqueueType DEF ReadError, TypeOK, Tasks, Locks, Modes,
                             ReleaseLockOrder
  <2>2. QED BY <1>5, <2>1 DEF ReadError, TypeOK, SetPc, SessionPcs, Tasks
<1>6. ASSUME NEW s \in Sessions, SessionStep(s) PROVE TypeOK'
  <2>1. CASE DispatchDevlist(s)
    <3>1. waiting' \in [Locks -> Seq(LockRequest)]
      BY <2>1, EnqueueType DEF DispatchDevlist, TypeOK, Tasks, Locks, Modes
    <3>2. QED BY <2>1, <3>1 DEF DispatchDevlist, TypeOK, SetPc, SessionPcs,
                                Tasks
  <2>2. CASE DevlistReply(s)
    BY <2>2, ReplyType DEF DevlistReply, TypeOK
  <2>3. CASE DispatchImport(s)
    <3>1. waiting' \in [Locks -> Seq(LockRequest)]
      BY <2>3, EnqueueType DEF DispatchImport, TypeOK, Tasks, Locks, Modes,
                               ImportLockOrder
    <3>2. readers' \in [Locks -> SUBSET Tasks]
          /\ writer' \in [Locks -> Tasks \cup {NoTask}]
      BY <2>3, DropGuardsType DEF DispatchImport, TypeOK, Tasks
    <3>3. QED BY <2>3, <3>1, <3>2 DEF DispatchImport, TypeOK, SetPc,
                                      SessionPcs, Tasks
  <2>4. CASE ImportSecondLock(s)
    <3>1. waiting' \in [Locks -> Seq(LockRequest)]
      BY <2>4, EnqueueType DEF ImportSecondLock, TypeOK, Tasks, Locks,
                               Modes, ImportLockOrder
    <3>2. QED BY <2>4, <3>1 DEF ImportSecondLock, TypeOK, SetPc,
                                SessionPcs, Tasks
  <2>5. CASE ImportDevice(s)
    BY <2>5 DEF ImportDevice, lockVars, TypeOK, SetPc, SessionPcs, Tasks, Commands,
                OpCommands, UrbCommands, NoCommand
  <2>6. CASE ImportReply(s)
    BY <2>6, ReplyType DEF ImportReply, TypeOK
  <2>7. CASE Submit(s)
    BY <2>7, ReplyType DEF Submit, TypeOK
  <2>8. CASE SubmitPanic(s)
    <3>1. readers' \in [Locks -> SUBSET Tasks]
          /\ writer' \in [Locks -> Tasks \cup {NoTask}]
      BY <2>8, DropGuardsType DEF SubmitPanic, TypeOK, Tasks
    <3>2. QED BY <2>8, <3>1 DEF SubmitPanic, TypeOK, SetPc, SessionPcs,
                                Tasks
  <2>9. CASE Unlink(s)
    BY <2>9, ReplyType DEF Unlink, TypeOK
  <2>10. CASE ReleaseSecondLock(s)
    <3>1. waiting' \in [Locks -> Seq(LockRequest)]
      BY <2>10, EnqueueType DEF ReleaseSecondLock, TypeOK, Tasks, Locks,
                                Modes, ReleaseLockOrder
    <3>2. QED BY <2>10, <3>1 DEF ReleaseSecondLock, TypeOK, SetPc,
                                 SessionPcs, Tasks
  <2>11. CASE ReleaseDevice(s)
    <3>1. readers' \in [Locks -> SUBSET Tasks]
          /\ writer' \in [Locks -> Tasks \cup {NoTask}]
      BY <2>11, DropGuardsType DEF ReleaseDevice, TypeOK, Tasks
    <3>2. QED BY <2>11, <3>1 DEF ReleaseDevice, TypeOK, SetPc, SessionPcs,
                                 Tasks
  <2>12. QED BY <2>1, <2>2, <2>3, <2>4, <2>5, <2>6, <2>7, <2>8, <2>9,
                <2>10, <2>11, <1>6 DEF SessionStep
<1>7. ASSUME NEW a \in Admins, CallAddDevice(a) PROVE TypeOK'
  <2>1. waiting' \in [Locks -> Seq(LockRequest)]
    BY <1>7, EnqueueType DEF CallAddDevice, TypeOK, Tasks, Locks, Modes
  <2>2. QED BY <1>7, <2>1 DEF CallAddDevice, TypeOK, SetPc, AdminPcs, Tasks
<1>8. ASSUME NEW a \in Admins, CallRemoveDevice(a) PROVE TypeOK'
  <2>1. waiting' \in [Locks -> Seq(LockRequest)]
    BY <1>8, EnqueueType DEF CallRemoveDevice, TypeOK, Tasks, Locks, Modes
  <2>2. QED BY <1>8, <2>1 DEF CallRemoveDevice, TypeOK, SetPc, AdminPcs,
                              Tasks, Verdicts
<1>9. ASSUME NEW a \in Admins, AdminStep(a) PROVE TypeOK'
  <2>1. CASE AddDevice(a)
    <3>1. bus_id_arg[a] \in BusIds
      BY <2>1 DEF AddDevice, AdminArgOK
    <3>2. readers' \in [Locks -> SUBSET Tasks]
          /\ writer' \in [Locks -> Tasks \cup {NoTask}]
      BY <2>1, DropGuardsType DEF AddDevice, TypeOK, Tasks
    <3>3. QED BY <2>1, <3>1, <3>2 DEF AddDevice, TypeOK, SetPc, AdminPcs,
                                      Tasks
  <2>2. CASE RemoveFromAvailable(a)
    <3>1. readers' \in [Locks -> SUBSET Tasks]
          /\ writer' \in [Locks -> Tasks \cup {NoTask}]
      BY <2>2, DropGuardsType DEF RemoveFromAvailable, TypeOK, Tasks
    <3>2. QED BY <2>2, <3>1 DEF RemoveFromAvailable, TypeOK, SetPc,
                                AdminPcs, Tasks, Verdicts
  <2>3. CASE RemoveCheckUsed(a)
    <3>1. waiting' \in [Locks -> Seq(LockRequest)]
      BY <2>3, EnqueueType DEF RemoveCheckUsed, TypeOK, Tasks, Locks, Modes
    <3>2. QED BY <2>3, <3>1 DEF RemoveCheckUsed, TypeOK, SetPc, AdminPcs,
                                Tasks
  <2>4. CASE RemoveVerdict(a)
    <3>1. readers' \in [Locks -> SUBSET Tasks]
          /\ writer' \in [Locks -> Tasks \cup {NoTask}]
      BY <2>4, DropGuardsType DEF RemoveVerdict, TypeOK, Tasks
    <3>2. QED BY <2>4, <3>1 DEF RemoveVerdict, TypeOK, SetPc, AdminPcs,
                                Tasks, Verdicts
  <2>5. QED BY <1>9, <2>1, <2>2, <2>3, <2>4 DEF AdminStep
<1>10. CASE UNCHANGED vars
  BY <1>10 DEF vars, TypeOK
<1>11. QED BY <1>1, <1>2, <1>3, <1>4, <1>5, <1>6, <1>7, <1>8, <1>9, <1>10
              DEF Next

(* TypeOK is an invariant of the specification.                           *)
THEOREM TypeCorrect == Spec => []TypeOK
<1>1. Init => TypeInv
  BY DEF Init, TypeInv, TypeOK, AdminArgOK, Tasks, SessionPcs, AdminPcs,
         Verdicts, Commands, NoCommand
<1>2. QED BY <1>1, TypeInvStep, PTL DEF Spec, TypeInv

-----------------------------------------------------------------------------
(* A step that leaves both collections alone, at most clears sessions'   *)
(* bound ids, and starts no add_device, keeps ownership intact.           *)
LEMMA NeutralStep ==
  ASSUME TypeOK, AddArgFresh, RegistryDisjoint, ExclusiveBinding,
         available_devices' = available_devices,
         used_devices' = used_devices,
         \A a \in Admins : pc'[a] = "add"
             => pc[a] = "add" /\ bus_id_arg'[a] = bus_id_arg[a],
         \A s \in Sessions : current_import_device_id'[s]
                               \in {current_import_device_id[s], NoDev}
  PROVE  AddArgFresh' /\ RegistryDisjoint' /\ ExclusiveBinding'
  <1>1. AddArgFresh'
    BY DEF AddArgFresh
  <1>2. RegistryDisjoint'
    BY DEF RegistryDisjoint
  <1>3. ExclusiveBinding'
    BY DEF ExclusiveBinding, TypeOK
  <1>4. QED BY <1>1, <1>2, <1>3

(* A session step changes no admin's pc or argument.                     *)
LEMMA SessionStepAdmins ==
  ASSUME TypeOK, NEW s \in Sessions, NEW p,
         pc' = [pc EXCEPT ![s] = p], bus_id_arg' = bus_id_arg
  PROVE  \A a \in Admins : pc'[a] = pc[a] /\ bus_id_arg'[a] = bus_id_arg[a]
  BY DEF TypeOK, Tasks

(* What Reply does to the bound ids and the admins.                       *)
LEMMA ReplyNeutral ==
  ASSUME TypeOK, NEW s \in Sessions, Reply(s)
  PROVE  /\ \A a \in Admins : pc'[a] = pc[a]
         /\ \A r \in Sessions : current_import_device_id'[r]
                                  \in {current_import_device_id[r], NoDev}
  BY DEF Reply, SetPc, TypeOK, Tasks

(* OwnershipInv holds initially ...                                        *)
LEMMA OwnershipInit == Init => OwnershipInv
BY DEF Init, OwnershipInv, TypeInv, TypeOK, AdminArgOK, AddArgFresh,
       SingleOwnership, RegistryDisjoint, ExclusiveBinding, Tasks,
       SessionPcs, AdminPcs, Verdicts, Commands, NoCommand

(* ... and every step of the sessions, admins and locks preserves it.     *)
LEMMA OwnershipStep == OwnershipInv /\ [Next]_vars => OwnershipInv'
<1> SUFFICES ASSUME TypeInv, AddArgFresh, RegistryDisjoint,
                    ExclusiveBinding, [Next]_vars
             PROVE  TypeInv' /\ AddArgFresh' /\ RegistryDisjoint'
                    /\ ExclusiveBinding'
  BY DEF OwnershipInv, SingleOwnership
<1>0. TypeInv'
  BY TypeInvStep
<1> TypeOK /\ AdminArgOK
  BY DEF TypeInv
<1> SUFFICES AddArgFresh' /\ RegistryDisjoint' /\ ExclusiveBinding'
  BY <1>0
<1>1. CASE \E l \in Locks : GrantRead(l) \/ GrantWrite(l)
  BY <1>1, NeutralStep DEF GrantRead, GrantWrite
<1>2. ASSUME NEW s \in Sessions,
             Accept(s) \/ ReadCommand(s) \/ ReadError(s)
      PROVE  AddArgFresh' /\ RegistryDisjoint' /\ ExclusiveBinding'
  <2>1. \A a \in Admins : pc'[a] = pc[a] /\ bus_id_arg'[a] = bus_id_arg[a]
    BY <1>2, SessionStepAdmins DEF Accept, ReadCommand, ReadError, SetPc
  <2>2. \A r \in Sessions : current_import_device_id'[r]
                             \in {current_import_device_id[r], NoDev}
    BY <1>2 DEF Accept, ReadCommand, ReadError, TypeOK
  <2>3. UNCHANGED <<available_devices, used_devices>>
    BY <1>2 DEF Accept, ReadCommand, ReadError
  <2>4. QED BY <2>1, <2>2, <2>3, NeutralStep
<1>3. ASSUME NEW s \in Sessions, SessionStep(s)
      PROVE  AddArgFresh' /\ RegistryDisjoint' /\ ExclusiveBinding'
  <2>1. CASE DevlistReply(s) \/ ImportReply(s) \/ Submit(s) \/ Unlink(s)
    <3>1. Reply(s) /\ UNCHANGED <<available_devices, used_devices,
                                  bus_id_arg>>
      BY <2>1 DEF DevlistReply, ImportReply, Submit, Unlink
    <3>2. QED BY <3>1, ReplyNeutral, NeutralStep
  <2>2. CASE DispatchDevlist(s) \/ DispatchImport(s) \/ ImportSecondLock(s)
             \/ SubmitPanic(s) \/ ReleaseSecondLock(s)
    <3>1. \A a \in Admins : pc'[a] = pc[a] /\ bus_id_arg'[a] = bus_id_arg[a]
      BY <2>2, SessionStepAdmins DEF DispatchDevlist, DispatchImport,
         ImportSecondLock, SubmitPanic, ReleaseSecondLock, SetPc
    <3>2. QED BY <2>2, <3>1, NeutralStep DEF DispatchDevlist,
                 DispatchImport, ImportSecondLock, SubmitPanic,
                 ReleaseSecondLock, TypeOK
  <2>3. CASE ImportDevice(s)
    <3> DEFINE b == command[s].busid
    <3>1. \A a \in Admins : pc'[a] = pc[a] /\ bus_id_arg'[a] = bus_id_arg[a]
      BY <2>3, SessionStepAdmins DEF ImportDevice, SetPc
    <3>2. AddArgFresh'
      BY <2>3, <3>1 DEF ImportDevice, AddArgFresh
    <3>3. RegistryDisjoint'
      BY <2>3 DEF ImportDevice, RegistryDisjoint
    <3>4. ExclusiveBinding'
      BY <2>3 DEF ImportDevice, ExclusiveBinding, RegistryDisjoint, TypeOK
    <3>5. QED BY <3>2, <3>3, <3>4
  <2>4. CASE ReleaseDevice(s)
    <3>1. \A a \in Admins : pc'[a] = pc[a] /\ bus_id_arg'[a] = bus_id_arg[a]
      BY <2>4, SessionStepAdmins DEF ReleaseDevice, SetPc
    <3>2. AddArgFresh'
      BY <2>4, <3>1 DEF ReleaseDevice, AddArgFresh, ExclusiveBinding,
         TypeOK
    <3>3. RegistryDisjoint'
      BY <2>4 DEF ReleaseDevice, RegistryDisjoint
    <3>4. ExclusiveBinding'
      BY <2>4 DEF ReleaseDevice, ExclusiveBinding, TypeOK
    <3>5. QED BY <3>2, <3>3, <3>4
  <2>5. QED BY <1>3, <2>1, <2>2, <2>3, <2>4 DEF SessionStep
<1>4. ASSUME NEW a \in Admins, CallAddDevice(a)
      PROVE  AddArgFresh' /\ RegistryDisjoint' /\ ExclusiveBinding'
  <2>1. AddArgFresh'
    BY <1>4 DEF CallAddDevice, AddArgFresh, SetPc, TypeOK, Tasks
  <2>2. QED BY <1>4, <2>1 DEF CallAddDevice, RegistryDisjoint,
                              ExclusiveBinding
<1>5. ASSUME NEW a \in Admins, CallRemoveDevice(a)
      PROVE  AddArgFresh' /\ RegistryDisjoint' /\ ExclusiveBinding'
  <2>1. \A o \in Admins : pc'[o] = "add"
           => pc[o] = "add" /\ bus_id_arg'[o] = bus_id_arg[o]
    BY <1>5 DEF CallRemoveDevice, SetPc, TypeOK, Tasks
  <2>2. QED BY <1>5, <2>1, NeutralStep DEF CallRemoveDevice
<1>6. ASSUME NEW a \in Admins, AdminStep(a)
      PROVE  AddArgFresh' /\ RegistryDisjoint' /\ ExclusiveBinding'
  <2>1. CASE AddDevice(a)
    <3>1. AddArgFresh'
      BY <2>1 DEF AddDevice, AddArgFresh, SetPc, TypeOK, Tasks
    <3>2. RegistryDisjoint'
      BY <2>1 DEF AddDevice, AddArgFresh, RegistryDisjoint
    <3>3. ExclusiveBinding'
      BY <2>1 DEF AddDevice, ExclusiveBinding
    <3>4. QED BY <3>1, <3>2, <3>3
  <2>2. CASE RemoveFromAvailable(a)
    <3>1. AddArgFresh'
      BY <2>2 DEF RemoveFromAvailable, AddArgFresh, SetPc, TypeOK, Tasks
    <3>2. QED BY <2>2, <3>1 DEF RemoveFromAvailable, RegistryDisjoint,
                                ExclusiveBinding
  <2>3. CASE RemoveCheckUsed(a) \/ RemoveVerdict(a)
    <3>1. \A o \in Admins : pc'[o] = "add"
             => pc[o] = "add" /\ bus_id_arg'[o] = bus_id_arg[o]
      BY <2>3 DEF RemoveCheckUsed, RemoveVerdict, SetPc, TypeOK, Tasks
    <3>2. QED BY <2>3, <3>1, NeutralStep DEF RemoveCheckUsed, RemoveVerdict
  <2>4. QED BY <1>6, <2>1, <2>2, <2>3 DEF AdminStep
<1>7. CASE UNCHANGED vars
  BY <1>7, NeutralStep DEF vars
<1>8. QED BY <1>1, <1>2, <1>3, <1>4, <1>5, <1>6, <1>7 DEF Next

(* Ownership of devices is never shared: no device is both available and *)
(* imported, and each imported device is bound to at most one session.   *)
THEOREM OwnershipSafe == Spec => []SingleOwnership
BY OwnershipInit, OwnershipStep, PTL DEF Spec, OwnershipInv

-----------------------------------------------------------------------------
(* Refinement of the atomic registry (RegistryAbstract).                  *)

(* The registry is left alone by every step other than the import under   *)
(* both write locks, the release under both write locks, the push of      *)
(* add_device and the drop of an available device by remove_device.      *)
LEMMA RegistryUntouched ==
  ASSUME [Next]_vars,
         ~\E s \in Sessions : ImportDevice(s) \/ ReleaseDevice(s),
         ~\E a \in Admins : AddDevice(a) \/ RemoveFromAvailable(a)
  PROVE  UNCHANGED <<available_devices, used_devices>>
<1>1. CASE \E l \in Locks : GrantRead(l) \/ GrantWrite(l)
  BY <1>1 DEF GrantRead, GrantWrite
<1>2. CASE \E s \in Sessions : Accept(s) \/ ReadCommand(s) \/ ReadError(s)
  BY <1>2 DEF Accept, ReadCommand, ReadError
<1>3. CASE \E s \in Sessions : SessionStep(s)
  BY <1>3 DEF SessionStep, DispatchDevlist, DevlistReply, DispatchImport,
     ImportSecondLock, ImportReply, Submit, SubmitPanic, Unlink,
     ReleaseSecondLock
<1>4. CASE \E a \in Admins : CallAddDevice(a) \/ CallRemoveDevice(a)
  BY <1>4 DEF CallAddDevice, CallRemoveDevice
<1>5. CASE \E a \in Admins : AdminStep(a)
  BY <1>5 DEF AdminStep, RemoveCheckUsed, RemoveVerdict
<1>6. CASE UNCHANGED vars
  BY <1>6 DEF vars
<1>7. QED BY <1>1, <1>2, <1>3, <1>4, <1>5, <1>6 DEF Next

(* Under OwnershipInv every step is a step of the atomic registry or      *)
(* leaves it unchanged.                                                   *)
LEMMA RegistryStep ==
  OwnershipInv /\ [Next]_vars => [Registry!Next]_Registry!regVars
<1> SUFFICES ASSUME TypeOK, AdminArgOK, AddArgFresh, [Next]_vars
             PROVE  [Registry!Next]_Registry!regVars
  BY DEF OwnershipInv, TypeInv
<1>1. ASSUME NEW s \in Sessions, ImportDevice(s)
      PROVE  [Registry!Next]_Registry!regVars
  <2> DEFINE b == command[s].busid
  <2>1. CASE b \in available_devices
    <3>1. b \in BusIds
      BY <2>1 DEF TypeOK
    <3>2. Registry!Import(b)
      BY <1>1, <2>1 DEF ImportDevice, Registry!Import
    <3>3. QED BY <3>1, <3>2 DEF Registry!Next
  <2>2. CASE b \notin available_devices
    BY <1>1, <2>2 DEF ImportDevice, Registry!regVars
  <2>3. QED BY <2>1, <2>2
<1>2. ASSUME NEW s \in Sessions, ReleaseDevice(s)
      PROVE  [Registry!Next]_Registry!regVars
  <2> DEFINE b == current_import_device_id[s]
  <2>1. CASE b \in used_devices
    <3>1. b \in BusIds
      BY <2>1 DEF TypeOK
    <3>2. Registry!Release(b)
      BY <1>2, <2>1 DEF ReleaseDevice, Registry!Release
    <3>3. QED BY <3>1, <3>2 DEF Registry!Next
  <2>2. CASE b \notin used_devices
    BY <1>2, <2>2 DEF ReleaseDevice, Registry!regVars
  <2>3. QED BY <2>1, <2>2
<1>3. ASSUME NEW a \in Admins, AddDevice(a)
      PROVE  [Registry!Next]_Registry!regVars
  <2> DEFINE b == bus_id_arg[a]
  <2>1. b \in BusIds
    BY <1>3 DEF AddDevice, AdminArgOK
  <2>2. b \notin available_devices \cup used_devices
    BY <1>3 DEF AddDevice, AddArgFresh
  <2>3. Registry!Add(b)
    BY <1>3, <2>2 DEF AddDevice, Registry!Add
  <2>4. QED BY <2>1, <2>3 DEF Registry!Next
<1>4. ASSUME NEW a \in Admins, RemoveFromAvailable(a)
      PROVE  [Registry!Next]_Registry!regVars
  <2> DEFINE b == bus_id_arg[a]
  <2>1. b \in BusIds
    BY <1>4 DEF RemoveFromAvailable, TypeOK
  <2>2. Registry!Remove(b)
    BY <1>4 DEF RemoveFromAvailable, Registry!Remove
  <2>3. QED BY <2>1, <2>2 DEF Registry!Next
<1>5. CASE /\ ~\E s \in Sessions : ImportDevice(s) \/ ReleaseDevice(s)
           /\ ~\E a \in Admins : AddDevice(a) \/ RemoveFromAvailable(a)
  BY <1>5, RegistryUntouched DEF Registry!regVars
<1>6. QED BY <1>1, <1>2, <1>3, <1>4, <1>5

(* The concurrent server implements the atomic registry of spec 4.5: the *)
(* lock dance of handler, add_device and remove_device changes the two   *)
(* collections only by whole imports, releases, adds and removes.        *)
THEOREM RegistryRefinement == Spec => RegistryRefined
<1>1. Init => Registry!Init
  BY DEF Init, Registry!Init
<1>2. QED BY <1>1, OwnershipInit, OwnershipStep, RegistryStep, PTL
          DEF Spec, RegistryRefined, Registry!Spec

-----------------------------------------------------------------------------
(* A device leaves available_devices \cup used_devices only in the step   *)
(* where remove_device drops it and answers Ok: import, release, a        *)
(* panicking submit and a failed write never lose one.                    *)
LEMMA NoDeviceLostStep ==
  ASSUME TypeOK, [Next]_vars
  PROVE  \A b \in (available_devices \cup used_devices)
                   \ (available_devices' \cup used_devices') :
           \E a \in Admins : bus_id_arg[a] = b /\ verdict'[a] = "ok"
                             /\ pc[a] = "remove"
<1>1. CASE \E s \in Sessions : ImportDevice(s)
  BY <1>1 DEF ImportDevice
<1>2. CASE \E s \in Sessions : ReleaseDevice(s)
  BY <1>2 DEF ReleaseDevice
<1>3. CASE \E a \in Admins : AddDevice(a)
  BY <1>3 DEF AddDevice
<1>4. ASSUME NEW a \in Admins, RemoveFromAvailable(a)
      PROVE  \A b \in (available_devices \cup used_devices)
                       \ (available_devices' \cup used_devices') :
               \E o \in Admins : bus_id_arg[o] = b /\ verdict'[o] = "ok"
                                 /\ pc[o] = "remove"
  <2>1. verdict'[a] = "ok" /\ pc[a] = "remove"
    BY <1>4 DEF RemoveFromAvailable, TypeOK
  <2>2. QED BY <1>4, <2>1 DEF RemoveFromAvailable
<1>5. CASE /\ ~\E s \in Sessions : ImportDevice(s) \/ ReleaseDevice(s)
           /\ ~\E a \in Admins : AddDevice(a) \/ RemoveFromAvailable(a)
  BY <1>5, RegistryUntouched
<1>6. QED BY <1>1, <1>2, <1>3, <1>4, <1>5

(* NoDeviceLost, for every value of the constants.                       *)
THEOREM DevicesNeverLost == Spec => NoDeviceLost
<1>1. TypeOK /\ [Next]_vars
        => [\A b \in (available_devices \cup used_devices)
                     \ (available_devices' \cup used_devices') :
              \E a \in Admins : bus_id_arg[a] = b /\ verdict'[a] = "ok"
                                /\ pc[a] = "remove"]_vars
  BY NoDeviceLostStep
<1>2. QED BY <1>1, TypeCorrect, PTL DEF Spec, NoDeviceLost

=============================================================================
