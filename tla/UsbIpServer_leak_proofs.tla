----------------------- MODULE UsbIpServer_leak_proofs -----------------------
(***************************************************************************)
(* NoOrphan for every value of the constants, when clients follow the     *)
(* protocol and reply writes succeed: the two leaks that the runs          *)
(* reimport_leak and write_error_leak exhibit are the only ways a device   *)
(* can stay in used_devices without a session to give it back.             *)
(***************************************************************************)
EXTENDS UsbIpServer_proofs

USE ConstantsAssumption

(* A session that is about to overwrite or forget its bound id has none: *)
(* an idle session slot, an import between its two lock acquisitions, and *)
(* an OP_REQ_IMPORT waiting for dispatch.                                 *)
UnboundWhenForgetting ==
  \A s \in Sessions :
    /\ pc[s] \in {"idle", "import_1", "import_2"}
         => current_import_device_id[s] = NoDev
    /\ pc[s] = "dispatch" /\ command[s].op = "import"
         => current_import_device_id[s] = NoDev

(* The inductive invariant behind NoOrphan.                               *)
LeakFreeInv == TypeInv /\ UnboundWhenForgetting /\ NoOrphan

-----------------------------------------------------------------------------
(* An administrative step leaves every session's pc alone.                *)
LEMMA AdminStepSessions ==
  ASSUME TypeOK, NEW a \in Admins, NEW p, pc' = [pc EXCEPT ![a] = p]
  PROVE  \A s \in Sessions : pc'[s] = pc[s]
  BY DEF TypeOK, Tasks

(* With reply writes that cannot fail, Reply resumes reading and keeps    *)
(* the session's bound id.                                                *)
LEMMA ReplyResumes ==
  ASSUME ~WriteMayFail, NEW s \in Sessions, Reply(s)
  PROVE  /\ pc' = [pc EXCEPT ![s] = "read"]
         /\ UNCHANGED current_import_device_id
  BY DEF Reply, SetPc

(* A step that changes nothing of used_devices, the bound ids and the     *)
(* commands, and moves no session to a pc where it forgets its id, keeps  *)
(* the invariant.                                                         *)
LEMMA QuietStep ==
  ASSUME UnboundWhenForgetting, NoOrphan,
         UNCHANGED <<used_devices, current_import_device_id, command>>,
         \A s \in Sessions : pc'[s] = pc[s]
                             \/ pc'[s] \in {"read", "devlist", "release_1",
                                            "release_2", "import_reply"}
  PROVE  UnboundWhenForgetting' /\ NoOrphan'
  BY DEF UnboundWhenForgetting, NoOrphan

(* LeakFreeInv holds initially ...                                        *)
LEMMA LeakFreeInit == Init => LeakFreeInv
<1>1. Init => TypeInv
  BY OwnershipInit DEF OwnershipInv
<1>2. Init => UnboundWhenForgetting /\ NoOrphan
  BY DEF Init, UnboundWhenForgetting, NoOrphan, Tasks
<1>3. QED BY <1>1, <1>2 DEF LeakFreeInv

(* ... and, with conforming clients and reliable writes, every step       *)
(* preserves it.                                                          *)
LEMMA LeakFreeStep ==
  ASSUME ConformingClients, ~WriteMayFail
  PROVE  LeakFreeInv /\ [Next]_vars => LeakFreeInv'
<1> SUFFICES ASSUME TypeInv, UnboundWhenForgetting, NoOrphan, [Next]_vars
             PROVE  LeakFreeInv'
  BY DEF LeakFreeInv
<1>0. TypeInv'
  BY TypeInvStep
<1> TypeOK
  BY DEF TypeInv
<1> SUFFICES UnboundWhenForgetting' /\ NoOrphan'
  BY <1>0 DEF LeakFreeInv
<1>1. CASE \E l \in Locks : GrantRead(l) \/ GrantWrite(l)
  BY <1>1, QuietStep DEF GrantRead, GrantWrite
<1>2. ASSUME NEW s \in Sessions, Accept(s)
      PROVE  UnboundWhenForgetting' /\ NoOrphan'
  <2>1. UNCHANGED current_import_device_id
    BY <1>2 DEF Accept, UnboundWhenForgetting, TypeOK
  <2>2. QED BY <1>2, <2>1, QuietStep DEF Accept, SetPc, TypeOK, Tasks
<1>3. ASSUME NEW s \in Sessions, ReadCommand(s)
      PROVE  UnboundWhenForgetting' /\ NoOrphan'
  <2>1. current_import_device_id[s] # NoDev => command'[s].op # "import"
    BY <1>3 DEF ReadCommand, ClientCommands, UrbCommands, TypeOK
  <2>2. QED BY <1>3, <2>1 DEF ReadCommand, SetPc, UnboundWhenForgetting,
                              NoOrphan, TypeOK, Tasks
<1>4. ASSUME NEW s \in Sessions, ReadError(s)
      PROVE  UnboundWhenForgetting' /\ NoOrphan'
  BY <1>4 DEF ReadError, SetPc, UnboundWhenForgetting, NoOrphan, TypeOK,
     Tasks
<1>5. ASSUME NEW s \in Sessions, SessionStep(s)
      PROVE  UnboundWhenForgetting' /\ NoOrphan'
  <2>1. CASE DevlistReply(s) \/ ImportReply(s) \/ Submit(s) \/ Unlink(s)
    <3>1. Reply(s) /\ UNCHANGED <<used_devices, command>>
      BY <2>1 DEF DevlistReply, ImportReply, Submit, Unlink
    <3>2. QED BY <3>1, ReplyResumes, QuietStep DEF TypeOK, Tasks
  <2>2. CASE DispatchDevlist(s) \/ ImportSecondLock(s) \/ ReleaseSecondLock(s)
    BY <2>2 DEF DispatchDevlist, ImportSecondLock, ReleaseSecondLock,
       SetPc, UnboundWhenForgetting, NoOrphan, TypeOK, Tasks
  <2>3. CASE DispatchImport(s)
    <3>1. UNCHANGED current_import_device_id
      BY <2>3 DEF DispatchImport, UnboundWhenForgetting, TypeOK
    <3>2. QED BY <2>3, <3>1 DEF DispatchImport, SetPc,
                                UnboundWhenForgetting, NoOrphan, TypeOK, Tasks
  <2>4. CASE ImportDevice(s)
    <3>1. current_import_device_id[s] = NoDev
      BY <2>4 DEF ImportDevice, UnboundWhenForgetting
    <3>2. NoOrphan'
      BY <2>4, <3>1 DEF ImportDevice, NoOrphan, TypeOK
    <3>3. UnboundWhenForgetting'
      BY <2>4 DEF ImportDevice, SetPc, UnboundWhenForgetting, TypeOK, Tasks
    <3>4. QED BY <3>2, <3>3
  <2>5. CASE SubmitPanic(s)
    BY <2>5 DEF SubmitPanic, SetPc, UnboundWhenForgetting, NoOrphan,
       TypeOK, Tasks
  <2>6. CASE ReleaseDevice(s)
    <3>1. NoOrphan'
      BY <2>6 DEF ReleaseDevice, NoOrphan, TypeOK
    <3>2. UnboundWhenForgetting'
      BY <2>6 DEF ReleaseDevice, SetPc, UnboundWhenForgetting, TypeOK, Tasks
    <3>3. QED BY <3>1, <3>2
  <2>7. QED BY <1>5, <2>1, <2>2, <2>3, <2>4, <2>5, <2>6 DEF SessionStep
<1>6. ASSUME NEW a \in Admins,
             CallAddDevice(a) \/ CallRemoveDevice(a) \/ AdminStep(a)
      PROVE  UnboundWhenForgetting' /\ NoOrphan'
  <2>1. \E p : pc' = [pc EXCEPT ![a] = p]
    BY <1>6 DEF CallAddDevice, CallRemoveDevice, AdminStep, AddDevice,
       RemoveFromAvailable, RemoveCheckUsed, RemoveVerdict, SetPc
  <2>2. \A s \in Sessions : pc'[s] = pc[s]
    BY <2>1, AdminStepSessions
  <2>3. UNCHANGED <<used_devices, current_import_device_id, command>>
    BY <1>6 DEF CallAddDevice, CallRemoveDevice, AdminStep, AddDevice,
       RemoveFromAvailable, RemoveCheckUsed, RemoveVerdict
  <2>4. QED BY <2>2, <2>3, QuietStep
<1>7. CASE UNCHANGED vars
  BY <1>7, QuietStep DEF vars
<1>8. QED BY <1>1, <1>2, <1>3, <1>4, <1>5, <1>6, <1>7 DEF Next

(* When clients send OP_* requests only before importing and URBs only   *)
(* after, and no reply write fails, every device in used_devices is      *)
(* bound to a session, whose read error will give it back.               *)
THEOREM NoOrphanSafe ==
  ASSUME ConformingClients, ~WriteMayFail
  PROVE  Spec => []NoOrphan
BY LeakFreeInit, LeakFreeStep, PTL DEF Spec, LeakFreeInv

=============================================================================
