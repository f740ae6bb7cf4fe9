----------------------------- MODULE UsbIpServer -----------------------------
(***************************************************************************)
(* The device registry of the USB/IP server (UsbIpServer, two tokio       *)
(* RwLocks) and the per-connection session task that uses it (handler),   *)
(* together with the administrative callers of add_device/remove_device.  *)
(*                                                                         *)
(* A device is its bus id.  Every await point of handler that matters for *)
(* the shared state is a step: a socket read, each lock acquisition, the  *)
(* update made under the locks and the socket write of the reply.  The    *)
(* locks are modelled as tokio's RwLock: fair, first come first served,   *)
(* a waiter at the head of the queue blocks every later waiter.           *)
(***************************************************************************)
EXTENDS Naturals, Sequences, FiniteSets, Relation

CONSTANTS
  Sessions,          \* connection tasks spawned by the acceptor
  Admins,            \* tasks calling add_device / remove_device
  BusIds,            \* bus ids of the devices the server may hold
  InitDevices,       \* the devices given to new_simulated
  AdminOps,          \* which administrative calls the embedding program makes
  ConformingClients, \* clients send OP_* only unattached and URBs only attached
  WriteMayFail,      \* a write_to_socket may return an error
  NoTask, NoDev      \* "no holder" and the None of current_import_device_id

ASSUME ConstantsAssumption ==
  /\ Sessions \cap Admins = {}
  /\ NoTask \notin Sessions \cup Admins
  /\ NoDev \notin BusIds
  /\ InitDevices \subseteq BusIds
  /\ AdminOps \subseteq {"add", "remove"}
  /\ ConformingClients \in BOOLEAN
  /\ WriteMayFail \in BOOLEAN

Tasks == Sessions \cup Admins
Locks == {"available", "used"}
Modes == {"read", "write"}
LockRequest == [task : Tasks, mode : Modes]

(* The decoded UsbIpCommand; only OP_REQ_IMPORT carries data we keep.     *)
NoCommand == [op |-> "none", busid |-> NoDev]
OpCommands == {[op |-> "devlist", busid |-> NoDev]}
                \cup {[op |-> "import", busid |-> b] : b \in BusIds}
UrbCommands == {[op |-> "submit", busid |-> NoDev],
                [op |-> "unlink", busid |-> NoDev]}
Commands == {NoCommand} \cup OpCommands \cup UrbCommands

SessionPcs == {"idle", "read", "dispatch", "devlist", "import_1", "import_2",
               "import_reply", "release_1", "release_2"}
AdminPcs == {"ready", "add", "remove", "remove_used"}
Verdicts == {"none", "ok", "in_use", "not_found"}

VARIABLES
  available_devices,        \* UsbIpServer.available_devices (a Vec of devices)
  used_devices,             \* the keys of UsbIpServer.used_devices
  current_import_device_id, \* handler's local, per session
  command,                  \* the command a session is handling
  pc,                       \* the await point each task is at
  readers, writer, waiting, \* state of each RwLock: holders and FIFO queue
  bus_id_arg,               \* argument of an admin's add/remove call
  verdict                   \* result of an admin's remove_device call

lockVars == <<readers, writer, waiting>>
vars == <<available_devices, used_devices, current_import_device_id, command,
          pc, readers, writer, waiting, bus_id_arg, verdict>>

-----------------------------------------------------------------------------
(* The tokio RwLock: a request joins the FIFO queue; the head is granted   *)
(* once compatible with the holders; a guard is dropped at the end of the  *)
(* scope, which for every scope of this code drops all the task's guards.  *)

Holds(t, l, m) == IF m = "read" THEN t \in readers[l] ELSE writer[l] = t

Enqueue(t, l, m) ==
  waiting' = [waiting EXCEPT ![l] = Append(@, [task |-> t, mode |-> m])]

(* Mutant: a reader-preferring lock, where a read request is granted     *)
(* past queued writers whenever no writer holds the lock.                 *)
GrantReadBarging(l) ==
  \E i \in 1..Len(waiting[l]) :
    /\ waiting[l][i].mode = "read"
    /\ writer[l] = NoTask
    /\ readers' = [readers EXCEPT ![l] = @ \cup {waiting[l][i].task}]
    /\ waiting' = [waiting EXCEPT ![l] =
                     SubSeq(@, 1, i - 1) \o SubSeq(@, i + 1, Len(@))]
    /\ UNCHANGED <<writer, available_devices, used_devices,
                   current_import_device_id, command, pc, bus_id_arg, verdict>>

GrantRead(l) ==
  /\ waiting[l] # << >>
  /\ Head(waiting[l]).mode = "read"
  /\ writer[l] = NoTask
  /\ readers' = [readers EXCEPT ![l] = @ \cup {Head(waiting[l]).task}]
  /\ waiting' = [waiting EXCEPT ![l] = Tail(@)]
  /\ UNCHANGED <<writer, available_devices, used_devices,
                 current_import_device_id, command, pc, bus_id_arg, verdict>>

GrantWrite(l) ==
  /\ waiting[l] # << >>
  /\ Head(waiting[l]).mode = "write"
  /\ writer[l] = NoTask
  /\ readers[l] = {}
  /\ writer' = [writer EXCEPT ![l] = Head(waiting[l]).task]
  /\ waiting' = [waiting EXCEPT ![l] = Tail(@)]
  /\ UNCHANGED <<readers, available_devices, used_devices,
                 current_import_device_id, command, pc, bus_id_arg, verdict>>

DropGuards(t) ==
  /\ readers' = [l \in Locks |-> readers[l] \ {t}]
  /\ writer' = [l \in Locks |-> IF writer[l] = t THEN NoTask ELSE writer[l]]

(* The order in which the two write guards are taken, in the import arm   *)
(* and in the release on a read error.                                    *)
(* Mutant: the release path takes available before used.                 *)
ReleaseLockOrderSwapped == <<"available", "used">>

ImportLockOrder == <<"used", "available">>
ReleaseLockOrder == <<"used", "available">>

-----------------------------------------------------------------------------
Init ==
  /\ available_devices = InitDevices
  /\ used_devices = {}
  /\ current_import_device_id = [s \in Sessions |-> NoDev]
  /\ command = [s \in Sessions |-> NoCommand]
  /\ pc = [t \in Tasks |-> IF t \in Sessions THEN "idle" ELSE "ready"]
  /\ readers = [l \in Locks |-> {}]
  /\ writer = [l \in Locks |-> NoTask]
  /\ waiting = [l \in Locks |-> << >>]
  /\ bus_id_arg = [a \in Admins |-> NoDev]
  /\ verdict = [a \in Admins |-> "none"]

SetPc(t, p) == pc' = [pc EXCEPT ![t] = p]

(* What a client may send next on its connection.                         *)
ClientCommands(s) ==
  IF ConformingClients
  THEN IF current_import_device_id[s] = NoDev THEN OpCommands ELSE UrbCommands
  ELSE OpCommands \cup UrbCommands

(* The acceptor hands a new connection to an idle session task.           *)
Accept(s) ==
  /\ pc[s] = "idle"
  /\ SetPc(s, "read")
  /\ current_import_device_id' = [current_import_device_id EXCEPT ![s] = NoDev]
  /\ UNCHANGED <<available_devices, used_devices, command, lockVars,
                 bus_id_arg, verdict>>

(* read_from_socket returns a command; the session asks for used R.       *)
ReadCommand(s) ==
  /\ pc[s] = "read"
  /\ \E c \in ClientCommands(s) : command' = [command EXCEPT ![s] = c]
  /\ Enqueue(s, "used", "read")
  /\ SetPc(s, "dispatch")
  /\ UNCHANGED <<available_devices, used_devices, current_import_device_id,
                 readers, writer, bus_id_arg, verdict>>

(* Mutant: a read error returns without looking at the bound device.      *)
ReadErrorForgetsDevice(s) ==
  /\ pc[s] = "read"
  /\ SetPc(s, "idle")
  /\ current_import_device_id' = [current_import_device_id EXCEPT ![s] = NoDev]
  /\ UNCHANGED <<available_devices, used_devices, command, lockVars,
                 bus_id_arg, verdict>>

(* read_from_socket fails (EOF or I/O error): an attached session goes to *)
(* return its device, an unattached one returns from handler.             *)
ReadError(s) ==
  /\ pc[s] = "read"
  /\ \/ /\ current_import_device_id[s] # NoDev
        /\ Enqueue(s, ReleaseLockOrder[1], "write")
        /\ SetPc(s, "release_1")
     \/ /\ current_import_device_id[s] = NoDev
        /\ SetPc(s, "idle")
        /\ UNCHANGED waiting
  /\ UNCHANGED <<available_devices, used_devices, current_import_device_id,
                 command, readers, writer, bus_id_arg, verdict>>

ReleaseSecondLock(s) ==
  /\ pc[s] = "release_1"
  /\ Holds(s, ReleaseLockOrder[1], "write")
  /\ Enqueue(s, ReleaseLockOrder[2], "write")
  /\ SetPc(s, "release_2")
  /\ UNCHANGED <<available_devices, used_devices, current_import_device_id,
                 command, readers, writer, bus_id_arg, verdict>>

(* Mutant: the device taken out of used_devices is not pushed back.       *)
ReleaseDeviceNoPush(s) ==
  /\ pc[s] = "release_2"
  /\ Holds(s, "used", "write") /\ Holds(s, "available", "write")
  /\ used_devices' = used_devices \ {current_import_device_id[s]}
  /\ UNCHANGED available_devices
  /\ DropGuards(s)
  /\ SetPc(s, "idle")
  /\ current_import_device_id' = [current_import_device_id EXCEPT ![s] = NoDev]
  /\ UNCHANGED <<command, waiting, bus_id_arg, verdict>>

(* used_devices.remove(&dev_id), pushed back to available_devices (the    *)
(* None arm is unreachable!(), a panic that pushes nothing), then return. *)
ReleaseDevice(s) ==
  LET b == current_import_device_id[s] IN
  /\ pc[s] = "release_2"
  /\ Holds(s, "used", "write") /\ Holds(s, "available", "write")
  /\ used_devices' = used_devices \ {b}
  /\ available_devices' = available_devices \cup ({b} \cap used_devices)
  /\ DropGuards(s)
  /\ SetPc(s, "idle")
  /\ current_import_device_id' = [current_import_device_id EXCEPT ![s] = NoDev]
  /\ UNCHANGED <<command, waiting, bus_id_arg, verdict>>

(* write_to_socket of a reply, then the guards of the match arm drop.  On *)
(* a write error `?` returns from handler: no device is given back.       *)
Reply(s) ==
  /\ DropGuards(s)
  /\ \/ /\ SetPc(s, "read")
        /\ UNCHANGED current_import_device_id
     \/ /\ WriteMayFail
        /\ SetPc(s, "idle")
        /\ current_import_device_id' =
             [current_import_device_id EXCEPT ![s] = NoDev]

(* OP_REQ_DEVLIST: with used R held, take available R.                    *)
DispatchDevlist(s) ==
  /\ pc[s] = "dispatch"
  /\ Holds(s, "used", "read")
  /\ command[s].op = "devlist"
  /\ Enqueue(s, "available", "read")
  /\ SetPc(s, "devlist")
  /\ UNCHANGED <<available_devices, used_devices, current_import_device_id,
                 command, readers, writer, bus_id_arg, verdict>>

DevlistReply(s) ==
  /\ pc[s] = "devlist"
  /\ Holds(s, "available", "read")
  /\ Reply(s)
  /\ UNCHANGED <<available_devices, used_devices, command, waiting,
                 bus_id_arg, verdict>>

(* OP_REQ_IMPORT: forget the current device, drop used R, take the first  *)
(* write guard.                                                           *)
DispatchImport(s) ==
  /\ pc[s] = "dispatch"
  /\ Holds(s, "used", "read")
  /\ command[s].op = "import"
  /\ current_import_device_id' = [current_import_device_id EXCEPT ![s] = NoDev]
  /\ DropGuards(s)
  /\ Enqueue(s, ImportLockOrder[1], "write")
  /\ SetPc(s, "import_1")
  /\ UNCHANGED <<available_devices, used_devices, command, bus_id_arg, verdict>>

ImportSecondLock(s) ==
  /\ pc[s] = "import_1"
  /\ Holds(s, ImportLockOrder[1], "write")
  /\ Enqueue(s, ImportLockOrder[2], "write")
  /\ SetPc(s, "import_2")
  /\ UNCHANGED <<available_devices, used_devices, current_import_device_id,
                 command, readers, writer, bus_id_arg, verdict>>

(* Mutant: the device is cloned into used_devices, not moved.             *)
ImportDeviceKeepsAvailable(s) ==
  LET b == command[s].busid IN
  /\ pc[s] = "import_2"
  /\ Holds(s, "used", "write") /\ Holds(s, "available", "write")
  /\ used_devices' = used_devices \cup ({b} \cap available_devices)
  /\ current_import_device_id' =
       [current_import_device_id EXCEPT ![s] =
          IF b \in available_devices THEN b ELSE NoDev]
  /\ SetPc(s, "import_reply")
  /\ UNCHANGED <<available_devices, command, lockVars, bus_id_arg, verdict>>

(* Under both write guards: move the matching device to used_devices.     *)
ImportDevice(s) ==
  LET b == command[s].busid
      found == b \in available_devices
  IN
  /\ pc[s] = "import_2"
  /\ Holds(s, "used", "write") /\ Holds(s, "available", "write")
  /\ available_devices' = available_devices \ {b}
  /\ used_devices' = used_devices \cup ({b} \cap available_devices)
  /\ current_import_device_id' =
       [current_import_device_id EXCEPT ![s] = IF found THEN b ELSE NoDev]
  /\ SetPc(s, "import_reply")
  /\ UNCHANGED <<command, lockVars, bus_id_arg, verdict>>

ImportReply(s) ==
  /\ pc[s] = "import_reply"
  /\ Reply(s)
  /\ UNCHANGED <<available_devices, used_devices, command, waiting,
                 bus_id_arg, verdict>>

(* USBIP_CMD_SUBMIT: with used R held, find_ep and handle_urb on the      *)
(* bound device and write RET_SUBMIT; unwrap() panics when none is bound. *)
Submit(s) ==
  /\ pc[s] = "dispatch"
  /\ Holds(s, "used", "read")
  /\ command[s].op = "submit"
  /\ current_import_device_id[s] # NoDev
  /\ Reply(s)
  /\ UNCHANGED <<available_devices, used_devices, command, waiting,
                 bus_id_arg, verdict>>

SubmitPanic(s) ==
  /\ pc[s] = "dispatch"
  /\ Holds(s, "used", "read")
  /\ command[s].op = "submit"
  /\ current_import_device_id[s] = NoDev
  /\ DropGuards(s)
  /\ SetPc(s, "idle")
  /\ UNCHANGED <<available_devices, used_devices, current_import_device_id,
                 command, waiting, bus_id_arg, verdict>>

(* USBIP_CMD_UNLINK: RET_UNLINK with status 0, used R still held.         *)
Unlink(s) ==
  /\ pc[s] = "dispatch"
  /\ Holds(s, "used", "read")
  /\ command[s].op = "unlink"
  /\ Reply(s)
  /\ UNCHANGED <<available_devices, used_devices, command, waiting,
                 bus_id_arg, verdict>>

-----------------------------------------------------------------------------
(* add_device: the caller guarantees the bus id is not already held.      *)
CallAddDevice(a) ==
  /\ pc[a] = "ready"
  /\ "add" \in AdminOps
  /\ \E b \in BusIds :
       /\ b \notin available_devices \cup used_devices
       /\ \A o \in Admins : pc[o] = "add" => bus_id_arg[o] # b
       /\ bus_id_arg' = [bus_id_arg EXCEPT ![a] = b]
  /\ Enqueue(a, "available", "write")
  /\ SetPc(a, "add")
  /\ UNCHANGED <<available_devices, used_devices, current_import_device_id,
                 command, readers, writer, verdict>>

AddDevice(a) ==
  /\ pc[a] = "add"
  /\ Holds(a, "available", "write")
  /\ available_devices' = available_devices \cup {bus_id_arg[a]}
  /\ DropGuards(a)
  /\ SetPc(a, "ready")
  /\ UNCHANGED <<used_devices, current_import_device_id, command, waiting,
                 bus_id_arg, verdict>>

CallRemoveDevice(a) ==
  /\ pc[a] = "ready"
  /\ "remove" \in AdminOps
  /\ \E b \in BusIds : bus_id_arg' = [bus_id_arg EXCEPT ![a] = b]
  /\ verdict' = [verdict EXCEPT ![a] = "none"]
  /\ Enqueue(a, "available", "write")
  /\ SetPc(a, "remove")
  /\ UNCHANGED <<available_devices, used_devices, current_import_device_id,
                 command, readers, writer>>

RemoveFromAvailable(a) ==
  /\ pc[a] = "remove"
  /\ Holds(a, "available", "write")
  /\ bus_id_arg[a] \in available_devices
  /\ available_devices' = available_devices \ {bus_id_arg[a]}
  /\ verdict' = [verdict EXCEPT ![a] = "ok"]
  /\ DropGuards(a)
  /\ SetPc(a, "ready")
  /\ UNCHANGED <<used_devices, current_import_device_id, command, waiting,
                 bus_id_arg>>

(* Mutant: available W is dropped before used R is taken.                 *)
RemoveCheckUsedUnlocked(a) ==
  /\ pc[a] = "remove"
  /\ Holds(a, "available", "write")
  /\ bus_id_arg[a] \notin available_devices
  /\ DropGuards(a)
  /\ Enqueue(a, "used", "read")
  /\ SetPc(a, "remove_used")
  /\ UNCHANGED <<available_devices, used_devices, current_import_device_id,
                 command, bus_id_arg, verdict>>

(* Not available: still holding available W, take used R.                *)
RemoveCheckUsed(a) ==
  /\ pc[a] = "remove"
  /\ Holds(a, "available", "write")
  /\ bus_id_arg[a] \notin available_devices
  /\ Enqueue(a, "used", "read")
  /\ SetPc(a, "remove_used")
  /\ UNCHANGED <<available_devices, used_devices, current_import_device_id,
                 command, readers, writer, bus_id_arg, verdict>>

(* Mutant: a device in use is force-removed from used_devices.            *)
RemoveVerdictForce(a) ==
  /\ pc[a] = "remove_used"
  /\ Holds(a, "used", "read")
  /\ used_devices' = used_devices \ {bus_id_arg[a]}
  /\ verdict' = [verdict EXCEPT ![a] =
                   IF bus_id_arg[a] \in used_devices THEN "in_use"
                                                     ELSE "not_found"]
  /\ DropGuards(a)
  /\ SetPc(a, "ready")
  /\ UNCHANGED <<available_devices, current_import_device_id,
                 command, waiting, bus_id_arg>>

RemoveVerdict(a) ==
  /\ pc[a] = "remove_used"
  /\ Holds(a, "used", "read")
  /\ verdict' = [verdict EXCEPT ![a] =
                   IF bus_id_arg[a] \in used_devices THEN "in_use"
                                                     ELSE "not_found"]
  /\ DropGuards(a)
  /\ SetPc(a, "ready")
  /\ UNCHANGED <<available_devices, used_devices, current_import_device_id,
                 command, waiting, bus_id_arg>>

-----------------------------------------------------------------------------
(* The steps a session takes on its own, once the client has spoken.      *)
SessionStep(s) ==
  \/ DispatchDevlist(s) \/ DevlistReply(s)
  \/ DispatchImport(s) \/ ImportSecondLock(s) \/ ImportDevice(s)
  \/ ImportReply(s)
  \/ Submit(s) \/ SubmitPanic(s) \/ Unlink(s)
  \/ ReleaseSecondLock(s) \/ ReleaseDevice(s)

AdminStep(a) ==
  \/ AddDevice(a) \/ RemoveFromAvailable(a) \/ RemoveCheckUsed(a)
  \/ RemoveVerdict(a)

Next ==
  \/ \E l \in Locks : GrantRead(l) \/ GrantWrite(l)
  \/ \E s \in Sessions : Accept(s) \/ ReadCommand(s) \/ ReadError(s)
                         \/ SessionStep(s)
  \/ \E a \in Admins : CallAddDevice(a) \/ CallRemoveDevice(a) \/ AdminStep(a)

(* tokio polls every ready task and the lock hands itself to its queue    *)
(* head; clients are not obliged to send anything.                        *)
Fairness ==
  /\ \A l \in Locks : WF_vars(GrantRead(l)) /\ WF_vars(GrantWrite(l))
  /\ \A s \in Sessions : WF_vars(SessionStep(s))
  /\ \A a \in Admins : WF_vars(AdminStep(a))

Spec == Init /\ [][Next]_vars
FairSpec == Spec /\ Fairness


-----------------------------------------------------------------------------
(* Properties.                                                             *)

TypeOK ==
  /\ available_devices \subseteq BusIds
  /\ used_devices \subseteq BusIds
  /\ current_import_device_id \in [Sessions -> BusIds \cup {NoDev}]
  /\ command \in [Sessions -> Commands]
  /\ pc \in [Tasks -> SessionPcs \cup AdminPcs]
  /\ readers \in [Locks -> SUBSET Tasks]
  /\ writer \in [Locks -> Tasks \cup {NoTask}]
  /\ waiting \in [Locks -> Seq(LockRequest)]
  /\ bus_id_arg \in [Admins -> BusIds \cup {NoDev}]
  /\ verdict \in [Admins -> Verdicts]

(* No device is both available and imported (spec invariant 1).           *)
RegistryDisjoint == available_devices \cap used_devices = {}

(* A session's current_import_device_id names an imported device, and no  *)
(* two sessions name the same one (spec invariant 3): what makes the      *)
(* unreachable!() of the release path unreachable.                        *)
ExclusiveBinding ==
  /\ \A s \in Sessions : current_import_device_id[s] # NoDev
                           => current_import_device_id[s] \in used_devices
  /\ \A s, r \in Sessions : s # r /\ current_import_device_id[s] # NoDev
         => current_import_device_id[s] # current_import_device_id[r]

(* Single ownership of a device across the concurrent sessions of the     *)
(* import arm and the release on disconnect.                              *)
SingleOwnership == RegistryDisjoint /\ ExclusiveBinding

(* Every imported device is held by a live session, so that some read     *)
(* error will give it back (spec invariant 2: no device leaks into        *)
(* used_devices).                                                         *)
NoOrphan ==
  \A b \in used_devices : \E s \in Sessions : current_import_device_id[s] = b

(* A device leaves the registry only through a successful remove_device:  *)
(* no import, release or panic of a session loses it.                     *)
NoDeviceLost ==
  [][\A b \in (available_devices \cup used_devices)
               \ (available_devices' \cup used_devices') :
       \E a \in Admins : bus_id_arg[a] = b /\ verdict'[a] = "ok"
                         /\ pc[a] = "remove"]_vars

(* remove_device answers "not found" only for a device that is neither    *)
(* available nor imported, and "in use" only for an imported one, at the  *)
(* moment it answers: its two checks are not separated by a release.      *)
RemoveVerdictSound ==
  [][\A a \in Admins :
       /\ verdict[a] = "none" /\ verdict'[a] = "not_found"
            => bus_id_arg[a] \notin available_devices' \cup used_devices'
       /\ verdict[a] = "none" /\ verdict'[a] = "in_use"
            => bus_id_arg[a] \in used_devices']_vars

(* t waits on a lock that u holds in a conflicting mode, or behind u in   *)
(* the lock's FIFO queue.                                                 *)
InQueue(t, l) == \E i \in 1..Len(waiting[l]) : waiting[l][i].task = t

BlockedBy(t, u) ==
  \E l \in Locks : \E i \in 1..Len(waiting[l]) :
    /\ waiting[l][i].task = t
    /\ \/ writer[l] = u
       \/ waiting[l][i].mode = "write" /\ u \in readers[l]
       \/ \E j \in 1..(i - 1) : waiting[l][j].task = u

(* No set of tasks waits on each other in a cycle through the two         *)
(* RwLocks: the lock orders of handler and remove_device cannot deadlock. *)
NoLockCycle ==
  LET R == [p \in Tasks \X Tasks |-> BlockedBy(p[1], p[2])]
      C == TransitiveClosure(R, Tasks)
  IN  \A t \in Tasks : ~C[t, t]

(* Every lock request of every task is eventually granted.                *)
LockRequestsServed ==
  \A t \in Tasks, l \in Locks : InQueue(t, l) ~> ~InQueue(t, l)

(* The registry seen through the two RwLocks: every step of the sessions *)
(* and administrative callers changes available_devices and used_devices *)
(* as one atomic import, release, add or remove (spec 4.5), although each *)
(* of them takes and releases the locks over several awaits.             *)
Registry == INSTANCE RegistryAbstract
              WITH available <- available_devices, imported <- used_devices

RegistryRefined == Registry!Spec

(* A session whose connection ends while it holds a device eventually    *)
(* puts that device back among the available ones (spec invariant 2).    *)
DisconnectReleases ==
  \A s \in Sessions, b \in BusIds :
    (pc[s] = "release_1" /\ current_import_device_id[s] = b)
      ~> b \in available_devices

=============================================================================
