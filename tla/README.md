# TLA+ verification of the usbip server

This directory models the USB/IP server in `src/`, checks it with TLC, and
proves its main invariants with TLAPS. It covers three things:

- the concurrent core: the device registry (`UsbIpServer`) and the
  per-connection `handler` tasks that share it;
- the descriptor check `verify_descriptor`;
- the host backends' construction of the exported device list. Everything here can be re-run from this directory with the
commands at the end.

## 1. The system

| Part | Source | State | Operations |
|---|---|---|---|
| Device registry | `src/src/usbip_server.rs` | `available_devices: RwLock<Vec<UsbDevice>>`, `used_devices: RwLock<HashMap<String, UsbDevice>>` | `new_simulated`, `available_devices` (read only), `add_device`, `remove_device` |
| Session handler | `src/src/usbip_server/server.rs` 14-152 | local `current_import_device_id`; read guard on `used_devices` per command | read a command; `OP_REQ_DEVLIST`, `OP_REQ_IMPORT`, `USBIP_CMD_SUBMIT`, `USBIP_CMD_UNLINK`; release on read error |
| Acceptor | `server.rs` 155-177 | the listener | spawns one `handler` task per connection |
| Descriptor check | `src/src/util.rs` | none | `verify_descriptor` (a pure loop) |
| Host backends | `rusb_impl.rs`, `nusb_impl.rs` | host device handles | build the `UsbDevice` list from host devices (URB forwarding is outside `src/`) |
| Wire codec, devices, control engine | not in `src/` (described in `spec.md`) | per device | parse and serialise packets, `find_ep`, `handle_urb` |

How the parts interact:

- Every connection is its own tokio task running `handler`.
- All tasks share one `UsbIpServer` through its two `RwLock`s.
- An import moves a device from `available_devices` into `used_devices`. It
  holds `used_devices.write` and then `available_devices.write` while doing
  so (lines 62-63).
- When a read fails, the task moves its device back, taking the locks in the
  same order (lines 23-24).
- Between commands, the task holds `used_devices.read` for the whole
  dispatch (line 39). That includes `handle_urb` and the socket write of the
  reply.
- The embedding program calls `add_device` and `remove_device` concurrently
  with the sessions. `remove_device` takes `available_devices.write` and then
  `used_devices.read` (usbip_server.rs lines 38 and 45). That is the opposite
  order to the handler's.

What makes this code hard to test:

- the interleaving of imports, releases and removes;
- the two lock orders;
- the `?` exits of the reply writes, which return while a device is still
  bound;
- re-import on an attached session;
- the two non-atomic checks of `remove_device`;
- lock fairness: tokio's `RwLock` is FIFO, so a queued writer blocks later
  readers.

`PROJECT.json` lists each of these as a hazard at the line where it occurs.

## 2. Modules

- `UsbIpServer.tla` is the component model: registry, sessions, admins and
  the two locks.
  - **Data abstraction.** A device is its bus id (`BusIds`). Both registries
    are sets of bus ids. A command is its kind, plus a bus id for an import.
  - **Lock model.** Each lock has `readers`, `writer` and a FIFO `waiting`
    queue.
    - `Enqueue` is the `.read()`/`.write()` call.
    - `GrantRead(l)` and `GrantWrite(l)` hand the lock to the head of the
      queue when it is compatible. This is how tokio's fair `RwLock` behaves.
    - `DropGuards` is the end of a guard's scope (or the explicit `drop` at
      line 60).
  - **Session steps.** `pc` records where each session task is suspended:

    | Action | Code |
    |---|---|
    | `Accept` | acceptor spawns a handler |
    | `ReadCommand` | lines 20, 39 |
    | `ReadError` | 21-24 |
    | `ReleaseSecondLock` / `ReleaseDevice` | 24-36 |
    | `DispatchDevlist` / `DevlistReply` | 45-54 |
    | `DispatchImport` / `ImportSecondLock` / `ImportDevice` / `ImportReply` | 55-84 |
    | `Submit` / `SubmitPanic` | 85-137, and the `unwrap` at 93 |
    | `Unlink` | 138-149 |

    `Reply` is the shared `write_to_socket(..).await?`. With `WriteMayFail`,
    it may end the task without releasing, as the `?` does.
  - **Admin steps.**
    - `CallAddDevice` / `AddDevice` model `add_device`.
    - `CallRemoveDevice`, `RemoveFromAvailable`, `RemoveCheckUsed` and
      `RemoveVerdict` model `remove_device`. `verdict` is its result: `ok`,
      `in_use` or `not_found`.
  - **Inputs.**
    - `ConformingClients` restricts clients to what the protocol allows:
      `OP_*` commands only when unattached, URBs only when attached.
    - Without it, a client may send anything.
    - `AdminOps` says whether the embedding program calls `remove_device`.
  - **Mutants.** The operators `ImportDeviceKeepsAvailable`,
    `ReleaseLockOrderSwapped`, `ReleaseDeviceNoPush`,
    `RemoveCheckUsedUnlocked`, `RemoveVerdictForce`, `ReadErrorForgetsDevice`,
    `GrantReadBarging` are plausible bugs of the code. They are used to show
    that each property can fail. None of them is part of `Next`.
- `MC_UsbIpServer.tla` instantiates the model for TLC. It adds the session
  symmetry.
- `RegistryAbstract.tla` is what the registry promises (spec 4.5). Every
  change is one atomic `Import`, `Release`, `Add` of a fresh id or `Remove`
  of an available device. `UsbIpServer` maps onto it with
  `Registry == INSTANCE RegistryAbstract WITH available <- available_devices,
  imported <- used_devices`. Its `Spec` is checked as the property
  `RegistryRefined`. The refinement mapping is the identity on the two
  registries. Lock and session state is internal.
- `UsbIpServer_proofs.tla`, `UsbIpServer_leak_proofs.tla`,
  `UsbIpServer_remove_proofs.tla`, `DescriptorCheck_proofs.tla` and
  `HostEnumeration_proofs.tla` hold the TLAPS theorems (section 4).
- `DescriptorCheck.tla` models `verify_descriptor` (`util.rs` 2-8).
  - `Advance` is one iteration of the `while`.
  - `Exit` is the loop exit and the `assert_eq!`. The variable `status`
    becomes `ok` or `assert_failed`.
  - The input is any byte string of at most `MaxLen` bytes, each at most
    `MaxByte`.
  - The reference `WellFormed` is non-recursive. A buffer is well formed
    when a set of block starts exists in which each block begins with its
    own length (at least 1), the blocks tile the buffer, and the first block
    starts at byte 1.
- `HostEnumeration.tla` models `new_from_host_with_filter`,
  `with_rusb_devices` and `with_rusb_device_handles` (`rusb_impl.rs`), and
  `with_nusb_devices` (`nusb_impl.rs`).
  - A host device is abstracted to its bus number, address and port, and to
    the set `fails[h]` of its host calls that return an error.
  - `SkipCalls` are the calls whose error is matched with `continue`:
    opening the device and reading the device or config descriptor.
    `PanicCalls` are those that are unwrapped: rusb's
    `read_string_descriptor_ascii`, and nusb's `claim_interface` and
    `speed()`.
  - The actions are `ListDevices` (`rusb::devices()` and the filter),
    `OpenDevice` (one iteration of `with_rusb_devices`), `DescribeRusb` and
    `DescribeNusb` (one iteration of each backend's loop), and `Finish` (the
    return).
  - The bus id is formatted as characters. `Decimal` is `format!("{}")` of
    a `u8` (bus number, address and port are all `u8`): one, two or three
    `Digit`s, most significant first. `FormatBusId` joins the three parts
    with `-`. The nusb id uses the literal `0` as its port, as the code
    does.
  - `Filtered` is the set of subsequences of the host list, each given by
    an `Increasing` choice of positions: what a `FnMut` filter may keep, or
    the `DeviceInfo`s a nusb caller hands over.
  - Descriptor contents are left out: interfaces, endpoints, strings,
    class codes. No property distinguishes them.
- `MC_DescriptorCheck.tla` and `MC_HostEnumeration.tla` give these modules
  their TLC constants.

## 3. Properties and runs

Properties:

- `SingleOwnership` combines two properties:
  - `RegistryDisjoint`: no bus id is both available and used.
  - `ExclusiveBinding`: every session's bound id is in `used_devices`, and no
    two sessions share one. This is exactly what keeps the `unreachable!()`
    at line 27 unreachable.
- `NoOrphan`: every used device is bound to some session.
- `NoDeviceLost` (action): a device leaves the registry only in the step
  where `remove_device` returns `Ok` for it.
- `RemoveVerdictSound` (action): `not_found` is only answered for a device in
  neither registry, and `in_use` only for a used one, in the state where the
  answer is given.
- `NoLockCycle`: the wait-for relation over tasks has no cycle. Its edges are
  "waiting on a conflicting holder" and "queued behind".
- `LockRequestsServed` (liveness): every queued lock request is eventually
  granted.
- `DisconnectReleases` (liveness): a session whose read failed while it held
  `b` eventually has `b` back in `available_devices`.

Properties of the descriptor check and of the host enumeration:

- `VerdictMatchesReference`: `verify_descriptor` returns exactly on the
  well-formed buffers and fails its assert exactly on the others, whenever
  it finishes.
- `WellFormedAccepted` (liveness): on a well-formed buffer it finishes, and
  accepts.
- `CheckTerminates` (liveness): it finishes on every input.
- `ExportsHealthyDevices`: once construction returns, the list holds
  exactly the listed devices none of whose host calls failed, in host order.
  It is stated with `Picks(e, s, k, K, id)`: an increasing choice of
  positions among the first `k` of `s` hits exactly the members of `K`, and
  `e` lists their `id`s. (On the `host_enum` instance TLC found this form
  equal, on all 274,236 states, to a comparison with `SelectSeq` of the
  listed devices.)
- `BusIdsDistinct`: no two exported devices share a bus id. Import and
  `used_devices` are keyed by it.
- `EnumerationSurvivesFaults`: construction never panics.
- `SpecBusIds`: every exported id is `"{bus}-{addr}-{port}"` of its
  device, as spec section 6 prescribes.

All runs of `UsbIpServer` use two sessions, one admin, two bus ids and one initial device.
That is enough for every race in question:

- two sessions importing the same device;
- one session importing while another releases;
- an admin adding a device that a session then imports, or removing one that
  a session holds.

A second admin adds nothing new to the lock interactions. The proofs cover
any number.

| Run | Configuration | Result | What it shows |
|---|---|---|---|
| `sessions_safety` | any client, failing writes, `add` | pass, 12k states | no lock wait-for cycle while imports, releases, devlists and adds interleave |
| `no_orphan` | conforming clients, writes succeed, fair scheduling | pass, 8k states | no orphaned device, disconnect releases, locks are served |
| `admin_remove` | any client, failing writes, `add` and `remove`, deadlock not checked | pass, 178k states | ownership stays exclusive, the verdicts of `remove_device` are sound, no device lost, the server refines `RegistryAbstract` |
| `remove_deadlock` | conforming clients, `remove` | **violation** of `NoLockCycle` | lock-order deadlock |
| `reimport_leak` | non-conforming clients | **violation** of `NoOrphan` | re-import orphans a device |
| `write_error_leak` | conforming clients, failing writes | **violation** of `NoOrphan` | write error orphans a device |
| `descriptor_check` | every buffer of up to 4 bytes, each 0..4 | pass, 2.3k states | the verdict matches the reference; well-formed buffers are accepted |
| `descriptor_zero_length` | same | **violation** of `CheckTerminates` | `<<0>>` loops forever |
| `host_enum` | 3 host devices, both backends, every failure pattern of all six calls, every filter | pass, 274k states | the exported list is the healthy listed devices, with distinct ids |
| `host_enum_panic` | same | **violation** of `EnumerationSurvivesFaults` | one device's failing `claim_interface` aborts the whole list |
| `host_busid_port` | same | **violation** of `SpecBusIds` | nusb exports `"{bus}-{addr}-0"`, e.g. `"1-12-0"`, for a device on port 1 |

Bounds of the new runs:

- `descriptor_check` enumerates all 781 buffers of length 0 to 4 with bytes
  0 to 4. That includes a zero byte, single-byte blocks, a tiling that ends
  exactly at the end, and a last block that overshoots by 1 to 3.
- `host_enum` uses three devices, `1-12-1`, `11-2-1` and `1-3-1`.
  - `1-12-1` and `1-3-1` collide in a bus-port format without the address
    (both `"1-1"`).
  - `1-12-1` and `11-2-1` collide once the separators are dropped (both
    `"1121"`).
  - Three devices let a failing device sit before, between and after
    healthy ones.

Notes on the passing runs:

- `admin_remove` disables deadlock checking because the system really does
  stop there. The deadlock is the finding below.
- `NoOrphan` and `DisconnectReleases` hold only in `no_orphan`, where both
  leaks are excluded.

**Fairness** (`FairSpec`). The scheduling assumptions are weak fairness of:

- each lock's grant, because tokio wakes the queue head when a guard drops;
- each session's and admin's step after its read, because a spawned task
  that is ready is eventually polled. This also assumes that `handle_urb` and
  the socket writes return.

Nothing obliges a client to send a command, so `ReadCommand` and
`ReadError` are not fair. The fairness assumption hides one case: a client
that never reads its replies would hold `used_devices.read` forever. That is
recorded as a hazard.

### Findings

1. **Lock-order deadlock** (`remove_deadlock`).
   - `remove_device` holds `available_devices.write` while awaiting
     `used_devices.read` (`usbip_server.rs:45`).
   - Meanwhile an import (`server.rs:62-63`) or a disconnect (`:23-24`) holds
     `used_devices.write` and waits for `available_devices.write`.
   - Every later task then queues behind them.
   - It only takes a `remove_device` of a bus id that is not available, at the
     moment a session imports or disconnects.
2. **Re-import orphans a device** (`reimport_leak`).
   - `server.rs:58` clears `current_import_device_id` without returning the
     device.
   - The device stays in `used_devices` for the life of the server.
   - The spec calls an `OP_*` request on an attached session a protocol error.
3. **Write error orphans a device** (`write_error_leak`).
   - The `?` at `server.rs:82` (and at 52, 135 and 147) returns from `handler`
     without the release at lines 22-29.
4. **`verify_descriptor` hangs on a zero length byte**
   (`descriptor_zero_length`).
   - `offset += desc[offset]` adds 0, so the loop (`util.rs:4-6`) never
     ends.
   - A function documented as checking validity never reports the buffer
     invalid. The caller's thread spins forever.
5. **One bad host device aborts the whole server** (`host_enum_panic`).
   - Failures to open a device or to read its descriptors are skipped with
     "ignoring device".
   - `read_string_descriptor_ascii(..).unwrap()` (`rusb_impl.rs:130`, 139,
     148) panics, and so do `claim_interface(..).unwrap()` and
     `speed().unwrap()` (`nusb_impl.rs:35`, 77).
   - On Linux, an interface bound to a kernel driver is enough to make the
     claim fail.
6. **nusb bus ids carry port 0** (`host_busid_port`).
   - `nusb_impl.rs:73` formats a literal `0` where the spec says `{port}`.
   - The ids remain distinct (`BusIdsDistinct` holds for nusb too). A client
     that names the device by its port does not find it.

Each property of each passing run also has a mutant in `PROJECT.json`: a
one-definition change, like a plausible bug, that TLC detects. For example,
`GrantReadBarging` models a reader-preferring lock, which starves writers
and breaks `LockRequestsServed`.

## 4. Proofs

`UsbIpServer_proofs.tla` proves four theorems for every finite or infinite
choice of the constants that satisfies `ConstantsAssumption`:

- **`TypeCorrect`**: `Spec => []TypeOK`.
  - `TypeOK` alone is not inductive. The admins' pending `bus_id_arg` must be
    a bus id whenever an admin is at `add`, so the proof uses
    `TypeInv == TypeOK /\ AdminArgOK`.
  - The lemmas `QueueHeadTail` and `EnqueueType` give the type of the lock
    queues after a grant or an enqueue.
  - `TypeInvStep` has one case per action.
- **`OwnershipSafe`**: `Spec => []SingleOwnership`.
  - The inductive invariant is
    `OwnershipInv == TypeInv /\ AddArgFresh /\ SingleOwnership`.
  - `AddArgFresh` says a pending `add_device` argument is in neither
    registry. Without it, `AddDevice` could re-add a device that is in use.
  - Most session steps leave the registry alone and only clear bindings.
    The lemma `NeutralStep` dispatches all of them at once.
  - `ImportDevice`, `ReleaseDevice`, `AddDevice` and the `remove_device`
    steps each have their own case.
  - Uniqueness of added bus ids is the caller's precondition. The model
    guards `CallAddDevice` with it, and the proof relies on that.
  - It is split into `OwnershipInit` and `OwnershipStep`, which the next
    two theorems reuse.
- **`RegistryRefinement`**: `Spec => RegistryRefined`.
  - The initial states map to `Registry!Init`.
  - `RegistryStep` shows that under `OwnershipInv`, every step of `Next` is
    a `Registry!Next` step or leaves the two registries unchanged.
  - `RegistryUntouched` covers every action other than `ImportDevice`,
    `ReleaseDevice`, `AddDevice` and `RemoveFromAvailable`.
    `ImportDevice` maps to `Import` and `ReleaseDevice` to `Release`. They
    need `RegistryDisjoint` and `ExclusiveBinding`: the released id is in
    `used_devices`. `AddDevice` maps to `Add` and needs `AddArgFresh`.
  - The temporal step is `PTL`, with `[]OwnershipInv`.
- **`DevicesNeverLost`**: `Spec => NoDeviceLost`, from `TypeInv` and the
  lemma `NoDeviceLostStep`.

`UsbIpServer_leak_proofs.tla` proves **`NoOrphanSafe`**: under
`ConformingClients /\ ~WriteMayFail`, `Spec => []NoOrphan`.

- `NoOrphan` is not inductive. An import step is safe only if the
  importing session had nothing bound.
- The strengthening `UnboundWhenForgetting` says that a session at `idle`,
  at either import step, or dispatching an import, has `id = NoDev`.
  Conformance guarantees this: an `OP_REQ_IMPORT` is only read when
  unattached.
- The inductive invariant is `LeakFreeInv == TypeInv /\
  UnboundWhenForgetting /\ NoOrphan`. TLC checked it first as an invariant,
  with one and with two admins.
- The two assumptions are exactly what the two leak runs remove. The
  theorem therefore says these leaks are the only ones.

`UsbIpServer_remove_proofs.tla` proves **`RemoveAnswersSound`**:
`Spec => RemoveVerdictSound`.

- `remove_device` checks `available_devices` and then, after an await,
  `used_devices`. The answer is sound only because nothing can put the
  device back in between.
- The strengthening `RemoveHoldsAvailable` says that an admin between the
  two checks still holds the `available_devices` write guard, and that its
  bus id is not available.
- The lemma `SessionKeepsRemove` shows that no session step can add to
  `available_devices` while that guard is held. The release is the only
  session step that pushes, and it needs the same guard.
- `VerdictStep` shows that an answer is set only by the admin's own
  `RemoveVerdict` step.
- The inductive invariant is `RemoveInv == TypeInv /  RemoveHoldsAvailable`. TLC checked it first on the `admin_remove`
  configuration, with one admin and two sessions, and with two admins and
  one session.

`DescriptorCheck_proofs.tla` proves two theorems for every `MaxLen` and
`MaxByte`:

- **`VerdictCorrect`**: `Spec => []VerdictMatchesReference`.
  - The loop invariant is `LoopInv == Typed /\ Tiles /\ Forced /\
    VerdictMatchesReference`.
  - `Tiles` says the bytes before `offset` are tiled by blocks (the
    `PrefixStarts` of the prefix). So an exit at `offset = desc.len()` has
    found a tiling.
  - `Forced` says every tiling of the whole buffer starts a block at
    `offset + 1`. So an exit past the end rules out every tiling.
  - Neither half needs induction over the buffer. Each is carried from one
    iteration to the next, by the lemmas `ExtendTiling` and
    `FollowTiling`. TLC checked `LoopInv` first on the `descriptor_check`
    instance.

The refinement proof (`RegistryRefinement`) follows the layout of the TLAPS examples: an `Init`
step, a `[Next]_vars` step that produces `[A!Next]_av`, and `PTL`.

`HostEnumeration_proofs.tla` proves two theorems for every host that
satisfies `HostAssumption`: any number of devices, any listing order, any
bus numbers, addresses and ports, any set of failing calls, and either
backend.

- **`HealthyDevicesExported`**: `Spec => []ExportsHealthyDevices`.
- **`BusIdsUnique`**: `Spec => []BusIdsDistinct`.

Both rest on one inductive invariant:
`EnumInv == Typed /\ Listing /\ Opening /\ DescribingRusb /\ DescribingNusb
/\ ExportsHealthyDevices /\ BusIdsDistinct`. TLC checked it first, on the
`host_enum` instance.

- The phase conjuncts say what each loop has done so far. `pending` is a
  `Suffix` of the list being walked. What was pushed is the `Picks` of the
  part already walked. The rusb path has two walks: the handles are the
  `Picks` of the listed devices that open (`OpenOK`), and the bus ids are
  the `Picks` of the healthy handles.
- `ExportsHealthyDevices` alone is not inductive. It speaks only of the
  `done` phase, and the loops reach that phase with the list already built.
- Lemmas about `Picks`:
  - `PicksEmpty`: a loop starts with an empty pick.
  - `PicksSkip` and `PicksKeep`: one iteration extends the pick.
  - `PicksFrom`: everything picked comes from `K`.
  - `PicksDistinct`: an injective `id` over a list without repetitions
    picks no value twice.
  - `PicksCompose`: the rusb path's two walks compose into one, because
    every healthy device opens.
- `SuffixSelf` and `SuffixTail` cover the loop's cursor.
- `FilteredDistinct`: a filtered list holds each host device once.
- The bus-id argument:
  - `DecimalDigits` and `DecimalInjective`: `Decimal` gives 1 to 3 digits
    and is injective on `0..255`.
  - `DashSplit`: a string `u-v` with `u` all digits splits at its first
    dash.
  - `ExportIdInjective`: distinct devices get distinct ids under either
    backend. The address is unique on its bus, and the id contains both.
- There is one step lemma per action (`ListStep`, `OpenStep`,
  `DescribeRusbStep`, `DescribeNusbStep`, `FinishStep`), and `EnumStep`
  combines them.

What is only model-checked:

- the liveness properties (`LockRequestsServed`, `DisconnectReleases`,
  `WellFormedAccepted`, `CheckTerminates`). They stay with TLC, because
  TLAPS cannot reason about liveness or `ENABLED`;
- `NoLockCycle`. It is stated with `Relation`'s `TransitiveClosure`, a
  recursive function over the set's cardinality. Unfolding that function
  takes the library's inductive-definition theorems, and those have an
  operator parameter that the installed provers cannot instantiate. The
  property is violated anyway once `remove_device` runs.

## 5. Not modelled, and why

- **`lib.rs`.** The crate root only declares the `UsbDevice`/`UsbInterface`
  data types, their string-pool helper and the re-exports. It performs no
  operation that changes server state.
- **Descriptor contents in the host backends.** Interfaces, endpoints,
  class codes and strings are copied from the host descriptors. No property
  tells them apart. The control flow that builds them (the `continue`s and
  the `unwrap`s of host calls) is modelled, with one exception:
  `intf.descriptors().next().unwrap()` (`rusb_impl.rs:48`,
  `nusb_impl.rs:36`) is left out. It panics only on an interface with no
  alternate setting, which the USB specification does not allow a device
  to report.
- **Duplicate bus ids.** Registries are sets of bus ids, so two devices
  with the same id cannot be represented. `add_device` has no uniqueness
  check. A host backend alone produces distinct ids (`BusIdsDistinct`).
  A mix of `add_device` calls can still collide, and `server.rs:27` would
  then be reachable. This remains a hazard without a property.
- **Wire codec, devices, host URB forwarding and control engine.** These
  are not in `src/`. They are the crate's other files, described in
  `spec.md`.
- **Plan.** The next step is a variant with the registries as a `Vec` and
  a `HashMap`, for duplicate ids.

## Commands

```
tlc -workers 2 -config sessions_safety.cfg MC_UsbIpServer
tlc -workers 2 -config descriptor_check.cfg MC_DescriptorCheck
tlc -workers 2 -config host_enum.cfg MC_HostEnumeration
tlapm UsbIpServer_proofs.tla
tlapm UsbIpServer_leak_proofs.tla
tlapm UsbIpServer_remove_proofs.tla
tlapm DescriptorCheck_proofs.tla
tlapm HostEnumeration_proofs.tla
```
