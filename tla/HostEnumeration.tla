--------------------------- MODULE HostEnumeration ---------------------------
(***************************************************************************)
(* The host backends' construction of the exported device list:           *)
(* new_from_host_with_filter / with_rusb_devices /                        *)
(* with_rusb_device_handles (rusb_impl.rs) and with_nusb_devices          *)
(* (nusb_impl.rs).  Each loop runs over the host devices in order; every  *)
(* fallible host call is either matched with `continue` (the device is    *)
(* skipped) or unwrapped (the thread panics).  A host device is abstracted *)
(* to its bus number, address and port and to the set of its host calls   *)
(* that fail; the bus id is the decimal formatting of those numbers.      *)
(***************************************************************************)
EXTENDS Naturals, Sequences, FiniteSets

CONSTANTS
  HostDevices,  \* the devices attached to the host
  HostList,     \* the order in which the host lists them
  Bus, Addr, Port, \* bus_number(), address(), port_number() of each device
  Backends,     \* which backends the embedding program uses
  MayFail       \* the host calls that may return an error

(* Host calls whose error skips the device (`continue`) ...               *)
SkipCalls == {"open", "device_descriptor", "config"}
(* ... and those whose error is unwrapped.  "string": a string descriptor *)
(* index is present and read_string_descriptor_ascii fails; "claim": an   *)
(* interface is claimed by another driver; "speed": speed() is unknown.   *)
PanicCalls == {"string", "claim", "speed"}

(* The calls each backend makes.                                          *)
Calls == [rusb |-> {"open", "device_descriptor", "config", "string"},
          nusb |-> {"open", "config", "claim", "speed"}]

ASSUME HostAssumption ==
  /\ HostList \in Seq(HostDevices)
  /\ \A i, j \in 1..Len(HostList) : i # j => HostList[i] # HostList[j]
  /\ {HostList[i] : i \in 1..Len(HostList)} = HostDevices
  /\ Bus \in [HostDevices -> 1..255] /\ Addr \in [HostDevices -> 1..127]
  /\ Port \in [HostDevices -> 0..255]
  \* a USB address is unique on its bus
  /\ \A h, g \in HostDevices : h # g => <<Bus[h], Addr[h]>> # <<Bus[g], Addr[g]>>
  /\ Backends \subseteq {"rusb", "nusb"}
  /\ MayFail \subseteq SkipCalls \cup PanicCalls

-----------------------------------------------------------------------------
(* format!("{}", n) for a u8 n (bus_number, address, port_number): its   *)
(* one to three decimal digits, most significant first.                   *)
DigitChar == <<"0", "1", "2", "3", "4", "5", "6", "7", "8", "9">>
Digit(d) == DigitChar[d + 1]
Decimal(n) ==
  IF n < 10 THEN <<Digit(n)>>
  ELSE IF n < 100 THEN <<Digit(n \div 10), Digit(n % 10)>>
  ELSE <<Digit(n \div 100), Digit((n \div 10) % 10), Digit(n % 10)>>

(* format!("{}-{}-{}", bus, address, port)                                *)
FormatBusId(b, a, p) ==
  Decimal(b) \o (<<"-">> \o (Decimal(a) \o (<<"-">> \o Decimal(p))))

(* Mutant: a Linux-style "bus-port" id, without the device address.       *)
RusbBusIdNoAddress(h) == Decimal(Bus[h]) \o (<<"-">> \o Decimal(Port[h]))

RusbBusId(h) == FormatBusId(Bus[h], Addr[h], Port[h])
NusbBusId(h) == FormatBusId(Bus[h], Addr[h], 0)

Increasing(f, n) == \A i, j \in 1..n : i < j => f[i] < f[j]

(* What list.iter().filter(filter) keeps of the host list, or a caller    *)
(* hands over as DeviceInfos: a FnMut filter may keep any subsequence.     *)
Filtered ==
  UNION {{[i \in 1..k |-> HostList[f[i]]] :
            f \in {g \in [1..k -> 1..Len(HostList)] : Increasing(g, k)}} :
         k \in 0..Len(HostList)}

VARIABLES
  backend,   \* the backend building this list
  fails,     \* per host device, the host calls that fail on it
  listed,    \* the devices the loop was given (devs / nusb_device_infos)
  pending,   \* the devices the current loop has not reached yet
  handles,   \* rusb: the devices opened by with_rusb_devices
  exported,  \* the bus ids of the UsbDevices pushed so far
  phase      \* list, open, describe, done or panic

vars == <<backend, fails, listed, pending, handles, exported, phase>>

Init ==
  /\ backend \in Backends
  /\ fails \in [HostDevices -> SUBSET (MayFail \cap Calls[backend])]
  /\ handles = << >>
  /\ exported = << >>
  /\ \/ backend = "rusb" /\ phase = "list" /\ listed = << >> /\ pending = << >>
     \/ /\ backend = "nusb" /\ phase = "describe"
        /\ listed \in Filtered
        /\ pending = listed

(* rusb::devices() either fails (an empty default server) or lists the   *)
(* host devices; the caller's filter keeps some of them.                  *)
ListDevices ==
  /\ phase = "list"
  /\ \/ /\ phase' = "done"
        /\ UNCHANGED <<listed, pending>>
     \/ /\ listed' \in Filtered
        /\ pending' = listed'
        /\ phase' = "open"
  /\ UNCHANGED <<backend, fails, handles, exported>>

(* with_rusb_devices: open each device, ignoring those that fail, then    *)
(* hand the handles to with_rusb_device_handles.                          *)
OpenDevice ==
  /\ phase = "open"
  /\ \/ /\ pending # << >>
        /\ handles' = IF "open" \in fails[Head(pending)] THEN handles
                      ELSE Append(handles, Head(pending))
        /\ pending' = Tail(pending)
        /\ UNCHANGED phase
     \/ /\ pending = << >>
        /\ pending' = handles
        /\ phase' = "describe"
        /\ UNCHANGED handles
  /\ UNCHANGED <<backend, fails, listed, exported>>

(* Mutant: an error of active_config_descriptor() is not skipped.         *)
DescribeRusbNoSkip ==
  /\ backend = "rusb" /\ phase = "describe" /\ pending # << >>
  /\ LET h == Head(pending) IN
       IF "device_descriptor" \in fails[h] THEN UNCHANGED <<exported, phase>>
       ELSE IF "string" \in fails[h] THEN phase' = "panic" /\ UNCHANGED exported
       ELSE exported' = Append(exported, RusbBusId(h)) /\ UNCHANGED phase
  /\ pending' = Tail(pending)
  /\ UNCHANGED <<backend, fails, listed, handles>>

(* One iteration of with_rusb_device_handles: skip the device when its    *)
(* device or config descriptor cannot be read; unwrap the string          *)
(* descriptor reads; push the UsbDevice.                                   *)
DescribeRusb ==
  /\ backend = "rusb" /\ phase = "describe" /\ pending # << >>
  /\ LET h == Head(pending) IN
       \/ /\ fails[h] \cap {"device_descriptor", "config"} # {}
          /\ UNCHANGED <<exported, phase>>
       \/ /\ fails[h] \cap {"device_descriptor", "config"} = {}
          /\ "string" \in fails[h]
          /\ phase' = "panic"
          /\ UNCHANGED exported
       \/ /\ fails[h] \cap {"device_descriptor", "config", "string"} = {}
          /\ exported' = Append(exported, RusbBusId(h))
          /\ UNCHANGED phase
  /\ pending' = Tail(pending)
  /\ UNCHANGED <<backend, fails, listed, handles>>

(* One iteration of with_nusb_devices: skip the device when it cannot be  *)
(* opened or has no active configuration; unwrap claim_interface and      *)
(* speed(); push the UsbDevice with port 0 in its bus id.                 *)
DescribeNusb ==
  /\ backend = "nusb" /\ phase = "describe" /\ pending # << >>
  /\ LET h == Head(pending) IN
       \/ /\ fails[h] \cap {"open", "config"} # {}
          /\ UNCHANGED <<exported, phase>>
       \/ /\ fails[h] \cap {"open", "config"} = {}
          /\ fails[h] \cap {"claim", "speed"} # {}
          /\ phase' = "panic"
          /\ UNCHANGED exported
       \/ /\ fails[h] = {}
          /\ exported' = Append(exported, NusbBusId(h))
          /\ UNCHANGED phase
  /\ pending' = Tail(pending)
  /\ UNCHANGED <<backend, fails, listed, handles>>

(* The loop has visited every device: the list is returned.               *)
Finish ==
  /\ phase = "describe" /\ pending = << >>
  /\ phase' = "done"
  /\ UNCHANGED <<backend, fails, listed, pending, handles, exported>>

Next == ListDevices \/ OpenDevice \/ DescribeRusb \/ DescribeNusb \/ Finish

(* Construction runs on the caller's thread until it returns or panics.  *)
Spec == Init /\ [][Next]_vars /\ WF_vars(Next)

-----------------------------------------------------------------------------
(* The devices a backend can export: none of its calls fails on them.    *)
HealthyDevices == {h \in HostDevices : fails[h] = {}}

BusIdOf(h) == IF backend = "rusb" THEN RusbBusId(h) ELSE NusbBusId(h)
ExportId == [h \in HostDevices |-> BusIdOf(h)]

(* e lists, in order and once each, id[d] for the devices d among the     *)
(* first k of s that are in K: f picks their positions.                   *)
Picks(e, s, k, K, id) ==
  \E f \in [1..Len(e) -> 1..k] :
    /\ Increasing(f, Len(e))
    /\ \A i \in 1..k : s[i] \in K <=> \E j \in 1..Len(e) : f[j] = i
    /\ \A j \in 1..Len(e) : e[j] = id[s[f[j]]]

(* Once construction returns, the list holds exactly the listed devices  *)
(* none of whose host calls failed, in host order, one entry each: a     *)
(* skipped device takes nothing else with it.                            *)
ExportsHealthyDevices ==
  phase = "done" => Picks(exported, listed, Len(listed), HealthyDevices, ExportId)

(* No two exported devices share a bus id, which the registry relies on  *)
(* (import matches by bus id, used_devices is keyed by it).              *)
BusIdsDistinct ==
  \A i, j \in 1..Len(exported) : i # j => exported[i] # exported[j]

(* Construction never panics: a device the host cannot serve is ignored, *)
(* as the "ignoring device" paths do, rather than aborting the server.   *)
EnumerationSurvivesFaults == phase # "panic"

(* Every exported bus id is "{bus}-{addr}-{port}" of its device, as the  *)
(* host backend API of the spec prescribes.                              *)
SpecBusIds ==
  \A i \in 1..Len(exported) :
    \E h \in HostDevices : exported[i] = FormatBusId(Bus[h], Addr[h], Port[h])

=============================================================================
