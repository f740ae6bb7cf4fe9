--------------------------- MODULE DescriptorCheck ---------------------------
(***************************************************************************)
(* verify_descriptor (src/src/util.rs): walk a buffer of concatenated USB  *)
(* descriptors by their length bytes, then assert that the walk ended      *)
(* exactly at the end of the buffer.  The loop is a state machine whose    *)
(* input is any byte string of at most MaxLen bytes no larger than         *)
(* MaxByte; the verdict is compared with a non-recursive reference         *)
(* definition of a well-formed descriptor buffer.                          *)
(***************************************************************************)
EXTENDS Naturals, Sequences

CONSTANTS MaxLen, MaxByte

ASSUME DescriptorBounds == MaxLen \in Nat /\ MaxByte \in Nat

(* The &[u8] inputs: sequences are 1-indexed, desc[offset] of the code is *)
(* desc[offset + 1] here.                                                  *)
Descriptors == UNION {[1..n -> 0..MaxByte] : n \in 0..MaxLen}

VARIABLES desc, offset, status

vars == <<desc, offset, status>>

Init ==
  /\ desc \in Descriptors
  /\ offset = 0
  /\ status = "running"

(* while offset < desc.len() { offset += desc[offset] as usize; }          *)
(* A zero length byte leaves offset where it is: the loop spins.           *)
Advance ==
  /\ status = "running"
  /\ offset < Len(desc)
  /\ offset' = offset + desc[offset + 1]
  /\ UNCHANGED <<desc, status>>

(* Mutant: the loop runs while offset <= desc.len().                      *)
ExitOffByOne ==
  /\ status = "running"
  /\ offset > Len(desc)
  /\ status' = IF offset = Len(desc) THEN "ok" ELSE "assert_failed"
  /\ UNCHANGED <<desc, offset>>

(* Mutant: the trailing assert_eq! is dropped.                             *)
ExitNoAssert ==
  /\ status = "running"
  /\ offset >= Len(desc)
  /\ status' = "ok"
  /\ UNCHANGED <<desc, offset>>

(* The loop ends; assert_eq!(offset, desc.len()) returns or panics.        *)
Exit ==
  /\ status = "running"
  /\ offset >= Len(desc)
  /\ status' = IF offset = Len(desc) THEN "ok" ELSE "assert_failed"
  /\ UNCHANGED <<desc, offset>>

Next == Advance \/ Exit

(* A call runs on its own thread until it returns.                         *)
Spec == Init /\ [][Next]_vars /\ WF_vars(Next)

-----------------------------------------------------------------------------
(* Reference: the buffer splits into blocks, each of at least one byte     *)
(* and starting with its own length.  Starts is the set of block starts.   *)
IsBlockStarts(d, Starts) ==
  /\ Starts \subseteq 1..Len(d)
  /\ Len(d) > 0 => 1 \in Starts
  /\ \A i \in Starts :
       /\ d[i] >= 1
       /\ i + d[i] <= Len(d) + 1
       /\ \A j \in (i + 1)..(i + d[i] - 1) : j \notin Starts
       /\ i + d[i] <= Len(d) => i + d[i] \in Starts

WellFormed(d) == \E Starts \in SUBSET (1..Len(d)) : IsBlockStarts(d, Starts)

TypeOK ==
  /\ desc \in Descriptors
  /\ offset \in 0..(MaxLen + MaxByte)
  /\ status \in {"running", "ok", "assert_failed"}

(* verify_descriptor returns exactly for the well-formed buffers and       *)
(* panics in its assert exactly for the others, whenever it finishes.      *)
VerdictMatchesReference ==
  /\ status = "ok" => WellFormed(desc)
  /\ status = "assert_failed" => ~WellFormed(desc)

(* verify_descriptor finishes, and accepts, on every well-formed buffer.   *)
WellFormedAccepted == WellFormed(desc) ~> status = "ok"

(* verify_descriptor finishes on every input, as a validity check should. *)
CheckTerminates == <>(status # "running")

=============================================================================
