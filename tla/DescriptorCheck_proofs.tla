------------------------ MODULE DescriptorCheck_proofs ------------------------
(***************************************************************************)
(* Proof that verify_descriptor (util.rs) judges every buffer as the      *)
(* reference WellFormed does, for every MaxLen and MaxByte: whenever the   *)
(* loop finishes, the assert passes exactly on the well-formed buffers.    *)
(*                                                                         *)
(* The loop invariant has two halves.  Tiles: the bytes before offset are *)
(* tiled by blocks, so an exit at offset = desc.len() has found a          *)
(* tiling.  Forced: every tiling of the whole buffer starts a block at     *)
(* offset + 1, so an offset that overshoots the end rules out every        *)
(* tiling.  Neither needs induction over the buffer: both are carried     *)
(* from one iteration of the while loop to the next.                       *)
(***************************************************************************)
EXTENDS DescriptorCheck, SequenceTheorems, TLAPS

USE DescriptorBounds

(* P is the set of block starts of a tiling of the first o bytes of d.     *)
PrefixStarts(d, P, o) ==
  /\ P \subseteq 1..o
  /\ o > 0 => 1 \in P
  /\ \A i \in P :
       /\ d[i] >= 1
       /\ i + d[i] <= o + 1
       /\ \A j \in (i + 1)..(i + d[i] - 1) : j \notin P
       /\ i + d[i] <= o => i + d[i] \in P

(* The bytes the loop has stepped over are a sequence of whole blocks.     *)
Tiles ==
  status = "running" /\ offset <= Len(desc)
    => \E P \in SUBSET (1..offset) : PrefixStarts(desc, P, offset)

(* Every tiling of the buffer starts a block where the loop stands.        *)
Forced ==
  status = "running" =>
    \A S \in SUBSET (1..Len(desc)) : IsBlockStarts(desc, S) =>
      /\ offset <= Len(desc)
      /\ offset < Len(desc) => offset + 1 \in S

Typed ==
  /\ desc \in Seq(Nat)
  /\ offset \in Nat
  /\ status \in {"running", "ok", "assert_failed"}

LoopInv == Typed /\ Tiles /\ Forced /\ VerdictMatchesReference

-----------------------------------------------------------------------------
(* Every input of the model is a sequence of naturals.                    *)
LEMMA DescriptorIsSeq ==
  ASSUME NEW d \in Descriptors
  PROVE  d \in Seq(Nat)
<1>1. PICK n \in 0..MaxLen : d \in [1..n -> 0..MaxByte]
  BY DEF Descriptors
<1>2. d \in [1..n -> Nat]
  BY <1>1
<1>3. QED BY <1>1, <1>2, SeqDef

(* One more block, of length d[o + 1] >= 1, extends a tiling of the first  *)
(* o bytes to a tiling of the first o + d[o + 1].                          *)
LEMMA ExtendTiling ==
  ASSUME NEW d \in Seq(Nat), NEW o \in Nat, o < Len(d),
         NEW P \in SUBSET (1..o), PrefixStarts(d, P, o),
         d[o + 1] >= 1
  PROVE  PrefixStarts(d, P \cup {o + 1}, o + d[o + 1])
<1> DEFINE k == o + 1
           n == d[k]
           Q == P \cup {k}
<1>1. n \in Nat
  BY ElementOfSeq
<1>2. Q \subseteq 1..(o + n)
  BY <1>1
<1>3. o + n > 0 => 1 \in Q
  BY DEF PrefixStarts
<1>4. ASSUME NEW i \in P
      PROVE  /\ d[i] >= 1
             /\ i + d[i] <= o + n + 1
             /\ \A j \in (i + 1)..(i + d[i] - 1) : j \notin Q
             /\ i + d[i] <= o + n => i + d[i] \in Q
  <2>1. i \in 1..o /\ d[i] \in Nat
    BY ElementOfSeq
  <2>2. d[i] >= 1 /\ i + d[i] <= o + 1
        /\ (\A j \in (i + 1)..(i + d[i] - 1) : j \notin P)
        /\ (i + d[i] <= o => i + d[i] \in P)
    BY DEF PrefixStarts
  <2>3. d[i] >= 1 /\ i + d[i] <= o + n + 1
    BY <1>1, <2>1, <2>2
  <2>4. ASSUME NEW j \in (i + 1)..(i + d[i] - 1)
        PROVE  j \notin Q
    <3>1. j \notin P
      BY <2>2
    <3>2. j # k
      BY <2>1, <2>2
    <3>3. QED BY <3>1, <3>2
  <2>5. i + d[i] <= o + n => i + d[i] \in Q
    <3>0. i + d[i] <= o \/ i + d[i] = o + 1
      BY <2>1, <2>2
    <3>1. CASE i + d[i] <= o
      <4>1. i + d[i] \in P
        BY <2>2, <3>1
      <4>2. QED BY <4>1
    <3>2. CASE i + d[i] = o + 1
      BY <3>2
    <3>3. QED BY <3>0, <3>1, <3>2
  <2>6. QED BY <2>3, <2>4, <2>5
<1>5. /\ n >= 1
      /\ k + n <= o + n + 1
      /\ \A j \in (k + 1)..(k + n - 1) : j \notin Q
      /\ k + n <= o + n => k + n \in Q
  BY <1>1
<1>6. QED BY <1>2, <1>3, <1>4, <1>5 DEF PrefixStarts

(* A tiling that starts a block at o + 1 also starts one where the loop   *)
(* lands next, unless the loop has reached the end.                       *)
LEMMA FollowTiling ==
  ASSUME NEW d \in Seq(Nat), NEW o \in Nat, o < Len(d),
         NEW S \in SUBSET (1..Len(d)), IsBlockStarts(d, S), o + 1 \in S
  PROVE  /\ o + d[o + 1] <= Len(d)
         /\ o + d[o + 1] < Len(d) => o + d[o + 1] + 1 \in S
<1>1. d[o + 1] \in Nat /\ Len(d) \in Nat
  BY ElementOfSeq, LenProperties
<1>2. /\ d[o + 1] >= 1
      /\ (o + 1) + d[o + 1] <= Len(d) + 1
      /\ (o + 1) + d[o + 1] <= Len(d) => (o + 1) + d[o + 1] \in S
  BY DEF IsBlockStarts
<1>3. o + d[o + 1] + 1 = (o + 1) + d[o + 1]
  BY <1>1
<1>4. QED BY <1>1, <1>2, <1>3

-----------------------------------------------------------------------------
(* LoopInv holds when verify_descriptor is called ...                     *)
LEMMA LoopInit == Init => LoopInv
<1> SUFFICES ASSUME Init PROVE LoopInv
  OBVIOUS
<1>1. Typed
  BY DescriptorIsSeq DEF Init, Typed
<1>2. Tiles
  <2>1. PrefixStarts(desc, {}, 0)
    BY DEF PrefixStarts
  <2>2. QED BY <2>1 DEF Init, Tiles
<1>3. Forced
  BY <1>1, LenProperties DEF Init, Forced, IsBlockStarts, Typed
<1>4. VerdictMatchesReference
  BY DEF Init, VerdictMatchesReference
<1>5. QED BY <1>1, <1>2, <1>3, <1>4 DEF LoopInv

(* ... and is kept by every iteration of the loop and by its exit.        *)
LEMMA LoopStep == LoopInv /\ [Next]_vars => LoopInv'
<1> SUFFICES ASSUME LoopInv, [Next]_vars PROVE LoopInv'
  OBVIOUS
<1> USE DEF LoopInv, Typed
<1>0. Len(desc) \in Nat
  BY LenProperties
<1>1. CASE Advance
  <2> DEFINE n == desc[offset + 1]
  <2>1. n \in Nat
    BY <1>1, ElementOfSeq DEF Advance
  <2>2. Typed'
    BY <1>1, <2>1 DEF Advance
  <2>3. Tiles'
    <3>1. SUFFICES ASSUME offset' <= Len(desc)
                   PROVE  \E Q \in SUBSET (1..offset') :
                            PrefixStarts(desc, Q, offset')
      BY <1>1 DEF Tiles, Advance
    <3>2. PICK P \in SUBSET (1..offset) : PrefixStarts(desc, P, offset)
      BY <1>1, <1>0 DEF Tiles, Advance
    <3>3. CASE n = 0
      BY <1>1, <3>2, <3>3 DEF Advance
    <3>4. CASE n >= 1
      <4>1. PrefixStarts(desc, P \cup {offset + 1}, offset + n)
        BY <1>1, <3>2, <3>4, ExtendTiling DEF Advance
      <4>2. P \cup {offset + 1} \in SUBSET (1..(offset + n))
        BY <2>1, <3>4
      <4>3. QED BY <1>1, <4>1, <4>2 DEF Advance
    <3>5. QED BY <2>1, <3>3, <3>4
  <2>4. Forced'
    <3>1. SUFFICES ASSUME NEW S \in SUBSET (1..Len(desc)),
                          IsBlockStarts(desc, S)
                   PROVE  /\ offset' <= Len(desc)
                          /\ offset' < Len(desc) => offset' + 1 \in S
      BY <1>1 DEF Forced, Advance
    <3>2. offset + 1 \in S
      BY <1>1, <3>1 DEF Forced, Advance
    <3>3. QED BY <1>1, <3>1, <3>2, FollowTiling DEF Advance
  <2>5. VerdictMatchesReference'
    BY <1>1 DEF Advance, VerdictMatchesReference
  <2>6. QED BY <2>2, <2>3, <2>4, <2>5
<1>2. CASE Exit
  <2>1. Typed' /\ Tiles' /\ Forced'
    BY <1>2 DEF Exit, Tiles, Forced
  <2>2. CASE offset = Len(desc)
    <3>1. PICK P \in SUBSET (1..offset) : PrefixStarts(desc, P, offset)
      BY <1>2, <2>2 DEF Tiles, Exit
    <3>2. IsBlockStarts(desc, P)
      BY <2>2, <3>1 DEF PrefixStarts, IsBlockStarts
    <3>3. WellFormed(desc)
      BY <2>2, <3>1, <3>2 DEF WellFormed
    <3>4. QED BY <1>2, <2>1, <2>2, <3>3 DEF Exit, VerdictMatchesReference
  <2>3. CASE offset # Len(desc)
    <3>1. offset > Len(desc)
      BY <1>0, <1>2, <2>3 DEF Exit
    <3>2. ~WellFormed(desc)
      BY <1>2, <3>1, <1>0 DEF Forced, WellFormed, Exit
    <3>3. QED BY <1>2, <2>1, <2>3, <3>2 DEF Exit, VerdictMatchesReference
  <2>4. QED BY <2>2, <2>3
<1>3. CASE UNCHANGED vars
  BY <1>3 DEF vars, Tiles, Forced, VerdictMatchesReference
<1>4. QED BY <1>1, <1>2, <1>3 DEF Next

(* verify_descriptor accepts exactly the well-formed buffers and fails    *)
(* its assert exactly on the others, for buffers of every length and      *)
(* bytes of every value, whenever its loop finishes.                      *)
THEOREM VerdictCorrect == Spec => []VerdictMatchesReference
BY LoopInit, LoopStep, PTL DEF Spec, LoopInv
=============================================================================
