------------------------ MODULE HostEnumeration_proofs ------------------------
(***************************************************************************)
(* Proofs that a host backend builds the device list it should, for every *)
(* host: once construction returns, the list holds the ids of the healthy *)
(* listed devices in host order (ExportsHealthyDevices), and no two ids    *)
(* are ever equal (BusIdsDistinct).                                        *)
(*                                                                         *)
(* Each loop of rusb_impl.rs and nusb_impl.rs walks a list from its front; *)
(* what it has pushed so far is the Picks of the part it has walked.  The  *)
(* rusb path walks twice: with_rusb_devices keeps the devices that open,   *)
(* with_rusb_device_handles then keeps the healthy handles, and the two    *)
(* Picks compose.  The ids differ because format!("{}-{}-{}") can be       *)
(* parsed back at its dashes and a USB address is unique on its bus.       *)
(***************************************************************************)
EXTENDS HostEnumeration, SequenceTheorems, TLAPS

(* The characters a bus id is made of.                                    *)
Digits == {"0", "1", "2", "3", "4", "5", "6", "7", "8", "9"}
Chars == Digits \cup {"-"}

Distinct(s) == \A i, j \in 1..Len(s) : i # j => s[i] # s[j]

(* p is what is left of s after the loop has walked its front.            *)
Suffix(p, s) ==
  /\ Len(p) <= Len(s)
  /\ \A i \in 1..Len(p) : p[i] = s[Len(s) - Len(p) + i]

OpenOK == {h \in HostDevices : "open" \notin fails[h]}
Self == [h \in HostDevices |-> h]
IdSet == {ExportId[h] : h \in HostDevices}

Typed ==
  /\ backend \in Backends
  /\ fails \in [HostDevices -> SUBSET (MayFail \cap Calls[backend])]
  /\ listed \in Seq(HostDevices) /\ Distinct(listed)
  /\ handles \in Seq(HostDevices)
  /\ pending \in Seq(HostDevices)
  /\ exported \in Seq(IdSet)
  /\ phase \in {"list", "open", "describe", "done", "panic"}

(* rusb::devices() has not been called yet.                               *)
Listing ==
  phase = "list" =>
    /\ backend = "rusb"
    /\ listed = << >> /\ pending = << >> /\ handles = << >> /\ exported = << >>

(* with_rusb_devices has opened the front of the list.                    *)
Opening ==
  phase = "open" =>
    /\ backend = "rusb"
    /\ Suffix(pending, listed)
    /\ Picks(handles, listed, Len(listed) - Len(pending), OpenOK, Self)
    /\ exported = << >>

(* with_rusb_device_handles has described the front of the handles.      *)
DescribingRusb ==
  phase = "describe" /\ backend = "rusb" =>
    /\ Suffix(pending, handles)
    /\ Picks(handles, listed, Len(listed), OpenOK, Self)
    /\ Picks(exported, handles, Len(handles) - Len(pending),
             HealthyDevices, ExportId)

(* with_nusb_devices has described the front of the device infos.         *)
DescribingNusb ==
  phase = "describe" /\ backend = "nusb" =>
    /\ Suffix(pending, listed)
    /\ Picks(exported, listed, Len(listed) - Len(pending),
             HealthyDevices, ExportId)

EnumInv ==
  /\ Typed /\ Listing /\ Opening /\ DescribingRusb /\ DescribingNusb
  /\ ExportsHealthyDevices /\ BusIdsDistinct
-----------------------------------------------------------------------------
(* Before its first iteration a loop has picked nothing.                  *)
LEMMA PicksEmpty ==
  ASSUME NEW s, NEW K, NEW id
  PROVE  Picks(<< >>, s, 0, K, id)
<1>1. Len(<< >>) = 0
  BY EmptySeq
<1> DEFINE none == [i \in 1..0 |-> 0]
<1>2. none \in [1..Len(<< >>) -> 1..0]
  BY <1>1
<1>3. /\ Increasing(none, Len(<< >>))
      /\ \A i \in 1..0 : s[i] \in K <=> \E j \in 1..Len(<< >>) : none[j] = i
      /\ \A j \in 1..Len(<< >>) : << >>[j] = id[s[none[j]]]
  BY <1>1 DEF Increasing
<1>4. QED BY <1>2, <1>3, Zenon DEF Picks

(* An iteration that skips s[k + 1] extends the walked part by one.       *)
LEMMA PicksSkip ==
  ASSUME NEW D, NEW X, NEW s \in Seq(D), NEW k \in 0..(Len(s) - 1),
         NEW K, NEW id, NEW e \in Seq(X),
         Picks(e, s, k, K, id), s[k + 1] \notin K
  PROVE  Picks(e, s, k + 1, K, id)
<1>1. PICK f \in [1..Len(e) -> 1..k] :
        /\ Increasing(f, Len(e))
        /\ \A i \in 1..k : s[i] \in K <=> \E j \in 1..Len(e) : f[j] = i
        /\ \A j \in 1..Len(e) : e[j] = id[s[f[j]]]
  BY DEF Picks
<1>2. f \in [1..Len(e) -> 1..(k + 1)]
  BY <1>1
<1>3. \A i \in 1..(k + 1) : s[i] \in K <=> \E j \in 1..Len(e) : f[j] = i
  <2>1. Len(e) \in Nat
    BY LenProperties
  <2>2. \A j \in 1..Len(e) : f[j] # k + 1
    BY <1>1, <2>1
  <2>3. QED BY <1>1, <2>2
<1>4. QED BY <1>1, <1>2, <1>3 DEF Picks

(* An iteration that pushes id[s[k + 1]] extends the walked part by one.  *)
LEMMA PicksKeep ==
  ASSUME NEW D, NEW X, NEW s \in Seq(D), NEW k \in 0..(Len(s) - 1),
         NEW K, NEW id, NEW e \in Seq(X), id[s[k + 1]] \in X,
         Picks(e, s, k, K, id), s[k + 1] \in K
  PROVE  Picks(Append(e, id[s[k + 1]]), s, k + 1, K, id)
<1> DEFINE n == Len(e)
           e2 == Append(e, id[s[k + 1]])
<1>1. PICK f \in [1..n -> 1..k] :
        /\ Increasing(f, n)
        /\ \A i \in 1..k : s[i] \in K <=> \E j \in 1..n : f[j] = i
        /\ \A j \in 1..n : e[j] = id[s[f[j]]]
  BY DEF Picks
<1>2. n \in Nat /\ Len(e2) = n + 1
      /\ \A j \in 1..n : e2[j] = e[j]
      /\ e2[n + 1] = id[s[k + 1]]
  BY AppendProperties, LenProperties
<1> DEFINE g == [j \in 1..(n + 1) |-> IF j <= n THEN f[j] ELSE k + 1]
<1>3. g \in [1..Len(e2) -> 1..(k + 1)]
  BY <1>1, <1>2
<1>4. Increasing(g, Len(e2))
  BY <1>1, <1>2 DEF Increasing
<1>5. \A i \in 1..(k + 1) : s[i] \in K <=> \E j \in 1..Len(e2) : g[j] = i
  <2>1. \A i \in 1..k : s[i] \in K <=> \E j \in 1..Len(e2) : g[j] = i
    BY <1>1, <1>2
  <2>2. \E j \in 1..Len(e2) : g[j] = k + 1
    BY <1>2
  <2>3. QED BY <2>1, <2>2
<1>6. \A j \in 1..Len(e2) : e2[j] = id[s[g[j]]]
  BY <1>1, <1>2
<1>7. QED BY <1>3, <1>4, <1>5, <1>6 DEF Picks
(* What a loop has pushed comes from devices of the walked part in K.     *)
LEMMA PicksFrom ==
  ASSUME NEW X, NEW s, NEW k, NEW K, NEW id, NEW e \in Seq(X),
         Picks(e, s, k, K, id)
  PROVE  \A j \in 1..Len(e) : \E i \in 1..k : s[i] \in K /\ e[j] = id[s[i]]
<1>1. PICK f \in [1..Len(e) -> 1..k] :
        /\ \A i \in 1..k : s[i] \in K <=> \E j \in 1..Len(e) : f[j] = i
        /\ \A j \in 1..Len(e) : e[j] = id[s[f[j]]]
  BY DEF Picks
<1>2. QED BY <1>1

(* A loop over a list without repetitions, mapping devices injectively,   *)
(* pushes no value twice.                                                 *)
LEMMA PicksDistinct ==
  ASSUME NEW D, NEW X, NEW s \in Seq(D), NEW k \in 0..Len(s),
         NEW K, NEW id, NEW e \in Seq(X),
         Picks(e, s, k, K, id), Distinct(s),
         \A a, b \in D : id[a] = id[b] => a = b
  PROVE  Distinct(e)
<1>1. PICK f \in [1..Len(e) -> 1..k] :
        /\ Increasing(f, Len(e))
        /\ \A j \in 1..Len(e) : e[j] = id[s[f[j]]]
  BY DEF Picks
<1>2. SUFFICES ASSUME NEW i \in 1..Len(e), NEW j \in 1..Len(e), i # j
               PROVE  e[i] # e[j]
  BY DEF Distinct
<1>3. f[i] # f[j] /\ f[i] \in 1..Len(s) /\ f[j] \in 1..Len(s)
  BY <1>1, <1>2, LenProperties DEF Increasing
<1>4. s[f[i]] # s[f[j]] /\ s[f[i]] \in D /\ s[f[j]] \in D
  BY <1>3, ElementOfSeq DEF Distinct
<1>5. QED BY <1>1, <1>4

(* with_rusb_device_handles walks the handles that with_rusb_devices      *)
(* kept; when every device in K2 is in K1, what the second walk keeps of  *)
(* the handles is what it would have kept of the whole list.              *)
LEMMA PicksCompose ==
  ASSUME NEW D, NEW X, NEW L \in Seq(D), NEW H \in Seq(D), NEW E \in Seq(X),
         NEW K1, NEW K2, K2 \subseteq K1, NEW id,
         Picks(H, L, Len(L), K1, [h \in D |-> h]),
         Picks(E, H, Len(H), K2, id)
  PROVE  Picks(E, L, Len(L), K2, id)
<1>1. PICK g \in [1..Len(H) -> 1..Len(L)] :
        /\ Increasing(g, Len(H))
        /\ \A i \in 1..Len(L) : L[i] \in K1 <=> \E m \in 1..Len(H) : g[m] = i
        /\ \A m \in 1..Len(H) : H[m] = [h \in D |-> h][L[g[m]]]
  BY DEF Picks
<1>2. PICK f \in [1..Len(E) -> 1..Len(H)] :
        /\ Increasing(f, Len(E))
        /\ \A m \in 1..Len(H) : H[m] \in K2 <=> \E j \in 1..Len(E) : f[j] = m
        /\ \A j \in 1..Len(E) : E[j] = id[H[f[j]]]
  BY DEF Picks
<1>3. \A m \in 1..Len(H) : H[m] = L[g[m]]
  BY <1>1, ElementOfSeq
<1> DEFINE c == [j \in 1..Len(E) |-> g[f[j]]]
<1>4. c \in [1..Len(E) -> 1..Len(L)]
  BY <1>1, <1>2
<1>5. Increasing(c, Len(E))
  BY <1>1, <1>2, LenProperties DEF Increasing
<1>6. ASSUME NEW i \in 1..Len(L)
      PROVE  L[i] \in K2 <=> \E j \in 1..Len(E) : c[j] = i
  <2>1. ASSUME L[i] \in K2 PROVE \E j \in 1..Len(E) : c[j] = i
    <3>1. PICK m \in 1..Len(H) : g[m] = i
      BY <1>1, <2>1
    <3>2. H[m] \in K2
      BY <1>3, <2>1, <3>1
    <3>3. PICK j \in 1..Len(E) : f[j] = m
      BY <1>2, <3>2
    <3>4. QED BY <3>1, <3>3
  <2>2. ASSUME NEW j \in 1..Len(E), c[j] = i PROVE L[i] \in K2
    <3>1. H[f[j]] \in K2
      BY <1>2
    <3>2. QED BY <1>2, <1>3, <2>2, <3>1
  <2>3. QED BY <2>1, <2>2
<1>7. \A j \in 1..Len(E) : E[j] = id[L[c[j]]]
  BY <1>2, <1>3
<1>8. QED BY <1>4, <1>5, <1>6, <1>7 DEF Picks

(* The list the filter keeps is a list of host devices, each once.        *)
LEMMA FilteredDistinct ==
  ASSUME NEW l \in Filtered
  PROVE  l \in Seq(HostDevices) /\ Distinct(l)
<1>0. PICK k \in 0..Len(HostList) :
        \E f \in [1..k -> 1..Len(HostList)] :
          Increasing(f, k) /\ l = [i \in 1..k |-> HostList[f[i]]]
  BY DEF Filtered
<1>1. PICK f \in [1..k -> 1..Len(HostList)] :
        Increasing(f, k) /\ l = [i \in 1..k |-> HostList[f[i]]]
  BY <1>0
<1>2. \A i \in 1..k : HostList[f[i]] \in HostDevices
  BY <1>1, HostAssumption, ElementOfSeq
<1>3. l \in [1..k -> HostDevices] /\ k \in Nat
  BY <1>1, <1>2, HostAssumption, LenProperties
<1>4. l \in Seq(HostDevices)
  BY <1>3, SeqDef
<1>5. Len(l) = k
  BY <1>3, <1>4, LenProperties
<1>6. Distinct(l)
  <2>1. SUFFICES ASSUME NEW i \in 1..k, NEW j \in 1..k, i # j
                 PROVE  l[i] # l[j]
    BY <1>5 DEF Distinct
  <2>2. f[i] # f[j]
    BY <1>1, <1>3, <2>1 DEF Increasing
  <2>3. QED BY <1>1, <1>3, <2>2, HostAssumption
<1>7. QED BY <1>4, <1>6
-----------------------------------------------------------------------------
(* Distinct digits are distinct characters, and none is a dash.           *)
LEMMA DigitFacts ==
  /\ \A d \in 0..9 : Digit(d) \in Digits
  /\ \A d, c \in 0..9 : Digit(d) = Digit(c) => d = c
  /\ "-" \notin Digits
<1>1. \A d \in 0..9 : d \in {0, 1, 2, 3, 4, 5, 6, 7, 8, 9}
  OBVIOUS
<1>2. QED BY <1>1 DEF Digit, DigitChar, Digits

(* format!("{}") of a u8 is one to three digits.                          *)
LEMMA DecimalDigits ==
  ASSUME NEW n \in 0..255
  PROVE  Decimal(n) \in Seq(Digits) /\ Len(Decimal(n)) \in 1..3
<1>1. /\ n \div 100 \in 0..9 /\ (n \div 10) % 10 \in 0..9
      /\ n \div 10 \in 0..9 \/ n >= 100
      /\ n % 10 \in 0..9
  OBVIOUS
<1>2. CASE n < 10
  BY <1>2, DigitFacts DEF Decimal
<1>3. CASE 10 <= n /\ n < 100
  <2>1. n \div 10 \in 0..9
    BY <1>3
  <2>2. QED BY <1>1, <1>3, <2>1, DigitFacts DEF Decimal
<1>4. CASE 100 <= n
  BY <1>1, <1>4, DigitFacts DEF Decimal
<1>5. QED BY <1>2, <1>3, <1>4

(* format!("{}") of a u8 can be read back: no two values print alike.     *)
LEMMA DecimalInjective ==
  ASSUME NEW n \in 0..255, NEW m \in 0..255, Decimal(n) = Decimal(m)
  PROVE  n = m
<1>1. /\ n < 10 => Len(Decimal(n)) = 1
      /\ 10 <= n /\ n < 100 => Len(Decimal(n)) = 2
      /\ 100 <= n => Len(Decimal(n)) = 3
      /\ m < 10 => Len(Decimal(m)) = 1
      /\ 10 <= m /\ m < 100 => Len(Decimal(m)) = 2
      /\ 100 <= m => Len(Decimal(m)) = 3
  BY DEF Decimal
<1>2. CASE n < 10
  <2>1. m < 10
    BY <1>1, <1>2
  <2>2. Digit(n) = Digit(m)
    BY <1>2, <2>1 DEF Decimal
  <2>3. QED BY <1>2, <2>1, <2>2, DigitFacts
<1>3. CASE 10 <= n /\ n < 100
  <2>1. 10 <= m /\ m < 100
    BY <1>1, <1>3
  <2>2. Digit(n \div 10) = Digit(m \div 10) /\ Digit(n % 10) = Digit(m % 10)
    BY <1>3, <2>1 DEF Decimal
  <2>3. n \div 10 \in 0..9 /\ m \div 10 \in 0..9
        /\ n % 10 \in 0..9 /\ m % 10 \in 0..9
    BY <1>3, <2>1
  <2>4. n \div 10 = m \div 10 /\ n % 10 = m % 10
    BY <2>2, <2>3, DigitFacts
  <2>5. QED BY <2>4
<1>4. CASE 100 <= n
  <2>1. 100 <= m
    BY <1>1, <1>4
  <2>2. /\ Digit(n \div 100) = Digit(m \div 100)
        /\ Digit((n \div 10) % 10) = Digit((m \div 10) % 10)
        /\ Digit(n % 10) = Digit(m % 10)
    BY <1>4, <2>1 DEF Decimal
  <2>3. /\ n \div 100 \in 0..9 /\ m \div 100 \in 0..9
        /\ (n \div 10) % 10 \in 0..9 /\ (m \div 10) % 10 \in 0..9
        /\ n % 10 \in 0..9 /\ m % 10 \in 0..9
    OBVIOUS
  <2>4. /\ n \div 100 = m \div 100
        /\ (n \div 10) % 10 = (m \div 10) % 10
        /\ n % 10 = m % 10
    BY <2>2, <2>3, DigitFacts
  <2>5. QED BY <2>4
<1>5. QED BY <1>2, <1>3, <1>4
(* u, a dash, then v: the joints of format!("{}-{}-{}").                   *)
Dashed(u, v) == u \o (<<"-">> \o v)

(* A string of digits, a dash and the rest splits at its first dash.      *)
LEMMA DashSplit ==
  ASSUME NEW u \in Seq(Digits), NEW u2 \in Seq(Digits),
         NEW v \in Seq(Chars), NEW v2 \in Seq(Chars),
         Dashed(u, v) = Dashed(u2, v2)
  PROVE  u = u2 /\ v = v2
<1>0. u \o (<<"-">> \o v) = u2 \o (<<"-">> \o v2)
  BY DEF Dashed
<1> DEFINE w == <<"-">> \o v
           w2 == <<"-">> \o v2
<1>1. <<"-">> \in Seq(Chars) /\ u \in Seq(Chars) /\ u2 \in Seq(Chars)
  BY SeqMonotonic DEF Chars
<1>2. /\ w \in Seq(Chars) /\ Len(w) = 1 + Len(v) /\ w[1] = "-"
      /\ w2 \in Seq(Chars) /\ Len(w2) = 1 + Len(v2) /\ w2[1] = "-"
  BY <1>1, ConcatProperties, LenProperties
<1>3. /\ Len(u \o w) = Len(u) + Len(w)
      /\ \A i \in 1..(Len(u) + Len(w)) :
           (u \o w)[i] = IF i <= Len(u) THEN u[i] ELSE w[i - Len(u)]
      /\ Len(u2 \o w2) = Len(u2) + Len(w2)
      /\ \A i \in 1..(Len(u2) + Len(w2)) :
           (u2 \o w2)[i] = IF i <= Len(u2) THEN u2[i] ELSE w2[i - Len(u2)]
  BY <1>1, <1>2, ConcatProperties
<1>4. Len(u) \in Nat /\ Len(u2) \in Nat /\ Len(v) \in Nat /\ Len(v2) \in Nat
  BY LenProperties
(* the first dash of either side is at the same place                     *)
<1>5. Len(u) = Len(u2)
  <2>1. ASSUME Len(u) < Len(u2) PROVE FALSE
    <3>1. (u \o w)[Len(u) + 1] = "-"
      BY <1>2, <1>3, <1>4, <2>1
    <3>2. (u2 \o w2)[Len(u) + 1] = u2[Len(u) + 1]
      BY <1>2, <1>3, <1>4, <2>1
    <3>3. u2[Len(u) + 1] \in Digits
      BY <1>4, <2>1, ElementOfSeq
    <3>4. QED BY <1>0, <3>1, <3>2, <3>3, DigitFacts
  <2>2. ASSUME Len(u2) < Len(u) PROVE FALSE
    <3>1. (u2 \o w2)[Len(u2) + 1] = "-"
      BY <1>2, <1>3, <1>4, <2>2
    <3>2. (u \o w)[Len(u2) + 1] = u[Len(u2) + 1]
      BY <1>2, <1>3, <1>4, <2>2
    <3>3. u[Len(u2) + 1] \in Digits
      BY <1>4, <2>2, ElementOfSeq
    <3>4. QED BY <1>0, <3>1, <3>2, <3>3, DigitFacts
  <2>3. QED BY <1>4, <2>1, <2>2
<1>6. u = u2
  <2>1. \A i \in 1..Len(u) : u[i] = u2[i]
    BY <1>0, <1>2, <1>3, <1>4, <1>5
  <2>2. QED BY <1>1, <1>5, <2>1, SeqEqual
<1>7. w = w2
  BY <1>0, <1>1, <1>2, <1>6, ConcatSimplifications
<1>8. QED BY <1>1, <1>6, <1>7, ConcatSimplifications

(* A decimal rendering, and a dash-joined string of such renderings, are  *)
(* strings over Chars.                                                    *)
LEMMA DecimalChars ==
  ASSUME NEW n \in 0..255
  PROVE  Decimal(n) \in Seq(Chars)
<1>1. Decimal(n) \in Seq(Digits)
  BY DecimalDigits
<1>2. Digits \subseteq Chars
  BY DEF Chars
<1>3. QED BY <1>1, <1>2, SeqMonotonic

LEMMA DashedChars ==
  ASSUME NEW u \in Seq(Chars), NEW v \in Seq(Chars)
  PROVE  Dashed(u, v) \in Seq(Chars)
<1>1. <<"-">> \in Seq(Chars)
  BY DEF Chars
<1>2. QED BY <1>1, ConcatProperties DEF Dashed

(* Either backend gives distinct host devices distinct bus ids: the ids   *)
(* format!("{}-{}-{}") the bus number and the address (rusb_impl.rs,      *)
(* nusb_impl.rs), and a USB address is unique on its bus.                 *)
LEMMA ExportIdInjective ==
  ASSUME backend \in Backends
  PROVE  \A h, g \in HostDevices : ExportId[h] = ExportId[g] => h = g
<1> SUFFICES ASSUME NEW h \in HostDevices, NEW g \in HostDevices,
                    ExportId[h] = ExportId[g]
             PROVE  h = g
  OBVIOUS
<1>1. /\ Bus[h] \in 0..255 /\ Addr[h] \in 0..255 /\ Port[h] \in 0..255
      /\ Bus[g] \in 0..255 /\ Addr[g] \in 0..255 /\ Port[g] \in 0..255
  BY HostAssumption
<1>2. \E ph, pg \in 0..255 :
        FormatBusId(Bus[h], Addr[h], ph) = FormatBusId(Bus[g], Addr[g], pg)
  <2>1. CASE backend = "rusb"
    BY <1>1, <2>1 DEF ExportId, BusIdOf, RusbBusId
  <2>2. CASE backend # "rusb"
    <3>1. FormatBusId(Bus[h], Addr[h], 0) = FormatBusId(Bus[g], Addr[g], 0)
      BY <2>2 DEF ExportId, BusIdOf, NusbBusId
    <3>2. 0 \in 0..255
      OBVIOUS
    <3>3. QED BY <3>1, <3>2
  <2>3. QED BY <2>1, <2>2
<1>3. PICK ph, pg \in 0..255 :
        FormatBusId(Bus[h], Addr[h], ph) = FormatBusId(Bus[g], Addr[g], pg)
  BY <1>2
<1>4. /\ Decimal(Addr[h]) \in Seq(Chars) /\ Decimal(Addr[g]) \in Seq(Chars)
      /\ Decimal(ph) \in Seq(Chars) /\ Decimal(pg) \in Seq(Chars)
  BY <1>1, DecimalChars
<1>5. /\ Dashed(Decimal(Addr[h]), Decimal(ph)) \in Seq(Chars)
      /\ Dashed(Decimal(Addr[g]), Decimal(pg)) \in Seq(Chars)
  BY <1>4, DashedChars
<1>6. Dashed(Decimal(Bus[h]), Dashed(Decimal(Addr[h]), Decimal(ph)))
        = Dashed(Decimal(Bus[g]), Dashed(Decimal(Addr[g]), Decimal(pg)))
  BY <1>3 DEF FormatBusId, Dashed
<1>7. Decimal(Bus[h]) \in Seq(Digits) /\ Decimal(Bus[g]) \in Seq(Digits)
      /\ Decimal(Addr[h]) \in Seq(Digits) /\ Decimal(Addr[g]) \in Seq(Digits)
  BY <1>1, DecimalDigits
<1>8. /\ Decimal(Bus[h]) = Decimal(Bus[g])
      /\ Dashed(Decimal(Addr[h]), Decimal(ph))
           = Dashed(Decimal(Addr[g]), Decimal(pg))
  BY <1>5, <1>6, <1>7, DashSplit
<1>9. Decimal(Addr[h]) = Decimal(Addr[g])
  BY <1>4, <1>7, <1>8, DashSplit
<1>10. Bus[h] = Bus[g] /\ Addr[h] = Addr[g]
  BY <1>1, <1>8, <1>9, DecimalInjective
<1>11. QED BY <1>10, HostAssumption
-----------------------------------------------------------------------------
(* A loop starts with nothing of its list walked.                         *)
LEMMA SuffixSelf ==
  ASSUME NEW D, NEW s \in Seq(D)
  PROVE  Suffix(s, s) /\ Len(s) - Len(s) = 0
BY LenProperties DEF Suffix

(* One iteration takes the next device of the list, the one just after   *)
(* the walked part, and walks one more.                                   *)
LEMMA SuffixTail ==
  ASSUME NEW D, NEW p \in Seq(D), NEW s \in Seq(D), Suffix(p, s), p # << >>
  PROVE  /\ Len(s) - Len(p) \in 0..(Len(s) - 1)
         /\ Head(p) = s[Len(s) - Len(p) + 1]
         /\ Tail(p) \in Seq(D)
         /\ Suffix(Tail(p), s)
         /\ Len(s) - Len(Tail(p)) = (Len(s) - Len(p)) + 1
<1>1. Len(p) \in 1..Len(s)
  BY EmptySeq, LenProperties DEF Suffix
<1>2. /\ Tail(p) \in Seq(D)
      /\ Len(Tail(p)) = Len(p) - 1
      /\ \A i \in 1..Len(Tail(p)) : Tail(p)[i] = p[i + 1]
      /\ Head(p) = p[1]
  BY <1>1, EmptySeq, HeadTailProperties
<1>3. Suffix(Tail(p), s)
  BY <1>1, <1>2 DEF Suffix
<1>4. QED BY <1>1, <1>2, <1>3, LenProperties DEF Suffix

(* The handles of with_rusb_devices hold each device once.                *)
LEMMA SelfInjective ==
  \A a, b \in HostDevices : Self[a] = Self[b] => a = b
BY DEF Self

LEMMA PicksSelfDistinct ==
  ASSUME NEW s \in Seq(HostDevices), NEW k \in 0..Len(s), Distinct(s),
         NEW K, NEW e \in Seq(HostDevices), Picks(e, s, k, K, Self)
  PROVE  Distinct(e)
BY SelfInjective, PicksDistinct

(* A list picked with ExportId from a list without repetitions has no    *)
(* repeated bus id.                                                       *)
LEMMA PicksIdsDistinct ==
  ASSUME backend \in Backends,
         NEW s \in Seq(HostDevices), NEW k \in 0..Len(s), Distinct(s),
         NEW K, NEW e \in Seq(IdSet), Picks(e, s, k, K, ExportId)
  PROVE  Distinct(e)
<1>1. \A a, b \in HostDevices : ExportId[a] = ExportId[b] => a = b
  BY ExportIdInjective
<1>2. QED BY <1>1, PicksDistinct
-----------------------------------------------------------------------------
(* The empty device list has no repeated id.                              *)
LEMMA EmptyDistinct ==
  Distinct(<< >>) /\ << >> \in Seq(IdSet) /\ << >> \in Seq(HostDevices)
BY EmptySeq DEF Distinct

(* new_from_host_with_filter before rusb::devices(), or with_nusb_devices *)
(* before its first iteration.                                            *)
LEMMA EnumInit ==
  Init => EnumInv
<1> SUFFICES ASSUME Init PROVE EnumInv
  OBVIOUS
<1>1. /\ backend \in Backends
      /\ fails \in [HostDevices -> SUBSET (MayFail \cap Calls[backend])]
      /\ handles = << >> /\ exported = << >>
  BY DEF Init
<1>2. CASE backend = "rusb" /\ phase = "list" /\ listed = << >> /\ pending = << >>
  <2>1. Typed
    BY <1>1, <1>2, EmptyDistinct DEF Typed
  <2>2. BusIdsDistinct
    BY <1>1, EmptySeq DEF BusIdsDistinct
  <2>3. QED BY <1>1, <1>2, <2>1, <2>2
          DEF EnumInv, Listing, Opening, DescribingRusb, DescribingNusb,
              ExportsHealthyDevices
<1>3. CASE backend = "nusb" /\ phase = "describe" /\ listed \in Filtered
           /\ pending = listed
  <2>1. listed \in Seq(HostDevices) /\ Distinct(listed)
    BY <1>3, FilteredDistinct
  <2>2. Typed
    BY <1>1, <1>3, <2>1, EmptyDistinct DEF Typed
  <2>3. Suffix(pending, listed) /\ Len(listed) - Len(pending) = 0
    BY <1>3, <2>1, SuffixSelf
  <2>4. Picks(exported, listed, Len(listed) - Len(pending),
              HealthyDevices, ExportId)
    BY <1>1, <2>3, PicksEmpty
  <2>5. BusIdsDistinct
    BY <1>1, EmptySeq DEF BusIdsDistinct
  <2>6. QED BY <1>3, <2>2, <2>3, <2>4, <2>5
          DEF EnumInv, Listing, Opening, DescribingRusb, DescribingNusb,
              ExportsHealthyDevices
<1>4. QED BY <1>2, <1>3 DEF Init
(* rusb::devices() fails, and an empty server is returned; or the filter  *)
(* keeps some devices and with_rusb_devices starts on them.               *)
LEMMA ListStep ==
  ASSUME EnumInv, ListDevices
  PROVE  EnumInv'
<1>1. /\ Typed /\ phase = "list" /\ backend = "rusb"
      /\ listed = << >> /\ pending = << >> /\ handles = << >> /\ exported = << >>
      /\ UNCHANGED <<backend, fails, handles, exported>>
  BY DEF EnumInv, Listing, ListDevices
<1>2. BusIdsDistinct'
  BY <1>1, EmptySeq DEF BusIdsDistinct
<1>3. CASE phase' = "done" /\ UNCHANGED <<listed, pending>>
  <2>1. Typed'
    BY <1>1, <1>3 DEF Typed
  <2>2. Picks(exported, listed, Len(listed), HealthyDevices, ExportId)'
    BY <1>1, <1>3, EmptySeq, PicksEmpty
  <2>3. QED BY <1>2, <1>3, <2>1, <2>2
          DEF EnumInv, Listing, Opening, DescribingRusb, DescribingNusb,
              ExportsHealthyDevices
<1>4. CASE listed' \in Filtered /\ pending' = listed' /\ phase' = "open"
  <2>1. listed' \in Seq(HostDevices) /\ Distinct(listed')
    BY <1>4, FilteredDistinct
  <2>2. Typed'
    BY <1>1, <1>4, <2>1 DEF Typed
  <2>3. Suffix(pending', listed') /\ Len(listed') - Len(pending') = 0
    BY <1>4, <2>1, SuffixSelf
  <2>4. Picks(handles, listed, Len(listed) - Len(pending), OpenOK, Self)'
    BY <1>1, <2>3, PicksEmpty
  <2>5. QED BY <1>1, <1>2, <1>4, <2>2, <2>3, <2>4
          DEF EnumInv, Listing, Opening, DescribingRusb, DescribingNusb,
              ExportsHealthyDevices
<1>5. QED BY <1>3, <1>4 DEF ListDevices
(* One iteration of with_rusb_devices, or its hand-over of the handles.   *)
LEMMA OpenStep ==
  ASSUME EnumInv, OpenDevice
  PROVE  EnumInv'
<1> DEFINE k == Len(listed) - Len(pending)
<1>1. /\ Typed /\ phase = "open" /\ backend = "rusb"
      /\ Suffix(pending, listed)
      /\ Picks(handles, listed, k, OpenOK, Self)
      /\ exported = << >>
      /\ UNCHANGED <<backend, fails, listed, exported>>
  BY DEF EnumInv, Opening, OpenDevice
<1>2. /\ listed \in Seq(HostDevices) /\ pending \in Seq(HostDevices)
      /\ handles \in Seq(HostDevices)
  BY <1>1 DEF Typed
<1>3. BusIdsDistinct'
  BY <1>1, EmptySeq DEF BusIdsDistinct
<1>4. CASE /\ pending # << >>
           /\ handles' = IF "open" \in fails[Head(pending)] THEN handles
                         ELSE Append(handles, Head(pending))
           /\ pending' = Tail(pending)
           /\ UNCHANGED phase
  <2>1. /\ k \in 0..(Len(listed) - 1)
        /\ Head(pending) = listed[k + 1]
        /\ Tail(pending) \in Seq(HostDevices)
        /\ Suffix(Tail(pending), listed)
        /\ Len(listed) - Len(Tail(pending)) = k + 1
    BY <1>1, <1>2, <1>4, SuffixTail
  <2> DEFINE h == listed[k + 1]
  <2>2. h \in HostDevices /\ Self[h] = h
    BY <1>2, <2>1, ElementOfSeq DEF Self
  <2>3. Picks(handles', listed, k + 1, OpenOK, Self)
    <3>1. CASE "open" \in fails[h]
      <4>1. h \notin OpenOK
        BY <3>1 DEF OpenOK
      <4>2. QED BY <1>1, <1>2, <1>4, <2>1, <3>1, <4>1, PicksSkip
    <3>2. CASE "open" \notin fails[h]
      <4>1. h \in OpenOK
        BY <2>2, <3>2 DEF OpenOK
      <4>2. Picks(Append(handles, Self[h]), listed, k + 1, OpenOK, Self)
        BY <1>1, <1>2, <2>1, <2>2, <4>1, PicksKeep
      <4>3. QED BY <1>4, <2>1, <2>2, <3>2, <4>2
    <3>3. QED BY <3>1, <3>2
  <2>4. handles' \in Seq(HostDevices)
    BY <1>2, <1>4, <2>1, <2>2, AppendProperties
  <2>5. Typed'
    BY <1>1, <1>4, <2>1, <2>4 DEF Typed
  <2>6. Opening'
    BY <1>1, <1>4, <2>1, <2>3 DEF Opening, OpenOK
  <2>7. QED BY <1>1, <1>3, <1>4, <2>5, <2>6
          DEF EnumInv, Listing, DescribingRusb, DescribingNusb,
              ExportsHealthyDevices
<1>5. CASE /\ pending = << >>
           /\ pending' = handles
           /\ phase' = "describe"
           /\ UNCHANGED handles
  <2>1. k = Len(listed)
    BY <1>5, EmptySeq
  <2>2. Suffix(handles, handles) /\ Len(handles) - Len(handles) = 0
    BY <1>2, SuffixSelf
  <2>3. Picks(<< >>, handles, 0, HealthyDevices, ExportId)'
    BY PicksEmpty
  <2>4. Typed'
    BY <1>1, <1>2, <1>5 DEF Typed
  <2>5. DescribingRusb'
    BY <1>1, <1>5, <2>1, <2>2, <2>3 DEF DescribingRusb, OpenOK
  <2>6. QED BY <1>1, <1>3, <1>5, <2>4, <2>5
          DEF EnumInv, Listing, Opening, DescribingNusb, ExportsHealthyDevices
<1>6. QED BY <1>4, <1>5 DEF OpenDevice
(* One iteration of with_rusb_device_handles.                             *)
LEMMA DescribeRusbStep ==
  ASSUME EnumInv, DescribeRusb
  PROVE  EnumInv'
<1> DEFINE k == Len(handles) - Len(pending)
           h == Head(pending)
<1>1. /\ Typed /\ phase = "describe" /\ backend = "rusb" /\ pending # << >>
      /\ Suffix(pending, handles)
      /\ Picks(handles, listed, Len(listed), OpenOK, Self)
      /\ Picks(exported, handles, k, HealthyDevices, ExportId)
      /\ pending' = Tail(pending)
      /\ UNCHANGED <<backend, fails, listed, handles>>
  BY DEF EnumInv, DescribingRusb, DescribeRusb
<1>2. /\ backend \in Backends
      /\ listed \in Seq(HostDevices) /\ Distinct(listed)
      /\ pending \in Seq(HostDevices) /\ handles \in Seq(HostDevices)
      /\ exported \in Seq(IdSet)
      /\ fails[h] \subseteq {"open", "device_descriptor", "config", "string"}
  <2>1. h \in HostDevices
    BY <1>1, HeadTailProperties, EmptySeq DEF Typed
  <2>2. QED BY <1>1, <2>1 DEF Typed, Calls
<1>3. /\ k \in 0..(Len(handles) - 1)
      /\ h = handles[k + 1]
      /\ Tail(pending) \in Seq(HostDevices)
      /\ Suffix(Tail(pending), handles)
      /\ Len(handles) - Len(Tail(pending)) = k + 1
  BY <1>1, <1>2, SuffixTail
<1>4. h \in HostDevices /\ h \in OpenOK
  <2>1. \A j \in 1..Len(handles) :
          \E i \in 1..Len(listed) : listed[i] \in OpenOK /\ handles[j] = Self[listed[i]]
    <3>1. handles \in Seq(HostDevices)
      BY <1>2
    <3>2. Picks(handles, listed, Len(listed), OpenOK, Self)
      BY <1>1
    <3>3. QED BY <3>1, <3>2, PicksFrom
  <2>2. PICK i \in 1..Len(listed) : listed[i] \in OpenOK /\ h = Self[listed[i]]
    BY <1>3, <2>1
  <2>3. listed[i] \in HostDevices
    BY <1>2, ElementOfSeq
  <2>4. QED BY <2>2, <2>3 DEF Self, OpenOK
<1>5. Distinct(handles)
  <2>1. Len(listed) \in 0..Len(listed)
    BY <1>2, LenProperties
  <2>2. QED BY <1>1, <1>2, <2>1, PicksSelfDistinct
<1>6. ASSUME Picks(exported', handles, k + 1, HealthyDevices, ExportId),
             exported' \in Seq(IdSet),
             phase' = "describe"
      PROVE  EnumInv'
  <2>1. Typed'
    BY <1>1, <1>3, <1>6 DEF Typed, IdSet, ExportId, BusIdOf
  <2>2. BusIdsDistinct'
    <3>1. k + 1 \in 0..Len(handles)
      BY <1>3
    <3>2. Distinct(exported')
      BY <1>1, <1>2, <1>5, <1>6, <3>1, PicksIdsDistinct
    <3>3. QED BY <3>2 DEF Distinct, BusIdsDistinct
  <2>3. DescribingRusb'
    BY <1>1, <1>3, <1>6 DEF DescribingRusb, OpenOK, HealthyDevices, ExportId,
                             BusIdOf
  <2>4. QED BY <1>1, <1>6, <2>1, <2>2, <2>3
          DEF EnumInv, Listing, Opening, DescribingNusb, ExportsHealthyDevices
<1>7. CASE /\ fails[h] \cap {"device_descriptor", "config"} # {}
           /\ UNCHANGED <<exported, phase>>
  <2>1. h \notin HealthyDevices
    BY <1>7 DEF HealthyDevices
  <2>2. Picks(exported, handles, k + 1, HealthyDevices, ExportId)
    BY <1>1, <1>2, <1>3, <2>1, PicksSkip
  <2>3. QED BY <1>1, <1>2, <1>6, <1>7, <2>2 DEF HealthyDevices, ExportId, BusIdOf
<1>8. CASE /\ fails[h] \cap {"device_descriptor", "config"} = {}
           /\ "string" \in fails[h]
           /\ phase' = "panic"
           /\ UNCHANGED exported
  <2>1. Typed'
    BY <1>1, <1>3, <1>8 DEF Typed, IdSet, ExportId, BusIdOf
  <2>2. BusIdsDistinct'
    BY <1>8 DEF EnumInv, BusIdsDistinct
  <2>3. QED BY <1>8, <2>1, <2>2
          DEF EnumInv, Listing, Opening, DescribingRusb, DescribingNusb,
              ExportsHealthyDevices
<1>9. CASE /\ fails[h] \cap {"device_descriptor", "config", "string"} = {}
           /\ exported' = Append(exported, RusbBusId(h))
           /\ UNCHANGED phase
  <2>1. fails[h] = {}
    BY <1>2, <1>4, <1>9 DEF OpenOK
  <2>2. h \in HealthyDevices /\ ExportId[h] = RusbBusId(h) /\ ExportId[h] \in IdSet
    BY <1>1, <1>4, <2>1 DEF HealthyDevices, ExportId, BusIdOf, IdSet
  <2>3. Picks(Append(exported, ExportId[handles[k + 1]]), handles, k + 1,
              HealthyDevices, ExportId)
    BY <1>1, <1>2, <1>3, <2>2, PicksKeep
  <2>4. Append(exported, RusbBusId(h)) \in Seq(IdSet)
    BY <1>2, <2>2, AppendProperties
  <2>5. QED BY <1>1, <1>3, <1>6, <1>9, <2>2, <2>3, <2>4
<1>10. QED BY <1>7, <1>8, <1>9 DEF DescribeRusb
(* One iteration of with_nusb_devices.                                    *)
LEMMA DescribeNusbStep ==
  ASSUME EnumInv, DescribeNusb
  PROVE  EnumInv'
<1> DEFINE k == Len(listed) - Len(pending)
           h == Head(pending)
<1>1. /\ Typed /\ phase = "describe" /\ backend = "nusb" /\ pending # << >>
      /\ Suffix(pending, listed)
      /\ Picks(exported, listed, k, HealthyDevices, ExportId)
      /\ pending' = Tail(pending)
      /\ UNCHANGED <<backend, fails, listed, handles>>
  BY DEF EnumInv, DescribingNusb, DescribeNusb
<1>2. /\ backend \in Backends
      /\ listed \in Seq(HostDevices) /\ Distinct(listed)
      /\ pending \in Seq(HostDevices) /\ exported \in Seq(IdSet)
  BY <1>1 DEF Typed
<1>3. /\ k \in 0..(Len(listed) - 1)
      /\ h = listed[k + 1]
      /\ Tail(pending) \in Seq(HostDevices)
      /\ Suffix(Tail(pending), listed)
      /\ Len(listed) - Len(Tail(pending)) = k + 1
  BY <1>1, <1>2, SuffixTail
<1>4. h \in HostDevices
  BY <1>2, <1>3, ElementOfSeq
<1>5. ASSUME Picks(exported', listed, k + 1, HealthyDevices, ExportId),
             exported' \in Seq(IdSet),
             phase' = "describe"
      PROVE  EnumInv'
  <2>1. Typed'
    BY <1>1, <1>3, <1>5 DEF Typed, IdSet, ExportId, BusIdOf
  <2>2. BusIdsDistinct'
    <3>1. k + 1 \in 0..Len(listed)
      BY <1>3
    <3>2. Distinct(exported')
      BY <1>2, <1>5, <3>1, PicksIdsDistinct
    <3>3. QED BY <3>2 DEF Distinct, BusIdsDistinct
  <2>3. DescribingNusb'
    BY <1>1, <1>3, <1>5 DEF DescribingNusb, HealthyDevices, ExportId, BusIdOf
  <2>4. QED BY <1>1, <1>5, <2>1, <2>2, <2>3
          DEF EnumInv, Listing, Opening, DescribingRusb, ExportsHealthyDevices
<1>6. CASE /\ fails[h] \cap {"open", "config"} # {}
           /\ UNCHANGED <<exported, phase>>
  <2>1. h \notin HealthyDevices
    BY <1>6 DEF HealthyDevices
  <2>2. Picks(exported, listed, k + 1, HealthyDevices, ExportId)
    BY <1>1, <1>2, <1>3, <2>1, PicksSkip
  <2>3. QED BY <1>1, <1>2, <1>5, <1>6, <2>2 DEF HealthyDevices, ExportId, BusIdOf
<1>7. CASE /\ fails[h] \cap {"open", "config"} = {}
           /\ fails[h] \cap {"claim", "speed"} # {}
           /\ phase' = "panic"
           /\ UNCHANGED exported
  <2>1. Typed'
    BY <1>1, <1>3, <1>7 DEF Typed, IdSet, ExportId, BusIdOf
  <2>2. BusIdsDistinct'
    BY <1>7 DEF EnumInv, BusIdsDistinct
  <2>3. QED BY <1>7, <2>1, <2>2
          DEF EnumInv, Listing, Opening, DescribingRusb, DescribingNusb,
              ExportsHealthyDevices
<1>8. CASE /\ fails[h] = {}
           /\ exported' = Append(exported, NusbBusId(h))
           /\ UNCHANGED phase
  <2>1. h \in HealthyDevices /\ ExportId[h] = NusbBusId(h) /\ ExportId[h] \in IdSet
    BY <1>1, <1>4, <1>8 DEF HealthyDevices, ExportId, BusIdOf, IdSet
  <2>2. Picks(Append(exported, ExportId[listed[k + 1]]), listed, k + 1,
              HealthyDevices, ExportId)
    BY <1>1, <1>2, <1>3, <2>1, PicksKeep
  <2>3. Append(exported, NusbBusId(h)) \in Seq(IdSet)
    BY <1>2, <2>1, AppendProperties
  <2>4. QED BY <1>1, <1>3, <1>5, <1>8, <2>1, <2>2, <2>3
<1>9. QED BY <1>6, <1>7, <1>8 DEF DescribeNusb

(* The loop is over and the list is returned.                             *)
LEMMA FinishStep ==
  ASSUME EnumInv, Finish
  PROVE  EnumInv'
<1>1. /\ Typed /\ phase = "describe" /\ pending = << >> /\ phase' = "done"
      /\ UNCHANGED <<backend, fails, listed, pending, handles, exported>>
      /\ BusIdsDistinct
  BY DEF EnumInv, Finish
<1>2. /\ backend \in Backends
      /\ listed \in Seq(HostDevices) /\ handles \in Seq(HostDevices)
      /\ exported \in Seq(IdSet)
      /\ Len(pending) = 0
  BY <1>1, EmptySeq DEF Typed
<1>3. Picks(exported, listed, Len(listed), HealthyDevices, ExportId)
  <2>1. CASE backend = "rusb"
    <3>1. /\ Picks(handles, listed, Len(listed), OpenOK, Self)
          /\ Picks(exported, handles, Len(handles), HealthyDevices, ExportId)
      BY <1>1, <1>2, <2>1 DEF EnumInv, DescribingRusb
    <3>2. HealthyDevices \subseteq OpenOK
      BY DEF HealthyDevices, OpenOK
    <3>3. QED BY <1>2, <3>1, <3>2, PicksCompose DEF Self
  <2>2. CASE backend # "rusb"
    <3>1. backend = "nusb"
      BY <1>2, <2>2, HostAssumption
    <3>2. QED BY <1>1, <1>2, <3>1 DEF EnumInv, DescribingNusb
  <2>3. QED BY <2>1, <2>2
<1>4. Typed'
  BY <1>1 DEF Typed, IdSet, ExportId, BusIdOf
<1>5. QED BY <1>1, <1>3, <1>4
        DEF EnumInv, Listing, Opening, DescribingRusb, DescribingNusb,
            ExportsHealthyDevices, BusIdsDistinct, HealthyDevices, ExportId,
            BusIdOf
LEMMA StutterStep ==
  ASSUME EnumInv, UNCHANGED vars
  PROVE  EnumInv'
BY DEF EnumInv, vars, Typed, Listing, Opening, DescribingRusb, DescribingNusb,
       ExportsHealthyDevices, BusIdsDistinct, OpenOK, Self, IdSet,
       HealthyDevices, ExportId, BusIdOf

LEMMA EnumStep ==
  EnumInv /\ [Next]_vars => EnumInv'
BY ListStep, OpenStep, DescribeRusbStep, DescribeNusbStep, FinishStep,
   StutterStep DEF Next

-----------------------------------------------------------------------------
(* Once new_from_host_with_filter or with_nusb_devices returns, the       *)
(* server's device list holds, in the host's order and once each, the bus *)
(* ids of exactly those listed devices on which no host call failed.      *)
THEOREM HealthyDevicesExported == Spec => []ExportsHealthyDevices
<1>1. Init => EnumInv
  BY EnumInit
<1>2. EnumInv /\ [Next]_vars => EnumInv'
  BY EnumStep
<1>3. EnumInv => ExportsHealthyDevices
  BY DEF EnumInv
<1>4. QED BY <1>1, <1>2, <1>3, PTL DEF Spec

(* No two UsbDevices the host backends push share a bus id, at any point *)
(* of construction, for either backend and any host.                     *)
THEOREM BusIdsUnique == Spec => []BusIdsDistinct
<1>1. Init => EnumInv
  BY EnumInit
<1>2. EnumInv /\ [Next]_vars => EnumInv'
  BY EnumStep
<1>3. EnumInv => BusIdsDistinct
  BY DEF EnumInv
<1>4. QED BY <1>1, <1>2, <1>3, PTL DEF Spec
=============================================================================
