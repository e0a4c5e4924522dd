--------------------------- MODULE ReceiverProofs ---------------------------
(***************************************************************************)
(* The receiver (module Receiver), proved for every width of the bytes,    *)
(* size of the buffer and set of messages.                                 *)
(*                                                                         *)
(* The loops of the two recoveries go through the buffer towards its end.  *)
(* That such a recursion has a result, and what the result is like, is     *)
(* shown by the least number of bytes left for which it would not.         *)
(***************************************************************************)
EXTENDS Receiver, SequenceTheorems, WellFoundedInduction, TLAPS

Handed       == [frame : Seq(TaggedByte), recovered : BOOLEAN]
Transmission == [bytes : Seq(Byte), intact : BOOLEAN]

(* The bytes of the buffer were read one after the other, from o + 1 on.   *)
Row(b, o) == \A k \in 1..Len(b) : b[k].position = o + k

EndOf(frame) == frame[Len(frame)].position

(* What is handed on are stretches of the bytes behind lo, up to hi, in    *)
(* their order and without a byte in common.                               *)
InOrder(found, lo, hi) ==
  /\ found \in Seq(Handed)
  /\ \A k \in 1..Len(found) :
       /\ Len(found[k].frame) >= 1
       /\ found[k].frame[1].position > lo
       /\ EndOf(found[k].frame) <= hi
       /\ \A j \in 1..Len(found[k].frame) :
            found[k].frame[j].position = found[k].frame[1].position + j - 1
       /\ k > 1 => found[k].frame[1].position > EndOf(found[k - 1].frame)

TypeInv ==
  /\ setting \in Settings
  /\ bytes_read \in BOOLEAN /\ synced \in BOOLEAN
  /\ age \in {Recent, Late, Old}
  /\ pos \in Nat /\ sent \in Nat /\ damaged \in Nat
  /\ position \in Nat /\ upto \in Nat
  /\ ticks \in {0, 1}
  /\ handed \in Seq(Handed)

(* What is on the line, and how much of it was read.                       *)
LineInv ==
  /\ line \in Seq(Transmission)
  /\ \A i \in 1..Len(line) : /\ Len(line[i].bytes) >= 1
                             /\ line[i].intact => line[i].bytes \in Messages
  /\ IF line = <<>> THEN pos = 0 ELSE pos < Len(line[1].bytes)

(* The buffer holds what was read last, until it is full; then it is not   *)
(* complete and stays as it is.  None of it was handed on.                 *)
BufferInv ==
  /\ buf \in Seq(TaggedByte) /\ Len(buf) < Size
  /\ upto <= position
  /\ buf # <<>> =>
       /\ Row(buf, buf[1].position - 1)
       /\ upto < buf[1].position
       /\ EndOf(buf) <= position
       /\ Len(buf) < Size - 1 => EndOf(buf) = position
  /\ Len(buf) = Size - 1 => ~Complete(buf, 0)

(* In step, the buffer is what was read of the transmission.               *)
InStep ==
  synced /\ pos > 0 /\ line[1].intact =>
    /\ age = Recent
    /\ Len(buf) = pos
    /\ \A k \in 1..pos : buf[k].byte = line[1].bytes[k]

(* After a byte was read the program transmits after a tick, and so not    *)
(* within a transmission that is read as it arrives.                       *)
Silence ==
  ~bytes_read => /\ buf = <<>>
                 /\ Prompt /\ pos > 0 => ticks = 1

IInv == TypeInv /\ LineInv /\ BufferInv /\ InStep /\ Silence
-----------------------------------------------------------------------------
(* Recursion towards the end of a row of places.                           *)

(* What holds at a place whenever it holds at all later ones holds at all. *)
LEMMA BackwardInduction ==
  ASSUME NEW M \in Nat, NEW S,
         \A i \in 0..M : (\A k \in (i + 1)..M : k \in S) => i \in S
  PROVE  \A i \in 0..M : i \in S
<1> DEFINE Fails == {d \in Nat : d <= M /\ M - d \notin S}
           Less  == OpToRel(<, Nat)
<1>1. Fails = {}
  <2> SUFFICES ASSUME Fails # {} PROVE FALSE
    OBVIOUS
  <2>1. PICK d \in Fails : \A e \in Fails : ~(<<e, d>> \in Less)
    <3>1. Fails \subseteq Nat /\ Fails # {} /\ IsWellFoundedOn(Less, Nat)
      BY NatLessThanWellFounded
    <3> HIDE DEF Fails, Less
    <3> QED BY <3>1, WFMin
  <2>2. d \in Nat /\ d <= M /\ M - d \notin S
    BY <2>1
  <2>3. ASSUME NEW k \in ((M - d) + 1)..M PROVE k \in S
    <3>1. M - k \in Nat /\ M - k < d /\ M - k <= M /\ M - (M - k) = k
      BY <2>2
    <3>2. <<M - k, d>> \in Less
      BY <2>2, <3>1 DEF OpToRel
    <3>3. M - k \notin Fails
      BY <2>1, <3>2
    <3> QED BY <3>1, <3>3
  <2>4. M - d \in 0..M
    BY <2>2
  <2> QED BY <2>2, <2>3, <2>4
<1>2. ASSUME NEW i \in 0..M PROVE i \in S
  <2>1. M - i \in Nat /\ M - i <= M /\ M - (M - i) = i
    OBVIOUS
  <2> QED BY <1>1, <2>1
<1> QED BY <1>2

(* A function of 0..M whose value at a place is either known or made from  *)
(* the value at a later place exists, and its values are what the one and  *)
(* the other yield.                                                        *)
Recursion(M, R, Stop, base, nx, h) ==
  /\ \A i \in 0..M : i \in Stop => base[i] \in R[i]
  /\ \A i \in 0..M : i \notin Stop =>
       nx[i] \in (i + 1)..M /\ \A x \in R[nx[i]] : h[i][x] \in R[i]

Solution(f, M, R, Stop, base, nx, h) ==
  /\ f = [i \in 0..M |-> IF i \in Stop THEN base[i] ELSE h[i][f[nx[i]]]]
  /\ \A i \in 0..M : f[i] \in R[i]

LEMMA BackwardRecursion ==
  ASSUME NEW M \in Nat, NEW R, NEW Stop, NEW base, NEW nx, NEW h,
         Recursion(M, R, Stop, base, nx, h)
  PROVE  \E f : Solution(f, M, R, Stop, base, nx, h)
<1> USE DEF Recursion
<1> DEFINE Step(f, i) == IF i \in Stop THEN base[i] ELSE h[i][f[nx[i]]]
           Solves(f, k) == /\ f = [i \in k..M |-> Step(f, i)]
                           /\ \A i \in k..M : f[i] \in R[i]
           S == {k \in 0..M : \E f : Solves(f, k)}
<1>1. ASSUME NEW k \in 0..M, \A n \in (k + 1)..M : n \in S PROVE k \in S
  <2>1. PICK f : Solves(f, k + 1)
    <3>1. CASE k = M
      <4>1. (k + 1)..M = {}
        BY <3>1
      <4> DEFINE f == [i \in {} |-> {}]
      <4>2. f = [i \in (k + 1)..M |-> Step(f, i)]
        BY <4>1
      <4>3. Solves(f, k + 1)
        BY <4>1, <4>2
      <4> HIDE DEF Solves, f
      <4> QED BY <4>3
    <3>2. CASE k # M
      <4>1. k + 1 \in (k + 1)..M
        BY <3>2
      <4> HIDE DEF Solves
      <4> QED BY <1>1, <4>1
    <3> QED BY <3>1, <3>2
  <2> HIDE DEF S
  <2> DEFINE g == [i \in k..M |-> IF i = k THEN Step(f, k) ELSE f[i]]
  <2>2. \A i \in (k + 1)..M : f[i] = Step(f, i) /\ f[i] \in R[i]
    BY <2>1
  <2>3. \A i \in k..M : i \notin Stop => nx[i] \in (k + 1)..M /\ nx[i] \in (i + 1)..M
    OBVIOUS
  <2>4. \A i \in (k + 1)..M : i \in k..M /\ i # k /\ g[i] = f[i]
    OBVIOUS
  <2>5. k \in k..M /\ g[k] = Step(f, k)
    OBVIOUS
  <2>6. \A i \in k..M : Step(g, i) = Step(f, i)
    <3> HIDE DEF g
    <3> QED BY <2>3, <2>4
  <2>7. \A i \in k..M : i = k \/ i \in (k + 1)..M
    OBVIOUS
  <2>8. \A i \in k..M : g[i] = Step(g, i)
    <3> HIDE DEF g, Step
    <3> QED BY <2>2, <2>4, <2>5, <2>6, <2>7
  <2>9. g[k] \in R[k]
    <3> HIDE DEF g
    <3> QED BY <2>2, <2>3, <2>5
  <2>10. \A i \in k..M : g[i] \in R[i]
    <3> HIDE DEF g, Step
    <3> QED BY <2>2, <2>4, <2>7, <2>9
  <2>11. g = [i \in k..M |-> Step(g, i)]
    <3>1. g = [i \in k..M |-> g[i]]
      OBVIOUS
    <3> HIDE DEF g, Step
    <3> QED BY <2>8, <3>1
  <2>12. Solves(g, k)
    <3> HIDE DEF g, Step
    <3> QED BY <2>10, <2>11
  <2>13. \E f1 : Solves(f1, k)
    <3> HIDE DEF Solves, g
    <3> QED BY <2>12
  <2> HIDE DEF Solves, g
  <2> QED BY <2>13 DEF S
<1>2. \A i \in 0..M : i \in S
  <2> HIDE DEF S
  <2> QED BY <1>1, BackwardInduction
<1>3. \E f : Solves(f, 0)
  <2>1. 0 \in 0..M
    OBVIOUS
  <2> HIDE DEF Solves
  <2> QED BY <1>2, <2>1
<1> QED BY <1>3 DEF Solution
-----------------------------------------------------------------------------
(* What is handed on.                                                      *)

LEMMA BytesAreNumbers == \A x \in Byte : x \in Nat
BY DEF Byte

LEMMA NothingInOrder ==
  ASSUME NEW lo, NEW hi
  PROVE  InOrder(<<>>, lo, hi)
BY DEF InOrder

(* What is left of a row, and a part of it.                                *)
LEMMA PartOfRow ==
  ASSUME NEW b \in Seq(TaggedByte), NEW o \in Int, Row(b, o),
         NEW i \in Nat, NEW j \in Nat, i <= j, j <= Len(b)
  PROVE  /\ SubSeq(b, i + 1, j) \in Seq(TaggedByte)
         /\ Len(SubSeq(b, i + 1, j)) = j - i
         /\ Row(SubSeq(b, i + 1, j), o + i)
         /\ \A k \in 1..(j - i) : SubSeq(b, i + 1, j)[k] = b[i + k]
<1> DEFINE s == SubSeq(b, i + 1, j)
<1>1. /\ s \in Seq(TaggedByte) /\ Len(s) = j - i
      /\ \A k \in 1..(j - i) : s[k] = b[(i + 1) + k - 1]
  OBVIOUS
<1>2. \A k \in 1..(j - i) : (i + 1) + k - 1 = i + k /\ i + k \in 1..Len(b)
  OBVIOUS
<1>3. \A k \in 1..(j - i) : s[k] = b[i + k]
  BY <1>1, <1>2
<1> HIDE DEF s
<1>4. Row(s, o + i)
  <2>1. ASSUME NEW k \in 1..Len(s) PROVE s[k].position = (o + i) + k
    <3>1. k \in 1..(j - i) /\ s[k] = b[i + k] /\ i + k \in 1..Len(b)
      BY <1>1, <1>2, <1>3
    <3>2. s[k].position = o + (i + k)
      BY <3>1 DEF Row
    <3> QED BY <3>2
  <2> QED BY <2>1 DEF Row
<1> QED BY <1>1, <1>3, <1>4 DEF s

(* A message that is a part of the buffer.                                 *)
LEMMA OneInOrder ==
  ASSUME NEW b \in Seq(TaggedByte), NEW o \in Int, Row(b, o),
         NEW i \in Nat, NEW j \in Nat, i < j, j <= Len(b), NEW r \in BOOLEAN
  PROVE  InOrder(<<[frame |-> SubSeq(b, i + 1, j), recovered |-> r]>>, o + i, o + j)
<1> DEFINE s == SubSeq(b, i + 1, j)
           m == [frame |-> s, recovered |-> r]
<1>1. /\ s \in Seq(TaggedByte) /\ Len(s) = j - i /\ Row(s, o + i)
  BY PartOfRow
<1> HIDE DEF s
<1>2. m \in Handed /\ m.frame = s
  BY <1>1 DEF Handed
<1> HIDE DEF m
<1>3. <<m>> \in Seq(Handed) /\ Len(<<m>>) = 1 /\ <<m>>[1] = m
  BY <1>2
<1>4. \A k \in 1..Len(s) : s[k].position = (o + i) + k
  BY <1>1 DEF Row
<1>5. Len(s) >= 1 /\ 1 \in 1..Len(s) /\ Len(s) \in 1..Len(s)
  BY <1>1
<1>6. s[1].position = (o + i) + 1 /\ EndOf(s) = o + j
  <2>1. s[1].position = (o + i) + 1 /\ s[Len(s)].position = (o + i) + Len(s)
    BY <1>4, <1>5
  <2> QED BY <1>1, <2>1 DEF EndOf
<1>7. \A k \in 1..Len(s) : s[k].position = s[1].position + k - 1
  BY <1>4, <1>6
<1>8. InOrder(<<m>>, o + i, o + j)
  <2>1. \A k : k \in 1..1 <=> k = 1
    OBVIOUS
  <2> QED BY <1>2, <1>3, <1>5, <1>6, <1>7, <2>1 DEF InOrder
<1> QED BY <1>8 DEF m, s

LEMMA MoreInOrder ==
  ASSUME NEW x, NEW y, NEW lo \in Int, NEW mid \in Int, NEW hi \in Int,
         lo <= mid, mid <= hi, InOrder(x, lo, mid), InOrder(y, mid, hi)
  PROVE  InOrder(x \o y, lo, hi)
<1> DEFINE z == x \o y
<1>1. x \in Seq(Handed) /\ y \in Seq(Handed)
  BY DEF InOrder
<1>2. /\ z \in Seq(Handed) /\ Len(z) = Len(x) + Len(y)
      /\ \A k \in 1..Len(x) : z[k] = x[k]
      /\ \A k \in (Len(x) + 1)..Len(z) : z[k] = y[k - Len(x)]
  BY <1>1
<1>3. Len(x) \in Nat /\ Len(y) \in Nat
  BY <1>1
<1> HIDE DEF z
<1>4. \A s \in Seq(Handed) : \A k \in 1..Len(s) :
        Len(s[k].frame) >= 1 => /\ s[k].frame[1].position \in Int
                                /\ EndOf(s[k].frame) \in Int
  <2> SUFFICES ASSUME NEW s \in Seq(Handed), NEW k \in 1..Len(s), Len(s[k].frame) >= 1
               PROVE  s[k].frame[1].position \in Int /\ EndOf(s[k].frame) \in Int
    OBVIOUS
  <2> DEFINE f == s[k].frame
  <2>1. f \in Seq(TaggedByte)
    <3>1. s[k] \in Handed
      OBVIOUS
    <3> QED BY <3>1 DEF Handed
  <2>2. f[1] \in TaggedByte /\ f[Len(f)] \in TaggedByte
    <3>1. Len(f) >= 1
      OBVIOUS
    <3> HIDE DEF f
    <3> QED BY <2>1, <3>1
  <2> HIDE DEF f
  <2> QED BY <2>2 DEF EndOf, TaggedByte, f
<1>5. ASSUME NEW k \in 1..Len(x)
      PROVE  /\ Len(z[k].frame) >= 1
             /\ z[k].frame[1].position > lo
             /\ EndOf(z[k].frame) <= hi
             /\ \A j \in 1..Len(z[k].frame) :
                  z[k].frame[j].position = z[k].frame[1].position + j - 1
             /\ k > 1 => z[k].frame[1].position > EndOf(z[k - 1].frame)
  <2>1. z[k] = x[k] /\ (k > 1 => k - 1 \in 1..Len(x) /\ z[k - 1] = x[k - 1])
    BY <1>2, <1>3
  <2>2. EndOf(x[k].frame) <= mid /\ EndOf(x[k].frame) \in Int
    BY <1>1, <1>4 DEF InOrder
  <2>3. EndOf(x[k].frame) <= hi
    BY <2>2
  <2> QED BY <2>1, <2>3 DEF InOrder
<1>6. ASSUME NEW k \in (Len(x) + 1)..Len(z)
      PROVE  /\ Len(z[k].frame) >= 1
             /\ z[k].frame[1].position > lo
             /\ EndOf(z[k].frame) <= hi
             /\ \A j \in 1..Len(z[k].frame) :
                  z[k].frame[j].position = z[k].frame[1].position + j - 1
             /\ k > 1 => z[k].frame[1].position > EndOf(z[k - 1].frame)
  <2> DEFINE n == k - Len(x)
  <2>1. n \in 1..Len(y) /\ z[k] = y[n]
    BY <1>2, <1>3
  <2>2. /\ Len(y[n].frame) >= 1 /\ EndOf(y[n].frame) <= hi
        /\ y[n].frame[1].position > mid
        /\ \A j \in 1..Len(y[n].frame) :
             y[n].frame[j].position = y[n].frame[1].position + j - 1
        /\ n > 1 => y[n].frame[1].position > EndOf(y[n - 1].frame)
    BY <2>1 DEF InOrder
  <2>3. y[n].frame[1].position \in Int
    BY <1>1, <1>4, <2>1, <2>2
  <2>4. y[n].frame[1].position > lo
    BY <2>2, <2>3
  <2>5. CASE n > 1
    <3>1. k - 1 \in (Len(x) + 1)..Len(z) /\ (k - 1) - Len(x) = n - 1
      BY <1>2, <1>3, <2>5
    <3>2. z[k - 1] = y[n - 1]
      BY <1>2, <3>1
    <3> HIDE DEF n
    <3> QED BY <2>1, <2>2, <2>4, <2>5, <3>2
  <2>6. CASE n = 1
    <3>1. k - 1 = Len(x)
      BY <1>3, <2>6
    <3>2. ASSUME k > 1 PROVE y[n].frame[1].position > EndOf(z[k - 1].frame)
      <4>1. k - 1 \in 1..Len(x) /\ z[k - 1] = x[k - 1]
        BY <1>2, <1>3, <3>1, <3>2
      <4>2. /\ Len(x[k - 1].frame) >= 1 /\ EndOf(x[k - 1].frame) <= mid
            /\ EndOf(x[k - 1].frame) \in Int
        BY <1>1, <1>4, <4>1 DEF InOrder
      <4>3. y[n].frame[1].position > EndOf(x[k - 1].frame)
        BY <2>2, <2>3, <4>2
      <4> QED BY <4>1, <4>3
    <3> HIDE DEF n
    <3> QED BY <2>1, <2>2, <2>4, <3>2
  <2>7. n > 1 \/ n = 1
    BY <2>1
  <2> QED BY <2>5, <2>6, <2>7
<1>7. \A k \in 1..Len(z) : k \in 1..Len(x) \/ k \in (Len(x) + 1)..Len(z)
  BY <1>2, <1>3
<1> QED BY <1>2, <1>5, <1>6, <1>7 DEF InOrder, z
-----------------------------------------------------------------------------
(* What the loops find.                                                    *)

(* What a loop that begins at i may have found when it ends.               *)
Outcomes(b, o, i) ==
  {r \in [at : i..Len(b), found : Seq(Handed)] : InOrder(r.found, o + i, o + r.at)}

(* A message that was found at i, and what was found behind it.            *)
Ahead(m, x) == [at |-> x.at, found |-> <<m>> \o x.found]

LEMMA ExceptIsAhead ==
  ASSUME NEW b, NEW o, NEW i, NEW x \in Outcomes(b, o, i), NEW m
  PROVE  [x EXCEPT !.found = <<m>> \o @] = Ahead(m, x)
<1>1. x \in [at : i..Len(b), found : Seq(Handed)]
  BY DEF Outcomes
<1> DEFINE z == <<m>> \o x.found
<1> HIDE DEF z
<1>2. [x EXCEPT !.found = z] = [at |-> x.at, found |-> z]
  BY <1>1
<1> QED BY <1>2 DEF z, Ahead

LEMMA FoundBefore ==
  ASSUME NEW b \in Seq(TaggedByte), NEW o \in Int, Row(b, o),
         NEW i \in Nat, NEW j \in Nat, i < j, j <= Len(b), NEW x \in Outcomes(b, o, j)
  PROVE  LET y == Ahead(Recovered(SubSeq(b, i + 1, j)), x)
         IN  y \in Outcomes(b, o, i) /\ y.at = x.at /\ y.found # <<>>
<1> DEFINE m == Recovered(SubSeq(b, i + 1, j))
           z == <<m>> \o x.found
<1>1. /\ x \in [at : j..Len(b), found : Seq(Handed)] /\ x.at \in j..Len(b)
      /\ x.found \in Seq(Handed) /\ InOrder(x.found, o + j, o + x.at)
  BY DEF Outcomes
<1>2. InOrder(<<m>>, o + i, o + j)
  BY OneInOrder DEF Recovered
<1> HIDE DEF m
<1>3. <<m>> \in Seq(Handed) /\ Len(<<m>>) = 1
  BY <1>2 DEF InOrder
<1>4. InOrder(z, o + i, o + x.at)
  <2>1. /\ o + i \in Int /\ o + j \in Int /\ o + x.at \in Int
        /\ o + i <= o + j /\ o + j <= o + x.at
    BY <1>1
  <2> QED BY <1>1, <1>2, <2>1, MoreInOrder
<1>5. z \in Seq(Handed) /\ Len(z) = 1 + Len(x.found) /\ z # <<>>
  <2>1. z \in Seq(Handed) /\ Len(z) = 1 + Len(x.found)
    BY <1>1, <1>3
  <2> QED BY <1>1, <2>1
<1> DEFINE y == [at |-> x.at, found |-> z]
<1>7. x.at \in i..Len(b)
  BY <1>1
<1>8. y \in Outcomes(b, o, i) /\ y.at = x.at /\ y.found # <<>>
  <2> HIDE DEF z
  <2> QED BY <1>4, <1>5, <1>7 DEF Outcomes
<1> QED BY <1>8 DEF m, Ahead

(* What the recovery loop finds from i on: nothing, and it stays there, or *)
(* messages, and it moves on.                                              *)
RunOutcomes(b, o, i) ==
  {r \in Outcomes(b, o, i) : IF r.found = <<>> THEN r.at = i ELSE r.at > i}

LEMMA RunInOrder ==
  ASSUME NEW b \in Seq(TaggedByte), NEW o \in Int, Row(b, o),
         NEW least \in Nat, least >= 2, NEW room \in Nat, room >= 4,
         NEW from \in 0..(Len(b) - 4)
  PROVE  Run(b, from, least, room) \in RunOutcomes(b, o, from)
<1> DEFINE M        == Len(b) - 4
           Good(i)  == /\ FrameLen(b, i) >= least
                       /\ FrameLen(b, i) <= Left(b, i)
                       /\ GoodChecksum(Frame(b, i))
           j(i)     == Behind(i, FrameLen(b, i))
           end(i)   == [at |-> j(i), found |-> <<>>]
           With(i, x) == [x EXCEPT !.found = <<Recovered(Frame(b, i))>> \o @]
           Body(run) == [i \in 0 .. M |->
             IF Good(i) THEN With(i, IF Left(b, j(i)) >= room THEN run[j(i)] ELSE end(i))
             ELSE [at |-> i, found |-> <<>>]]
           run == CHOOSE run : run = Body(run)
<1>1. Run(b, from, least, room) = run[from]
  BY DEF Run
<1>2. M \in Nat /\ Len(b) \in Nat /\ M = Len(b) - 4
  OBVIOUS
<1> HIDE DEF M
<1>3. ASSUME NEW i \in 0..M, Good(i)
      PROVE  /\ j(i) \in Nat /\ i < j(i) /\ j(i) <= Len(b)
             /\ Frame(b, i) = SubSeq(b, i + 1, j(i))
             /\ Left(b, j(i)) >= room => j(i) \in (i + 1)..M
  <2>1. b[i + 2].byte \in Nat
    <3>1. i + 2 \in 1..Len(b)
      BY <1>2
    <3>2. b[i + 2] \in TaggedByte
      BY <3>1
    <3> QED BY <3>2, BytesAreNumbers DEF TaggedByte
  <2>2. FrameLen(b, i) \in Nat /\ FrameLen(b, i) >= 2 /\ FrameLen(b, i) <= Len(b) - i
    BY <1>2, <1>3, <2>1 DEF FrameLen, Left
  <2>3. j(i) = i + FrameLen(b, i)
    BY DEF Behind
  <2>4. j(i) \in Nat /\ i < j(i) /\ j(i) <= Len(b)
    BY <1>2, <2>2, <2>3
  <2>5. Left(b, j(i)) >= room => j(i) \in (i + 1)..M
    BY <1>2, <2>4 DEF Left
  <2> QED BY <2>3, <2>4, <2>5 DEF Frame
<1> HIDE DEF Good, j
<1> DEFINE Stop == {i \in 0..M : ~(Good(i) /\ Left(b, j(i)) >= room)}
           R    == [i \in 0..M |-> RunOutcomes(b, o, i)]
           base == [i \in 0..M |-> IF Good(i) THEN With(i, end(i))
                                   ELSE [at |-> i, found |-> <<>>]]
           nx   == [i \in 0..M |-> j(i)]
           h    == [i \in 0..M |-> [x \in R[nx[i]] |-> With(i, x)]]
<1>4. ASSUME NEW i \in 0..M, Good(i), NEW x \in Outcomes(b, o, j(i))
      PROVE  With(i, x) \in RunOutcomes(b, o, i)
  <2>1. i \in Nat /\ j(i) \in Nat /\ i < j(i) /\ j(i) <= Len(b)
    BY <1>2, <1>3, <1>4
  <2>2. With(i, x) = Ahead(Recovered(SubSeq(b, i + 1, j(i))), x)
    BY <1>3, <1>4, ExceptIsAhead
  <2>3. With(i, x) \in Outcomes(b, o, i) /\ With(i, x).at = x.at /\ With(i, x).found # <<>>
    <3> HIDE DEF With
    <3> QED BY <1>4, <2>1, <2>2, FoundBefore
  <2>4. x.at \in j(i)..Len(b)
    BY <1>4 DEF Outcomes
  <2>5. x.at > i
    BY <2>1, <2>4
  <2> HIDE DEF With
  <2> QED BY <2>3, <2>5 DEF RunOutcomes
<1>5. ASSUME NEW i \in 0..M PROVE [at |-> i, found |-> <<>>] \in RunOutcomes(b, o, i)
  <2>1. i \in i..Len(b) /\ InOrder(<<>>, o + i, o + i)
    BY <1>2, NothingInOrder
  <2> QED BY <2>1 DEF Outcomes, RunOutcomes
<1>6. ASSUME NEW i \in 0..M, Good(i) PROVE end(i) \in Outcomes(b, o, j(i))
  <2>1. j(i) \in j(i)..Len(b) /\ InOrder(<<>>, o + j(i), o + j(i))
    BY <1>2, <1>3, <1>6, NothingInOrder
  <2> QED BY <2>1 DEF Outcomes
<1>7. ASSUME NEW i \in 0..M, i \in Stop PROVE base[i] \in R[i]
  <2> HIDE DEF With, end
  <2> QED BY <1>4, <1>5, <1>6
<1>8. ASSUME NEW i \in 0..M, i \notin Stop
      PROVE  nx[i] \in (i + 1)..M /\ \A x \in R[nx[i]] : h[i][x] \in R[i]
  <2>1. Good(i) /\ j(i) \in (i + 1)..M /\ nx[i] = j(i) /\ j(i) \in 0..M
    BY <1>2, <1>3, <1>8
  <2>2. R[nx[i]] \subseteq Outcomes(b, o, j(i))
    BY <2>1 DEF RunOutcomes
  <2>3. \A x \in R[nx[i]] : h[i][x] = With(i, x)
    OBVIOUS
  <2>4. R[i] = RunOutcomes(b, o, i)
    OBVIOUS
  <2> HIDE DEF With, R, nx, h
  <2> QED BY <1>4, <2>1, <2>2, <2>3, <2>4
<1>9. PICK f : /\ f = [i \in 0..M |-> IF i \in Stop THEN base[i] ELSE h[i][f[nx[i]]]]
               /\ \A i \in 0..M : f[i] \in R[i]
  <2> HIDE DEF Stop, R, base, nx, h
  <2>1. M \in Nat
    BY <1>2
  <2>2. \A i \in 0..M : i \in Stop => base[i] \in R[i]
    BY <1>7
  <2>3. \A i \in 0..M : i \notin Stop =>
          nx[i] \in (i + 1)..M /\ \A x \in R[nx[i]] : h[i][x] \in R[i]
    BY <1>8
  <2>4. Recursion(M, R, Stop, base, nx, h)
    BY <2>2, <2>3 DEF Recursion
  <2>5. \E f : Solution(f, M, R, Stop, base, nx, h)
    BY <2>1, <2>4, BackwardRecursion
  <2> QED BY <2>5 DEF Solution
<1>10. ASSUME NEW g, g = Body(g)
       PROVE  \A i \in 0..M : g[i] = (IF i \in Stop THEN base[i] ELSE With(i, g[j(i)]))
  <2> HIDE DEF With, end
  <2> QED BY <1>10
<1>11. \A i \in 0..M : f[i] = (IF i \in Stop THEN base[i] ELSE With(i, f[j(i)]))
  <2>1. ASSUME NEW i \in 0..M, i \notin Stop PROVE h[i][f[nx[i]]] = With(i, f[j(i)])
    <3>1. nx[i] = j(i)
      OBVIOUS
    <3>2. nx[i] \in (i + 1)..M
      <4> HIDE DEF Stop, R, base, nx, h
      <4> QED BY <1>8, <2>1
    <3>3. nx[i] \in 0..M
      <4> HIDE DEF Stop, R, base, nx, h
      <4> QED BY <1>2, <3>2
    <3>4. f[nx[i]] \in R[nx[i]]
      <4> HIDE DEF Stop, R, base, nx, h
      <4> QED BY <1>9, <3>3
    <3>5. h[i] = [x \in R[nx[i]] |-> With(i, x)]
      OBVIOUS
    <3> HIDE DEF With, R, nx, h
    <3> QED BY <3>1, <3>4, <3>5
  <2>2. \A i \in 0..M : f[i] = IF i \in Stop THEN base[i] ELSE h[i][f[nx[i]]]
    <3> HIDE DEF With, R, nx, h, base, Stop
    <3> QED BY <1>9
  <2> HIDE DEF With, R, nx, h, base, Stop
  <2> QED BY <2>1, <2>2
<1>12. f = Body(f)
  <2>1. f = [i \in 0..M |-> f[i]]
    <3> HIDE DEF With, R, nx, h, base, Stop
    <3> QED BY <1>9
  <2>2. \A i \in 0..M :
          f[i] = IF Good(i)
                 THEN With(i, IF Left(b, j(i)) >= room THEN f[j(i)] ELSE end(i))
                 ELSE [at |-> i, found |-> <<>>]
    <3> HIDE DEF With, end
    <3> QED BY <1>11
  <2> HIDE DEF With, end
  <2> QED BY <2>1, <2>2
<1>13. run = Body(run)
  <2> HIDE DEF Body
  <2> QED BY <1>12
<1> HIDE DEF run
<1> DEFINE S == {i \in 0..M : run[i] \in RunOutcomes(b, o, i)}
<1>14. ASSUME NEW i \in 0..M, \A k \in (i + 1)..M : k \in S PROVE i \in S
  <2>1. CASE i \in Stop
    <3>1. run[i] = base[i] /\ base[i] \in R[i] /\ R[i] = RunOutcomes(b, o, i)
      <4>1. run[i] = base[i]
        <5> HIDE DEF Body, base, Stop
        <5> QED BY <1>10, <1>13, <2>1
      <4>2. base[i] \in R[i]
        <5> HIDE DEF base, Stop, R
        <5> QED BY <1>7, <2>1
      <4> QED BY <4>1, <4>2
    <3> QED BY <3>1
  <2>2. CASE i \notin Stop
    <3>1. Good(i) /\ j(i) \in (i + 1)..M
      BY <1>3, <2>2
    <3>2. run[j(i)] \in Outcomes(b, o, j(i))
      BY <1>14, <3>1 DEF RunOutcomes
    <3>3. run[i] = With(i, run[j(i)])
      <4> HIDE DEF Body, base, Stop, With
      <4> QED BY <1>10, <1>13, <2>2
    <3>4. With(i, run[j(i)]) \in RunOutcomes(b, o, i)
      <4> HIDE DEF With
      <4> QED BY <1>4, <3>1, <3>2
    <3> QED BY <3>3, <3>4
  <2> QED BY <2>1, <2>2
<1>15. \A i \in 0..M : i \in S
  <2> HIDE DEF S
  <2> QED BY <1>2, <1>14, BackwardInduction
<1> QED BY <1>1, <1>2, <1>15

LEMMA WiderInOrder ==
  ASSUME NEW x, NEW lower \in Int, NEW lo \in Int, NEW hi \in Int, lower <= lo, lo <= hi,
         InOrder(x, lo, hi)
  PROVE  InOrder(x, lower, hi)
<1>1. InOrder(<<>>, lower, lo)
  BY NothingInOrder
<1>2. InOrder(<<>> \o x, lower, hi)
  BY <1>1, MoreInOrder
<1>3. <<>> \o x = x
  BY DEF InOrder
<1> QED BY <1>2, <1>3

(* The loop of the recoveries, tried one byte behind i.                    *)
LEMMA NextRun ==
  ASSUME NEW b \in Seq(TaggedByte), NEW o \in Int, Row(b, o),
         NEW least \in Nat, least >= 2, NEW room \in Nat, room >= 4,
         NEW i \in Nat, Left(b, i) >= 5
  PROVE  LET r == Run(b, i + 1, least, room)
         IN  /\ r.at \in (i + 1)..Len(b)
             /\ r.found = <<>> => r.at = i + 1
             /\ r.found \in Seq(Handed)
             /\ InOrder(r.found, o + i, o + r.at)
<1> DEFINE r == Run(b, i + 1, least, room)
<1>1. i + 1 \in 0..(Len(b) - 4)
  BY DEF Left
<1>2. r \in RunOutcomes(b, o, i + 1)
  BY <1>1, RunInOrder
<1> HIDE DEF r
<1>3. /\ r.at \in (i + 1)..Len(b) /\ r.found \in Seq(Handed)
      /\ InOrder(r.found, o + (i + 1), o + r.at)
      /\ r.found = <<>> => r.at = i + 1
  BY <1>2 DEF RunOutcomes, Outcomes
<1>4. InOrder(r.found, o + i, o + r.at)
  <2>1. /\ o + i \in Int /\ o + (i + 1) \in Int /\ o + r.at \in Int
        /\ o + i <= o + (i + 1) /\ o + (i + 1) <= o + r.at
    BY <1>3
  <2> QED BY <1>3, <2>1, WiderInOrder
<1> QED BY <1>3, <1>4 DEF r

(* ibus_discard_receive_buffer hands on stretches of the buffer.           *)
LEMMA DiscardedInOrder ==
  ASSUME NEW b \in Seq(TaggedByte), NEW o \in Int, Row(b, o)
  PROVE  InOrder(Discarded(b), o, o + Len(b))
<1> DEFINE N      == Len(b)
           r(i)   == Run(b, i + 1, 4, 5)
           Body(scan) == [i \in 0..N |->
             IF Left(b, i) >= 5 THEN r(i).found \o scan[r(i).at] ELSE <<>>]
           scan   == CHOOSE scan : scan = Body(scan)
           Good(i) == {x \in Seq(Handed) : InOrder(x, o + i, o + N)}
           Stop   == {i \in 0..N : ~(Left(b, i) >= 5)}
           R      == [i \in 0..N |-> Good(i)]
           base   == [i \in 0..N |-> <<>>]
           nx     == [i \in 0..N |-> r(i).at]
           h      == [i \in 0..N |-> [x \in R[nx[i]] |-> r(i).found \o x]]
<1>1. Discarded(b) = scan[0]
  BY DEF Discarded
<1>2. N \in Nat /\ N = Len(b)
  OBVIOUS
<1>3. ASSUME NEW i \in 0..N, i \notin Stop
      PROVE  /\ r(i).at \in (i + 1)..N /\ r(i).at \in 0..N
             /\ r(i).found \in Seq(Handed)
             /\ InOrder(r(i).found, o + i, o + r(i).at)
  <2>1. Left(b, i) >= 5 /\ i \in Nat
    BY <1>3
  <2>2. 4 \in Nat /\ 4 >= 2 /\ 5 \in Nat /\ 5 >= 4
    OBVIOUS
  <2>3. /\ r(i).at \in (i + 1)..N /\ r(i).found \in Seq(Handed)
        /\ InOrder(r(i).found, o + i, o + r(i).at)
    BY <2>1, <2>2, NextRun
  <2> HIDE DEF r
  <2> QED BY <1>2, <2>1, <2>3
<1> HIDE DEF r, N
<1>4. ASSUME NEW i \in 0..N, i \notin Stop, NEW x \in Good(r(i).at)
      PROVE  r(i).found \o x \in Good(i)
  <2> DEFINE z == r(i).found \o x
  <2>1. x \in Seq(Handed) /\ InOrder(x, o + r(i).at, o + N)
    BY <1>4
  <2>2. /\ r(i).at \in (i + 1)..N /\ r(i).found \in Seq(Handed)
        /\ InOrder(r(i).found, o + i, o + r(i).at)
    <3> HIDE DEF Stop
    <3> QED BY <1>3, <1>4
  <2>3. /\ o + i \in Int /\ o + r(i).at \in Int /\ o + N \in Int
        /\ o + i <= o + r(i).at /\ o + r(i).at <= o + N
    BY <1>2, <2>2
  <2>4. InOrder(z, o + i, o + N)
    BY <2>1, <2>2, <2>3, MoreInOrder
  <2> HIDE DEF z
  <2>5. z \in Seq(Handed)
    BY <2>4 DEF InOrder
  <2> QED BY <2>4, <2>5 DEF z
<1>5. ASSUME NEW i \in 0..N PROVE <<>> \in Good(i)
  BY NothingInOrder
<1> HIDE DEF Good
<1>6. Recursion(N, R, Stop, base, nx, h)
  <2>1. ASSUME NEW i \in 0..N PROVE base[i] \in R[i]
    BY <1>5
  <2>2. ASSUME NEW i \in 0..N, i \notin Stop
        PROVE  nx[i] \in (i + 1)..N /\ \A x \in R[nx[i]] : h[i][x] \in R[i]
    <3>1. nx[i] = r(i).at /\ R[i] = Good(i)
      OBVIOUS
    <3>2. r(i).at \in (i + 1)..N /\ r(i).at \in 0..N
      <4> HIDE DEF Stop
      <4> QED BY <1>3, <2>2
    <3>3. R[nx[i]] = Good(r(i).at)
      BY <3>1, <3>2
    <3>4. \A x \in R[nx[i]] : h[i][x] = r(i).found \o x
      OBVIOUS
    <3> HIDE DEF R, Stop, nx, h
    <3> QED BY <1>4, <2>2, <3>1, <3>2, <3>3, <3>4
  <2> HIDE DEF R, Stop, base, nx, h
  <2> QED BY <2>1, <2>2 DEF Recursion
<1>7. PICK f : Solution(f, N, R, Stop, base, nx, h)
  <2> HIDE DEF R, Stop, base, nx, h
  <2> QED BY <1>2, <1>6, BackwardRecursion
<1>8. f = Body(f)
  <2>1. f = [i \in 0..N |-> IF i \in Stop THEN base[i] ELSE h[i][f[nx[i]]]]
    <3> HIDE DEF R, Stop, base, nx, h
    <3> QED BY <1>7 DEF Solution
  <2>2. ASSUME NEW i \in 0..N, i \notin Stop PROVE h[i][f[nx[i]]] = r(i).found \o f[r(i).at]
    <3>1. nx[i] = r(i).at
      OBVIOUS
    <3>2. r(i).at \in 0..N
      <4> HIDE DEF Stop
      <4> QED BY <1>3, <2>2
    <3>3. f[nx[i]] \in R[nx[i]]
      <4> HIDE DEF R, Stop, base, nx, h
      <4> QED BY <1>7, <3>1, <3>2 DEF Solution
    <3>4. h[i] = [x \in R[nx[i]] |-> r(i).found \o x]
      OBVIOUS
    <3> HIDE DEF R, nx, h
    <3> QED BY <3>1, <3>3, <3>4
  <2>3. \A i \in 0..N : (IF i \in Stop THEN base[i] ELSE h[i][f[nx[i]]])
                          = IF Left(b, i) >= 5 THEN r(i).found \o f[r(i).at] ELSE <<>>
    <3>1. ASSUME NEW i \in 0..N
          PROVE  (i \in Stop <=> ~(Left(b, i) >= 5)) /\ base[i] = <<>>
      OBVIOUS
    <3> HIDE DEF R, Stop, base, nx, h
    <3> QED BY <2>2, <3>1
  <2> HIDE DEF R, Stop, base, nx, h
  <2> QED BY <2>1, <2>3
<1>9. scan = Body(scan)
  <2> HIDE DEF Body
  <2> QED BY <1>8
<1> HIDE DEF scan
<1>10. \A i \in 0..N : scan[i] = IF Left(b, i) >= 5 THEN r(i).found \o scan[r(i).at] ELSE <<>>
  BY <1>9
<1> DEFINE S == {i \in 0..N : scan[i] \in Good(i)}
<1>11. ASSUME NEW i \in 0..N, \A k \in (i + 1)..N : k \in S PROVE i \in S
  <2>1. CASE Left(b, i) >= 5
    <3>1. i \notin Stop
      BY <2>1
    <3>2. r(i).at \in (i + 1)..N
      <4> HIDE DEF Stop
      <4> QED BY <1>3, <3>1
    <3>3. scan[r(i).at] \in Good(r(i).at)
      BY <1>11, <3>2
    <3>4. r(i).found \o scan[r(i).at] \in Good(i)
      <4> HIDE DEF Stop
      <4> QED BY <1>4, <3>1, <3>3
    <3> QED BY <1>10, <2>1, <3>4
  <2>2. CASE ~(Left(b, i) >= 5)
    BY <1>5, <1>10, <2>2
  <2> QED BY <2>1, <2>2
<1>12. \A i \in 0..N : i \in S
  <2> HIDE DEF S
  <2> QED BY <1>2, <1>11, BackwardInduction
<1>13. scan[0] \in Good(0)
  BY <1>2, <1>12
<1>14. InOrder(scan[0], o + 0, o + N) /\ o + 0 = o
  BY <1>13 DEF Good
<1> QED BY <1>1, <1>2, <1>14

(* What was found before j, and what a loop that went on from j has found. *)
Joined(found, x) == [x EXCEPT !.found = found \o @]

LEMMA JoinedOutcomes ==
  ASSUME NEW b, NEW o \in Int, NEW i \in Nat, NEW j \in Nat, i <= j,
         NEW x \in Outcomes(b, o, j), NEW found, InOrder(found, o + i, o + j)
  PROVE  Joined(found, x) \in Outcomes(b, o, i) /\ Joined(found, x).at = x.at
<1> DEFINE z == found \o x.found
<1>1. /\ x \in [at : j..Len(b), found : Seq(Handed)] /\ x.at \in j..Len(b)
      /\ InOrder(x.found, o + j, o + x.at)
  BY DEF Outcomes
<1>2. /\ o + i \in Int /\ o + j \in Int /\ o + x.at \in Int
      /\ o + i <= o + j /\ o + j <= o + x.at
  BY <1>1
<1>3. InOrder(z, o + i, o + x.at)
  BY <1>1, <1>2, MoreInOrder
<1> HIDE DEF z
<1>4. z \in Seq(Handed)
  BY <1>3 DEF InOrder
<1> DEFINE y == [x EXCEPT !.found = z]
<1>5. y = [at |-> x.at, found |-> z]
  BY <1>1
<1>6. x.at \in i..Len(b)
  BY <1>1
<1>7. y \in Outcomes(b, o, i) /\ y.at = x.at
  BY <1>3, <1>4, <1>5, <1>6 DEF Outcomes
<1> QED BY <1>7 DEF z, Joined

(* The label retry.                                                        *)
LEMMA RetryInOrder ==
  ASSUME NEW b \in Seq(TaggedByte), NEW o \in Int, Row(b, o), NEW i \in 0..Len(b),
         NEW x \in Outcomes(b, o, i)
  PROVE  /\ Retry(b, i, x) \in Outcomes(b, o, i)
         /\ Retry(b, i, x).at \in {i, x.at, Len(b)}
         /\ Complete(b, i) => Retry(b, i, x).at \in {x.at, Len(b)}
<1> DEFINE N == Len(b)
<1>1. i \in Nat /\ N \in Nat /\ i <= N /\ N = Len(b)
  OBVIOUS
<1> HIDE DEF N
<1>2. CASE ~Complete(b, i)
  <2>1. Retry(b, i, x) = [at |-> i, found |-> <<>>]
    BY <1>2 DEF Retry
  <2>2. i \in i..N /\ InOrder(<<>>, o + i, o + i)
    BY <1>1, NothingInOrder
  <2>3. [at |-> i, found |-> <<>>] \in Outcomes(b, o, i)
    BY <2>2 DEF Outcomes
  <2> QED BY <1>2, <2>1, <2>3
<1>3. CASE Complete(b, i) /\ GoodChecksum(Frame(b, i))
  <2> DEFINE m == Intact(Frame(b, i))
             y == [at |-> N, found |-> <<m>>]
  <2>1. Retry(b, i, x) = y
    BY <1>1, <1>3 DEF Retry
  <2>2. i < N /\ i + FrameLen(b, i) = N
    BY <1>1, <1>3 DEF Complete, Left
  <2>3. m = [frame |-> SubSeq(b, i + 1, N), recovered |-> FALSE]
    BY <2>2 DEF Intact, Frame
  <2> HIDE DEF m
  <2>4. InOrder(<<m>>, o + i, o + N)
    <3> DEFINE no == FALSE
    <3>1. no \in BOOLEAN /\ i < N /\ N <= Len(b) /\ i \in Nat /\ N \in Nat
      BY <1>1, <2>2
    <3> HIDE DEF no
    <3>2. InOrder(<<[frame |-> SubSeq(b, i + 1, N), recovered |-> no]>>, o + i, o + N)
      BY <3>1, OneInOrder
    <3> QED BY <2>3, <3>2 DEF no
  <2> DEFINE q == <<m>>
  <2> HIDE DEF q
  <2>5. q \in Seq(Handed) /\ InOrder(q, o + i, o + N)
    BY <2>4 DEF InOrder, q
  <2>6. [at |-> N, found |-> q] \in Outcomes(b, o, i)
    BY <1>1, <2>5 DEF Outcomes
  <2>7. y \in Outcomes(b, o, i) /\ y.at = Len(b)
    BY <1>1, <2>6 DEF q
  <2> HIDE DEF y
  <2> QED BY <2>1, <2>7
<1>4. CASE Complete(b, i) /\ ~GoodChecksum(Frame(b, i))
  BY <1>4 DEF Retry
<1> QED BY <1>1, <1>2, <1>3, <1>4

(* ibus_read hands on stretches of the buffer, and a message that is       *)
(* complete does not stay in it as it is.                                  *)
LEMMA FramedInOrder ==
  ASSUME NEW b \in Seq(TaggedByte), NEW o \in Int, Row(b, o)
  PROVE  /\ Framed(b) \in Outcomes(b, o, 0)
         /\ Complete(b, 0) => Framed(b).at > 0
<1> DEFINE N      == Len(b)
           r(i)   == Run(b, i + 1, 2, 4)
           End    == [at |-> N, found |-> <<>>]
           Again(i, x) == Joined(r(i).found, Retry(b, r(i).at, x))
           Body(scan) == [i \in 0..N |->
             IF Left(b, i) < 5 THEN End
             ELSE IF r(i).found = <<>> THEN scan[i + 1] ELSE Again(i, scan[r(i).at])]
           scan   == CHOOSE scan : scan = Body(scan)
           Good(i) == {x \in Outcomes(b, o, i) : x.at > i \/ x.at = N}
           Pass(i, x) == IF r(i).found = <<>> THEN x ELSE Again(i, x)
           Stop   == {i \in 0..N : Left(b, i) < 5}
           R      == [i \in 0..N |-> Good(i)]
           base   == [i \in 0..N |-> End]
           nx     == [i \in 0..N |-> r(i).at]
           h      == [i \in 0..N |-> [x \in R[nx[i]] |-> Pass(i, x)]]
<1>1. Framed(b) = Retry(b, 0, scan[0])
  BY DEF Framed, Joined
<1>2. N \in Nat /\ N = Len(b)
  OBVIOUS
<1>3. ASSUME NEW i \in 0..N, i \notin Stop
      PROVE  /\ r(i).at \in (i + 1)..N /\ r(i).at \in 0..N
             /\ r(i).found = <<>> => r(i).at = i + 1
             /\ InOrder(r(i).found, o + i, o + r(i).at)
  <2>1. Left(b, i) >= 5 /\ i \in Nat
    BY <1>2, <1>3 DEF Left
  <2>2. 2 \in Nat /\ 2 >= 2 /\ 4 \in Nat /\ 4 >= 4
    OBVIOUS
  <2>3. /\ r(i).at \in (i + 1)..N
        /\ r(i).found = <<>> => r(i).at = i + 1
        /\ InOrder(r(i).found, o + i, o + r(i).at)
    BY <2>1, <2>2, NextRun
  <2> HIDE DEF r
  <2> QED BY <1>2, <2>1, <2>3
<1> HIDE DEF r, N
<1>4. ASSUME NEW i \in 0..N, i \notin Stop, NEW x \in Good(r(i).at)
      PROVE  Pass(i, x) \in Good(i)
  <2>1. /\ r(i).at \in (i + 1)..N /\ r(i).at \in 0..N
        /\ InOrder(r(i).found, o + i, o + r(i).at)
    <3> HIDE DEF Stop
    <3> QED BY <1>3, <1>4
  <2>2. x \in Outcomes(b, o, r(i).at) /\ (x.at > r(i).at \/ x.at = N)
    BY <1>4
  <2>3. CASE r(i).found = <<>>
    <3>1. /\ r(i).at = i + 1 /\ i \in Nat
          /\ x \in [at : (i + 1)..N, found : Seq(Handed)]
          /\ InOrder(x.found, o + (i + 1), o + x.at)
      <4>1. r(i).at = i + 1
        <5> HIDE DEF Stop
        <5> QED BY <1>3, <1>4, <2>3
      <4> QED BY <1>2, <2>2, <4>1 DEF Outcomes
    <3>2. InOrder(x.found, o + i, o + x.at)
      <4>1. /\ o + i \in Int /\ o + (i + 1) \in Int /\ o + x.at \in Int
            /\ o + i <= o + (i + 1) /\ o + (i + 1) <= o + x.at
        BY <3>1
      <4> QED BY <3>1, <4>1, WiderInOrder
    <3>3. x \in [at : i..N, found : Seq(Handed)] /\ x.at > i
      BY <1>2, <3>1
    <3> QED BY <1>2, <2>3, <3>2, <3>3 DEF Outcomes
  <2>4. CASE r(i).found # <<>>
    <3> DEFINE y == Retry(b, r(i).at, x)
               z == Joined(r(i).found, y)
    <3>1. y \in Outcomes(b, o, r(i).at)
      BY <1>2, <2>1, <2>2, RetryInOrder
    <3> HIDE DEF y
    <3>2. i \in Nat /\ r(i).at \in Nat /\ i <= r(i).at
      BY <1>2, <2>1
    <3> DEFINE at == r(i).at
               found == r(i).found
    <3>6. at \in Nat /\ i <= at /\ InOrder(found, o + i, o + at) /\ y \in Outcomes(b, o, at)
      BY <2>1, <3>1, <3>2
    <3> HIDE DEF at, found
    <3>7. Joined(found, y) \in Outcomes(b, o, i) /\ Joined(found, y).at = y.at
      BY <3>2, <3>6, JoinedOutcomes
    <3>3. z \in Outcomes(b, o, i) /\ z.at = y.at
      BY <3>7 DEF found
    <3>4. y.at > i
      <4>1. y.at \in r(i).at..N
        BY <1>2, <3>1 DEF Outcomes
      <4> QED BY <2>1, <3>2, <4>1
    <3>5. Pass(i, x) = z
      BY <2>4 DEF y
    <3> HIDE DEF z
    <3> QED BY <3>3, <3>4, <3>5
  <2> QED BY <2>3, <2>4
<1>5. ASSUME NEW i \in 0..N PROVE End \in Good(i)
  <2>1. InOrder(<<>>, o + i, o + N) /\ N \in i..N
    BY <1>2, NothingInOrder
  <2> QED BY <1>2, <2>1 DEF Outcomes
<1> HIDE DEF Good, Again, End
<1>6. Recursion(N, R, Stop, base, nx, h)
  <2> HIDE DEF Pass
  <2>1. ASSUME NEW i \in 0..N PROVE base[i] \in R[i]
    BY <1>5
  <2>2. ASSUME NEW i \in 0..N, i \notin Stop
        PROVE  nx[i] \in (i + 1)..N /\ \A x \in R[nx[i]] : h[i][x] \in R[i]
    <3>1. nx[i] = r(i).at /\ R[i] = Good(i)
      OBVIOUS
    <3>2. r(i).at \in (i + 1)..N /\ r(i).at \in 0..N
      <4> HIDE DEF Stop
      <4> QED BY <1>3, <2>2
    <3>3. R[nx[i]] = Good(r(i).at)
      BY <3>1, <3>2
    <3>4. \A x \in R[nx[i]] : h[i][x] = Pass(i, x)
      OBVIOUS
    <3> HIDE DEF R, Stop, nx, h
    <3> QED BY <1>4, <2>2, <3>1, <3>2, <3>3, <3>4
  <2> HIDE DEF R, Stop, base, nx, h
  <2> QED BY <2>1, <2>2 DEF Recursion
<1>7. PICK f : Solution(f, N, R, Stop, base, nx, h)
  <2> HIDE DEF R, Stop, base, nx, h
  <2> QED BY <1>2, <1>6, BackwardRecursion
<1>8. f = Body(f)
  <2>1. f = [i \in 0..N |-> IF i \in Stop THEN base[i] ELSE h[i][f[nx[i]]]]
    <3> HIDE DEF R, Stop, base, nx, h
    <3> QED BY <1>7 DEF Solution
  <2>2. ASSUME NEW i \in 0..N, i \notin Stop
        PROVE  h[i][f[nx[i]]] = IF r(i).found = <<>> THEN f[i + 1] ELSE Again(i, f[r(i).at])
    <3>1. nx[i] = r(i).at
      OBVIOUS
    <3>2. r(i).at \in 0..N /\ (r(i).found = <<>> => r(i).at = i + 1)
      <4> HIDE DEF Stop
      <4> QED BY <1>3, <2>2
    <3>3. f[nx[i]] \in R[nx[i]]
      <4> HIDE DEF R, Stop, base, nx, h
      <4> QED BY <1>7, <3>1, <3>2 DEF Solution
    <3>4. h[i] = [x \in R[nx[i]] |-> Pass(i, x)]
      OBVIOUS
    <3>5. h[i][f[nx[i]]] = Pass(i, f[r(i).at])
      <4> HIDE DEF R, nx, h, Pass
      <4> QED BY <3>1, <3>3, <3>4
    <3> HIDE DEF R, nx, h
    <3> QED BY <3>2, <3>5
  <2>3. \A i \in 0..N :
          (IF i \in Stop THEN base[i] ELSE h[i][f[nx[i]]])
            = IF Left(b, i) < 5 THEN End
              ELSE IF r(i).found = <<>> THEN f[i + 1] ELSE Again(i, f[r(i).at])
    <3>1. ASSUME NEW i \in 0..N
          PROVE  (i \in Stop <=> Left(b, i) < 5) /\ base[i] = End
      OBVIOUS
    <3> HIDE DEF R, Stop, base, nx, h
    <3> QED BY <2>2, <3>1
  <2> HIDE DEF R, Stop, base, nx, h
  <2> QED BY <2>1, <2>3
<1>9. scan = Body(scan)
  <2> HIDE DEF Body
  <2> QED BY <1>8
<1> HIDE DEF scan
<1>10. \A i \in 0..N :
         scan[i] = IF Left(b, i) < 5 THEN End
                   ELSE IF r(i).found = <<>> THEN scan[i + 1] ELSE Again(i, scan[r(i).at])
  BY <1>9
<1> DEFINE S == {i \in 0..N : scan[i] \in Good(i)}
<1>11. ASSUME NEW i \in 0..N, \A k \in (i + 1)..N : k \in S PROVE i \in S
  <2>1. CASE i \notin Stop
    <3>1. ~(Left(b, i) < 5)
      BY <2>1
    <3>2. r(i).at \in (i + 1)..N /\ (r(i).found = <<>> => r(i).at = i + 1)
      <4> HIDE DEF Stop
      <4> QED BY <1>3, <2>1
    <3>3. scan[r(i).at] \in Good(r(i).at)
      BY <1>11, <3>2
    <3>4. Pass(i, scan[r(i).at]) \in Good(i)
      <4> HIDE DEF Stop, Pass
      <4> QED BY <1>4, <2>1, <3>3
    <3>5. scan[i] = Pass(i, scan[r(i).at])
      BY <1>10, <3>1, <3>2
    <3> HIDE DEF Pass
    <3> QED BY <3>4, <3>5
  <2>2. CASE i \in Stop
    BY <1>5, <1>10, <2>2
  <2> QED BY <2>1, <2>2
<1>12. \A i \in 0..N : i \in S
  <2> HIDE DEF S
  <2> QED BY <1>2, <1>11, BackwardInduction
<1>13. scan[0] \in Outcomes(b, o, 0) /\ (scan[0].at > 0 \/ scan[0].at = N)
  <2>1. scan[0] \in Good(0)
    BY <1>2, <1>12
  <2> QED BY <2>1 DEF Good
<1>14. /\ Framed(b) \in Outcomes(b, o, 0)
       /\ Complete(b, 0) => Framed(b).at \in {scan[0].at, N}
  BY <1>1, <1>2, <1>13, RetryInOrder
<1>15. Complete(b, 0) => N > 0
  BY <1>2 DEF Complete, Left
<1> QED BY <1>13, <1>14, <1>15
-----------------------------------------------------------------------------
(* What the senders send.                                                  *)

LEMMA MessageFacts ==
  ASSUME TypeInv, NEW m \in Messages
  PROVE  /\ m \in Seq(Byte) /\ Len(m) >= 4 /\ Len(m) < Size
         /\ m[2] + 2 = Len(m) /\ Sum(m) = 0
BY ReceiverAssumption DEF TypeInv, Messages

LEMMA DamagedIsTyped ==
  ASSUME NEW m \in Seq(Byte), Len(m) >= 4, NEW x \in Damaged(m)
  PROVE  x \in Seq(Byte) /\ Len(x) >= 1
<1>1. CASE x \in {[m EXCEPT ![i] = c] : i \in DOMAIN m, c \in Byte}
  <2>1. PICK i \in DOMAIN m, c \in Byte : x = [m EXCEPT ![i] = c]
    BY <1>1
  <2>2. x \in Seq(Byte) /\ Len(x) = Len(m)
    BY <2>1
  <2> QED BY <2>2
<1>2. CASE x \in {RemoveAt(m, i) : i \in DOMAIN m}
  <2>1. PICK i \in 1..Len(m) : x = RemoveAt(m, i)
    BY <1>2
  <2> DEFINE p == SubSeq(m, 1, i - 1)
             q == SubSeq(m, i + 1, Len(m))
  <2>2. p \in Seq(Byte) /\ Len(p) = i - 1
    OBVIOUS
  <2>3. q \in Seq(Byte) /\ Len(q) = Len(m) - i
    OBVIOUS
  <2>4. x = p \o q
    BY <2>1 DEF RemoveAt
  <2> HIDE DEF p, q
  <2>5. p \o q \in Seq(Byte) /\ Len(p \o q) = Len(p) + Len(q)
    BY <2>2, <2>3, ConcatProperties
  <2> QED BY <2>2, <2>3, <2>4, <2>5
<1>3. CASE x \in {SubSeq(m, 1, n) : n \in 1 .. Len(m) - 1}
  <2>1. PICK n \in 1 .. Len(m) - 1 : x = SubSeq(m, 1, n)
    BY <1>3
  <2>2. x \in Seq(Byte) /\ Len(x) = n
    BY <2>1
  <2> QED BY <2>2
<1> QED BY <1>1, <1>2, <1>3 DEF Damaged
-----------------------------------------------------------------------------
(* Reading a byte.                                                         *)

NewByte == [byte |-> line[1].bytes[pos + 1], position |-> position + 1]
Gap     == IF age >= Late THEN AfterGap(buf) ELSE [left |-> buf, found |-> <<>>]
Stored  == Store(Gap.left, NewByte)
IsLast  == pos + 1 = Len(line[1].bytes)

LEMMA ReadIs ==
  ASSUME Read
  PROVE  /\ line # <<>>
         /\ buf' = Rest(Stored, Framed(Stored).at)
         /\ HandOn(Gap.found \o Framed(Stored).found)
         /\ pos' = IF IsLast THEN 0 ELSE pos + 1
         /\ line' = IF IsLast THEN Tail(line) ELSE line
         /\ synced' = IF pos = 0 THEN buf = <<>> \/ age >= Late ELSE synced
         /\ age' = Recent /\ bytes_read' = TRUE /\ position' = position + 1
         /\ ticks' = 0 /\ UNCHANGED <<setting, sent, damaged>>
BY DEF Read, Stored, Gap, NewByte, IsLast

(* Bytes are handed on once and in order.                                  *)
EachOnce(found, before) ==
  \A i \in DOMAIN found :
    LET frame == found[i].frame
        floor == IF i = 1 THEN before ELSE Last(found[i - 1].frame).position
    IN  /\ frame[1].position > floor
        /\ \A j \in DOMAIN frame : frame[j].position = frame[1].position + j - 1

LEMMA HandOnOK ==
  ASSUME NEW found, NEW lo \in Int, NEW hi \in Int, InOrder(found, lo, hi), HandOn(found),
         TypeInv, upto <= lo, lo <= hi
  PROVE  /\ handed' = found /\ handed' \in Seq(Handed)
         /\ upto' \in Nat /\ upto' <= hi
         /\ EachOnce(handed', upto)
<1>1. found \in Seq(Handed) /\ handed' = found /\ upto \in Nat
  BY DEF InOrder, HandOn, TypeInv
<1>2. upto' \in Nat /\ upto' <= hi
  <2>1. CASE found = <<>>
    <3>1. upto' = upto
      BY <2>1 DEF HandOn
    <3> QED BY <1>1, <3>1
  <2>2. CASE found # <<>>
    <3> DEFINE n == Len(found)
               f == found[n].frame
    <3>1. n \in 1..Len(found)
      BY <1>1, <2>2
    <3>2. Len(f) >= 1 /\ EndOf(f) <= hi
      BY <3>1 DEF InOrder
    <3>3. upto' = EndOf(f)
      BY <2>2 DEF HandOn, Last, EndOf
    <3>4. f \in Seq(TaggedByte)
      <4>1. found[n] \in Handed
        BY <1>1, <3>1
      <4> QED BY <4>1 DEF Handed
    <3> HIDE DEF f
    <3>5. f[Len(f)] \in TaggedByte
      BY <3>2, <3>4
    <3>6. EndOf(f) \in Nat
      BY <3>5 DEF EndOf, TaggedByte
    <3> QED BY <3>2, <3>3, <3>6
  <2> QED BY <2>1, <2>2
<1>3. EachOnce(found, upto)
  <2>1. ASSUME NEW i \in 1..Len(found)
        PROVE  /\ found[i].frame[1].position >
                    IF i = 1 THEN upto ELSE Last(found[i - 1].frame).position
               /\ \A j \in DOMAIN found[i].frame :
                    found[i].frame[j].position = found[i].frame[1].position + j - 1
    <3> DEFINE f == found[i].frame
    <3>1. f \in Seq(TaggedByte)
      <4>1. found[i] \in Handed
        BY <1>1
      <4> QED BY <4>1 DEF Handed
    <3>2. /\ Len(f) >= 1 /\ f[1].position > lo
          /\ \A j \in 1..Len(f) : f[j].position = f[1].position + j - 1
          /\ i > 1 => f[1].position > EndOf(found[i - 1].frame)
      BY DEF InOrder
    <3> HIDE DEF f
    <3>3. f[1].position \in Nat
      <4>1. f[1] \in TaggedByte
        BY <3>1, <3>2
      <4> QED BY <4>1 DEF TaggedByte
    <3>4. f[1].position > upto
      BY <1>1, <3>2, <3>3
    <3>5. DOMAIN f = 1..Len(f)
      BY <3>1
    <3>6. i = 1 \/ i > 1
      OBVIOUS
    <3> QED BY <3>2, <3>4, <3>5, <3>6 DEF f, EndOf, Last
  <2>2. DOMAIN found = 1..Len(found)
    BY <1>1
  <2> QED BY <2>1, <2>2 DEF EachOnce
<1> QED BY <1>1, <1>2, <1>3

(* Where the bytes of the buffer are in what was read.                     *)
LEMMA BufferRow ==
  ASSUME TypeInv, BufferInv
  PROVE  \E o \in Nat : /\ Row(buf, o) /\ upto <= o /\ o + Len(buf) <= position
                        /\ Len(buf) < Size - 1 => o + Len(buf) = position
<1>1. CASE buf = <<>>
  <2>1. Row(buf, position) /\ upto <= position /\ position + Len(buf) = position
    BY <1>1 DEF TypeInv, BufferInv, Row
  <2> QED BY <2>1 DEF TypeInv
<1>2. CASE buf # <<>>
  <2> DEFINE o == buf[1].position - 1
  <2>1. buf \in Seq(TaggedByte) /\ 1 \in 1..Len(buf) /\ Len(buf) \in 1..Len(buf)
    BY <1>2 DEF BufferInv
  <2>2. buf[1].position \in Nat /\ upto \in Nat /\ position \in Nat
    <3>1. buf[1] \in TaggedByte
      BY <2>1
    <3> QED BY <3>1 DEF TaggedByte, TypeInv
  <2>3. upto < buf[1].position
    BY <1>2 DEF BufferInv
  <2>4. o \in Nat /\ upto <= o
    BY <2>2, <2>3
  <2>5. Row(buf, o)
    BY <1>2 DEF BufferInv
  <2> HIDE DEF o
  <2>6. EndOf(buf) = o + Len(buf)
    BY <2>1, <2>5 DEF Row, EndOf
  <2>7. EndOf(buf) <= position /\ (Len(buf) < Size - 1 => EndOf(buf) = position)
    BY <1>2 DEF BufferInv
  <2> QED BY <2>4, <2>5, <2>6, <2>7
<1> QED BY <1>1, <1>2

(* What stays in the buffer.                                               *)
LEMMA RestOfBuffer ==
  ASSUME NEW s \in Seq(TaggedByte), NEW o \in Nat, Row(s, o), Len(s) < Size,
         NEW at \in 0..Len(s), at = 0 => ~Complete(s, 0),
         buf' = Rest(s, at), position' = o + Len(s), upto' \in Nat, upto' <= o + at
  PROVE  BufferInv'
<1>1. Size \in Nat /\ Len(s) \in Nat /\ at \in Nat /\ at <= Len(s)
  BY ReceiverAssumption
<1>2. /\ buf' \in Seq(TaggedByte) /\ Len(buf') = Len(s) - at /\ Row(buf', o + at)
      /\ \A k \in 1..(Len(s) - at) : buf'[k] = s[at + k]
  BY <1>1, PartOfRow DEF Rest
<1>3. upto' <= position'
  BY <1>1
<1>4. ASSUME buf' # <<>>
      PROVE  /\ Row(buf', buf'[1].position - 1)
             /\ upto' < buf'[1].position
             /\ EndOf(buf') = position'
  <2>1. 1 \in 1..Len(buf') /\ Len(buf') \in 1..Len(buf')
    BY <1>2, <1>4
  <2>2. buf'[1].position = (o + at) + 1 /\ EndOf(buf') = (o + at) + Len(buf')
    BY <1>2, <2>1 DEF Row, EndOf
  <2>3. buf'[1].position - 1 = o + at /\ EndOf(buf') = o + Len(s)
    BY <1>1, <1>2, <2>2
  <2> QED BY <1>1, <1>2, <2>2, <2>3
<1>5. ASSUME Len(buf') = Size - 1 PROVE ~Complete(buf', 0)
  <2>1. at = 0
    BY <1>1, <1>2, <1>5
  <2>2. buf' = s
    <3>1. Len(buf') = Len(s) /\ \A k \in 1..Len(s) : buf'[k] = s[k]
      BY <1>1, <1>2, <2>1
    <3> QED BY <1>2, <3>1
  <2> QED BY <2>1, <2>2
<1>6. Len(buf') < Size
  BY <1>1, <1>2
<1>7. EndOf(buf') = position' => EndOf(buf') <= position'
  <2>1. position' \in Nat
    BY <1>1
  <2> QED BY <2>1
<1>8. Complete(buf, 0)' <=> Complete(buf', 0)
  BY DEF Complete, Left, FrameLen
<1> QED BY <1>2, <1>3, <1>4, <1>5, <1>6, <1>7, <1>8 DEF BufferInv, EndOf, Row

(* What was read waits as long as it is incomplete.                        *)
LEMMA IncompleteWaits ==
  ASSUME NEW s, ~Complete(s, 0)
  PROVE  Framed(s) = [at |-> 0, found |-> <<>>]
BY DEF Framed, Retry

LEMMA WholeRest ==
  ASSUME NEW s \in Seq(TaggedByte)
  PROVE  Rest(s, 0) = s /\ Rest(s, Len(s)) = <<>>
<1>1. SubSeq(s, 0 + 1, Len(s)) = s
  OBVIOUS
<1>2. SubSeq(s, Len(s) + 1, Len(s)) = <<>>
  OBVIOUS
<1> QED BY <1>1, <1>2 DEF Rest

LEMMA TooShort ==
  ASSUME NEW x \in TaggedByte
  PROVE  /\ <<x>> \in Seq(TaggedByte) /\ Len(<<x>>) = 1 /\ <<x>>[1] = x
         /\ ~Complete(<<x>>, 0)
         /\ Rest(<<x>>, 0) = <<x>>
<1>1. <<x>> \in Seq(TaggedByte) /\ Len(<<x>>) = 1 /\ <<x>>[1] = x
  OBVIOUS
<1>2. ~Complete(<<x>>, 0)
  BY <1>1 DEF Complete, Left
<1>3. Rest(<<x>>, 0) = <<x>>
  BY <1>1, WholeRest
<1> QED BY <1>1, <1>2, <1>3

LEMMA NewByteIsTyped ==
  ASSUME TypeInv, LineInv, line # <<>>
  PROVE  NewByte \in TaggedByte /\ NewByte.byte = line[1].bytes[pos + 1]
         /\ NewByte.position = position + 1
<1>1. line[1] \in Transmission /\ pos < Len(line[1].bytes) /\ pos \in Nat /\ position \in Nat
  BY DEF LineInv, TypeInv
<1>2. line[1].bytes \in Seq(Byte)
  BY <1>1 DEF Transmission
<1>3. line[1].bytes[pos + 1] \in Byte
  BY <1>1, <1>2
<1> QED BY <1>1, <1>3 DEF NewByte, TaggedByte

(* The buffer grows by the byte that was read.                             *)
LEMMA Grown ==
  ASSUME NEW s \in Seq(TaggedByte), NEW x \in TaggedByte, NEW o \in Nat, Row(s, o),
         x.position = o + Len(s) + 1
  PROVE  /\ Append(s, x) \in Seq(TaggedByte) /\ Len(Append(s, x)) = Len(s) + 1
         /\ Row(Append(s, x), o)
         /\ \A k \in 1..Len(s) : Append(s, x)[k] = s[k]
         /\ Append(s, x)[Len(s) + 1] = x
<1> DEFINE t == Append(s, x)
<1>1. /\ t \in Seq(TaggedByte) /\ Len(t) = Len(s) + 1
      /\ \A k \in 1..Len(s) : t[k] = s[k]
      /\ t[Len(s) + 1] = x /\ Len(s) \in Nat
  OBVIOUS
<1> HIDE DEF t
<1>2. Row(t, o)
  <2>1. ASSUME NEW k \in 1..Len(t) PROVE t[k].position = o + k
    <3>1. CASE k \in 1..Len(s)
      BY <1>1, <3>1 DEF Row
    <3>2. CASE k = Len(s) + 1
      <4>1. t[k].position = o + Len(s) + 1
        BY <1>1, <3>2
      <4> QED BY <1>1, <3>2, <4>1
    <3> QED BY <1>1, <3>1, <3>2
  <2> QED BY <2>1 DEF Row
<1> QED BY <1>1, <1>2 DEF t

(* Reading a byte leaves the buffer as it should be, and what it hands on  *)
(* is new.                                                                 *)
LEMMA ReadBufferOK ==
  ASSUME TypeInv, LineInv, BufferInv, Read
  PROVE  /\ BufferInv' /\ handed' \in Seq(Handed) /\ upto' \in Nat
         /\ EachOnce(handed', upto)
<1>1. /\ line # <<>> /\ buf' = Rest(Stored, Framed(Stored).at)
      /\ HandOn(Gap.found \o Framed(Stored).found) /\ position' = position + 1
  BY ReadIs
<1>2. /\ buf \in Seq(TaggedByte) /\ Len(buf) \in Nat /\ Len(buf) < Size
      /\ Size \in Nat /\ Size >= 6
      /\ position \in Nat /\ upto \in Nat /\ upto <= position
      /\ age \in {0, 1, 2}
  BY ReceiverAssumption DEF BufferInv, TypeInv, Recent, Late, Old
<1>3. NewByte \in TaggedByte /\ NewByte.position = position + 1
  BY <1>1, NewByteIsTyped
<1>4. PICK o \in Nat : /\ Row(buf, o) /\ upto <= o /\ o + Len(buf) <= position
                       /\ Len(buf) < Size - 1 => o + Len(buf) = position
  BY BufferRow
<1>5. CASE age >= Late
  <2> DEFINE s == <<NewByte>>
  <2>1. Gap.left = <<>> /\ Gap.found = Discarded(buf)
    BY <1>5 DEF Gap, AfterGap
  <2>2. Stored = s
    BY <1>2, <2>1 DEF Stored, Store
  <2>3. /\ s \in Seq(TaggedByte) /\ Len(s) = 1 /\ s[1] = NewByte
        /\ ~Complete(s, 0) /\ Rest(s, 0) = s
    BY <1>3, TooShort
  <2>4. Framed(s) = [at |-> 0, found |-> <<>>]
    BY <2>3, IncompleteWaits
  <2>5. InOrder(Discarded(buf), o, o + Len(buf))
    BY <1>2, <1>4, DiscardedInOrder
  <2>6. Discarded(buf) \o <<>> = Discarded(buf)
    BY <2>5 DEF InOrder
  <2>7. HandOn(Discarded(buf))
    <3> HIDE DEF s
    <3>1. Framed(Stored).found = <<>>
      BY <2>2, <2>4
    <3>2. Gap.found \o Framed(Stored).found = Discarded(buf)
      BY <2>1, <2>6, <3>1
    <3> QED BY <1>1, <3>2
  <2>8. o \in Int /\ o + Len(buf) \in Int /\ o <= o + Len(buf)
    BY <1>2, <1>4
  <2>9. /\ handed' \in Seq(Handed) /\ upto' \in Nat /\ upto' <= o + Len(buf)
        /\ EachOnce(handed', upto)
    BY <1>4, <2>5, <2>7, <2>8, HandOnOK
  <2> HIDE DEF s
  <2>10. Row(s, position)
    <3>1. \A k \in 1..Len(s) : k = 1
      BY <2>3
    <3> QED BY <1>3, <2>3, <3>1 DEF Row
  <2>11. buf' = Rest(s, 0)
    BY <1>1, <2>2, <2>4
  <2>12. upto' <= position + 0 /\ position' = position + Len(s) /\ Len(s) < Size
         /\ 0 \in 0..Len(s)
    BY <1>1, <1>2, <1>4, <2>3, <2>9
  <2>13. BufferInv'
    BY <1>2, <2>3, <2>9, <2>10, <2>11, <2>12, RestOfBuffer
  <2> QED BY <2>9, <2>13
<1>6. CASE ~(age >= Late) /\ Len(buf) < Size - 1
  <2> DEFINE s == Append(buf, NewByte)
             r == Framed(s)
  <2>1. Gap.left = buf /\ Gap.found = <<>>
    BY <1>6 DEF Gap
  <2>2. Stored = s
    BY <1>6, <2>1 DEF Stored, Store
  <2>3. s \in Seq(TaggedByte) /\ Len(s) = Len(buf) + 1 /\ Row(s, o)
    <3>1. NewByte.position = o + Len(buf) + 1
      BY <1>3, <1>4, <1>6
    <3> QED BY <1>2, <1>3, <1>4, <3>1, Grown
  <2> HIDE DEF s
  <2>4. r \in Outcomes(s, o, 0) /\ (Complete(s, 0) => r.at > 0)
    BY <1>4, <2>3, FramedInOrder
  <2> HIDE DEF r
  <2>5. /\ r.at \in 0..Len(s) /\ r.found \in Seq(Handed)
        /\ InOrder(r.found, o + 0, o + r.at)
    BY <2>4 DEF Outcomes
  <2>6. HandOn(r.found)
    <3>1. <<>> \o r.found = r.found
      BY <2>5
    <3>2. HandOn(<<>> \o r.found)
      BY <1>1, <2>1, <2>2 DEF r
    <3> QED BY <3>1, <3>2
  <2>7. o + 0 \in Int /\ o + r.at \in Int /\ o + 0 <= o + r.at /\ upto <= o + 0
    BY <1>4, <2>3, <2>5
  <2>8. /\ handed' \in Seq(Handed) /\ upto' \in Nat /\ upto' <= o + r.at
        /\ EachOnce(handed', upto)
    BY <2>5, <2>6, <2>7, HandOnOK
  <2>9. position' = o + Len(s) /\ Len(s) < Size
    BY <1>1, <1>2, <1>4, <1>6, <2>3
  <2>10. buf' = Rest(s, r.at) /\ (r.at = 0 => ~Complete(s, 0))
    BY <1>1, <2>2, <2>4 DEF r
  <2>11. BufferInv'
    BY <2>3, <2>5, <2>8, <2>9, <2>10, RestOfBuffer
  <2> QED BY <2>8, <2>11
<1>7. CASE ~(age >= Late) /\ ~(Len(buf) < Size - 1)
  <2>1. Gap.left = buf /\ Gap.found = <<>>
    BY <1>7 DEF Gap
  <2>2. Stored = buf /\ Len(buf) = Size - 1
    BY <1>2, <1>7, <2>1 DEF Stored, Store
  <2>3. Framed(buf) = [at |-> 0, found |-> <<>>]
    BY <2>2, IncompleteWaits DEF BufferInv
  <2>4. buf' = buf /\ HandOn(<<>>)
    <3>1. <<>> \o <<>> = <<>>
      OBVIOUS
    <3> QED BY <1>1, <1>2, <2>1, <2>2, <2>3, <3>1, WholeRest
  <2>5. upto' = upto /\ handed' = <<>>
    BY <2>4 DEF HandOn
  <2>6. buf # <<>> /\ EndOf(buf) <= position
    BY <1>2, <2>2 DEF BufferInv
  <2>7. EndOf(buf) \in Nat
    <3>1. buf[Len(buf)] \in TaggedByte
      BY <1>2, <2>6
    <3> QED BY <3>1 DEF EndOf, TaggedByte
  <2>8. EndOf(buf) <= position' /\ upto' <= position'
    BY <1>1, <1>2, <2>5, <2>6, <2>7
  <2>9. ~(Len(buf) < Size - 1)
    BY <1>7
  <2>10. BufferInv'
    BY <2>4, <2>5, <2>8, <2>9 DEF BufferInv, Row, EndOf, Complete, Left, FrameLen
  <2>11. EachOnce(handed', upto)
    BY <2>5 DEF EachOnce
  <2>12. handed' \in Seq(Handed)
    BY <2>5
  <2> QED BY <1>2, <2>5, <2>10, <2>11, <2>12
<1> QED BY <1>5, <1>6, <1>7

(* A message that is read in step: the buffer is what was read of it, and  *)
(* with its last byte it is handed on and the buffer is empty.             *)
LEMMA ReadInStep ==
  ASSUME TypeInv, LineInv, BufferInv, InStep, Read, synced', line[1].intact
  PROVE  /\ pos' = 0 =>
              /\ buf' = <<>>
              /\ \E frame : /\ handed' = <<Intact(frame)>>
                            /\ [i \in DOMAIN frame |-> frame[i].byte] = line[1].bytes
         /\ pos' # 0 =>
              /\ Len(buf') = pos'
              /\ \A k \in 1..pos' : buf'[k].byte = line[1].bytes[k]
              /\ pos > 0 => handed' = <<>>
<1> DEFINE m == line[1].bytes
<1>1. /\ line # <<>> /\ buf' = Rest(Stored, Framed(Stored).at)
      /\ HandOn(Gap.found \o Framed(Stored).found)
      /\ pos' = IF pos + 1 = Len(m) THEN 0 ELSE pos + 1
      /\ synced' = IF pos = 0 THEN buf = <<>> \/ age >= Late ELSE synced
  BY ReadIs DEF IsLast
<1>2. /\ buf \in Seq(TaggedByte) /\ Len(buf) \in Nat
      /\ Size \in Nat /\ Size >= 6 /\ pos \in Nat /\ position \in Nat
  BY ReceiverAssumption DEF BufferInv, TypeInv
<1>3. /\ m \in Seq(Byte) /\ Len(m) \in Nat /\ Len(m) >= 4 /\ Len(m) < Size
      /\ m[2] + 2 = Len(m) /\ Sum(m) = 0 /\ pos < Len(m)
  <2>1. m \in Messages /\ pos < Len(m)
    <3>1. 1 \in 1..Len(line)
      BY <1>1 DEF LineInv
    <3> QED BY <1>1, <3>1 DEF LineInv
  <2> HIDE DEF m
  <2> QED BY <2>1, MessageFacts
<1>4. NewByte \in TaggedByte /\ NewByte.position = position + 1 /\ NewByte.byte = m[pos + 1]
  BY <1>1, NewByteIsTyped
<1> HIDE DEF m
<1>5. CASE pos = 0
  <2> DEFINE s == <<NewByte>>
  <2>1. /\ s \in Seq(TaggedByte) /\ Len(s) = 1 /\ s[1] = NewByte
        /\ ~Complete(s, 0) /\ Rest(s, 0) = s
    BY <1>4, TooShort
  <2>2. Gap.left = <<>>
    BY <1>1, <1>5 DEF Gap, AfterGap
  <2>3. Stored = s
    BY <1>2, <2>2 DEF Stored, Store
  <2> HIDE DEF s
  <2>4. Framed(s) = [at |-> 0, found |-> <<>>]
    BY <2>1, IncompleteWaits
  <2>5. buf' = s
    BY <1>1, <2>1, <2>3, <2>4
  <2>6. pos' = 1
    BY <1>1, <1>3, <1>5
  <2>7. \A k \in 1..pos' : buf'[k].byte = m[k]
    <3>1. \A k \in 1..pos' : k = 1
      BY <2>6
    <3> QED BY <1>4, <1>5, <2>1, <2>5, <3>1
  <2> QED BY <1>5, <2>1, <2>5, <2>6, <2>7 DEF m
<1>6. CASE pos > 0
  <2> DEFINE s == Append(buf, NewByte)
  <2>1. /\ age = Recent /\ Len(buf) = pos
        /\ \A k \in 1..pos : buf[k].byte = m[k]
    <3>1. synced
      <4>1. pos # 0
        BY <1>2, <1>6
      <4>2. synced' = synced
        BY <1>1, <4>1
      <4> QED BY <4>2, Zenon
    <3> QED BY <1>6, <3>1 DEF InStep, m
  <2>2. Gap.left = buf /\ Gap.found = <<>>
    BY <2>1 DEF Gap, Recent, Late
  <2>3. Stored = s
    <3>1. Len(buf) < Size - 1
      BY <1>2, <1>3, <2>1
    <3> QED BY <2>2, <3>1 DEF Stored, Store
  <2>4. /\ s \in Seq(TaggedByte) /\ Len(s) = pos + 1
        /\ \A k \in 1..pos : s[k] = buf[k]
        /\ s[pos + 1] = NewByte
    BY <1>2, <1>4, <2>1
  <2> HIDE DEF s
  <2>5. \A k \in 1..(pos + 1) : s[k].byte = m[k]
    <3>1. \A k \in 1..(pos + 1) : k \in 1..pos \/ k = pos + 1
      BY <1>2
    <3> QED BY <1>4, <2>1, <2>4, <3>1
  <2>6. Left(s, 0) = pos + 1
    BY <1>2, <2>4 DEF Left
  <2>7. Left(s, 0) >= 4 => FrameLen(s, 0) = Len(m)
    <3>1. SUFFICES ASSUME pos + 1 >= 4 PROVE FrameLen(s, 0) = Len(m)
      BY <2>6
    <3>2. 2 \in 1..(pos + 1) /\ 0 + 2 = 2
      BY <1>2, <3>1
    <3>3. s[0 + 2].byte = m[2]
      BY <2>5, <3>2
    <3> QED BY <1>3, <3>3 DEF FrameLen
  <2>8. CASE pos + 1 # Len(m)
    <3>1. ~Complete(s, 0)
      BY <2>6, <2>7, <2>8 DEF Complete
    <3>2. Framed(s) = [at |-> 0, found |-> <<>>]
      BY <3>1, IncompleteWaits
    <3>3. buf' = s
      BY <1>1, <2>3, <2>4, <3>2, WholeRest
    <3>4. handed' = <<>>
      <4>1. Gap.found \o Framed(Stored).found = <<>>
        BY <2>2, <2>3, <3>2
      <4> QED BY <1>1, <4>1 DEF HandOn
    <3>5. pos' = pos + 1 /\ pos' # 0
      BY <1>1, <1>2, <2>8
    <3> QED BY <2>4, <2>5, <3>3, <3>4, <3>5 DEF m
  <2>9. CASE pos + 1 = Len(m)
    <3> DEFINE frame == Frame(s, 0)
    <3>1. FrameLen(s, 0) = Len(s) /\ Complete(s, 0)
      BY <1>3, <2>4, <2>6, <2>7, <2>9 DEF Complete
    <3>2. frame = s
      <4>1. SubSeq(s, 0 + 1, 0 + Len(s)) = s
        BY <2>4
      <4> QED BY <3>1, <4>1 DEF Frame
    <3> HIDE DEF frame
    <3>3. [i \in DOMAIN frame |-> frame[i].byte] = m
      <4>1. DOMAIN frame = 1..Len(m)
        BY <2>4, <2>9, <3>2
      <4>2. m = [i \in 1..Len(m) |-> m[i]]
        BY <1>3
      <4>3. \A i \in 1..Len(m) : frame[i].byte = m[i]
        BY <2>5, <2>9, <3>2
      <4> QED BY <4>1, <4>2, <4>3
    <3>4. GoodChecksum(frame)
      BY <1>3, <3>3 DEF GoodChecksum
    <3>5. Framed(s) = [at |-> Len(s), found |-> <<Intact(frame)>>]
      BY <3>1, <3>4 DEF Framed, Retry, frame
    <3>6. buf' = <<>>
      BY <1>1, <2>3, <2>4, <3>5, WholeRest
    <3>7. handed' = <<Intact(frame)>>
      <4>1. <<>> \o <<Intact(frame)>> = <<Intact(frame)>>
        OBVIOUS
      <4>2. Gap.found \o Framed(Stored).found = <<Intact(frame)>>
        BY <2>2, <2>3, <3>5, <4>1
      <4> QED BY <1>1, <4>2 DEF HandOn
    <3>8. pos' = 0
      BY <1>1, <2>9
    <3> QED BY <3>3, <3>6, <3>7, <3>8 DEF m
  <2> QED BY <2>8, <2>9
<1>7. pos = 0 \/ pos > 0
  BY <1>2
<1> QED BY <1>5, <1>6, <1>7, Zenon
-----------------------------------------------------------------------------
(* The invariant.                                                          *)

LEMMA InitOK == ASSUME Init PROVE IInv
<1>1. TypeInv
  <2>1. bytes_read \in BOOLEAN /\ synced \in BOOLEAN
    BY Zenon DEF Init
  <2>2. handed \in Seq(Handed) /\ setting \in Settings
    BY DEF Init
  <2>3. /\ age \in {Recent, Late, Old}
        /\ pos \in Nat /\ sent \in Nat /\ damaged \in Nat
        /\ position \in Nat /\ upto \in Nat /\ ticks \in {0, 1}
    BY DEF Init
  <2> QED BY <2>1, <2>2, <2>3 DEF TypeInv
<1>2. LineInv
  BY DEF Init, LineInv
<1>3. BufferInv
  BY ReceiverAssumption DEF Init, BufferInv
<1>4. InStep /\ Silence
  BY DEF Init, InStep, Silence
<1> QED BY <1>1, <1>2, <1>3, <1>4 DEF IInv

LEMMA ReadOK == ASSUME IInv, Read PROVE IInv'
<1>1. TypeInv /\ LineInv /\ BufferInv /\ InStep
  BY DEF IInv
<1>2. /\ line # <<>>
      /\ pos' = IF IsLast THEN 0 ELSE pos + 1
      /\ line' = IF IsLast THEN Tail(line) ELSE line
      /\ synced' = IF pos = 0 THEN buf = <<>> \/ age >= Late ELSE synced
      /\ age' = Recent /\ bytes_read' = TRUE /\ position' = position + 1
      /\ ticks' = 0 /\ UNCHANGED <<setting, sent, damaged>>
  BY ReadIs
<1>3. BufferInv' /\ handed' \in Seq(Handed) /\ upto' \in Nat
  BY <1>1, ReadBufferOK
<1>4. TypeInv'
  <2>1. (buf = <<>> \/ age >= Late) \in BOOLEAN
    OBVIOUS
  <2>2. synced' \in BOOLEAN
    BY <1>1, <1>2, <2>1 DEF TypeInv
  <2>3. /\ setting' \in Settings /\ bytes_read' \in BOOLEAN
        /\ age' \in {Recent, Late, Old}
        /\ pos' \in Nat /\ sent' \in Nat /\ damaged' \in Nat
        /\ position' \in Nat /\ ticks' \in {0, 1}
    BY <1>1, <1>2 DEF TypeInv
  <2> QED BY <1>3, <2>2, <2>3 DEF TypeInv
<1>5. LineInv'
  <2>1. /\ line \in Seq(Transmission) /\ Len(line) \in Nat /\ Messages' = Messages
        /\ pos \in Nat /\ pos < Len(line[1].bytes)
    BY <1>1, <1>2 DEF LineInv, TypeInv, Messages
  <2>2. CASE IsLast
    <3>1. line' = Tail(line) /\ pos' = 0
      BY <1>2, <2>2
    <3>2. /\ line' \in Seq(Transmission) /\ Len(line') = Len(line) - 1
          /\ \A i \in 1..Len(line') : line'[i] = line[i + 1] /\ i + 1 \in 1..Len(line)
      BY <1>2, <2>1, <3>1
    <3>3. \A i \in 1..Len(line) : /\ Len(line[i].bytes) >= 1
                                  /\ line[i].intact => line[i].bytes \in Messages
      BY <1>1 DEF LineInv
    <3>4. \A i \in 1..Len(line') :
            /\ Len(line'[i].bytes) >= 1
            /\ line'[i].intact => line'[i].bytes \in Messages'
      BY <2>1, <3>2, <3>3
    <3>5. line' # <<>> => pos' < Len(line'[1].bytes)
      <4>1. SUFFICES ASSUME line' # <<>> PROVE pos' < Len(line'[1].bytes)
        OBVIOUS
      <4>2. 1 \in 1..Len(line')
        BY <3>2, <4>1
      <4>3. line'[1] \in Transmission
        BY <3>2, <4>2
      <4>4. Len(line'[1].bytes) \in Nat
        BY <4>3 DEF Transmission
      <4> QED BY <3>1, <3>4, <4>2, <4>4
    <3> QED BY <3>1, <3>2, <3>4, <3>5 DEF LineInv
  <2>3. CASE ~IsLast
    <3>1. line' = line /\ pos' = pos + 1 /\ pos + 1 # Len(line[1].bytes)
      BY <1>2, <2>3 DEF IsLast
    <3>2. Len(line[1].bytes) \in Nat
      <4>1. line[1] \in Transmission
        BY <1>2, <2>1
      <4> QED BY <4>1 DEF Transmission
    <3>3. pos' < Len(line'[1].bytes)
      BY <2>1, <3>1, <3>2
    <3> QED BY <1>1, <1>2, <2>1, <3>1, <3>3 DEF LineInv
  <2> QED BY <2>2, <2>3
<1>6. InStep'
  <2> SUFFICES ASSUME synced', pos' > 0, line'[1].intact
               PROVE  /\ age' = Recent /\ Len(buf') = pos'
                      /\ \A k \in 1..pos' : buf'[k].byte = line'[1].bytes[k]
    BY DEF InStep
  <2>1. ~IsLast /\ line' = line /\ pos' # 0
    BY <1>2
  <2>2. line[1].intact
    BY <2>1
  <2>3. Len(buf') = pos' /\ \A k \in 1..pos' : buf'[k].byte = line[1].bytes[k]
    BY <1>1, <2>1, <2>2, ReadInStep
  <2> QED BY <1>2, <2>1, <2>3
<1>7. Silence'
  BY <1>2 DEF Silence
<1> QED BY <1>3, <1>4, <1>5, <1>6, <1>7 DEF IInv

(* The tick.                                                               *)
LEMMA TickBufferOK ==
  ASSUME TypeInv, BufferInv, Tick
  PROVE  /\ BufferInv' /\ handed' \in Seq(Handed) /\ upto' \in Nat
         /\ EachOnce(handed', upto)
<1>1. /\ buf' = IF TimedOut(buf) THEN <<>> ELSE buf
      /\ HandOn(IF TimedOut(buf) THEN Discarded(buf) ELSE <<>>)
      /\ UNCHANGED <<setting, position>>
  BY DEF Tick
<1>2. /\ buf \in Seq(TaggedByte) /\ Len(buf) \in Nat
      /\ Size \in Nat /\ Size >= 6 /\ position \in Nat /\ upto \in Nat
  BY ReceiverAssumption DEF BufferInv, TypeInv
<1>3. CASE TimedOut(buf)
  <2>1. PICK o \in Nat : Row(buf, o) /\ upto <= o /\ o + Len(buf) <= position
    BY BufferRow
  <2>2. InOrder(Discarded(buf), o, o + Len(buf))
    BY <1>2, <2>1, DiscardedInOrder
  <2>3. o \in Int /\ o + Len(buf) \in Int /\ o <= o + Len(buf)
    BY <1>2, <2>1
  <2>4. HandOn(Discarded(buf))
    BY <1>1, <1>3
  <2>5. /\ handed' \in Seq(Handed) /\ upto' \in Nat /\ upto' <= o + Len(buf)
        /\ EachOnce(handed', upto)
    BY <2>1, <2>2, <2>3, <2>4, HandOnOK
  <2>6. buf' = <<>> /\ Len(<<>>) = 0 /\ <<>> \in Seq(TaggedByte) /\ 0 < Size /\ 0 # Size - 1
    BY <1>1, <1>2, <1>3
  <2>7. upto' <= position'
    BY <1>1, <1>2, <2>1, <2>5
  <2>8. BufferInv'
    BY <2>6, <2>7 DEF BufferInv
  <2> QED BY <2>5, <2>8
<1>4. CASE ~TimedOut(buf)
  <2>1. buf' = buf /\ HandOn(<<>>)
    BY <1>1, <1>4
  <2>2. upto' = upto /\ handed' = <<>>
    BY <2>1 DEF HandOn
  <2>3. BufferInv'
    BY <1>1, <2>1, <2>2 DEF BufferInv, Row, EndOf, Complete, Left, FrameLen
  <2> QED BY <1>2, <2>2, <2>3 DEF EachOnce
<1> QED BY <1>3, <1>4

LEMMA TickOK == ASSUME IInv, Tick PROVE IInv'
<1>1. TypeInv /\ LineInv /\ BufferInv /\ InStep /\ Silence
  BY DEF IInv
<1>2. /\ buf' = IF TimedOut(buf) THEN <<>> ELSE buf
      /\ bytes_read' = (bytes_read /\ buf' # <<>>) /\ ticks' = 1
      /\ UNCHANGED <<setting, age, line, pos, sent, damaged, position, synced>>
  BY DEF Tick, Cleared
<1>3. BufferInv' /\ handed' \in Seq(Handed) /\ upto' \in Nat
  BY <1>1, TickBufferOK
<1>4. TypeInv'
  <2>1. bytes_read' \in BOOLEAN
    BY <1>2
  <2> QED BY <1>1, <1>2, <1>3, <2>1 DEF TypeInv
<1>5. LineInv'
  BY <1>1, <1>2 DEF LineInv, Messages
<1>6. InStep'
  <2> SUFFICES ASSUME synced', pos' > 0, line'[1].intact
               PROVE  /\ age' = Recent /\ Len(buf') = pos'
                      /\ \A k \in 1..pos' : buf'[k].byte = line'[1].bytes[k]
    BY DEF InStep
  <2>1. synced /\ pos > 0 /\ line[1].intact
    BY <1>2
  <2>2. /\ age = Recent /\ Len(buf) = pos
        /\ \A k \in 1..pos : buf[k].byte = line[1].bytes[k]
    BY <1>1, <2>1 DEF InStep
  <2>3. buf' = buf
    BY <1>2, <2>2 DEF TimedOut, Recent, Old
  <2> QED BY <1>2, <2>2, <2>3
<1>7. Silence'
  <2> SUFFICES ASSUME ~bytes_read'
               PROVE  buf' = <<>> /\ (Prompt' /\ pos' > 0 => ticks' = 1)
    BY DEF Silence
  <2>1. ~bytes_read => buf = <<>>
    BY <1>1 DEF Silence
  <2>2. buf' = <<>>
    BY <1>2, <2>1
  <2> QED BY <1>2, <2>2
<1> QED BY <1>3, <1>4, <1>5, <1>6, <1>7 DEF IInv

(* What is left alone by the bus.                                          *)
LEMMA BufferAlone ==
  ASSUME BufferInv, UNCHANGED <<buf, position, upto>>
  PROVE  BufferInv'
BY DEF BufferInv, Row, EndOf, Complete, Left, FrameLen

LEMMA ElapseOK == ASSUME IInv, Elapse PROVE IInv'
<1>1. /\ TypeInv /\ LineInv /\ BufferInv /\ Silence
      /\ age < Old /\ age' = age + 1 /\ synced' = (synced /\ pos = 0) /\ handed' = <<>>
      /\ UNCHANGED <<setting, buf, bytes_read, line, pos, sent, damaged, ticks, position,
                     upto>>
  BY DEF IInv, Elapse
<1>2. TypeInv'
  <2>1. synced' \in BOOLEAN
    BY <1>1
  <2> QED BY <1>1, <2>1 DEF TypeInv, Recent, Late, Old
<1>3. LineInv'
  BY <1>1 DEF LineInv, Messages
<1>4. BufferInv'
  BY <1>1, BufferAlone
<1>5. InStep'
  <2>1. synced' => pos = 0
    BY <1>1, Zenon
  <2>2. synced' => ~(pos' > 0)
    BY <1>1, <2>1
  <2> QED BY <2>2 DEF InStep
<1>6. Silence'
  BY <1>1 DEF Silence, Prompt
<1> QED BY <1>2, <1>3, <1>4, <1>5, <1>6 DEF IInv

LEMMA TransmitOK ==
  ASSUME IInv, NEW bytes \in Seq(Byte), Len(bytes) >= 1, NEW intact \in BOOLEAN,
         intact => bytes \in Messages, Transmit(bytes, intact)
  PROVE  IInv'
<1>1. /\ TypeInv /\ LineInv /\ BufferInv /\ InStep /\ Silence
      /\ sent' = sent + 1 /\ handed' = <<>>
      /\ line' = Append(line, [bytes |-> bytes, intact |-> intact])
      /\ damaged' = IF intact THEN damaged ELSE damaged + 1
      /\ UNCHANGED <<setting, buf, bytes_read, age, pos, ticks, position, synced, upto>>
  BY DEF IInv, Transmit
<1>2. TypeInv'
  BY <1>1 DEF TypeInv
<1> DEFINE t == [bytes |-> bytes, intact |-> intact]
<1>3. t \in Transmission /\ t.bytes = bytes /\ t.intact = intact
  BY DEF Transmission
<1> HIDE DEF t
<1>4. /\ line' = Append(line, t) /\ line \in Seq(Transmission) /\ Len(line) \in Nat
      /\ Messages' = Messages /\ pos' = pos
  BY <1>1 DEF t, LineInv, Messages
<1>5. /\ line' \in Seq(Transmission) /\ Len(line') = Len(line) + 1
      /\ \A i \in 1..Len(line) : line'[i] = line[i]
      /\ line'[Len(line) + 1] = t
  BY <1>3, <1>4
<1>6. \A i \in 1..Len(line') : i \in 1..Len(line) \/ i = Len(line) + 1
  BY <1>4, <1>5
<1>7. LineInv'
  <2>1. \A i \in 1..Len(line') : /\ Len(line'[i].bytes) >= 1
                                 /\ line'[i].intact => line'[i].bytes \in Messages'
    <3>1. \A i \in 1..Len(line) : /\ Len(line[i].bytes) >= 1
                                  /\ line[i].intact => line[i].bytes \in Messages
      BY <1>1 DEF LineInv
    <3> QED BY <1>3, <1>4, <1>5, <1>6, <3>1
  <2>2. pos' < Len(line'[1].bytes)
    <3>1. CASE line = <<>>
      <4>1. pos = 0 /\ Len(line) + 1 = 1
        BY <1>1, <3>1 DEF LineInv
      <4>2. line'[1] = t
        BY <1>5, <4>1
      <4> QED BY <1>3, <1>4, <4>1, <4>2
    <3>2. CASE line # <<>>
      <4>1. 1 \in 1..Len(line) /\ pos < Len(line[1].bytes)
        BY <1>1, <1>4, <3>2 DEF LineInv
      <4> QED BY <1>4, <1>5, <4>1
    <3> QED BY <3>1, <3>2
  <2>3. line' # <<>>
    BY <1>4, <1>5
  <2> QED BY <1>5, <2>1, <2>2, <2>3 DEF LineInv
<1>8. BufferInv'
  BY <1>1, BufferAlone
<1>9. InStep'
  <2> SUFFICES ASSUME synced', pos' > 0, line'[1].intact
               PROVE  /\ age' = Recent /\ Len(buf') = pos'
                      /\ \A k \in 1..pos' : buf'[k].byte = line'[1].bytes[k]
    BY DEF InStep
  <2>1. line # <<>>
    <3>1. pos # 0
      BY <1>1
    <3> QED BY <1>1, <3>1 DEF LineInv
  <2>2. 1 \in 1..Len(line)
    BY <1>4, <2>1
  <2>3. line'[1] = line[1]
    BY <1>5, <2>2
  <2>4. synced /\ pos > 0 /\ line[1].intact
    BY <1>1, <2>3
  <2> QED BY <1>1, <2>3, <2>4 DEF InStep
<1>10. Silence'
  BY <1>1 DEF Silence, Prompt
<1> QED BY <1>2, <1>7, <1>8, <1>9, <1>10 DEF IInv

LEMMA StepOK == ASSUME IInv, [Next]_vars PROVE IInv'
<1>1. CASE Read
  BY <1>1, ReadOK
<1>2. CASE Tick
  BY <1>2, TickOK
<1>3. CASE Elapse
  BY <1>3, ElapseOK
<1>4. ASSUME NEW m \in Messages, Transmit(m, TRUE) PROVE IInv'
  <2>1. m \in Seq(Byte) /\ Len(m) >= 1
    <3>1. m \in Seq(Byte) /\ Len(m) >= 4
      BY MessageFacts DEF IInv
    <3> QED BY <3>1
  <2> QED BY <1>4, <2>1, TransmitOK
<1>5. ASSUME NEW m \in Messages, NEW bytes \in Damaged(m), Transmit(bytes, FALSE)
      PROVE  IInv'
  <2>1. m \in Seq(Byte) /\ Len(m) >= 4
    BY MessageFacts DEF IInv
  <2>2. bytes \in Seq(Byte) /\ Len(bytes) >= 1
    BY <2>1, DamagedIsTyped
  <2> QED BY <1>5, <2>2, TransmitOK
<1>6. CASE UNCHANGED vars
  <2>1. UNCHANGED <<setting, buf, bytes_read, age, line, pos, sent, damaged, ticks,
                    position, synced, handed, upto>>
    BY <1>6 DEF vars
  <2>2. BufferInv'
    BY <2>1, BufferAlone DEF IInv
  <2> QED BY <2>1, <2>2 DEF IInv, TypeInv, LineInv, InStep, Silence, Messages, Prompt
<1> QED BY <1>1, <1>2, <1>3, <1>4, <1>5, <1>6 DEF Next

LEMMA Invariance == Spec => []IInv
<1>1. Init => IInv
  BY InitOK
<1>2. IInv /\ [Next]_vars => IInv'
  BY StepOK
<1> QED BY <1>1, <1>2, PTL DEF Spec
-----------------------------------------------------------------------------
(* The buffer of ibus_read never overflows and everything keeps its type:  *)
(* the recoveries, whatever bytes they meet, end within the buffer.        *)
THEOREM TypeCorrect == Spec => []TypeOK
<1>1. IInv => TypeOK
  BY DEF IInv, TypeInv, LineInv, BufferInv, TypeOK, Handed, Transmission
<1> QED BY <1>1, Invariance, PTL

(* The program never transmits while it holds a part of a message, nor     *)
(* within a message that it reads as it arrives, for every size of the     *)
(* buffer and all messages and damages.                                    *)
THEOREM SilenceIsKept == Spec => []SilentWithinMessages
<1>1. IInv => SilentWithinMessages
  <2> SUFFICES ASSUME IInv, ~bytes_read
               PROVE  buf = <<>> /\ (Prompt /\ MayTick => pos = 0)
    BY DEF SilentWithinMessages
  <2>1. buf = <<>> /\ (Prompt /\ pos > 0 => ticks = 1) /\ pos \in Nat
    BY DEF IInv, Silence, TypeInv
  <2>2. ASSUME Prompt, MayTick PROVE pos = 0
    <3>1. pos > 0 => ticks = 0
      BY <2>2 DEF MayTick
    <3>2. ~(pos > 0)
      BY <2>1, <2>2, <3>1
    <3> QED BY <2>1, <3>2
  <2> QED BY <2>1, <2>2
<1> QED BY <1>1, Invariance, PTL

(* A good message that begins when the buffer is empty or after a gap is   *)
(* handed on by ibus_read with its last byte, as it was sent and nothing   *)
(* else, for every set of good messages that fit into the buffer.          *)
THEOREM IntactIsDelivered == Spec => IntactDelivered
<1>1. IInv /\ [Next]_vars =>
        [Read /\ synced' /\ line[1].intact =>
           /\ (pos' = 0 =>
                /\ buf' = <<>>
                /\ \E frame \in {handed'[i].frame : i \in DOMAIN handed'} :
                     /\ handed' = <<Intact(frame)>>
                     /\ [i \in DOMAIN frame |-> frame[i].byte] = line[1].bytes)
           /\ (pos > 0 /\ pos' > 0 => handed' = <<>>)]_vars
  <2> SUFFICES ASSUME IInv, Read, synced', line[1].intact
               PROVE  /\ (pos' = 0 =>
                           /\ buf' = <<>>
                           /\ \E frame \in {handed'[i].frame : i \in DOMAIN handed'} :
                                /\ handed' = <<Intact(frame)>>
                                /\ [i \in DOMAIN frame |-> frame[i].byte] = line[1].bytes)
                      /\ (pos > 0 /\ pos' > 0 => handed' = <<>>)
    OBVIOUS
  <2>1. TypeInv /\ LineInv /\ BufferInv /\ InStep
    BY DEF IInv
  <2>2. ASSUME pos' = 0
        PROVE  /\ buf' = <<>>
               /\ \E frame \in {handed'[i].frame : i \in DOMAIN handed'} :
                    /\ handed' = <<Intact(frame)>>
                    /\ [i \in DOMAIN frame |-> frame[i].byte] = line[1].bytes
    <3>1. /\ buf' = <<>>
          /\ \E frame : /\ handed' = <<Intact(frame)>>
                        /\ [i \in DOMAIN frame |-> frame[i].byte] = line[1].bytes
      BY <2>1, <2>2, ReadInStep
    <3>2. PICK frame : /\ handed' = <<Intact(frame)>>
                       /\ [i \in DOMAIN frame |-> frame[i].byte] = line[1].bytes
      BY <3>1
    <3>3. 1 \in DOMAIN handed' /\ handed'[1].frame = frame
      BY <3>2 DEF Intact
    <3>4. frame \in {handed'[i].frame : i \in DOMAIN handed'}
      BY <3>3
    <3> QED BY <3>1, <3>2, <3>4
  <2>3. ASSUME pos > 0, pos' > 0 PROVE handed' = <<>>
    <3>1. pos' # 0
      BY <2>3
    <3> QED BY <2>1, <2>3, <3>1, ReadInStep
  <2> QED BY <2>2, <2>3
<1> QED BY <1>1, Invariance, PTL DEF Spec, IntactDelivered

(* No byte of the bus is handed on twice, and messages in the order of the *)
(* bus, however much the two recoveries discard and whatever the buffer    *)
(* had no room for.                                                        *)
THEOREM BytesAreUsedOnce == Spec => OncePerByte
<1>1. ASSUME IInv, Next PROVE EachOnce(handed', upto)
  <2>1. TypeInv /\ LineInv /\ BufferInv
    BY <1>1 DEF IInv
  <2>2. CASE Read
    BY <2>1, <2>2, ReadBufferOK
  <2>3. CASE Tick
    BY <2>1, <2>3, TickBufferOK
  <2>4. CASE ~Read /\ ~Tick
    <3>1. handed' = <<>>
      BY <1>1, <2>4 DEF Next, Transmit, Elapse
    <3> QED BY <3>1 DEF EachOnce
  <2> QED BY <2>2, <2>3, <2>4
<1>2. IInv /\ [Next]_vars =>
        [\A i \in DOMAIN handed' :
           LET frame == handed'[i].frame
               floor == IF i = 1 THEN upto ELSE Last(handed'[i - 1].frame).position
           IN  /\ frame[1].position > floor
               /\ \A j \in DOMAIN frame : frame[j].position = frame[1].position + j - 1
        ]_vars
  BY <1>1 DEF EachOnce
<1> QED BY <1>2, Invariance, PTL DEF Spec, OncePerByte
=============================================================================
