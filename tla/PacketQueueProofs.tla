-------------------------- MODULE PacketQueueProofs --------------------------
(***************************************************************************)
(* What the operators of PacketQueue return, for every list.               *)
(*                                                                         *)
(* RemoveTag is a recursive function.  The induction theorems of the       *)
(* library take a predicate as a parameter; here induction is stated for   *)
(* sets instead (NatSetInduction), from the well-foundedness of < on Nat.  *)
(***************************************************************************)
EXTENDS PacketQueue, SequenceTheorems, WellFoundedInduction, TLAPS

(* A set that contains 0 and the successor of each of its numbers contains *)
(* every natural number.                                                   *)
LEMMA NatSetInduction ==
  ASSUME NEW S, 0 \in S, \A n \in Nat : n \in S => n + 1 \in S
  PROVE  \A n \in Nat : n \in S
<1> DEFINE R == {ss \in Nat \X Nat : ss[1] < ss[2]}
           T == {n \in Nat : n \notin S}
<1>1. IsWellFoundedOn(R, Nat)
  BY NatLessThanWellFounded DEF OpToRel
<1>2. SUFFICES ASSUME T # {} PROVE FALSE
  OBVIOUS
<1>3. PICK x \in T : \A y \in T : ~(<<y, x>> \in R)
  <2>1. T \subseteq Nat
    OBVIOUS
  <2> HIDE DEF R, T
  <2> QED BY <1>1, <1>2, <2>1, WFMin
<1>4. x \in Nat /\ x # 0
  OBVIOUS
<1>5. x - 1 \in Nat /\ x - 1 \in T
  BY <1>4
<1>6. <<x - 1, x>> \in R
  BY <1>4, <1>5
<1> QED BY <1>3, <1>5, <1>6

(* Applying a function again and again from a starting point defines a     *)
(* sequence of values: the recursive definition of RemoveTag has a         *)
(* solution.                                                               *)
LEMMA IterationExists ==
  ASSUME NEW P, NEW step \in [P -> P], NEW start \in P
  PROVE  \E f \in [Nat -> P] :
           /\ f[0] = start
           /\ \A n \in Nat : n # 0 => f[n] = step[f[n - 1]]
<1> DEFINE Run(n) == {g \in [0..n -> P] :
                        /\ g[0] = start
                        /\ \A i \in 1..n : g[i] = step[g[i - 1]]}
           HasRun == {n \in Nat : Run(n) # {}}
<1>1. 0 \in HasRun
  <2>1. [i \in 0..0 |-> start] \in Run(0)
    OBVIOUS
  <2> QED BY <2>1
<1>2. ASSUME NEW n \in Nat, n \in HasRun PROVE n + 1 \in HasRun
  <2>1. PICK g : g \in Run(n)
    BY <1>2
  <2> DEFINE h == [i \in 0..(n + 1) |-> IF i = n + 1 THEN step[g[n]] ELSE g[i]]
  <2>2. g \in [0..n -> P] /\ g[0] = start /\ \A i \in 1..n : g[i] = step[g[i - 1]]
    BY <2>1
  <2>3. step[g[n]] \in P
    BY <2>2
  <2>4. h \in [0..(n + 1) -> P]
    BY <2>2, <2>3
  <2>5. h[0] = start
    BY <2>2
  <2>6. ASSUME NEW i \in 1..(n + 1) PROVE h[i] = step[h[i - 1]]
    <3>1. i - 1 \in 0..n /\ i - 1 # n + 1
      OBVIOUS
    <3>2. h[i - 1] = g[i - 1]
      BY <3>1
    <3>3. CASE i = n + 1
      BY <3>2, <3>3
    <3>4. CASE i # n + 1
      BY <2>2, <3>2, <3>4
    <3> QED BY <3>3, <3>4
  <2>7. h \in Run(n + 1)
    BY <2>4, <2>5, <2>6
  <2> QED BY <2>7
<1>3. \A n \in Nat : n \in HasRun
  <2> HIDE DEF HasRun
  <2> QED BY <1>1, <1>2, NatSetInduction
(* Two runs agree as far as both go.                                       *)
<1>4. ASSUME NEW m \in Nat, NEW n \in Nat, m <= n,
             NEW g \in Run(m), NEW h \in Run(n)
      PROVE  g[m] = h[m]
  <2> DEFINE Same == {i \in Nat : i <= m => g[i] = h[i]}
  <2>1. 0 \in Same
    OBVIOUS
  <2>2. ASSUME NEW i \in Nat, i \in Same PROVE i + 1 \in Same
    <3> SUFFICES ASSUME i + 1 <= m PROVE g[i + 1] = h[i + 1]
      OBVIOUS
    <3>1. g[i] = h[i]
      BY <2>2
    <3>2. i + 1 \in 1..m /\ i + 1 \in 1..n /\ (i + 1) - 1 = i
      BY <1>4
    <3>3. g[i + 1] = step[g[i]] /\ h[i + 1] = step[h[i]]
      BY <3>2
    <3> QED BY <3>1, <3>3
  <2>3. m \in Same
    <3> HIDE DEF Same
    <3> QED BY <2>1, <2>2, NatSetInduction
  <2> QED BY <2>3
<1> DEFINE f == [n \in Nat |-> (CHOOSE g : g \in Run(n))[n]]
<1>5. ASSUME NEW n \in Nat PROVE (CHOOSE g : g \in Run(n)) \in Run(n)
  BY <1>3
<1>6. f \in [Nat -> P]
  BY <1>5
<1>7. f[0] = start
  BY <1>5
<1>8. ASSUME NEW n \in Nat, n # 0 PROVE f[n] = step[f[n - 1]]
  <2> DEFINE g == CHOOSE g : g \in Run(n - 1)
             h == CHOOSE h : h \in Run(n)
  <2>1. n - 1 \in Nat /\ n - 1 <= n /\ n \in 1..n
    BY <1>8
  <2>2. g \in Run(n - 1) /\ h \in Run(n)
    BY <1>5, <2>1
  <2>3. g[n - 1] = h[n - 1]
    BY <1>4, <2>1, <2>2
  <2>4. h[n] = step[h[n - 1]]
    BY <2>1, <2>2
  <2>5. f[n] = h[n] /\ f[n - 1] = g[n - 1]
    BY <2>1
  <2> QED BY <2>3, <2>4, <2>5
<1> HIDE DEF f
<1> QED BY <1>6, <1>7, <1>8
-----------------------------------------------------------------------------
(* The walk of ibus_remove_tag_from_queue, as a function on lists, and     *)
(* what RemoveTag is in terms of it.                                       *)
Closed(P, tag) == \A s \in P : RemoveFirst(s, Tagged(s, tag)) \in P

IsWalk(f, list, tag) ==
  /\ f[0] = list
  /\ \A n \in Nat : f[n + 1] = RemoveFirst(f[n], Tagged(f[n], tag))
  /\ RemoveTag(list, tag) = f[Len(list)]

LEMMA RemoveTagWalk ==
  ASSUME NEW P, P = Seq(Packet), NEW list \in P, NEW tag, Closed(P, tag)
  PROVE  \E f \in [Nat -> P] : IsWalk(f, list, tag)
<1> DEFINE step == [s \in P |-> RemoveFirst(s, Tagged(s, tag))]
           Solves(f) == f = [n \in Nat |-> IF n = 0 THEN list ELSE step[f[n - 1]]]
           Walk == CHOOSE f : Solves(f)
<1>1. step \in [P -> P]
  BY DEF Closed
<1>2. PICK f \in [Nat -> P] :
        /\ f[0] = list
        /\ \A n \in Nat : n # 0 => f[n] = step[f[n - 1]]
  <2> HIDE DEF step, Solves, Walk
  <2>1. PICK cut \in [P -> P] : cut = step
    BY <1>1
  <2>2. \E f \in [Nat -> P] :
          /\ f[0] = list
          /\ \A n \in Nat : n # 0 => f[n] = cut[f[n - 1]]
    BY ONLY list \in P, cut \in [P -> P], IterationExists, SMT
  <2> QED BY <2>1, <2>2
<1>3. Solves(Walk)
  <2>1. \A n \in Nat : f[n] = IF n = 0 THEN list ELSE step[f[n - 1]]
    BY <1>2
  <2>2. f = [n \in Nat |-> f[n]]
    OBVIOUS
  <2>3. Solves(f)
    <3> HIDE DEF step
    <3> QED BY <2>1, <2>2
  <2> HIDE DEF Solves
  <2> QED BY <2>3
<1>4. RemoveTag(list, tag) = Walk[Len(list)]
  BY P = Seq(Packet) DEF RemoveTag
<1>5. /\ Walk[0] = list
      /\ \A n \in Nat : n # 0 => Walk[n] = step[Walk[n - 1]]
      /\ Walk = [n \in Nat |-> Walk[n]]
  <2> DEFINE W == Walk
  <2>1. W = [n \in Nat |-> IF n = 0 THEN list ELSE step[W[n - 1]]]
    BY <1>3
  <2> HIDE DEF W, step
  <2>2. /\ W[0] = list
        /\ \A n \in Nat : n # 0 => W[n] = step[W[n - 1]]
        /\ W = [n \in Nat |-> W[n]]
    BY <2>1
  <2> QED BY <2>2 DEF W
<1> HIDE DEF Walk
<1>6. ASSUME NEW n \in Nat PROVE Walk[n + 1] = step[Walk[n]]
  <2>1. n + 1 \in Nat /\ n + 1 # 0 /\ (n + 1) - 1 = n
    OBVIOUS
  <2> QED BY <1>5, <2>1
<1>7. \A n \in Nat : Walk[n] \in P
  <2> DEFINE In == {n \in Nat : Walk[n] \in P}
  <2>1. 0 \in In
    BY <1>5
  <2>2. ASSUME NEW n \in Nat, n \in In PROVE n + 1 \in In
    <3>1. Walk[n + 1] = step[Walk[n]] /\ Walk[n] \in P
      BY <1>6, <2>2
    <3> HIDE DEF step
    <3>2. Walk[n + 1] \in P
      BY <1>1, <3>1
    <3> QED BY <3>2
  <2>3. \A n \in Nat : n \in In
    <3> HIDE DEF In
    <3> QED BY <2>1, <2>2, NatSetInduction
  <2> QED BY <2>3
<1>8. Walk \in [Nat -> P]
  BY <1>5, <1>7
<1>9. \A n \in Nat : Walk[n + 1] = RemoveFirst(Walk[n], Tagged(Walk[n], tag))
  BY <1>6, <1>7
<1> QED BY <1>4, <1>5, <1>8, <1>9 DEF IsWalk

(* The first element of a set of natural numbers.                          *)
LEMMA FirstOf ==
  ASSUME NEW S, S \subseteq Nat, S # {}
  PROVE  /\ (CHOOSE i \in S : \A j \in S : i <= j) \in S
         /\ \A j \in S : (CHOOSE i \in S : \A k \in S : i <= k) <= j
<1> DEFINE R == {ss \in Nat \X Nat : ss[1] < ss[2]}
<1>1. IsWellFoundedOn(R, Nat)
  BY NatLessThanWellFounded DEF OpToRel
<1>2. PICK x \in S : \A y \in S : ~(<<y, x>> \in R)
  <2> HIDE DEF R
  <2> QED BY <1>1, WFMin
<1>3. ASSUME NEW y \in S PROVE x <= y
  <2>1. x \in Nat /\ y \in Nat
    OBVIOUS
  <2>2. ~(y < x)
    BY <1>2, <2>1
  <2> QED BY <2>1, <2>2
<1> QED BY <1>3

(* What removing the element at position i leaves.                         *)
LEMMA RemoveNthProperties ==
  ASSUME NEW S, NEW list \in Seq(S), NEW i \in 1..Len(list)
  PROVE  /\ RemoveNth(list, i) \in Seq(S)
         /\ Len(RemoveNth(list, i)) = Len(list) - 1
         /\ \A j \in 1..(Len(list) - 1) :
              RemoveNth(list, i)[j] = IF j < i THEN list[j] ELSE list[j + 1]
<1> DEFINE a == SubSeq(list, 1, i - 1)
           b == SubSeq(list, i + 1, Len(list))
<1>1. Len(list) \in Nat /\ i \in Nat /\ i <= Len(list) /\ 1 <= i
  OBVIOUS
<1>2. a \in Seq(S) /\ Len(a) = i - 1 /\ \A j \in 1..(i - 1) : a[j] = list[j]
  BY <1>1
<1>3. /\ b \in Seq(S)
      /\ Len(b) = Len(list) - i
      /\ \A j \in 1..(Len(list) - i) : b[j] = list[j + i]
  BY <1>1
<1> HIDE DEF a, b
<1>4. a \o b \in Seq(S) /\ Len(a \o b) = Len(list) - 1
  <2>1. a \in Seq(S) /\ b \in Seq(S)
    BY <1>2, <1>3
  <2>2. a \o b \in Seq(S) /\ Len(a \o b) = Len(a) + Len(b)
    BY ONLY <2>1, ConcatProperties
  <2>3. (i - 1) + (Len(list) - i) = Len(list) - 1
    BY <1>1
  <2> QED BY <1>2, <1>3, <2>2, <2>3
<1>5. ASSUME NEW j \in 1..(Len(list) - 1)
      PROVE  (a \o b)[j] = IF j < i THEN list[j] ELSE list[j + 1]
  <2>1. CASE j < i
    <3>1. (a \o b)[j] = a[j]
      BY <1>1, <1>2, <1>3, <2>1
    <3> QED BY <1>1, <1>2, <2>1, <3>1
  <2>2. CASE ~(j < i)
    <3>1. (a \o b)[j] = b[j - (i - 1)]
      BY <1>1, <1>2, <1>3, <2>2
    <3>2. j - (i - 1) \in 1..(Len(list) - i) /\ (j - (i - 1)) + i = j + 1
      BY <1>1, <2>2
    <3> QED BY <1>3, <2>2, <3>1, <3>2
  <2> QED BY <2>1, <2>2
<1> QED BY <1>4, <1>5 DEF RemoveNth, a, b

LEMMA RemoveFirstProperties ==
  ASSUME NEW list, NEW found, found \subseteq Nat, found # {}
  PROVE  \E i \in found : /\ \A j \in found : i <= j
                          /\ RemoveFirst(list, found) = RemoveNth(list, i)
<1> DEFINE c == CHOOSE i \in found : \A j \in found : i <= j
<1>1. c \in found /\ \A j \in found : c <= j
  BY FirstOf
<1>2. RemoveFirst(list, found) = RemoveNth(list, c)
  BY DEF RemoveFirst
<1> QED BY <1>1, <1>2

LEMMA TaggedDomain ==
  ASSUME NEW S, NEW list \in Seq(S), NEW tag
  PROVE  Tagged(list, tag) = {i \in 1..Len(list) : list[i].tag = tag}
BY DEF Tagged

LEMMA SeqClosed ==
  ASSUME NEW S, NEW tag
  PROVE  Closed(Seq(S), tag)
<1> SUFFICES ASSUME NEW s \in Seq(S)
             PROVE  RemoveFirst(s, Tagged(s, tag)) \in Seq(S)
  BY DEF Closed
<1>1. CASE Tagged(s, tag) = {}
  BY <1>1 DEF RemoveFirst
<1>2. CASE Tagged(s, tag) # {}
  <2>1. Tagged(s, tag) \subseteq 1..Len(s) /\ Tagged(s, tag) \subseteq Nat
    BY TaggedDomain
  <2>2. PICK i \in Tagged(s, tag) :
          RemoveFirst(s, Tagged(s, tag)) = RemoveNth(s, i)
    BY <1>2, <2>1, RemoveFirstProperties
  <2>3. i \in 1..Len(s)
    BY <2>1
  <2> QED BY <2>2, <2>3, RemoveNthProperties
<1> QED BY <1>1, <1>2

(* ibus_remove_tag_from_queue does nothing when no packet has the tag.     *)
LEMMA RemoveTagAbsent ==
  ASSUME NEW list \in Seq(Packet), NEW tag, Tagged(list, tag) = {}
  PROVE  RemoveTag(list, tag) = list
<1>1. PICK f \in [Nat -> Seq(Packet)] : IsWalk(f, list, tag)
  BY SeqClosed, RemoveTagWalk
<1> DEFINE Same == {n \in Nat : f[n] = list}
<1>2. 0 \in Same
  BY <1>1 DEF IsWalk
<1>3. ASSUME NEW n \in Nat, n \in Same PROVE n + 1 \in Same
  <2>1. f[n + 1] = RemoveFirst(f[n], Tagged(f[n], tag))
    BY <1>1 DEF IsWalk
  <2>2. RemoveFirst(list, {}) = list
    BY DEF RemoveFirst
  <2>3. f[n + 1] = list
    BY <1>3, <2>1, <2>2
  <2> QED BY <2>3
<1>4. Len(list) \in Same
  <2> HIDE DEF Same
  <2>1. \A n \in Nat : n \in Same
    BY <1>2, <1>3, NatSetInduction
  <2>2. Len(list) \in Nat
    OBVIOUS
  <2> QED BY <2>1, <2>2
<1> QED BY <1>1, <1>4 DEF IsWalk

(* If one packet has the tag, that packet is what is removed.              *)
LEMMA RemoveTagUnique ==
  ASSUME NEW list \in Seq(Packet), NEW tag, NEW i \in 1..Len(list),
         list[i].tag = tag,
         \A j \in 1..Len(list) : list[j].tag = tag => j = i
  PROVE  RemoveTag(list, tag) = RemoveNth(list, i)
<1>1. PICK f \in [Nat -> Seq(Packet)] : IsWalk(f, list, tag)
  BY SeqClosed, RemoveTagWalk
<1> DEFINE rest == RemoveNth(list, i)
           Done == {n \in Nat : f[n + 1] = rest}
<1>2. Tagged(list, tag) = {i}
  <2>1. Tagged(list, tag) = {j \in 1..Len(list) : list[j].tag = tag}
    BY TaggedDomain
  <2> QED BY <2>1
<1>3. RemoveFirst(list, {i}) = rest
  <2>1. {i} # {} /\ {i} \subseteq Nat
    OBVIOUS
  <2> QED BY <2>1, RemoveFirstProperties
<1>4. /\ rest \in Seq(Packet)
      /\ Len(rest) = Len(list) - 1
      /\ \A j \in 1..(Len(list) - 1) :
           rest[j] = IF j < i THEN list[j] ELSE list[j + 1]
  BY RemoveNthProperties
<1>5. Tagged(rest, tag) = {}
  <2> HIDE DEF rest
  <2>0. Tagged(rest, tag) = {j \in 1..Len(rest) : rest[j].tag = tag}
    <3>1. rest \in Seq(Packet)
      BY <1>4
    <3> QED BY ONLY <3>1, TaggedDomain
  <2>1. SUFFICES ASSUME NEW j \in 1..Len(rest) PROVE rest[j].tag # tag
    BY <2>0
  <2>2. j \in 1..(Len(list) - 1) /\ Len(list) \in Nat /\ i \in Nat /\ j \in Nat
    BY <1>4
  <2>3. CASE j < i
    <3>1. rest[j] = IF j < i THEN list[j] ELSE list[j + 1]
      BY <1>4, <2>2
    <3>2. j \in 1..Len(list) /\ j # i
      BY <2>2, <2>3
    <3> QED BY <2>3, <3>1, <3>2
  <2>4. CASE ~(j < i)
    <3>1. rest[j] = list[j + 1] /\ j + 1 \in 1..Len(list) /\ j + 1 # i
      BY <1>4, <2>2, <2>4
    <3> QED BY <3>1
  <2> QED BY <2>3, <2>4
<1>6. 0 \in Done
  <2>1. f[0 + 1] = RemoveFirst(f[0], Tagged(f[0], tag)) /\ f[0] = list
    BY <1>1 DEF IsWalk
  <2> QED BY <1>2, <1>3, <2>1
<1>7. ASSUME NEW n \in Nat, n \in Done PROVE n + 1 \in Done
  <2>1. f[(n + 1) + 1] = RemoveFirst(f[n + 1], Tagged(f[n + 1], tag))
    BY <1>1 DEF IsWalk
  <2>2. RemoveFirst(rest, {}) = rest
    BY DEF RemoveFirst
  <2>3. f[n + 1] = rest
    BY <1>7
  <2>4. f[(n + 1) + 1] = rest
    <3> HIDE DEF rest
    <3> QED BY <1>5, <2>1, <2>2, <2>3
  <2> QED BY <2>4
<1>8. Len(list) - 1 \in Nat /\ (Len(list) - 1) + 1 = Len(list)
  OBVIOUS
<1>9. Len(list) - 1 \in Done
  <2> HIDE DEF Done
  <2> QED BY <1>6, <1>7, <1>8, NatSetInduction
<1> QED BY <1>1, <1>8, <1>9 DEF IsWalk

(* Whatever the list, when ibus_remove_tag_from_queue returns, no packet   *)
(* with the tag is left: the "goto start" repeats often enough.            *)
THEOREM RemoveTagRemovesAll ==
  ASSUME NEW list \in Seq(Packet), NEW tag
  PROVE  Tagged(RemoveTag(list, tag), tag) = {}
<1>1. PICK f \in [Nat -> Seq(Packet)] : IsWalk(f, list, tag)
  BY SeqClosed, RemoveTagWalk
<1> DEFINE Shrinks == {n \in Nat : \/ Tagged(f[n], tag) = {}
                                   \/ Len(f[n]) <= Len(list) - n}
<1>2. 0 \in Shrinks
  BY <1>1 DEF IsWalk
<1>3. ASSUME NEW n \in Nat, n \in Shrinks PROVE n + 1 \in Shrinks
  <2>1. f[n + 1] = RemoveFirst(f[n], Tagged(f[n], tag)) /\ f[n] \in Seq(Packet)
    BY <1>1 DEF IsWalk
  <2>2. CASE Tagged(f[n], tag) = {}
    BY <2>1, <2>2 DEF RemoveFirst
  <2>3. CASE Tagged(f[n], tag) # {}
    <3>1. Tagged(f[n], tag) \subseteq 1..Len(f[n])
      BY <2>1, TaggedDomain
    <3>2. Tagged(f[n], tag) \subseteq Nat
      BY <3>1
    <3>3. PICK i \in Tagged(f[n], tag) : f[n + 1] = RemoveNth(f[n], i)
      BY <2>1, <2>3, <3>2, RemoveFirstProperties
    <3>4. Len(f[n + 1]) = Len(f[n]) - 1
      BY <2>1, <3>1, <3>3, RemoveNthProperties
    <3>5. Len(f[n]) <= Len(list) - n
      BY <1>3, <2>3
    <3>6. Len(f[n]) \in Nat /\ Len(list) \in Nat
      BY <2>1
    <3>7. Len(f[n + 1]) <= Len(list) - (n + 1)
      BY <3>4, <3>5, <3>6
    <3> QED BY <3>7
  <2> QED BY <2>2, <2>3
<1>4. Len(list) \in Shrinks
  <2> HIDE DEF Shrinks
  <2>1. \A n \in Nat : n \in Shrinks
    BY <1>2, <1>3, NatSetInduction
  <2>2. Len(list) \in Nat
    OBVIOUS
  <2> QED BY <2>1, <2>2
<1>5. CASE Tagged(f[Len(list)], tag) = {}
  BY <1>1, <1>5 DEF IsWalk
<1>6. CASE Len(f[Len(list)]) <= Len(list) - Len(list)
  <2>1. f[Len(list)] \in Seq(Packet) /\ Len(f[Len(list)]) = 0
    BY <1>6
  <2>2. Tagged(f[Len(list)], tag) = {}
    BY <2>1, TaggedDomain
  <2> QED BY <1>1, <2>2 DEF IsWalk
<1> QED BY <1>4, <1>5, <1>6
-----------------------------------------------------------------------------
(* What every transmit list of the program is.  That a tag names one       *)
(* packet is kept only because every Replace removes the tag first; that   *)
(* at most two packets have been transmitted needs to know that an urgent  *)
(* packet is always the head, and that sync and urgent agree.              *)
WellFormed(list) ==
  /\ list \in Seq(Packet)
  /\ \A i, j \in 1..Len(list) :
       list[i].tag = list[j].tag /\ list[i].tag # NoTag => i = j
  /\ \A i \in 1..Len(list) : list[i].sync = Urgent(list[i].tag)
  /\ \A i \in 1..Len(list) : Urgent(list[i].tag) => i = 1
  /\ \A i \in 1..Len(list) :
       list[i].transmit_count > 0 => i = 1 \/ (i = 2 /\ Urgent(list[1].tag))

LEMMA TagFacts == NoTag \in Tag /\ TagCdc \in Tag /\ ~Urgent(NoTag)
BY DEF NoTag, TagCdc, Tag, Urgent

LEMMA NewPacketType ==
  ASSUME NEW m \in Msg, NEW sync \in BOOLEAN, NEW tag \in Tag
  PROVE  /\ NewPacket(m, sync, tag) \in Packet
         /\ NewPacket(m, sync, tag).msg = m
         /\ NewPacket(m, sync, tag).tag = tag
         /\ NewPacket(m, sync, tag).sync = sync
         /\ NewPacket(m, sync, tag).transmit_count = 0
BY RetryAssumption DEF RetryAssumption, NewPacket, Packet

LEMMA RemoveNthWellFormed ==
  ASSUME NEW list, WellFormed(list), NEW i \in 1..Len(list)
  PROVE  WellFormed(RemoveNth(list, i))
<1> DEFINE r == RemoveNth(list, i)
           old(j) == IF j < i THEN j ELSE j + 1
<1>0. list \in Seq(Packet) /\ Len(list) \in Nat
  BY DEF WellFormed
<1>1. /\ r \in Seq(Packet)
      /\ Len(r) = Len(list) - 1
      /\ \A j \in 1..(Len(list) - 1) : r[j] = IF j < i THEN list[j] ELSE list[j + 1]
  BY <1>0, RemoveNthProperties
<1> HIDE DEF r
<1>2. ASSUME NEW j \in 1..Len(r)
      PROVE  /\ old(j) \in 1..Len(list)
             /\ r[j] = list[old(j)]
             /\ old(j) = 1 => j = 1
             /\ old(j) = 2 => j = 1 \/ (j = 2 /\ old(1) = 1)
  <2>1. j \in 1..(Len(list) - 1)
    BY <1>1
  <2>2. r[j] = IF j < i THEN list[j] ELSE list[j + 1]
    BY <1>1, <2>1
  <2>3. CASE j < i
    BY <1>0, <2>1, <2>2, <2>3
  <2>4. CASE ~(j < i)
    BY <1>0, <2>1, <2>2, <2>4
  <2> QED BY <2>3, <2>4
<1>3. ASSUME NEW j \in 1..Len(r), NEW k \in 1..Len(r), old(j) = old(k)
      PROVE  j = k
  BY <1>0, <1>1, <1>3
<1> HIDE DEF old
<1>4. \A j, k \in 1..Len(r) : r[j].tag = r[k].tag /\ r[j].tag # NoTag => j = k
  BY <1>2, <1>3 DEF WellFormed
<1>5. \A j \in 1..Len(r) : r[j].sync = Urgent(r[j].tag)
  BY <1>2 DEF WellFormed
<1>6. \A j \in 1..Len(r) : Urgent(r[j].tag) => j = 1
  BY <1>2 DEF WellFormed
<1>7. ASSUME NEW j \in 1..Len(r), r[j].transmit_count > 0
      PROVE  j = 1 \/ (j = 2 /\ Urgent(r[1].tag))
  <2>1. old(j) = 1 \/ (old(j) = 2 /\ Urgent(list[1].tag))
    BY <1>2, <1>7 DEF WellFormed
  <2>2. CASE j = 2 /\ old(1) = 1 /\ Urgent(list[1].tag)
    <3>1. 1 \in 1..Len(r)
      BY <1>1, <2>2
    <3> QED BY <1>2, <2>2, <3>1
  <2> QED BY <1>2, <2>1, <2>2
<1> QED BY <1>1, <1>4, <1>5, <1>6, <1>7 DEF WellFormed, r

(* A tag names at most one packet, so RemoveTag removes at most one.       *)
LEMMA RemoveTagCases ==
  ASSUME NEW list, WellFormed(list), NEW tag \in Tag \ {NoTag}
  PROVE  \/ /\ \A j \in 1..Len(list) : list[j].tag # tag
            /\ RemoveTag(list, tag) = list
         \/ \E i \in 1..Len(list) :
              /\ list[i].tag = tag
              /\ \A j \in 1..Len(list) : list[j].tag = tag => j = i
              /\ RemoveTag(list, tag) = RemoveNth(list, i)
<1>0. list \in Seq(Packet)
  BY DEF WellFormed
<1>1. CASE \A j \in 1..Len(list) : list[j].tag # tag
  <2>1. Tagged(list, tag) = {j \in 1..Len(list) : list[j].tag = tag}
    BY <1>0, TaggedDomain
  <2>2. Tagged(list, tag) = {}
    BY <1>1, <2>1
  <2> QED BY <1>0, <1>1, <2>2, RemoveTagAbsent
<1>2. CASE \E i \in 1..Len(list) : list[i].tag = tag
  <2>1. PICK i \in 1..Len(list) : list[i].tag = tag
    BY <1>2
  <2>2. \A j \in 1..Len(list) : list[j].tag = tag => j = i
    BY <2>1 DEF WellFormed
  <2>3. RemoveTag(list, tag) = RemoveNth(list, i)
    BY <1>0, <2>1, <2>2, RemoveTagUnique
  <2> QED BY <2>1, <2>2, <2>3
<1> QED BY <1>1, <1>2

LEMMA RemoveTagWellFormed ==
  ASSUME NEW list, WellFormed(list), NEW tag \in Tag \ {NoTag}
  PROVE  /\ WellFormed(RemoveTag(list, tag))
         /\ \A j \in 1..Len(RemoveTag(list, tag)) : RemoveTag(list, tag)[j].tag # tag
<1>0. list \in Seq(Packet)
  BY DEF WellFormed
<1>1. WellFormed(RemoveTag(list, tag))
  BY RemoveTagCases, RemoveNthWellFormed
<1>2. Tagged(RemoveTag(list, tag), tag) = {}
  BY <1>0, RemoveTagRemovesAll
<1>3. RemoveTag(list, tag) \in Seq(Packet)
  BY <1>1 DEF WellFormed
<1>4. Tagged(RemoveTag(list, tag), tag)
        = {j \in 1..Len(RemoveTag(list, tag)) : RemoveTag(list, tag)[j].tag = tag}
  BY <1>3, TaggedDomain
<1> QED BY <1>1, <1>2, <1>4

LEMMA AppendWellFormed ==
  ASSUME NEW list, WellFormed(list), NEW m \in Msg, NEW tag \in Tag,
         ~Urgent(tag),
         tag # NoTag => \A j \in 1..Len(list) : list[j].tag # tag
  PROVE  WellFormed(AddToQueue(list, m, FALSE, FALSE, tag))
<1> DEFINE p == NewPacket(m, FALSE, tag)
           r == Append(list, p)
<1>0. list \in Seq(Packet) /\ Len(list) \in Nat
  BY DEF WellFormed
<1>1. p \in Packet /\ p.tag = tag /\ p.sync = FALSE /\ p.transmit_count = 0
  BY RetryAssumption DEF RetryAssumption, NewPacket, Packet
<1> HIDE DEF p
<1>2. /\ r \in Seq(Packet)
      /\ Len(r) = Len(list) + 1
      /\ \A j \in 1..Len(list) : r[j] = list[j]
      /\ r[Len(list) + 1] = p
  BY <1>0, <1>1, AppendProperties
<1> HIDE DEF r
<1>3. ASSUME NEW j \in 1..Len(r)
      PROVE  (j \in 1..Len(list) /\ r[j] = list[j]) \/ (j = Len(list) + 1 /\ r[j] = p)
  BY <1>0, <1>2
<1>4. \A j, k \in 1..Len(r) : r[j].tag = r[k].tag /\ r[j].tag # NoTag => j = k
  BY <1>1, <1>3 DEF WellFormed
<1>b. p.sync = Urgent(p.tag)
  <2>1. Urgent(p.tag) = FALSE
    BY <1>1 DEF Urgent
  <2> QED BY <1>1, <2>1
<1>5. ASSUME NEW j \in 1..Len(r) PROVE r[j].sync = Urgent(r[j].tag)
  <2>1. CASE r[j] = p
    BY <1>b, <2>1
  <2>2. CASE j \in 1..Len(list) /\ r[j] = list[j]
    BY <2>2 DEF WellFormed
  <2> QED BY <1>3, <2>1, <2>2
<1>6. \A j \in 1..Len(r) : Urgent(r[j].tag) => j = 1
  BY <1>1, <1>3 DEF WellFormed
<1>7. ASSUME NEW j \in 1..Len(r), r[j].transmit_count > 0
      PROVE  j = 1 \/ (j = 2 /\ Urgent(r[1].tag))
  <2>1. j \in 1..Len(list) /\ r[j] = list[j]
    BY <1>1, <1>3, <1>7
  <2>2. 1 \in 1..Len(list) /\ r[1] = list[1]
    BY <1>0, <1>2, <2>1
  <2> QED BY <1>7, <2>1, <2>2 DEF WellFormed
<1> QED BY <1>2, <1>4, <1>5, <1>6, <1>7 DEF WellFormed, AddToQueue, r, p

LEMMA PrependWellFormed ==
  ASSUME NEW list, WellFormed(list), NEW m \in Msg, NEW tag \in Tag,
         Urgent(tag), \A j \in 1..Len(list) : list[j].tag # tag
  PROVE  WellFormed(AddToQueue(list, m, TRUE, TRUE, tag))
<1> DEFINE p == NewPacket(m, TRUE, tag)
           r == <<p>> \o list
<1>0. list \in Seq(Packet) /\ Len(list) \in Nat
  BY DEF WellFormed
<1>1. p \in Packet /\ p.tag = tag /\ p.sync = TRUE /\ p.transmit_count = 0
  BY NewPacketType
<1> HIDE DEF p
<1>2. /\ r \in Seq(Packet)
      /\ Len(r) = Len(list) + 1
      /\ r[1] = p
      /\ \A j \in 1..Len(list) : r[j + 1] = list[j]
  <2>1. <<p>> \in Seq(Packet) /\ Len(<<p>>) = 1
    BY <1>1
  <2>2. r \in Seq(Packet) /\ Len(r) = Len(list) + 1
    BY <1>0, <2>1, ConcatProperties
  <2>3. r[1] = p
    BY <1>0, <2>1
  <2>4. ASSUME NEW j \in 1..Len(list) PROVE r[j + 1] = list[j]
    BY <1>0, <2>1
  <2> QED BY <2>2, <2>3, <2>4
<1> HIDE DEF r
<1>3. ASSUME NEW j \in 1..Len(r)
      PROVE  (j = 1 /\ r[j] = p) \/ (j - 1 \in 1..Len(list) /\ r[j] = list[j - 1])
  <2>1. j = 1 \/ (j - 1 \in 1..Len(list) /\ (j - 1) + 1 = j)
    BY <1>0, <1>2
  <2> QED BY <1>2, <2>1
<1>a. \A j \in 1..Len(list) : ~Urgent(list[j].tag)
  BY DEF Urgent
<1>4. ASSUME NEW j \in 1..Len(r), NEW k \in 1..Len(r),
             r[j].tag = r[k].tag, r[j].tag # NoTag
      PROVE  j = k
  <2>1. CASE j = 1 /\ k = 1
    BY <2>1
  <2>2. CASE j - 1 \in 1..Len(list) /\ k = 1
    BY <1>1, <1>2, <1>3, <1>4, <2>2
  <2>3. CASE j = 1 /\ k - 1 \in 1..Len(list)
    BY <1>1, <1>2, <1>3, <1>4, <2>3
  <2>4. CASE j # 1 /\ k # 1
    <3>1. j - 1 \in 1..Len(list) /\ k - 1 \in 1..Len(list)
      BY <1>3, <2>4
    <3>2. r[j] = list[j - 1] /\ r[k] = list[k - 1]
      BY <1>3, <2>4
    <3>3. j - 1 = k - 1
      BY <1>4, <3>1, <3>2 DEF WellFormed
    <3> QED BY <3>3
  <2> QED BY <1>3, <2>1, <2>2, <2>3, <2>4
<1>b. p.sync = Urgent(p.tag)
  <2>1. Urgent(p.tag) = TRUE
    BY <1>1 DEF Urgent
  <2> QED BY <1>1, <2>1
<1>5. ASSUME NEW j \in 1..Len(r) PROVE r[j].sync = Urgent(r[j].tag)
  <2>1. CASE r[j] = p
    BY <1>b, <2>1
  <2>2. CASE j - 1 \in 1..Len(list) /\ r[j] = list[j - 1]
    BY <2>2 DEF WellFormed
  <2> QED BY <1>3, <2>1, <2>2
<1>6. \A j \in 1..Len(r) : Urgent(r[j].tag) => j = 1
  BY <1>a, <1>3
<1>7. ASSUME NEW j \in 1..Len(r), r[j].transmit_count > 0
      PROVE  j = 1 \/ (j = 2 /\ Urgent(r[1].tag))
  <2>1. j - 1 \in 1..Len(list) /\ r[j] = list[j - 1]
    BY <1>1, <1>3, <1>7
  <2>2. 1 \in 1..Len(list)
    BY <1>0, <2>1
  <2>3. j - 1 = 1
    BY <1>a, <1>7, <2>1, <2>2 DEF WellFormed
  <2> QED BY <1>1, <1>2, <2>3
<1> QED BY <1>2, <1>4, <1>5, <1>6, <1>7 DEF WellFormed, AddToQueue, r, p

LEMMA ReplaceWellFormed ==
  ASSUME NEW list, WellFormed(list), NEW m \in Msg, NEW tag \in Tag \ {NoTag}
  PROVE  WellFormed(Replace(list, m, tag))
<1> DEFINE rest == RemoveTag(list, tag)
<1>1. WellFormed(rest) /\ \A j \in 1..Len(rest) : rest[j].tag # tag
  BY RemoveTagWellFormed
<1> HIDE DEF rest
<1>2. CASE Urgent(tag)
  <2>1. Urgent(tag) = TRUE
    BY <1>2 DEF Urgent
  <2>2. WellFormed(AddToQueue(rest, m, TRUE, TRUE, tag))
    BY <1>1, <1>2, PrependWellFormed
  <2> QED BY <2>1, <2>2 DEF Replace, rest
<1>3. CASE ~Urgent(tag)
  <2>1. Urgent(tag) = FALSE
    BY <1>3 DEF Urgent
  <2>2. WellFormed(AddToQueue(rest, m, FALSE, FALSE, tag))
    BY <1>1, <1>3, AppendWellFormed
  <2> QED BY <2>1, <2>2 DEF Replace, rest
<1> QED BY <1>2, <1>3

LEMMA SendWellFormed ==
  ASSUME NEW list, WellFormed(list), NEW m \in Msg
  PROVE  WellFormed(Send(list, m))
BY AppendWellFormed, TagFacts DEF Send

LEMMA RemoveFromQueueCases ==
  ASSUME NEW list, WellFormed(list), NEW m
  PROVE  \/ /\ Matching(list, m) = {}
            /\ RemoveFromQueue(list, m) = list
         \/ \E i \in Matching(list, m) :
              /\ i \in 1..Len(list)
              /\ \A j \in Matching(list, m) : i <= j
              /\ RemoveFromQueue(list, m) = RemoveNth(list, i)
<1>1. CASE Matching(list, m) = {}
  BY <1>1 DEF RemoveFromQueue, RemoveFirst
<1>2. CASE Matching(list, m) # {}
  <2>1. Matching(list, m) \subseteq 1..Len(list) /\ Matching(list, m) \subseteq Nat
    BY DEF Matching, WellFormed
  <2> QED BY <1>2, <2>1, RemoveFirstProperties DEF RemoveFromQueue
<1> QED BY <1>1, <1>2

LEMMA RemoveFromQueueWellFormed ==
  ASSUME NEW list, WellFormed(list), NEW m
  PROVE  WellFormed(RemoveFromQueue(list, m))
BY RemoveFromQueueCases, RemoveNthWellFormed

LEMMA AgedProperties ==
  ASSUME NEW list, WellFormed(list)
  PROVE  /\ Aged(list) \in Seq(Packet)
         /\ Len(Aged(list)) = Len(list)
         /\ \A j \in 1..Len(list) :
              /\ Aged(list)[j].msg = list[j].msg
              /\ Aged(list)[j].sync = list[j].sync
              /\ Aged(list)[j].tag = list[j].tag
              /\ Aged(list)[j].transmit_count = list[j].transmit_count
<1> DEFINE older(p) == [p EXCEPT !.countdown = IF @ > 0 THEN @ - 1 ELSE @]
<1>0. list \in Seq(Packet) /\ Len(list) \in Nat
  BY DEF WellFormed
<1>1. ASSUME NEW p \in Packet
      PROVE  /\ older(p) \in Packet
             /\ older(p).msg = p.msg /\ older(p).sync = p.sync
             /\ older(p).tag = p.tag /\ older(p).transmit_count = p.transmit_count
  BY RetryAssumption DEF RetryAssumption, Packet
<1>2. Aged(list) = [j \in 1..Len(list) |-> older(list[j])]
  BY <1>0 DEF Aged
<1>3. \A j \in 1..Len(list) : list[j] \in Packet
  BY <1>0
<1> HIDE DEF older
<1>4. Aged(list) \in [1..Len(list) -> Packet]
  BY <1>1, <1>2, <1>3
<1>5. Aged(list) \in Seq(Packet) /\ Len(Aged(list)) = Len(list)
  BY <1>0, <1>4
<1> QED BY <1>1, <1>2, <1>3, <1>5

(* A list with the same tags, in which only the head's count may differ.   *)
LEMMA SameTagsWellFormed ==
  ASSUME NEW list, WellFormed(list), NEW r \in Seq(Packet),
         Len(r) = Len(list),
         \A j \in 1..Len(list) : r[j].sync = list[j].sync /\ r[j].tag = list[j].tag,
         \A j \in 2..Len(list) : r[j].transmit_count = list[j].transmit_count
  PROVE  WellFormed(r)
<1>1. \A j, k \in 1..Len(r) : r[j].tag = r[k].tag /\ r[j].tag # NoTag => j = k
  BY DEF WellFormed
<1>2. \A j \in 1..Len(r) : r[j].sync = Urgent(r[j].tag)
  BY DEF WellFormed
<1>3. \A j \in 1..Len(r) : Urgent(r[j].tag) => j = 1
  BY DEF WellFormed
<1>4. ASSUME NEW j \in 1..Len(r), r[j].transmit_count > 0
      PROVE  j = 1 \/ (j = 2 /\ Urgent(r[1].tag))
  <2>1. CASE j # 1
    <3>0. Len(list) \in Nat
      BY DEF WellFormed
    <3>1. j \in 2..Len(list) /\ 1 \in 1..Len(list)
      BY <2>1, <3>0
    <3>2. list[j].transmit_count > 0 /\ r[1].tag = list[1].tag
      BY <1>4, <3>1
    <3> QED BY <2>1, <3>1, <3>2 DEF WellFormed
  <2> QED BY <2>1
<1> QED BY <1>1, <1>2, <1>3, <1>4 DEF WellFormed
-----------------------------------------------------------------------------
(* One run of ibus_service_queue on list: nothing is written, or the head  *)
(* is, and then the port is given up or not.                               *)
ServiceOutcome(list, good, service) ==
  /\ WellFormed(service.list)
  /\ Len(service.list) = Len(list)
  /\ \A j \in 1..Len(list) :
       /\ service.list[j].msg = list[j].msg
       /\ service.list[j].tag = list[j].tag
  /\ \/ /\ service.written = <<>>
        /\ ~service.giveup
        /\ \A j \in 1..Len(list) :
             service.list[j].transmit_count = list[j].transmit_count
     \/ /\ list # <<>>
        /\ service.written = <<list[1].msg>>
        /\ service.giveup
        /\ ~good
        /\ list[1].transmit_count >= MaxAttempts
        /\ service.list[1].transmit_count = 1
     \/ /\ list # <<>>
        /\ service.written = <<list[1].msg>>
        /\ ~service.giveup
        /\ service.list[1].transmit_count = Saturated(list[1].transmit_count + 1)

LEMMA ServiceCases ==
  ASSUME NEW list, WellFormed(list), NEW good, NEW can_send, NEW idle
  PROVE  ServiceOutcome(list, good, ServiceQueue(list, good, can_send, idle))
<1> DEFINE aged     == Aged(list)
           due      == can_send /\ idle /\ list # <<>> /\ Ready(aged[1])
           attempts == Saturated(aged[1].transmit_count + 1)
           giveup   == due /\ GiveUp(attempts, good)
           sent     == Sent(aged[1], attempts, giveup)
           service  == ServiceQueue(list, good, can_send, idle)
           r        == service.list
<1>1. /\ r = IF due THEN <<sent>> \o Tail(aged) ELSE aged
      /\ service.written = IF due THEN <<aged[1].msg>> ELSE <<>>
      /\ service.giveup = giveup
  BY DEF ServiceQueue
<1>2. list \in Seq(Packet) /\ Len(list) \in Nat
  BY DEF WellFormed
<1>3. /\ aged \in Seq(Packet)
      /\ Len(aged) = Len(list)
      /\ \A j \in 1..Len(list) :
           /\ aged[j].msg = list[j].msg
           /\ aged[j].sync = list[j].sync
           /\ aged[j].tag = list[j].tag
           /\ aged[j].transmit_count = list[j].transmit_count
  BY AgedProperties
<1> HIDE DEF aged, service
<1>4. CASE ~due
  <2>1. r = aged /\ service.written = <<>> /\ ~service.giveup
    BY <1>1, <1>4
  <2>2. WellFormed(aged)
    <3>1. \A j \in 2..Len(list) : aged[j].transmit_count = list[j].transmit_count
      BY <1>2, <1>3
    <3> QED BY <1>3, <3>1, SameTagsWellFormed
  <2> QED BY <1>3, <2>1, <2>2 DEF service, ServiceOutcome
<1>5. CASE due
  <2>1. list # <<>> /\ 1 \in 1..Len(list) /\ aged[1] \in Packet /\ aged # <<>>
    BY <1>2, <1>3, <1>5
  <2>2. /\ aged[1].transmit_count \in 0..(MaxAttempts + 1)
        /\ aged[1].transmit_count = list[1].transmit_count
        /\ aged[1].msg = list[1].msg
    BY <1>3, <2>1 DEF Packet
  <2>3. attempts \in 1..(MaxAttempts + 1)
    BY <2>2, RetryAssumption DEF RetryAssumption, Saturated
  <2>4. attempts > MaxAttempts => list[1].transmit_count >= MaxAttempts
    BY <2>2, RetryAssumption DEF RetryAssumption, Saturated
  <2>5. /\ sent \in Packet
        /\ sent.msg = aged[1].msg /\ sent.sync = aged[1].sync
        /\ sent.tag = aged[1].tag
        /\ sent.transmit_count = IF giveup THEN 1 ELSE attempts
    <3> DEFINE tc == IF giveup THEN 1 ELSE attempts
               cd == IF giveup THEN 0 ELSE ResendTicks
    <3>1. tc \in 0..(MaxAttempts + 1) /\ cd \in 0..ResendTicks
      <4> HIDE DEF attempts, giveup
      <4> QED BY <2>3, RetryAssumption DEF RetryAssumption
    <3> HIDE DEF tc, cd
    <3> DEFINE p == [aged[1] EXCEPT !.transmit_count = tc, !.countdown = cd]
    <3>2. /\ p \in Packet
          /\ p.msg = aged[1].msg /\ p.sync = aged[1].sync /\ p.tag = aged[1].tag
          /\ p.transmit_count = tc
      BY <2>1, <3>1 DEF Packet
    <3> QED BY <3>2 DEF tc, cd, Sent
  <2>6. attempts = Saturated(list[1].transmit_count + 1)
    BY <2>2
  <2> HIDE DEF sent, attempts
  <2>7. /\ r \in Seq(Packet)
        /\ Len(r) = Len(list)
        /\ r[1] = sent
        /\ \A j \in 2..Len(list) : r[j] = aged[j]
    <3>1. r = <<sent>> \o Tail(aged)
      BY <1>1, <1>5
    <3>2. <<sent>> \in Seq(Packet) /\ Len(<<sent>>) = 1
      BY <2>5
    <3>3. /\ Tail(aged) \in Seq(Packet)
          /\ Len(Tail(aged)) = Len(list) - 1
          /\ \A j \in 1..(Len(list) - 1) : Tail(aged)[j] = aged[j + 1]
      BY <1>3, <2>1, HeadTailProperties
    <3> HIDE DEF r
    <3>4. r \in Seq(Packet) /\ Len(r) = Len(list) /\ r[1] = sent
      BY <1>2, <3>1, <3>2, <3>3, ConcatProperties
    <3>5. ASSUME NEW j \in 2..Len(list) PROVE r[j] = aged[j]
      <4>1. r[j] = Tail(aged)[j - 1]
        BY <1>2, <3>1, <3>2, <3>3
      <4>2. j - 1 \in 1..(Len(list) - 1) /\ (j - 1) + 1 = j
        BY <1>2
      <4> QED BY <3>3, <4>1, <4>2
    <3> QED BY <3>4, <3>5
  <2>8. \A j \in 1..Len(list) : j = 1 \/ j \in 2..Len(list)
    BY <1>2
  <2> HIDE DEF r
  <2>9. \A j \in 1..Len(list) :
          /\ r[j].msg = list[j].msg
          /\ r[j].sync = list[j].sync /\ r[j].tag = list[j].tag
    BY <1>3, <2>1, <2>5, <2>7, <2>8
  <2>10. \A j \in 2..Len(list) : r[j].transmit_count = list[j].transmit_count
    BY <1>2, <1>3, <2>7
  <2>11. WellFormed(r)
    BY <2>7, <2>9, <2>10, SameTagsWellFormed
  <2>12. service.written = <<list[1].msg>>
    BY <1>1, <1>5, <2>2
  <2>13. CASE giveup
    <3>1. service.giveup /\ ~good /\ list[1].transmit_count >= MaxAttempts
      BY <1>1, <2>4, <2>13 DEF GiveUp
    <3>2. r[1].transmit_count = 1
      BY <2>5, <2>7, <2>13
    <3> QED BY <2>1, <2>7, <2>9, <2>11, <2>12, <3>1, <3>2 DEF service, r, ServiceOutcome
  <2>14. CASE ~giveup
    <3>1. ~service.giveup
      BY <1>1, <2>14
    <3>2. r[1].transmit_count = Saturated(list[1].transmit_count + 1)
      BY <2>5, <2>6, <2>7, <2>14
    <3> QED BY <2>1, <2>7, <2>9, <2>11, <2>12, <3>1, <3>2 DEF service, r, ServiceOutcome
  <2> QED BY <2>13, <2>14
<1> QED BY <1>4, <1>5
-----------------------------------------------------------------------------
(* What a list holds, without the order: a message under a tag.            *)
Holds(list, m, tag) ==
  \E i \in 1..Len(list) : list[i].msg = m /\ list[i].tag = tag

LEMMA RemoveNthHolds ==
  ASSUME NEW list, WellFormed(list), NEW i \in 1..Len(list)
  PROVE  /\ \A m, tag : Holds(RemoveNth(list, i), m, tag) => Holds(list, m, tag)
         /\ \A m, tag : Holds(list, m, tag)
              => \/ Holds(RemoveNth(list, i), m, tag)
                 \/ m = list[i].msg /\ tag = list[i].tag
<1> DEFINE r == RemoveNth(list, i)
<1>1. list \in Seq(Packet) /\ Len(list) \in Nat
  BY DEF WellFormed
<1>2. /\ Len(r) = Len(list) - 1
      /\ \A j \in 1..(Len(list) - 1) : r[j] = IF j < i THEN list[j] ELSE list[j + 1]
  BY <1>1, RemoveNthProperties
<1> HIDE DEF r
<1>3. ASSUME NEW m, NEW tag, Holds(r, m, tag) PROVE Holds(list, m, tag)
  <2>1. PICK j \in 1..(Len(list) - 1) : r[j].msg = m /\ r[j].tag = tag
    BY <1>2, <1>3 DEF Holds
  <2>2. \E k \in 1..Len(list) : r[j] = list[k]
    <3>1. j \in 1..Len(list) /\ j + 1 \in 1..Len(list)
      BY <1>1
    <3> QED BY <1>2, <3>1
  <2> QED BY <2>1, <2>2 DEF Holds
<1>4. ASSUME NEW m, NEW tag, Holds(list, m, tag)
      PROVE  Holds(r, m, tag) \/ (m = list[i].msg /\ tag = list[i].tag)
  <2>1. PICK j \in 1..Len(list) : list[j].msg = m /\ list[j].tag = tag
    BY <1>4 DEF Holds
  <2>2. CASE j < i
    <3>1. j \in 1..(Len(list) - 1) /\ j \in 1..Len(r)
      BY <1>1, <1>2, <2>2
    <3>2. r[j] = list[j]
      BY <1>2, <2>2, <3>1
    <3> QED BY <2>1, <3>1, <3>2 DEF Holds
  <2>3. CASE j > i
    <3>1. j - 1 \in 1..(Len(list) - 1) /\ ~(j - 1 < i) /\ (j - 1) + 1 = j
          /\ j - 1 \in 1..Len(r)
      BY <1>1, <1>2, <2>3
    <3>2. r[j - 1] = list[j]
      BY <1>2, <3>1
    <3> QED BY <2>1, <3>1, <3>2 DEF Holds
  <2>4. j < i \/ j > i \/ j = i
    BY <1>1
  <2> QED BY <2>1, <2>2, <2>3, <2>4
<1> QED BY <1>3, <1>4 DEF r

LEMMA RemoveTagHolds ==
  ASSUME NEW list, WellFormed(list), NEW gone \in Tag \ {NoTag}
  PROVE  \A m, tag : Holds(RemoveTag(list, gone), m, tag)
                       <=> Holds(list, m, tag) /\ tag # gone
<1> DEFINE r == RemoveTag(list, gone)
<1>1. \A j \in 1..Len(r) : r[j].tag # gone
  BY RemoveTagWellFormed
<1>2. \A m, tag : Holds(r, m, tag) => tag # gone
  BY <1>1 DEF Holds
<1>3. CASE r = list
  BY <1>2, <1>3
<1>4. CASE \E i \in 1..Len(list) : list[i].tag = gone /\ r = RemoveNth(list, i)
  BY <1>2, <1>4, RemoveNthHolds
<1> QED BY <1>3, <1>4, RemoveTagCases

LEMMA AddToQueueHolds ==
  ASSUME NEW list, WellFormed(list), NEW n \in Msg, NEW to \in Tag,
         NEW sync \in BOOLEAN, NEW prepend \in BOOLEAN
  PROVE  \A m, tag : Holds(AddToQueue(list, n, sync, prepend, to), m, tag)
                       <=> Holds(list, m, tag) \/ (m = n /\ tag = to)
<1> DEFINE p == NewPacket(n, sync, to)
           r == AddToQueue(list, n, sync, prepend, to)
<1>1. p \in Packet /\ p.msg = n /\ p.tag = to
  BY NewPacketType
<1>2. list \in Seq(Packet) /\ Len(list) \in Nat
  BY DEF WellFormed
<1> HIDE DEF p
<1>3. CASE prepend
  <2>1. r = <<p>> \o list
    BY <1>3 DEF AddToQueue, p
  <2>2. /\ Len(r) = Len(list) + 1 /\ r[1] = p
        /\ \A j \in 1..Len(list) : r[j + 1] = list[j]
    BY <1>1, <1>2, <2>1
  <2> HIDE DEF r
  <2>3. ASSUME NEW m, NEW tag, Holds(r, m, tag)
        PROVE  Holds(list, m, tag) \/ (m = n /\ tag = to)
    <3>1. PICK j \in 1..Len(r) : r[j].msg = m /\ r[j].tag = tag
      BY <2>3 DEF Holds
    <3>2. CASE j = 1
      BY <1>1, <2>2, <3>1, <3>2
    <3>3. CASE j # 1
      <4>1. j - 1 \in 1..Len(list) /\ (j - 1) + 1 = j
        BY <1>2, <2>2, <3>3
      <4> QED BY <2>2, <3>1, <4>1 DEF Holds
    <3> QED BY <3>2, <3>3
  <2>4. ASSUME NEW m, NEW tag, Holds(list, m, tag) \/ (m = n /\ tag = to)
        PROVE  Holds(r, m, tag)
    <3>1. CASE m = n /\ tag = to
      <4>1. 1 \in 1..Len(r)
        BY <1>2, <2>2
      <4> QED BY <1>1, <2>2, <3>1, <4>1 DEF Holds
    <3>2. CASE Holds(list, m, tag)
      <4>1. PICK j \in 1..Len(list) : list[j].msg = m /\ list[j].tag = tag
        BY <3>2 DEF Holds
      <4>2. j + 1 \in 1..Len(r) /\ r[j + 1] = list[j]
        BY <1>2, <2>2
      <4> QED BY <4>1, <4>2 DEF Holds
    <3> QED BY <2>4, <3>1, <3>2
  <2> QED BY <2>3, <2>4 DEF r
<1>4. CASE ~prepend
  <2>1. r = Append(list, p)
    BY <1>4 DEF AddToQueue, p
  <2>2. /\ Len(r) = Len(list) + 1 /\ r[Len(list) + 1] = p
        /\ \A j \in 1..Len(list) : r[j] = list[j]
    BY <1>1, <1>2, <2>1, AppendProperties
  <2> HIDE DEF r
  <2>3. \A j \in 1..Len(r) : j \in 1..Len(list) \/ j = Len(list) + 1
    BY <1>2, <2>2
  <2>4. Len(list) + 1 \in 1..Len(r) /\ \A j \in 1..Len(list) : j \in 1..Len(r)
    BY <1>2, <2>2
  <2> QED BY <1>1, <2>2, <2>3, <2>4 DEF Holds, r
<1> QED BY <1>3, <1>4

LEMMA SendHolds ==
  ASSUME NEW list, WellFormed(list), NEW n \in Msg
  PROVE  \A m, tag : Holds(Send(list, n), m, tag)
                       <=> Holds(list, m, tag) \/ (m = n /\ tag = NoTag)
BY AddToQueueHolds, TagFacts DEF Send

LEMMA ReplaceHolds ==
  ASSUME NEW list, WellFormed(list), NEW n \in Msg, NEW to \in Tag \ {NoTag}
  PROVE  \A m, tag : Holds(Replace(list, n, to), m, tag)
                       <=> \/ Holds(list, m, tag) /\ tag # to
                           \/ m = n /\ tag = to
<1> DEFINE rest == RemoveTag(list, to)
<1>1. WellFormed(rest)
  BY RemoveTagWellFormed
<1>2. \A m, tag : Holds(rest, m, tag) <=> Holds(list, m, tag) /\ tag # to
  BY RemoveTagHolds
<1>3. Urgent(to) \in BOOLEAN
  BY DEF Urgent
<1> HIDE DEF rest
<1>4. \A m, tag : Holds(AddToQueue(rest, n, Urgent(to), Urgent(to), to), m, tag)
                    <=> Holds(rest, m, tag) \/ (m = n /\ tag = to)
  BY <1>1, <1>3, AddToQueueHolds
<1> QED BY <1>2, <1>4 DEF Replace, rest

(* A run of the queue changes nothing that the list holds.                 *)
LEMMA ServiceHolds ==
  ASSUME NEW list, NEW good, NEW service, ServiceOutcome(list, good, service)
  PROVE  \A m, tag : Holds(service.list, m, tag) <=> Holds(list, m, tag)
<1>1. /\ Len(service.list) = Len(list)
      /\ \A j \in 1..Len(list) : /\ service.list[j].msg = list[j].msg
                                 /\ service.list[j].tag = list[j].tag
  BY DEF ServiceOutcome
<1> QED BY <1>1 DEF Holds

(* A message that nothing was queued with leaves the list alone.           *)
LEMMA RemoveFromQueueForeign ==
  ASSUME NEW list, WellFormed(list), NEW m, \A tag : ~Holds(list, m, tag)
  PROVE  RemoveFromQueue(list, m) = list
<1>1. ASSUME NEW i \in Matching(list, m) PROVE FALSE
  <2>1. i \in 1..Len(list) /\ list[i].msg = m
    BY DEF Matching, WellFormed
  <2>2. Holds(list, m, list[i].tag)
    BY <2>1 DEF Holds
  <2> QED BY <2>2
<1> QED BY <1>1, RemoveFromQueueCases

LEMMA RemoveFromQueueHolds ==
  ASSUME NEW list, WellFormed(list), NEW n
  PROVE  /\ \A m, tag : Holds(RemoveFromQueue(list, n), m, tag) => Holds(list, m, tag)
         /\ \A m, tag : Holds(list, m, tag) /\ m # n
                          => Holds(RemoveFromQueue(list, n), m, tag)
<1>1. CASE RemoveFromQueue(list, n) = list
  BY <1>1
<1>2. CASE \E i \in Matching(list, n) : /\ i \in 1..Len(list)
                                        /\ RemoveFromQueue(list, n) = RemoveNth(list, i)
  BY <1>2, RemoveNthHolds DEF Matching
<1> QED BY <1>1, <1>2, RemoveFromQueueCases

(* The echo of the head takes the head, and with it the urgent packet, if  *)
(* there is one.                                                           *)
LEMMA RemoveHeadHolds ==
  ASSUME NEW list, WellFormed(list), list # <<>>
  PROVE  LET r == RemoveFromQueue(list, list[1].msg)
         IN  /\ \A m, tag : Holds(list, m, tag)
                  => Holds(r, m, tag) \/ (m = list[1].msg /\ tag = list[1].tag)
             /\ \A m, tag : Holds(r, m, tag) => ~Urgent(tag)
             /\ \A m, tag : Holds(list, m, tag) /\ Urgent(tag)
                  => m = list[1].msg /\ tag = list[1].tag
<1> DEFINE r == RemoveFromQueue(list, list[1].msg)
<1>1. list \in Seq(Packet) /\ Len(list) \in Nat /\ 1 \in 1..Len(list)
      /\ DOMAIN list = 1..Len(list)
  BY DEF WellFormed
<1>2. 1 \in Matching(list, list[1].msg)
  BY <1>1 DEF Matching
<1>3. r = RemoveNth(list, 1)
  <2>1. PICK i \in Matching(list, list[1].msg) :
          /\ i \in 1..Len(list)
          /\ \A j \in Matching(list, list[1].msg) : i <= j
          /\ r = RemoveNth(list, i)
    BY <1>2, RemoveFromQueueCases
  <2>2. i = 1
    BY <1>1, <1>2, <2>1
  <2> QED BY <2>1, <2>2
<1>4. /\ Len(r) = Len(list) - 1
      /\ \A j \in 1..(Len(list) - 1) : r[j] = IF j < 1 THEN list[j] ELSE list[j + 1]
  BY <1>1, <1>3, RemoveNthProperties
<1>5. \A m, tag : Holds(list, m, tag)
        => Holds(r, m, tag) \/ (m = list[1].msg /\ tag = list[1].tag)
  BY <1>1, <1>3, RemoveNthHolds
<1> HIDE DEF r
<1>6. ASSUME NEW m, NEW tag, Holds(r, m, tag), Urgent(tag) PROVE FALSE
  <2>1. PICK j \in 1..(Len(list) - 1) : r[j].tag = tag
    BY <1>4, <1>6 DEF Holds
  <2>2. r[j] = list[j + 1] /\ j + 1 \in 1..Len(list) /\ j + 1 # 1
    BY <1>1, <1>4
  <2> QED BY <1>6, <2>1, <2>2 DEF WellFormed
<1>7. \A m, tag : Holds(list, m, tag) /\ Urgent(tag)
        => m = list[1].msg /\ tag = list[1].tag
  BY DEF Holds, WellFormed
<1> QED BY <1>5, <1>6, <1>7 DEF r
=============================================================================
