--------------------------- MODULE MainLoopProofs ---------------------------
(***************************************************************************)
(* The main loop (module MainLoop), proved for every number of descriptors *)
(* the operating system may hand out.                                      *)
(*                                                                         *)
(* The lists are compared by what is registered in them, whatever the      *)
(* order and the flags of the walk; the timers are known one by one.       *)
(*                                                                         *)
(* The second part is about the server (module Server) whose callbacks the *)
(* loop calls.                                                             *)
(***************************************************************************)
EXTENDS MainLoop, Server, SequenceTheorems, FiniteSetTheorems, TLAPS

CallbackSet == {"ibus", "accept", "client"}

TimerRecord == [tag : TimerTag, callback : {"50ms", "1s", "interval"}, due : BOOLEAN]
InputRecord == [tag : InputTag, callback : CallbackSet, fd : Fd, checked : BOOLEAN]
Connection  == [tag : InputTag, socket : Fd]

(* The timers of ibus_init stay where they are; only the interval timer    *)
(* comes and goes, in front of them.                                       *)
TimersInv ==
  /\ timers \in Seq(TimerRecord)
  /\ Len(timers) \in {2, 3}
  /\ timers[Len(timers)].tag = 1 /\ timers[Len(timers)].callback = "50ms"
  /\ timers[Len(timers) - 1].tag = 2 /\ timers[Len(timers) - 1].callback = "1s"
  /\ Len(timers) = 3 =>
       timers[1].tag = cdc_info_tag /\ timers[1].callback = "interval"
  /\ cdc_info_tag \in 3..6 \cup {None}
  /\ cdc_info_tag = None => Len(timers) = 2

(* Where the walk is.  No timer behind the one whose callback runs is      *)
(* freed by the callback, for the interval timer is in front of them all.  *)
WalkInv ==
  /\ pc \in {"select", "inputs"} => next = None /\ te = None
  /\ pc = "timers" => te = None /\ next \in Tags(timers) \cup {None}
  /\ pc = "returned" =>
       \/ te = 1 /\ next = None /\ again
       \/ te = 2 /\ next = 1 /\ again
       \/ te = cdc_info_tag /\ next = 2 /\ Len(timers) = 3

TagsOnce(list) == \A i, j \in 1..Len(list) : list[i].tag = list[j].tag => i = j

Registered(list, tag, callback, fd) ==
  \E i \in 1..Len(list) :
    list[i].tag = tag /\ list[i].callback = callback /\ list[i].fd = fd

Unvisited(list, tag, callback, fd) ==
  \E i \in 1..Len(list) :
    /\ list[i].tag = tag /\ list[i].callback = callback /\ list[i].fd = fd
    /\ ~list[i].checked

Connected(list, tag, socket) ==
  \E i \in 1..Len(list) : list[i].tag = tag /\ list[i].socket = socket

InputsTyped ==
  /\ inputs \in Seq(InputRecord) /\ TagsOnce(inputs)
  /\ connect_list \in Seq(Connection) /\ TagsOnce(connect_list)
  /\ ifd \in Fd \cup {Closed} /\ ifd_tag \in InputTag \cup {None}
  /\ opened \subseteq Fd

(* Every open descriptor is registered once, a connection's and the serial *)
(* port's as what they are.                                                *)
InputsAgree ==
  /\ \A fd : fd \in opened <=> \E tag, callback : Registered(inputs, tag, callback, fd)
  /\ \A t1, t2, c1, c2, fd :
       Registered(inputs, t1, c1, fd) /\ Registered(inputs, t2, c2, fd) => t1 = t2
  /\ \A tag, fd : Connected(connect_list, tag, fd)
                    <=> Registered(inputs, tag, "client", fd)
  /\ \A tag, fd : Registered(inputs, tag, "ibus", fd)
                    <=> ifd # Closed /\ tag = ifd_tag /\ fd = ifd
  /\ ifd = Closed <=> ifd_tag = None

(* A descriptor that select reported and that is not ready any more was    *)
(* closed and given to a client.                                           *)
StaleIsClient ==
  pc = "inputs" =>
    \A tag, callback, fd :
      Unvisited(inputs, tag, callback, fd) /\ fd \in rd /\ fd \notin ready
        => callback = "client"

RestTyped ==
  /\ partial \in BOOLEAN /\ again \in BOOLEAN
  /\ ready \subseteq Fd /\ rd \subseteq Fd
  /\ pc \in {"select", "inputs", "timers", "returned"}
  /\ next \in TimerTag \cup {None} /\ te \in TimerTag \cup {None}

IInv ==
  /\ TimersInv
  /\ WalkInv
  /\ InputsTyped
  /\ InputsAgree
  /\ StaleIsClient
  /\ RestTyped
-----------------------------------------------------------------------------
(* The lists.                                                              *)

(* The least element of a set of natural numbers.                          *)
LEMMA LeastOf ==
  ASSUME NEW S, S \subseteq Nat, S # {}
  PROVE  (CHOOSE i \in S : \A j \in S : i <= j) \in S
<1> DEFINE R == {ss \in Nat \X Nat : ss[1] < ss[2]}
<1>1. IsWellFoundedOn(R, Nat)
  BY NatLessThanWellFounded DEF OpToRel
<1>2. PICK x \in S : \A y \in S : ~(<<y, x>> \in R)
  <2> HIDE DEF R
  <2> QED BY <1>1, WFMin
<1>3. ASSUME NEW y \in S PROVE x <= y
  <2>1. x \in Nat /\ y \in Nat
    OBVIOUS
  <2>2. ~(y < x)
    BY <1>2, <2>1
  <2> QED BY <2>1, <2>2
<1> QED BY <1>3

(* slist_remove: nothing, or one record, the others in their order.        *)
LEMMA WithoutCases ==
  ASSUME NEW S, NEW list \in Seq(S), NEW tag
  PROVE  \/ /\ \A i \in 1..Len(list) : list[i].tag # tag
            /\ Without(list, tag) = list
         \/ \E i \in 1..Len(list) :
              /\ list[i].tag = tag
              /\ Without(list, tag) \in Seq(S)
              /\ Len(Without(list, tag)) = Len(list) - 1
              /\ \A j \in 1..(Len(list) - 1) :
                   Without(list, tag)[j] = IF j < i THEN list[j] ELSE list[j + 1]
<1> DEFINE found == {i \in DOMAIN list : list[i].tag = tag}
<1>1. found = {i \in 1..Len(list) : list[i].tag = tag}
  OBVIOUS
<1>2. CASE found = {}
  BY <1>1, <1>2 DEF Without
<1>3. CASE found # {}
  <2> DEFINE i == CHOOSE i \in found : TRUE
             a == SubSeq(list, 1, i - 1)
             b == SubSeq(list, i + 1, Len(list))
  <2>1. i \in found
    BY <1>3
  <2>2. i \in 1..Len(list) /\ list[i].tag = tag
    BY <1>1, <2>1
  <2>3. Without(list, tag) = a \o b
    BY <1>3 DEF Without
  <2> HIDE DEF i
  <2>4. Len(list) \in Nat /\ i \in Nat /\ i <= Len(list) /\ 1 <= i
    BY <2>2
  <2>5. a \in Seq(S) /\ Len(a) = i - 1 /\ \A j \in 1..(i - 1) : a[j] = list[j]
    BY <2>4
  <2>6. /\ b \in Seq(S)
        /\ Len(b) = Len(list) - i
        /\ \A j \in 1..(Len(list) - i) : b[j] = list[j + i]
    BY <2>4
  <2> HIDE DEF a, b
  <2>7. a \o b \in Seq(S) /\ Len(a \o b) = Len(list) - 1
    <3>1. a \o b \in Seq(S) /\ Len(a \o b) = Len(a) + Len(b)
      BY <2>5, <2>6, ConcatProperties
    <3>2. (i - 1) + (Len(list) - i) = Len(list) - 1
      BY <2>4
    <3> QED BY <2>5, <2>6, <3>1, <3>2
  <2>8. ASSUME NEW j \in 1..(Len(list) - 1)
        PROVE  (a \o b)[j] = IF j < i THEN list[j] ELSE list[j + 1]
    <3>1. CASE j < i
      <4>1. (a \o b)[j] = a[j]
        BY <2>4, <2>5, <2>6, <3>1
      <4> QED BY <2>4, <2>5, <3>1, <4>1
    <3>2. CASE ~(j < i)
      <4>1. (a \o b)[j] = b[j - (i - 1)]
        BY <2>4, <2>5, <2>6, <3>2
      <4>2. j - (i - 1) \in 1..(Len(list) - i) /\ (j - (i - 1)) + i = j + 1
        BY <2>4, <3>2
      <4> QED BY <2>6, <3>2, <4>1, <4>2
    <3> QED BY <3>1, <3>2
  <2> QED BY <2>2, <2>3, <2>7, <2>8
<1> QED BY <1>2, <1>3

(* Of a list whose tags differ every other record stays, in other places.  *)
LEMMA WithoutRecords ==
  ASSUME NEW S, NEW list \in Seq(S), NEW tag, TagsOnce(list)
  PROVE  LET r == Without(list, tag)
         IN  /\ r \in Seq(S) /\ TagsOnce(r)
             /\ \A j \in 1..Len(r) :
                  r[j].tag # tag /\ \E k \in 1..Len(list) : r[j] = list[k]
             /\ \A k \in 1..Len(list) :
                  list[k].tag # tag => \E j \in 1..Len(r) : r[j] = list[k]
             /\ (\E k \in 1..Len(list) : list[k].tag = tag) => Len(r) = Len(list) - 1
<1> DEFINE r == Without(list, tag)
<1>0. Len(list) \in Nat
  OBVIOUS
<1>1. CASE (\A i \in 1..Len(list) : list[i].tag # tag) /\ r = list
  BY <1>1
<1>2. ASSUME NEW i \in 1..Len(list), list[i].tag = tag, r \in Seq(S),
             Len(r) = Len(list) - 1,
             \A j \in 1..(Len(list) - 1) : r[j] = IF j < i THEN list[j] ELSE list[j + 1]
      PROVE  /\ r \in Seq(S) /\ TagsOnce(r)
             /\ \A j \in 1..Len(r) :
                  r[j].tag # tag /\ \E k \in 1..Len(list) : r[j] = list[k]
             /\ \A k \in 1..Len(list) :
                  list[k].tag # tag => \E j \in 1..Len(r) : r[j] = list[k]
             /\ (\E k \in 1..Len(list) : list[k].tag = tag) => Len(r) = Len(list) - 1
  <2> DEFINE old(j) == IF j < i THEN j ELSE j + 1
  <2> HIDE DEF r
  <2>1. \A j \in 1..Len(r) : /\ old(j) \in 1..Len(list) /\ old(j) # i
                             /\ r[j] = list[old(j)]
    BY <1>0, <1>2
  <2>2. \A j, k \in 1..Len(r) : old(j) = old(k) => j = k
    BY <1>0, <1>2
  <2>3. ASSUME NEW k \in 1..Len(list), list[k].tag # tag
        PROVE  \E j \in 1..Len(r) : r[j] = list[k]
    <3>1. CASE k < i
      <4>1. k \in 1..Len(r) /\ r[k] = list[k]
        BY <1>0, <1>2, <3>1
      <4> QED BY <4>1
    <3>2. CASE k > i
      <4>1. k - 1 \in 1..Len(r) /\ (k - 1) + 1 = k /\ ~(k - 1 < i)
        BY <1>0, <1>2, <3>2
      <4>2. r[k - 1] = list[k]
        BY <1>2, <4>1
      <4> QED BY <4>1, <4>2
    <3>3. k # i /\ (k < i \/ k > i \/ k = i)
      BY <1>2, <2>3
    <3> QED BY <3>1, <3>2, <3>3
  <2> HIDE DEF old
  <2>4. TagsOnce(r)
    BY <2>1, <2>2 DEF TagsOnce
  <2>5. \A j \in 1..Len(r) : r[j].tag # tag
    BY <1>2, <2>1 DEF TagsOnce
  <2> QED BY <1>2, <2>1, <2>3, <2>4, <2>5
<1> QED BY <1>1, <1>2, WithoutCases

LEMMA WithoutInputs ==
  ASSUME NEW list \in Seq(InputRecord), NEW tag, TagsOnce(list)
  PROVE  LET r == Without(list, tag)
         IN  /\ r \in Seq(InputRecord) /\ TagsOnce(r)
             /\ \A t, c, fd : Registered(r, t, c, fd)
                                <=> Registered(list, t, c, fd) /\ t # tag
             /\ \A t, c, fd : Unvisited(r, t, c, fd) => Unvisited(list, t, c, fd)
<1> DEFINE r == Without(list, tag)
<1>1. /\ r \in Seq(InputRecord) /\ TagsOnce(r)
      /\ \A j \in 1..Len(r) :
           r[j].tag # tag /\ \E k \in 1..Len(list) : r[j] = list[k]
      /\ \A k \in 1..Len(list) :
           list[k].tag # tag => \E j \in 1..Len(r) : r[j] = list[k]
  BY WithoutRecords
<1> HIDE DEF r
<1>2. \A t, c, fd : Registered(r, t, c, fd) => Registered(list, t, c, fd) /\ t # tag
  BY <1>1 DEF Registered
<1>3. \A t, c, fd : Registered(list, t, c, fd) /\ t # tag => Registered(r, t, c, fd)
  BY <1>1 DEF Registered
<1>4. \A t, c, fd : Unvisited(r, t, c, fd) => Unvisited(list, t, c, fd)
  BY <1>1 DEF Unvisited
<1> QED BY <1>1, <1>2, <1>3, <1>4 DEF r

LEMMA WithoutConnections ==
  ASSUME NEW list \in Seq(Connection), NEW tag, TagsOnce(list)
  PROVE  LET r == Without(list, tag)
         IN  /\ r \in Seq(Connection) /\ TagsOnce(r)
             /\ \A t, fd : Connected(r, t, fd) <=> Connected(list, t, fd) /\ t # tag
             /\ (\E fd : Connected(list, tag, fd)) => r # list
<1> DEFINE r == Without(list, tag)
<1>1. /\ r \in Seq(Connection) /\ TagsOnce(r)
      /\ \A j \in 1..Len(r) :
           r[j].tag # tag /\ \E k \in 1..Len(list) : r[j] = list[k]
      /\ \A k \in 1..Len(list) :
           list[k].tag # tag => \E j \in 1..Len(r) : r[j] = list[k]
  BY WithoutRecords
<1> HIDE DEF r
<1>2. \A t, fd : Connected(r, t, fd) => Connected(list, t, fd) /\ t # tag
  BY <1>1 DEF Connected
<1>3. \A t, fd : Connected(list, t, fd) /\ t # tag => Connected(r, t, fd)
  BY <1>1 DEF Connected
<1> QED BY <1>1, <1>2, <1>3 DEF r

(* A record put in front, its tag being new.                               *)
Shifted(r, p, list) ==
  /\ Len(r) = Len(list) + 1
  /\ r[1] = p
  /\ \A j \in 1..Len(list) : r[j + 1] = list[j]

LEMMA PrependRecord ==
  ASSUME NEW S, NEW list \in Seq(S), NEW p \in S
  PROVE  <<p>> \o list \in Seq(S) /\ Shifted(<<p>> \o list, p, list)
<1>1. <<p>> \in Seq(S) /\ Len(<<p>>) = 1 /\ <<p>>[1] = p /\ Len(list) \in Nat
  OBVIOUS
<1>2. <<p>> \o list \in Seq(S) /\ Len(<<p>> \o list) = Len(list) + 1
  BY <1>1, ConcatProperties
<1>3. (<<p>> \o list)[1] = p
  BY <1>1
<1>4. \A j \in 1..Len(list) : (<<p>> \o list)[j + 1] = list[j]
  BY <1>1
<1> QED BY <1>2, <1>3, <1>4 DEF Shifted

Prepended(r, p, list) ==
  /\ TagsOnce(r) /\ r # list
  /\ \E j \in 1..Len(r) : r[j] = p
  /\ \A k \in 1..Len(list) : \E j \in 1..Len(r) : r[j] = list[k]
  /\ \A j \in 1..Len(r) : r[j] = p \/ \E k \in 1..Len(list) : r[j] = list[k]

LEMMA PrependRecords ==
  ASSUME NEW S, NEW list \in Seq(S), NEW p \in S, TagsOnce(list),
         \A i \in 1..Len(list) : list[i].tag # p.tag,
         NEW r, r = <<p>> \o list
  PROVE  r \in Seq(S) /\ Prepended(r, p, list)
<1>1. /\ r \in Seq(S) /\ Len(r) = Len(list) + 1 /\ r[1] = p /\ Len(list) \in Nat
      /\ \A j \in 1..Len(list) : r[j + 1] = list[j]
  BY PrependRecord DEF Shifted
<1>2. ASSUME NEW j \in 1..Len(r), j # 1
      PROVE  j - 1 \in 1..Len(list) /\ r[j] = list[j - 1]
  <2>1. j - 1 \in 1..Len(list) /\ (j - 1) + 1 = j
    BY <1>1, <1>2
  <2> QED BY <1>1, <2>1
<1>3. ASSUME NEW i \in 1..Len(r), NEW j \in 1..Len(r), r[i].tag = r[j].tag
      PROVE  i = j
  <2>1. CASE i = 1 \/ j = 1
    BY <1>1, <1>2, <1>3, <2>1
  <2>2. CASE i # 1 /\ j # 1
    <3>0. /\ i - 1 \in 1..Len(list) /\ j - 1 \in 1..Len(list)
          /\ list[i - 1].tag = list[j - 1].tag
      BY <1>2, <1>3, <2>2
    <3>1. i - 1 = j - 1
      BY <3>0 DEF TagsOnce
    <3>2. i \in Int /\ j \in Int
      OBVIOUS
    <3> QED BY <3>1, <3>2
  <2> QED BY <2>1, <2>2
<1>4. TagsOnce(r)
  BY <1>3 DEF TagsOnce
<1>5. 1 \in 1..Len(r) /\ \A k \in 1..Len(list) : k + 1 \in 1..Len(r)
  BY <1>1
<1>6. \A j \in 1..Len(r) : r[j] = p \/ \E k \in 1..Len(list) : r[j] = list[k]
  BY <1>1, <1>2
<1>7. r # list
  BY <1>1
<1>8. \A k \in 1..Len(list) : \E j \in 1..Len(r) : r[j] = list[k]
  BY <1>1, <1>5
<1>9. \E j \in 1..Len(r) : r[j] = p
  BY <1>1, <1>5
<1> QED BY <1>1, <1>4, <1>6, <1>7, <1>8, <1>9 DEF Prepended

LEMMA PrependInput ==
  ASSUME NEW list \in Seq(InputRecord), TagsOnce(list),
         NEW tag \in InputTag, NEW callback \in CallbackSet, NEW fd \in Fd,
         \A c, f : ~Registered(list, tag, c, f)
  PROVE  LET r == <<Input(tag, callback, fd)>> \o list
         IN  /\ r \in Seq(InputRecord) /\ TagsOnce(r)
             /\ \A t, c, f : Registered(r, t, c, f)
                  <=> Registered(list, t, c, f) \/ (t = tag /\ c = callback /\ f = fd)
             /\ \A t, c, f : Unvisited(r, t, c, f)
                  => Unvisited(list, t, c, f) \/ (t = tag /\ c = callback /\ f = fd)
<1> DEFINE p == Input(tag, callback, fd)
           r == <<p>> \o list
<1>1. p \in InputRecord /\ p.tag = tag /\ p.callback = callback /\ p.fd = fd
  BY DEF Input, InputRecord
<1> HIDE DEF p
<1>2. /\ r \in Seq(InputRecord) /\ TagsOnce(r)
      /\ \E j \in 1..Len(r) : r[j] = p
      /\ \A k \in 1..Len(list) : \E j \in 1..Len(r) : r[j] = list[k]
      /\ \A j \in 1..Len(r) : r[j] = p \/ \E k \in 1..Len(list) : r[j] = list[k]
  <2>1. \A i \in 1..Len(list) : list[i].tag # p.tag
    BY <1>1 DEF Registered
  <2>2. r = <<p>> \o list
    OBVIOUS
  <2> HIDE DEF r
  <2>3. r \in Seq(InputRecord) /\ Prepended(r, p, list)
    BY <1>1, <2>1, <2>2, PrependRecords
  <2> QED BY <2>3 DEF Prepended
<1> HIDE DEF r
<1>3. \A t, c, f : Registered(r, t, c, f)
                     => Registered(list, t, c, f) \/ (t = tag /\ c = callback /\ f = fd)
  BY <1>1, <1>2 DEF Registered
<1>4. \A t, c, f : Registered(list, t, c, f) => Registered(r, t, c, f)
  BY <1>2 DEF Registered
<1>5. Registered(r, tag, callback, fd)
  BY <1>1, <1>2 DEF Registered
<1>6. \A t, c, f : Unvisited(r, t, c, f)
                     => Unvisited(list, t, c, f) \/ (t = tag /\ c = callback /\ f = fd)
  BY <1>1, <1>2 DEF Unvisited
<1> QED BY <1>2, <1>3, <1>4, <1>5, <1>6 DEF r, p

LEMMA PrependConnection ==
  ASSUME NEW list \in Seq(Connection), TagsOnce(list),
         NEW tag \in InputTag, NEW fd \in Fd,
         \A f : ~Connected(list, tag, f)
  PROVE  LET r == <<[tag |-> tag, socket |-> fd]>> \o list
         IN  /\ r \in Seq(Connection) /\ TagsOnce(r) /\ r # list
             /\ r[1].tag = tag /\ r[1].socket = fd
             /\ \A t, f : Connected(r, t, f)
                            <=> Connected(list, t, f) \/ (t = tag /\ f = fd)
<1> DEFINE p == [tag |-> tag, socket |-> fd]
           r == <<p>> \o list
<1>1. p \in Connection /\ p.tag = tag /\ p.socket = fd
  BY DEF Connection
<1> HIDE DEF p
<1>2. /\ r \in Seq(Connection) /\ TagsOnce(r) /\ r # list
      /\ \E j \in 1..Len(r) : r[j] = p
      /\ \A k \in 1..Len(list) : \E j \in 1..Len(r) : r[j] = list[k]
      /\ \A j \in 1..Len(r) : r[j] = p \/ \E k \in 1..Len(list) : r[j] = list[k]
  <2>1. \A i \in 1..Len(list) : list[i].tag # p.tag
    BY <1>1 DEF Connected
  <2>2. r = <<p>> \o list
    OBVIOUS
  <2> HIDE DEF r
  <2>3. r \in Seq(Connection) /\ Prepended(r, p, list)
    BY <1>1, <2>1, <2>2, PrependRecords
  <2> QED BY <2>3 DEF Prepended
<1>3. r[1] = p
  <2>1. Shifted(r, p, list)
    BY <1>1, PrependRecord
  <2> QED BY <2>1 DEF Shifted
<1> HIDE DEF r
<1>4. \A t, f : Connected(r, t, f) => Connected(list, t, f) \/ (t = tag /\ f = fd)
  BY <1>1, <1>2 DEF Connected
<1>5. \A t, f : Connected(list, t, f) => Connected(r, t, f)
  BY <1>2 DEF Connected
<1>6. Connected(r, tag, fd)
  BY <1>1, <1>2 DEF Connected
<1> QED BY <1>1, <1>2, <1>3, <1>4, <1>5, <1>6 DEF r, p

(* The flags of the walk are no part of what is registered.                *)
LEMMA UncheckedInputs ==
  ASSUME NEW list \in Seq(InputRecord), TagsOnce(list)
  PROVE  LET r == Unchecked(list)
         IN  /\ r \in Seq(InputRecord) /\ TagsOnce(r)
             /\ \A t, c, fd : Registered(r, t, c, fd) <=> Registered(list, t, c, fd)
             /\ \A t, c, fd : Unvisited(r, t, c, fd) => Registered(list, t, c, fd)
<1> DEFINE r == Unchecked(list)
<1>1. /\ Len(r) = Len(list) /\ r \in Seq(InputRecord)
      /\ \A i \in 1..Len(list) : /\ r[i].tag = list[i].tag
                                 /\ r[i].callback = list[i].callback
                                 /\ r[i].fd = list[i].fd
  <2>1. Len(list) \in Nat /\ DOMAIN list = 1..Len(list)
        /\ \A i \in 1..Len(list) : list[i] \in InputRecord
    OBVIOUS
  <2>2. r = [i \in 1..Len(list) |-> [list[i] EXCEPT !.checked = FALSE]]
    BY <2>1 DEF Unchecked
  <2>3. ASSUME NEW p \in InputRecord
        PROVE  /\ [p EXCEPT !.checked = FALSE] \in InputRecord
               /\ [p EXCEPT !.checked = FALSE].tag = p.tag
               /\ [p EXCEPT !.checked = FALSE].callback = p.callback
               /\ [p EXCEPT !.checked = FALSE].fd = p.fd
    BY DEF InputRecord
  <2> HIDE DEF r
  <2>4. \A i \in 1..Len(list) : r[i] = [list[i] EXCEPT !.checked = FALSE]
    BY <2>2
  <2>5. \A i \in 1..Len(list) : r[i] \in InputRecord
    BY <2>1, <2>3, <2>4
  <2>6. r \in Seq(InputRecord) /\ Len(r) = Len(list)
    BY <2>1, <2>2, <2>5
  <2> QED BY <2>1, <2>3, <2>4, <2>6
<1> HIDE DEF r
<1>2. TagsOnce(r)
  BY <1>1 DEF TagsOnce
<1>3. \A t, c, fd : Registered(r, t, c, fd) <=> Registered(list, t, c, fd)
  BY <1>1 DEF Registered
<1>4. \A t, c, fd : Unvisited(r, t, c, fd) => Registered(list, t, c, fd)
  BY <1>1 DEF Unvisited, Registered
<1> QED BY <1>1, <1>2, <1>3, <1>4 DEF r

LEMMA MarkedInputs ==
  ASSUME NEW list \in Seq(InputRecord), TagsOnce(list), NEW k \in 1..Len(list)
  PROVE  LET r == Marked(list, k)
         IN  /\ r \in Seq(InputRecord) /\ TagsOnce(r) /\ Len(r) = Len(list)
             /\ \A i \in 1..Len(list) : r[i].tag = list[i].tag
             /\ \A t, c, fd : Registered(r, t, c, fd) <=> Registered(list, t, c, fd)
             /\ \A t, c, fd : Unvisited(r, t, c, fd)
                                => Unvisited(list, t, c, fd) /\ t # list[k].tag
<1> DEFINE r == Marked(list, k)
           q == [list[k] EXCEPT !.checked = TRUE]
<1>1. Len(list) \in Nat /\ DOMAIN list = 1..Len(list) /\ list[k] \in InputRecord
  OBVIOUS
<1>2. q \in InputRecord /\ q.tag = list[k].tag /\ q.callback = list[k].callback
      /\ q.fd = list[k].fd /\ q.checked = TRUE
  BY <1>1 DEF InputRecord
<1> HIDE DEF q
<1>3. r = [list EXCEPT ![k] = q]
  BY DEF Marked, q
<1> HIDE DEF r
<1>4. r \in Seq(InputRecord) /\ Len(r) = Len(list) /\ r[k] = q
      /\ \A i \in 1..Len(list) : i # k => r[i] = list[i]
  BY <1>1, <1>2, <1>3
<1>5. \A i \in 1..Len(list) : /\ r[i].tag = list[i].tag
                              /\ r[i].callback = list[i].callback
                              /\ r[i].fd = list[i].fd
  BY <1>2, <1>4
<1>6. TagsOnce(r)
  BY <1>4, <1>5 DEF TagsOnce
<1>7. \A t, c, fd : Registered(r, t, c, fd) <=> Registered(list, t, c, fd)
  BY <1>4, <1>5 DEF Registered
<1>8. ASSUME NEW t, NEW c, NEW fd, Unvisited(r, t, c, fd)
      PROVE  Unvisited(list, t, c, fd) /\ t # list[k].tag
  <2>1. PICK i \in 1..Len(list) :
          r[i].tag = t /\ r[i].callback = c /\ r[i].fd = fd /\ ~r[i].checked
    BY <1>4, <1>8 DEF Unvisited
  <2>2. i # k
    BY <1>2, <1>4, <2>1
  <2>3. r[i] = list[i]
    BY <1>4, <2>2
  <2>4. Unvisited(list, t, c, fd)
    BY <2>1, <2>3 DEF Unvisited
  <2>5. list[i].tag # list[k].tag
    BY <2>2 DEF TagsOnce
  <2> QED BY <2>1, <2>3, <2>4, <2>5
<1> QED BY <1>4, <1>5, <1>6, <1>7, <1>8 DEF r
-----------------------------------------------------------------------------
(* New tags and descriptors.                                               *)

(* Three of the four tags that the interval timer may have can be taken.   *)
LEMMA NewTimerTagIsNew ==
  ASSUME TimersInv
  PROVE  /\ NewTimerTag \in 3..6
         /\ NewTimerTag \notin Tags(timers)
         /\ NewTimerTag \notin {cdc_info_tag, next, te}
<1> DEFINE n == Len(timers)
           used == Tags(timers) \cup {cdc_info_tag, next, te}
<1>1. /\ n \in {2, 3} /\ DOMAIN timers = 1..n
      /\ timers[n].tag = 1 /\ timers[n - 1].tag = 2
      /\ n = 3 => timers[1].tag = cdc_info_tag
  BY DEF TimersInv
<1> HIDE DEF n
<1>2. Tags(timers) = {timers[i].tag : i \in 1..n}
  BY <1>1 DEF Tags
<1>3. \A i \in 1..n : timers[i].tag \in {1, 2, cdc_info_tag}
  <2>1. CASE n = 2
    <3>1. \A i \in 1..n : i = n \/ i = n - 1
      BY <2>1
    <3> QED BY <1>1, <3>1
  <2>2. CASE n = 3
    <3>1. \A i \in 1..n : i = n \/ i = n - 1 \/ i = 1
      BY <2>2
    <3> QED BY <1>1, <2>2, <3>1
  <2> QED BY <1>1, <2>1, <2>2
<1>4. {1, 2} \subseteq Tags(timers)
  <2>1. n \in 1..n /\ n - 1 \in 1..n
    BY <1>1
  <2> QED BY <1>1, <1>2, <2>1
<1>5. used \subseteq {1, 2, cdc_info_tag, next, te}
  BY <1>2, <1>3
<1> HIDE DEF used
<1>6. \E t \in TimerTag : t \notin used
  <2>1. \E t \in {3, 4, 5, 6} : t \notin {1, 2, cdc_info_tag, next, te}
    OBVIOUS
  <2> QED BY <1>5, <2>1 DEF TimerTag
<1>7. NewTimerTag \in TimerTag /\ NewTimerTag \notin used
  BY <1>6 DEF NewTimerTag, used
<1>8. NewTimerTag # 1 /\ NewTimerTag # 2
  BY <1>4, <1>7 DEF used
<1>9. NewTimerTag \in 3..6
  BY <1>7, <1>8 DEF TimerTag
<1> QED BY <1>7, <1>9 DEF used

(* There are two tags more than descriptors, and every record has one of   *)
(* its own.                                                                *)
LEMMA NewInputTagIsNew ==
  ASSUME InputsTyped, InputsAgree
  PROVE  /\ NewInputTag \in InputTag
         /\ \A c, f : ~Registered(inputs, NewInputTag, c, f)
         /\ NewInputTag # ifd_tag
<1>1. \A i \in 1..Len(inputs) : inputs[i] \in InputRecord
  BY DEF InputsTyped
<1>2. Tags(inputs) = {inputs[i].tag : i \in 1..Len(inputs)}
  BY DEF Tags, InputsTyped
<1>3. ifd_tag \in Tags(inputs) \cup {None}
  <2>1. CASE ifd_tag # None
    <3>1. Registered(inputs, ifd_tag, "ibus", ifd)
      BY <2>1 DEF InputsAgree
    <3> QED BY <1>2, <3>1 DEF Registered
  <2> QED BY <2>1
<1>4. None \notin InputTag
  BY MaxFdAssumption DEF MaxFdAssumption, None, InputTag
<1>5. ASSUME \A t \in InputTag : t \in Tags(inputs) \cup {ifd_tag} PROVE FALSE
  <2>1. \A t \in InputTag : \E i \in 1..Len(inputs) : inputs[i].tag = t
    BY <1>2, <1>3, <1>4, <1>5
  <2> DEFINE at == [t \in InputTag |-> CHOOSE i \in 1..Len(inputs) : inputs[i].tag = t]
             f  == [t \in InputTag |-> inputs[at[t]].fd]
  <2>2. \A t \in InputTag : at[t] \in 1..Len(inputs) /\ inputs[at[t]].tag = t
    BY <2>1
  <2> HIDE DEF at
  <2>3. f \in [InputTag -> Fd]
    BY <1>1, <2>2 DEF InputRecord
  <2>4. /\ IsFiniteSet(InputTag) /\ Cardinality(InputTag) = MaxFd + 2
        /\ IsFiniteSet(Fd) /\ Cardinality(Fd) = MaxFd
    BY FS_Interval, MaxFdAssumption DEF MaxFdAssumption, InputTag, Fd
  <2>5. Cardinality(Fd) < Cardinality(InputTag)
    BY <2>4, MaxFdAssumption DEF MaxFdAssumption
  <2>6. PICK t, u \in InputTag : t # u /\ f[t] = f[u]
    <3> HIDE DEF f
    <3> QED BY <2>3, <2>4, <2>5, FS_PigeonHole
  <2>7. inputs[at[t]].fd = inputs[at[u]].fd
    BY <2>6
  <2>8. /\ Registered(inputs, t, inputs[at[t]].callback, inputs[at[t]].fd)
        /\ Registered(inputs, u, inputs[at[u]].callback, inputs[at[t]].fd)
    BY <2>2, <2>7 DEF Registered
  <2> QED BY <2>6, <2>8 DEF InputsAgree
<1>6. NewInputTag \in InputTag /\ NewInputTag \notin Tags(inputs) \cup {ifd_tag}
  BY <1>5 DEF NewInputTag
<1> QED BY <1>2, <1>6 DEF Registered

LEMMA LowestIsFree ==
  ASSUME NEW used \in SUBSET Fd, used # Fd
  PROVE  Lowest(Fd \ used) \in Fd /\ Lowest(Fd \ used) \notin used
<1>1. Fd \ used \subseteq Nat /\ Fd \ used # {}
  <2>1. Fd \subseteq Nat
    BY MaxFdAssumption DEF MaxFdAssumption, Fd
  <2> QED BY <2>1
<1>2. Lowest(Fd \ used) \in Fd \ used
  BY <1>1, LeastOf DEF Lowest
<1> QED BY <1>2

LEMMA RegisteredOnce ==
  ASSUME NEW list \in Seq(InputRecord), TagsOnce(list),
         NEW t, NEW c1, NEW f1, Registered(list, t, c1, f1)
  PROVE  /\ t \in InputTag /\ c1 \in CallbackSet /\ f1 \in Fd
         /\ t # None /\ f1 # Closed
         /\ \A c2, f2 : Registered(list, t, c2, f2) => c2 = c1 /\ f2 = f1
<1>1. \A i \in 1..Len(list) : list[i] \in InputRecord
  OBVIOUS
<1>2. t \in InputTag /\ c1 \in CallbackSet /\ f1 \in Fd
  BY <1>1 DEF Registered, InputRecord
<1>3. t # None /\ f1 # Closed
  BY <1>2, MaxFdAssumption DEF MaxFdAssumption, InputTag, Fd, None, Closed
<1>4. \A c2, f2 : Registered(list, t, c2, f2) => c2 = c1 /\ f2 = f1
  BY DEF Registered, TagsOnce
<1> QED BY <1>2, <1>3, <1>4
-----------------------------------------------------------------------------
(* The timers.                                                             *)

LEMMA TimersOnce ==
  ASSUME TimersInv
  PROVE  /\ TagsOnce(timers)
         /\ DOMAIN timers = 1..Len(timers)
         /\ Tags(timers) = {timers[i].tag : i \in 1..Len(timers)}
         /\ {1, 2} \subseteq Tags(timers)
<1> DEFINE n == Len(timers)
<1>1. /\ n \in {2, 3} /\ DOMAIN timers = 1..n
      /\ timers[n].tag = 1 /\ timers[n - 1].tag = 2
      /\ n = 3 => timers[1].tag = cdc_info_tag
      /\ n = 3 => cdc_info_tag \in 3..6
  BY DEF TimersInv
<1> HIDE DEF n
<1>2. n \in 1..n /\ n - 1 \in 1..n
  BY <1>1
<1>3. ASSUME NEW i \in 1..n, NEW j \in 1..n, timers[i].tag = timers[j].tag
      PROVE  i = j
  <2>1. CASE n = 2
    <3>1. (i = n \/ i = n - 1) /\ (j = n \/ j = n - 1)
      BY <2>1
    <3> QED BY <1>1, <1>3, <3>1
  <2>2. CASE n = 3
    <3>1. (i = n \/ i = n - 1 \/ i = 1) /\ (j = n \/ j = n - 1 \/ j = 1)
      BY <2>2
    <3>2. timers[1].tag # 1 /\ timers[1].tag # 2
      BY <1>1, <2>2
    <3> QED BY <1>1, <1>3, <3>1, <3>2
  <2> QED BY <1>1, <2>1, <2>2
<1>4. TagsOnce(timers)
  BY <1>3 DEF TagsOnce, n
<1>5. Tags(timers) = {timers[i].tag : i \in 1..n}
  BY <1>1 DEF Tags
<1> QED BY <1>1, <1>2, <1>4, <1>5 DEF n

(* A timer, what it calls, and the one behind it.                          *)
LEMMA TimerCases ==
  ASSUME TimersInv, NEW tag \in Tags(timers)
  PROVE  \/ tag = 1 /\ TimerOf(tag).callback = "50ms" /\ Follower(timers, tag) = None
         \/ tag = 2 /\ TimerOf(tag).callback = "1s" /\ Follower(timers, tag) = 1
         \/ /\ tag = cdc_info_tag /\ Len(timers) = 3
            /\ TimerOf(tag).callback = "interval" /\ Follower(timers, tag) = 2
<1> DEFINE n == Len(timers)
<1>1. PICK i \in 1..n : timers[i].tag = tag
  BY TimersOnce
<1>2. DOMAIN timers = 1..n
  BY TimersOnce
<1>3. (CHOOSE j \in DOMAIN timers : timers[j].tag = tag) = i
  BY <1>1, <1>2, TimersOnce DEF TagsOnce
<1>4. TimerOf(tag) = timers[i]
  BY <1>3 DEF TimerOf
<1>5. Follower(timers, tag) = IF i = n THEN None ELSE timers[i + 1].tag
  <2> DEFINE c == CHOOSE j \in DOMAIN timers : timers[j].tag = tag
  <2>1. Follower(timers, tag) = IF c = n THEN None ELSE timers[c + 1].tag
    BY DEF Follower
  <2> HIDE DEF c
  <2>2. c = i
    BY <1>3 DEF c
  <2> QED BY <2>1, <2>2
<1>6. /\ n \in {2, 3}
      /\ timers[n].tag = 1 /\ timers[n].callback = "50ms"
      /\ timers[n - 1].tag = 2 /\ timers[n - 1].callback = "1s"
      /\ n = 3 => timers[1].tag = cdc_info_tag /\ timers[1].callback = "interval"
  BY DEF TimersInv
<1>7. n = Len(timers)
  OBVIOUS
<1> HIDE DEF n
<1>8. CASE i = n
  BY <1>1, <1>4, <1>5, <1>6, <1>8
<1>9. CASE i = n - 1
  <2>1. i # n /\ i + 1 = n
    BY <1>6, <1>9
  <2> QED BY <1>1, <1>4, <1>5, <1>6, <1>9, <2>1
<1>10. CASE i = 1 /\ n = 3
  <2>1. i # n /\ i + 1 = n - 1
    BY <1>10
  <2> QED BY <1>1, <1>4, <1>5, <1>6, <1>7, <1>10, <2>1
<1>11. i = n \/ i = n - 1 \/ (i = 1 /\ n = 3)
  BY <1>1, <1>6
<1> QED BY <1>8, <1>9, <1>10, <1>11

(* Without the interval timer, whether its tag is stale or not.            *)
LEMMA TimersWithoutInterval ==
  ASSUME TimersInv
  PROVE  LET r == Without(timers, cdc_info_tag)
         IN  /\ r \in Seq(TimerRecord) /\ Len(r) = 2
             /\ r[2].tag = 1 /\ r[2].callback = "50ms"
             /\ r[1].tag = 2 /\ r[1].callback = "1s"
<1> DEFINE n == Len(timers)
           r == Without(timers, cdc_info_tag)
<1>1. /\ n \in {2, 3} /\ timers \in Seq(TimerRecord)
      /\ timers[n].tag = 1 /\ timers[n].callback = "50ms"
      /\ timers[n - 1].tag = 2 /\ timers[n - 1].callback = "1s"
      /\ n = 3 => timers[1].tag = cdc_info_tag
      /\ cdc_info_tag # 1 /\ cdc_info_tag # 2
  BY DEF TimersInv, None
<1>2. \/ (\A i \in 1..n : timers[i].tag # cdc_info_tag) /\ r = timers
      \/ \E i \in 1..n :
              /\ timers[i].tag = cdc_info_tag
              /\ r \in Seq(TimerRecord)
              /\ Len(r) = n - 1
              /\ \A j \in 1..(n - 1) : r[j] = IF j < i THEN timers[j] ELSE timers[j + 1]
  BY <1>1, WithoutCases
<1>3. n = Len(timers)
  OBVIOUS
<1> HIDE DEF n, r
<1>4. CASE (\A i \in 1..n : timers[i].tag # cdc_info_tag) /\ r = timers
  <2>1. n = 2
    BY <1>1, <1>4
  <2> QED BY <1>1, <1>3, <1>4, <2>1 DEF r
<1>5. CASE \E i \in 1..n :
              /\ timers[i].tag = cdc_info_tag
              /\ r \in Seq(TimerRecord)
              /\ Len(r) = n - 1
              /\ \A j \in 1..(n - 1) : r[j] = IF j < i THEN timers[j] ELSE timers[j + 1]
  <2>1. PICK i \in 1..n :
              /\ timers[i].tag = cdc_info_tag
              /\ r \in Seq(TimerRecord)
              /\ Len(r) = n - 1
              /\ \A j \in 1..(n - 1) : r[j] = IF j < i THEN timers[j] ELSE timers[j + 1]
    BY <1>5
  <2>2. i # n /\ i # n - 1
    BY <1>1, <2>1
  <2>3. i = 1 /\ n = 3
    BY <1>1, <2>2
  <2>4. r[1] = timers[2] /\ r[2] = timers[3] /\ Len(r) = 2
    BY <2>1, <2>3
  <2> QED BY <1>1, <2>1, <2>3, <2>4 DEF r
<1> QED BY <1>2, <1>4, <1>5

LEMMA MessagesKeepTimers ==
  ASSUME TimersInv, HandleMessages
  PROVE  TimersInv'
<1> DEFINE r == Without(timers, cdc_info_tag)
<1>1. /\ r \in Seq(TimerRecord) /\ Len(r) = 2
      /\ r[2].tag = 1 /\ r[2].callback = "50ms"
      /\ r[1].tag = 2 /\ r[1].callback = "1s"
  BY TimersWithoutInterval
<1> HIDE DEF r
<1>2. CASE UNCHANGED <<timers, cdc_info_tag>>
  BY <1>2 DEF TimersInv
<1>3. CASE timers' = r /\ cdc_info_tag' = None
  <2>1. 2 - 1 = 1 /\ 2 \in {2, 3} /\ 2 # 3
    OBVIOUS
  <2> QED BY <1>1, <1>3, <2>1 DEF TimersInv
<1>4. CASE /\ timers' = <<Timer(NewTimerTag, "interval")>> \o r
           /\ cdc_info_tag' = NewTimerTag
  <2> DEFINE t == NewTimerTag
             p == Timer(t, "interval")
  <2>1. t \in 3..6
    BY NewTimerTagIsNew
  <2>2. p \in TimerRecord /\ p.tag = t /\ p.callback = "interval"
    BY <2>1 DEF Timer, TimerRecord, TimerTag
  <2> HIDE DEF p, t
  <2>3. timers' = <<p>> \o r /\ cdc_info_tag' = t
    BY <1>4 DEF p, t
  <2>4. /\ timers' \in Seq(TimerRecord) /\ Len(timers') = 3
        /\ timers'[1] = p /\ timers'[2] = r[1] /\ timers'[3] = r[2]
    <3>1. timers' \in Seq(TimerRecord) /\ Shifted(timers', p, r)
      BY <1>1, <2>2, <2>3, PrependRecord
    <3>2. 1 \in 1..Len(r) /\ 2 \in 1..Len(r) /\ 1 + 1 = 2 /\ 2 + 1 = 3
      BY <1>1
    <3> QED BY <1>1, <3>1, <3>2 DEF Shifted
  <2>5. t # None
    BY <2>1 DEF None
  <2>6. 3 - 1 = 2 /\ 3 \in {2, 3}
    OBVIOUS
  <2> QED BY <1>1, <2>1, <2>2, <2>3, <2>4, <2>5, <2>6 DEF TimersInv
<1> QED BY <1>2, <1>3, <1>4 DEF HandleMessages, r

(* Steps that only make timers due, or not due any more.                   *)
LEMMA SameTimers ==
  ASSUME TimersInv, UNCHANGED cdc_info_tag,
         timers' \in Seq(TimerRecord), Len(timers') = Len(timers),
         \A i \in 1..Len(timers) : /\ timers'[i].tag = timers[i].tag
                                   /\ timers'[i].callback = timers[i].callback
  PROVE  TimersInv' /\ Tags(timers') = Tags(timers)
<1> DEFINE n == Len(timers)
<1>1. n \in {2, 3}
  BY DEF TimersInv
<1>2. n \in 1..n /\ n - 1 \in 1..n /\ (n = 3 => 1 \in 1..n)
  BY <1>1
<1>3. TimersInv'
  BY <1>1, <1>2 DEF TimersInv
<1>4. DOMAIN timers = 1..n /\ DOMAIN timers' = 1..n
  BY DEF TimersInv
<1>5. Tags(timers') = Tags(timers)
  BY <1>4 DEF Tags
<1> QED BY <1>3, <1>5
-----------------------------------------------------------------------------
(* The serial port.  Without its record, what is left is what is open      *)
(* without it.                                                             *)
PortGone(list, left) ==
  /\ list \in Seq(InputRecord) /\ TagsOnce(list)
  /\ \A fd : fd \in left <=> \E t, c : Registered(list, t, c, fd)
  /\ \A t1, t2, c1, c2, fd :
       Registered(list, t1, c1, fd) /\ Registered(list, t2, c2, fd) => t1 = t2
  /\ \A t, fd : Connected(connect_list, t, fd) <=> Registered(list, t, "client", fd)
  /\ \A t, fd : ~Registered(list, t, "ibus", fd)
  /\ \A t, c, fd : Registered(list, t, c, fd) => Registered(inputs, t, c, fd)

LEMMA WithoutPort ==
  ASSUME InputsTyped, InputsAgree
  PROVE  PortGone(Without(inputs, ifd_tag), opened \ {ifd})
<1> DEFINE W    == Without(inputs, ifd_tag)
           left == opened \ {ifd}
<1>1. /\ W \in Seq(InputRecord) /\ TagsOnce(W)
      /\ \A t, c, fd : Registered(W, t, c, fd)
                         <=> Registered(inputs, t, c, fd) /\ t # ifd_tag
  BY WithoutInputs DEF InputsTyped
<1>2. inputs \in Seq(InputRecord) /\ TagsOnce(inputs)
  BY DEF InputsTyped
<1> HIDE DEF W
<1>3. ASSUME NEW fd, NEW t, NEW c, Registered(W, t, c, fd)
      PROVE  fd \in left
  <2>1. Registered(inputs, t, c, fd) /\ t # ifd_tag
    BY <1>1, <1>3
  <2>2. fd \in opened /\ fd # Closed
    BY <1>2, <2>1, RegisteredOnce DEF InputsAgree
  <2>3. ASSUME fd = ifd PROVE FALSE
    <3>1. Registered(inputs, ifd_tag, "ibus", fd)
      BY <2>2, <2>3 DEF InputsAgree
    <3> QED BY <2>1, <3>1 DEF InputsAgree
  <2> QED BY <2>2, <2>3
<1>4. ASSUME NEW fd \in left
      PROVE  \E t, c : Registered(W, t, c, fd)
  <2>1. PICK t, c : Registered(inputs, t, c, fd)
    BY <1>4 DEF InputsAgree
  <2>2. ASSUME t = ifd_tag PROVE FALSE
    <3>1. t # None
      BY <1>2, <2>1, RegisteredOnce
    <3>2. Registered(inputs, t, "ibus", ifd)
      BY <2>2, <3>1 DEF InputsAgree
    <3>3. fd = ifd
      BY <1>2, <2>1, <3>2, RegisteredOnce
    <3> QED BY <3>3
  <2>3. Registered(W, t, c, fd)
    BY <1>1, <2>1, <2>2
  <2> QED BY <2>3
<1>5. \A t1, t2, c1, c2, fd :
        Registered(W, t1, c1, fd) /\ Registered(W, t2, c2, fd) => t1 = t2
  BY <1>1 DEF InputsAgree
<1>6. ASSUME NEW t, NEW fd
      PROVE  Connected(connect_list, t, fd) <=> Registered(W, t, "client", fd)
  <2>1. ASSUME Registered(inputs, t, "client", fd), t = ifd_tag PROVE FALSE
    <3>1. t # None
      BY <1>2, <2>1, RegisteredOnce
    <3>2. Registered(inputs, t, "ibus", ifd)
      BY <2>1, <3>1 DEF InputsAgree
    <3>3. "client" = "ibus"
      BY <1>2, <2>1, <3>2, RegisteredOnce
    <3> QED BY <3>3
  <2> QED BY <1>1, <2>1 DEF InputsAgree
<1>7. \A t, fd : ~Registered(W, t, "ibus", fd)
  BY <1>1 DEF InputsAgree
<1>8. \A t, c, fd : Registered(W, t, c, fd) => Registered(inputs, t, c, fd)
  BY <1>1
<1> HIDE DEF left
<1>9. \A fd : fd \in left <=> \E t, c : Registered(W, t, c, fd)
  BY <1>3, <1>4
<1> QED BY <1>1, <1>5, <1>6, <1>7, <1>8, <1>9 DEF PortGone, W, left

LEMMA PortClosedOK ==
  ASSUME InputsTyped, InputsAgree, PowerOff \/ PortFailed, UNCHANGED connect_list
  PROVE  InputsTyped' /\ InputsAgree'
<1> DEFINE W    == Without(inputs, ifd_tag)
           left == opened \ {ifd}
<1>1. PortGone(W, left)
  BY WithoutPort
<1>2. inputs' = W /\ opened' = left /\ ifd' = Closed /\ ifd_tag' = None
  BY DEF PowerOff, PortFailed
<1>3. left \subseteq Fd
  BY DEF InputsTyped
<1> HIDE DEF W, left
<1>4. InputsTyped'
  BY <1>1, <1>2, <1>3 DEF InputsTyped, PortGone
<1>5. InputsAgree'
  BY <1>1, <1>2 DEF InputsAgree, PortGone
<1> QED BY <1>4, <1>5

LEMMA PortOpenedOK ==
  ASSUME InputsTyped, InputsAgree, PortOpened, UNCHANGED connect_list
  PROVE  InputsTyped' /\ InputsAgree'
<1> DEFINE W    == Without(inputs, ifd_tag)
           left == opened \ {ifd}
           fd0  == Lowest(Fd \ left)
           t0   == NewInputTag
<1>1. PortGone(W, left)
  BY WithoutPort
<1>2. /\ left # Fd
      /\ ifd' = fd0 /\ ifd_tag' = t0
      /\ inputs' = <<Input(t0, "ibus", fd0)>> \o W
      /\ opened' = left \cup {fd0}
  BY DEF PortOpened
<1>3. left \in SUBSET Fd
  BY DEF InputsTyped
<1>4. fd0 \in Fd /\ fd0 \notin left
  <2> HIDE DEF left
  <2> QED BY <1>2, <1>3, LowestIsFree
<1>5. t0 \in InputTag /\ \A c, fd : ~Registered(inputs, t0, c, fd)
  BY NewInputTagIsNew
<1> HIDE DEF W, left, fd0, t0
<1>6. t0 # None /\ fd0 # Closed
  BY <1>4, <1>5, MaxFdAssumption DEF MaxFdAssumption, InputTag, Fd, None, Closed
<1>7. \A c, fd : ~Registered(W, t0, c, fd)
  BY <1>1, <1>5 DEF PortGone
<1>8. W \in Seq(InputRecord) /\ TagsOnce(W) /\ "ibus" \in CallbackSet
  BY <1>1 DEF PortGone, CallbackSet
<1>9. /\ inputs' \in Seq(InputRecord) /\ TagsOnce(inputs')
      /\ \A t, c, f : Registered(inputs', t, c, f)
           <=> Registered(W, t, c, f) \/ (t = t0 /\ c = "ibus" /\ f = fd0)
  BY <1>2, <1>4, <1>5, <1>7, <1>8, PrependInput
<1>10. InputsTyped'
  BY <1>2, <1>3, <1>4, <1>5, <1>9 DEF InputsTyped
<1>11. \A fd : fd \in opened' <=> \E t, c : Registered(inputs', t, c, fd)
  <2>1. \A fd : fd \in left <=> \E t, c : Registered(W, t, c, fd)
    BY <1>1 DEF PortGone
  <2> QED BY <1>2, <1>9, <2>1
<1>12. ASSUME NEW t1, NEW t2, NEW c1, NEW c2, NEW fd,
              Registered(inputs', t1, c1, fd), Registered(inputs', t2, c2, fd)
       PROVE  t1 = t2
  <2>1. \A t, c : ~Registered(W, t, c, fd0)
    BY <1>1, <1>4 DEF PortGone
  <2>2. CASE fd = fd0
    BY <1>9, <1>12, <2>1, <2>2
  <2>3. CASE fd # fd0
    BY <1>1, <1>9, <1>12, <2>3 DEF PortGone
  <2> QED BY <2>2, <2>3
<1>13. \A t, fd : Connected(connect_list', t, fd) <=> Registered(inputs', t, "client", fd)
  BY <1>1, <1>9 DEF PortGone
<1>14. \A t, fd : Registered(inputs', t, "ibus", fd)
                    <=> ifd' # Closed /\ t = ifd_tag' /\ fd = ifd'
  BY <1>1, <1>2, <1>6, <1>9 DEF PortGone
<1>15. InputsAgree'
  BY <1>2, <1>6, <1>11, <1>12, <1>13, <1>14 DEF InputsAgree
<1> QED BY <1>10, <1>15
-----------------------------------------------------------------------------
(* The walk over the inputs.  The record is marked before its callback     *)
(* runs.                                                                   *)

LEMMA CurrentIsPending ==
  ASSUME InputsTyped, Pending # {}
  PROVE  Current \in 1..Len(inputs) /\ ~inputs[Current].checked
<1>1. Pending = {i \in 1..Len(inputs) : ~inputs[i].checked}
  BY DEF Pending, InputsTyped
<1>2. Pending \subseteq Nat
  BY <1>1
<1>3. Current \in Pending
  BY <1>2, LeastOf DEF Current
<1> QED BY <1>1, <1>3

(* What a callback has to leave behind, for the list as it was marked.     *)
Visited(list, se) ==
  /\ list \in Seq(InputRecord) /\ TagsOnce(list)
  /\ se \in InputRecord
  /\ Registered(inputs, se.tag, se.callback, se.fd)
  /\ \A t, c, fd : Registered(list, t, c, fd) <=> Registered(inputs, t, c, fd)
  /\ \A t, c, fd : Unvisited(list, t, c, fd)
                     => Unvisited(inputs, t, c, fd) /\ t # se.tag

LEMMA MarkedIsVisited ==
  ASSUME InputsTyped, NEW k \in 1..Len(inputs)
  PROVE  Visited(Marked(inputs, k), inputs[k])
<1>1. inputs \in Seq(InputRecord) /\ TagsOnce(inputs) /\ inputs[k] \in InputRecord
  BY DEF InputsTyped
<1>2. Registered(inputs, inputs[k].tag, inputs[k].callback, inputs[k].fd)
  BY DEF Registered
<1> QED BY <1>1, <1>2, MarkedInputs DEF Visited

LEMMA UnvisitedIsRegistered ==
  ASSUME NEW list, NEW t, NEW c, NEW fd, Unvisited(list, t, c, fd)
  PROVE  Registered(list, t, c, fd)
BY DEF Unvisited, Registered

(* The callback took what there was to read from the record's descriptor;  *)
(* no other record has that descriptor.                                    *)
LEMMA VisitedOthers ==
  ASSUME InputsAgree, NEW list, NEW se, Visited(list, se),
         NEW t, NEW c, NEW fd, Unvisited(list, t, c, fd)
  PROVE  Unvisited(inputs, t, c, fd) /\ fd # se.fd
<1>1. Unvisited(inputs, t, c, fd) /\ t # se.tag
  BY DEF Visited
<1>2. Registered(inputs, t, c, fd)
  BY <1>1, UnvisitedIsRegistered
<1> QED BY <1>1, <1>2 DEF InputsAgree, Visited

LEMMA SkippedOK ==
  ASSUME InputsTyped, InputsAgree, StaleIsClient,
         NEW list, NEW se, Visited(list, se), inputs' = list,
         UNCHANGED <<connect_list, ifd, ifd_tag, opened, rd, pc>>,
         \A fd : fd # se.fd => (fd \in ready' <=> fd \in ready)
  PROVE  InputsTyped' /\ InputsAgree' /\ StaleIsClient'
<1>1. InputsTyped'
  BY DEF InputsTyped, Visited
<1>2. InputsAgree'
  <2>1. \A t, c, fd : Registered(inputs', t, c, fd) <=> Registered(inputs, t, c, fd)
    BY DEF Visited
  <2> QED BY <2>1 DEF InputsAgree
<1>3. StaleIsClient'
  <2> SUFFICES ASSUME pc = "inputs", NEW t, NEW c, NEW fd,
                      Unvisited(inputs', t, c, fd), fd \in rd, fd \notin ready'
               PROVE  c = "client"
    BY DEF StaleIsClient
  <2>1. Unvisited(inputs, t, c, fd) /\ fd # se.fd
    BY VisitedOthers
  <2>2. fd \notin ready
    BY <2>1
  <2> QED BY <2>1, <2>2 DEF StaleIsClient
<1> QED BY <1>1, <1>2, <1>3

(* A connection registered under a new tag, for a new descriptor.          *)
LEMMA AddedOK ==
  ASSUME InputsTyped, InputsAgree, StaleIsClient,
         NEW list, NEW se, Visited(list, se),
         NEW t0 \in InputTag, \A c, fd : ~Registered(inputs, t0, c, fd),
         NEW fd0 \in Fd, fd0 \notin opened, opened' = opened \cup {fd0},
         connect_list' \in Seq(Connection), TagsOnce(connect_list'),
         \A t, f : Connected(connect_list', t, f)
                     <=> Connected(connect_list, t, f) \/ (t = t0 /\ f = fd0),
         inputs' \in Seq(InputRecord), TagsOnce(inputs'),
         \A t, c, f : Registered(inputs', t, c, f)
           <=> Registered(list, t, c, f) \/ (t = t0 /\ c = "client" /\ f = fd0),
         \A t, c, f : Unvisited(inputs', t, c, f)
           => Unvisited(list, t, c, f) \/ (t = t0 /\ c = "client" /\ f = fd0),
         UNCHANGED <<ifd, ifd_tag, rd, pc>>,
         \A fd : fd # se.fd => (fd \in ready' <=> fd \in ready)
  PROVE  InputsTyped' /\ InputsAgree' /\ StaleIsClient'
<1>1. \A t, c, f : Registered(inputs', t, c, f)
        <=> Registered(inputs, t, c, f) \/ (t = t0 /\ c = "client" /\ f = fd0)
  BY DEF Visited
<1>2. InputsTyped'
  BY DEF InputsTyped
<1>3. \A fd : fd \in opened' <=> \E t, c : Registered(inputs', t, c, fd)
  BY <1>1 DEF InputsAgree
<1>4. ASSUME NEW t1, NEW t2, NEW c1, NEW c2, NEW fd,
             Registered(inputs', t1, c1, fd), Registered(inputs', t2, c2, fd)
      PROVE  t1 = t2
  <2>1. \A t, c : ~Registered(inputs, t, c, fd0)
    BY DEF InputsAgree
  <2>2. CASE fd = fd0
    BY <1>1, <1>4, <2>1, <2>2
  <2>3. CASE fd # fd0
    BY <1>1, <1>4, <2>3 DEF InputsAgree
  <2> QED BY <2>2, <2>3
<1>5. \A t, fd : Connected(connect_list', t, fd) <=> Registered(inputs', t, "client", fd)
  BY <1>1 DEF InputsAgree
<1>6. \A t, fd : Registered(inputs', t, "ibus", fd)
                   <=> ifd' # Closed /\ t = ifd_tag' /\ fd = ifd'
  BY <1>1 DEF InputsAgree
<1>7. InputsAgree'
  BY <1>3, <1>4, <1>5, <1>6 DEF InputsAgree
<1>8. StaleIsClient'
  <2> SUFFICES ASSUME pc = "inputs", NEW t, NEW c, NEW fd,
                      Unvisited(inputs', t, c, fd), fd \in rd, fd \notin ready',
                      c # "client"
               PROVE  FALSE
    BY DEF StaleIsClient
  <2>1. Unvisited(list, t, c, fd)
    OBVIOUS
  <2>2. Unvisited(inputs, t, c, fd) /\ fd # se.fd
    BY <2>1, VisitedOthers
  <2>3. fd \notin ready
    BY <2>2
  <2> QED BY <2>2, <2>3 DEF StaleIsClient
<1> QED BY <1>2, <1>7, <1>8

(* server_accept, if accept() gave a connection.                           *)
LEMMA AcceptedOK ==
  ASSUME InputsTyped, InputsAgree, StaleIsClient,
         NEW list, NEW se, Visited(list, se),
         opened # Fd,
         opened' = opened \cup {Lowest(Fd \ opened)},
         connect_list' =
           <<[tag |-> NewInputTag, socket |-> Lowest(Fd \ opened)]>> \o connect_list,
         inputs' = IF connect_list' = connect_list THEN list
                   ELSE <<Input(connect_list'[1].tag, "client",
                                connect_list'[1].socket)>> \o list,
         UNCHANGED <<ifd, ifd_tag, rd, pc>>,
         \A fd : fd # se.fd => (fd \in ready' <=> fd \in ready)
  PROVE  InputsTyped' /\ InputsAgree' /\ StaleIsClient'
<1> DEFINE fd0 == Lowest(Fd \ opened)
           t0  == NewInputTag
<1>1. fd0 \in Fd /\ fd0 \notin opened /\ opened' = opened \cup {fd0}
  BY LowestIsFree DEF InputsTyped
<1>2. t0 \in InputTag /\ \A c, fd : ~Registered(inputs, t0, c, fd)
  BY NewInputTagIsNew
<1>3. connect_list' = <<[tag |-> t0, socket |-> fd0]>> \o connect_list
  OBVIOUS
<1> HIDE DEF fd0, t0
<1>4. \A fd : ~Connected(connect_list, t0, fd)
  BY <1>2 DEF InputsAgree
<1>5. /\ connect_list' \in Seq(Connection) /\ TagsOnce(connect_list')
      /\ connect_list' # connect_list
      /\ connect_list'[1].tag = t0 /\ connect_list'[1].socket = fd0
      /\ \A t, f : Connected(connect_list', t, f)
                     <=> Connected(connect_list, t, f) \/ (t = t0 /\ f = fd0)
  BY <1>1, <1>2, <1>3, <1>4, PrependConnection DEF InputsTyped
<1>6. inputs' = <<Input(t0, "client", fd0)>> \o list
  BY <1>5
<1>7. /\ list \in Seq(InputRecord) /\ TagsOnce(list) /\ "client" \in CallbackSet
      /\ \A c, fd : ~Registered(list, t0, c, fd)
  BY <1>2 DEF Visited, CallbackSet
<1>8. /\ inputs' \in Seq(InputRecord) /\ TagsOnce(inputs')
      /\ \A t, c, f : Registered(inputs', t, c, f)
           <=> Registered(list, t, c, f) \/ (t = t0 /\ c = "client" /\ f = fd0)
      /\ \A t, c, f : Unvisited(inputs', t, c, f)
           => Unvisited(list, t, c, f) \/ (t = t0 /\ c = "client" /\ f = fd0)
  BY <1>1, <1>2, <1>6, <1>7, PrependInput
<1>9. \A t, f : Connected(connect_list', t, f)
                  <=> Connected(connect_list, t, f) \/ (t = t0 /\ f = fd0)
  BY <1>5
<1>10. connect_list' \in Seq(Connection) /\ TagsOnce(connect_list')
  BY <1>5
<1> QED BY ONLY InputsTyped, InputsAgree, StaleIsClient, Visited(list, se),
            UNCHANGED <<ifd, ifd_tag, rd, pc>>,
            \A fd : fd # se.fd => (fd \in ready' <=> fd \in ready),
            <1>1, <1>2, <1>8, <1>9, <1>10, AddedOK

(* server_disconnect.                                                      *)
LEMMA DisconnectedOK ==
  ASSUME InputsTyped, InputsAgree, StaleIsClient,
         NEW list, NEW se, Visited(list, se), se.callback = "client",
         connect_list' = Without(connect_list, se.tag),
         opened' = opened \ {se.fd},
         inputs' = IF connect_list' = connect_list THEN list
                   ELSE Disconnect(list, se.tag),
         UNCHANGED <<ifd, ifd_tag, rd, pc>>,
         \A fd : fd # se.fd => (fd \in ready' <=> fd \in ready)
  PROVE  InputsTyped' /\ InputsAgree' /\ StaleIsClient'
<1>1. Registered(inputs, se.tag, "client", se.fd)
  BY DEF Visited
<1>2. Connected(connect_list, se.tag, se.fd)
  BY <1>1 DEF InputsAgree
<1>3. /\ connect_list' \in Seq(Connection) /\ TagsOnce(connect_list')
      /\ \A t, fd : Connected(connect_list', t, fd)
                      <=> Connected(connect_list, t, fd) /\ t # se.tag
      /\ connect_list' # connect_list
  BY <1>2, WithoutConnections DEF InputsTyped
<1>4. inputs' = Without(list, se.tag)
  BY <1>3 DEF Disconnect
<1>5. /\ inputs' \in Seq(InputRecord) /\ TagsOnce(inputs')
      /\ \A t, c, fd : Registered(inputs', t, c, fd)
                         <=> Registered(list, t, c, fd) /\ t # se.tag
      /\ \A t, c, fd : Unvisited(inputs', t, c, fd) => Unvisited(list, t, c, fd)
  BY <1>4, WithoutInputs DEF Visited
<1>6. \A t, c, fd : Registered(inputs', t, c, fd)
                      <=> Registered(inputs, t, c, fd) /\ t # se.tag
  BY <1>5 DEF Visited
<1>7. InputsTyped'
  BY <1>3, <1>5 DEF InputsTyped
<1>8. inputs \in Seq(InputRecord) /\ TagsOnce(inputs)
  BY DEF InputsTyped
<1>9. ASSUME NEW fd PROVE fd \in opened' <=> \E t, c : Registered(inputs', t, c, fd)
  <2>1. ASSUME NEW t, NEW c, Registered(inputs', t, c, fd) PROVE fd \in opened'
    <3>1. Registered(inputs, t, c, fd) /\ t # se.tag
      BY <1>6, <2>1
    <3>2. fd \in opened /\ fd # se.fd
      BY <1>1, <3>1 DEF InputsAgree
    <3> QED BY <3>2
  <2>2. ASSUME fd \in opened' PROVE \E t, c : Registered(inputs', t, c, fd)
    <3>1. fd \in opened /\ fd # se.fd
      BY <2>2
    <3>2. PICK t, c : Registered(inputs, t, c, fd)
      BY <3>1 DEF InputsAgree
    <3>3. t # se.tag
      BY <1>1, <1>8, <3>1, <3>2, RegisteredOnce
    <3> QED BY <1>6, <3>2, <3>3
  <2> QED BY <2>1, <2>2
<1>10. \A t1, t2, c1, c2, fd :
         Registered(inputs', t1, c1, fd) /\ Registered(inputs', t2, c2, fd) => t1 = t2
  BY <1>6 DEF InputsAgree
<1>11. \A t, fd : Connected(connect_list', t, fd) <=> Registered(inputs', t, "client", fd)
  BY <1>3, <1>6 DEF InputsAgree
<1>12. ASSUME NEW t, NEW fd
       PROVE  Registered(inputs', t, "ibus", fd)
                    <=> ifd' # Closed /\ t = ifd_tag' /\ fd = ifd'
  <2>1. Registered(inputs, t, "ibus", fd) => t # se.tag
    <3> SUFFICES ASSUME Registered(inputs, se.tag, "ibus", fd) PROVE FALSE
      OBVIOUS
    <3>1. "ibus" = "client"
      BY <1>1, <1>8, RegisteredOnce
    <3> QED BY <3>1
  <2> QED BY <1>6, <2>1 DEF InputsAgree
<1>13. InputsAgree'
  BY <1>9, <1>10, <1>11, <1>12 DEF InputsAgree
<1>14. StaleIsClient'
  <2> SUFFICES ASSUME pc = "inputs", NEW t, NEW c, NEW fd,
                      Unvisited(inputs', t, c, fd), fd \in rd, fd \notin ready'
               PROVE  c = "client"
    BY DEF StaleIsClient
  <2>0. Unvisited(list, t, c, fd)
    BY <1>5
  <2>1. Unvisited(inputs, t, c, fd) /\ fd # se.fd
    BY <2>0, VisitedOthers
  <2>2. fd \notin ready
    BY <2>1
  <2> QED BY <2>1, <2>2 DEF StaleIsClient
<1> QED BY <1>7, <1>13, <1>14
-----------------------------------------------------------------------------
(* The actions.                                                            *)

(* What every callback of an input keeps.                                  *)
LEMMA CheckInputOK == ASSUME IInv, CheckInput PROVE IInv'
<1> DEFINE se     == inputs[Current]
           marked == Marked(inputs, Current)
           same   == \A fd : fd # se.fd => (fd \in ready' <=> fd \in ready)
<1>1. InputsTyped /\ InputsAgree /\ StaleIsClient /\ TimersInv /\ RestTyped
  BY DEF IInv
<1>2. pc = "inputs" /\ Pending # {} /\ UNCHANGED <<rd, pc, next, te, again>>
  BY DEF CheckInput, loop
<1>3. Visited(marked, se)
  BY <1>1, <1>2, CurrentIsPending, MarkedIsVisited
<1>4. \/ /\ se.fd \notin rd
         /\ inputs' = marked
         /\ UNCHANGED <<timers, connect_list, port, opened, ready>>
      \/ /\ se.callback = "ibus"
         /\ inputs' = marked
         /\ IbusRead(se.fd)
      \/ /\ se.callback = "accept"
         /\ ServerAccept(se.fd)
         /\ inputs' = IF connect_list' = connect_list THEN marked
                      ELSE <<Input(connect_list'[1].tag, "client",
                                   connect_list'[1].socket)>> \o marked
      \/ /\ se.callback = "client"
         /\ ServerRead(se.tag, se.fd)
         /\ inputs' = IF connect_list' = connect_list THEN marked
                      ELSE Disconnect(marked, se.tag)
  BY DEF CheckInput
<1> HIDE DEF se, marked
<1>5. /\ InputsTyped' /\ InputsAgree' /\ StaleIsClient'
      /\ TimersInv' /\ partial' \in BOOLEAN /\ ready' \subseteq Fd
  <2>1. CASE /\ inputs' = marked
             /\ UNCHANGED <<timers, connect_list, port, opened, ready>>
    <3>1. UNCHANGED <<timers, cdc_info_tag, connect_list, ifd, ifd_tag, opened, ready,
                      partial>>
      BY <2>1 DEF port
    <3>2. InputsTyped' /\ InputsAgree' /\ StaleIsClient'
      BY <1>1, <1>2, <1>3, <2>1, <3>1, SkippedOK
    <3>3. TimersInv' /\ partial' \in BOOLEAN /\ ready' \subseteq Fd
      BY <1>1, <3>1 DEF TimersInv, RestTyped
    <3> QED BY <3>2, <3>3
  <2>2. CASE inputs' = marked /\ IbusRead(se.fd)
    <3>1. /\ ready' = ready \ {se.fd}
          /\ UNCHANGED <<connect_list, ifd, ifd_tag, opened>>
          /\ HandleMessages \/ UNCHANGED <<timers, cdc_info_tag>>
          /\ partial' \in BOOLEAN
      BY <1>1, <2>2 DEF IbusRead, RestTyped
    <3>2. same
      BY <3>1
    <3>3. InputsTyped' /\ InputsAgree' /\ StaleIsClient'
      BY <1>1, <1>2, <1>3, <2>2, <3>1, <3>2, SkippedOK
    <3>4. TimersInv'
      <4>1. CASE HandleMessages
        BY <1>1, <4>1, MessagesKeepTimers
      <4>2. CASE UNCHANGED <<timers, cdc_info_tag>>
        BY <1>1, <4>2 DEF TimersInv
      <4> QED BY <3>1, <4>1, <4>2
    <3>5. ready' \subseteq Fd
      BY <1>1, <3>1 DEF RestTyped
    <3> QED BY <3>1, <3>3, <3>4, <3>5
  <2>3. CASE /\ ServerAccept(se.fd)
             /\ inputs' = IF connect_list' = connect_list THEN marked
                          ELSE <<Input(connect_list'[1].tag, "client",
                                       connect_list'[1].socket)>> \o marked
    <3>1. /\ ready' = ready \ {se.fd}
          /\ UNCHANGED <<timers, cdc_info_tag, ifd, ifd_tag, partial>>
      BY <2>3 DEF ServerAccept, port
    <3>2. same
      BY <3>1
    <3>3. InputsTyped' /\ InputsAgree' /\ StaleIsClient'
      <4>1. CASE UNCHANGED <<connect_list, opened>>
        <5>1. inputs' = marked
          BY <2>3, <4>1
        <5> QED BY <1>1, <1>2, <1>3, <3>1, <3>2, <4>1, <5>1, SkippedOK
      <4>2. CASE /\ opened # Fd
                 /\ opened' = opened \cup {Lowest(Fd \ opened)}
                 /\ connect_list' =
                      <<[tag |-> NewInputTag, socket |-> Lowest(Fd \ opened)]>>
                        \o connect_list
        <5> HIDE DEF same
        <5>1. /\ opened # Fd
              /\ opened' = opened \cup {Lowest(Fd \ opened)}
              /\ connect_list' =
                      <<[tag |-> NewInputTag, socket |-> Lowest(Fd \ opened)]>>
                        \o connect_list
              /\ inputs' = IF connect_list' = connect_list THEN marked
                          ELSE <<Input(connect_list'[1].tag, "client",
                                       connect_list'[1].socket)>> \o marked
              /\ UNCHANGED <<ifd, ifd_tag, rd, pc>>
          BY <1>2, <2>3, <3>1, <4>2
        <5> QED BY ONLY <1>1, <1>3, <3>2, <5>1, AcceptedOK DEF same
      <4> QED BY <2>3, <4>1, <4>2 DEF ServerAccept
    <3>4. TimersInv' /\ partial' \in BOOLEAN /\ ready' \subseteq Fd
      BY <1>1, <3>1 DEF TimersInv, RestTyped
    <3> QED BY <3>3, <3>4
  <2>4. CASE /\ se.callback = "client"
             /\ ServerRead(se.tag, se.fd)
             /\ inputs' = IF connect_list' = connect_list THEN marked
                          ELSE Disconnect(marked, se.tag)
    <3>1. /\ ready' = ready \ {se.fd}
          /\ UNCHANGED <<timers, cdc_info_tag, ifd, ifd_tag, partial>>
      BY <2>4 DEF ServerRead, port
    <3>2. same
      BY <3>1
    <3>3. InputsTyped' /\ InputsAgree' /\ StaleIsClient'
      <4>1. CASE UNCHANGED <<connect_list, opened>>
        <5>1. inputs' = marked
          BY <2>4, <4>1
        <5> QED BY <1>1, <1>2, <1>3, <3>1, <3>2, <4>1, <5>1, SkippedOK
      <4>2. CASE /\ connect_list' = Without(connect_list, se.tag)
                 /\ opened' = opened \ {se.fd}
        <5>1. UNCHANGED <<ifd, ifd_tag, rd, pc>>
          BY <1>2, <3>1
        <5> QED BY <1>1, <1>3, <2>4, <3>2, <4>2, <5>1, DisconnectedOK
      <4> QED BY <2>4, <4>1, <4>2 DEF ServerRead
    <3>4. TimersInv' /\ partial' \in BOOLEAN /\ ready' \subseteq Fd
      BY <1>1, <3>1 DEF TimersInv, RestTyped
    <3> QED BY <3>3, <3>4
  <2> QED BY <1>4, <2>1, <2>2, <2>3, <2>4
<1>6. RestTyped' /\ WalkInv'
  <2>1. RestTyped'
    BY <1>1, <1>2, <1>5 DEF RestTyped
  <2>2. next = None /\ te = None
    BY <1>2 DEF IInv, WalkInv
  <2>3. WalkInv'
    BY <1>2, <2>2 DEF WalkInv
  <2> QED BY <2>1, <2>3
<1> QED BY <1>5, <1>6 DEF IInv

LEMMA SelectOK == ASSUME IInv, Select PROVE IInv'
<1>1. /\ pc = "select" /\ rd' = ready \cap Fds(inputs)
      /\ inputs' = Unchecked(inputs) /\ pc' = "inputs"
      /\ UNCHANGED <<timers, connect_list, ifd, ifd_tag, cdc_info_tag, partial,
                     opened, ready, next, te, again>>
  BY DEF Select, port
<1>2. /\ inputs' \in Seq(InputRecord) /\ TagsOnce(inputs')
      /\ \A t, c, fd : Registered(inputs', t, c, fd) <=> Registered(inputs, t, c, fd)
  BY <1>1, UncheckedInputs DEF IInv, InputsTyped
<1>3. InputsTyped' /\ InputsAgree'
  BY <1>1, <1>2 DEF IInv, InputsTyped, InputsAgree
<1>4. rd' \subseteq Fd /\ rd' \subseteq ready'
  BY <1>1 DEF IInv, RestTyped
<1>5. StaleIsClient'
  BY <1>4 DEF StaleIsClient
<1>6. TimersInv'
  BY <1>1 DEF IInv, TimersInv
<1>7. RestTyped' /\ WalkInv'
  BY <1>1, <1>4 DEF IInv, RestTyped, WalkInv
<1> QED BY <1>3, <1>5, <1>6, <1>7 DEF IInv

LEMMA StartTimersOK == ASSUME IInv, StartTimers PROVE IInv'
<1>1. /\ pc = "inputs" /\ pc' = "timers" /\ next' = First(timers)
      /\ UNCHANGED <<timers, inputs, connect_list, ifd, ifd_tag, cdc_info_tag, partial,
                     opened, ready, rd, te, again>>
  BY DEF StartTimers, lists, port
<1>2. next' \in Tags(timers) /\ next' \in TimerTag
  <2>1. 1 \in 1..Len(timers) /\ timers # <<>> /\ timers \in Seq(TimerRecord)
    BY DEF IInv, TimersInv
  <2>2. next' = timers[1].tag
    BY <1>1, <2>1 DEF First
  <2>3. timers[1] \in TimerRecord
    BY <2>1
  <2>4. next' \in Tags(timers)
    BY <2>1, <2>2, TimersOnce DEF IInv
  <2> QED BY <2>2, <2>3, <2>4 DEF TimerRecord
<1>3. InputsTyped' /\ InputsAgree' /\ StaleIsClient' /\ TimersInv'
  BY <1>1 DEF IInv, InputsTyped, InputsAgree, StaleIsClient, TimersInv
<1>4. RestTyped'
  BY <1>1, <1>2 DEF IInv, RestTyped
<1>5. te' = None /\ Tags(timers') = Tags(timers)
  BY <1>1 DEF IInv, WalkInv
<1>6. WalkInv'
  BY <1>1, <1>2, <1>5 DEF WalkInv
<1> QED BY <1>3, <1>4, <1>6 DEF IInv

LEMMA FollowerIsTimer ==
  ASSUME TimersInv, NEW tag \in Tags(timers)
  PROVE  /\ Follower(timers, tag) \in Tags(timers) \cup {None}
         /\ Follower(timers, tag) \in {1, 2, None}
<1>1. Follower(timers, tag) \in {1, 2, None}
  BY TimerCases
<1> QED BY <1>1, TimersOnce

LEMMA SkipTimerOK == ASSUME IInv, SkipTimer PROVE IInv'
<1>1. /\ pc = "timers" /\ next \in Tags(timers) /\ next' = Follower(timers, next)
      /\ UNCHANGED <<timers, inputs, connect_list, ifd, ifd_tag, cdc_info_tag, partial,
                     opened, ready, rd, pc, te, again>>
  BY DEF SkipTimer, lists, port
<1>2. next' \in Tags(timers) \cup {None} /\ next' \in {1, 2, None}
  BY <1>1, FollowerIsTimer DEF IInv
<1>3. InputsTyped' /\ InputsAgree' /\ StaleIsClient' /\ TimersInv'
  BY <1>1 DEF IInv, InputsTyped, InputsAgree, StaleIsClient, TimersInv
<1>4. RestTyped'
  BY <1>1, <1>2 DEF IInv, RestTyped, TimerTag
<1>5. te' = None /\ Tags(timers') = Tags(timers)
  BY <1>1 DEF IInv, WalkInv
<1>6. WalkInv'
  BY <1>1, <1>2, <1>5 DEF WalkInv
<1> QED BY <1>3, <1>4, <1>6 DEF IInv

(* The 50ms tick is the last of the list, and the 1s tick is before it:    *)
(* what they free is in front of them.                                     *)
LEMMA CallTimerOK == ASSUME IInv, CallTimer PROVE IInv'
<1>1. /\ pc = "timers" /\ next \in Tags(timers) /\ pc' = "returned"
      /\ te' = next /\ next' = Follower(timers, next) /\ rd' = rd
  BY DEF CallTimer
<1>2. TimersInv /\ InputsTyped /\ InputsAgree /\ RestTyped
  BY DEF IInv
<1>3. StaleIsClient'
  BY <1>1 DEF StaleIsClient
<1>4. te' \in TimerTag
  <2>1. PICK i \in 1..Len(timers) : timers[i].tag = next
    BY <1>1, <1>2, TimersOnce
  <2>2. timers[i] \in TimerRecord
    BY <1>2, <2>1 DEF TimersInv
  <2> QED BY <1>1, <2>1, <2>2 DEF TimerRecord
<1>5. next' \in TimerTag \cup {None}
  <2>1. next' \in {1, 2, None}
    BY <1>1, <1>2, FollowerIsTimer
  <2> QED BY <2>1 DEF TimerTag
<1>6. ASSUME /\ InputsTyped' /\ InputsAgree' /\ TimersInv'
             /\ partial' \in BOOLEAN /\ again' \in BOOLEAN /\ ready' \subseteq Fd
             /\ \/ te' = 1 /\ next' = None /\ again'
                \/ te' = 2 /\ next' = 1 /\ again'
                \/ te' = cdc_info_tag' /\ next' = 2 /\ Len(timers') = 3
      PROVE  IInv'
  <2>1. WalkInv'
    BY <1>1, <1>6 DEF WalkInv
  <2>2. RestTyped'
    BY <1>1, <1>2, <1>4, <1>5, <1>6 DEF RestTyped
  <2> QED BY <1>3, <1>6, <2>1, <2>2 DEF IInv
<1>7. ASSUME UNCHANGED <<lists, port, opened, ready>>
      PROVE  /\ InputsTyped' /\ InputsAgree' /\ TimersInv'
             /\ partial' \in BOOLEAN /\ ready' \subseteq Fd
             /\ UNCHANGED <<timers, cdc_info_tag>>
  <2>1. UNCHANGED <<timers, inputs, connect_list, ifd, ifd_tag, cdc_info_tag, partial,
                    opened, ready>>
    BY <1>7 DEF lists, port
  <2> QED BY <1>2, <2>1 DEF InputsTyped, InputsAgree, TimersInv, RestTyped
<1>8. CASE next = 1 /\ TimerOf(next).callback = "50ms" /\ Follower(timers, next) = None
  <2>1. Tick50ms
    BY <1>8 DEF CallTimer
  <2>2. again' = TRUE /\ te' = 1 /\ next' = None
    BY <1>1, <1>8, <2>1 DEF Tick50ms
  <2>3. CASE UNCHANGED <<lists, port, opened, ready>>
    BY <1>6, <1>7, <2>2, <2>3
  <2>4. CASE /\ HandleMessages
             /\ partial' = FALSE
             /\ UNCHANGED <<inputs, connect_list, ifd, ifd_tag, opened, ready>>
    <3>1. TimersInv'
      BY <1>2, <2>4, MessagesKeepTimers
    <3>2. InputsTyped' /\ InputsAgree' /\ partial' \in BOOLEAN /\ ready' \subseteq Fd
      BY <1>2, <2>4 DEF InputsTyped, InputsAgree, RestTyped
    <3> QED BY <1>6, <2>2, <3>1, <3>2
  <2>5. CASE InitSerialPort /\ UNCHANGED <<timers, connect_list, cdc_info_tag, partial>>
    <3>1. InputsTyped' /\ InputsAgree'
      BY <1>2, <2>5, PortOpenedOK, PortClosedOK DEF InitSerialPort
    <3>2. ready' = ready \ {ifd}
      BY <2>5 DEF InitSerialPort, PortOpened, PortFailed
    <3>3. TimersInv' /\ partial' \in BOOLEAN /\ ready' \subseteq Fd
      BY <1>2, <2>5, <3>2 DEF TimersInv, RestTyped
    <3> QED BY <1>6, <2>2, <3>1, <3>3
  <2> QED BY <2>1, <2>3, <2>4, <2>5 DEF Tick50ms
<1>9. CASE next = 2 /\ TimerOf(next).callback = "1s" /\ Follower(timers, next) = 1
  <2>1. Tick1s
    BY <1>9 DEF CallTimer
  <2>2. again' = TRUE /\ te' = 2 /\ next' = 1
    BY <1>1, <1>9, <2>1 DEF Tick1s
  <2>3. CASE UNCHANGED <<lists, port, opened, ready>>
    BY <1>6, <1>7, <2>2, <2>3
  <2>4. CASE PowerOff /\ UNCHANGED <<timers, connect_list, cdc_info_tag, partial>>
    <3>1. InputsTyped' /\ InputsAgree'
      BY <1>2, <2>4, PortClosedOK
    <3>2. ready' = ready \ {ifd}
      BY <2>4 DEF PowerOff
    <3>3. TimersInv' /\ partial' \in BOOLEAN /\ ready' \subseteq Fd
      BY <1>2, <2>4, <3>2 DEF TimersInv, RestTyped
    <3> QED BY <1>6, <2>2, <3>1, <3>3
  <2> QED BY <2>1, <2>3, <2>4 DEF Tick1s
<1>10. CASE /\ next = cdc_info_tag /\ Len(timers) = 3
            /\ TimerOf(next).callback = "interval" /\ Follower(timers, next) = 2
  <2>1. again' \in BOOLEAN /\ UNCHANGED <<lists, port, opened, ready>>
    BY <1>10 DEF CallTimer, TickInterval
  <2>2. te' = cdc_info_tag' /\ next' = 2 /\ Len(timers') = 3
    BY <1>1, <1>10, <2>1 DEF lists, port
  <2> QED BY <1>6, <1>7, <2>1, <2>2
<1> QED BY <1>1, <1>2, <1>8, <1>9, <1>10, TimerCases

LEMMA TimerReturnedOK == ASSUME IInv, TimerReturned PROVE IInv'
<1>1. /\ pc = "returned" /\ te \in Tags(timers)
      /\ timers' = IF again THEN Rearmed(timers, te) ELSE Without(timers, te)
      /\ next' = IF again THEN next ELSE First(timers')
      /\ te' = None /\ again' = TRUE /\ pc' = "timers"
      /\ UNCHANGED <<inputs, connect_list, ifd, ifd_tag, cdc_info_tag, partial,
                     opened, ready, rd>>
  BY DEF TimerReturned, Restart, port
<1>2. InputsTyped' /\ InputsAgree' /\ StaleIsClient'
  BY <1>1 DEF IInv, InputsTyped, InputsAgree, StaleIsClient
<1>3. TimersInv' /\ next' \in Tags(timers') \cup {None} /\ next' \in TimerTag \cup {None}
  <2>1. CASE again
    <3>1. timers' = Rearmed(timers, te) /\ next' = next
      BY <1>1, <2>1
    <3>2. /\ Len(timers) \in Nat /\ DOMAIN timers = 1..Len(timers)
          /\ \A i \in 1..Len(timers) : timers[i] \in TimerRecord
      BY DEF IInv, TimersInv
    <3> DEFINE q(i) == IF timers[i].tag = te THEN [timers[i] EXCEPT !.due = FALSE]
                                             ELSE timers[i]
    <3>3. \A i \in 1..Len(timers) : /\ q(i) \in TimerRecord
                                    /\ q(i).tag = timers[i].tag
                                    /\ q(i).callback = timers[i].callback
      BY <3>2 DEF TimerRecord
    <3>4. timers' = [i \in 1..Len(timers) |-> q(i)]
      BY <3>1, <3>2 DEF Rearmed
    <3> HIDE DEF q
    <3>5. timers' \in Seq(TimerRecord) /\ Len(timers') = Len(timers)
      BY <3>2, <3>3, <3>4
    <3>6. \A i \in 1..Len(timers) : /\ timers'[i].tag = timers[i].tag
                                    /\ timers'[i].callback = timers[i].callback
      BY <3>3, <3>4
    <3>7. TimersInv' /\ Tags(timers') = Tags(timers)
      BY <1>1, <3>5, <3>6, SameTimers DEF IInv
    <3>8. next \in Tags(timers) \cup {None}
      BY <1>1, TimersOnce DEF IInv, WalkInv
    <3> QED BY <3>1, <3>7, <3>8 DEF IInv, RestTyped
  <2>2. CASE ~again
    <3>1. te = cdc_info_tag
      BY <1>1, <2>2 DEF IInv, WalkInv
    <3>2. timers' = Without(timers, cdc_info_tag) /\ next' = First(timers')
      BY <1>1, <2>2, <3>1
    <3>3. /\ timers' \in Seq(TimerRecord) /\ Len(timers') = 2
          /\ timers'[2].tag = 1 /\ timers'[2].callback = "50ms"
          /\ timers'[1].tag = 2 /\ timers'[1].callback = "1s"
      BY <3>2, TimersWithoutInterval DEF IInv
    <3>4. TimersInv'
      <4>1. 2 - 1 = 1 /\ 2 \in {2, 3} /\ 2 # 3
        OBVIOUS
      <4>2. cdc_info_tag' \in 3..6 \cup {None}
        BY <1>1 DEF IInv, TimersInv
      <4> QED BY <3>3, <4>1, <4>2 DEF TimersInv
    <3>5. timers' # <<>>
      BY <3>3
    <3>6. next' = 2
      BY <3>2, <3>3, <3>5 DEF First
    <3>7. 1 \in DOMAIN timers'
      BY <3>3
    <3>8. 2 \in Tags(timers')
      BY <3>3, <3>7 DEF Tags
    <3> QED BY <3>4, <3>6, <3>8 DEF TimerTag
  <2> QED BY <2>1, <2>2
<1>4. RestTyped' /\ WalkInv'
  BY <1>1, <1>3 DEF IInv, RestTyped, WalkInv
<1> QED BY <1>2, <1>3, <1>4 DEF IInv

LEMMA EndPassOK == ASSUME IInv, EndPass PROVE IInv'
<1>1. /\ pc = "timers" /\ next = None /\ pc' = "select" /\ rd' = {}
      /\ UNCHANGED <<timers, inputs, connect_list, ifd, ifd_tag, cdc_info_tag, partial,
                     opened, ready, next, te, again>>
  BY DEF EndPass, lists, port
<1>2. InputsTyped' /\ InputsAgree' /\ StaleIsClient' /\ TimersInv'
  BY <1>1 DEF IInv, InputsTyped, InputsAgree, StaleIsClient, TimersInv
<1>3. RestTyped' /\ WalkInv'
  BY <1>1 DEF IInv, RestTyped, WalkInv
<1> QED BY <1>2, <1>3 DEF IInv

LEMMA ArriveOK == ASSUME IInv, NEW fd \in Fd, Arrive(fd) PROVE IInv'
<1>1. /\ ready' = ready \cup {fd}
      /\ UNCHANGED <<timers, inputs, connect_list, ifd, ifd_tag, cdc_info_tag, partial,
                     opened, rd, pc, next, te, again>>
  BY DEF Arrive, lists, port, loop
<1>2. InputsTyped' /\ InputsAgree' /\ StaleIsClient' /\ TimersInv'
  BY <1>1 DEF IInv, InputsTyped, InputsAgree, StaleIsClient, TimersInv
<1>3. RestTyped' /\ WalkInv'
  BY <1>1 DEF IInv, RestTyped, WalkInv
<1> QED BY <1>2, <1>3 DEF IInv

LEMMA ElapseOK == ASSUME IInv, NEW i \in 1..3, Elapse(i) PROVE IInv'
<1>1. /\ pc \in {"select", "inputs"} /\ i \in DOMAIN timers
      /\ timers' = [timers EXCEPT ![i].due = TRUE]
      /\ UNCHANGED <<inputs, connect_list, ifd, ifd_tag, cdc_info_tag, partial, opened,
                     ready, rd, pc, next, te, again>>
  BY DEF Elapse, port, loop
<1>2. /\ timers \in Seq(TimerRecord) /\ i \in 1..Len(timers)
      /\ timers[i] \in TimerRecord
  BY <1>1 DEF IInv, TimersInv
<1> DEFINE q == [timers[i] EXCEPT !.due = TRUE]
<1>3. q \in TimerRecord /\ q.tag = timers[i].tag /\ q.callback = timers[i].callback
  BY <1>2 DEF TimerRecord
<1>4. timers' = [timers EXCEPT ![i] = q]
  BY <1>1
<1> HIDE DEF q
<1>5. /\ timers' \in Seq(TimerRecord) /\ Len(timers') = Len(timers)
      /\ \A j \in 1..Len(timers) : timers'[j] = IF j = i THEN q ELSE timers[j]
  BY <1>2, <1>3, <1>4
<1>6. \A j \in 1..Len(timers) : /\ timers'[j].tag = timers[j].tag
                                /\ timers'[j].callback = timers[j].callback
  BY <1>3, <1>5
<1>7. TimersInv'
  BY <1>1, <1>5, <1>6, SameTimers DEF IInv
<1>8. InputsTyped' /\ InputsAgree' /\ StaleIsClient'
  BY <1>1 DEF IInv, InputsTyped, InputsAgree, StaleIsClient
<1>9. RestTyped' /\ WalkInv'
  BY <1>1 DEF IInv, RestTyped, WalkInv
<1> QED BY <1>7, <1>8, <1>9 DEF IInv
-----------------------------------------------------------------------------
(* The invariant.                                                          *)

LEMMA InitOK == ASSUME Init PROVE IInv
<1>1. Serial \in Fd /\ Listen \in Fd /\ Serial # Closed /\ Serial # Listen
  BY MaxFdAssumption DEF Fd, Serial, Listen, Closed
<1>2. 1 \in InputTag /\ 2 \in InputTag /\ ifd_tag \in InputTag /\ ifd_tag # None
  BY MaxFdAssumption DEF Init, InputTag, None
<1>3. TimersInv
  <2> DEFINE a == Timer(2, "1s")
             b == Timer(1, "50ms")
  <2>1. /\ a \in TimerRecord /\ a.tag = 2 /\ a.callback = "1s"
        /\ b \in TimerRecord /\ b.tag = 1 /\ b.callback = "50ms"
    BY DEF Timer, TimerRecord, TimerTag
  <2>2. timers = <<a, b>> /\ cdc_info_tag = None
    BY DEF Init
  <2> HIDE DEF a, b
  <2>3. timers \in Seq(TimerRecord) /\ Len(timers) = 2 /\ timers[1] = a /\ timers[2] = b
    BY <2>1, <2>2
  <2>4. 2 - 1 = 1 /\ 2 # 3 /\ 2 \in {2, 3}
    OBVIOUS
  <2> QED BY <2>1, <2>2, <2>3, <2>4 DEF TimersInv
<1> DEFINE x == Input(2, "accept", Listen)
           y == Input(1, "ibus", Serial)
<1>4. /\ x \in InputRecord /\ x.tag = 2 /\ x.callback = "accept" /\ x.fd = Listen
      /\ y \in InputRecord /\ y.tag = 1 /\ y.callback = "ibus" /\ y.fd = Serial
  BY <1>1, <1>2 DEF Input, InputRecord, CallbackSet
<1>5. inputs = <<x, y>> /\ connect_list = <<>>
  BY DEF Init
<1> HIDE DEF x, y
<1>6. inputs \in Seq(InputRecord) /\ Len(inputs) = 2 /\ inputs[1] = x /\ inputs[2] = y
  BY <1>4, <1>5
<1>7. /\ connect_list \in Seq(Connection) /\ Len(connect_list) = 0
      /\ TagsOnce(connect_list) /\ \A tag, fd : ~Connected(connect_list, tag, fd)
  BY <1>5 DEF TagsOnce, Connected
<1>8. \A tag, callback, fd :
        Registered(inputs, tag, callback, fd)
          <=> \/ tag = 2 /\ callback = "accept" /\ fd = Listen
              \/ tag = 1 /\ callback = "ibus" /\ fd = Serial
  <2>1. \A i : i \in 1..2 <=> i = 1 \/ i = 2
    OBVIOUS
  <2> QED BY <1>4, <1>6, <2>1 DEF Registered
<1>9. TagsOnce(inputs)
  <2>1. \A i : i \in 1..2 <=> i = 1 \/ i = 2
    OBVIOUS
  <2> QED BY <1>4, <1>6, <2>1 DEF TagsOnce
<1>10. InputsTyped
  BY <1>1, <1>2, <1>6, <1>7, <1>9 DEF Init, InputsTyped
<1>11. InputsAgree
  <2>1. ifd = Serial /\ ifd_tag = 1 /\ opened = {Serial, Listen}
    BY DEF Init
  <2> QED BY <1>1, <1>2, <1>7, <1>8, <2>1 DEF InputsAgree
<1>12. WalkInv /\ StaleIsClient /\ RestTyped
  BY DEF Init, WalkInv, StaleIsClient, RestTyped
<1> QED BY <1>3, <1>10, <1>11, <1>12 DEF IInv

LEMMA NoStepOK == ASSUME IInv, UNCHANGED vars PROVE IInv'
<1>1. UNCHANGED <<timers, inputs, connect_list, ifd, ifd_tag, cdc_info_tag, partial,
                  opened, ready, rd, pc, next, te, again>>
  BY DEF vars, lists, port, loop
<1> QED BY <1>1 DEF IInv, TimersInv, WalkInv, InputsTyped, InputsAgree, StaleIsClient,
                    RestTyped

(* Every step of the loop and of its environment preserves the invariant.  *)
LEMMA Invariance == Spec => []IInv
<1>1. Init => IInv
  BY InitOK
<1>2. IInv /\ [Next]_vars => IInv'
  <2> SUFFICES ASSUME IInv, [Next]_vars PROVE IInv'
    OBVIOUS
  <2>1. CASE Loop
    BY <2>1, SelectOK, CheckInputOK, StartTimersOK, SkipTimerOK, CallTimerOK,
       TimerReturnedOK, EndPassOK DEF Loop
  <2>2. CASE \E fd \in Fd : Arrive(fd)
    BY <2>2, ArriveOK
  <2>3. CASE \E i \in 1..3 : Elapse(i)
    BY <2>3, ElapseOK
  <2>4. CASE UNCHANGED vars
    BY <2>4, NoStepOK
  <2> QED BY <2>1, <2>2, <2>3, <2>4 DEF Next
<1> QED BY <1>1, <1>2, PTL DEF Spec
-----------------------------------------------------------------------------
(* The two lists, the pointers into them and the descriptors keep their    *)
(* types: whatever the callbacks register and remove, what the loop of     *)
(* mainloop.c finds in its lists is a timer or an input.                   *)
THEOREM TypeCorrect == Spec => []TypeOK
<1>1. IInv => TypeOK
  BY DEF IInv, TypeOK, TimersInv, InputsTyped, RestTyped, TimerRecord, InputRecord,
         Connection, CallbackSet, TimerTag
<1> QED BY <1>1, Invariance, PTL

(* The walk of do_timers never follows a pointer to a freed timer: neither *)
(* the timer whose callback returned nor the one the walk goes on with has *)
(* been removed by the callback, however many descriptors there are.       *)
THEOREM PointersAreValid == Spec => []PointersValid
<1>1. IInv => PointersValid
  <2> SUFFICES ASSUME IInv PROVE PointersValid
    OBVIOUS
  <2>1. {1, 2} \subseteq Tags(timers)
    BY TimersOnce DEF IInv
  <2>2. Len(timers) = 3 => cdc_info_tag \in Tags(timers)
    <3>1. SUFFICES ASSUME Len(timers) = 3 PROVE cdc_info_tag \in Tags(timers)
      OBVIOUS
    <3>2. 1 \in 1..Len(timers) /\ timers[1].tag = cdc_info_tag
      BY <3>1 DEF IInv, TimersInv
    <3> QED BY <3>2, TimersOnce DEF IInv
  <2> QED BY <2>1, <2>2 DEF IInv, WalkInv, PointersValid
<1> QED BY <1>1, Invariance, PTL

(* Whenever no callback runs, the descriptors that select is given are the *)
(* open ones, each once; the server's connections are the clients among    *)
(* them; and the serial port is among them exactly while it is open.       *)
THEOREM ListsAreConsistent == Spec => []ListsConsistent
<1>1. IInv => ListsConsistent
  <2> SUFFICES ASSUME IInv PROVE ListsConsistent
    OBVIOUS
  <2>1. /\ InputsTyped /\ InputsAgree
        /\ DOMAIN inputs = 1..Len(inputs)
        /\ DOMAIN connect_list = 1..Len(connect_list)
    BY DEF IInv, InputsTyped
  <2>2. DescriptorsWatched
    <3>1. \A fd : fd \in Fds(inputs) <=> \E tag, callback : Registered(inputs, tag, callback, fd)
      BY <2>1 DEF Fds, Registered
    <3>2. opened = Fds(inputs)
      BY <2>1, <3>1 DEF InputsAgree
    <3>3. ASSUME NEW i \in 1..Len(inputs), NEW j \in 1..Len(inputs),
                 inputs[i].fd = inputs[j].fd
          PROVE  i = j
      <4>1. /\ Registered(inputs, inputs[i].tag, inputs[i].callback, inputs[i].fd)
            /\ Registered(inputs, inputs[j].tag, inputs[j].callback, inputs[i].fd)
        BY <3>3 DEF Registered
      <4>2. inputs[i].tag = inputs[j].tag
        BY <2>1, <4>1 DEF InputsAgree
      <4> QED BY <2>1, <4>2 DEF InputsTyped, TagsOnce
    <3> QED BY <2>1, <3>2, <3>3 DEF DescriptorsWatched
  <2>3. ConnectionsMatch
    <3> DEFINE C == {<<connect_list[i].tag, connect_list[i].socket>> :
                       i \in DOMAIN connect_list}
               R == {<<inputs[i].tag, inputs[i].fd>> :
                       i \in {j \in DOMAIN inputs : inputs[j].callback = "client"}}
    <3>1. \A e : e \in C <=> \E tag, fd : e = <<tag, fd>> /\ Connected(connect_list, tag, fd)
      BY <2>1 DEF Connected
    <3>2. \A e : e \in R <=> \E tag, fd : /\ e = <<tag, fd>>
                                          /\ Registered(inputs, tag, "client", fd)
      BY <2>1 DEF Registered
    <3> HIDE DEF C, R
    <3>3. \A e : e \in C <=> e \in R
      BY <2>1, <3>1, <3>2 DEF InputsAgree
    <3> QED BY <3>3 DEF ConnectionsMatch, C, R
  <2>4. SerialConsistent
    <3> DEFINE R == {<<inputs[i].tag, inputs[i].fd>> :
                       i \in {j \in DOMAIN inputs : inputs[j].callback = "ibus"}}
    <3>1. \A e : e \in R <=> \E tag, fd : /\ e = <<tag, fd>>
                                          /\ Registered(inputs, tag, "ibus", fd)
      BY <2>1 DEF Registered
    <3> HIDE DEF R
    <3>2. \A e : e \in R <=> e = <<ifd_tag, ifd>> /\ ifd # Closed
      BY <2>1, <3>1 DEF InputsAgree
    <3>3. R = IF ifd = Closed THEN {} ELSE {<<ifd_tag, ifd>>}
      BY <3>2
    <3>4. ifd = Closed <=> ifd_tag = None
      BY <2>1 DEF InputsAgree
    <3> QED BY <3>3, <3>4 DEF SerialConsistent, R
  <2> QED BY <2>2, <2>3, <2>4 DEF ListsConsistent
<1> QED BY <1>1, Invariance, PTL

(* A callback that runs for a descriptor which has nothing to read any     *)
(* more, because its number was closed and handed out again in the same    *)
(* pass, is a client's: accept() and the serial port's read are never      *)
(* called in vain.                                                         *)
THEOREM OnlyClientsLookStale == Spec => []OnlyClientsSeeStaleReadiness
<1>1. IInv => OnlyClientsSeeStaleReadiness
  <2> SUFFICES ASSUME IInv, pc = "inputs", NEW i \in Pending,
                      inputs[i].fd \in rd \ ready
               PROVE  inputs[i].callback = "client"
    BY DEF OnlyClientsSeeStaleReadiness
  <2>1. i \in 1..Len(inputs) /\ ~inputs[i].checked
    BY DEF IInv, InputsTyped, Pending
  <2>2. Unvisited(inputs, inputs[i].tag, inputs[i].callback, inputs[i].fd)
    BY <2>1 DEF Unvisited
  <2> QED BY <2>2 DEF IInv, StaleIsClient
<1> QED BY <1>1, Invariance, PTL
-----------------------------------------------------------------------------
(***************************************************************************)
(* What server_read does with the bytes of the clients that the main loop  *)
(* calls it for (module Server), proved for every number of clients, every *)
(* script, and buffers of every size.                                      *)
(***************************************************************************)
LEMMA RankBounds ==
  ASSUME NEW S \in SUBSET Nat, IsFiniteSet(S), NEW i \in S
  PROVE  /\ Rank(S, i) \in Nat
         /\ 1 <= Rank(S, i) /\ Rank(S, i) <= Cardinality(S)
         /\ Cardinality(S) \in Nat
<1> DEFINE upto == {j \in S : j <= i}
<1>1. IsFiniteSet(upto) /\ Cardinality(upto) <= Cardinality(S)
  BY FS_Subset
<1>2. Cardinality(upto) \in Nat /\ Cardinality(S) \in Nat
  BY <1>1, FS_CardinalityType
<1>3. i \in upto
  OBVIOUS
<1>4. Cardinality(upto) # 0
  BY <1>1, <1>3, FS_EmptySet
<1> HIDE DEF upto
<1>5. 1 <= Cardinality(upto)
  BY <1>2, <1>4
<1> QED BY <1>1, <1>2, <1>5 DEF Rank, upto

(* A place behind all others does not change which ones those are.         *)
LEMMA RankGrows ==
  ASSUME NEW S \in SUBSET Nat, IsFiniteSet(S), NEW n \in Nat, \A i \in S : i < n
  PROVE  /\ IsFiniteSet(S \cup {n}) /\ S \cup {n} \in SUBSET Nat
         /\ Cardinality(S) \in Nat /\ Cardinality(S \cup {n}) = Cardinality(S) + 1
         /\ \A i \in S : Rank(S \cup {n}, i) = Rank(S, i)
         /\ Rank(S \cup {n}, n) = Cardinality(S) + 1
<1>1. n \notin S
  OBVIOUS
<1>2. /\ IsFiniteSet(S \cup {n}) /\ Cardinality(S \cup {n}) = Cardinality(S) + 1
      /\ Cardinality(S) \in Nat
  BY <1>1, FS_AddElement, FS_CardinalityType
<1>3. ASSUME NEW i \in S PROVE Rank(S \cup {n}, i) = Rank(S, i)
  <2>1. {j \in S \cup {n} : j <= i} = {j \in S : j <= i}
    OBVIOUS
  <2> QED BY <2>1 DEF Rank
<1>4. {j \in S \cup {n} : j <= n} = S \cup {n}
  <2>1. \A j \in S \cup {n} : j <= n
    OBVIOUS
  <2> QED BY <2>1, Zenon
<1>5. Rank(S \cup {n}, n) = Cardinality(S) + 1
  BY <1>2, <1>4 DEF Rank
<1> QED BY <1>2, <1>3, <1>5

(* a is a place behind all those of S.                                     *)
Behind(S, a) == S \in SUBSET Nat /\ IsFiniteSet(S) /\ a \in Nat /\ \A i \in S : i < a

(* The n-th of one is the n-th of the other, when both get one more.       *)
LEMMA RankPairs ==
  ASSUME NEW S, NEW a, Behind(S, a), NEW T, NEW b, Behind(T, b),
         Cardinality(S) = Cardinality(T)
  PROVE  \A i \in S \cup {a}, j \in T \cup {b} :
           Rank(S \cup {a}, i) = Rank(T \cup {b}, j) =>
             \/ i = a /\ j = b
             \/ i \in S /\ j \in T /\ Rank(S, i) = Rank(T, j)
<1> SUFFICES ASSUME NEW i \in S \cup {a}, NEW j \in T \cup {b},
                    Rank(S \cup {a}, i) = Rank(T \cup {b}, j)
             PROVE  \/ i = a /\ j = b
                    \/ i \in S /\ j \in T /\ Rank(S, i) = Rank(T, j)
  OBVIOUS
<1>1. /\ Cardinality(S) \in Nat
      /\ \A k \in S : Rank(S \cup {a}, k) = Rank(S, k)
      /\ Rank(S \cup {a}, a) = Cardinality(S) + 1
  BY RankGrows DEF Behind
<1>2. /\ \A k \in T : Rank(T \cup {b}, k) = Rank(T, k)
      /\ Rank(T \cup {b}, b) = Cardinality(T) + 1
  BY RankGrows DEF Behind
<1>3. CASE i = a /\ j \in T
  <2>1. Rank(T, j) \in Nat /\ Rank(T, j) <= Cardinality(T)
    BY <1>3, RankBounds DEF Behind
  <2>2. Rank(T \cup {b}, j) = Rank(T, j)
    BY <1>2, <1>3
  <2>3. Rank(S \cup {a}, i) = Cardinality(S) + 1
    BY <1>1, <1>3
  <2> QED BY <1>1, <2>1, <2>2, <2>3
<1>4. CASE i \in S /\ j = b
  <2>1. Rank(S, i) \in Nat /\ Rank(S, i) <= Cardinality(S)
    BY <1>4, RankBounds DEF Behind
  <2>2. Rank(S \cup {a}, i) = Rank(S, i)
    BY <1>1, <1>4
  <2>3. Rank(T \cup {b}, j) = Cardinality(S) + 1
    BY <1>2, <1>4
  <2>4. Rank(S, i) = Cardinality(S) + 1
    BY <2>2, <2>3
  <2> QED BY <1>1, <2>1, <2>4
<1>5. CASE i \in S /\ j \in T
  BY <1>1, <1>2, <1>5
<1> QED BY <1>3, <1>4, <1>5

(* What a byte more in the text makes of the buffer.                       *)
LEMMA StoreHolds ==
  ASSUME CmdSize \in Nat \ {0}, NEW S \in SUBSET Nat, IsFiniteSet(S), NEW n \in Nat,
         \A i \in S : i < n,
         NEW text, NEW A, NEW buffer \in Seq(A), text[n] \in A,
         Holds(buffer, text, S)
  PROVE  Holds(Store(buffer, text[n]), text, S \cup {n})
<1> DEFINE S2 == S \cup {n}
<1>1. /\ Cardinality(S) \in Nat /\ Cardinality(S2) = Cardinality(S) + 1
      /\ \A i \in S : Rank(S2, i) = Rank(S, i)
      /\ Rank(S2, n) = Cardinality(S) + 1
  BY RankGrows
<1>2. /\ Len(buffer) = IF Cardinality(S) < CmdSize THEN Cardinality(S) ELSE CmdSize - 1
      /\ \A i \in S : Rank(S, i) < CmdSize => buffer[Rank(S, i)] = text[i]
  BY DEF Holds
<1>3. \A i \in S : /\ Rank(S, i) \in Nat /\ 1 <= Rank(S, i)
                   /\ Rank(S, i) <= Cardinality(S)
  BY RankBounds
<1> HIDE DEF S2
<1>4. CASE Len(buffer) < CmdSize - 1
  <2>1. Len(buffer) = Cardinality(S) /\ Cardinality(S) + 1 < CmdSize
    BY <1>1, <1>2, <1>4
  <2> DEFINE new == Append(buffer, text[n])
  <2>2. Store(buffer, text[n]) = new
    BY <1>4 DEF Store
  <2>3. Len(new) = Len(buffer) + 1 /\ new[Len(buffer) + 1] = text[n]
        /\ \A k \in 1 .. Len(buffer) : new[k] = buffer[k]
    BY AppendProperties
  <2> HIDE DEF new
  <2>4. \A i \in S : new[Rank(S2, i)] = text[i]
    <3> TAKE i \in S
    <3>1. Rank(S, i) \in 1 .. Len(buffer) /\ Rank(S, i) < CmdSize
      BY <1>1, <1>3, <2>1
    <3> QED BY <1>1, <1>2, <2>3, <3>1
  <2>5. new[Rank(S2, n)] = text[n]
    BY <1>1, <2>1, <2>3
  <2>6. Len(new) = IF Cardinality(S2) < CmdSize THEN Cardinality(S2) ELSE CmdSize - 1
    BY <1>1, <2>1, <2>3
  <2> QED BY <2>2, <2>4, <2>5, <2>6 DEF Holds, S2
<1>5. CASE ~(Len(buffer) < CmdSize - 1)
  <2>1. Store(buffer, text[n]) = buffer
    BY <1>5 DEF Store
  <2>2. Cardinality(S) + 1 >= CmdSize /\ Len(buffer) = CmdSize - 1
    BY <1>1, <1>2, <1>5
  <2>3. \A i \in S : Rank(S2, i) < CmdSize => buffer[Rank(S2, i)] = text[i]
    BY <1>1, <1>2
  <2>4. ~(Rank(S2, n) < CmdSize)
    BY <1>1, <2>2
  <2>5. Len(buffer) = IF Cardinality(S2) < CmdSize THEN Cardinality(S2) ELSE CmdSize - 1
    BY <1>1, <2>2
  <2> QED BY <2>1, <2>3, <2>4, <2>5 DEF Holds, S2
<1> QED BY <1>4, <1>5

LEMMA NothingHeld ==
  ASSUME CmdSize \in Nat \ {0}, NEW text
  PROVE  Holds(<<>>, text, {})
BY FS_EmptySet DEF Holds

(* The line that a byte more belongs to, and the ends of lines up to it.   *)
LEMMA NextPlace ==
  ASSUME NEW text, NEW n \in Nat \ {0}
  PROVE  /\ InLine(text, n + 1) =
              IF text[n] = NL THEN {}
              ELSE IF text[n] = CR THEN InLine(text, n)
              ELSE InLine(text, n) \cup {n}
         /\ Ends(text, n) =
              IF text[n] = NL THEN Ends(text, n - 1) \cup {n}
              ELSE Ends(text, n - 1)
<1> USE DEF InLine, Ends
<1>1. Ends(text, n) =
        IF text[n] = NL THEN Ends(text, n - 1) \cup {n}
        ELSE Ends(text, n - 1)
  <2>1. 1 .. n = (1 .. n - 1) \cup {n}
    OBVIOUS
  <2> QED BY <2>1
<1>2. CASE text[n] = NL
  <2>1. \A j \in 1 .. n : n \in j .. n
    OBVIOUS
  <2> QED BY <1>1, <1>2, <2>1
<1>3. CASE text[n] = CR /\ text[n] # NL
  <2>1. \A j : j \in InLine(text, n + 1) <=> j \in InLine(text, n)
    BY <1>3
  <2> QED BY <1>1, <1>3, <2>1
<1>4. CASE text[n] # CR /\ text[n] # NL
  <2>1. \A j : j \in InLine(text, n + 1) <=> j \in InLine(text, n) \cup {n}
    BY <1>4
  <2> QED BY <1>1, <1>4, <2>1
<1> QED BY <1>2, <1>3, <1>4

LEMMA PlaceTypes ==
  ASSUME NEW text, NEW n \in Nat
  PROVE  /\ InLine(text, n) \in SUBSET Nat /\ IsFiniteSet(InLine(text, n))
         /\ \A j \in InLine(text, n) : 1 <= j /\ j < n
         /\ Ends(text, n) \in SUBSET Nat /\ IsFiniteSet(Ends(text, n))
         /\ \A j \in Ends(text, n) : 1 <= j /\ j <= n
<1>1. IsFiniteSet(1 .. n - 1) /\ IsFiniteSet(1 .. n)
  BY FS_Interval
<1>2. InLine(text, n) \subseteq 1 .. n - 1 /\ Ends(text, n) \subseteq 1 .. n
  BY DEF InLine, Ends
<1>3. IsFiniteSet(InLine(text, n)) /\ IsFiniteSet(Ends(text, n))
  BY <1>1, <1>2, FS_Subset
<1> QED BY <1>2, <1>3

(* Only what was read of a text matters.                                   *)
LEMMA SameBeginning ==
  ASSUME NEW text, NEW other, NEW n \in Nat, \A j \in 1 .. n : other[j] = text[j]
  PROVE  /\ Ends(other, n) = Ends(text, n)
         /\ \A i \in 1 .. n + 1 : \A buffer :
              Holds(buffer, text, InLine(text, i)) =>
                Holds(buffer, other, InLine(other, i))
<1>1. Ends(other, n) = Ends(text, n)
  BY DEF Ends
<1>2. ASSUME NEW i \in 1 .. n + 1, NEW buffer,
             Holds(buffer, text, InLine(text, i))
      PROVE  Holds(buffer, other, InLine(other, i))
  <2>1. \A j \in 1 .. i - 1 : other[j] = text[j] /\ \A k \in j .. i - 1 : other[k] = text[k]
    OBVIOUS
  <2>2. InLine(other, i) = InLine(text, i)
    BY <2>1 DEF InLine
  <2>3. \A j \in InLine(text, i) : other[j] = text[j]
    BY <2>1 DEF InLine
  <2> QED BY <1>2, <2>2, <2>3 DEF Holds
<1> QED BY <1>1, <1>2

PeerState == {"away", "here", "gone", "reset"}

(* What an announcement changes: those that are connected and did not fail *)
(* are told.                                                               *)
LEMMA AnnounceTells ==
  ASSUME ServerTypeOK, NEW lines \in Seq(News), Announce(lines)
  PROVE  /\ announced' = announced \o lines /\ announced' \in Seq(News)
         /\ alive' \in BOOLEAN /\ peer' \in [Client -> PeerState]
         /\ \A c \in Client : /\ peer'[c] = "here" => peer[c] = "here"
                              /\ peer'[c] = "away" => peer[c] = "away"
         /\ lost \subseteq lost' /\ lost' \subseteq Client
         /\ received' \in [Client -> Seq(News)]
         /\ \A c \in Listed \ lost' :
              peer[c] = "here" => received'[c] = received[c] \o lines
<1> DEFINE to   == Listed
           here == {c \in to : peer[c] = "here"}
<1>1. /\ announced \in Seq(News) /\ peer \in [Client -> PeerState]
      /\ received \in [Client -> Seq(News)] /\ lost \subseteq Client
      /\ connections \in Seq(Client)
  BY DEF ServerTypeOK, PeerState
<1>2. to \subseteq Client
  BY <1>1 DEF Listed
<1>3. PICK full \in SUBSET here :
        /\ announced' = announced \o lines
        /\ alive' = (\A c \in to : peer[c] # "reset")
        /\ peer' = [c \in Client |-> IF c \in to THEN WrittenTo(peer[c]) ELSE peer[c]]
        /\ lost' = lost \cup full
        /\ received' = [c \in Client |->
             IF c \in lost' THEN <<>>
             ELSE IF c \in here THEN received[c] \o lines ELSE received[c]]
  BY Zenon DEF Announce, Walk, Listed
<1>4. announced' \in Seq(News)
  BY <1>1, <1>3, ConcatProperties
<1>5. alive' \in BOOLEAN
  BY <1>3
<1>6. /\ peer' \in [Client -> PeerState]
      /\ \A c \in Client : /\ peer'[c] = "here" => peer[c] = "here"
                           /\ peer'[c] = "away" => peer[c] = "away"
  BY <1>1, <1>3 DEF WrittenTo, PeerState
<1>7. lost \subseteq lost' /\ lost' \subseteq Client
  BY <1>1, <1>2, <1>3
<1>8. \A c \in Client : received[c] \o lines \in Seq(News) /\ <<>> \in Seq(News)
  BY <1>1, ConcatProperties
<1>9. received' \in [Client -> Seq(News)]
  <2> HIDE DEF to, here
  <2> QED BY <1>1, <1>3, <1>8
<1>10. \A c \in to \ lost' : peer[c] = "here" => received'[c] = received[c] \o lines
  BY <1>2, <1>3
<1> QED BY <1>3, <1>4, <1>5, <1>6, <1>7, <1>9, <1>10

(* The bytes behind the last end of a line are in the buffer.              *)
BufferHolds ==
  \A c \in Client :
    Holds(cmd[c], script[c], InLine(script[c], taken[c] + 1))

Own(c) == {n \in DOMAIN handled : handled[n].client = c}

OwnLines(c) ==
  /\ Cardinality(Own(c)) = Cardinality(Ends(script[c], taken[c]))
  /\ \A n \in Own(c), i \in Ends(script[c], taken[c]) :
       Rank(Own(c), n) = Rank(Ends(script[c], taken[c]), i) =>
         Holds(handled[n].line, script[c], InLine(script[c], i))

(* The lines that ask for a message, the others, and the errors.           *)
Good   == {n \in DOMAIN handled : Asks(handled[n].line)}
Bad    == DOMAIN handled \ Good
Errors == {n \in DOMAIN announced : announced[n].kind = "error"}
ErrorFor(line) == Error(IF line # <<>> /\ line[1] = Tx THEN 1 ELSE 0)

LinesSent ==
  /\ Len(sent) = Cardinality(Good)
  /\ \A n \in Good : sent[Rank(Good, n)] = handled[n].line[2]

LinesRefused ==
  /\ Cardinality(Errors) = Cardinality(Bad)
  /\ \A n \in Bad, e \in Errors :
       Rank(Bad, n) = Rank(Errors, e) =>
         announced[e] = ErrorFor(handled[n].line)

(* Connections are of clients that came, and those that lost nothing have  *)
(* been told everything, whether the program still runs or not.            *)
Arrived ==
  /\ Listed \subseteq accepted
  /\ \A c \in accepted : peer[c] # "away"

Told == \A c \in Listed \ lost : peer[c] = "here" => received[c] = announced

ServerInv ==
  /\ ServerTypeOK /\ BufferHolds /\ (\A c \in Client : OwnLines(c))
  /\ LinesSent /\ LinesRefused /\ Arrived /\ Told

LEMMA ServerInvMeans ==
  ASSUME ServerInv
  PROVE  LinesHandled /\ EveryLineCounts /\ SameNews
<1>1. LinesHandled
  <2> SUFFICES ASSUME NEW c \in Client
      PROVE LET own  == {n \in DOMAIN handled : handled[n].client = c}
                ends == Ends(script[c], taken[c])
            IN  /\ Cardinality(own) = Cardinality(ends)
                /\ \A n \in own, i \in ends :
                     Rank(own, n) = Rank(ends, i) =>
                       Holds(handled[n].line, script[c], InLine(script[c], i))
    BY DEF LinesHandled
  <2>1. OwnLines(c)
    BY DEF ServerInv
  <2> QED BY <2>1 DEF OwnLines, Own
<1>2. EveryLineCounts
  <2>1. LinesSent /\ LinesRefused
    BY DEF ServerInv
  <2> QED BY <2>1
          DEF EveryLineCounts, LinesSent, LinesRefused, Good, Bad, Errors, ErrorFor
<1>3. SameNews
  BY DEF ServerInv, Told, SameNews
<1> QED BY <1>1, <1>2, <1>3

LEMMA ServerBegins == ASSUME ServerInit PROVE ServerInv
<1>1. CmdSize \in Nat \ {0} /\ Scripts \subseteq Seq(Char)
  BY ServerAssumption DEF ServerAssumption
<1>2. /\ connections = <<>> /\ cmd = [c \in Client |-> <<>>] /\ serving = Nobody
      /\ alive = TRUE /\ sent = <<>> /\ script \in [Client -> Scripts]
      /\ taken = [c \in Client |-> 0] /\ peer = [c \in Client |-> "away"]
      /\ accepted = {} /\ handled = <<>> /\ announced = <<>>
      /\ received = [c \in Client |-> <<>>] /\ lost = {}
  BY DEF ServerInit
<1>3. script \in [Client -> Seq(Char)]
  BY <1>1, <1>2
<1>4. ServerTypeOK
  <2>1. \A c \in Client : Len(cmd[c]) < CmdSize /\ taken[c] <= Len(script[c])
    BY <1>1, <1>2, <1>3
  <2> QED BY <1>2, <1>3, <2>1 DEF ServerTypeOK
<1>5. \A c \in Client : /\ InLine(script[c], taken[c] + 1) = {}
                        /\ Ends(script[c], taken[c]) = {}
  BY <1>2 DEF InLine, Ends
<1>6. BufferHolds
  BY <1>1, <1>2, <1>5, NothingHeld DEF BufferHolds
<1>7. DOMAIN handled = {} /\ DOMAIN announced = {}
  BY <1>2
<1>8. \A c \in Client : OwnLines(c)
  BY <1>5, <1>7 DEF OwnLines, Own
<1>9. Good = {} /\ Bad = {} /\ Errors = {}
  BY <1>7 DEF Good, Bad, Errors
<1>10. LinesSent /\ LinesRefused
  BY <1>2, <1>9, FS_EmptySet DEF LinesSent, LinesRefused
<1>11. Arrived /\ Told
  BY <1>2 DEF Arrived, Told, Listed
<1> QED BY <1>4, <1>6, <1>8, <1>10, <1>11 DEF ServerInv

(* A step that reads nothing leaves the lines, one that handles none and   *)
(* announces no error leaves the counts.                                   *)
LEMMA LinesKept ==
  ASSUME BufferHolds, \A c \in Client : OwnLines(c), UNCHANGED <<cmd, script, taken, handled>>
  PROVE  BufferHolds' /\ (\A c \in Client : OwnLines(c))'
<1>1. BufferHolds'
  BY DEF BufferHolds
<1>2. ASSUME NEW c \in Client PROVE OwnLines(c)'
  <2>1. Own(c)' = Own(c)
    BY DEF Own
  <2> QED BY <2>1 DEF OwnLines
<1> QED BY <1>1, <1>2

LEMMA CountsKept ==
  ASSUME LinesSent, LinesRefused, UNCHANGED <<handled, sent, announced>>
  PROVE  LinesSent' /\ LinesRefused'
<1>1. Good' = Good /\ Bad' = Bad /\ Errors' = Errors
  BY DEF Good, Bad, Errors
<1> QED BY <1>1 DEF LinesSent, LinesRefused

LEMMA ToldSame ==
  ASSUME Told, UNCHANGED <<lost, received, announced>>,
         Listed' \subseteq Listed,
         \A c \in Listed : peer'[c] = "here" => peer[c] = "here"
  PROVE  Told'
BY DEF Told

LEMMA ArrivedSame ==
  ASSUME Arrived, accepted \subseteq Client, accepted' = accepted,
         Listed' \subseteq Listed,
         \A c \in Client : peer'[c] = "away" => peer[c] = "away"
  PROVE  Arrived'
BY DEF Arrived

LEMMA ConnectStep ==
  ASSUME ServerInv, NEW c \in Client, Connect(c)
  PROVE  ServerInv'
<1>1. /\ peer[c] = "away" /\ peer' = [peer EXCEPT ![c] = "here"]
      /\ UNCHANGED <<connections, cmd, serving, alive, sent, script, taken, accepted,
                     handled, announced, received, lost>>
  BY DEF Connect, program, news
<1>2. Listed' = Listed
  BY <1>1 DEF Listed
<1>3. ServerTypeOK'
  BY <1>1 DEF ServerInv, ServerTypeOK
<1>4. peer \in [Client -> PeerState] /\ accepted \subseteq Client
  BY DEF ServerInv, ServerTypeOK, PeerState
<1>5. c \notin Listed
  BY <1>1 DEF ServerInv, Arrived
<1>6. Told'
  BY <1>1, <1>2, <1>4, <1>5, ToldSame DEF ServerInv, Arrived
<1>7. Arrived'
  BY <1>1, <1>2, <1>4, ArrivedSame DEF ServerInv
<1> QED BY <1>1, <1>3, <1>6, <1>7, LinesKept, CountsKept DEF ServerInv

LEMMA LeaveStep ==
  ASSUME ServerInv, NEW c \in Client, Leave(c)
  PROVE  ServerInv'
<1>1. /\ peer[c] = "here" /\ peer' = [peer EXCEPT ![c] = "gone"]
      /\ received' = [received EXCEPT ![c] = <<>>]
      /\ UNCHANGED <<connections, cmd, serving, alive, sent, taken, accepted,
                     handled, announced, lost>>
  BY DEF Leave, program
<1>2. PICK n \in taken[c] .. Len(script[c]) : script' = [script EXCEPT ![c] = SubSeq(@, 1, n)]
  BY DEF Leave
<1>3. /\ script \in [Client -> Seq(Char)] /\ taken \in [Client -> Nat]
      /\ \A d \in Client : taken[d] <= Len(script[d])
      /\ peer \in [Client -> PeerState] /\ accepted \subseteq Client
      /\ received \in [Client -> Seq(News)]
  BY DEF ServerInv, ServerTypeOK, PeerState
<1> DEFINE part == SubSeq(script[c], 1, n)
<1>4. /\ part \in Seq(Char) /\ Len(part) = n
      /\ \A j \in 1 .. n : part[j] = script[c][j]
  <2>1. n \in Nat /\ n <= Len(script[c]) /\ script[c] \in Seq(Char)
    BY <1>2, <1>3
  <2>2. \A j \in 1 .. n : script[c][j] \in Char
    BY <2>1
  <2> QED BY <2>1, <2>2, SubSeqProperties
<1>5. /\ script' \in [Client -> Seq(Char)]
      /\ script'[c] = part /\ \A d \in Client : d # c => script'[d] = script[d]
  BY <1>2, <1>3, <1>4
<1> HIDE DEF part
<1>6. \A d \in Client : taken[d] <= Len(script'[d])
  BY <1>2, <1>3, <1>4, <1>5
<1>7. \A d \in Client : \A j \in 1 .. taken[d] : script'[d][j] = script[d][j]
  BY <1>2, <1>3, <1>4, <1>5
<1>8. ASSUME NEW d \in Client
      PROVE  /\ Ends(script'[d], taken[d]) = Ends(script[d], taken[d])
             /\ \A i \in 1 .. taken[d] + 1 : \A buffer :
                  Holds(buffer, script[d], InLine(script[d], i)) =>
                    Holds(buffer, script'[d], InLine(script'[d], i))
  <2> DEFINE old == script[d]
             new == script'[d]
             m   == taken[d]
  <2>1. m \in Nat /\ \A j \in 1 .. m : new[j] = old[j]
    BY <1>3, <1>7
  <2> HIDE DEF old, new, m
  <2>2. /\ Ends(new, m) = Ends(old, m)
        /\ \A i \in 1 .. m + 1 : \A buffer :
             Holds(buffer, old, InLine(old, i)) =>
               Holds(buffer, new, InLine(new, i))
    BY <2>1, SameBeginning
  <2> QED BY <2>2 DEF old, new, m
<1>9. BufferHolds'
  <2> SUFFICES ASSUME NEW d \in Client
      PROVE  Holds(cmd[d], script'[d], InLine(script'[d], taken[d] + 1))
    BY <1>1 DEF BufferHolds
  <2>1. Holds(cmd[d], script[d], InLine(script[d], taken[d] + 1))
    BY DEF ServerInv, BufferHolds
  <2>2. taken[d] + 1 \in 1 .. taken[d] + 1
    BY <1>3
  <2> QED BY <1>8, <2>1, <2>2
<1>10. ASSUME NEW d \in Client PROVE OwnLines(d)'
  <2>1. OwnLines(d)
    BY DEF ServerInv
  <2>2. Own(d)' = Own(d)
    BY <1>1 DEF Own
  <2>3. \A i \in Ends(script[d], taken[d]) : i \in 1 .. taken[d] + 1
    BY <1>3, PlaceTypes
  <2> QED BY <1>1, <1>8, <2>1, <2>2, <2>3 DEF OwnLines
<1>11. Listed' = Listed
  BY <1>1 DEF Listed
<1>12. \A d \in Client : /\ peer'[d] = "here" => d # c /\ peer[d] = "here"
                         /\ peer'[d] = "away" => peer[d] = "away"
  BY <1>1, <1>3
<1>13. Arrived'
  BY <1>1, <1>3, <1>11, <1>12, ArrivedSame DEF ServerInv
<1>14. Told'
  <2>1. Listed \subseteq Client
    BY <1>3 DEF ServerInv, Arrived
  <2>2. \A d \in Client : d # c => received'[d] = received[d]
    BY <1>1, <1>3
  <2> QED BY <1>1, <1>11, <1>12, <2>1, <2>2 DEF ServerInv, Told
<1>15. ServerTypeOK'
  <2>1. /\ peer' \in [Client -> PeerState] /\ received' \in [Client -> Seq(News)]
    BY <1>1, <1>3 DEF PeerState
  <2> QED BY <1>1, <1>5, <1>6, <2>1 DEF ServerInv, ServerTypeOK, PeerState
<1> QED BY <1>1, <1>9, <1>10, <1>13, <1>14, <1>15, CountsKept DEF ServerInv

LEMMA AcceptStep ==
  ASSUME ServerInv, NEW c \in Client, Accept(c)
  PROVE  ServerInv'
<1>1. /\ peer[c] # "away" /\ accepted' = accepted \cup {c}
      /\ connections' = <<c>> \o connections
      /\ received' = [received EXCEPT ![c] = announced]
      /\ UNCHANGED <<cmd, serving, alive, sent, script, taken, peer, handled, announced, lost>>
  BY DEF Accept
<1>2. /\ connections \in Seq(Client) /\ received \in [Client -> Seq(News)]
      /\ announced \in Seq(News) /\ accepted \subseteq Client
  BY DEF ServerInv, ServerTypeOK
<1>3. /\ connections' \in Seq(Client)
      /\ \A i \in DOMAIN connections' : connections'[i] \in Listed \cup {c}
  <2>1. /\ <<c>> \in Seq(Client) /\ Len(<<c>>) = 1 /\ <<c>>[1] = c
    OBVIOUS
  <2>2. /\ connections' \in Seq(Client) /\ Len(connections') = 1 + Len(connections)
        /\ \A i \in 1 .. Len(connections') :
             connections'[i] = IF i <= 1 THEN <<c>>[i] ELSE connections[i - 1]
    BY <1>1, <1>2, <2>1, ConcatProperties
  <2>3. DOMAIN connections = 1 .. Len(connections) /\ Len(connections) \in Nat
        /\ DOMAIN connections' = 1 .. 1 + Len(connections)
    BY <1>2, <2>2
  <2>4. ASSUME NEW i \in 1 .. 1 + Len(connections)
        PROVE  connections'[i] \in Listed \cup {c}
    <3>1. CASE i = 1
      BY <2>1, <2>2, <2>3, <3>1
    <3>2. CASE i # 1
      <4>1. connections'[i] = connections[i - 1] /\ i - 1 \in DOMAIN connections
        BY <2>2, <2>3, <3>2
      <4> QED BY <4>1 DEF Listed
    <3> QED BY <3>1, <3>2
  <2> QED BY <2>2, <2>3, <2>4
<1>4. Listed' \subseteq Listed \cup {c}
  <2>1. Listed' = {connections'[i] : i \in DOMAIN connections'}
    BY DEF Listed
  <2> QED BY <1>3, <2>1
<1>5. received' \in [Client -> Seq(News)] /\ accepted' \subseteq Client
  BY <1>1, <1>2
<1>6. ServerTypeOK'
  BY <1>1, <1>3, <1>5 DEF ServerInv, ServerTypeOK
<1>7. Arrived'
  BY <1>1, <1>4 DEF ServerInv, Arrived
<1>8. Told'
  <2>1. Listed \subseteq Client
    BY <1>2 DEF ServerInv, Arrived
  <2>2. received'[c] = announced /\ \A d \in Client \ {c} : received'[d] = received[d]
    BY <1>1, <1>2
  <2> QED BY <1>1, <1>4, <2>1, <2>2 DEF ServerInv, Told
<1> QED BY <1>1, <1>6, <1>7, <1>8, LinesKept, CountsKept DEF ServerInv

LEMMA ServeStep ==
  ASSUME ServerInv, NEW c \in Client, Serve(c)
  PROVE  ServerInv'
<1>1. /\ serving' = c
      /\ UNCHANGED <<connections, cmd, alive, sent, script, taken, peer, accepted, handled,
                     announced, received, lost>>
  BY DEF Serve, news
<1>2. Listed' = Listed
  BY <1>1 DEF Listed
<1>3. ServerTypeOK'
  BY <1>1 DEF ServerInv, ServerTypeOK
<1>4. Told' /\ Arrived'
  BY <1>1, <1>2 DEF ServerInv, Told, Arrived
<1> QED BY <1>1, <1>3, <1>4, LinesKept, CountsKept DEF ServerInv

LEMMA WithoutOne ==
  ASSUME NEW list \in Seq(Client), NEW i \in 1 .. Len(list)
  PROVE  /\ Removed(list, i) \in Seq(Client)
         /\ \A j \in DOMAIN Removed(list, i) :
              \E k \in DOMAIN list : Removed(list, i)[j] = list[k]
<1> DEFINE before == SubSeq(list, 1, i - 1)
           after  == SubSeq(list, i + 1, Len(list))
<1>1. /\ before \in Seq(Client) /\ Len(before) = i - 1
      /\ \A j \in 1 .. i - 1 : before[j] = list[j]
  BY SubSeqProperties
<1>2. /\ after \in Seq(Client) /\ Len(after) = Len(list) - i
      /\ \A j \in 1 .. Len(list) - i : after[j] = list[i + j]
  <2>1. \A j \in i + 1 .. Len(list) : list[j] \in Client
    OBVIOUS
  <2>2. CASE i = Len(list)
    BY <2>2, SubSeqProperties
  <2>3. CASE i < Len(list)
    <3>1. /\ after \in Seq(Client) /\ Len(after) = Len(list) - (i + 1) + 1
          /\ \A j \in 1 .. Len(list) - (i + 1) + 1 : after[j] = list[(i + 1) + j - 1]
      BY <2>1, <2>3, SubSeqProperties
    <3> QED BY <2>3, <3>1
  <2> QED BY <2>2, <2>3
<1> HIDE DEF before, after
<1>3. /\ before \o after \in Seq(Client) /\ Len(before \o after) = Len(before) + Len(after)
      /\ \A j \in 1 .. Len(before) + Len(after) :
           (before \o after)[j] = IF j <= Len(before) THEN before[j] ELSE after[j - Len(before)]
  BY <1>1, <1>2, ConcatProperties
<1>4. ASSUME NEW j \in 1 .. Len(before) + Len(after)
      PROVE  \E k \in 1 .. Len(list) : (before \o after)[j] = list[k]
  <2>1. CASE j <= i - 1
    BY <1>1, <1>2, <1>3, <2>1
  <2>2. CASE ~(j <= i - 1)
    <3>1. j - (i - 1) \in 1 .. Len(list) - i
      BY <1>1, <1>2, <2>2
    <3>2. (before \o after)[j] = list[i + (j - (i - 1))] /\ i + (j - (i - 1)) \in 1 .. Len(list)
      BY <1>1, <1>2, <1>3, <2>2, <3>1
    <3> QED BY <3>2
  <2> QED BY <2>1, <2>2
<1>5. Removed(list, i) = before \o after
  BY DEF Removed, before, after
<1>6. DOMAIN (before \o after) = 1 .. Len(before) + Len(after) /\ DOMAIN list = 1 .. Len(list)
  BY <1>3
<1> QED BY <1>3, <1>4, <1>5, <1>6

LEMMA ReadNothingStep ==
  ASSUME ServerInv, ReadNothing
  PROVE  ServerInv'
<1>1. UNCHANGED <<cmd, alive, sent, script, taken, peer, accepted, handled,
                  announced, received, lost>>
  BY DEF ReadNothing, news
<1>2. /\ serving' = Nobody
      /\ \/ UNCHANGED connections
         \/ \E i \in DOMAIN connections : connections' = Removed(connections, i)
  BY DEF ReadNothing, Return, CloseConnection
<1>3. connections \in Seq(Client) /\ accepted \subseteq Client
  BY DEF ServerInv, ServerTypeOK
<1>4. connections' \in Seq(Client) /\ Listed' \subseteq Listed
  <2>1. CASE UNCHANGED connections
    BY <1>3, <2>1 DEF Listed
  <2>2. ASSUME NEW i \in DOMAIN connections, connections' = Removed(connections, i)
        PROVE  connections' \in Seq(Client) /\ Listed' \subseteq Listed
    <3>1. /\ connections' \in Seq(Client)
          /\ \A j \in DOMAIN connections' :
               \E k \in DOMAIN connections : connections'[j] = connections[k]
      BY <1>3, <2>2, WithoutOne
    <3> QED BY <3>1 DEF Listed
  <2> QED BY <1>2, <2>1, <2>2
<1>5. ServerTypeOK'
  BY <1>1, <1>2, <1>4 DEF ServerInv, ServerTypeOK
<1>6. Told' /\ Arrived'
  BY <1>1, <1>4 DEF ServerInv, Told, Arrived
<1> QED BY <1>1, <1>5, <1>6, LinesKept, CountsKept DEF ServerInv

LEMMA NotifyStep ==
  ASSUME ServerInv, Notify
  PROVE  ServerInv'
<1>1. /\ Announce(<<Heard>>)
      /\ UNCHANGED <<connections, cmd, serving, sent, script, taken, accepted, handled>>
  BY DEF Notify
<1> DEFINE lines == <<Heard>>
<1>2. lines \in Seq(News) /\ Len(lines) = 1 /\ lines[1] = Heard
  BY DEF News
<1>3. announced \in Seq(News) /\ accepted \subseteq Client /\ ServerTypeOK
  BY DEF ServerInv, ServerTypeOK
<1>4. /\ announced' = announced \o lines /\ announced' \in Seq(News)
      /\ alive' \in BOOLEAN /\ peer' \in [Client -> PeerState]
      /\ \A c \in Client : /\ peer'[c] = "here" => peer[c] = "here"
                           /\ peer'[c] = "away" => peer[c] = "away"
      /\ lost \subseteq lost' /\ lost' \subseteq Client
      /\ received' \in [Client -> Seq(News)]
      /\ \A c \in Listed \ lost' :
           peer[c] = "here" => received'[c] = received[c] \o lines
  BY <1>1, <1>2, <1>3, AnnounceTells
<1>5. Listed' = Listed
  BY <1>1 DEF Listed
<1>6. ServerTypeOK'
  <2> HIDE DEF lines
  <2> QED BY <1>1, <1>4 DEF ServerInv, ServerTypeOK, PeerState
<1>7. Arrived'
  BY <1>1, <1>3, <1>4, <1>5, ArrivedSame DEF ServerInv
<1>8. Told'
  <2>1. Listed \subseteq Client
    BY <1>3 DEF ServerInv, Arrived
  <2> HIDE DEF lines
  <2> QED BY <1>4, <1>5, <2>1 DEF ServerInv, Told
<1>9. Errors' = Errors /\ \A n \in Errors : announced'[n] = announced[n]
  <2>1. /\ Len(announced') = Len(announced) + 1
        /\ announced'[Len(announced) + 1] = Heard
        /\ \A n \in 1 .. Len(announced) : announced'[n] = announced[n]
    <3>1. \A n \in 1 .. Len(announced) + Len(lines) :
            announced'[n] = IF n <= Len(announced) THEN announced[n]
                            ELSE lines[n - Len(announced)]
      BY <1>2, <1>3, <1>4, ConcatProperties
    <3>2. Len(announced') = Len(announced) + 1
      BY <1>2, <1>3, <1>4, ConcatProperties
    <3> HIDE DEF lines
    <3> QED BY <1>2, <1>3, <3>1, <3>2
  <2>2. Heard.kind # "error"
    BY DEF Heard
  <2>3. DOMAIN announced' = 1 .. Len(announced) + 1 /\ DOMAIN announced = 1 .. Len(announced)
    BY <1>3, <1>4, <2>1
  <2>4. \A n : n \in Errors' <=> n \in Errors
    BY <2>1, <2>2, <2>3 DEF Errors
  <2> QED BY <2>1, <2>3, <2>4 DEF Errors
<1>10. LinesSent' /\ LinesRefused'
  <2>1. Good' = Good /\ Bad' = Bad
    BY <1>1 DEF Good, Bad
  <2> QED BY <1>1, <1>9, <2>1 DEF ServerInv, LinesSent, LinesRefused
<1> QED BY <1>1, <1>6, <1>7, <1>8, <1>10, LinesKept DEF ServerInv

(* A line is sent if it is "tx " and the digits of one message.            *)
LEMMA AskedFor ==
  ASSUME NEW line \in Seq(Char)
  PROVE  /\ Asks(line) <=> IsTx(line) /\ Sendable(line)
         /\ ~Asks(line) => Answer(line) = <<ErrorFor(line)>>
         /\ Asks(line) => Answer(line) = <<>> /\ line[2] \in Msg
         /\ ErrorFor(line) \in News /\ ErrorFor(line).kind = "error"
<1>1. ASSUME Asks(line) PROVE IsTx(line) /\ Sendable(line)
  <2>1. PICK m \in Msg : line = <<Tx, m>>
    BY <1>1 DEF Asks
  <2> QED BY <2>1 DEF IsTx, Sendable
<1>2. ASSUME IsTx(line), Sendable(line) PROVE Asks(line)
  <2> DEFINE pair == <<Tx, line[2]>>
  <2>1. line[1] = Tx /\ Len(line) = 2 /\ line[2] \in Msg
    BY <1>2 DEF IsTx, Sendable
  <2>2. line = pair
    <3>1. pair \in Seq(Char) /\ Len(pair) = 2 /\ pair[1] = Tx /\ pair[2] = line[2]
      BY <2>1 DEF Char
    <3>2. \A k \in 1 .. Len(line) : line[k] = pair[k]
      <4> HIDE DEF pair
      <4> QED BY <2>1, <3>1
    <3> HIDE DEF pair
    <3> QED BY <2>1, <3>1, <3>2, SeqEqual
  <2> QED BY <2>1, <2>2 DEF Asks
<1>3. ~Asks(line) => Answer(line) = <<ErrorFor(line)>>
  BY <1>2 DEF Answer, ErrorFor, IsTx
<1>4. Asks(line) => Answer(line) = <<>> /\ line[2] \in Msg
  BY <1>1 DEF Answer, Sendable
<1>5. ErrorFor(line) \in News /\ ErrorFor(line).kind = "error"
  BY DEF ErrorFor, News, Error
<1> QED BY <1>1, <1>2, <1>3, <1>4, <1>5

LEMMA PlacesFinite ==
  ASSUME ServerTypeOK
  PROVE  /\ Good \in SUBSET Nat /\ Bad \in SUBSET Nat /\ Errors \in SUBSET Nat
         /\ IsFiniteSet(Good) /\ IsFiniteSet(Bad) /\ IsFiniteSet(Errors)
         /\ \A n \in Good \cup Bad : 1 <= n /\ n <= Len(handled)
         /\ \A n \in Errors : 1 <= n /\ n <= Len(announced)
         /\ \A c : /\ Own(c) \in SUBSET Nat /\ IsFiniteSet(Own(c))
                   /\ \A n \in Own(c) : 1 <= n /\ n <= Len(handled)
<1>1. /\ DOMAIN handled = 1 .. Len(handled) /\ Len(handled) \in Nat
      /\ DOMAIN announced = 1 .. Len(announced) /\ Len(announced) \in Nat
  BY DEF ServerTypeOK
<1>2. IsFiniteSet(1 .. Len(handled)) /\ IsFiniteSet(1 .. Len(announced))
  BY <1>1, FS_Interval
<1>3. /\ Good \subseteq 1 .. Len(handled) /\ Bad \subseteq 1 .. Len(handled)
      /\ Errors \subseteq 1 .. Len(announced) /\ \A c : Own(c) \subseteq 1 .. Len(handled)
  BY <1>1 DEF Good, Bad, Errors, Own
<1>4. /\ IsFiniteSet(Good) /\ IsFiniteSet(Bad) /\ IsFiniteSet(Errors)
      /\ \A c : IsFiniteSet(Own(c))
  BY <1>2, <1>3, FS_Subset
<1> QED BY <1>1, <1>3, <1>4

(* One line more was handled.                                              *)
LEMMA OneMoreHandled ==
  ASSUME ServerTypeOK, NEW c \in Client, NEW line \in Seq(Char),
         handled' = Append(handled, [client |-> c, line |-> line])
  PROVE  LET n == Len(handled) + 1
         IN  /\ handled' \in Seq([client : Client, line : Seq(Char)])
             /\ DOMAIN handled' = DOMAIN handled \cup {n}
             /\ DOMAIN handled = 1 .. Len(handled) /\ n \in Nat
             /\ handled'[n] = [client |-> c, line |-> line]
             /\ \A i \in DOMAIN handled : handled'[i] = handled[i]
<1> DEFINE entry == [client |-> c, line |-> line]
<1>1. /\ handled \in Seq([client : Client, line : Seq(Char)])
      /\ entry \in [client : Client, line : Seq(Char)]
  BY DEF ServerTypeOK
<1> HIDE DEF entry
<1>2. handled' = Append(handled, entry)
  BY DEF entry
<1>3. /\ handled' \in Seq([client : Client, line : Seq(Char)])
      /\ Len(handled') = Len(handled) + 1
      /\ handled'[Len(handled) + 1] = entry
      /\ \A i \in 1 .. Len(handled) : handled'[i] = handled[i]
  BY <1>1, <1>2, AppendProperties
<1>4. DOMAIN handled = 1 .. Len(handled) /\ DOMAIN handled' = 1 .. Len(handled) + 1
  BY <1>1, <1>3
<1>5. Len(handled) \in Nat
  BY <1>1
<1> QED BY <1>3, <1>4, <1>5 DEF entry

LEMMA CommandCounts ==
  ASSUME ServerTypeOK, LinesSent, LinesRefused,
         NEW c \in Client, NEW line \in Seq(Char), HandleCommand(c, line)
  PROVE  LinesSent' /\ LinesRefused' /\ sent' \in Seq(Msg)
<1> DEFINE N == Len(handled) + 1
           M == Len(announced) + 1
<1>1. /\ handled' = Append(handled, [client |-> c, line |-> line])
      /\ sent' = IF IsTx(line) /\ Sendable(line) THEN Append(sent, line[2])
                 ELSE sent
      /\ IF Answer(line) = <<>> THEN UNCHANGED announced
         ELSE Announce(Answer(line))
  BY DEF HandleCommand, news
<1>2. /\ DOMAIN handled' = DOMAIN handled \cup {N}
      /\ DOMAIN handled = 1 .. Len(handled) /\ N \in Nat
      /\ handled'[N].line = line
      /\ \A i \in DOMAIN handled : handled'[i] = handled[i]
  BY <1>1, OneMoreHandled
<1>3. sent \in Seq(Msg) /\ announced \in Seq(News) /\ M \in Nat
  BY DEF ServerTypeOK
<1>4. /\ Good \in SUBSET Nat /\ Bad \in SUBSET Nat /\ Errors \in SUBSET Nat
      /\ IsFiniteSet(Good) /\ IsFiniteSet(Bad) /\ IsFiniteSet(Errors)
      /\ \A n \in Good : n < N /\ n \in DOMAIN handled
      /\ \A n \in Bad : n < N /\ n \in DOMAIN handled
      /\ \A n \in Errors : n < M /\ n \in DOMAIN announced
  <2>1. /\ \A n \in Good \cup Bad : n \in DOMAIN handled
        /\ \A n \in Errors : n \in DOMAIN announced
    BY DEF Good, Bad, Errors
  <2>2. Len(handled) \in Nat /\ Len(announced) \in Nat
    BY DEF ServerTypeOK
  <2> QED BY <2>1, <2>2, PlacesFinite
<1> HIDE DEF N, M
<1>5. CASE Asks(line)
  <2>1. sent' = Append(sent, line[2]) /\ UNCHANGED announced /\ line[2] \in Msg
    BY <1>1, <1>5, AskedFor
  <2>2. Good' = Good \cup {N} /\ Bad' = Bad
    BY <1>2, <1>4, <1>5 DEF Good, Bad
  <2>3. /\ sent' \in Seq(Msg) /\ Len(sent') = Len(sent) + 1
        /\ sent'[Len(sent) + 1] = line[2]
        /\ \A k \in 1 .. Len(sent) : sent'[k] = sent[k]
    BY <1>3, <2>1, AppendProperties
  <2>4. /\ Cardinality(Good') = Cardinality(Good) + 1 /\ Cardinality(Good) \in Nat
        /\ \A n \in Good : Rank(Good', n) = Rank(Good, n)
        /\ Rank(Good', N) = Cardinality(Good) + 1
    <3>1. /\ Cardinality(Good \cup {N}) = Cardinality(Good) + 1 /\ Cardinality(Good) \in Nat
          /\ \A n \in Good : Rank(Good \cup {N}, n) = Rank(Good, n)
          /\ Rank(Good \cup {N}, N) = Cardinality(Good) + 1
      BY <1>2, <1>4, RankGrows
    <3> QED BY <2>2, <3>1
  <2>5. ASSUME NEW n \in Good' PROVE sent'[Rank(Good', n)] = handled'[n].line[2]
    <3>1. CASE n = N
      BY <1>2, <2>3, <2>4, <3>1 DEF LinesSent
    <3>2. CASE n \in Good
      <4>1. /\ Rank(Good, n) \in Nat /\ 1 <= Rank(Good, n)
            /\ Rank(Good, n) <= Cardinality(Good)
        BY <1>4, <3>2, RankBounds
      <4>2. Rank(Good, n) \in 1 .. Len(sent)
        BY <2>4, <4>1 DEF LinesSent
      <4>3. handled'[n] = handled[n]
        BY <1>2, <1>4, <3>2
      <4> QED BY <2>3, <2>4, <3>2, <4>2, <4>3 DEF LinesSent
    <3> QED BY <2>2, <3>1, <3>2
  <2>6. LinesSent'
    BY <2>3, <2>4, <2>5 DEF LinesSent
  <2>7. Errors' = Errors /\ \A n \in Bad : handled'[n] = handled[n]
    BY <1>2, <1>4, <2>1 DEF Errors
  <2>8. LinesRefused'
    BY <2>1, <2>2, <2>7 DEF LinesRefused
  <2> QED BY <2>3, <2>6, <2>8
<1>6. CASE ~Asks(line)
  <2> DEFINE answer == <<ErrorFor(line)>>
  <2>1. sent' = sent /\ Announce(answer) /\ answer \in Seq(News)
        /\ Len(answer) = 1 /\ answer[1] = ErrorFor(line) /\ ErrorFor(line).kind = "error"
    <3>1. answer # <<>> /\ Len(answer) = 1 /\ answer[1] = ErrorFor(line)
      OBVIOUS
    <3>2. Answer(line) = answer /\ answer \in Seq(News)
      BY <1>6, AskedFor
    <3> HIDE DEF answer
    <3> QED BY <1>1, <1>6, <3>1, <3>2, AskedFor
  <2> HIDE DEF answer
  <2>2. Good' = Good /\ Bad' = Bad \cup {N}
    BY <1>2, <1>4, <1>6 DEF Good, Bad
  <2>3. LinesSent'
    BY <1>2, <1>4, <2>1, <2>2 DEF LinesSent
  <2>4. announced' = announced \o answer
    BY <2>1, AnnounceTells
  <2>5. /\ DOMAIN announced' = DOMAIN announced \cup {M}
        /\ announced'[M] = ErrorFor(line)
        /\ \A k \in DOMAIN announced : announced'[k] = announced[k]
    <3>1. /\ Len(announced') = Len(announced) + 1 /\ announced' \in Seq(News)
          /\ \A k \in 1 .. Len(announced) + 1 :
               announced'[k] = IF k <= Len(announced) THEN announced[k]
                               ELSE answer[k - Len(announced)]
      <4>1. answer \in Seq(News) /\ Len(answer) = 1
        BY <2>1
      <4>2. /\ Len(announced \o answer) = Len(announced) + Len(answer)
            /\ announced \o answer \in Seq(News)
            /\ \A k \in 1 .. Len(announced) + Len(answer) :
                 (announced \o answer)[k] = IF k <= Len(announced) THEN announced[k]
                                            ELSE answer[k - Len(announced)]
        BY <1>3, <4>1, ConcatProperties
      <4> QED BY <2>4, <4>1, <4>2
    <3>2. Len(announced) \in Nat /\ DOMAIN announced = 1 .. Len(announced)
          /\ DOMAIN announced' = 1 .. Len(announced) + 1
      BY <1>3, <3>1
    <3> QED BY <2>1, <3>1, <3>2 DEF M
  <2>6. Errors' = Errors \cup {M}
    BY <1>4, <2>1, <2>5 DEF Errors
  <2>7. Cardinality(Errors') = Cardinality(Bad')
    <3>1. Cardinality(Errors') = Cardinality(Errors) + 1
      BY <1>3, <1>4, <2>6, RankGrows DEF M
    <3>2. Cardinality(Bad') = Cardinality(Bad) + 1
      BY <1>2, <1>4, <2>2, RankGrows
    <3> QED BY <3>1, <3>2 DEF LinesRefused
  <2>8. ASSUME NEW n \in Bad', NEW e \in Errors', Rank(Bad', n) = Rank(Errors', e)
        PROVE  announced'[e] = ErrorFor(handled'[n].line)
    <3>1. \/ n = N /\ e = M
          \/ n \in Bad /\ e \in Errors /\ Rank(Bad, n) = Rank(Errors, e)
      <4>1. Cardinality(Bad) = Cardinality(Errors)
        BY DEF LinesRefused
      <4>2. M \in Nat
        BY <1>3
      <4>3. /\ n \in Bad \cup {N} /\ e \in Errors \cup {M}
            /\ Rank(Bad \cup {N}, n) = Rank(Errors \cup {M}, e)
        BY <2>2, <2>6, <2>8
      <4>4. Behind(Bad, N) /\ Behind(Errors, M)
        BY <1>2, <1>4, <4>2 DEF Behind
      <4>5. \A i \in Bad \cup {N}, j \in Errors \cup {M} :
              Rank(Bad \cup {N}, i) = Rank(Errors \cup {M}, j) =>
                \/ i = N /\ j = M
                \/ i \in Bad /\ j \in Errors /\ Rank(Bad, i) = Rank(Errors, j)
        BY <4>1, <4>4, RankPairs
      <4> QED BY <4>3, <4>5
    <3> QED BY <1>2, <1>4, <2>5, <3>1 DEF LinesRefused
  <2>9. LinesRefused'
    <3>1. \A x : ErrorFor(x)' = ErrorFor(x)
      BY DEF ErrorFor
    <3> QED BY <2>7, <2>8 DEF LinesRefused
  <2> QED BY <1>3, <2>1, <2>3, <2>9
<1> QED BY <1>5, <1>6

(* The end of a line hands over what is in the buffer and empties it.      *)
LEMMA LineEnds ==
  ASSUME CmdSize \in Nat \ {0}, ServerTypeOK, BufferHolds, \A d \in Client : OwnLines(d),
         NEW c \in Client, script[c][taken[c] + 1] = NL,
         taken' = [taken EXCEPT ![c] = @ + 1], UNCHANGED script,
         cmd' = [cmd EXCEPT ![c] = <<>>],
         handled' = Append(handled, [client |-> c, line |-> cmd[c]])
  PROVE  BufferHolds' /\ (\A d \in Client : OwnLines(d))'
<1> DEFINE text == script[c]
           n    == taken[c] + 1
           N    == Len(handled) + 1
<1>1. /\ n \in Nat \ {0} /\ n - 1 = taken[c] /\ taken[c] \in Nat
      /\ taken'[c] = n /\ cmd'[c] = <<>> /\ text[n] = NL
      /\ \A d \in Client : d # c => taken'[d] = taken[d] /\ cmd'[d] = cmd[d]
  <2>1. cmd \in [Client -> Seq(Char)] /\ taken \in [Client -> Nat]
    BY DEF ServerTypeOK
  <2>2. taken[c] \in Nat /\ taken'[c] = taken[c] + 1 /\ cmd'[c] = <<>>
    BY <2>1
  <2> QED BY <2>1, <2>2
<1>2. /\ DOMAIN handled' = DOMAIN handled \cup {N}
      /\ DOMAIN handled = 1 .. Len(handled) /\ N \in Nat
      /\ handled'[N].client = c /\ handled'[N].line = cmd[c]
      /\ \A i \in DOMAIN handled : handled'[i] = handled[i]
  <2>1. cmd[c] \in Seq(Char)
    BY DEF ServerTypeOK
  <2> QED BY <2>1, OneMoreHandled
<1>3. /\ Own(c)' = Own(c) \cup {N}
      /\ \A d \in Client : d # c => Own(d)' = Own(d)
      /\ \A d \in Client : \A i \in Own(d) : handled'[i] = handled[i]
      /\ Own(c) \in SUBSET Nat /\ IsFiniteSet(Own(c)) /\ \A i \in Own(c) : i < N
  <2>1. Own(c) \in SUBSET Nat /\ IsFiniteSet(Own(c)) /\ \A i \in Own(c) : i < N
    <3>1. /\ Own(c) \in SUBSET Nat /\ IsFiniteSet(Own(c))
          /\ \A i \in Own(c) : 1 <= i /\ i <= Len(handled)
      BY PlacesFinite
    <3>2. Len(handled) \in Nat
      BY DEF ServerTypeOK
    <3> QED BY <3>1, <3>2
  <2> HIDE DEF N
  <2>2. N \notin DOMAIN handled
    BY <1>2 DEF N
  <2>3. /\ Own(c)' = Own(c) \cup {N}
        /\ \A d \in Client : d # c => Own(d)' = Own(d)
        /\ \A d \in Client : \A i \in Own(d) : handled'[i] = handled[i]
    BY <1>2, <2>2 DEF Own
  <2> QED BY <2>1, <2>3
<1>4. InLine(text, n + 1) = {} /\ Ends(text, n) = Ends(text, n - 1) \cup {n}
  BY <1>1, NextPlace
<1> DEFINE ends == Ends(text, n - 1)
<1>5. ends \in SUBSET Nat /\ IsFiniteSet(ends) /\ \A i \in ends : i < n
  BY <1>1, PlaceTypes
<1> HIDE DEF text, n, N, ends
<1>6. /\ Cardinality(Own(c)) = Cardinality(ends)
      /\ \A k \in Own(c), i \in ends :
           Rank(Own(c), k) = Rank(ends, i) =>
             Holds(handled[k].line, text, InLine(text, i))
  BY <1>1 DEF OwnLines, ends, text
<1>7. Holds(cmd[c], text, InLine(text, n))
  BY DEF BufferHolds, text, n
<1>8. BufferHolds'
  <2> SUFFICES ASSUME NEW d \in Client
      PROVE  Holds(cmd'[d], script[d], InLine(script[d], taken'[d] + 1))
    BY DEF BufferHolds
  <2>1. CASE d = c
    BY <1>1, <1>4, <2>1, NothingHeld DEF text
  <2>2. CASE d # c
    BY <1>1, <2>2 DEF BufferHolds
  <2> QED BY <2>1, <2>2
<1>9. ASSUME NEW d \in Client, d # c PROVE OwnLines(d)'
  <2>1. OwnLines(d) /\ Own(d)' = Own(d) /\ taken'[d] = taken[d]
    BY <1>1, <1>3, <1>9
  <2> QED BY <1>3, <2>1 DEF OwnLines
<1>10. OwnLines(c)'
  <2>1. /\ Cardinality(Own(c) \cup {N}) = Cardinality(Own(c)) + 1
        /\ Cardinality(ends \cup {n}) = Cardinality(ends) + 1
    BY <1>1, <1>2, <1>3, <1>5, RankGrows
  <2>2. \A k \in Own(c) \cup {N}, i \in ends \cup {n} :
          Rank(Own(c) \cup {N}, k) = Rank(ends \cup {n}, i) =>
            \/ k = N /\ i = n
            \/ k \in Own(c) /\ i \in ends /\ Rank(Own(c), k) = Rank(ends, i)
    <3> DEFINE own == Own(c)
    <3>1. /\ n \in Nat /\ N \in Nat /\ Cardinality(own) = Cardinality(ends)
          /\ own \in SUBSET Nat /\ IsFiniteSet(own) /\ \A i \in own : i < N
      BY <1>1, <1>2, <1>3, <1>6
    <3> HIDE DEF own
    <3>2. Behind(own, N) /\ Behind(ends, n)
      BY <1>5, <3>1 DEF Behind
    <3>3. \A k \in own \cup {N}, i \in ends \cup {n} :
            Rank(own \cup {N}, k) = Rank(ends \cup {n}, i) =>
              \/ k = N /\ i = n
              \/ k \in own /\ i \in ends /\ Rank(own, k) = Rank(ends, i)
      BY <3>1, <3>2, RankPairs
    <3> QED BY <3>3 DEF own
  <2>3. ASSUME NEW k \in Own(c) \cup {N}, NEW i \in ends \cup {n},
               Rank(Own(c) \cup {N}, k) = Rank(ends \cup {n}, i)
        PROVE  Holds(handled'[k].line, text, InLine(text, i))
    <3>1. CASE k = N /\ i = n
      BY <1>2, <1>7, <3>1
    <3>2. CASE k \in Own(c) /\ i \in ends /\ Rank(Own(c), k) = Rank(ends, i)
      BY <1>3, <1>6, <3>2
    <3> QED BY <2>2, <2>3, <3>1, <3>2
  <2>4. Ends(script'[c], taken'[c]) = ends \cup {n} /\ script'[c] = text
    BY <1>1, <1>4 DEF text, ends
  <2> QED BY <1>3, <1>6, <2>1, <2>3, <2>4 DEF OwnLines
<1> QED BY <1>8, <1>9, <1>10

(* Any other byte goes into the buffer, as far as there is room.           *)
LEMMA CharStored ==
  ASSUME CmdSize \in Nat \ {0}, ServerTypeOK, BufferHolds, \A d \in Client : OwnLines(d),
         NEW c \in Client, script[c][taken[c] + 1] # NL,
         script[c][taken[c] + 1] \in Char,
         taken' = [taken EXCEPT ![c] = @ + 1], UNCHANGED <<script, handled>>,
         cmd' = IF script[c][taken[c] + 1] = CR THEN cmd
                ELSE [cmd EXCEPT ![c] = Store(@, script[c][taken[c] + 1])]
  PROVE  BufferHolds' /\ (\A d \in Client : OwnLines(d))'
<1> DEFINE text == script[c]
           n    == taken[c] + 1
<1>1. /\ n \in Nat \ {0} /\ n - 1 = taken[c] /\ taken[c] \in Nat
      /\ taken'[c] = n /\ text[n] # NL /\ text[n] \in Char
      /\ cmd'[c] = IF text[n] = CR THEN cmd[c] ELSE Store(cmd[c], text[n])
      /\ \A d \in Client : d # c => taken'[d] = taken[d] /\ cmd'[d] = cmd[d]
      /\ cmd[c] \in Seq(Char)
  <2>1. cmd \in [Client -> Seq(Char)] /\ taken \in [Client -> Nat]
    BY DEF ServerTypeOK
  <2>2. taken[c] \in Nat /\ taken'[c] = taken[c] + 1 /\ cmd[c] \in Seq(Char)
    BY <2>1
  <2> HIDE DEF n
  <2>3. n = taken[c] + 1
    BY DEF n
  <2>4. cmd'[c] = IF text[n] = CR THEN cmd[c] ELSE Store(cmd[c], text[n])
    BY <2>1, <2>3
  <2> QED BY <2>1, <2>2, <2>3, <2>4
<1>2. /\ InLine(text, n + 1) = IF text[n] = CR THEN InLine(text, n)
                                      ELSE InLine(text, n) \cup {n}
      /\ Ends(text, n) = Ends(text, n - 1)
  BY <1>1, NextPlace
<1>3. /\ InLine(text, n) \in SUBSET Nat /\ IsFiniteSet(InLine(text, n))
      /\ \A i \in InLine(text, n) : i < n
  BY <1>1, PlaceTypes
<1> HIDE DEF text, n
<1>4. Holds(cmd[c], text, InLine(text, n))
  BY DEF BufferHolds, text, n
<1>5. Holds(cmd'[c], text, InLine(text, n + 1))
  <2>1. CASE text[n] = CR
    BY <1>1, <1>2, <1>4, <2>1
  <2>2. CASE text[n] # CR
    <3>1. Holds(Store(cmd[c], text[n]), text, InLine(text, n) \cup {n})
      BY <1>1, <1>3, <1>4, StoreHolds
    <3> QED BY <1>1, <1>2, <2>2, <3>1
  <2> QED BY <2>1, <2>2
<1>6. BufferHolds'
  <2> SUFFICES ASSUME NEW d \in Client
      PROVE  Holds(cmd'[d], script[d], InLine(script[d], taken'[d] + 1))
    BY DEF BufferHolds
  <2>1. CASE d = c
    BY <1>1, <1>5, <2>1 DEF text
  <2>2. CASE d # c
    BY <1>1, <2>2 DEF BufferHolds
  <2> QED BY <2>1, <2>2
<1>7. ASSUME NEW d \in Client PROVE OwnLines(d)'
  <2>1. OwnLines(d) /\ Own(d)' = Own(d)
    BY DEF Own
  <2>2. Ends(script[d], taken'[d]) = Ends(script[d], taken[d])
    BY <1>1, <1>2 DEF text
  <2> QED BY <2>1, <2>2 DEF OwnLines
<1> QED BY <1>6, <1>7

LEMMA ReadByteStep ==
  ASSUME ServerInv, ReadByte
  PROVE  ServerInv'
<1> DEFINE c    == serving
           n    == taken[c] + 1
           char == script[c][n]
<1>1. /\ c \in Client /\ n - 1 < Len(script[c]) /\ taken' = [taken EXCEPT ![c] = @ + 1]
      /\ UNCHANGED <<connections, serving, script, accepted>>
  BY DEF ReadByte, ServerInv, ServerTypeOK
<1>2. IF char = NL
      THEN HandleCommand(c, cmd[c]) /\ cmd' = [cmd EXCEPT ![c] = <<>>]
      ELSE /\ cmd' = IF char = CR THEN cmd
                     ELSE [cmd EXCEPT ![c] = Store(@, char)]
           /\ UNCHANGED <<alive, sent, peer, handled, announced, received, lost>>
  BY Zenon DEF ReadByte, Emptied, news
<1>3. /\ ServerTypeOK /\ CmdSize \in Nat \ {0} /\ accepted \subseteq Client
      /\ cmd \in [Client -> Seq(Char)] /\ script \in [Client -> Seq(Char)]
      /\ taken \in [Client -> Nat] /\ announced \in Seq(News)
      /\ \A d \in Client : Len(cmd[d]) < CmdSize /\ taken[d] <= Len(script[d])
  BY ServerAssumption DEF ServerInv, ServerTypeOK, ServerAssumption
<1> HIDE DEF c
<1>4. char \in Char /\ cmd[c] \in Seq(Char)
  BY <1>1, <1>3
<1>5. /\ taken' \in [Client -> Nat]
      /\ \A d \in Client : taken'[d] <= Len(script'[d])
  BY <1>1, <1>3
<1>6. Listed' = Listed /\ Listed \subseteq Client
  BY <1>1, <1>3 DEF Listed, ServerInv, Arrived
<1> HIDE DEF n, char
<1>7. CASE char = NL
  <2>1. /\ HandleCommand(c, cmd[c]) /\ cmd' = [cmd EXCEPT ![c] = <<>>]
        /\ handled' = Append(handled, [client |-> c, line |-> cmd[c]])
    BY <1>2, <1>7 DEF HandleCommand
  <2>2. BufferHolds' /\ (\A d \in Client : OwnLines(d))'
    <3>1. script[c][taken[c] + 1] = NL
      BY <1>7 DEF char, n
    <3> QED BY <1>1, <1>3, <2>1, <3>1, LineEnds DEF ServerInv
  <2>3. LinesSent' /\ LinesRefused' /\ sent' \in Seq(Msg)
    BY <1>1, <1>3, <1>4, <2>1, CommandCounts DEF ServerInv
  <2>4. handled' \in Seq([client : Client, line : Seq(Char)])
    BY <1>1, <1>3, <1>4, <2>1, OneMoreHandled
  <2>5. \/ UNCHANGED <<alive, peer, announced, received, lost>>
        \/ \E lines \in Seq(News) : Announce(lines)
    <3>1. Answer(cmd[c]) = <<>> \/ Answer(cmd[c]) \in Seq(News)
      <4>1. CASE Asks(cmd[c])
        BY <1>4, <4>1, AskedFor
      <4>2. CASE ~Asks(cmd[c])
        <5>1. Answer(cmd[c]) = <<ErrorFor(cmd[c])>>
          BY <1>4, <4>2, AskedFor
        <5>2. ErrorFor(cmd[c]) \in News
          BY <1>4, AskedFor
        <5> QED BY <5>1, <5>2
      <4> QED BY <4>1, <4>2
    <3> QED BY <2>1, <3>1 DEF HandleCommand, news
  <2>6. /\ announced' \in Seq(News) /\ alive' \in BOOLEAN /\ lost' \subseteq Client
        /\ peer' \in [Client -> PeerState] /\ received' \in [Client -> Seq(News)]
        /\ Arrived' /\ Told'
    <3>1. CASE UNCHANGED <<alive, peer, announced, received, lost>>
      BY <1>1, <1>6, <3>1 DEF ServerInv, ServerTypeOK, PeerState, Arrived, Told
    <3>2. ASSUME NEW lines \in Seq(News), Announce(lines)
          PROVE  /\ announced' \in Seq(News) /\ alive' \in BOOLEAN
                 /\ lost' \subseteq Client
                 /\ peer' \in [Client -> PeerState]
                 /\ received' \in [Client -> Seq(News)]
                 /\ Arrived' /\ Told'
      <4>1. /\ announced' = announced \o lines /\ announced' \in Seq(News)
            /\ alive' \in BOOLEAN /\ peer' \in [Client -> PeerState]
            /\ \A d \in Client : /\ peer'[d] = "here" => peer[d] = "here"
                                 /\ peer'[d] = "away" => peer[d] = "away"
            /\ lost \subseteq lost' /\ lost' \subseteq Client
            /\ received' \in [Client -> Seq(News)]
            /\ \A d \in Listed \ lost' :
                 peer[d] = "here" => received'[d] = received[d] \o lines
        BY <1>3, <3>2, AnnounceTells
      <4>2. Arrived'
        BY <1>1, <1>3, <1>6, <4>1, ArrivedSame DEF ServerInv
      <4>3. Told'
        BY <1>6, <4>1 DEF ServerInv, Told
      <4> QED BY <4>1, <4>2, <4>3
    <3> QED BY <2>5, <3>1, <3>2
  <2>7. /\ cmd' \in [Client -> Seq(Char)]
        /\ \A d \in Client : Len(cmd'[d]) < CmdSize
    BY <1>1, <1>3, <2>1
  <2>8. ServerTypeOK'
    BY <1>1, <1>5, <2>3, <2>4, <2>6, <2>7 DEF ServerInv, ServerTypeOK, PeerState
  <2> QED BY <2>2, <2>3, <2>6, <2>8 DEF ServerInv
<1>8. CASE char # NL
  <2>1. /\ cmd' = IF char = CR THEN cmd ELSE [cmd EXCEPT ![c] = Store(@, char)]
        /\ UNCHANGED <<alive, sent, peer, handled, announced, received, lost>>
    BY <1>2, <1>8
  <2>2. BufferHolds' /\ (\A d \in Client : OwnLines(d))'
    <3>1. /\ script[c][taken[c] + 1] # NL /\ script[c][taken[c] + 1] \in Char
          /\ cmd' = IF script[c][taken[c] + 1] = CR THEN cmd
                    ELSE [cmd EXCEPT ![c] = Store(@, script[c][taken[c] + 1])]
      BY <1>4, <1>8, <2>1 DEF char, n
    <3> QED BY <1>1, <1>3, <2>1, <3>1, CharStored DEF ServerInv
  <2>3. Store(cmd[c], char) \in Seq(Char) /\ Len(Store(cmd[c], char)) < CmdSize
    <3>1. /\ Append(cmd[c], char) \in Seq(Char)
          /\ Len(Append(cmd[c], char)) = Len(cmd[c]) + 1
      BY <1>4, AppendProperties
    <3>2. Len(cmd[c]) \in Nat /\ Len(cmd[c]) < CmdSize
      BY <1>1, <1>3, <1>4
    <3> QED BY <1>3, <1>4, <3>1, <3>2 DEF Store
  <2>4. /\ cmd' \in [Client -> Seq(Char)]
        /\ \A d \in Client : Len(cmd'[d]) < CmdSize
    BY <1>1, <1>3, <2>1, <2>3
  <2>5. ServerTypeOK'
    BY <1>1, <1>5, <2>1, <2>4 DEF ServerInv, ServerTypeOK
  <2>6. Arrived' /\ Told'
    BY <1>1, <1>6, <2>1 DEF ServerInv, Arrived, Told
  <2> QED BY <2>1, <2>2, <2>5, <2>6, CountsKept DEF ServerInv
<1> QED BY <1>7, <1>8

LEMMA ServerStep ==
  ASSUME ServerInv, [ServerNext]_server_vars
  PROVE  ServerInv'
<1>1. ASSUME NEW c \in Client, Connect(c) PROVE ServerInv'
  BY <1>1, ConnectStep
<1>2. ASSUME NEW c \in Client, Leave(c) PROVE ServerInv'
  BY <1>2, LeaveStep
<1>3. ASSUME NEW c \in Client, Accept(c) PROVE ServerInv'
  BY <1>3, AcceptStep
<1>4. ASSUME NEW c \in Client, Serve(c) PROVE ServerInv'
  BY <1>4, ServeStep
<1>5. CASE Notify
  BY <1>5, NotifyStep
<1>6. CASE ReadByte
  BY <1>6, ReadByteStep
<1>7. CASE ReadNothing
  BY <1>7, ReadNothingStep
<1>8. CASE UNCHANGED server_vars
  <2>1. UNCHANGED <<connections, cmd, serving, alive, sent, script, taken, peer, accepted,
                    handled, announced, received, lost>>
    BY <1>8 DEF server_vars, program, news
  <2>2. ServerTypeOK' /\ Arrived' /\ Told'
    BY <2>1 DEF ServerInv, ServerTypeOK, Arrived, Told, Listed
  <2> QED BY <2>1, <2>2, LinesKept, CountsKept DEF ServerInv
<1> QED BY <1>1, <1>2, <1>3, <1>4, <1>5, <1>6, <1>7, <1>8 DEF ServerNext, Done

LEMMA ServerInvariance == ServerSpec => []ServerInv
<1>1. ServerInit => ServerInv
  BY ServerBegins
<1>2. ServerInv /\ [ServerNext]_server_vars => ServerInv'
  BY ServerStep
<1> QED BY <1>1, <1>2, PTL DEF ServerSpec

(* The connections, buffers and histories have the types of Server; no     *)
(* buffer is written behind its end.                                       *)
THEOREM ServerTypes == ServerSpec => []ServerTypeOK
<1>1. ServerInv => ServerTypeOK
  BY DEF ServerInv
<1> QED BY <1>1, ServerInvariance, PTL

(* The commands handled for a client are the lines it has sent, in order,   *)
(* however server_read is called and interrupted, and whatever the other   *)
(* clients do.                                                             *)
THEOREM LinesAreHandled == ServerSpec => []LinesHandled
<1>1. ServerInv => LinesHandled
  BY ServerInvMeans
<1> QED BY <1>1, ServerInvariance, PTL

(* Every line that asks for a message gives one to ibus_send, every other  *)
(* one is answered by its error, and nothing else is.                      *)
THEOREM EveryLineIsAnswered == ServerSpec => []EveryLineCounts
<1>1. ServerInv => EveryLineCounts
  BY ServerInvMeans
<1> QED BY <1>1, ServerInvariance, PTL

(* The connected clients whose writes succeeded were told the same, all of *)
(* it and in order.                                                        *)
THEOREM EveryoneIsTold == ServerSpec => []SameNews
<1>1. ServerInv => SameNews
  BY ServerInvMeans
<1> QED BY <1>1, ServerInvariance, PTL
=============================================================================
