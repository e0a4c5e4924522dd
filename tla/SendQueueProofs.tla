--------------------------- MODULE SendQueueProofs ---------------------------
(***************************************************************************)
(* The invariants of SendQueue, proved for every set of messages, every    *)
(* retry constant and every bound.  The argument is about the list: each   *)
(* operator of PacketQueue keeps WellFormed.                               *)
(***************************************************************************)
EXTENDS SendQueue, PacketQueueProofs

(* What client calls do to the count of the head.                          *)
HeadCount(list, n) == list # <<>> => list[1].transmit_count <= n

LEMMA RemoveTagHeadCount ==
  ASSUME NEW list, WellFormed(list), NEW tag \in Tag \ {NoTag}, ~Urgent(tag),
         NEW n \in Nat, HeadCount(list, n)
  PROVE  HeadCount(RemoveTag(list, tag), n)
<1> DEFINE r == RemoveTag(list, tag)
<1>1. CASE r = list
  BY <1>1
<1>2. CASE \E i \in 1..Len(list) : list[i].tag = tag /\ r = RemoveNth(list, i)
  <2> SUFFICES ASSUME r # <<>> PROVE r[1].transmit_count <= n
    BY DEF HeadCount
  <2>1. PICK i \in 1..Len(list) : list[i].tag = tag /\ r = RemoveNth(list, i)
    BY <1>2
  <2>2. list \in Seq(Packet) /\ Len(list) \in Nat
    BY DEF WellFormed
  <2>3. /\ r \in Seq(Packet)
        /\ Len(r) = Len(list) - 1
        /\ \A j \in 1..(Len(list) - 1) :
             r[j] = IF j < i THEN list[j] ELSE list[j + 1]
    BY <2>1, <2>2, RemoveNthProperties
  <2> HIDE DEF r
  <2>4. 1 \in 1..(Len(list) - 1) /\ 1 \in 1..Len(list) /\ 2 \in 1..Len(list)
    BY <2>2, <2>3
  <2>5. r[1] = IF 1 < i THEN list[1] ELSE list[2]
    BY <2>3, <2>4
  <2>6. CASE 1 < i
    BY <2>2, <2>4, <2>5, <2>6 DEF HeadCount
  <2>7. CASE i = 1
    <3>1. ~(list[2].transmit_count > 0)
      BY <2>1, <2>4, <2>7 DEF WellFormed
    <3>2. list[2].transmit_count \in Nat
      <4>1. list[2] \in Packet
        BY <2>2, <2>4
      <4>2. list[2].transmit_count \in 0..(MaxAttempts + 1)
        BY <4>1 DEF Packet
      <4> QED BY <4>2, RetryAssumption DEF RetryAssumption
    <3> QED BY <2>5, <2>7, <3>1, <3>2
  <2> QED BY <2>1, <2>6, <2>7
<1> QED BY <1>1, <1>2, RemoveTagCases

LEMMA AddToQueueHeadCount ==
  ASSUME NEW list, WellFormed(list), NEW m \in Msg, NEW tag \in Tag,
         NEW sync \in BOOLEAN, NEW prepend \in BOOLEAN
  PROVE  /\ AddToQueue(list, m, sync, prepend, tag) # <<>>
         /\ \A n \in Nat :
              (prepend \/ HeadCount(list, n))
                => HeadCount(AddToQueue(list, m, sync, prepend, tag), n)
<1> DEFINE p == NewPacket(m, sync, tag)
<1>1. p.transmit_count = 0 /\ p \in Packet
  BY NewPacketType
<1>2. list \in Seq(Packet) /\ Len(list) \in Nat
  BY DEF WellFormed
<1> HIDE DEF p
<1>3. CASE prepend
  <2>1. (<<p>> \o list)[1] = p /\ <<p>> \o list # <<>>
    BY <1>1, <1>2
  <2> QED BY <1>1, <1>3, <2>1 DEF HeadCount, AddToQueue, p
<1>4. CASE ~prepend
  <2>1. Append(list, p) # <<>>
    BY <1>1, <1>2
  <2>2. Append(list, p)[1] = IF list = <<>> THEN p ELSE list[1]
    BY <1>1, <1>2
  <2> QED BY <1>1, <1>4, <2>1, <2>2 DEF HeadCount, AddToQueue, p
<1> QED BY <1>3, <1>4

LEMMA SendHeadCount ==
  ASSUME NEW list, WellFormed(list), NEW m \in Msg
  PROVE  /\ Send(list, m) # <<>>
         /\ \A n \in Nat : HeadCount(list, n) => HeadCount(Send(list, m), n)
BY AddToQueueHeadCount, TagFacts DEF Send

LEMMA ReplaceHeadCount ==
  ASSUME NEW list, WellFormed(list), NEW m \in Msg, NEW tag \in Tag \ {NoTag}
  PROVE  /\ Replace(list, m, tag) # <<>>
         /\ \A n \in Nat : HeadCount(list, n) => HeadCount(Replace(list, m, tag), n)
<1> DEFINE rest == RemoveTag(list, tag)
<1>1. WellFormed(rest)
  BY RemoveTagWellFormed
<1>2. \A n \in Nat : HeadCount(list, n) => Urgent(tag) \/ HeadCount(rest, n)
  BY RemoveTagHeadCount
<1>3. Urgent(tag) \in BOOLEAN
  BY DEF Urgent
<1> HIDE DEF rest
<1>4. /\ AddToQueue(rest, m, Urgent(tag), Urgent(tag), tag) # <<>>
      /\ \A n \in Nat :
           Urgent(tag) \/ HeadCount(rest, n)
             => HeadCount(AddToQueue(rest, m, Urgent(tag), Urgent(tag), tag), n)
  BY <1>1, <1>3, AddToQueueHeadCount
<1> QED BY <1>2, <1>4 DEF Replace, rest
-----------------------------------------------------------------------------
(* The inductive invariant and the theorems.                               *)
IInv ==
  /\ TypeOK
  /\ WellFormed(pkt_list)
  /\ HeadCountIsRecent
  /\ ClosedPortHasWork

LEMMA ClientCallKeeps ==
  ASSUME IInv, NEW list, CallClient(list), WellFormed(list),
         HeadCount(pkt_list, silent + 1) => HeadCount(list, silent + 1),
         pkt_list # <<>> /\ ~port_open => list # <<>>
  PROVE  IInv'
<1>1. TypeOK'
  BY BoundsAssumption DEF IInv, TypeOK, CallClient, WellFormed, BoundsAssumption
<1>2. WellFormed(pkt_list)'
  BY DEF CallClient, WellFormed
<1>3. HeadCountIsRecent'
  BY DEF IInv, HeadCountIsRecent, HeadCount, CallClient
<1>4. ClosedPortHasWork'
  BY DEF IInv, ClosedPortHasWork, CallClient
<1> QED BY <1>1, <1>2, <1>3, <1>4 DEF IInv

LEMMA TickKeeps ==
  ASSUME IInv, NEW can_send \in BOOLEAN, NEW idle \in BOOLEAN, Tick(can_send, idle)
  PROVE  IInv'
<1> DEFINE service == ServiceQueue(pkt_list, port_good, can_send, idle)
<1>1. /\ pkt_list' = service.list
      /\ IF service.giveup THEN Reopen(service.written) ELSE Written(service.written)
      /\ UNCHANGED <<port_good, posts>>
  BY DEF Tick
<1>2. ServiceOutcome(pkt_list, port_good, service)
  BY ServiceCases DEF IInv
<1> HIDE DEF service
<1>3. /\ pkt_list \in Seq(Packet) /\ Len(pkt_list) \in Nat
      /\ pkt_list' \in Seq(Packet)
      /\ WellFormed(pkt_list)'
      /\ (pkt_list' # <<>>) <=> (pkt_list # <<>>)
      /\ pkt_list # <<>> => 1 \in 1..Len(pkt_list) /\ pkt_list[1] \in Packet
  <2>1. pkt_list \in Seq(Packet) /\ Len(pkt_list) \in Nat
    BY DEF IInv, TypeOK
  <2>2. WellFormed(pkt_list)'
    BY <1>1, <1>2 DEF ServiceOutcome, WellFormed
  <2>3. pkt_list' \in Seq(Packet) /\ Len(pkt_list') = Len(pkt_list)
    BY <1>1, <1>2, <2>2 DEF ServiceOutcome, WellFormed
  <2>4. (pkt_list' # <<>>) <=> (pkt_list # <<>>)
    BY <2>1, <2>3
  <2>5. pkt_list # <<>> => 1 \in 1..Len(pkt_list) /\ pkt_list[1] \in Packet
    BY <2>1
  <2> QED BY <2>1, <2>2, <2>3, <2>4, <2>5
<1>4. service.written \in Seq(Msg) /\ Len(service.written) \in Nat
  <2>1. pkt_list # <<>> => pkt_list[1].msg \in Msg
    BY <1>3 DEF Packet
  <2>2. CASE service.written = <<>>
    BY <2>2
  <2>3. CASE pkt_list # <<>> /\ service.written = <<pkt_list[1].msg>>
    <3> DEFINE m == pkt_list[1].msg
    <3>1. m \in Msg
      BY <2>1, <2>3
    <3> HIDE DEF m
    <3>2. <<m>> \in Seq(Msg) /\ Len(<<m>>) \in Nat
      BY <3>1
    <3> QED BY <2>3, <3>2 DEF m
  <2> QED BY <1>2, <2>2, <2>3 DEF ServiceOutcome
<1>5. pkt_list # <<>> => pkt_list[1].transmit_count \in 0..(MaxAttempts + 1)
  BY <1>3 DEF Packet
<1>6. wire' \in Seq(Msg)
  <2>0. wire \in Seq(Msg)
    BY DEF IInv, TypeOK
  <2>1. wire \o service.written \in Seq(Msg) /\ <<>> \in Seq(Msg)
    BY <1>4, <2>0, ConcatProperties
  <2>2. CASE service.giveup
    <3>1. wire' \in {<<>>, service.written}
      BY <1>1, <2>2 DEF Reopen
    <3> QED BY <1>4, <2>1, <3>1
  <2>3. CASE ~service.giveup
    <3>1. wire' \in {wire, wire \o service.written}
      BY <1>1, <2>3 DEF Written
    <3> QED BY <2>0, <2>1, <3>1
  <2> QED BY <2>2, <2>3
<1>7. silent \in 0..(MaxAttempts + 1) /\ silent' \in 0..(MaxAttempts + 1)
  BY <1>1, RetryAssumption DEF IInv, TypeOK, Reopen, Written, Saturated, RetryAssumption
<1>8. TypeOK'
  BY <1>1, <1>3, <1>6, <1>7 DEF IInv, TypeOK, Reopen, Written
<1>9. HeadCountIsRecent'
  <2> SUFFICES ASSUME ~port_good, pkt_list # <<>>
               PROVE  pkt_list'[1].transmit_count <= silent' + 1
    BY <1>1, <1>3 DEF HeadCountIsRecent
  <2>1. pkt_list[1].transmit_count <= silent + 1
    BY DEF IInv, HeadCountIsRecent
  <2>2. CASE service.written = <<>>
    BY <1>1, <1>2, <1>3, <2>1, <2>2 DEF Written, ServiceOutcome
  <2>3. CASE service.giveup
    BY <1>1, <1>2, <2>3 DEF Reopen, ServiceOutcome
  <2>4. CASE service.written # <<>> /\ ~service.giveup
    <3>1. pkt_list'[1].transmit_count = Saturated(pkt_list[1].transmit_count + 1)
      BY <1>1, <1>2, <2>4 DEF ServiceOutcome
    <3>2. silent' = Saturated(silent + 1)
      BY <1>1, <2>4 DEF Written
    <3> QED BY <1>5, <1>7, <2>1, <3>1, <3>2, RetryAssumption
            DEF Saturated, RetryAssumption
  <2> QED BY <2>2, <2>3, <2>4
<1>10. ClosedPortHasWork'
  <2>1. CASE service.giveup
    BY <1>1, <1>2, <1>3, <2>1 DEF ClosedPortHasWork, ServiceOutcome
  <2>2. CASE ~service.giveup
    BY <1>1, <1>3, <2>2 DEF IInv, ClosedPortHasWork, Written
  <2> QED BY <2>1, <2>2
<1> QED BY <1>3, <1>8, <1>9, <1>10 DEF IInv

LEMMA EchoKeeps ==
  ASSUME IInv, Echo
  PROVE  IInv'
<1>1. wire # <<>> /\ Head(wire) \in Msg /\ Tail(wire) \in Seq(Msg)
  BY HeadTailProperties DEF IInv, TypeOK, Echo
<1>2. WellFormed(pkt_list)'
  BY RemoveFromQueueWellFormed DEF IInv, Echo, WellFormed
<1>3. TypeOK'
  <2>1. pkt_list' \in Seq(Packet)
    BY <1>2 DEF WellFormed
  <2>2. port_good' \in BOOLEAN
    BY DEF IInv, TypeOK, Echo, PortGood
  <2>3. silent' \in 0..(MaxAttempts + 1)
    BY RetryAssumption DEF IInv, TypeOK, Echo, RetryAssumption
  <2> QED BY <1>1, <2>1, <2>2, <2>3 DEF IInv, TypeOK, Echo
<1>4. HeadCountIsRecent'
  <2>1. CASE Matching(pkt_list, Head(wire)) # {}
    BY <2>1 DEF Echo, PortGood, HeadCountIsRecent
  <2>2. CASE Matching(pkt_list, Head(wire)) = {}
    <3>1. pkt_list' = pkt_list
      BY <2>2 DEF Echo, RemoveFromQueue, RemoveFirst
    <3> QED BY <2>2, <3>1 DEF Echo, PortGood, IInv, HeadCountIsRecent
  <2> QED BY <2>1, <2>2
<1>5. ClosedPortHasWork'
  BY DEF Echo, ClosedPortHasWork
<1> QED BY <1>2, <1>3, <1>4, <1>5 DEF IInv

LEMMA IInvInit == Init => IInv
<1> SUFFICES ASSUME Init PROVE IInv
  OBVIOUS
<1>1. TypeOK
  <2>1. pkt_list \in Seq(Packet) /\ wire \in Seq(Msg)
    BY DEF Init
  <2>2. silent \in 0..(MaxAttempts + 1) /\ posts \in 0..MaxPosts
    BY RetryAssumption, BoundsAssumption DEF Init, RetryAssumption, BoundsAssumption
  <2>3. port_good \in BOOLEAN /\ port_open \in BOOLEAN
    BY DEF Init
  <2> QED BY <2>1, <2>2, <2>3 DEF TypeOK
<1>2. WellFormed(pkt_list)
  BY DEF Init, WellFormed
<1> QED BY <1>1, <1>2 DEF Init, IInv, HeadCountIsRecent, ClosedPortHasWork

LEMMA IInvNext == IInv /\ [Next]_vars => IInv'
<1> SUFFICES ASSUME IInv, [Next]_vars PROVE IInv'
  OBVIOUS
<1>0. /\ WellFormed(pkt_list) /\ silent + 1 \in Nat
      /\ ClientTag \subseteq Tag \ {NoTag}
  BY RetryAssumption, BoundsAssumption
  DEF IInv, TypeOK, RetryAssumption, BoundsAssumption
<1>1. ASSUME NEW m \in Msg, Post(m) PROVE IInv'
  <2>1. WellFormed(Send(pkt_list, m))
    BY <1>0, SendWellFormed
  <2>2. HeadCount(pkt_list, silent + 1) => HeadCount(Send(pkt_list, m), silent + 1)
    BY <1>0, SendHeadCount
  <2>3. Send(pkt_list, m) # <<>>
    BY <1>0, SendHeadCount
  <2> QED BY <1>1, <2>1, <2>2, <2>3, ClientCallKeeps DEF Post
<1>2. ASSUME NEW tag \in ClientTag, NEW m \in Msg, Supersede(tag, m) PROVE IInv'
  <2>1. WellFormed(Replace(pkt_list, m, tag))
    BY <1>0, ReplaceWellFormed
  <2>2. HeadCount(pkt_list, silent + 1) => HeadCount(Replace(pkt_list, m, tag), silent + 1)
    BY <1>0, ReplaceHeadCount
  <2>3. Replace(pkt_list, m, tag) # <<>>
    BY <1>0, ReplaceHeadCount
  <2> QED BY <1>2, <2>1, <2>2, <2>3, ClientCallKeeps DEF Supersede
<1>3. ASSUME NEW tag \in ClientTag \cap {TagTime, TagDate}, Withdraw(tag) PROVE IInv'
  <2>1. tag \in Tag \ {NoTag} /\ ~Urgent(tag)
    BY <1>0 DEF TagTime, TagDate, TagCdc, Urgent
  <2>2. WellFormed(RemoveTag(pkt_list, tag))
    BY <1>0, <2>1, RemoveTagWellFormed
  <2>3. HeadCount(pkt_list, silent + 1) => HeadCount(RemoveTag(pkt_list, tag), silent + 1)
    BY <1>0, <2>1, RemoveTagHeadCount
  <2> QED BY <1>3, <2>2, <2>3, ClientCallKeeps DEF Withdraw
<1>4. CASE \E can_send, idle \in BOOLEAN : Tick(can_send, idle)
  BY <1>4, TickKeeps
<1>5. CASE Echo
  BY <1>5, EchoKeeps
<1>6. CASE UNCHANGED vars
  <2>1. UNCHANGED <<pkt_list, port_good, port_open, wire, silent, posts>>
    BY <1>6 DEF vars
  <2> QED BY <2>1 DEF IInv, TypeOK, WellFormed, HeadCountIsRecent, ClosedPortHasWork
<1> QED BY <1>1, <1>2, <1>3, <1>4, <1>5, <1>6 DEF Next

LEMMA Invariance == Spec => []IInv
BY IInvInit, IInvNext, PTL DEF Spec

(* Type correctness of the queue, the port and the echoes.                 *)
THEOREM TypeCorrect == Spec => []TypeOK
<1>1. IInv => TypeOK
  BY DEF IInv
<1> QED BY <1>1, Invariance, PTL

LEMMA ListDomain == IInv => DOMAIN pkt_list = 1..Len(pkt_list)
BY DEF IInv, WellFormed

(* A tag names at most one packet of pkt_list, whatever the interleaving   *)
(* of client calls, retries and echoes.                                    *)
THEOREM TagsAreUnique == Spec => []OnePerTag
<1>1. IInv => OnePerTag
  BY ListDomain DEF IInv, WellFormed, OnePerTag
<1> QED BY <1>1, Invariance, PTL

(* Only the head, or the packet an urgent one was put before, has been     *)
(* transmitted and waits for its echo.                                     *)
THEOREM StopAndWaitHolds == Spec => []StopAndWait
<1>1. IInv => StopAndWait
  BY ListDomain DEF IInv, WellFormed, StopAndWait
<1> QED BY <1>1, Invariance, PTL

(* Looking at the head alone suffices to respect sync.                     *)
THEOREM SyncPacketIsHead == Spec => []SyncIsFirst
<1>1. IInv => SyncIsFirst
  <2> SUFFICES ASSUME IInv, NEW i \in DOMAIN pkt_list, pkt_list[i].sync
               PROVE  i = 1
    BY DEF SyncIsFirst
  <2>1. i \in 1..Len(pkt_list)
    BY ListDomain
  <2>2. pkt_list[i].sync = Urgent(pkt_list[i].tag)
    BY <2>1 DEF IInv, WellFormed
  <2>3. Urgent(pkt_list[i].tag)
    BY <2>2
  <2> QED BY <2>1, <2>3 DEF IInv, WellFormed
<1> QED BY <1>1, Invariance, PTL

(* Both hold together: superseding by tag and the loop that looks at the   *)
(* head alone find the list as they expect it.                             *)
THEOREM ListIsWellFormed == Spec => []ListWellFormed
<1>1. OnePerTag /\ SyncIsFirst => ListWellFormed
  BY DEF ListWellFormed
<1> QED BY <1>1, TagsAreUnique, SyncPacketIsHead, PTL

(* The head's transmission count never exceeds what was sent on this port  *)
(* since it was opened or last heard, by more than the one of a giveup.    *)
THEOREM CountIsRecent == Spec => []HeadCountIsRecent
<1>1. IInv => HeadCountIsRecent
  BY DEF IInv
<1> QED BY <1>1, Invariance, PTL

(* A port that failed to open always has a packet whose retries will give  *)
(* the open() another try.                                                 *)
THEOREM ClosedPortIsRetried == Spec => []ClosedPortHasWork
<1>1. IInv => ClosedPortHasWork
  BY DEF IInv
<1> QED BY <1>1, Invariance, PTL

(* The port is never given up before MaxAttempts unanswered transmissions. *)
THEOREM ReopeningIsJustified == Spec => ReopenJustified
<1> DEFINE Justified ==
      \A can_send, idle \in BOOLEAN :
        Tick(can_send, idle) /\ ServiceQueue(pkt_list, port_good, can_send, idle).giveup
          => silent + 1 >= MaxAttempts
<1>1. IInv => Justified
  <2> SUFFICES ASSUME IInv, NEW can_send \in BOOLEAN, NEW idle \in BOOLEAN,
                      ServiceQueue(pkt_list, port_good, can_send, idle).giveup
               PROVE  silent + 1 >= MaxAttempts
    OBVIOUS
  <2> DEFINE service == ServiceQueue(pkt_list, port_good, can_send, idle)
  <2>0. WellFormed(pkt_list) /\ service.giveup
    BY DEF IInv
  <2> HIDE DEF service
  <2>1. pkt_list # <<>> /\ ~port_good /\ pkt_list[1].transmit_count >= MaxAttempts
    <3>1. ServiceOutcome(pkt_list, port_good, service)
      BY <2>0, ServiceCases DEF service
    <3> QED BY <2>0, <3>1 DEF ServiceOutcome
  <2>2. pkt_list[1].transmit_count <= silent + 1
    BY <2>1 DEF IInv, HeadCountIsRecent
  <2>3. pkt_list[1].transmit_count \in 0..(MaxAttempts + 1)
    <3>1. pkt_list[1] \in Packet
      BY <2>1 DEF IInv, TypeOK
    <3> QED BY <3>1 DEF Packet
  <2> QED BY <2>1, <2>2, <2>3, RetryAssumption DEF IInv, TypeOK, RetryAssumption
<1>2. IInv /\ [Next]_vars => [Justified]_vars
  BY <1>1
<1>3. Spec => [][Justified]_vars
  BY <1>2, Invariance, PTL DEF Spec
<1> QED BY <1>3 DEF ReopenJustified
-----------------------------------------------------------------------------
(* The outbox that the list implements: the packets without what only the  *)
(* retries need.                                                           *)
Entry(p) == [msg |-> p.msg, tag |-> p.tag]
Pending(list) == [i \in DOMAIN list |-> [msg |-> list[i].msg, tag |-> list[i].tag]]

LEMMA PendingType ==
  ASSUME NEW list \in Seq(Packet)
  PROVE  /\ Pending(list) \in Seq([msg : Msg, tag : Tag])
         /\ Len(Pending(list)) = Len(list)
         /\ DOMAIN Pending(list) = 1..Len(list)
         /\ \A i \in 1..Len(list) : Pending(list)[i] = Entry(list[i])
<1>0. \A p \in Packet : Entry(p) \in [msg : Msg, tag : Tag]
  BY DEF Entry, Packet
<1>1. \A i \in 1..Len(list) : Entry(list[i]) \in [msg : Msg, tag : Tag]
  <2>1. \A i \in 1..Len(list) : list[i] \in Packet
    OBVIOUS
  <2> QED BY <1>0, <2>1
<1>2. Pending(list) = [i \in 1..Len(list) |-> Entry(list[i])]
  BY DEF Pending, Entry
<1>3. Len(list) \in Nat
  OBVIOUS
<1> QED BY <1>1, <1>2, <1>3

(* Two lists with the same messages and tags are the same outbox.          *)
LEMMA SamePending ==
  ASSUME NEW list \in Seq(Packet), NEW t \in Seq([msg : Msg, tag : Tag]),
         Len(t) = Len(list), \A i \in 1..Len(list) : t[i] = Entry(list[i])
  PROVE  Pending(list) = t
<1>1. /\ Pending(list) \in Seq([msg : Msg, tag : Tag])
      /\ Len(Pending(list)) = Len(list)
      /\ \A i \in 1..Len(list) : Pending(list)[i] = Entry(list[i])
  BY PendingType
<1> QED BY <1>1, SeqEqual

LEMMA PendingRemoveNth ==
  ASSUME NEW list \in Seq(Packet), NEW i \in 1..Len(list)
  PROVE  Pending(RemoveNth(list, i)) = RemoveNth(Pending(list), i)
<1> DEFINE r == RemoveNth(list, i)
           t == RemoveNth(Pending(list), i)
<1>1. /\ r \in Seq(Packet) /\ Len(r) = Len(list) - 1
      /\ \A j \in 1..(Len(list) - 1) : r[j] = IF j < i THEN list[j] ELSE list[j + 1]
  BY RemoveNthProperties
<1>2. /\ Pending(list) \in Seq([msg : Msg, tag : Tag]) /\ Len(Pending(list)) = Len(list)
      /\ \A j \in 1..Len(list) : Pending(list)[j] = Entry(list[j])
  BY PendingType
<1>3. /\ t \in Seq([msg : Msg, tag : Tag]) /\ Len(t) = Len(list) - 1
      /\ \A j \in 1..(Len(list) - 1) :
           t[j] = IF j < i THEN Pending(list)[j] ELSE Pending(list)[j + 1]
  BY <1>2, RemoveNthProperties
<1> HIDE DEF r, t
<1>4. ASSUME NEW j \in 1..Len(r) PROVE t[j] = Entry(r[j])
  <2>1. j \in 1..(Len(list) - 1) /\ j \in 1..Len(list) /\ j + 1 \in 1..Len(list)
    BY <1>1
  <2> QED BY <1>1, <1>2, <1>3, <2>1
<1>5. Pending(r) = t
  BY <1>1, <1>3, <1>4, SamePending
<1> QED BY <1>5 DEF r, t

LEMMA PendingAppend ==
  ASSUME NEW list \in Seq(Packet), NEW p \in Packet
  PROVE  Pending(Append(list, p)) = Append(Pending(list), Entry(p))
<1> DEFINE r == Append(list, p)
           t == Append(Pending(list), Entry(p))
<1>1. /\ r \in Seq(Packet) /\ Len(r) = Len(list) + 1 /\ r[Len(list) + 1] = p
      /\ \A j \in 1..Len(list) : r[j] = list[j]
  BY AppendProperties
<1>2. /\ Pending(list) \in Seq([msg : Msg, tag : Tag]) /\ Len(Pending(list)) = Len(list)
      /\ \A j \in 1..Len(list) : Pending(list)[j] = Entry(list[j])
  BY PendingType
<1>3. Entry(p) \in [msg : Msg, tag : Tag]
  BY DEF Entry, Packet
<1>4. /\ t \in Seq([msg : Msg, tag : Tag]) /\ Len(t) = Len(list) + 1
      /\ t[Len(list) + 1] = Entry(p)
      /\ \A j \in 1..Len(list) : t[j] = Pending(list)[j]
  BY <1>2, <1>3, AppendProperties
<1> HIDE DEF r, t
<1>5. \A j \in 1..Len(r) : j \in 1..Len(list) \/ j = Len(list) + 1
  BY <1>1
<1>6. \A j \in 1..Len(r) : t[j] = Entry(r[j])
  BY <1>1, <1>2, <1>4, <1>5
<1>7. Pending(r) = t
  BY <1>1, <1>4, <1>6, SamePending
<1> QED BY <1>7 DEF r, t

LEMMA PendingPrepend ==
  ASSUME NEW list \in Seq(Packet), NEW p \in Packet
  PROVE  Pending(<<p>> \o list) = <<Entry(p)>> \o Pending(list)
<1> DEFINE r == <<p>> \o list
           t == <<Entry(p)>> \o Pending(list)
<1>0. Len(list) \in Nat
  OBVIOUS
<1>1. /\ r \in Seq(Packet) /\ Len(r) = Len(list) + 1 /\ r[1] = p
      /\ \A j \in 2..(Len(list) + 1) : r[j] = list[j - 1]
  <2>1. <<p>> \in Seq(Packet) /\ Len(<<p>>) = 1 /\ <<p>>[1] = p
    OBVIOUS
  <2>2. r \in Seq(Packet) /\ Len(r) = 1 + Len(list)
    BY <2>1, ConcatProperties
  <2>3. r[1] = p
    BY <1>0, <2>1
  <2>4. ASSUME NEW j \in 2..(Len(list) + 1) PROVE r[j] = list[j - 1]
    BY <1>0, <2>1
  <2> QED BY <1>0, <2>2, <2>3, <2>4
<1>2. /\ Pending(list) \in Seq([msg : Msg, tag : Tag]) /\ Len(Pending(list)) = Len(list)
      /\ \A j \in 1..Len(list) : Pending(list)[j] = Entry(list[j])
  BY PendingType
<1>3. Entry(p) \in [msg : Msg, tag : Tag]
  BY DEF Entry, Packet
<1>4. /\ t \in Seq([msg : Msg, tag : Tag]) /\ Len(t) = Len(list) + 1 /\ t[1] = Entry(p)
      /\ \A j \in 2..(Len(list) + 1) : t[j] = Pending(list)[j - 1]
  <2> DEFINE e == Entry(p)
             q == Pending(list)
  <2>1. <<e>> \in Seq([msg : Msg, tag : Tag]) /\ Len(<<e>>) = 1 /\ <<e>>[1] = e
    BY <1>3
  <2> HIDE DEF e, q
  <2>2. <<e>> \o q \in Seq([msg : Msg, tag : Tag]) /\ Len(<<e>> \o q) = 1 + Len(q)
    BY <1>2, <2>1, ConcatProperties DEF q
  <2>3. (<<e>> \o q)[1] = e
    BY <1>0, <1>2, <2>1 DEF q
  <2>4. ASSUME NEW j \in 2..(Len(list) + 1) PROVE (<<e>> \o q)[j] = q[j - 1]
    <3>1. q \in Seq([msg : Msg, tag : Tag]) /\ Len(q) = Len(list)
      BY <1>2 DEF q
    <3> QED BY <1>0, <2>1, <3>1
  <2> QED BY <1>0, <1>2, <2>2, <2>3, <2>4 DEF e, q
<1> HIDE DEF r, t
<1>5. ASSUME NEW j \in 1..Len(r) PROVE t[j] = Entry(r[j])
  <2>1. CASE j = 1
    BY <1>1, <1>4, <2>1
  <2>2. CASE j # 1
    <3>1. j \in 2..(Len(list) + 1) /\ j - 1 \in 1..Len(list)
      BY <1>0, <1>1, <2>2
    <3> QED BY <1>1, <1>2, <1>4, <3>1
  <2> QED BY <2>1, <2>2
<1>6. Pending(r) = t
  BY <1>1, <1>4, <1>5, SamePending
<1> QED BY <1>6 DEF r, t

(* ibus_remove_tag_from_queue takes the one entry of the tag away.         *)
LEMMA RemoveTagIsWithout ==
  ASSUME WellFormed(pkt_list), NEW tag \in Tag \ {NoTag}
  PROVE  Outbox!Without(tag, Pending(RemoveTag(pkt_list, tag)))
<1>0. pkt_list \in Seq(Packet)
  BY DEF WellFormed
<1> DEFINE pending == Pending(pkt_list)
           rest == Pending(RemoveTag(pkt_list, tag))
<1>1. /\ DOMAIN pending = 1..Len(pkt_list)
      /\ \A i \in 1..Len(pkt_list) : pending[i].tag = pkt_list[i].tag
  <2>1. /\ DOMAIN pending = 1..Len(pkt_list)
        /\ \A i \in 1..Len(pkt_list) : pending[i] = Entry(pkt_list[i])
    BY <1>0, PendingType
  <2>2. \A i \in 1..Len(pkt_list) : Entry(pkt_list[i]).tag = pkt_list[i].tag
    BY DEF Entry
  <2> HIDE DEF pending
  <2> QED BY <2>1, <2>2
<1>2. CASE /\ \A j \in 1..Len(pkt_list) : pkt_list[j].tag # tag
           /\ RemoveTag(pkt_list, tag) = pkt_list
  BY <1>1, <1>2 DEF Outbox!Without, Pending
<1>3. CASE \E i \in 1..Len(pkt_list) :
             /\ pkt_list[i].tag = tag
             /\ \A j \in 1..Len(pkt_list) : pkt_list[j].tag = tag => j = i
             /\ RemoveTag(pkt_list, tag) = RemoveNth(pkt_list, i)
  <2>1. PICK i \in 1..Len(pkt_list) :
             /\ pkt_list[i].tag = tag
             /\ \A j \in 1..Len(pkt_list) : pkt_list[j].tag = tag => j = i
             /\ RemoveTag(pkt_list, tag) = RemoveNth(pkt_list, i)
    BY <1>3
  <2>2. rest = RemoveNth(pending, i)
    BY <1>0, <2>1, PendingRemoveNth
  <2>3. rest = Outbox!Drop(pending, i)
    BY <2>2 DEF RemoveNth, Outbox!Drop
  <2> HIDE DEF rest
  <2>4. /\ i \in DOMAIN pending /\ pending[i].tag = tag
        /\ \A k \in DOMAIN pending \ {i} : pending[k].tag # tag
    BY <1>1, <2>1
  <2>5. Outbox!Without(tag, rest)
    BY <2>3, <2>4 DEF Outbox!Without, Pending
  <2> QED BY <2>5 DEF rest
<1> QED BY <1>2, <1>3, RemoveTagCases

LEMMA PostIsPost ==
  ASSUME IInv, NEW m \in Msg, Post(m)
  PROVE  Outbox!Post(m)
<1>1. pkt_list \in Seq(Packet) /\ NewPacket(m, FALSE, NoTag) \in Packet
      /\ NewPacket(m, FALSE, NoTag).msg = m /\ NewPacket(m, FALSE, NoTag).tag = NoTag
  BY NewPacketType, TagFacts DEF IInv, TypeOK
<1>2. pkt_list' = Append(pkt_list, NewPacket(m, FALSE, NoTag)) /\ UNCHANGED <<wire, port_good>>
  BY DEF Post, CallClient, Send, AddToQueue
<1>3. Pending(pkt_list') = Append(Pending(pkt_list), [msg |-> m, tag |-> NoTag])
  BY <1>1, <1>2, PendingAppend DEF Entry
<1> QED BY <1>2, <1>3 DEF Outbox!Post, Pending

(* What precedes an appended element is the sequence it was appended to.   *)
LEMMA AppendFront ==
  ASSUME NEW S, NEW q \in Seq(S), NEW e \in S
  PROVE  /\ Append(q, e) # <<>>
         /\ Append(q, e)[Len(Append(q, e))] = e
         /\ SubSeq(Append(q, e), 1, Len(Append(q, e)) - 1) = q
<1> DEFINE a == Append(q, e)
<1>1. PICK n \in Nat : n = Len(q)
  OBVIOUS
<1>2. a \in Seq(S) /\ Len(a) = n + 1 /\ a[n + 1] = e /\ \A j \in 1..n : a[j] = q[j]
  BY <1>1, AppendProperties
<1>3. \A j \in 1..n : q[j] \in S
  BY <1>1
<1> HIDE DEF a
<1>4. \A j \in 1..n : a[j] \in S
  BY <1>2, <1>3
<1>5. /\ SubSeq(a, 1, n) \in Seq(S)
      /\ Len(SubSeq(a, 1, n)) = IF 1 <= n THEN n - 1 + 1 ELSE 0
      /\ \A j \in 1..(n - 1 + 1) : SubSeq(a, 1, n)[j] = a[1 + j - 1]
  BY <1>1, <1>4, SubSeqProperties
<1>6. Len(SubSeq(a, 1, n)) = Len(q)
  BY <1>1, <1>5
<1>7. ASSUME NEW j \in 1..Len(q) PROVE SubSeq(a, 1, n)[j] = q[j]
  <2>1. j \in 1..n /\ j \in 1..(n - 1 + 1) /\ 1 + j - 1 = j
    BY <1>1
  <2> QED BY <1>2, <1>5, <2>1
<1>8. SubSeq(a, 1, n) = q
  BY <1>5, <1>6, <1>7, SeqEqual
<1>9. Len(a) - 1 = n /\ a # <<>> /\ a[Len(a)] = e
  BY <1>1, <1>2
<1> QED BY <1>8, <1>9 DEF a

LEMMA SupersedeIsSupersede ==
  ASSUME IInv, NEW tag \in Tag \ {NoTag}, NEW m \in Msg, Supersede(tag, m)
  PROVE  Outbox!Supersede(tag, m)
<1> DEFINE rest == RemoveTag(pkt_list, tag)
           p == NewPacket(m, Urgent(tag), tag)
           e == [msg |-> m, tag |-> tag]
<1>1. WellFormed(pkt_list) /\ WellFormed(rest)
  BY RemoveTagWellFormed DEF IInv
<1>2. Urgent(tag) \in BOOLEAN /\ p \in Packet /\ Entry(p) = e
  BY NewPacketType DEF Entry, Urgent
<1>3. /\ pkt_list' = IF Urgent(tag) THEN <<p>> \o rest ELSE Append(rest, p)
      /\ UNCHANGED <<wire, port_good>>
  BY DEF Supersede, CallClient, Replace, AddToQueue
<1>4. Outbox!Without(tag, Pending(rest))
  BY <1>1, RemoveTagIsWithout
<1>5. rest \in Seq(Packet)
  BY <1>1 DEF WellFormed
<1> HIDE DEF rest, p
<1> DEFINE q == Pending(rest)
<1>6. q \in Seq([msg : Msg, tag : Tag]) /\ e \in [msg : Msg, tag : Tag]
  BY <1>5, PendingType
<1>7. Pending(pkt_list') = IF Urgent(tag) THEN <<e>> \o q ELSE Append(q, e)
  BY <1>2, <1>3, <1>5, PendingAppend, PendingPrepend
<1> HIDE DEF q, e
<1>8. CASE Urgent(tag)
  <2>1. Pending(pkt_list') = <<e>> \o q
    BY <1>7, <1>8
  <2>2. <<e>> \o q # <<>> /\ Head(<<e>> \o q) = e /\ Tail(<<e>> \o q) = q
    <3>1. <<e>> \in Seq([msg : Msg, tag : Tag]) /\ Len(<<e>>) = 1 /\ <<e>>[1] = e
      BY <1>6
    <3>2. /\ <<e>> \o q \in Seq([msg : Msg, tag : Tag]) /\ Len(<<e>> \o q) = 1 + Len(q)
          /\ Len(q) \in Nat
      BY <1>6, <3>1, ConcatProperties
    <3>3. (<<e>> \o q)[1] = e
      BY <1>6, <3>1, <3>2
    <3>4. <<e>> \o q # <<>> /\ Head(<<e>> \o q) = e
      BY <3>2, <3>3
    <3>5. ASSUME NEW j \in 1..Len(q) PROVE (<<e>> \o q)[j + 1] = q[j]
      BY <1>6, <3>1, <3>2
    <3>6. /\ Tail(<<e>> \o q) \in Seq([msg : Msg, tag : Tag])
          /\ Len(Tail(<<e>> \o q)) = Len(q)
          /\ \A j \in 1..Len(q) : Tail(<<e>> \o q)[j] = q[j]
      <4> DEFINE t == <<e>> \o q
      <4>1. t \in Seq([msg : Msg, tag : Tag]) /\ t # <<>> /\ Len(t) - 1 = Len(q)
            /\ \A j \in 1..Len(q) : t[j + 1] = q[j]
        BY <3>2, <3>4, <3>5
      <4> HIDE DEF t
      <4>2. /\ Tail(t) \in Seq([msg : Msg, tag : Tag]) /\ Len(Tail(t)) = Len(t) - 1
            /\ \A j \in 1..Len(Tail(t)) : Tail(t)[j] = t[j + 1]
        BY <4>1, HeadTailProperties
      <4> QED BY <4>1, <4>2 DEF t
    <3>7. Tail(<<e>> \o q) = q
      BY <1>6, <3>6, SeqEqual
    <3> QED BY <3>4, <3>7
  <2>3. tag \in {TagCdc}
    BY <1>8 DEF Urgent
  <2> QED BY <1>3, <1>4, <2>1, <2>2, <2>3 DEF Outbox!Supersede, Pending, q, e
<1>9. CASE ~Urgent(tag)
  <2>1. Pending(pkt_list') = Append(q, e)
    BY <1>7, <1>9
  <2>2. /\ Append(q, e) # <<>> /\ Append(q, e)[Len(Append(q, e))] = e
        /\ SubSeq(Append(q, e), 1, Len(Append(q, e)) - 1) = q
    BY <1>6, AppendFront
  <2>3. tag \notin {TagCdc}
    BY <1>9 DEF Urgent
  <2> QED BY <1>3, <1>4, <2>1, <2>2, <2>3 DEF Outbox!Supersede, Pending, q, e
<1> QED BY <1>8, <1>9

LEMMA WithdrawIsCancel ==
  ASSUME IInv, NEW tag \in {TagTime, TagDate}, Withdraw(tag)
  PROVE  Outbox!Cancel(tag)
<1>1. tag \in Tag \ {NoTag}
  BY DEF TagTime, TagDate, Tag, NoTag
<1>2. Outbox!Without(tag, Pending(RemoveTag(pkt_list, tag)))
  BY <1>1, RemoveTagIsWithout DEF IInv
<1>3. pkt_list' = RemoveTag(pkt_list, tag) /\ UNCHANGED <<wire, port_good>>
  BY DEF Withdraw, CallClient
<1> QED BY <1>2, <1>3 DEF Outbox!Cancel, Pending

LEMMA EchoIsConfirm ==
  ASSUME IInv, Echo
  PROVE  Outbox!Confirm
<1> DEFINE m == Head(wire)
           pending == Pending(pkt_list)
<1>0. WellFormed(pkt_list) /\ pkt_list \in Seq(Packet)
  BY DEF IInv, TypeOK
<1>1. /\ wire # <<>> /\ wire' = Tail(wire)
      /\ pkt_list' = RemoveFromQueue(pkt_list, m)
      /\ port_good' = (port_good \/ Matching(pkt_list, m) # {})
  BY DEF Echo, PortGood
<1>2. /\ DOMAIN pending = 1..Len(pkt_list) /\ Len(pkt_list) \in Nat
      /\ \A i \in 1..Len(pkt_list) : pending[i].msg = pkt_list[i].msg
  <2>1. /\ DOMAIN pending = 1..Len(pkt_list)
        /\ \A i \in 1..Len(pkt_list) : pending[i] = Entry(pkt_list[i])
    BY <1>0, PendingType
  <2>2. \A i \in 1..Len(pkt_list) : Entry(pkt_list[i]).msg = pkt_list[i].msg
    BY DEF Entry
  <2>3. Len(pkt_list) \in Nat
    BY <1>0
  <2> HIDE DEF pending
  <2> QED BY <2>1, <2>2, <2>3
<1>3. Matching(pkt_list, m) = {i \in 1..Len(pkt_list) : pkt_list[i].msg = m}
  BY <1>0 DEF Matching
<1>4. CASE Matching(pkt_list, m) = {}
  <2>1. pkt_list' = pkt_list
    BY <1>0, <1>1, <1>4, RemoveFromQueueCases
  <2>2. port_good' = port_good
    BY <1>1, <1>4 DEF IInv, TypeOK
  <2>3. \A i \in DOMAIN pending : pending[i].msg # m
    BY <1>2, <1>3, <1>4
  <2> QED BY <1>1, <2>1, <2>2, <2>3 DEF Outbox!Confirm, Pending
<1>5. CASE Matching(pkt_list, m) # {}
  <2>1. PICK i \in Matching(pkt_list, m) :
          /\ i \in 1..Len(pkt_list)
          /\ \A j \in Matching(pkt_list, m) : i <= j
          /\ pkt_list' = RemoveNth(pkt_list, i)
    BY <1>0, <1>1, <1>5, RemoveFromQueueCases
  <2>2. Pending(pkt_list') = Outbox!Drop(pending, i)
    <3>1. Pending(pkt_list') = RemoveNth(pending, i)
      BY <1>0, <2>1, PendingRemoveNth
    <3> QED BY <3>1 DEF RemoveNth, Outbox!Drop
  <2>3. i \in DOMAIN pending /\ pending[i].msg = m
    BY <1>2, <1>3, <2>1
  <2>4. \A k \in 1..(i - 1) : pending[k].msg # m
    <3> SUFFICES ASSUME NEW k \in 1..(i - 1), pending[k].msg = m PROVE FALSE
      OBVIOUS
    <3>1. k \in 1..Len(pkt_list) /\ k < i /\ k \in Nat /\ i \in Nat
      BY <1>2, <2>1
    <3>2. k \in Matching(pkt_list, m)
      BY <1>2, <1>3, <3>1
    <3>3. i <= k
      BY <2>1, <3>2
    <3> QED BY <3>1, <3>3
  <2>5. port_good' = TRUE
    BY <1>1, <1>5
  <2> QED BY <1>1, <2>2, <2>3, <2>4, <2>5 DEF Outbox!Confirm, Pending
<1> QED BY <1>4, <1>5

(* A tick puts the first entry on the bus, or loses it there, or reopens   *)
(* the port, or does nothing that a client could see.                      *)
LEMMA TickIsTransmit ==
  ASSUME IInv, NEW can_send \in BOOLEAN, NEW idle \in BOOLEAN, Tick(can_send, idle)
  PROVE  Outbox!Transmit \/ Outbox!Reopen \/ UNCHANGED Outbox!vars
<1> DEFINE service == ServiceQueue(pkt_list, port_good, can_send, idle)
           pending == Pending(pkt_list)
<1>1. /\ pkt_list' = service.list
      /\ IF service.giveup THEN Reopen(service.written) ELSE Written(service.written)
      /\ port_good' = port_good
  BY DEF Tick
<1>2. ServiceOutcome(pkt_list, port_good, service)
  BY ServiceCases DEF IInv
<1> HIDE DEF service
<1>3. pkt_list \in Seq(Packet) /\ service.list \in Seq(Packet) /\ wire \in Seq(Msg)
  BY <1>2 DEF IInv, TypeOK, ServiceOutcome, WellFormed
<1>4. /\ pending \in Seq([msg : Msg, tag : Tag]) /\ Len(pending) = Len(pkt_list)
      /\ \A i \in 1..Len(pkt_list) : pending[i] = Entry(pkt_list[i])
  BY <1>3, PendingType
<1>5. Pending(pkt_list') = pending
  <2>1. /\ Len(service.list) = Len(pkt_list)
        /\ \A i \in 1..Len(pkt_list) : pending[i] = Entry(service.list[i])
    BY <1>2, <1>4 DEF ServiceOutcome, Entry
  <2> HIDE DEF pending
  <2> QED BY <1>1, <1>3, <1>4, <2>1, SamePending
<1>6. pkt_list # <<>> => pending # <<>> /\ Head(pending).msg = pkt_list[1].msg
  <2>1. ASSUME pkt_list # <<>> PROVE 1 \in 1..Len(pkt_list)
    BY <1>3, <2>1
  <2>2. pkt_list # <<>> => pending # <<>>
    BY <1>3, <1>4
  <2>3. pending # <<>> => Head(pending) = pending[1]
    BY <1>4
  <2> HIDE DEF pending
  <2>4. pkt_list # <<>> => pending[1] = Entry(pkt_list[1])
    BY <1>4, <2>1
  <2>5. Entry(pkt_list[1]).msg = pkt_list[1].msg
    BY DEF Entry
  <2> QED BY <2>2, <2>3, <2>4, <2>5
<1> HIDE DEF pending
<1>7. CASE service.written = <<>> /\ ~service.giveup
  <2>1. wire' \in {wire, wire \o <<>>}
    BY <1>1, <1>7 DEF Written
  <2>2. wire \o <<>> = wire
    BY <1>3
  <2> QED BY <1>1, <1>5, <2>1, <2>2 DEF Outbox!vars, Pending, pending
<1>8. CASE service.giveup
  <2>1. ~port_good /\ pkt_list # <<>> /\ service.written = <<pkt_list[1].msg>>
    BY <1>2, <1>8 DEF ServiceOutcome
  <2>2. wire' \in {<<>>, service.written}
    BY <1>1, <1>8 DEF Reopen
  <2>3. wire' \in {<<>>, <<Head(pending).msg>>} /\ pending # <<>>
    BY <1>6, <2>1, <2>2
  <2> QED BY <1>1, <1>5, <2>1, <2>3 DEF Outbox!Reopen, Pending, pending
<1>9. CASE /\ pkt_list # <<>> /\ service.written = <<pkt_list[1].msg>>
           /\ ~service.giveup
  <2>1. wire' \in {wire, wire \o <<pkt_list[1].msg>>}
    BY <1>1, <1>9 DEF Written
  <2>2. CASE wire' = wire
    BY <1>1, <1>5, <2>2 DEF Outbox!vars, Pending, pending
  <2>3. CASE wire' = wire \o <<pkt_list[1].msg>>
    <3> DEFINE m == pkt_list[1].msg
    <3>1. m \in Msg
      <4>1. pkt_list[1] \in Packet
        BY <1>3, <1>9
      <4> QED BY <4>1 DEF Packet
    <3> HIDE DEF m
    <3>2. wire \o <<m>> = Append(wire, m)
      BY <1>3, <3>1
    <3>3. wire' = Append(wire, Head(pending).msg) /\ pending # <<>>
      BY <1>6, <1>9, <2>3, <3>2 DEF m
    <3> QED BY <1>1, <1>5, <3>3 DEF Outbox!Transmit, Pending, pending
  <2> QED BY <2>1, <2>2, <2>3
<1> QED BY <1>2, <1>7, <1>8, <1>9 DEF ServiceOutcome

(* The transmit queue with its retries, countdowns, lost transmissions and *)
(* reopenings is the ordered outbox its clients take it for: entries leave *)
(* only by their echo, by a successor under their tag or by a withdrawal,  *)
(* and only the first is ever put on the bus.                              *)
THEOREM QueueImplementsOutbox == Spec => ImplementsOutbox
<1>1. Init => Outbox!Init
  <2> SUFFICES ASSUME Init PROVE Outbox!Init
    OBVIOUS
  <2>1. pkt_list = <<>> /\ wire = <<>> /\ port_good = FALSE
    BY DEF Init
  <2>2. Pending(<<>>) = <<>>
    <3>1. <<>> \in Seq(Packet) /\ <<>> \in Seq([msg : Msg, tag : Tag]) /\ Len(<<>>) = 0
      OBVIOUS
    <3>2. \A i \in 1..0 : <<>>[i] = Entry(<<>>[i])
      OBVIOUS
    <3> QED BY <3>1, <3>2, SamePending
  <2> QED BY <2>1, <2>2 DEF Outbox!Init, Pending
<1>2. IInv /\ [Next]_vars => [Outbox!Next]_(Outbox!vars)
  <2> SUFFICES ASSUME IInv, [Next]_vars PROVE [Outbox!Next]_(Outbox!vars)
    OBVIOUS
  <2>1. ClientTag \subseteq Tag \ {NoTag}
    BY BoundsAssumption DEF BoundsAssumption
  <2>2. ASSUME NEW m \in Msg, Post(m) PROVE Outbox!Next
    BY <2>2, PostIsPost DEF Outbox!Next
  <2>3. ASSUME NEW tag \in ClientTag, NEW m \in Msg, Supersede(tag, m) PROVE Outbox!Next
    BY <2>1, <2>3, SupersedeIsSupersede DEF Outbox!Next
  <2>4. ASSUME NEW tag \in ClientTag \cap {TagTime, TagDate}, Withdraw(tag) PROVE Outbox!Next
    BY <2>4, WithdrawIsCancel DEF Outbox!Next
  <2>5. ASSUME NEW can_send \in BOOLEAN, NEW idle \in BOOLEAN, Tick(can_send, idle)
        PROVE  [Outbox!Next]_(Outbox!vars)
    BY <2>5, TickIsTransmit DEF Outbox!Next
  <2>6. CASE Echo
    BY <2>6, EchoIsConfirm DEF Outbox!Next
  <2>7. CASE UNCHANGED vars
    BY <2>7 DEF vars, Outbox!vars
  <2> QED BY <2>2, <2>3, <2>4, <2>5, <2>6, <2>7 DEF Next
<1> QED BY <1>1, <1>2, Invariance, PTL DEF Spec, ImplementsOutbox, Outbox!Spec
=============================================================================
