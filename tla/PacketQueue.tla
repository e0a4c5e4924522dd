---------------------------- MODULE PacketQueue ----------------------------
(***************************************************************************)
(* The transmit list of the Raspberry Pi program, src/rpi/ibus-send.c, as  *)
(* operators on sequences of packets.  The list is a singly linked SList   *)
(* (src/rpi/slist.c) whose head is the first element of the sequence.  The *)
(* bytes of a message are abstracted to a member of Msg; two packets with  *)
(* the same Msg have the same bytes, length and checksum.                  *)
(*                                                                         *)
(* The modules that keep a list (SendQueue, CdChanger) apply these         *)
(* operators to their own variable.                                        *)
(***************************************************************************)
EXTENDS Integers, Sequences

CONSTANTS
  Msg,          \* the messages the program can be asked to send
  ResendTicks,  \* 50ms ticks before a packet is sent again: 10 in the code
  MaxAttempts   \* transmissions of one packet that may stay unanswered on a
                \* port that never echoed anything: 3 in the code

ASSUME RetryAssumption ==
  /\ ResendTicks \in Nat \ {0}
  /\ MaxAttempts \in Nat \ {0}

(* ibus-send.h: the tags, and 0 for a packet without one.                  *)
NoTag   == "untagged"
TagCdc  == "cdc"
TagTime == "time"
TagDate == "date"
TagLeds == "leds"
Tag == {NoTag, TagCdc, TagTime, TagDate, TagLeds}

(* transmit_count is only ever compared with MaxAttempts, and only while    *)
(* no echo was heard, so the model stops counting one above it.            *)
Packet == [msg            : Msg,
           countdown      : 0..ResendTicks,
           sync           : BOOLEAN,
           tag            : Tag,
           transmit_count : 0..(MaxAttempts + 1)]
-----------------------------------------------------------------------------
NewPacket(m, sync, tag) ==
  [msg |-> m, countdown |-> 1, sync |-> sync, tag |-> tag, transmit_count |-> 0]

AddToQueue(list, m, sync, prepend, tag) ==
  IF prepend THEN <<NewPacket(m, sync, tag)>> \o list
             ELSE Append(list, NewPacket(m, sync, tag))

(* slist_remove of the element at position i.                              *)
RemoveNth(list, i) ==
  SubSeq(list, 1, i - 1) \o SubSeq(list, i + 1, Len(list))

(* The walk from the head that removes the first element it looks for, if  *)
(* there is one.                                                           *)
RemoveFirst(list, found) ==
  IF found = {} THEN list
  ELSE RemoveNth(list, CHOOSE i \in found : \A j \in found : i <= j)

Tagged(list, tag) == {i \in DOMAIN list : list[i].tag = tag}

(* ibus_remove_tag_from_queue: every removal starts again at the head      *)
(* ("goto start"), until a walk finds no packet with the tag; Len(list)    *)
(* walks are enough for that.                                              *)
RemoveTag(list, tag) ==
  LET step == [s \in Seq(Packet) |-> RemoveFirst(s, Tagged(s, tag))]
      Walk[n \in Nat] == IF n = 0 THEN list ELSE step[Walk[n - 1]]
  IN  Walk[Len(list)]

RemoveLastMatch(list, m) ==   \* mutant: the newest packet with these bytes
  LET found == {i \in DOMAIN list : list[i].msg = m}
  IN  IF found = {} THEN list
      ELSE RemoveNth(list, CHOOSE i \in found : \A j \in found : i >= j)

Matching(list, m) == {i \in DOMAIN list : list[i].msg = m}

(* ibus_remove_from_queue: an intact message was received; the first       *)
(* packet with the same bytes is taken as delivered, and the port works.   *)
RemoveFromQueue(list, m) == RemoveFirst(list, Matching(list, m))

PortGood(good, list, m) == good \/ Matching(list, m) # {}
-----------------------------------------------------------------------------
Send(list, m) == AddToQueue(list, m, FALSE, FALSE, NoTag)

(* Every caller removes the packets with the tag first.  The CD changer    *)
(* asks for sync and prepend, every other caller for neither.              *)
Urgent(tag) == tag = TagCdc

ReplaceNothing(list, m, tag) ==   \* mutant: the old packet is not removed
  AddToQueue(list, m, Urgent(tag), Urgent(tag), tag)

ReplaceInFront(list, m, tag) ==   \* mutant: every tag is prepended
  AddToQueue(RemoveTag(list, tag), m, Urgent(tag), TRUE, tag)

ReplaceBehind(list, m, tag) ==   \* mutant: sync without prepend
  AddToQueue(RemoveTag(list, tag), m, Urgent(tag), FALSE, tag)

Replace(list, m, tag) ==
  AddToQueue(RemoveTag(list, tag), m, Urgent(tag), Urgent(tag), tag)

AgedPastZero(list) ==   \* mutant: the test of the countdown is missing
  [i \in DOMAIN list |-> [list[i] EXCEPT !.countdown = @ - 1]]

Aged(list) ==
  [i \in DOMAIN list |->
     [list[i] EXCEPT !.countdown = IF @ > 0 THEN @ - 1 ELSE @]]

Saturated(n) == IF n > MaxAttempts THEN MaxAttempts + 1 ELSE n

ReadyOnce(p) ==   \* mutant: a packet is never sent a second time
  p.countdown = 0 /\ p.transmit_count = 0

Ready(p) == p.countdown = 0

GiveUpEarly(attempts, good) ==   \* mutant: >= for >
  attempts >= MaxAttempts /\ ~good

GiveUpGoodPort(attempts, good) ==   \* mutant: port_good is not looked at
  attempts > MaxAttempts

GiveUp(attempts, good) == attempts > MaxAttempts /\ ~good

(* The head after write().  A giveup starts a new count and returns before *)
(* the countdown is set.                                                   *)
Sent(p, attempts, giveup) ==
  [p EXCEPT !.transmit_count = IF giveup THEN 1 ELSE attempts,
            !.countdown      = IF giveup THEN 0 ELSE ResendTicks]

(* ibus_service_queue.  idle stands for the three tests of the line: CTS   *)
(* (only when no monitor pin is configured), the UART's RX pin, and its    *)
(* FIFO.  Only the head is considered, so "sync" never ends the loop.      *)
(* written is the sequence of messages handed to write().                  *)
ServiceQueue(list, good, can_send, idle) ==
  LET aged     == Aged(list)
      due      == can_send /\ idle /\ list # <<>> /\ Ready(aged[1])
      attempts == Saturated(aged[1].transmit_count + 1)
      giveup   == due /\ GiveUp(attempts, good)
  IN  [list    |-> IF due THEN <<Sent(aged[1], attempts, giveup)>> \o Tail(aged)
                          ELSE aged,
       written |-> IF due THEN <<aged[1].msg>> ELSE <<>>,
       giveup  |-> giveup]
=============================================================================
