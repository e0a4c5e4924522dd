------------------------------ MODULE SendQueue ------------------------------
(***************************************************************************)
(* The transmit queue as a state machine: src/rpi/ibus-send.c with the     *)
(* part of ibus_50ms_tick (src/rpi/ibus.c) that drives it.                 *)
(*                                                                         *)
(* The program hears its own transmissions.  A packet stays in pkt_list    *)
(* until an intact message with the same bytes is received; until then the *)
(* head is sent again every ResendTicks ticks.  If MaxAttempts             *)
(* transmissions stay unanswered on a port that never echoed anything, the *)
(* tick closes the port and opens it again.                                *)
(*                                                                         *)
(* The clients (message handlers, the 1s tick, the TCP server) appear as   *)
(* the calls they make.  wire is the echoes that are on their way: what    *)
(* was written, transmitted undamaged and not read yet.                    *)
(***************************************************************************)
EXTENDS PacketQueue

CONSTANTS
  ClientTag,  \* the tags the clients of this instance use
  MaxPosts,   \* bound: number of client calls
  MaxWire     \* bound: number of echoes on their way

ASSUME BoundsAssumption ==
  /\ ClientTag \subseteq Tag \ {NoTag}
  /\ MaxPosts \in Nat
  /\ MaxWire \in Nat \ {0}

VARIABLES
  pkt_list,   \* the transmit list
  port_good,  \* an echo has been matched at least once
  port_open,  \* the last open() of the serial port succeeded
  wire,       \* echoes on their way
  silent,     \* history: transmissions since the port was opened, or since
              \* the last echo, stopping at MaxAttempts + 1
  posts       \* number of client calls so far

vars == <<pkt_list, port_good, port_open, wire, silent, posts>>

Init ==
  /\ pkt_list = <<>>
  /\ port_good = FALSE
  /\ port_open = TRUE
  /\ wire = <<>>
  /\ silent = 0
  /\ posts = 0
-----------------------------------------------------------------------------
CallClient(list) ==
  /\ posts < MaxPosts
  /\ posts' = posts + 1
  /\ pkt_list' = list
  /\ UNCHANGED <<port_good, port_open, wire, silent>>

(* ibus_send: CD changer answers, the server's messages, startup messages. *)
Post(m) == CallClient(Send(pkt_list, m))

(* ibus_remove_tag_from_queue, then ibus_send_with_tag.                    *)
Supersede(tag, m) == CallClient(Replace(pkt_list, m, tag))

(* ibus_remove_tag_from_queue alone: the handlers of the IKE's time and    *)
(* date messages, so a message was read.                                   *)
Withdraw(tag) ==
  /\ port_open
  /\ CallClient(RemoveTag(pkt_list, tag))

(* ibus_init_serial_port(TRUE): closing loses the echoes nobody read, but  *)
(* the message written just now may come in on the new port.               *)
Reopen(written) ==
  /\ port_open' \in BOOLEAN
  /\ wire' \in IF port_open /\ port_open' THEN {<<>>, written} ELSE {<<>>}
  /\ silent' = 0

(* A write on an open port comes back as an echo, or is damaged on the     *)
(* bus; one on a closed port (file descriptor -1) goes nowhere.            *)
Written(written) ==
  /\ wire' \in IF port_open /\ Len(wire) < MaxWire
               THEN {wire, wire \o written} ELSE {wire}
  /\ silent' = IF written = <<>> THEN silent ELSE Saturated(silent + 1)
  /\ UNCHANGED port_open

(* One 50ms tick.  can_send: no byte was read since the last tick.         *)
Tick(can_send, idle) ==
  LET service == ServiceQueue(pkt_list, port_good, can_send, idle)
  IN  /\ pkt_list' = service.list
      /\ IF service.giveup THEN Reopen(service.written)
                           ELSE Written(service.written)
      /\ UNCHANGED <<port_good, posts>>

(* ibus_handle_message of our own transmission.                            *)
Echo ==
  /\ port_open
  /\ wire # <<>>
  /\ wire' = Tail(wire)
  /\ pkt_list' = RemoveFromQueue(pkt_list, Head(wire))
  /\ port_good' = PortGood(port_good, pkt_list, Head(wire))
  /\ silent' = IF Matching(pkt_list, Head(wire)) # {} THEN 0 ELSE silent
  /\ UNCHANGED <<port_open, posts>>

Next ==
  \/ \E m \in Msg : Post(m)
  \/ \E tag \in ClientTag, m \in Msg : Supersede(tag, m)
  \/ \E tag \in ClientTag \cap {TagTime, TagDate} : Withdraw(tag)
  \/ \E can_send, idle \in BOOLEAN : Tick(can_send, idle)
  \/ Echo

Spec == Init /\ [][Next]_vars
-----------------------------------------------------------------------------
(* Fairness.  The main loop calls the tick every 50ms.  The bus falls idle *)
(* again and again, a transmission that is repeated is eventually not      *)
(* damaged, what arrived is read before the next tick, and an open() that  *)
(* is repeated eventually succeeds.                                        *)
Delivered == Tick(TRUE, TRUE) /\ wire' # wire /\ wire' # <<>>
Reopened  == Tick(TRUE, TRUE) /\ ~port_open /\ port_open'

Fairness ==
  /\ WF_vars(Tick(TRUE, TRUE))
  /\ SF_vars(Delivered)
  /\ SF_vars(Echo)
  /\ SF_vars(Reopened)

FairSpec == Spec /\ Fairness
-----------------------------------------------------------------------------
TypeOK ==
  /\ pkt_list \in Seq(Packet)
  /\ port_good \in BOOLEAN
  /\ port_open \in BOOLEAN
  /\ wire \in Seq(Msg)
  /\ silent \in 0..(MaxAttempts + 1)
  /\ posts \in 0..MaxPosts

(* Whatever the clients, retries and echoes do, a tag other than 0 names   *)
(* at most one queued packet: superseding never leaves a stale request     *)
(* behind (ibus_remove_tag_from_queue before every ibus_send_with_tag).    *)
OnePerTag ==
  \A i, j \in DOMAIN pkt_list :
    pkt_list[i].tag = pkt_list[j].tag /\ pkt_list[i].tag # NoTag => i = j

(* Stop and wait: the only packets that have been transmitted and not      *)
(* answered are the head and, if an urgent packet was put before it in the *)
(* meantime, the second.  Everything behind has never been on the bus.     *)
StopAndWait ==
  \A i \in DOMAIN pkt_list :
    pkt_list[i].transmit_count > 0 =>
      \/ i = 1
      \/ i = 2 /\ Urgent(pkt_list[1].tag)

(* A packet with "sync" is always the head, which is why the loop of       *)
(* ibus_service_queue that looks at the head alone never overtakes one.    *)
SyncIsFirst == \A i \in DOMAIN pkt_list : pkt_list[i].sync => i = 1

(* The two that make the transmit list what its callers take it for.       *)
ListWellFormed == OnePerTag /\ SyncIsFirst

(* The head's count is covered by transmissions since the port was opened  *)
(* or last heard.  A head that came forward with a count from before a     *)
(* reopening would have the new port closed without a fair trial.          *)
HeadCountIsRecent ==
  ~port_good /\ pkt_list # <<>> => pkt_list[1].transmit_count <= silent + 1

(* A failed open() is retried only because a packet is still waiting to be *)
(* given up on: a closed port always has one, and has never echoed.        *)
ClosedPortHasWork == ~port_open => pkt_list # <<>> /\ ~port_good

(* The port is closed and opened again only when it never echoed anything  *)
(* and all but the last of MaxAttempts transmissions went unanswered since *)
(* it was opened.                                                          *)
ReopenJustified ==
  [][\A can_send, idle \in BOOLEAN :
       Tick(can_send, idle) /\ ServiceQueue(pkt_list, port_good, can_send, idle).giveup
         => silent + 1 >= MaxAttempts]_vars

(* What the comment in the loop of ibus_service_queue says of a packet     *)
(* with "sync": "must send all previous items first (including echo-back)".*)
(* It does not hold: such a packet is put before the others, and is sent   *)
(* while one that was put on the bus earlier still waits for its echo.     *)
SyncWaitsForEcho ==
  [][\A can_send, idle \in BOOLEAN :
       (/\ Tick(can_send, idle)
        /\ ServiceQueue(pkt_list, port_good, can_send, idle).written # <<>>
        /\ pkt_list[1].sync)
       => \A i \in DOMAIN pkt_list \ {1} : pkt_list[i].transmit_count = 0]_vars

(* When the clients stop, the queue drains: every packet is transmitted    *)
(* until its echo is heard, through losses, reopenings and failed opens.   *)
(* With ClosedPortHasWork, a port that could not be opened again does not  *)
(* stay closed either.                                                     *)
Drains == []<>(pkt_list = <<>>)

(* The queue implements the abstract outbox.                               *)
Outbox == INSTANCE Outbox WITH
  pending   <- [i \in DOMAIN pkt_list |->
                  [msg |-> pkt_list[i].msg, tag |-> pkt_list[i].tag]],
  confirmed <- port_good,
  UrgentTag <- {TagCdc},
  PlainTag  <- {TagTime, TagDate}

ImplementsOutbox == Outbox!Spec
=============================================================================
