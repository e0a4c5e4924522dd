------------------------------- MODULE Outbox -------------------------------
(***************************************************************************)
(* What the transmit queue promises its clients, without retries, timers   *)
(* or links: an ordered outbox in which                                    *)
(*   - a post without a tag goes to the end and stays until its own        *)
(*     message comes back from the bus;                                    *)
(*   - a tag names at most one entry, which a later post with the same tag *)
(*     supersedes, at the front for an urgent tag and at the end otherwise;*)
(*   - only the first entry is ever put on the bus;                        *)
(*   - the port may be reopened only if nothing was ever heard on it.      *)
(***************************************************************************)
EXTENDS Integers, Sequences

CONSTANTS
  Msg,     \* messages
  Tag,     \* tags, NoTag among them
  NoTag,   \* the tag of an entry that nothing supersedes
  UrgentTag,  \* the tags whose entry goes to the front
  PlainTag    \* the tags whose entry may be cancelled without a successor

VARIABLES
  pending,    \* the entries, in order
  wire,       \* what is on its way back from the bus
  confirmed   \* some message has come back

vars == <<pending, wire, confirmed>>

Entry == [msg : Msg, tag : Tag]

TypeOK ==
  /\ pending \in Seq(Entry)
  /\ wire \in Seq(Msg)
  /\ confirmed \in BOOLEAN

Init ==
  /\ pending = <<>>
  /\ wire = <<>>
  /\ confirmed = FALSE

(* s without its element at position i.                                    *)
Drop(s, i) == SubSeq(s, 1, i - 1) \o SubSeq(s, i + 1, Len(s))

(* pending without the entry of tag t, if there is one.                    *)
Without(t, rest) ==
  \/ /\ \A i \in DOMAIN pending : pending[i].tag # t
     /\ rest = pending
  \/ \E i \in DOMAIN pending :
       /\ pending[i].tag = t
       /\ \A k \in DOMAIN pending \ {i} : pending[k].tag # t
       /\ rest = Drop(pending, i)

Post(m) ==
  /\ pending' = Append(pending, [msg |-> m, tag |-> NoTag])
  /\ UNCHANGED <<wire, confirmed>>

Supersede(t, m) ==
  /\ IF t \in UrgentTag
     THEN /\ pending' # <<>>
          /\ Head(pending') = [msg |-> m, tag |-> t]
          /\ Without(t, Tail(pending'))
     ELSE /\ pending' # <<>>
          /\ pending'[Len(pending')] = [msg |-> m, tag |-> t]
          /\ Without(t, SubSeq(pending', 1, Len(pending') - 1))
  /\ UNCHANGED <<wire, confirmed>>

Cancel(t) ==
  /\ Without(t, pending')
  /\ UNCHANGED <<wire, confirmed>>

(* The message that comes back settles the first entry that asks for it.   *)
Confirm ==
  /\ wire # <<>>
  /\ wire' = Tail(wire)
  /\ \/ /\ \A i \in DOMAIN pending : pending[i].msg # Head(wire)
        /\ UNCHANGED <<pending, confirmed>>
     \/ \E i \in DOMAIN pending :
          /\ pending[i].msg = Head(wire)
          /\ \A k \in 1..(i - 1) : pending[k].msg # Head(wire)
          /\ pending' = Drop(pending, i)
          /\ confirmed' = TRUE

(* Only the first entry is transmitted; the bus may lose it.               *)
Transmit ==
  /\ pending # <<>>
  /\ wire' = Append(wire, Head(pending).msg)
  /\ UNCHANGED <<pending, confirmed>>

(* Reopening discards what the old port had not delivered yet; the message *)
(* transmitted last may still arrive.                                      *)
Reopen ==
  /\ ~confirmed
  /\ pending # <<>>
  /\ wire' \in {<<>>, <<Head(pending).msg>>}
  /\ UNCHANGED <<pending, confirmed>>

Next ==
  \/ \E m \in Msg : Post(m)
  \/ \E m \in Msg, t \in Tag \ {NoTag} : Supersede(t, m)
  \/ \E t \in PlainTag : Cancel(t)
  \/ Confirm
  \/ Transmit
  \/ Reopen

Spec == Init /\ [][Next]_vars
=============================================================================
