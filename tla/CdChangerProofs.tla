--------------------------- MODULE CdChangerProofs ---------------------------
(***************************************************************************)
(* The CD changer and the radio (module CdChanger), proved for every set   *)
(* of settings: any options, any messages of the radio and of the car, and *)
(* as many of them as the bounds of the setting say.                       *)
(*                                                                         *)
(* The timers hold with no assumption.  That the program and the radio     *)
(* agree needs the input to be read before the next tick (Prompt): then    *)
(* the program hears a transmission before it makes the next one or is     *)
(* asked something else.  Timers may still change the list between the     *)
(* write and the echo, so that the echo finds another head, or another     *)
(* packet with its bytes.                                                  *)
(***************************************************************************)
EXTENDS CdChanger, PacketQueueProofs

(* The transmit list: a status is queued under the CD changer's tag, but   *)
(* for a start that the radio asked for; nothing else has a tag.           *)
ListInv ==
  /\ WellFormed(pkt_list)
  /\ \A m, tag : Holds(pkt_list, m, tag) =>
       /\ tag \in {NoTag, TagCdc}
       /\ (tag = TagCdc) => m \in Statuses
       /\ (tag = NoTag /\ m \in Statuses) => m = "start-playing"

(* Other inputs than the CD changer's answer nothing.                      *)
OtherInputIsMute == ~Cdc => pkt_list = <<>> /\ timers = {} /\ wanted = "none"

NoStatus(list) == \A m \in Statuses, tag \in Tag : ~Holds(list, m, tag)

(* With no status on its way, "playing" is what the radio heard last.      *)
AgreesUnlessQueued ==
  NoStatus(pkt_list) /\ radio_status # "none"
    => (playing <=> radio_status = "start-playing")

(* The radio asked for a start: one is queued that nothing supersedes, or  *)
(* one as an answer that playing agrees with, or the radio heard it.       *)
StartIsUnderWay ==
  wanted = "play" =>
    \/ Holds(pkt_list, "start-playing", NoTag)
    \/ Holds(pkt_list, "start-playing", TagCdc) /\ playing
    \/ NoStatus(pkt_list) /\ radio_status = "start-playing" /\ playing

(* The radio asked for a stop or a pause: every answer until its next      *)
(* command says so.                                                        *)
StopIsUnderWay ==
  wanted = "stop" =>
    /\ ~Holds(pkt_list, "start-playing", NoTag)
    /\ ~playing
    /\ \/ \E m \in Statuses \ {"start-playing"} : Holds(pkt_list, m, TagCdc)
       \/ NoStatus(pkt_list) /\ radio_status \in Statuses \ {"start-playing"}

StatusInv == AgreesUnlessQueued /\ StartIsUnderWay /\ StopIsUnderWay

(* At most one message that the program wrote is not taken notice of, and  *)
(* nothing is waiting to be read before it.                                *)
OneInFlight ==
  /\ Len(wire) <= 1
  /\ wire # <<>> => rx = <<>>
  /\ \A i \in 2..Len(rx) : rx[i].msg \notin Own

(* While a status m is in flight some status is queued, and its echo will   *)
(* do no harm to what the radio asked for: a start takes away a packet     *)
(* that no contrary answer is in front of, anything else leaves a start    *)
(* behind it.                                                              *)
Harmless(m) ==
  /\ ~NoStatus(pkt_list)
  /\ wanted = "play" =>
       IF m = "start-playing"
       THEN \A n \in Statuses \ {"start-playing"} : ~Holds(pkt_list, n, TagCdc)
       ELSE Holds(pkt_list, "start-playing", NoTag)
  /\ wanted = "stop" => m # "start-playing"

FlightInv == \A m \in Statuses : InFlight(m) => Harmless(m)

(* The radio has heard what the program is about to hear.                  *)
RadioHeard == rx # <<>> /\ rx[1].msg \in Statuses => radio_status = rx[1].msg

PromptInv == OneInFlight /\ RadioHeard /\ FlightInv /\ StatusInv

IInv ==
  /\ TypeOK
  /\ TimerSound
  /\ ListInv
  /\ OtherInputIsMute
  /\ Prompt => PromptInv
-----------------------------------------------------------------------------
LEMMA Constants ==
  /\ Msg = Own
  /\ \A m \in FromRadio \cup FromCar : m \notin Own
  /\ Statuses \subseteq Own /\ "announce" \in Own /\ "im-here" \in Own
  /\ TagCdc \in Tag \ {NoTag} /\ NoTag \in Tag /\ Urgent(TagCdc)
BY CdChangerAssumption DEF CdChangerAssumption, FromRadio, FromCar, Own, Statuses,
   Tag, TagCdc, NoTag, Urgent

(* The list after messages that are no status were put at its end.         *)
Grown(list) ==
  /\ WellFormed(list)
  /\ ~Cdc => list = pkt_list
  /\ \A m, tag : Holds(pkt_list, m, tag) => Holds(list, m, tag)
  /\ \A m, tag : Holds(list, m, tag) =>
       Holds(pkt_list, m, tag) \/ (tag = NoTag /\ m \in {"announce", "im-here"})

LEMMA AnnouncedIsGrown ==
  ASSUME ListInv
  PROVE  /\ Grown(pkt_list)
         /\ Grown(Announced(pkt_list))
         /\ Cdc => Grown(Send(Announced(pkt_list), "im-here"))
<1>1. WellFormed(pkt_list)
  BY DEF ListInv
<1>2. Grown(pkt_list)
  BY <1>1 DEF Grown
<1>3. ASSUME NEW list, Grown(list), NEW m \in {"announce", "im-here"}, Cdc
      PROVE  Grown(Send(list, m))
  <2>1. m \in Msg /\ WellFormed(list)
    BY <1>3, Constants DEF Grown
  <2>2. WellFormed(Send(list, m))
    BY <2>1, SendWellFormed
  <2>3. \A n, tag : Holds(Send(list, m), n, tag)
                      <=> Holds(list, n, tag) \/ (n = m /\ tag = NoTag)
    BY <2>1, SendHolds
  <2> QED BY <1>3, <2>2, <2>3 DEF Grown
<1>4. Grown(Announced(pkt_list))
  BY <1>2, <1>3 DEF Announced
<1> QED BY <1>2, <1>3, <1>4

LEMMA PendingIsHeld ==
  ASSUME NEW list, WellFormed(list)
  PROVE  StartPending(list) <=> Holds(list, "start-playing", NoTag)
BY DEF StartPending, Holds, WellFormed

(* A message of the radio or of the car is nobody's echo.                  *)
LEMMA FinishForeign ==
  ASSUME NEW list, WellFormed(list), Head(rx).msg \notin Own, Finish(list)
  PROVE  pkt_list' = list
<1>1. \A i \in 1..Len(list) : list[i].msg \in Own
  <2>1. \A i \in 1..Len(list) : list[i] \in Packet
    BY DEF WellFormed
  <2> QED BY <2>1, Constants DEF Packet
<1>2. \A tag : ~Holds(list, Head(rx).msg, tag)
  BY <1>1 DEF Holds
<1> QED BY <1>2, RemoveFromQueueForeign DEF Finish
-----------------------------------------------------------------------------
(* Four ways in which a handler or the interval timer changes the list,    *)
(* playing and what the radio asked for, and that each keeps the           *)
(* invariants.  The status on the bus does not change in any of them.      *)

LEMMA GrownKeeps ==
  ASSUME ListInv, Grown(pkt_list'), UNCHANGED <<playing, wanted, radio_status>>
  PROVE  ListInv' /\ (StatusInv => StatusInv')
<1>1. "announce" \notin Statuses /\ "im-here" \notin Statuses
  BY DEF Statuses
<1>2. \A m, tag : Holds(pkt_list, m, tag) => Holds(pkt_list', m, tag)
  BY DEF Grown
<1>3. \A m, tag : Holds(pkt_list', m, tag) =>
        Holds(pkt_list, m, tag) \/ (tag = NoTag /\ m \notin Statuses)
  BY <1>1 DEF Grown
<1>4. ListInv'
  BY <1>3 DEF ListInv, Grown, TagCdc, NoTag
<1>5. NoStatus(pkt_list)' <=> NoStatus(pkt_list)
  BY <1>2, <1>3 DEF NoStatus
<1>6. "start-playing" \in Statuses
  BY DEF Statuses
<1>7. \A tag : Holds(pkt_list', "start-playing", tag) <=> Holds(pkt_list, "start-playing", tag)
  BY <1>2, <1>3, <1>6
<1>8. ASSUME AgreesUnlessQueued PROVE AgreesUnlessQueued'
  BY <1>5, <1>8 DEF AgreesUnlessQueued
<1>9. ASSUME StartIsUnderWay PROVE StartIsUnderWay'
  BY <1>5, <1>7, <1>9 DEF StartIsUnderWay
<1>10. ASSUME StopIsUnderWay PROVE StopIsUnderWay'
  BY <1>2, <1>5, <1>7, <1>10 DEF StopIsUnderWay
<1> QED BY <1>4, <1>8, <1>9, <1>10 DEF StatusInv

(* cdchanger_send_inforeq.                                                 *)
LEMMA AnswerKeeps ==
  ASSUME ListInv, NEW list, Grown(list), playing' \in BOOLEAN,
         pkt_list' = Replace(list, Status(playing'), TagCdc),
         radio_status' = radio_status,
         \/ UNCHANGED <<playing, wanted>>
         \/ playing' = TRUE /\ wanted' = "play"
         \/ wanted' = "race"
  PROVE  ListInv' /\ (StatusInv => StatusInv')
<1> DEFINE s == Status(playing')
<1>1. s \in Statuses /\ s \in Msg
  BY Constants DEF Status, Statuses
<1>2. s = "start-playing" <=> playing'
  BY DEF Status
<1> HIDE DEF s
<1>3. WellFormed(pkt_list')
  BY <1>1, Constants, ReplaceWellFormed DEF Grown, s
<1>4. \A m, tag : Holds(pkt_list', m, tag)
                    <=> (Holds(list, m, tag) /\ tag # TagCdc) \/ (m = s /\ tag = TagCdc)
  BY <1>1, Constants, ReplaceHolds DEF Grown, s
<1>5. NoTag # TagCdc /\ "start-playing" \in Statuses
      /\ "announce" \notin Statuses /\ "im-here" \notin Statuses
  BY DEF NoTag, TagCdc, Statuses
<1>6. \A m, tag : Holds(list, m, tag) =>
        Holds(pkt_list, m, tag) \/ (tag = NoTag /\ m \notin Statuses)
  BY <1>5 DEF Grown
<1>7. ListInv'
  BY <1>1, <1>3, <1>4, <1>5, <1>6 DEF ListInv
<1>8. ~NoStatus(pkt_list')
  BY <1>1, <1>4, Constants DEF NoStatus
<1>9. Holds(pkt_list', "start-playing", NoTag) <=> Holds(pkt_list, "start-playing", NoTag)
  BY <1>4, <1>5, <1>6 DEF Grown
<1>10. Holds(pkt_list', s, TagCdc)
  BY <1>4
<1>11. AgreesUnlessQueued'
  BY <1>8 DEF AgreesUnlessQueued
<1>12. ASSUME StartIsUnderWay PROVE StartIsUnderWay'
  BY <1>2, <1>9, <1>10, <1>12 DEF StartIsUnderWay
<1>13. ASSUME StopIsUnderWay PROVE StopIsUnderWay'
  BY <1>1, <1>2, <1>9, <1>10, <1>13 DEF StopIsUnderWay
<1> QED BY <1>7, <1>11, <1>12, <1>13 DEF StatusInv

(* cdchanger_handle_stop and cdchanger_handle_pause.                       *)
LEMMA StopKeeps ==
  ASSUME ListInv, NEW list, Grown(list),
         NEW s \in Statuses \ {"start-playing"},
         pkt_list' = Replace(list, s, TagCdc), playing' = FALSE,
         WantsStop(pkt_list')
  PROVE  ListInv' /\ StatusInv'
<1>1. s \in Statuses /\ s \in Msg
  BY Constants
<1>2. WellFormed(pkt_list')
  BY <1>1, Constants, ReplaceWellFormed DEF Grown
<1>3. \A m, tag : Holds(pkt_list', m, tag)
                    <=> (Holds(list, m, tag) /\ tag # TagCdc) \/ (m = s /\ tag = TagCdc)
  BY <1>1, Constants, ReplaceHolds DEF Grown
<1>4. NoTag # TagCdc /\ "announce" \notin Statuses /\ "im-here" \notin Statuses
  BY DEF NoTag, TagCdc, Statuses
<1>5. \A m, tag : Holds(list, m, tag) =>
        Holds(pkt_list, m, tag) \/ (tag = NoTag /\ m \notin Statuses)
  BY <1>4 DEF Grown
<1>6. ListInv'
  BY <1>1, <1>2, <1>3, <1>4, <1>5 DEF ListInv
<1>7. ~NoStatus(pkt_list')
  BY <1>1, <1>3, Constants DEF NoStatus
<1>8. AgreesUnlessQueued'
  BY <1>7 DEF AgreesUnlessQueued
<1>9. wanted' = IF Holds(pkt_list', "start-playing", NoTag) THEN "race" ELSE "stop"
  BY <1>2, PendingIsHeld DEF WantsStop
<1>10. StartIsUnderWay'
  BY <1>9 DEF StartIsUnderWay
<1>11. StopIsUnderWay'
  BY <1>3, <1>9 DEF StopIsUnderWay
<1> QED BY <1>6, <1>8, <1>10, <1>11 DEF StatusInv

(* cdchanger_handle_start and cdchanger_handle_diskchange.                 *)
LEMMA StartKeeps ==
  ASSUME ListInv, NEW list, Grown(list),
         pkt_list' = Send(list, "start-playing"), wanted' = "play"
  PROVE  ListInv' /\ StatusInv'
<1>1. "start-playing" \in Statuses /\ "start-playing" \in Msg
  BY Constants DEF Statuses
<1>2. WellFormed(pkt_list')
  BY <1>1, SendWellFormed DEF Grown
<1>3. \A m, tag : Holds(pkt_list', m, tag)
                    <=> Holds(list, m, tag) \/ (m = "start-playing" /\ tag = NoTag)
  BY <1>1, SendHolds DEF Grown
<1>4. NoTag # TagCdc /\ "announce" \notin Statuses /\ "im-here" \notin Statuses
  BY DEF NoTag, TagCdc, Statuses
<1>5. \A m, tag : Holds(list, m, tag) =>
        Holds(pkt_list, m, tag) \/ (tag = NoTag /\ m \notin Statuses)
  BY <1>4 DEF Grown
<1>6. ListInv'
  BY <1>2, <1>3, <1>4, <1>5 DEF ListInv
<1>7. ~NoStatus(pkt_list') /\ Holds(pkt_list', "start-playing", NoTag)
  BY <1>1, <1>3, Constants DEF NoStatus
<1> QED BY <1>6, <1>7 DEF StatusInv, AgreesUnlessQueued, StartIsUnderWay, StopIsUnderWay
-----------------------------------------------------------------------------
(* Every handler but the one for the program's own messages is one of the  *)
(* four.                                                                   *)
Outcome ==
  \/ Grown(pkt_list') /\ UNCHANGED <<playing, wanted>>
  \/ /\ Cdc /\ playing' \in BOOLEAN
     /\ \E list : Grown(list) /\ pkt_list' = Replace(list, Status(playing'), TagCdc)
     /\ UNCHANGED <<playing, wanted>> \/ (playing' = TRUE /\ wanted' = "play")
  \/ /\ Cdc /\ playing' = FALSE
     /\ \E list, s : /\ Grown(list) /\ s \in Statuses \ {"start-playing"}
                     /\ pkt_list' = Replace(list, s, TagCdc)
     /\ WantsStop(pkt_list')
  \/ /\ Cdc /\ playing' \in BOOLEAN /\ wanted' = "play"
     /\ \E list : Grown(list) /\ pkt_list' = Send(list, "start-playing")

OtherHandler ==
  \/ CdcScreen \/ OtherScreen \/ MainMenu \/ Poll \/ InfoReq \/ Stop \/ Pause
  \/ Start \/ RadioText \/ Immobilized \/ OutsideKey

LEMMA ReplacedWellFormed ==
  ASSUME NEW list, Grown(list), NEW s \in Statuses
  PROVE  WellFormed(Replace(list, s, TagCdc))
<1>1. s \in Msg /\ TagCdc \in Tag \ {NoTag}
  BY Constants
<1> QED BY <1>1, ReplaceWellFormed DEF Grown

LEMMA HandlerOutcome ==
  ASSUME ListInv, playing \in BOOLEAN, OtherHandler
  PROVE  Outcome /\ Head(rx).msg \notin Own
<1> DEFINE said_ == Announced(pkt_list)
<1>0. /\ Grown(pkt_list) /\ Grown(said_)
      /\ Cdc => Grown(Send(said_, "im-here"))
  BY AnnouncedIsGrown
<1>a. WellFormed(pkt_list) /\ WellFormed(said_)
  BY <1>0 DEF Grown
<1>b. "not-playing" \in Statuses \ {"start-playing"}
      /\ "pause-playing" \in Statuses \ {"start-playing"}
      /\ "start-playing" \in Statuses
      /\ \A b \in BOOLEAN : Status(b) \in Statuses
  BY DEF Statuses, Status
<1> HIDE DEF said_
<1>1. CASE CdcScreen
  <2>1. Head(rx).msg \notin Own
    BY <1>1 DEF CdcScreen, Reads, Own
  <2>2. CASE Cdc /\ ~playing
    <3>1. Finish(Replace(pkt_list, Status(TRUE), TagCdc)) /\ playing' = TRUE /\ wanted' = "play"
      BY <1>1, <2>2 DEF CdcScreen, SendInfoReq, WantsPlay
    <3>2. WellFormed(Replace(pkt_list, Status(TRUE), TagCdc))
      BY <1>0, <1>b, ReplacedWellFormed
    <3>3. pkt_list' = Replace(pkt_list, Status(TRUE), TagCdc)
      BY <2>1, <3>1, <3>2, FinishForeign
    <3> QED BY <1>0, <2>1, <2>2, <3>1, <3>3 DEF Outcome
  <2>3. CASE ~(Cdc /\ ~playing)
    <3>1. Finish(said_) /\ UNCHANGED <<playing, wanted>>
      BY <1>1, <2>3 DEF CdcScreen, said_
    <3> QED BY <1>0, <1>a, <2>1, <3>1, FinishForeign DEF Outcome
  <2> QED BY <2>2, <2>3
<1>2. CASE OtherScreen \/ MainMenu \/ RadioText
  <2>1. Head(rx).msg \notin Own
    BY <1>2 DEF OtherScreen, MainMenu, RadioText, Reads, Own
  <2>2. Finish(said_) /\ UNCHANGED <<playing, wanted>>
    BY <1>2 DEF OtherScreen, MainMenu, RadioText, said_
  <2> QED BY <1>0, <1>a, <2>1, <2>2, FinishForeign DEF Outcome
<1>3. CASE Poll
  <2>1. Head(rx).msg \notin Own
    BY <1>3 DEF Poll, Reads, Own
  <2>2. UNCHANGED <<playing, wanted>>
        /\ Finish(IF Cdc THEN Send(said_, "im-here") ELSE pkt_list)
    BY <1>3 DEF Poll, said_
  <2>3. CASE Cdc
    <3>1. Grown(Send(said_, "im-here"))
      BY <1>0, <2>3
    <3>2. pkt_list' = Send(said_, "im-here")
      BY <2>1, <2>2, <2>3, <3>1, FinishForeign DEF Grown
    <3> QED BY <2>1, <2>2, <3>1, <3>2 DEF Outcome
  <2>4. CASE ~Cdc
    BY <1>0, <1>a, <2>1, <2>2, <2>4, FinishForeign DEF Outcome
  <2> QED BY <2>3, <2>4
<1>4. CASE InfoReq
  <2>1. Head(rx).msg \notin Own /\ UNCHANGED <<playing, wanted>>
    BY <1>4 DEF InfoReq, Reads, Own
  <2>2. CASE Cdc
    <3>1. Finish(Replace(said_, Status(playing), TagCdc))
      BY <1>4, <2>2 DEF InfoReq, SendInfoReq, said_
    <3>2. WellFormed(Replace(said_, Status(playing), TagCdc))
      BY <1>0, <1>b, ReplacedWellFormed
    <3>3. pkt_list' = Replace(said_, Status(playing), TagCdc)
      BY <2>1, <3>1, <3>2, FinishForeign
    <3> QED BY <1>0, <2>1, <2>2, <3>3 DEF Outcome
  <2>3. CASE ~Cdc
    <3>1. Finish(pkt_list)
      BY <1>4, <2>3 DEF InfoReq
    <3> QED BY <1>0, <1>a, <2>1, <3>1, FinishForeign DEF Outcome
  <2> QED BY <2>2, <2>3
<1>5. CASE Stop \/ Pause
  <2>1. Head(rx).msg \notin Own
    BY <1>5 DEF Stop, Pause, Reads, Own
  <2>2. CASE Cdc
    <3>1. PICK s \in Statuses \ {"start-playing"} :
            /\ Finish(Replace(said_, s, TagCdc))
            /\ WantsStop(Replace(said_, s, TagCdc))
            /\ playing' = FALSE
      BY <1>5, <1>b, <2>2 DEF Stop, Pause, said_
    <3>2. WellFormed(Replace(said_, s, TagCdc))
      BY <1>0, ReplacedWellFormed
    <3>3. pkt_list' = Replace(said_, s, TagCdc)
      BY <2>1, <3>1, <3>2, FinishForeign
    <3> QED BY <1>0, <2>1, <2>2, <3>1, <3>3 DEF Outcome
  <2>3. CASE ~Cdc
    <3>1. Finish(pkt_list) /\ UNCHANGED <<playing, wanted>>
      BY <1>5, <2>3 DEF Stop, Pause
    <3> QED BY <1>0, <1>a, <2>1, <3>1, FinishForeign DEF Outcome
  <2> QED BY <2>2, <2>3
<1>6. CASE Start
  <2>1. Head(rx).msg \notin Own
    BY <1>6 DEF Start, Reads, Own
  <2>2. CASE Cdc
    <3>1. Finish(Send(said_, "start-playing")) /\ wanted' = "play"
          /\ \E m : playing' = (playing \/ m)
      BY <1>6, <2>2 DEF Start, WantsPlay, said_
    <3>2. WellFormed(Send(said_, "start-playing"))
      BY <1>a, <1>b, Constants, SendWellFormed
    <3>3. pkt_list' = Send(said_, "start-playing")
      BY <2>1, <3>1, <3>2, FinishForeign
    <3>4. playing' \in BOOLEAN
      BY <3>1
    <3> QED BY <1>0, <2>1, <2>2, <3>1, <3>3, <3>4 DEF Outcome
  <2>3. CASE ~Cdc
    <3>1. Finish(pkt_list) /\ UNCHANGED <<playing, wanted>>
      BY <1>6, <2>3 DEF Start
    <3> QED BY <1>0, <1>a, <2>1, <3>1, FinishForeign DEF Outcome
  <2> QED BY <2>2, <2>3
<1>7. CASE Immobilized \/ OutsideKey
  <2>1. Head(rx).msg \notin Own
    BY <1>7 DEF Immobilized, OutsideKey, Reads, Own
  <2>2. Finish(pkt_list) /\ UNCHANGED <<playing, wanted>>
    BY <1>7 DEF Immobilized, OutsideKey, state
  <2> QED BY <1>0, <1>a, <2>1, <2>2, FinishForeign DEF Outcome
<1> QED BY <1>1, <1>2, <1>3, <1>4, <1>5, <1>6, <1>7 DEF OtherHandler

LEMMA OutcomeKeeps ==
  ASSUME ListInv, OtherInputIsMute, Outcome, radio_status' = radio_status
  PROVE  /\ ListInv' /\ (StatusInv => StatusInv')
         /\ ~Cdc => pkt_list' = <<>> /\ wanted' = "none"
<1>1. ListInv' /\ (StatusInv => StatusInv')
  BY GrownKeeps, AnswerKeeps, StopKeeps, StartKeeps DEF Outcome
<1>2. ASSUME ~Cdc PROVE pkt_list' = <<>> /\ wanted' = "none"
  BY <1>2 DEF Outcome, Grown, OtherInputIsMute
<1> QED BY <1>1, <1>2
-----------------------------------------------------------------------------
(* cdchanger_handle_stopped and cdchanger_handle_playing hear a status     *)
(* that was harmless when it was in flight.                                *)
LEMMA StatusEchoKeeps ==
  ASSUME ListInv, NEW m \in Statuses, Harmless(m), StatusInv,
         radio_status = m, radio_status' = m, wanted' = wanted,
         playing' = (m = "start-playing"),
         pkt_list' = pkt_list \/ pkt_list' = RemoveFromQueue(pkt_list, m)
  PROVE  StatusInv'
<1>1. WellFormed(pkt_list)
  BY DEF ListInv
<1>2. /\ \A n, tag : Holds(pkt_list', n, tag) => Holds(pkt_list, n, tag)
      /\ \A n, tag : Holds(pkt_list, n, tag) /\ n # m => Holds(pkt_list', n, tag)
  BY <1>1, RemoveFromQueueHolds
<1>3. /\ "start-playing" \in Statuses /\ NoTag \in Tag /\ TagCdc \in Tag
      /\ NoTag # TagCdc
  BY Constants DEF Statuses, NoTag, TagCdc
<1>4. \A n \in Statuses : \A tag : Holds(pkt_list, n, tag) =>
        tag = TagCdc \/ (tag = NoTag /\ n = "start-playing")
  BY DEF ListInv
<1>5. AgreesUnlessQueued'
  BY DEF AgreesUnlessQueued
<1>6. StartIsUnderWay'
  <2> SUFFICES ASSUME wanted = "play", ~Holds(pkt_list', "start-playing", NoTag)
               PROVE  \/ Holds(pkt_list', "start-playing", TagCdc) /\ playing'
                      \/ NoStatus(pkt_list') /\ radio_status' = "start-playing" /\ playing'
    BY DEF StartIsUnderWay
  <2>1. m = "start-playing"
    BY <1>2 DEF Harmless
  <2>2. \A n \in Statuses \ {"start-playing"} : ~Holds(pkt_list, n, TagCdc)
    BY <2>1 DEF Harmless
  <2>3. \A n \in Statuses : \A tag :
          Holds(pkt_list', n, tag) => n = "start-playing" /\ tag = TagCdc
    BY <1>2, <1>4, <2>2
  <2>4. playing' = TRUE
    BY <2>1
  <2>5. CASE Holds(pkt_list', "start-playing", TagCdc)
    BY <2>4, <2>5
  <2>6. CASE ~Holds(pkt_list', "start-playing", TagCdc)
    BY <2>1, <2>3, <2>4, <2>6 DEF NoStatus
  <2> QED BY <2>5, <2>6
<1>7. StopIsUnderWay'
  <2> SUFFICES ASSUME wanted = "stop"
               PROVE  /\ ~Holds(pkt_list', "start-playing", NoTag)
                      /\ ~playing'
                      /\ \/ \E n \in Statuses \ {"start-playing"} : Holds(pkt_list', n, TagCdc)
                         \/ /\ NoStatus(pkt_list')
                            /\ radio_status' \in Statuses \ {"start-playing"}
    BY DEF StopIsUnderWay
  <2>1. m # "start-playing" /\ ~NoStatus(pkt_list)
    BY DEF Harmless
  <2>2. ~Holds(pkt_list, "start-playing", NoTag)
    BY DEF StatusInv, StopIsUnderWay
  <2>3. PICK n \in Statuses \ {"start-playing"} : Holds(pkt_list, n, TagCdc)
    BY <2>1 DEF StatusInv, StopIsUnderWay
  <2>4. \A k : Holds(pkt_list, k, TagCdc) => k = n
    BY <1>1, <1>3, <2>3 DEF WellFormed, Holds
  <2>5. CASE Holds(pkt_list', n, TagCdc)
    BY <1>2, <2>1, <2>2, <2>5
  <2>6. CASE ~Holds(pkt_list', n, TagCdc)
    <3>1. NoStatus(pkt_list')
      BY <1>2, <1>4, <2>2, <2>4, <2>6 DEF NoStatus
    <3> QED BY <1>2, <2>1, <2>2, <3>1
  <2> QED BY <2>5, <2>6
<1> QED BY <1>5, <1>6, <1>7 DEF StatusInv

(* Any other message of the program's says nothing about the status.       *)
LEMMA OtherEchoKeeps ==
  ASSUME ListInv, NEW m, m \notin Statuses, StatusInv,
         UNCHANGED <<radio_status, wanted, playing>>,
         pkt_list' = pkt_list \/ pkt_list' = RemoveFromQueue(pkt_list, m)
  PROVE  StatusInv'
<1>1. WellFormed(pkt_list)
  BY DEF ListInv
<1>2. /\ \A n, tag : Holds(pkt_list', n, tag) => Holds(pkt_list, n, tag)
      /\ \A n, tag : Holds(pkt_list, n, tag) /\ n # m => Holds(pkt_list', n, tag)
  BY <1>1, RemoveFromQueueHolds
<1>3. \A n \in Statuses : \A tag : Holds(pkt_list, n, tag) <=> Holds(pkt_list', n, tag)
  BY <1>2
<1>4. NoStatus(pkt_list') <=> NoStatus(pkt_list)
  BY <1>3 DEF NoStatus
<1>5. "start-playing" \in Statuses
  BY DEF Statuses
<1>6. AgreesUnlessQueued'
  BY <1>4 DEF StatusInv, AgreesUnlessQueued
<1>7. StartIsUnderWay'
  BY <1>3, <1>4, <1>5 DEF StatusInv, StartIsUnderWay
<1>8. StopIsUnderWay'
  BY <1>3, <1>4, <1>5 DEF StatusInv, StopIsUnderWay
<1> QED BY <1>6, <1>7, <1>8 DEF StatusInv

LEMMA EchoKeeps ==
  ASSUME ListInv, OtherInputIsMute, TypeOK, HearOwn
  PROVE  /\ ListInv'
         /\ ~Cdc => pkt_list' = <<>> /\ wanted' = "none"
         /\ PromptInv => StatusInv'
<1>1. PICK m \in Own : /\ rx # <<>> /\ Head(rx).msg = m
                       /\ Finish(pkt_list)
                       /\ playing' = PlayingAfter(m)
                       /\ radio_status' = radio_status /\ wanted' = wanted
  BY DEF HearOwn, Reads
<1>2. WellFormed(pkt_list)
  BY DEF ListInv
<1>3. pkt_list' = pkt_list \/ pkt_list' = RemoveFromQueue(pkt_list, m)
  BY <1>1 DEF Finish
<1>4. WellFormed(pkt_list')
  BY <1>2, <1>3, RemoveFromQueueWellFormed
<1>5. \A n, tag : Holds(pkt_list', n, tag) => Holds(pkt_list, n, tag)
  BY <1>2, <1>3, RemoveFromQueueHolds
<1>6. ListInv'
  BY <1>4, <1>5 DEF ListInv
<1>7. ASSUME ~Cdc PROVE pkt_list' = <<>> /\ wanted' = "none"
  <2>1. pkt_list = <<>> /\ wanted = "none"
    BY <1>7 DEF OtherInputIsMute
  <2>2. Matching(<<>>, m) = {}
    BY DEF Matching
  <2>3. RemoveFromQueue(<<>>, m) = <<>>
    BY <2>2 DEF RemoveFromQueue, RemoveFirst
  <2> QED BY <1>1, <1>3, <2>1, <2>3
<1>8. ASSUME PromptInv PROVE StatusInv'
  <2>1. rx[1].msg = m
    BY <1>1
  <2>2. CASE m \in Statuses
    <3>1. InFlight(m)
      <4>1. 1 \in DOMAIN rx
        BY <1>1 DEF TypeOK
      <4> QED BY <2>1, <4>1 DEF InFlight
    <3>2. Harmless(m) /\ radio_status = m
      BY <1>1, <1>8, <2>1, <2>2, <3>1 DEF PromptInv, FlightInv, RadioHeard
    <3>3. Cdc
      <4>1. pkt_list # <<>>
        BY <3>2 DEF Harmless, NoStatus, Holds
      <4> QED BY <4>1 DEF OtherInputIsMute
    <3>4. playing' = (m = "start-playing")
      BY <1>1, <2>2, <3>3 DEF PlayingAfter, Statuses
    <3> QED BY <1>1, <1>3, <1>8, <2>2, <3>2, <3>4, StatusEchoKeeps DEF PromptInv
  <2>3. CASE m \notin Statuses
    <3>1. playing' = playing
      BY <1>1, <2>3 DEF PlayingAfter, Statuses
    <3> QED BY <1>1, <1>3, <1>8, <2>3, <3>1, OtherEchoKeeps DEF PromptInv
  <2> QED BY <2>2, <2>3
<1> QED BY <1>6, <1>7, <1>8
-----------------------------------------------------------------------------
(* The timer.                                                              *)

TimerTypes ==
  /\ cdc_info_tag \in TimerTag \cup {-1}
  /\ cdc_timeouts \in 0..MaxTimeouts
  /\ timers \subseteq TimerTag

LEMMA NewTagIsNew ==
  ASSUME TimerTypes, TimerSound
  PROVE  NewTag \in TimerTag
<1>1. \E t \in TimerTag : t \notin timers \cup {cdc_info_tag}
  <2>1. 1 \in TimerTag /\ 2 \in TimerTag
    BY DEF TimerTag
  <2>2. timers \cup {cdc_info_tag} = {cdc_info_tag}
    BY DEF TimerSound, NoOrphanTimer
  <2>3. cdc_info_tag # 1 \/ cdc_info_tag # 2
    OBVIOUS
  <2> QED BY <2>1, <2>2, <2>3
<1> QED BY <1>1 DEF NewTag

(* Whatever is handled, a timer that is registered is the stored one, and  *)
(* it has not sent too often: a new one starts with a new count.           *)
LEMMA TimerKept ==
  ASSUME TimerTypes, TimerSound, [Next]_vars
  PROVE  TimerTypes' /\ TimerSound'
<1>1. CASE UNCHANGED <<cdc_info_tag, cdc_timeouts, timers>>
  BY <1>1 DEF TimerTypes, TimerSound, NoOrphanTimer, TimerExpires
<1>2. CASE InfoReq
  <2>1. CASE Cdc /\ opts.interval
    <3>1. /\ cdc_timeouts' = 0 /\ cdc_info_tag' = NewTag
          /\ timers' = (timers \ {cdc_info_tag}) \cup {NewTag}
      BY <1>2, <2>1 DEF InfoReq
    <3>2. timers' = {NewTag}
      BY <3>1 DEF TimerSound, NoOrphanTimer
    <3> QED BY <3>1, <3>2, NewTagIsNew
        DEF TimerTypes, TimerSound, NoOrphanTimer, TimerExpires, MaxTimeouts
  <2>2. CASE Cdc /\ ~opts.interval
    <3>1. cdc_timeouts' = 0 /\ UNCHANGED <<timers, cdc_info_tag>>
      BY <1>2, <2>2 DEF InfoReq
    <3> QED BY <3>1 DEF TimerTypes, TimerSound, NoOrphanTimer, TimerExpires, MaxTimeouts
  <2>3. CASE ~Cdc
    <3>1. UNCHANGED <<cdc_timeouts, timers, cdc_info_tag>>
      BY <1>2, <2>3 DEF InfoReq
    <3> QED BY <1>1, <3>1
  <2> QED BY <2>1, <2>2, <2>3
<1>3. ASSUME StopTimer, cdc_timeouts' = cdc_timeouts PROVE TimerTypes' /\ TimerSound'
  BY <1>3 DEF StopTimer, TimerTypes, TimerSound, NoOrphanTimer, TimerExpires
<1>4. CASE Stop
  BY <1>1, <1>3, <1>4 DEF Stop
<1>5. CASE Immobilized
  BY <1>1, <1>3, <1>5 DEF Immobilized
<1>6. CASE IntervalTimeout
  <2>1. PICK t \in timers :
          /\ cdc_timeouts' = cdc_timeouts + 1
          /\ timers' = IF Expired(cdc_timeouts') THEN timers \ {t} ELSE timers
          /\ cdc_info_tag' = cdc_info_tag
    BY <1>6 DEF IntervalTimeout
  <2>2. timers = {t} /\ t = cdc_info_tag /\ cdc_timeouts < MaxTimeouts
    BY <2>1 DEF TimerSound, NoOrphanTimer, TimerExpires
  <2>3. cdc_timeouts' \in 0..MaxTimeouts /\ (~Expired(cdc_timeouts') => cdc_timeouts' < MaxTimeouts)
    BY <2>1, <2>2 DEF TimerTypes, Expired, MaxTimeouts
  <2>4. CASE Expired(cdc_timeouts')
    <3>1. timers' = {}
      BY <2>1, <2>2, <2>4
    <3> QED BY <2>1, <2>3, <3>1 DEF TimerTypes, TimerSound, NoOrphanTimer, TimerExpires
  <2>5. CASE ~Expired(cdc_timeouts')
    <3>1. timers' = timers
      BY <2>1, <2>5
    <3> QED BY <2>1, <2>3, <2>5, <3>1
        DEF TimerTypes, TimerSound, NoOrphanTimer, TimerExpires
  <2> QED BY <2>4, <2>5
<1>7. CASE CdcScreen \/ OtherScreen \/ MainMenu \/ Poll \/ Pause \/ Start \/ RadioText
           \/ OutsideKey \/ HearOwn
  BY <1>1, <1>7 DEF CdcScreen, OtherScreen, MainMenu, Poll, Pause, Start, RadioText,
     OutsideKey, HearOwn, state
<1>8. CASE (\E idle, partial \in BOOLEAN : Tick(idle, partial)) \/ Arrives
           \/ (\E m \in RadioMsg : Car(m)) \/ UNCHANGED vars
  BY <1>1, <1>8 DEF Tick, Arrives, Car, vars, state
<1> QED BY <1>2, <1>4, <1>5, <1>6, <1>7, <1>8 DEF Next, Handle

(* No timer is ever registered when the Pi is not a CD changer.            *)
LEMMA OtherInputHasNoTimer ==
  ASSUME OtherInputIsMute, ~Cdc, [Next]_vars
  PROVE  timers' = {}
<1>1. timers = {}
  BY DEF OtherInputIsMute
<1>2. CASE InfoReq \/ Stop \/ Immobilized
  BY <1>1, <1>2 DEF InfoReq, Stop, Immobilized, StopTimer
<1>3. CASE IntervalTimeout
  BY <1>1, <1>3 DEF IntervalTimeout
<1>4. CASE CdcScreen \/ OtherScreen \/ MainMenu \/ Poll \/ Pause \/ Start \/ RadioText
           \/ OutsideKey \/ HearOwn
  BY <1>1, <1>4 DEF CdcScreen, OtherScreen, MainMenu, Poll, Pause, Start, RadioText,
     OutsideKey, HearOwn, state
<1>5. CASE (\E idle, partial \in BOOLEAN : Tick(idle, partial)) \/ Arrives
           \/ (\E m \in RadioMsg : Car(m)) \/ UNCHANGED vars
  BY <1>1, <1>5 DEF Tick, Arrives, Car, vars, state
<1> QED BY <1>2, <1>3, <1>4, <1>5 DEF Next, Handle
-----------------------------------------------------------------------------
(* The types of everything but the list and the timer.                     *)
BusMsg == FromRadio \cup FromCar \cup Own
RxMsg == [msg : BusMsg, recovered : BOOLEAN]
HandledTypes ==
  /\ playing \in BOOLEAN /\ cdc_announce \in BOOLEAN /\ keyboard_blocked \in BOOLEAN
  /\ videoSource \in {"bmw", "pi"}
  /\ wanted \in {"none", "play", "stop", "race"}

LEMMA HandleTypes ==
  ASSUME HandledTypes, Handle
  PROVE  HandledTypes'
<1>1. (cdc_announce /\ ~Cdc) \in BOOLEAN /\ \A m : PlayingAfter(m) \in BOOLEAN
  BY DEF HandledTypes, PlayingAfter
<1>2. ASSUME ShowPi \/ ShowBmw \/ UNCHANGED screen
      PROVE  keyboard_blocked' \in BOOLEAN /\ videoSource' \in {"bmw", "pi"}
  BY <1>2 DEF HandledTypes, ShowPi, ShowBmw, screen
<1>3. ASSUME NEW list, WantsPlay \/ WantsStop(list) \/ wanted' = wanted
      PROVE  wanted' \in {"none", "play", "stop", "race"}
  BY <1>3 DEF HandledTypes, WantsPlay, WantsStop
<1>4. CASE CdcScreen
  <2>1. keyboard_blocked' \in BOOLEAN /\ videoSource' \in {"bmw", "pi"}
    BY <1>2, <1>4 DEF CdcScreen
  <2>2. wanted' \in {"none", "play", "stop", "race"}
    BY <1>3, <1>4 DEF CdcScreen
  <2>3. playing' \in BOOLEAN /\ cdc_announce' \in BOOLEAN
    BY <1>4 DEF HandledTypes, CdcScreen
  <2> QED BY <2>1, <2>2, <2>3 DEF HandledTypes
<1>5. CASE OtherScreen
  <2>1. cdc_announce' = (cdc_announce /\ ~Cdc) /\ UNCHANGED <<playing, wanted>>
    BY <1>5 DEF OtherScreen
  <2>2. ShowPi \/ ShowBmw \/ UNCHANGED screen
    BY <1>5 DEF OtherScreen
  <2> QED BY <1>1, <1>2, <2>1, <2>2 DEF HandledTypes
<1>6. CASE MainMenu
  <2>1. cdc_announce' = (cdc_announce /\ ~Cdc) /\ UNCHANGED <<playing, wanted>>
    BY <1>6 DEF MainMenu
  <2>2. ShowBmw \/ UNCHANGED screen
    BY <1>6 DEF MainMenu
  <2> QED BY <1>1, <1>2, <2>1, <2>2 DEF HandledTypes
<1>7. CASE Poll \/ InfoReq \/ RadioText
  <2>1. cdc_announce' = (cdc_announce /\ ~Cdc) /\ UNCHANGED <<playing, wanted, screen>>
    BY <1>7 DEF Poll, InfoReq, RadioText
  <2> QED BY <1>1, <1>2, <2>1 DEF HandledTypes
<1>8. CASE Stop \/ Pause
  <2>1. cdc_announce' = (cdc_announce /\ ~Cdc) /\ UNCHANGED screen
    BY <1>8 DEF Stop, Pause
  <2>2. playing' = FALSE \/ playing' = playing
    BY <1>8 DEF Stop, Pause
  <2>3. wanted' \in {"none", "play", "stop", "race"}
    BY <1>3, <1>8 DEF Stop, Pause
  <2> QED BY <1>1, <1>2, <2>1, <2>2, <2>3 DEF HandledTypes
<1>9. CASE Start
  <2>1. cdc_announce' = (cdc_announce /\ ~Cdc) /\ UNCHANGED screen
    BY <1>9 DEF Start
  <2>2. playing' \in BOOLEAN
    <3>1. \A m : (playing \/ m # "cd-change") \in BOOLEAN
      OBVIOUS
    <3>2. playing' = playing \/ \E m : playing' = (playing \/ m # "cd-change")
      BY <1>9 DEF Start
    <3> QED BY <3>1, <3>2 DEF HandledTypes
  <2>3. wanted' \in {"none", "play", "stop", "race"}
    BY <1>3, <1>9 DEF Start
  <2> QED BY <1>1, <1>2, <2>1, <2>2, <2>3 DEF HandledTypes
<1>10. CASE Immobilized
  BY <1>2, <1>10 DEF HandledTypes, Immobilized
<1>11. CASE OutsideKey
  <2>1. UNCHANGED <<playing, cdc_announce, wanted>> /\ (ShowBmw \/ UNCHANGED screen)
    BY <1>11 DEF OutsideKey, state
  <2> QED BY <1>2, <2>1 DEF HandledTypes
<1>12. CASE HearOwn
  <2>1. UNCHANGED <<cdc_announce, wanted, screen>> /\ \E m : playing' = PlayingAfter(m)
    BY <1>12 DEF HearOwn
  <2> QED BY <1>1, <1>2, <2>1 DEF HandledTypes
<1> QED BY <1>4, <1>5, <1>6, <1>7, <1>8, <1>9, <1>10, <1>11, <1>12 DEF Handle

(* What every handler does to the input.                                   *)
LEMMA HandleReads ==
  ASSUME Handle
  PROVE  /\ rx # <<>> /\ rx' = Tail(rx) /\ bytes_read' = TRUE
         /\ UNCHANGED <<session, wire, said, radio_status>>
BY DEF Handle, CdcScreen, OtherScreen, MainMenu, Poll, InfoReq, Stop, Pause, Start,
   RadioText, Immobilized, OutsideKey, HearOwn, Reads

(* With a prompt loop, what is in flight is the first message of the input *)
(* or the one on the wire.                                                 *)
LEMMA FlightCases ==
  ASSUME wire \in Seq(Own), rx \in Seq(RxMsg), OneInFlight
  PROVE  /\ wire # <<>> => /\ Len(wire) = 1 /\ wire[1] \in Own /\ rx = <<>>
                           /\ Tail(wire) = <<>>
         /\ \A m \in Own : InFlight(m)
              <=> \/ wire # <<>> /\ m = wire[1]
                  \/ rx # <<>> /\ rx[1].msg = m
<1>1. ASSUME wire # <<>>
      PROVE  Len(wire) = 1 /\ wire[1] \in Own /\ rx = <<>> /\ Tail(wire) = <<>>
  <2>1. Len(wire) \in Nat /\ Len(wire) # 0
    BY <1>1, EmptySeq
  <2>2. Len(wire) <= 1 /\ rx = <<>>
    BY <1>1, Zenon DEF OneInFlight
  <2>3. Len(Tail(wire)) = 0 /\ Tail(wire) \in Seq(Own) /\ wire[1] \in Own
    BY <1>1, <2>1, <2>2, HeadTailProperties
  <2> QED BY <2>1, <2>2, <2>3, EmptySeq
<1>2. DOMAIN wire = IF wire = <<>> THEN {} ELSE {1}
  BY <1>1
<1>3. /\ \A i \in DOMAIN rx : i = 1 \/ i \in 2..Len(rx)
      /\ (rx # <<>>) <=> 1 \in DOMAIN rx
  OBVIOUS
<1>4. ASSUME NEW m \in Own
      PROVE  InFlight(m) <=> \/ wire # <<>> /\ m = wire[1]
                             \/ rx # <<>> /\ rx[1].msg = m
  <2>1. (\E i \in DOMAIN wire : wire[i] = m) <=> (wire # <<>> /\ m = wire[1])
    BY <1>2
  <2>2. (\E i \in DOMAIN rx : rx[i].msg = m) <=> (rx # <<>> /\ rx[1].msg = m)
    BY <1>3 DEF OneInFlight
  <2> QED BY <2>1, <2>2 DEF InFlight
<1> QED BY <1>1, <1>4

(* After a handler nothing is in flight.                                   *)
LEMMA HandleEndsFlight ==
  ASSUME rx \in Seq(RxMsg), OneInFlight, Handle
  PROVE  OneInFlight' /\ RadioHeard' /\ FlightInv'
<1>1. rx # <<>> /\ rx' = Tail(rx) /\ wire' = wire /\ wire = <<>>
  BY HandleReads DEF OneInFlight
<1>2. Len(rx) \in Nat /\ Len(rx') = Len(rx) - 1 /\ rx' \in Seq(RxMsg)
      /\ \A i \in 1..(Len(rx) - 1) : rx'[i] = rx[i + 1]
  BY <1>1, HeadTailProperties
<1>3. \A i \in 1..Len(rx') : rx'[i].msg \notin Own
  <2> SUFFICES ASSUME NEW i \in 1..Len(rx') PROVE rx'[i].msg \notin Own
    OBVIOUS
  <2>1. rx'[i] = rx[i + 1] /\ i + 1 \in 2..Len(rx)
    BY <1>2
  <2> QED BY <2>1 DEF OneInFlight
<1>4. (rx' # <<>> => 1 \in 1..Len(rx')) /\ DOMAIN rx' = 1..Len(rx') /\ wire' = <<>>
  BY <1>1, <1>2
<1>5. \A i \in 2..Len(rx') : i \in 1..Len(rx')
  BY <1>1, <1>2
<1>6. \A m \in Own : ~InFlight(m)'
  BY <1>3, <1>4 DEF InFlight
<1>7. OneInFlight'
  BY <1>1, <1>3, <1>5 DEF OneInFlight
<1> QED BY <1>3, <1>4, <1>6, <1>7, Constants DEF RadioHeard, FlightInv

LEMMA HandleKeeps == IInv /\ Handle => IInv'
<1> SUFFICES ASSUME IInv, Handle PROVE IInv'
  OBVIOUS
<1>1. TypeOK /\ TimerSound /\ ListInv /\ OtherInputIsMute
  BY DEF IInv
<1>2. /\ rx # <<>> /\ rx' = Tail(rx) /\ bytes_read' = TRUE
      /\ setting' = setting /\ opts' = opts /\ said' = said
      /\ radio_status' = radio_status /\ wire' = wire
  BY HandleReads DEF session
<1>3. HandledTypes'
  <2>1. HandledTypes
    BY <1>1 DEF TypeOK, HandledTypes
  <2> QED BY <2>1, HandleTypes
<1>4. TimerTypes' /\ TimerSound'
  <2>1. TimerTypes
    BY <1>1 DEF TypeOK, TimerTypes
  <2> QED BY <1>1, <2>1, TimerKept DEF Next
<1>5. /\ ListInv'
      /\ ~Cdc => pkt_list' = <<>> /\ wanted' = "none"
      /\ PromptInv => StatusInv'
  <2>1. CASE HearOwn
    BY <1>1, <2>1, EchoKeeps
  <2>2. CASE OtherHandler
    <3>1. Outcome
      BY <1>1, <2>2, HandlerOutcome DEF TypeOK
    <3> QED BY <1>1, <1>2, <3>1, OutcomeKeeps DEF PromptInv
  <2> QED BY <2>1, <2>2 DEF Handle, OtherHandler
<1>6. OtherInputIsMute'
  BY <1>1, <1>2, <1>5, OtherInputHasNoTimer DEF OtherInputIsMute, Cdc, Next
<1>7. TypeOK'
  <2>1. pkt_list' \in Seq(Packet)
    BY <1>5 DEF ListInv, WellFormed
  <2>2. rx' \in Seq(RxMsg)
    <3>1. rx \in Seq(RxMsg)
      BY <1>1 DEF TypeOK, RxMsg, BusMsg
    <3> QED BY <1>2, <3>1, HeadTailProperties
  <2> QED BY <1>1, <1>2, <1>3, <1>4, <2>1, <2>2
      DEF TypeOK, HandledTypes, TimerTypes, RxMsg, BusMsg, MaxRadio
<1>8. ASSUME Prompt' PROVE PromptInv'
  <2>1. PromptInv
    BY <1>2, <1>8 DEF IInv, Prompt
  <2>2. rx \in Seq(RxMsg)
    BY <1>1 DEF TypeOK, RxMsg, BusMsg
  <2> QED BY <1>5, <2>1, <2>2, HandleEndsFlight DEF PromptInv
<1> QED BY <1>4, <1>5, <1>6, <1>7, <1>8 DEF IInv
-----------------------------------------------------------------------------
(* Steps that leave alone what the list holds.                             *)
LEMMA SameHoldsKeeps ==
  ASSUME \A m, tag : Holds(pkt_list', m, tag) <=> Holds(pkt_list, m, tag),
         UNCHANGED <<playing, wanted>>,
         NoStatus(pkt_list) => radio_status' = radio_status
  PROVE  /\ StatusInv => StatusInv'
         /\ \A m : Harmless(m) => Harmless(m)'
<1>1. NoStatus(pkt_list') <=> NoStatus(pkt_list)
  BY DEF NoStatus
<1>2. AgreesUnlessQueued => AgreesUnlessQueued'
  BY <1>1 DEF AgreesUnlessQueued
<1>3. StartIsUnderWay => StartIsUnderWay'
  BY <1>1 DEF StartIsUnderWay
<1>4. StopIsUnderWay => StopIsUnderWay'
  BY <1>1 DEF StopIsUnderWay
<1>5. ASSUME NEW m, Harmless(m) PROVE Harmless(m)'
  BY <1>1, <1>5 DEF Harmless
<1> QED BY <1>2, <1>3, <1>4, <1>5 DEF StatusInv

(* What is written is the head of the list.  If it is an answer, no other  *)
(* answer is queued; if it is a start of the radio's, no answer is.        *)
LEMMA HeadIsHarmless ==
  ASSUME ListInv, StatusInv, pkt_list # <<>>,
         NEW m \in Statuses, pkt_list[1].msg = m
  PROVE  Harmless(m)
<1> DEFINE h == pkt_list[1].tag
<1>1. WellFormed(pkt_list) /\ 1 \in 1..Len(pkt_list) /\ pkt_list[1] \in Packet
  BY DEF ListInv, WellFormed
<1>2. Holds(pkt_list, m, h) /\ h \in Tag
  BY <1>1 DEF Holds, Packet
<1>3. h = TagCdc \/ (h = NoTag /\ m = "start-playing")
  BY <1>2 DEF ListInv
<1>4. \A n : Holds(pkt_list, n, TagCdc) => n = m /\ h = TagCdc
  BY <1>1, Constants, RemoveHeadHolds
<1> HIDE DEF h
<1>5. ~NoStatus(pkt_list)
  BY <1>2 DEF NoStatus
<1>6. ASSUME wanted = "play", m # "start-playing"
      PROVE  Holds(pkt_list, "start-playing", NoTag)
  BY <1>4, <1>5, <1>6 DEF StatusInv, StartIsUnderWay
<1>7. ASSUME wanted = "stop" PROVE m # "start-playing"
  <2>1. PICK n \in Statuses \ {"start-playing"} : Holds(pkt_list, n, TagCdc)
    BY <1>5, <1>7 DEF StatusInv, StopIsUnderWay
  <2> QED BY <1>4, <2>1
<1>8. m = "start-playing" =>
        \A n \in Statuses \ {"start-playing"} : ~Holds(pkt_list, n, TagCdc)
  BY <1>4
<1> QED BY <1>5, <1>6, <1>7, <1>8 DEF Harmless

(* ibus_50ms_tick.  With a prompt loop it writes only while nothing is in  *)
(* flight.                                                                 *)
LEMMA TickKeeps ==
  ASSUME IInv, NEW idle \in BOOLEAN, NEW partial \in BOOLEAN, Tick(idle, partial)
  PROVE  IInv'
<1> DEFINE service == ServiceQueue(pkt_list, TRUE, ~bytes_read /\ ~partial, idle)
<1>1. TypeOK /\ TimerSound /\ ListInv /\ OtherInputIsMute
  BY DEF IInv
<1>2. ServiceOutcome(pkt_list, TRUE, service)
  BY <1>1, ServiceCases DEF ListInv
<1>3. \A m, tag : Holds(service.list, m, tag) <=> Holds(pkt_list, m, tag)
  BY <1>2, ServiceHolds
<1>4. partial => service.written = <<>>
  BY DEF ServiceQueue
<1> HIDE DEF service
<1>5. /\ Prompt => wire = <<>> /\ (rx # <<>> => partial)
      /\ pkt_list' = service.list /\ bytes_read' = partial
      /\ wire' = wire \o service.written
      /\ UNCHANGED <<session, state, screen, rx, said, radio_status, wanted>>
  BY DEF Tick, service
<1>6. WellFormed(pkt_list') /\ Len(pkt_list') = Len(pkt_list)
  BY <1>2, <1>5 DEF ServiceOutcome
<1>7. ListInv'
  BY <1>1, <1>3, <1>5, <1>6 DEF ListInv
<1>8. OtherInputIsMute'
  <2>1. ASSUME pkt_list = <<>> PROVE pkt_list' = <<>>
    <3>1. Len(pkt_list') = 0 /\ pkt_list' \in Seq(Packet)
      BY <1>6, <2>1 DEF WellFormed
    <3> QED BY <3>1
  <2> QED BY <1>1, <1>5, <2>1 DEF OtherInputIsMute, Cdc, session, state
<1>9. \/ service.written = <<>> /\ wire' = wire
      \/ /\ pkt_list # <<>> /\ pkt_list[1].msg \in Own
         /\ service.written = <<pkt_list[1].msg>>
  <2>1. wire \in Seq(Own)
    BY <1>1 DEF TypeOK
  <2>2. CASE service.written = <<>>
    BY <1>5, <2>1, <2>2
  <2>3. CASE service.written # <<>>
    <3>1. pkt_list # <<>> /\ service.written = <<pkt_list[1].msg>>
      BY <1>2, <2>3 DEF ServiceOutcome
    <3>2. pkt_list[1] \in Packet
      BY <1>1, <3>1 DEF ListInv, WellFormed
    <3> QED BY <3>1, <3>2, Constants DEF Packet
  <2> QED BY <2>2, <2>3
<1>10. wire' \in Seq(Own)
  <2>1. wire \in Seq(Own)
    BY <1>1 DEF TypeOK
  <2>2. CASE service.written = <<>> /\ wire' = wire
    BY <2>1, <2>2
  <2>3. CASE pkt_list[1].msg \in Own /\ service.written = <<pkt_list[1].msg>>
    <3> DEFINE m == pkt_list[1].msg
    <3>1. m \in Own /\ wire' = wire \o <<m>>
      BY <1>5, <2>3
    <3> HIDE DEF m
    <3> QED BY <2>1, <3>1
  <2> QED BY <1>9, <2>2, <2>3
<1>11. (StatusInv => StatusInv') /\ \A m : Harmless(m) => Harmless(m)'
  BY <1>3, <1>5, SameHoldsKeeps DEF state
<1>12. ASSUME Prompt' PROVE PromptInv'
  <2>1. PromptInv /\ wire = <<>> /\ (rx # <<>> => partial)
    BY <1>5, <1>12 DEF IInv, Prompt, session
  <2>2. rx' = rx /\ radio_status' = radio_status
    BY <1>5
  <2>3. RadioHeard'
    BY <2>1, <2>2 DEF PromptInv, RadioHeard
  <2>4. CASE wire' = wire
    <3>1. OneInFlight' /\ FlightInv'
      BY <1>11, <2>1, <2>2, <2>4 DEF PromptInv, OneInFlight, FlightInv, InFlight
    <3> QED BY <1>11, <2>1, <2>3, <3>1 DEF PromptInv
  <2>5. CASE pkt_list # <<>> /\ service.written = <<pkt_list[1].msg>>
    <3> DEFINE m == pkt_list[1].msg
    <3>1. rx = <<>>
      BY <1>4, <2>1, <2>5
    <3>2. wire' = <<m>>
      BY <1>5, <2>1, <2>5
    <3>3. m \in Statuses => Harmless(m)
      BY <1>1, <2>1, <2>5, HeadIsHarmless DEF PromptInv
    <3> HIDE DEF m
    <3>4. \A n : InFlight(n)' => n = m
      BY <2>2, <3>1, <3>2 DEF InFlight
    <3>5. FlightInv'
      BY <1>11, <3>3, <3>4 DEF FlightInv
    <3>6. OneInFlight'
      BY <2>2, <3>1, <3>2 DEF OneInFlight
    <3> QED BY <1>11, <2>1, <2>3, <3>5, <3>6 DEF PromptInv
  <2> QED BY <1>9, <2>4, <2>5
<1>13. TimerSound'
  BY <1>1, <1>5 DEF TimerSound, NoOrphanTimer, TimerExpires, state
<1>14. TypeOK'
  <2>1. pkt_list' \in Seq(Packet)
    BY <1>6 DEF WellFormed
  <2> QED BY <1>1, <1>5, <1>10, <2>1
      DEF TypeOK, MaxRadio, session, state, screen
<1> QED BY <1>7, <1>8, <1>12, <1>13, <1>14 DEF IInv

(* The bus has carried a message: it is heard, or damaged.                 *)
LEMMA ArrivesKeeps ==
  ASSUME IInv, Arrives
  PROVE  IInv'
<1>1. TypeOK /\ TimerSound /\ ListInv /\ OtherInputIsMute
  BY DEF IInv
<1>2. /\ wire \in Seq(Own) /\ rx \in Seq(RxMsg) /\ wire # <<>>
      /\ radio_status \in Statuses \cup {"none"}
  BY <1>1 DEF TypeOK, RxMsg, BusMsg, Arrives
<1>3. PICK m \in Own :
        /\ m = wire[1] /\ wire' = Tail(wire)
        /\ radio_status' = radio_status \/ (m \in Statuses /\ radio_status' = m)
        /\ \/ rx' = rx
           \/ /\ \E b \in BOOLEAN : rx' = Append(rx, [msg |-> m, recovered |-> b])
              /\ m \in Statuses => radio_status' = m
  <2>1. wire[1] \in Own /\ Head(wire) = wire[1]
    BY <1>2
  <2> QED BY <2>1 DEF Arrives
<1>4. UNCHANGED <<session, pkt_list, state, screen, bytes_read, said, wanted>>
  BY DEF Arrives
<1>5. rx' \in Seq(RxMsg) /\ wire' \in Seq(Own)
  <2>1. \A b \in BOOLEAN : [msg |-> m, recovered |-> b] \in RxMsg
    BY DEF RxMsg, BusMsg
  <2>2. rx' \in Seq(RxMsg)
    <3>1. CASE rx' = rx
      BY <1>2, <3>1
    <3>2. CASE rx' # rx
      <4>1. PICK b \in BOOLEAN : rx' = Append(rx, [msg |-> m, recovered |-> b])
        BY <1>3, <3>2
      <4> QED BY <1>2, <2>1, <4>1, AppendProperties
    <3> QED BY <3>1, <3>2
  <2> QED BY <1>2, <1>3, <2>2, HeadTailProperties
<1>6. ListInv' /\ OtherInputIsMute' /\ TimerSound'
  BY <1>1, <1>4 DEF ListInv, OtherInputIsMute, TimerSound, NoOrphanTimer, TimerExpires,
     Cdc, session, state
<1>7. ASSUME Prompt' PROVE PromptInv'
  <2>1. PromptInv
    BY <1>4, <1>7 DEF IInv, Prompt, session
  <2>2. rx = <<>> /\ wire' = <<>> /\ InFlight(m)
    BY <1>2, <1>3, <2>1, FlightCases DEF PromptInv
  <2>3. m \in Statuses => ~NoStatus(pkt_list)
    BY <2>1, <2>2 DEF PromptInv, FlightInv, Harmless
  <2>4. (StatusInv => StatusInv') /\ \A n : Harmless(n) => Harmless(n)'
    BY <1>3, <1>4, <2>3, SameHoldsKeeps DEF state
  <2>5. \/ rx' = <<>>
        \/ /\ Len(rx') = 1 /\ rx'[1].msg = m
           /\ m \in Statuses => radio_status' = m
    <3>1. CASE rx' = rx
      BY <2>2, <3>1
    <3>2. CASE rx' # rx
      <4>1. PICK b \in BOOLEAN : rx' = Append(rx, [msg |-> m, recovered |-> b])
        BY <1>3, <3>2
      <4> DEFINE e == [msg |-> m, recovered |-> b]
      <4>2. e.msg = m
        OBVIOUS
      <4> HIDE DEF e
      <4>3. rx' = <<e>>
        BY <2>2, <4>1 DEF e
      <4> QED BY <1>3, <3>2, <4>2, <4>3
    <3> QED BY <3>1, <3>2
  <2>6. \A n : InFlight(n)' => n = m
    BY <1>5, <2>2, <2>5 DEF InFlight
  <2>7. FlightInv'
    BY <2>1, <2>2, <2>4, <2>6 DEF PromptInv, FlightInv
  <2>8. OneInFlight' /\ RadioHeard'
    BY <2>2, <2>5 DEF OneInFlight, RadioHeard
  <2> QED BY <2>1, <2>4, <2>7, <2>8 DEF PromptInv
<1>8. TypeOK'
  BY <1>1, <1>2, <1>3, <1>4, <1>5
     DEF TypeOK, RxMsg, BusMsg, MaxRadio, session, state, screen
<1> QED BY <1>6, <1>7, <1>8 DEF IInv

(* cdchanger_interval_timeout answers like cdchanger_send_inforeq, also    *)
(* while an earlier status is in flight.                                   *)
LEMMA AnswerIsHarmless ==
  ASSUME ListInv, pkt_list' = Replace(pkt_list, Status(playing), TagCdc),
         NEW m \in Statuses, Harmless(m),
         wanted' = wanted \/ wanted' = "race",
         wanted' = "play" /\ m = "start-playing" => playing
  PROVE  Harmless(m)'
<1> DEFINE s == Status(playing)
<1>1. s \in Statuses /\ s \in Msg
  BY Constants DEF Status, Statuses
<1>2. playing => s = "start-playing"
  BY DEF Status
<1> HIDE DEF s
<1>3. \A n, tag : Holds(pkt_list', n, tag)
                    <=> (Holds(pkt_list, n, tag) /\ tag # TagCdc) \/ (n = s /\ tag = TagCdc)
  BY <1>1, Constants, ReplaceHolds DEF ListInv, s
<1>4. ~NoStatus(pkt_list')
  BY <1>1, <1>3, Constants DEF NoStatus
<1>5. wanted' = "play" => wanted = "play"
  OBVIOUS
<1>6. ASSUME wanted' = "play", m # "start-playing"
      PROVE  Holds(pkt_list', "start-playing", NoTag)
  BY <1>3, <1>5, <1>6, Constants DEF Harmless
<1>7. ASSUME wanted' = "play", m = "start-playing"
      PROVE  \A n \in Statuses \ {"start-playing"} : ~Holds(pkt_list', n, TagCdc)
  BY <1>2, <1>3, <1>7
<1>8. wanted' = "stop" => m # "start-playing"
  BY DEF Harmless
<1> QED BY <1>4, <1>6, <1>7, <1>8 DEF Harmless

LEMMA TimeoutKeeps ==
  ASSUME IInv, IntervalTimeout
  PROVE  IInv'
<1>1. TypeOK /\ TimerSound /\ ListInv /\ OtherInputIsMute
  BY DEF IInv
<1>2. /\ timers # {}
      /\ cdc_announce' = FALSE \/ cdc_announce' = cdc_announce
      /\ \/ UNCHANGED <<pkt_list, wanted>>
         \/ /\ pkt_list' = Replace(pkt_list, Status(playing), TagCdc)
            /\ wanted' = IF OverridesStart THEN "race" ELSE wanted
      /\ UNCHANGED <<session, playing, screen, bytes_read, wire, rx, said, radio_status>>
  BY DEF IntervalTimeout, SendInfoReq
<1>3. Cdc
  BY <1>1, <1>2 DEF OtherInputIsMute
<1>4. ListInv' /\ (StatusInv => StatusInv')
  <2>1. Grown(pkt_list)
    BY <1>1, AnnouncedIsGrown
  <2>2. CASE UNCHANGED <<pkt_list, wanted>>
    BY <1>1, <1>2, <2>1, <2>2, GrownKeeps DEF Grown
  <2>3. CASE /\ pkt_list' = Replace(pkt_list, Status(playing), TagCdc)
             /\ wanted' = wanted
    BY <1>1, <1>2, <2>1, <2>3, AnswerKeeps DEF TypeOK
  <2>4. CASE /\ pkt_list' = Replace(pkt_list, Status(playing), TagCdc)
             /\ wanted' = "race"
    BY <1>1, <1>2, <2>1, <2>4, AnswerKeeps DEF TypeOK
  <2> QED BY <1>2, <2>2, <2>3, <2>4
<1>5. TimerTypes' /\ TimerSound'
  <2>1. TimerTypes
    BY <1>1 DEF TypeOK, TimerTypes
  <2> QED BY <1>1, <2>1, TimerKept DEF Next
<1>6. OtherInputIsMute'
  BY <1>2, <1>3 DEF OtherInputIsMute, Cdc, session
<1>7. ASSUME Prompt' PROVE PromptInv'
  <2>1. PromptInv
    BY <1>2, <1>7 DEF IInv, Prompt, session
  <2>2. OneInFlight' /\ RadioHeard'
    BY <1>2, <2>1 DEF PromptInv, OneInFlight, RadioHeard
  <2>3. \A m : InFlight(m)' <=> InFlight(m)
    BY <1>2 DEF InFlight
  <2>4. ASSUME NEW m \in Statuses, InFlight(m) PROVE Harmless(m)'
    <3>1. Harmless(m)
      BY <2>1, <2>4 DEF PromptInv, FlightInv
    <3>2. CASE UNCHANGED <<pkt_list, wanted>>
      BY <3>1, <3>2 DEF Harmless
    <3>3. CASE /\ pkt_list' = Replace(pkt_list, Status(playing), TagCdc)
               /\ wanted' = IF OverridesStart THEN "race" ELSE wanted
      <4>1. wanted' = "play" /\ m = "start-playing" => playing
        BY <2>4, <3>3 DEF OverridesStart
      <4> QED BY <1>1, <3>1, <3>3, <4>1, AnswerIsHarmless
    <3> QED BY <1>2, <3>2, <3>3
  <2> QED BY <1>4, <2>1, <2>2, <2>3, <2>4 DEF PromptInv, FlightInv
<1>8. TypeOK'
  <2>1. pkt_list' \in Seq(Packet)
    BY <1>4 DEF ListInv, WellFormed
  <2>2. wanted' \in {"none", "play", "stop", "race"}
    BY <1>1, <1>2 DEF TypeOK
  <2> QED BY <1>1, <1>2, <1>5, <2>1, <2>2 DEF TypeOK, TimerTypes, MaxRadio, session, screen
<1> QED BY <1>4, <1>5, <1>6, <1>7, <1>8 DEF IInv

(* What the radio and the car say comes after what is on its way already.  *)
LEMMA CarKeeps ==
  ASSUME IInv, NEW m \in RadioMsg, Car(m)
  PROVE  IInv'
<1>1. TypeOK /\ TimerSound /\ ListInv /\ OtherInputIsMute
  BY DEF IInv
<1> DEFINE e == [msg |-> m, recovered |-> FALSE]
<1>2. m \in FromRadio \cup FromCar
  BY <1>1, CdChangerAssumption DEF CdChangerAssumption, TypeOK, RadioMsg
<1>3. e \in RxMsg /\ e.msg \notin Own
  BY <1>2, Constants DEF RxMsg, BusMsg
<1>4. /\ said < MaxRadio /\ said' = said + 1 /\ rx' = Append(rx, e)
      /\ wire = <<>> /\ wire' = wire
      /\ UNCHANGED <<session, pkt_list, state, screen, bytes_read, radio_status, wanted>>
  BY DEF Car
<1> HIDE DEF e
<1>5. rx \in Seq(RxMsg) /\ Len(rx) \in Nat
  BY <1>1 DEF TypeOK, RxMsg, BusMsg
<1>6. /\ rx' \in Seq(RxMsg) /\ Len(rx') = Len(rx) + 1 /\ rx'[Len(rx) + 1] = e
      /\ \A i \in 1..Len(rx) : rx'[i] = rx[i]
  BY <1>3, <1>4, <1>5, AppendProperties
<1>7. UNCHANGED <<pkt_list, playing, radio_status, wanted>>
  BY <1>4 DEF state
<1>8. ListInv' /\ OtherInputIsMute' /\ TimerSound'
  BY <1>1, <1>4 DEF ListInv, OtherInputIsMute, TimerSound, NoOrphanTimer, TimerExpires,
     Cdc, session, state
<1>9. ASSUME Prompt' PROVE PromptInv'
  <2>1. PromptInv
    BY <1>4, <1>9 DEF IInv, Prompt, session
  <2>2. \A i \in 2..Len(rx') : rx'[i].msg \notin Own
    <3> SUFFICES ASSUME NEW i \in 2..Len(rx') PROVE rx'[i].msg \notin Own
      OBVIOUS
    <3>1. i \in 2..Len(rx) \/ i = Len(rx) + 1
      BY <1>5, <1>6
    <3>2. i \in 2..Len(rx) => i \in 1..Len(rx)
      BY <1>5
    <3> QED BY <1>3, <1>6, <2>1, <3>1, <3>2 DEF PromptInv, OneInFlight
  <2>3. OneInFlight'
    BY <1>4, <2>2 DEF OneInFlight
  <2>4. \A n \in Own : InFlight(n)' => InFlight(n)
    <3> SUFFICES ASSUME NEW n \in Own, InFlight(n)' PROVE InFlight(n)
      OBVIOUS
    <3>1. PICK i \in 1..Len(rx') : rx'[i].msg = n
      BY <1>4, <1>6 DEF InFlight
    <3>2. i \in 1..Len(rx) \/ i = Len(rx) + 1
      BY <1>5, <1>6
    <3> QED BY <1>3, <1>5, <1>6, <3>1, <3>2 DEF InFlight
  <2>5. FlightInv'
    BY <1>7, <2>1, <2>4, Constants DEF PromptInv, FlightInv, Harmless
  <2>6. RadioHeard'
    <3>1. CASE rx = <<>>
      <4>1. rx'[1] = e
        BY <1>6, <3>1
      <4> QED BY <1>3, <4>1, Constants DEF RadioHeard
    <3>2. CASE rx # <<>>
      <4>1. rx'[1] = rx[1]
        BY <1>5, <1>6, <3>2
      <4> QED BY <1>7, <2>1, <3>2, <4>1 DEF PromptInv, RadioHeard
    <3> QED BY <3>1, <3>2
  <2> QED BY <1>7, <2>1, <2>3, <2>5, <2>6
      DEF PromptInv, StatusInv, AgreesUnlessQueued, StartIsUnderWay, StopIsUnderWay
<1>10. TypeOK'
  <2>1. setting.said \in Nat
    BY <1>1, CdChangerAssumption DEF CdChangerAssumption, TypeOK
  <2>2. said' \in 0..MaxRadio /\ MaxRadio' = MaxRadio
    BY <1>1, <1>4, <2>1 DEF TypeOK, MaxRadio, session
  <2> QED BY <1>1, <1>4, <1>6, <2>2 DEF TypeOK, RxMsg, BusMsg, session, state, screen
<1> QED BY <1>8, <1>9, <1>10 DEF IInv
-----------------------------------------------------------------------------
LEMMA IInvInit == Init => IInv
<1> SUFFICES ASSUME Init PROVE IInv
  OBVIOUS
<1>1. /\ setting \in Settings /\ opts \in setting.options
      /\ pkt_list = <<>> /\ playing = FALSE /\ cdc_announce = opts.announce
      /\ cdc_info_tag = -1 /\ cdc_timeouts = 0 /\ keyboard_blocked = TRUE
      /\ videoSource = "bmw" /\ bytes_read = FALSE /\ timers = {} /\ wire = <<>>
      /\ rx = <<>> /\ said = 0 /\ radio_status = "none" /\ wanted = "none"
  BY DEF Init
<1>2. opts \in Option /\ setting.said \in Nat
  BY <1>1, CdChangerAssumption DEF CdChangerAssumption
<1>3. TypeOK
  <2>1. pkt_list \in Seq(Packet) /\ wire \in Seq(Own)
        /\ rx \in Seq([msg : FromRadio \cup FromCar \cup Own, recovered : BOOLEAN])
    BY <1>1
  <2>2. {playing, cdc_announce, keyboard_blocked, bytes_read} \subseteq BOOLEAN
    BY <1>1, <1>2 DEF Option
  <2>3. cdc_timeouts \in 0..MaxTimeouts /\ said \in 0..MaxRadio
    BY <1>1, <1>2 DEF MaxTimeouts, MaxRadio
  <2> QED BY <1>1, <1>2, <2>1, <2>2, <2>3 DEF TypeOK
<1>4. WellFormed(pkt_list) /\ \A m, tag : ~Holds(pkt_list, m, tag)
  BY <1>1 DEF WellFormed, Holds
<1>5. TimerSound
  BY <1>1 DEF TimerSound, NoOrphanTimer, TimerExpires
<1>6. PromptInv
  BY <1>1 DEF PromptInv, OneInFlight, RadioHeard, FlightInv, InFlight, StatusInv,
     AgreesUnlessQueued, StartIsUnderWay, StopIsUnderWay
<1> QED BY <1>1, <1>3, <1>4, <1>5, <1>6 DEF IInv, ListInv, OtherInputIsMute

LEMMA IInvNext == IInv /\ [Next]_vars => IInv'
<1>1. ASSUME IInv, UNCHANGED vars PROVE IInv'
  BY <1>1 DEF IInv, TypeOK, TimerSound, NoOrphanTimer, TimerExpires, ListInv,
     OtherInputIsMute, PromptInv, OneInFlight, RadioHeard, FlightInv, InFlight, Harmless,
     StatusInv, AgreesUnlessQueued, StartIsUnderWay, StopIsUnderWay, Cdc, Prompt, MaxRadio, vars, session, state, screen
<1> QED BY <1>1, HandleKeeps, TickKeeps, ArrivesKeeps, TimeoutKeeps, CarKeeps DEF Next

LEMMA Invariance == Spec => []IInv
BY IInvInit, IInvNext, PTL DEF Spec

(* The types of all variables, for every set of settings.                  *)
THEOREM TypeCorrect == Spec => []TypeOK
<1>1. IInv => TypeOK
  BY DEF IInv
<1> QED BY <1>1, Invariance, PTL

(* cdc_info_tag is always the tag of the interval timer, if there is one,  *)
(* and a timer that may still send has not sent its five answers, whether  *)
(* or not a callback blocks the main loop.                                 *)
THEOREM TimerIsSound == Spec => []TimerSound
<1>1. IInv => TimerSound
  BY DEF IInv
<1> QED BY <1>1, Invariance, PTL

(* When nothing is unread or queued, the program and the radio agree       *)
(* whether it plays, however many answers were superseded, lost, repeated  *)
(* or recovered before, or queued and withdrawn by the interval timer      *)
(* while another one was on the wire.                                      *)
THEOREM StatusIsAgreedUpon == Spec => []StatusAgrees
<1>1. IInv => StatusAgrees
  <2> SUFFICES ASSUME IInv, Quiet, Prompt, radio_status # "none"
               PROVE  playing <=> radio_status = "start-playing"
    BY DEF StatusAgrees
  <2>1. NoStatus(pkt_list)
    BY DEF Quiet, NoStatus, Holds
  <2> QED BY <2>1 DEF IInv, PromptInv, StatusInv, AgreesUnlessQueued
<1> QED BY <1>1, Invariance, PTL

(* The last command of the radio is what the bus settles on, but for the   *)
(* two races that CommandWins names: an answer to a later question repeats *)
(* it, and no older answer outlives it.                                    *)
THEOREM LastCommandWins == Spec => []CommandWins
<1>1. IInv => CommandWins
  <2> SUFFICES ASSUME IInv, Quiet, Prompt
               PROVE  /\ wanted = "play" => radio_status = "start-playing"
                      /\ wanted = "stop" => radio_status \in Statuses \ {"start-playing"}
    BY DEF CommandWins
  <2>1. \A m, tag : ~Holds(pkt_list, m, tag)
    BY DEF Quiet, Holds
  <2> QED BY <2>1 DEF IInv, PromptInv, StatusInv, StartIsUnderWay, StopIsUnderWay
<1> QED BY <1>1, Invariance, PTL
=============================================================================
