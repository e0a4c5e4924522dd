------------------------- MODULE HousekeepingProofs -------------------------
(***************************************************************************)
(* What the program does on its own (module Housekeeping), proved for      *)
(* every period, seconds and number of questions, every idle timeout and   *)
(* warning, every set of coolant readings, and as many messages of the car *)
(* as the bounds say.                                                      *)
(*                                                                         *)
(* The transmit list carries the questions and the warning together.  What *)
(* the invariant needs is that a tag tells which of them it is: then no    *)
(* answer, withdrawal or echo of the one takes the other away.             *)
(*                                                                         *)
(* The second part is about the clock (module Clock) that the answers set. *)
(***************************************************************************)
EXTENDS Housekeeping, Clock, PacketQueueProofs

(* A tag tells the message, so an echo takes what it is the echo of.       *)
TagMeaning == {<<TagTime, AskTime>>, <<TagDate, AskDate>>, <<TagLeds, Flash>>}

ListInv ==
  /\ WellFormed(pkt_list)
  /\ \A m, tag : Holds(pkt_list, m, tag) => <<tag, m>> \in TagMeaning

QuestionsWithdrawn ==
  /\ have_time => ~Holds(pkt_list, AskTime, TagTime)
  /\ have_date => ~Holds(pkt_list, AskDate, TagDate)

LastHot(temps) == temps # <<>> /\ temps[Len(temps)] >= Warning

(* The count tells whether two readings in a row were hot and, if not yet, *)
(* whether the last one was; a program that only listens counts none.      *)
CountIsHot ==
  /\ has_input => /\ high_coolant_count = Warned <=> HotPair(readings)
                  /\ high_coolant_count # Warned =>
                       (high_coolant_count = 1 <=> LastHot(readings))
  /\ ~has_input => high_coolant_count = 0

WarningState ==
  IF high_coolant_count = Warned THEN flashed \/ Holds(pkt_list, Flash, TagLeds)
                                 ELSE ~Holds(pkt_list, Flash, TagLeds)

IInv ==
  /\ TypeOK
  /\ ListInv
  /\ QuestionsWithdrawn
  /\ CountIsHot
  /\ WarningState
-----------------------------------------------------------------------------
LEMMA Constants ==
  /\ AskTime \in Msg /\ AskDate \in Msg /\ Flash \in Msg
  /\ AskTime # AskDate /\ AskTime # Flash /\ AskDate # Flash
  /\ \A kind \in {"time", "date", "temps"} : kind \notin Msg
  /\ {TagTime, TagDate, TagLeds} \subseteq Tag \ {NoTag}
  /\ TagTime # TagDate /\ TagTime # TagLeds /\ TagDate # TagLeds
BY HousekeepingAssumption DEF HousekeepingAssumption, AskTime, AskDate, Flash,
   Tag, NoTag, TagTime, TagDate, TagLeds

LEMMA TaggedIsHeld ==
  ASSUME NEW list, WellFormed(list),
         \A m, tag : Holds(list, m, tag) => <<tag, m>> \in TagMeaning
  PROVE  /\ Tagged(list, TagTime) # {} <=> Holds(list, AskTime, TagTime)
         /\ Tagged(list, TagDate) # {} <=> Holds(list, AskDate, TagDate)
         /\ Tagged(list, TagLeds) # {} <=> Holds(list, Flash, TagLeds)
<1>1. ASSUME NEW tag
      PROVE  Tagged(list, tag) # {} <=> \E m : Holds(list, m, tag)
  <2>1. Tagged(list, tag) = {i \in 1..Len(list) : list[i].tag = tag}
    BY TaggedDomain DEF WellFormed
  <2> QED BY <2>1 DEF Holds
<1>2. \A m : /\ Holds(list, m, TagTime) => m = AskTime
             /\ Holds(list, m, TagDate) => m = AskDate
             /\ Holds(list, m, TagLeds) => m = Flash
  BY Constants DEF TagMeaning
<1> QED BY <1>1, <1>2

(* A message of the car is nobody's echo.                                  *)
LEMMA FinishForeign ==
  ASSUME NEW list, WellFormed(list), Head(rx).kind \in {"time", "date", "temps"},
         Finish(list)
  PROVE  pkt_list' = list
<1>1. \A i \in 1..Len(list) : list[i].msg \in Msg
  <2>1. \A i \in 1..Len(list) : list[i] \in Packet
    BY DEF WellFormed
  <2> QED BY <2>1 DEF Packet
<1>2. \A tag : ~Holds(list, Head(rx).kind, tag)
  BY <1>1, Constants DEF Holds
<1> QED BY <1>2, RemoveFromQueueForeign DEF Finish

(* The three things that happen to the list, and what it holds then.       *)
LEMMA Withdrawn ==
  ASSUME ListInv, NEW gone \in {TagTime, TagDate}
  PROVE  /\ WellFormed(Answered(pkt_list, gone))
         /\ \A m, tag : Holds(Answered(pkt_list, gone), m, tag)
                          <=> Holds(pkt_list, m, tag) /\ tag # gone
<1>1. gone \in Tag \ {NoTag}
  BY Constants
<1> QED BY <1>1, RemoveTagWellFormed, RemoveTagHolds DEF ListInv, Answered

LEMMA Queued ==
  ASSUME NEW list, WellFormed(list), NEW n, NEW to, <<to, n>> \in TagMeaning
  PROVE  /\ WellFormed(Replace(list, n, to))
         /\ \A m, tag : Holds(Replace(list, n, to), m, tag)
                          <=> \/ Holds(list, m, tag) /\ tag # to
                              \/ m = n /\ tag = to
<1>1. n \in Msg /\ to \in Tag \ {NoTag}
  BY Constants DEF TagMeaning
<1> QED BY <1>1, ReplaceWellFormed, ReplaceHolds

(* Steps that leave the list's contents alone, and what the rest of the    *)
(* invariant looks at.                                                     *)
LEMMA SameContents ==
  ASSUME IInv, WellFormed(pkt_list'),
         \A m, tag : Holds(pkt_list', m, tag) <=> Holds(pkt_list, m, tag),
         UNCHANGED <<has_input, have_time, have_date, high_coolant_count, readings, flashed>>
  PROVE  ListInv' /\ QuestionsWithdrawn' /\ CountIsHot' /\ WarningState'
BY DEF IInv, ListInv, QuestionsWithdrawn, CountIsHot, WarningState
-----------------------------------------------------------------------------
LEMMA InitOK == Init => IInv
<1> SUFFICES ASSUME Init PROVE IInv
  OBVIOUS
<1>1. TypeOK
  <2>1. MaxRequests \in Nat /\ MaxSaid \in Nat /\ IdleTimeout \in Nat /\ Period \in Nat \ {0}
    BY HousekeepingAssumption DEF HousekeepingAssumption
  <2>2. pkt_list \in Seq(Packet)
        /\ rx \in Seq(CarMessage \cup {Noise} \cup {Message(m) : m \in Msg})
    BY DEF Init
  <2>3. {has_input, have_time, have_date, read_msgs, bytes_read, on, ticked, flashed}
          \subseteq BOOLEAN
    BY DEF Init
  <2> QED BY <2>1, <2>2, <2>3 DEF Init, TypeOK
<1>2. WellFormed(pkt_list) /\ Len(pkt_list) = 0
  BY DEF Init, WellFormed
<1>3. \A m, tag : ~Holds(pkt_list, m, tag)
  BY <1>2 DEF Holds
<1> QED BY <1>1, <1>2, <1>3
        DEF IInv, ListInv, QuestionsWithdrawn, CountIsHot, WarningState, HotPair,
            LastHot, Init, Warned

(* What the handlers of ibus_read do to the list, the answers and the      *)
(* warning.                                                                *)
HandlerInv == ListInv /\ QuestionsWithdrawn /\ CountIsHot /\ WarningState

NoNewWarning == Holds(pkt_list', Flash, TagLeds) => Holds(pkt_list, Flash, TagLeds)

(* What WarnsOnce says of a step.                                          *)
WarnStep ==
  ~Holds(pkt_list, Flash, TagLeds) /\ Holds(pkt_list', Flash, TagLeds)
    <=> has_input /\ ~HotPair(readings) /\ HotPair(readings')

LEMMA TimeKeeps ==
  ASSUME IInv, HandleTime, UNCHANGED has_input
  PROVE  HandlerInv' /\ NoNewWarning
<1>1. WellFormed(pkt_list) /\ TagTime \in {TagTime, TagDate}
  BY DEF IInv, ListInv
<1>2. CASE has_input /\ ~have_time
  <2>1. /\ WellFormed(Answered(pkt_list, TagTime))
        /\ \A m, tag : Holds(Answered(pkt_list, TagTime), m, tag)
                         <=> Holds(pkt_list, m, tag) /\ tag # TagTime
    BY <1>1, Withdrawn DEF IInv
  <2>2. pkt_list' = Answered(pkt_list, TagTime)
    BY <1>2, <2>1, FinishForeign DEF HandleTime
  <2>3. UNCHANGED <<have_date, high_coolant_count, readings, flashed>>
    BY DEF HandleTime, coolant
  <2> QED BY <2>1, <2>2, <2>3, Constants
          DEF HandlerInv, NoNewWarning, IInv, ListInv, QuestionsWithdrawn, CountIsHot,
              WarningState
<1>3. CASE ~(has_input /\ ~have_time)
  <2>1. pkt_list' = pkt_list
    BY <1>1, <1>3, FinishForeign DEF HandleTime
  <2>2. UNCHANGED <<have_time, have_date, high_coolant_count, readings, flashed>>
    BY <1>3 DEF HandleTime, coolant, IInv, TypeOK
  <2> QED BY <1>1, <2>1, <2>2, SameContents DEF HandlerInv, NoNewWarning
<1> QED BY <1>2, <1>3

LEMMA DateKeeps ==
  ASSUME IInv, HandleDate, UNCHANGED has_input
  PROVE  HandlerInv' /\ NoNewWarning
<1>1. WellFormed(pkt_list) /\ TagDate \in {TagTime, TagDate}
  BY DEF IInv, ListInv
<1>2. CASE has_input /\ ~have_date
  <2>1. /\ WellFormed(Answered(pkt_list, TagDate))
        /\ \A m, tag : Holds(Answered(pkt_list, TagDate), m, tag)
                         <=> Holds(pkt_list, m, tag) /\ tag # TagDate
    BY <1>1, Withdrawn DEF IInv
  <2>2. pkt_list' = Answered(pkt_list, TagDate)
    BY <1>2, <2>1, FinishForeign DEF HandleDate
  <2>3. UNCHANGED <<have_time, high_coolant_count, readings, flashed>>
    BY DEF HandleDate, coolant
  <2> QED BY <2>1, <2>2, <2>3, Constants
          DEF HandlerInv, NoNewWarning, IInv, ListInv, QuestionsWithdrawn, CountIsHot,
              WarningState
<1>3. CASE ~(has_input /\ ~have_date)
  <2>1. pkt_list' = pkt_list
    BY <1>1, <1>3, FinishForeign DEF HandleDate
  <2>2. UNCHANGED <<have_time, have_date, high_coolant_count, readings, flashed>>
    BY <1>3 DEF HandleDate, coolant, IInv, TypeOK
  <2> QED BY <1>1, <2>1, <2>2, SameContents DEF HandlerInv, NoNewWarning
<1> QED BY <1>2, <1>3

LEMMA TempsAreIntegers == Temp \subseteq Int /\ Warning \in Int
<1>1. Warning \in Int /\ Coolant \subseteq [low : 0..255, high : 0..255]
  BY HousekeepingAssumption DEF HousekeepingAssumption
<1>2. ASSUME NEW reading \in [low : 0..255, high : 0..255]
      PROVE  CoolantTemp(reading) \in Int
  <2>1. reading.high \in Int /\ SignedByte(reading.low) \in Int
    BY DEF SignedByte
  <2>2. \A n \in Int : Int16(n) \in Int
    BY DEF Int16
  <2> QED BY <2>1, <2>2 DEF CoolantTemp
<1> QED BY <1>1, <1>2 DEF Temp

LEMMA PairsGrow ==
  ASSUME NEW temps \in Seq(Temp), NEW t \in Temp
  PROVE  /\ HotPair(Append(temps, t)) <=>
              HotPair(temps) \/ (LastHot(temps) /\ t >= Warning)
         /\ LastHot(Append(temps, t)) <=> t >= Warning
<1> DEFINE more == Append(temps, t)
           n    == Len(temps)
<1>1. /\ n \in Nat /\ Len(more) = n + 1 /\ more[n + 1] = t
      /\ \A i \in 1..n : more[i] = temps[i]
      /\ temps # <<>> <=> n # 0
  BY AppendProperties, EmptySeq
<1>2. more # <<>>
  BY AppendProperties
<1> HIDE DEF more, n
<1>3. LastHot(more) <=> t >= Warning
  BY <1>1, <1>2 DEF LastHot
<1>4. HotPair(more) => HotPair(temps) \/ (LastHot(temps) /\ t >= Warning)
  <2> SUFFICES ASSUME NEW i \in 2..Len(more),
                      more[i - 1] >= Warning, more[i] >= Warning
               PROVE  HotPair(temps) \/ (LastHot(temps) /\ t >= Warning)
    BY DEF HotPair
  <2>1. CASE i = n + 1
    BY <1>1, <2>1 DEF LastHot, n
  <2>2. CASE i # n + 1
    BY <1>1, <2>2 DEF HotPair, n
  <2> QED BY <2>1, <2>2
<1>5. HotPair(temps) => HotPair(more)
  BY <1>1 DEF HotPair, n
<1>6. LastHot(temps) /\ t >= Warning => HotPair(more)
  <2> SUFFICES ASSUME LastHot(temps), t >= Warning PROVE HotPair(more)
    OBVIOUS
  <2>1. n # 0 /\ temps[n] >= Warning
    BY <1>1 DEF LastHot, n
  <2>2. n + 1 \in 2..Len(more) /\ more[(n + 1) - 1] >= Warning /\ more[n + 1] >= Warning
    BY <1>1, <2>1
  <2> QED BY <2>2 DEF HotPair
<1> QED BY <1>3, <1>4, <1>5, <1>6 DEF more

(* The second hot reading in a row is the one that warns.                  *)
LEMMA TempsKeeps ==
  ASSUME IInv, HandleTemps, Head(rx).temp \in Temp, UNCHANGED has_input
  PROVE  /\ HandlerInv' /\ WarnStep
         /\ high_coolant_count' \in {0, 1, Warned} /\ readings' \in Seq(Temp)
<1> DEFINE temp   == Head(rx).temp
           hotter == temp >= Warning
           warns  == /\ has_input /\ high_coolant_count # Warned
                     /\ hotter /\ Again(high_coolant_count)
<1>1. /\ WellFormed(pkt_list) /\ readings \in Seq(Temp)
      /\ high_coolant_count \in {0, 1, Warned}
  BY DEF IInv, ListInv, TypeOK
<1>2. UNCHANGED <<have_time, have_date, flashed>>
  BY DEF HandleTemps, clock
<1>3. hotter <=> ~(temp < Warning)
  <2>1. \A t \in Int, w \in Int : t >= w <=> ~(t < w)
    OBVIOUS
  <2> QED BY <2>1, TempsAreIntegers
<1>4. readings' = Append(readings, temp)
  BY DEF HandleTemps
<1>5. /\ HotPair(readings') <=> HotPair(readings) \/ (LastHot(readings) /\ hotter)
      /\ LastHot(readings') <=> hotter
      /\ readings' \in Seq(Temp)
  BY <1>1, <1>4, PairsGrow
<1>6. Warned \notin {0, 1}
  BY DEF Warned
<1>7. CASE warns
  <2>1. /\ high_coolant_count = 1
        /\ ~HotPair(readings) /\ HotPair(readings')
    <3>1. high_coolant_count = 1
      BY <1>1, <1>7 DEF Again
    <3> QED BY <1>5, <1>7, <3>1 DEF IInv, CountIsHot
  <2>2. high_coolant_count' = Warned
    BY <1>3, <1>7 DEF HandleTemps
  <2>3. <<TagLeds, Flash>> \in TagMeaning
    BY DEF TagMeaning
  <2>4. /\ WellFormed(Replace(pkt_list, Flash, TagLeds))
        /\ \A m, tag : Holds(Replace(pkt_list, Flash, TagLeds), m, tag)
                         <=> \/ Holds(pkt_list, m, tag) /\ tag # TagLeds
                             \/ m = Flash /\ tag = TagLeds
    BY <1>1, <2>3, Queued
  <2>5. pkt_list' = Replace(pkt_list, Flash, TagLeds)
    BY <1>3, <1>7, <2>4, FinishForeign DEF HandleTemps
  <2>6. ListInv' /\ WarningState'
    BY <2>2, <2>3, <2>4, <2>5 DEF IInv, ListInv, WarningState
  <2>7. QuestionsWithdrawn'
    BY <1>2, <2>4, <2>5, Constants DEF IInv, QuestionsWithdrawn
  <2>8. CountIsHot'
    BY <1>7, <2>1, <2>2 DEF CountIsHot
  <2>9. ~Holds(pkt_list, Flash, TagLeds) /\ Holds(pkt_list', Flash, TagLeds)
    BY <1>6, <2>1, <2>4, <2>5 DEF IInv, WarningState
  <2>10. WarnStep
    BY <1>7, <2>1, <2>9 DEF WarnStep
  <2> QED BY <1>5, <2>2, <2>6, <2>7, <2>8, <2>10 DEF HandlerInv
<1>8. CASE ~warns
  <2>1. pkt_list' = pkt_list
    BY <1>1, <1>3, <1>8, FinishForeign DEF HandleTemps
  <2>2. high_coolant_count' =
          IF ~has_input \/ high_coolant_count = Warned THEN high_coolant_count
          ELSE IF ~hotter THEN 0 ELSE high_coolant_count + 1
    BY <1>3, <1>8 DEF HandleTemps
  <2>3. has_input /\ high_coolant_count # Warned /\ hotter =>
          high_coolant_count = 0 /\ ~LastHot(readings)
    <3>1. high_coolant_count \in {0, 1} => (high_coolant_count # 0 => Again(high_coolant_count))
      BY DEF Again
    <3> QED BY <1>1, <1>8, <3>1 DEF IInv, CountIsHot
  <2> HIDE DEF warns, hotter
  <2>4. /\ has_input /\ high_coolant_count # Warned =>
             /\ high_coolant_count' \in {0, 1}
             /\ high_coolant_count' = 1 <=> hotter
        /\ ~(has_input /\ high_coolant_count # Warned) =>
             high_coolant_count' = high_coolant_count
    BY <2>2, <2>3
  <2>5. high_coolant_count' = Warned <=> high_coolant_count = Warned
    BY <1>6, <2>4
  <2>6. has_input => (HotPair(readings') <=> HotPair(readings))
    BY <1>5, <2>3 DEF IInv, CountIsHot
  <2>7. CountIsHot'
    BY <1>5, <2>4, <2>5, <2>6 DEF IInv, CountIsHot
  <2>8. ListInv' /\ QuestionsWithdrawn' /\ WarningState'
    BY <1>2, <2>1, <2>5 DEF IInv, ListInv, QuestionsWithdrawn, WarningState
  <2>9. WarnStep
    BY <2>1, <2>6 DEF WarnStep
  <2>10. high_coolant_count' \in {0, 1, Warned}
    BY <1>1, <2>4
  <2> QED BY <1>5, <2>7, <2>8, <2>9, <2>10 DEF HandlerInv
<1> QED BY <1>7, <1>8

(* An echo takes what it is the echo of; only that of the warning settles  *)
(* the warning.                                                            *)
LEMMA EchoKeeps ==
  ASSUME IInv, HandleEcho, UNCHANGED has_input
  PROVE  HandlerInv' /\ NoNewWarning
<1> DEFINE n == Head(rx).kind
<1>1. WellFormed(pkt_list) /\ pkt_list' = RemoveFromQueue(pkt_list, n)
  BY DEF IInv, ListInv, HandleEcho, Finish
<1>2. /\ flashed' = (flashed \/ n = Flash)
      /\ UNCHANGED <<have_time, have_date, high_coolant_count, readings>>
  BY DEF HandleEcho, clock, coolant
<1>3. WellFormed(pkt_list')
  BY <1>1, RemoveFromQueueWellFormed
<1> HIDE DEF n
<1>4. /\ \A m, tag : Holds(pkt_list', m, tag) => Holds(pkt_list, m, tag)
      /\ \A m, tag : Holds(pkt_list, m, tag) /\ m # n => Holds(pkt_list', m, tag)
  BY <1>1, RemoveFromQueueHolds
<1>5. ListInv' /\ QuestionsWithdrawn' /\ CountIsHot'
  BY <1>2, <1>3, <1>4 DEF IInv, ListInv, QuestionsWithdrawn, CountIsHot
<1>6. WarningState'
  BY <1>2, <1>4 DEF IInv, WarningState
<1> QED BY <1>4, <1>5, <1>6 DEF HandlerInv, NoNewWarning

LEMMA AskKeeps ==
  ASSUME IInv, NEW tick, AskQuestions(tick),
         UNCHANGED <<has_input, high_coolant_count, readings, flashed>>
  PROVE  /\ HandlerInv' /\ NoNewWarning
         /\ num_time_requests' \in 0 .. MaxRequests + 1
         /\ num_date_requests' \in 0 .. MaxRequests + 1
<1> DEFINE asks == tick \in AskAt /\ read_msgs /\ has_input
           time == asks /\ Due(have_time, num_time_requests)
           date == asks /\ Due(have_date, num_date_requests)
           list == IF time THEN Replace(pkt_list, AskTime, TagTime) ELSE pkt_list
<1>1. <<TagTime, AskTime>> \in TagMeaning /\ <<TagDate, AskDate>> \in TagMeaning
  BY DEF TagMeaning
<1>2. /\ WellFormed(list)
      /\ \A m, tag : Holds(list, m, tag) =>
           Holds(pkt_list, m, tag) \/ (time /\ m = AskTime /\ tag = TagTime)
      /\ \A m, tag : Holds(pkt_list, m, tag) /\ tag # TagTime => Holds(list, m, tag)
  <2>1. WellFormed(pkt_list)
    BY DEF IInv, ListInv
  <2> HIDE DEF time
  <2>2. CASE time
    <3>1. list = Replace(pkt_list, AskTime, TagTime)
      BY <2>2
    <3> QED BY <1>1, <2>1, <2>2, <3>1, Queued
  <2>3. CASE ~time
    BY <2>1, <2>3
  <2> QED BY <2>2, <2>3
<1>3. pkt_list' = IF date THEN Replace(list, AskDate, TagDate) ELSE list
  BY DEF AskQuestions
<1>4. UNCHANGED <<have_time, have_date>>
  BY DEF AskQuestions
<1>5. (time => ~have_time) /\ (date => ~have_date)
  BY DEF Due
<1>6. /\ num_time_requests' \in 0 .. MaxRequests + 1
      /\ num_date_requests' \in 0 .. MaxRequests + 1
  <2>1. /\ num_time_requests \in 0 .. MaxRequests + 1
        /\ num_date_requests \in 0 .. MaxRequests + 1
        /\ MaxRequests \in Nat
    BY HousekeepingAssumption DEF IInv, TypeOK, HousekeepingAssumption
  <2>2. /\ time => num_time_requests <= MaxRequests
        /\ date => num_date_requests <= MaxRequests
    BY DEF Due
  <2>3. /\ num_time_requests' = IF time THEN num_time_requests + 1 ELSE num_time_requests
        /\ num_date_requests' = IF date THEN num_date_requests + 1 ELSE num_date_requests
    BY DEF AskQuestions, Asked
  <2> HIDE DEF time, date
  <2> QED BY <2>1, <2>2, <2>3
<1> HIDE DEF list, time, date
<1>7. /\ WellFormed(pkt_list')
      /\ \A m, tag : Holds(pkt_list', m, tag) =>
           Holds(list, m, tag) \/ (date /\ m = AskDate /\ tag = TagDate)
      /\ \A m, tag : Holds(list, m, tag) /\ tag # TagDate => Holds(pkt_list', m, tag)
  <2>1. CASE date
    <3>1. pkt_list' = Replace(list, AskDate, TagDate)
      BY <1>3, <2>1
    <3> QED BY <1>1, <1>2, <2>1, <3>1, Queued
  <2>2. CASE ~date
    BY <1>2, <1>3, <2>2
  <2> QED BY <2>1, <2>2
<1>8. ListInv'
  BY <1>1, <1>2, <1>7 DEF IInv, ListInv
<1>9. QuestionsWithdrawn'
  BY <1>2, <1>4, <1>5, <1>7, Constants DEF IInv, QuestionsWithdrawn
<1>10. Holds(pkt_list', Flash, TagLeds) <=> Holds(pkt_list, Flash, TagLeds)
  BY <1>2, <1>7, Constants
<1>11. CountIsHot' /\ WarningState'
  BY <1>10 DEF IInv, CountIsHot, WarningState
<1> QED BY <1>6, <1>8, <1>9, <1>10, <1>11 DEF HandlerInv, NoNewWarning
-----------------------------------------------------------------------------
(* A step of any action: the invariant holds after it, and it warns when   *)
(* it has to and at no other time.                                         *)
LEMMA NoWarning ==
  ASSUME NoNewWarning, UNCHANGED readings PROVE WarnStep
BY DEF NoNewWarning, WarnStep

LEMMA ReadOK == ASSUME IInv, Read PROVE IInv' /\ WarnStep
<1> DEFINE Unread == CarMessage \cup {Noise} \cup {Message(m) : m \in Msg}
<1>1. UNCHANGED <<has_input, second, ticked, on, said>> /\ idle' = 0
      /\ rx' = Tail(rx) /\ rx # <<>> /\ bytes_read' = TRUE
  BY DEF Read, schedule
<1>2. rx' \in Seq(Unread) /\ Head(rx) \in Unread /\ IdleTimeout \in Nat
  <2>1. rx \in Seq(Unread) /\ IdleTimeout \in Nat
    BY HousekeepingAssumption DEF IInv, TypeOK, HousekeepingAssumption
  <2> HIDE DEF Unread
  <2> QED BY <1>1, <2>1
<1>3. CASE UNCHANGED <<pkt_list, clock, read_msgs, coolant, flashed>>
  <2>1. HandlerInv'
    BY <1>1, <1>3, SameContents DEF IInv, ListInv, HandlerInv, clock, coolant
  <2>2. pkt_list' \in Seq(Packet)
    BY <2>1 DEF HandlerInv, ListInv, WellFormed
  <2>3. TypeOK'
    BY <1>1, <1>2, <1>3, <2>2 DEF IInv, TypeOK, clock, coolant
  <2>4. WarnStep
    BY <1>3, NoWarning DEF coolant, NoNewWarning
  <2> QED BY <2>1, <2>3, <2>4 DEF HandlerInv, IInv
<1>4. CASE HandleTime \/ HandleDate \/ HandleEcho
  <2>0. CASE Head(rx) = Noise
    BY <1>3, <2>0 DEF Read
  <2>1. CASE Head(rx) # Noise
    <3>1. read_msgs' = TRUE
      BY <2>1 DEF Read
    <3>2. HandlerInv' /\ NoNewWarning
      BY <1>1, <1>4, TimeKeeps, DateKeeps, EchoKeeps
    <3>3. pkt_list' \in Seq(Packet)
      BY <3>2 DEF HandlerInv, ListInv, WellFormed
    <3>4. UNCHANGED <<num_time_requests, num_date_requests, high_coolant_count, readings>>
      BY <1>4 DEF HandleTime, HandleDate, HandleEcho, clock, coolant
    <3>5. have_time' \in BOOLEAN /\ have_date' \in BOOLEAN /\ flashed' \in BOOLEAN
      BY <1>4 DEF HandleTime, HandleDate, HandleEcho, clock, IInv, TypeOK
    <3>6. TypeOK'
      BY <1>1, <1>2, <3>1, <3>3, <3>4, <3>5 DEF IInv, TypeOK
    <3> QED BY <3>2, <3>4, <3>6, NoWarning DEF HandlerInv, IInv
  <2> QED BY <2>0, <2>1
<1>5. CASE HandleTemps
  <2>0. CASE Head(rx) = Noise
    BY <1>3, <2>0 DEF Read
  <2>1. CASE Head(rx) # Noise
    <3>1. read_msgs' = TRUE
      BY <2>1 DEF Read
    <3>2. Head(rx).temp \in Temp
      <4>1. Head(rx).kind = "temps"
        BY <1>5 DEF HandleTemps
      <4>2. \A kind : Message(kind).kind = kind
        BY DEF Message
      <4>3. Head(rx) \in [kind : {"temps"}, temp : Temp]
        BY <1>2, <4>1, <4>2, Constants DEF CarMessage, Noise
      <4> QED BY <4>3
    <3>3. /\ HandlerInv' /\ WarnStep
          /\ high_coolant_count' \in {0, 1, Warned} /\ readings' \in Seq(Temp)
      BY <1>1, <1>5, <3>2, TempsKeeps
    <3>4. pkt_list' \in Seq(Packet)
      BY <3>3 DEF HandlerInv, ListInv, WellFormed
    <3>5. UNCHANGED <<have_time, have_date, num_time_requests, num_date_requests, flashed>>
      BY <1>5 DEF HandleTemps, clock
    <3>6. TypeOK'
      BY <1>1, <1>2, <3>1, <3>3, <3>4, <3>5 DEF IInv, TypeOK
    <3> QED BY <3>3, <3>6 DEF HandlerInv, IInv
  <2> QED BY <2>0, <2>1
<1> QED BY <1>3, <1>4, <1>5 DEF Read

LEMMA TickOK ==
  ASSUME IInv, NEW line_idle \in BOOLEAN, NEW echo \in Heard, Tick(line_idle, echo)
  PROVE  IInv' /\ WarnStep
<1> DEFINE service == ServiceQueue(pkt_list, TRUE, ~bytes_read, line_idle)
           Unread  == CarMessage \cup {Noise} \cup {Message(m) : m \in Msg}
<1>1. ServiceOutcome(pkt_list, TRUE, service)
  BY ServiceCases DEF IInv, ListInv
<1>2. /\ pkt_list' = service.list
      /\ echo = "nothing" \/ service.written # <<>>
      /\ rx' = CASE echo = "nothing" -> rx
                 [] echo = "intact"  -> Append(rx, Message(service.written[1]))
                 [] echo = "damaged" -> Append(rx, Noise)
      /\ bytes_read' = FALSE /\ ticked' = TRUE
  BY DEF Tick
<1>3. /\ UNCHANGED <<has_input, have_time, have_date, num_time_requests,
                     num_date_requests, read_msgs, high_coolant_count, readings, second,
                     idle, on, said, flashed>>
  BY DEF Tick, clock, coolant
<1> HIDE DEF service
<1>4. WellFormed(pkt_list')
      /\ \A m, tag : Holds(pkt_list', m, tag) <=> Holds(pkt_list, m, tag)
  BY <1>1, <1>2, ServiceHolds DEF ServiceOutcome
<1>5. HandlerInv' /\ WarnStep
  BY <1>3, <1>4, SameContents, NoWarning DEF HandlerInv, NoNewWarning
<1>6. service.written # <<>> => service.written[1] \in Msg
  <2>1. pkt_list \in Seq(Packet)
    BY DEF IInv, TypeOK
  <2>2. pkt_list # <<>> => pkt_list[1] \in Packet
    BY <2>1
  <2>3. service.written # <<>> =>
          pkt_list # <<>> /\ service.written = <<pkt_list[1].msg>>
    BY <1>1 DEF ServiceOutcome
  <2> QED BY <2>2, <2>3 DEF Packet
<1>7. rx' \in Seq(Unread)
  <2>1. rx \in Seq(Unread)
    BY DEF IInv, TypeOK
  <2>2. Noise \in Unread
    OBVIOUS
  <2>3. echo # "nothing" => Message(service.written[1]) \in Unread
    BY <1>2, <1>6
  <2> HIDE DEF Unread
  <2> QED BY <1>2, <2>1, <2>2, <2>3 DEF Heard
<1>8. TypeOK'
  <2>1. pkt_list' \in Seq(Packet)
    BY <1>4 DEF WellFormed
  <2> QED BY <1>2, <1>3, <1>7, <2>1 DEF IInv, TypeOK
<1> QED BY <1>5, <1>8 DEF HandlerInv, IInv

LEMMA SecondOK == ASSUME IInv, Second PROVE IInv' /\ WarnStep
<1>1. /\ ticked' = FALSE
      /\ second' = (second + 1) % Period
      /\ idle' = IF idle <= IdleTimeout THEN idle + 1 ELSE idle
      /\ on' = (idle' <= IdleTimeout)
      /\ UNCHANGED <<has_input, read_msgs, high_coolant_count, readings, bytes_read, rx,
                     said, flashed>>
  BY DEF Second, coolant
<1>2. PICK tick : tick = second' /\ AskQuestions(tick)
  BY DEF Second
<1>3. /\ HandlerInv' /\ NoNewWarning
      /\ num_time_requests' \in 0 .. MaxRequests + 1
      /\ num_date_requests' \in 0 .. MaxRequests + 1
  BY <1>1, <1>2, AskKeeps
<1>4. UNCHANGED <<have_time, have_date>>
  BY <1>2 DEF AskQuestions
<1>5. Period \in Nat \ {0} /\ IdleTimeout \in Nat
      /\ second \in 0 .. Period - 1 /\ idle \in 0 .. IdleTimeout + 1
  <2>1. Period \in Nat \ {0} /\ IdleTimeout \in Nat
    BY ONLY HousekeepingAssumption DEF HousekeepingAssumption
  <2> QED BY <2>1 DEF IInv, TypeOK
<1>6. second' \in 0 .. Period - 1
  BY <1>1, <1>5
<1>7. idle' \in 0 .. IdleTimeout + 1
  BY <1>1, <1>5
<1>8. on' \in BOOLEAN
  BY <1>1
<1>9. pkt_list' \in Seq(Packet)
  BY <1>3 DEF HandlerInv, ListInv, WellFormed
<1>10. TypeOK'
  BY <1>1, <1>3, <1>4, <1>6, <1>7, <1>8, <1>9 DEF IInv, TypeOK
<1> QED BY <1>1, <1>3, <1>10, NoWarning DEF HandlerInv, IInv

LEMMA SaysOK ==
  ASSUME IInv, NEW m \in CarMessage, Says(m) PROVE IInv' /\ WarnStep
<1> DEFINE Unread == CarMessage \cup {Noise} \cup {Message(k) : k \in Msg}
<1>1. /\ said < MaxSaid /\ said' = said + 1 /\ rx' = Append(rx, m)
      /\ UNCHANGED <<has_input, pkt_list, have_time, have_date, num_time_requests,
                     num_date_requests, read_msgs, high_coolant_count, readings, second,
                     ticked, idle, bytes_read, on, flashed>>
  BY DEF Says, clock, coolant, schedule, line
<1>2. HandlerInv'
  BY <1>1, SameContents DEF IInv, ListInv, HandlerInv
<1>3. said' \in 0..MaxSaid
  <2>1. said \in 0..MaxSaid
    BY DEF IInv, TypeOK
  <2>2. MaxSaid \in Nat
    BY ONLY HousekeepingAssumption DEF HousekeepingAssumption
  <2>3. said < MaxSaid /\ said' = said + 1
    BY <1>1
  <2> QED BY ONLY <2>1, <2>2, <2>3
<1>4. rx' \in Seq(Unread)
  <2>1. rx \in Seq(Unread) /\ m \in Unread
    BY DEF IInv, TypeOK
  <2> HIDE DEF Unread
  <2> QED BY <1>1, <2>1
<1>5. pkt_list' \in Seq(Packet)
  BY <1>1 DEF IInv, TypeOK
<1>6. TypeOK'
  BY <1>1, <1>3, <1>4, <1>5 DEF IInv, TypeOK
<1> QED BY <1>1, <1>2, <1>6, NoWarning DEF HandlerInv, IInv, NoNewWarning

LEMMA NoStepOK == ASSUME IInv, UNCHANGED vars PROVE IInv' /\ WarnStep
<1>1. HandlerInv'
  BY SameContents DEF vars, clock, coolant, IInv, ListInv, HandlerInv
<1>2. TypeOK'
  BY DEF IInv, TypeOK, vars, clock, coolant, schedule, line
<1>3. WarnStep
  BY NoWarning DEF vars, coolant, NoNewWarning
<1> QED BY <1>1, <1>2, <1>3 DEF HandlerInv, IInv

LEMMA StepOK ==
  ASSUME IInv, [Next]_vars
  PROVE  IInv' /\ WarnStep
<1>1. CASE Read
  BY <1>1, ReadOK
<1>2. CASE \E line_idle \in BOOLEAN, echo \in Heard : Tick(line_idle, echo)
  BY <1>2, TickOK
<1>3. CASE Second
  BY <1>3, SecondOK
<1>4. CASE Off
  BY <1>4, NoStepOK DEF Off
<1>5. CASE \E m \in CarMessage : Says(m)
  BY <1>5, SaysOK
<1>6. CASE UNCHANGED vars
  BY <1>6, NoStepOK
<1> QED BY <1>1, <1>2, <1>3, <1>4, <1>5, <1>6 DEF Next

LEMMA Invariance == Spec => []IInv
<1>1. IInv /\ [Next]_vars => IInv'
  BY StepOK
<1> QED BY InitOK, <1>1, PTL DEF Spec

(* Every variable keeps its type; the counters of questions stop at the    *)
(* bound of the code.                                                      *)
THEOREM TypeCorrect == Spec => []TypeOK
<1>1. IInv => TypeOK
  BY DEF IInv
<1> QED BY <1>1, Invariance, PTL

(* An answer takes the question off the list, and none is put there again. *)
THEOREM NoQuestionIsLeft == Spec => []NoQuestionAfterAnswer
<1>1. IInv => NoQuestionAfterAnswer
  BY TaggedIsHeld DEF IInv, ListInv, QuestionsWithdrawn, NoQuestionAfterAnswer
<1> QED BY <1>1, Invariance, PTL

(* Nothing but its own echo takes the warning off the list.                *)
THEOREM WarningIsKept == Spec => []WarningKept
<1>1. IInv => WarningKept
  BY TaggedIsHeld DEF IInv, ListInv, CountIsHot, WarningState, WarningQueued, WarningKept
<1> QED BY <1>1, Invariance, PTL

(* The second hot reading in a row warns, and nothing else ever does:      *)
(* whatever is read before and after, and however many other messages come *)
(* between.                                                                *)
THEOREM DriverIsWarnedOnce == Spec => WarnsOnce
<1> DEFINE Once == ~WarningQueued /\ WarningQueued'
                     <=> has_input /\ ~HotPair(readings) /\ HotPair(readings')
<1>1. ASSUME IInv, [Next]_vars PROVE Once
  <2>1. IInv' /\ WarnStep
    BY <1>1, StepOK
  <2>2. /\ WarningQueued <=> Holds(pkt_list, Flash, TagLeds)
        /\ WarningQueued' <=> Holds(pkt_list', Flash, TagLeds)
    BY <1>1, <2>1, TaggedIsHeld DEF IInv, ListInv, WarningQueued
  <2> QED BY <2>1, <2>2 DEF WarnStep
<1>2. IInv /\ [Next]_vars => [Once]_vars
  BY <1>1
<1>3. Spec => [][Once]_vars
  BY <1>2, Invariance, PTL DEF Spec
<1> QED BY <1>3 DEF WarnsOnce
-----------------------------------------------------------------------------
(***************************************************************************)
(* What is done with the answers (module Clock).  The two flags are the    *)
(* same; everything else is Clock's own.  Times, zones and errors are      *)
(* arbitrary, so this is proved for every day and hour.                    *)
(***************************************************************************)
(* The time of day at the first second of the minute of t, as the car       *)
(* displays it, and as it is read.                                         *)
FullMinute(t) == (t % 86400) - (t % 60) + 1
MinuteRead(t, style) == HoursRead(t, style) * 3600 + MinuteOf(t) * 60 + 1

TimeShown == datetime.hours * 3600 + datetime.minutes * 60 + datetime.seconds
DayShown  == MkDay(datetime.day, datetime.month, datetime.year)

DateTimes == [day : Int, month : Int, year : Int,
              hours : Int, minutes : Int, seconds : Int]

ClockTypes ==
  /\ now \in Nat /\ skew \in Int /\ error \in Int
  /\ zone \in Int /\ -Day <= zone /\ zone <= Day
  /\ have_time \in BOOLEAN /\ have_date \in BOOLEAN
  /\ datetime \in DateTimes
  /\ heard \in [time : Nat, date : Nat]
  /\ heard.time <= now /\ heard.date <= now

(* Until the date comes, the time of day is the one the car displayed, at  *)
(* the first second of its minute, unless misread says so.                 *)
TimeIsDisplayed ==
  have_time /\ ~have_date /\ "hour" \notin misread =>
    TimeShown = FullMinute(heard.time + skew)

(* Until the time comes, the day is the one the car displayed.             *)
DayIsDisplayed ==
  have_date /\ ~have_time /\ "day" \notin misread =>
    DayShown = (heard.date + skew) \div 86400

ClockInv == ClockTypes /\ TimeIsDisplayed /\ DayIsDisplayed

(* The displayed hour, but for 12 o'clock, and minute give the time of day. *)
LEMMA HoursReadRight ==
  ASSUME NEW t \in Int, NEW style \in {"24h", "12h"},
         ~(style = "12h" /\ HourOf(t) % 12 = 0)
  PROVE  MinuteRead(t, style) = FullMinute(t)
<1>1. HoursRead(t, style) = (t \div 3600) % 24
  BY SMT DEF HoursRead, HourOf, Hour
<1>2. ((t \div 3600) % 24) * 3600 + ((t \div 60) % 60) * 60 = (t % 86400) - (t % 60)
  BY SMT
<1> QED BY <1>1, <1>2 DEF MinuteOf, MinuteRead, FullMinute

(* The three numbers of a date give the day.                               *)
LEMMA DayReadRight ==
  ASSUME NEW t \in Int
  PROVE  MkDay(MDayOf(t), MonthOf(t), YearOf(t)) = t \div 86400
BY SMT DEF MkDay, MDayOf, MonthOf, YearOf, DayNo, Day

LEMMA ReadTypes ==
  ASSUME NEW t \in Int
  PROVE  /\ \A style \in {"24h", "12h"} : HoursRead(t, style) \in Int
         /\ \A style \in {"dmy", "mdy", "unset"} :
              DayRead(t, style) \in Int /\ MonthRead(t, style) \in Int
         /\ MinuteOf(t) \in Int /\ SecondOf(t) \in Int
         /\ HourOf(t) \in Int /\ YearOf(t) \in Int
<1>1. MinuteOf(t) \in Int /\ SecondOf(t) \in Int /\ HourOf(t) \in Int
  BY SMT DEF MinuteOf, SecondOf, HourOf, Hour
<1>2. YearOf(t) \in Int /\ MonthOf(t) \in Int /\ MDayOf(t) \in Int
  BY SMT DEF YearOf, MonthOf, MDayOf, DayNo, Day
<1>3. \A style \in {"24h", "12h"} : HoursRead(t, style) \in Int
  BY <1>1, SMT DEF HoursRead
<1>4. \A style \in {"dmy", "mdy", "unset"} :
        DayRead(t, style) \in Int /\ MonthRead(t, style) \in Int
  BY <1>2 DEF DayRead, MonthRead
<1> QED BY <1>1, <1>2, <1>3, <1>4

(* Two decimal digits in a byte are what they were.                        *)
LEMMA FromBcdBcd ==
  ASSUME NEW t \in Int
  PROVE  /\ FromBcd(Bcd(MinuteOf(t))) = MinuteOf(t)
         /\ FromBcd(Bcd(SecondOf(t))) = SecondOf(t)
<1>1. \A n \in Int : 0 <= n /\ n <= 59 => FromBcd(Bcd(n)) = n
  BY SMT DEF FromBcd, Bcd
<1>2. /\ MinuteOf(t) \in Int /\ 0 <= MinuteOf(t) /\ MinuteOf(t) <= 59
      /\ SecondOf(t) \in Int /\ 0 <= SecondOf(t) /\ SecondOf(t) <= 59
  BY SMT DEF MinuteOf, SecondOf
<1> QED BY <1>1, <1>2

LEMMA MkTimeType ==
  ASSUME NEW d \in Int, NEW h \in Int, NEW m \in Int, NEW s \in Int
  PROVE  /\ MkTime(d, h, m, s) = d * 86400 + (h * 3600 + m * 60 + s)
         /\ MkTime(d, h, m, s) \in Int
BY SMT DEF MkTime, Day, Hour

LEMMA DayNoType ==
  ASSUME NEW t \in Int
  PROVE  /\ DayNo(t) = t \div 86400
         /\ DayNo(t) \in Int
BY SMT DEF DayNo, Day

(* What the clock is set to is the date and time that were put together.   *)
LEMMA SetInFull ==
  ASSUME datetime' \in DateTimes,
         now \in Int, have_time', have_date', SetTimeAndDate(TRUE)
  PROVE  /\ error' = (DayShown' * 86400 + TimeShown') - now
         /\ error' \in Int
<1> DEFINE D == MkDay(datetime'.day, datetime'.month, datetime'.year)
<1>1. D \in Int
  BY SMT DEF DateTimes, MkDay
<1>2. D = DayShown'
  BY DEF DayShown
<1> HIDE DEF D
<1>3. error' = MkTime(D, datetime'.hours, datetime'.minutes, datetime'.seconds) - now
  BY DEF SetTimeAndDate, NewError, D
<1>4. datetime'.hours \in Int /\ datetime'.minutes \in Int /\ datetime'.seconds \in Int
  BY DEF DateTimes
<1>5. TimeShown' = datetime'.hours * 3600 + datetime'.minutes * 60 + datetime'.seconds
  BY DEF TimeShown
<1>6. /\ MkTime(D, datetime'.hours, datetime'.minutes, datetime'.seconds)
           = D * 86400 + TimeShown'
      /\ D * 86400 + TimeShown' \in Int
  <2> DEFINE h == datetime'.hours
             m == datetime'.minutes
             s == datetime'.seconds
  <2>1. h \in Int /\ m \in Int /\ s \in Int
    BY <1>4
  <2>2. TimeShown' = h * 3600 + m * 60 + s
    BY <1>5
  <2> HIDE DEF h, m, s
  <2>3. MkTime(D, h, m, s) = D * 86400 + TimeShown' /\ D * 86400 + TimeShown' \in Int
    BY <1>1, <2>1, <2>2, MkTimeType
  <2> QED BY <2>3 DEF h, m, s
<1> QED BY <1>2, <1>3, <1>6

(* GPS keeps the day and the hour of the Pi and sets the rest.             *)
LEMMA GpsSets ==
  ASSUME ClockTypes, HandleGps
  PROVE  /\ datetime' = [datetime EXCEPT !.hours = LocalHour,
                                         !.minutes = MinuteOf(now),
                                         !.seconds = SecondOf(now)]
         /\ Distance(MinuteOf(now) * 60 + SecondOf(now),
                           MinuteOf(now + error) * 60
                             + SecondOf(now + error)) <= 180
<1>1. now \in Int /\ now + error \in Int
  BY DEF ClockTypes
<1>2. /\ FromBcd(Bcd(MinuteOf(now))) = MinuteOf(now)
      /\ FromBcd(Bcd(SecondOf(now))) = SecondOf(now)
  BY <1>1, FromBcdBcd
<1>3. PiLocal = now + error
  BY DEF PiLocal
<1> DEFINE minutes == MinuteOf(now)
           seconds == SecondOf(now)
           offset  == Distance(minutes * 60 + seconds,
                        MinuteOf(now + error) * 60 + SecondOf(now + error))
<1>4. /\ datetime' = [datetime EXCEPT !.hours = LocalHour, !.minutes = minutes,
                                      !.seconds = seconds]
      /\ WorthSetting(offset)
  BY <1>2, <1>3, Zenon DEF HandleGps
<1>5. WorthSetting(offset) => offset <= 180
  BY Zenon DEF WorthSetting
<1> QED BY <1>4, <1>5

(* A display of t, in full minutes, is looked at when it is c by the car:  *)
(* with some day X the clock is set to it, which is too late by less than  *)
(* the time that passed and a minute, but for whole days.                  *)
LEMMA LateBy ==
  ASSUME NEW c \in Int, NEW t \in Int, NEW X \in Int, t <= c
  PROVE  LET late == c - (X * 86400 + FullMinute(t))
         IN  /\ (late + 1) % 86400 <= (c - t) + 60
             /\ X = t \div 86400 => -1 <= late /\ late <= (c - t) + 60
<1> DEFINE day == t \div 86400
           tod == t % 86400
           sec == t % 60
<1>1. /\ day \in Int /\ tod \in Int /\ sec \in Int
      /\ 0 <= sec /\ sec <= 59 /\ t = day * 86400 + tod
  BY SMT
<1> HIDE DEF day, tod, sec
<1> DEFINE late == c - (X * 86400 + ((tod - sec) + 1))
           x    == (c - t) + sec
<1>2. late + 1 = x + (day - X) * 86400
  BY <1>1, SMT
<1>3. x \in Nat /\ x <= (c - t) + 60
  BY <1>1, SMT
<1>4. day - X \in Int
  BY <1>1
<1>5. (late + 1) % 86400 <= x
  <2> HIDE DEF x, late
  <2>1. \A k \in Int, n \in Nat : (n + k * 86400) % 86400 <= n
    BY SMT
  <2> QED BY <1>2, <1>3, <1>4, <2>1
<1>6. (late + 1) \in Int /\ (late + 1) % 86400 \in Int
  BY <1>1, SMT
<1>7. X = day => late + 1 = x
  BY <1>1, SMT
<1>8. /\ (late + 1) % 86400 <= (c - t) + 60
      /\ X = day => -1 <= late /\ late <= (c - t) + 60
  <2>1. late \in Int
    BY <1>1
  <2> HIDE DEF late
  <2>2. (late + 1) % 86400 <= (c - t) + 60
    <3> HIDE DEF x
    <3> QED BY <1>3, <1>5, <1>6
  <2>3. X = day => late + 1 = x
    BY <1>7
  <2> QED BY <1>3, <2>1, <2>2, <2>3
<1> QED BY <1>8 DEF day, tod, sec, FullMinute

(* Setting the fields of the time leaves the others, and so for the date.  *)
SetTime(d, h, m, s) == [d EXCEPT !.hours = h, !.minutes = m, !.seconds = s]
SetDate(d, day, month, year) == [d EXCEPT !.day = day, !.month = month, !.year = year]

LEMMA TimeReplaced ==
  ASSUME NEW d \in DateTimes, NEW h \in Int, NEW m \in Int, NEW s \in Int,
         NEW e, e = SetTime(d, h, m, s)
  PROVE  /\ e \in DateTimes
         /\ e.hours = h /\ e.minutes = m /\ e.seconds = s
         /\ e.day = d.day /\ e.month = d.month /\ e.year = d.year
BY DEF DateTimes, SetTime

LEMMA DateReplaced ==
  ASSUME NEW d \in DateTimes, NEW day \in Int, NEW month \in Int, NEW year \in Int,
         NEW e, e = SetDate(d, day, month, year)
  PROVE  /\ e \in DateTimes
         /\ e.day = day /\ e.month = month /\ e.year = year
         /\ e.hours = d.hours /\ e.minutes = d.minutes /\ e.seconds = d.seconds
BY DEF DateTimes, SetDate

LEMMA FullMinuteType == \A t \in Int : FullMinute(t) \in Int
BY SMT DEF FullMinute

SetStep ==
  (~(have_time /\ have_date) /\ have_time' /\ have_date') =>
    LET late == Behind'
    IN  /\ "hour" \notin misread' => (late + 1) % Day <= now - heard'.time + 60
        /\ misread' = {} => -1 <= late /\ late <= now - heard'.time + 60

LEMMA TimeSets ==
  ASSUME ClockInv, NEW style \in TimeStyle, TakeTime(style)
  PROVE  ClockInv' /\ SetStep
<1> DEFINE Told == now + skew
<1>1. style \in {"24h", "12h"}
  BY ClockAssumption DEF ClockAssumption
<1>2. now \in Nat /\ skew \in Int /\ error \in Int /\ Told \in Int /\ Car = Told
  BY DEF ClockInv, ClockTypes, Car
<1>3. /\ ~have_time /\ have_time' = TRUE
      /\ datetime' = [datetime EXCEPT !.hours = HoursRead(Told, style),
                                      !.minutes = MinuteOf(Told), !.seconds = 1]
      /\ UNCHANGED <<now, zone, skew, have_date>>
      /\ heard' = [heard EXCEPT !.time = now]
      /\ SetTimeAndDate(TRUE)
  BY <1>2 DEF TakeTime
<1>4. /\ "hour" \notin misread' => ~(style = "12h" /\ HourOf(Told) % 12 = 0)
      /\ have_date /\ misread' = {}
           => "day" \notin misread /\ Told \div 86400 = (heard.date + skew) \div 86400
  <2>1. misread' = misread
          \cup (IF Twelve(style) THEN {"hour"} ELSE {})
          \cup (IF have_date /\ PastMidnight(heard.date) THEN {"day"} ELSE {})
    BY DEF TakeTime
  <2>2. Twelve(style) <=> style = "12h" /\ HourOf(Told) % 12 = 0
    BY <1>2 DEF Twelve
  <2>3. PastMidnight(heard.date) <=> Told \div 86400 # (heard.date + skew) \div 86400
    BY <1>2 DEF PastMidnight, DayNo, Day
  <2> QED BY <2>1, <2>2, <2>3
<1> HIDE DEF Told
<1> DEFINE hours   == HoursRead(Told, style)
           minutes == MinuteOf(Told)
<1>5. /\ hours \in Int /\ minutes \in Int
      /\ MinuteRead(Told, style) = hours * 3600 + minutes * 60 + 1
      /\ "hour" \notin misread' => MinuteRead(Told, style) = FullMinute(Told)
  <2>1. hours \in Int /\ minutes \in Int
    BY <1>1, <1>2, ReadTypes
  <2>2. ASSUME "hour" \notin misread' PROVE MinuteRead(Told, style) = FullMinute(Told)
    BY <1>1, <1>2, <1>4, <2>2, HoursReadRight
  <2> QED BY <2>1, <2>2 DEF MinuteRead
<1>6. /\ datetime' \in DateTimes
      /\ TimeShown' = MinuteRead(Told, style)
      /\ DayShown' = DayShown
  <2> HIDE DEF hours, minutes
  <2>1. datetime' = SetTime(datetime, hours, minutes, 1)
    BY <1>3 DEF hours, minutes, SetTime
  <2>2. datetime \in DateTimes
    BY DEF ClockInv, ClockTypes
  <2>3. /\ datetime' \in DateTimes
        /\ datetime'.hours = hours /\ datetime'.minutes = minutes /\ datetime'.seconds = 1
        /\ datetime'.day = datetime.day /\ datetime'.month = datetime.month
        /\ datetime'.year = datetime.year
    <3>1. hours \in Int /\ minutes \in Int
      BY <1>5
    <3> QED BY <2>1, <2>2, <3>1, TimeReplaced
  <2> QED BY <1>5, <2>3 DEF TimeShown, DayShown
<1> HIDE DEF hours, minutes
<1>7. "hour" \notin misread' => TimeShown' = FullMinute(Told)
  BY <1>5, <1>6
<1>8. have_date => error' = (DayShown * 86400 + TimeShown') - now /\ error' \in Int
  BY <1>2, <1>3, <1>6, SetInFull
<1>9. error' \in Int
  <2>1. CASE have_date
    BY <1>8, <2>1
  <2>2. CASE ~have_date
    BY <1>2, <1>3, <2>2 DEF SetTimeAndDate
  <2> QED BY <2>1, <2>2
<1>10. heard' \in [time : Nat, date : Nat] /\ heard'.time = now /\ heard'.date = heard.date
  BY <1>2, <1>3 DEF ClockInv, ClockTypes
<1>11. ClockTypes'
  BY <1>2, <1>3, <1>6, <1>9, <1>10 DEF ClockInv, ClockTypes
<1>12. TimeIsDisplayed' /\ DayIsDisplayed'
  <2>1. heard'.time + skew' = Told
    BY <1>3, <1>10 DEF Told
  <2> QED BY <1>3, <1>7, <2>1 DEF TimeIsDisplayed, DayIsDisplayed
<1>13. SetStep
  <2> SUFFICES ASSUME have_date PROVE SetStep
    BY <1>3 DEF SetStep
  <2> DEFINE X    == DayShown
             late == Told - (X * 86400 + FullMinute(Told))
  <2>1. X \in Int
    BY SMT DEF ClockInv, ClockTypes, DateTimes, DayShown, MkDay
  <2>2. /\ (late + 1) % 86400 <= (Told - Told) + 60
        /\ X = Told \div 86400 => -1 <= late /\ late <= (Told - Told) + 60
    BY <1>2, <2>1, LateBy
  <2>3. misread' = {} => X = Told \div 86400
    BY <1>3, <1>4 DEF ClockInv, DayIsDisplayed
  <2>4. Behind' = Told - (now + error')
    BY <1>3 DEF Behind, Car, PiLocal, Told
  <2> HIDE DEF X
  <2>5. "hour" \notin misread' => Behind' = late
    <3>1. FullMinute(Told) \in Int
      BY <1>2, FullMinuteType
    <3>2. error' = (X * 86400 + TimeShown') - now
      BY <1>8 DEF X
    <3> QED BY <1>2, <1>7, <2>1, <2>4, <3>1, <3>2
  <2>6. now - heard'.time + 60 = (Told - Told) + 60
    BY <1>2, <1>10
  <2> HIDE DEF late
  <2>7. misread' = {} => "hour" \notin misread'
    OBVIOUS
  <2> QED BY <2>2, <2>3, <2>5, <2>6, <2>7 DEF SetStep, Day
<1> QED BY <1>11, <1>12, <1>13 DEF ClockInv

LEMMA DateSets ==
  ASSUME ClockInv, NEW style \in DateStyle, TakeDate(style)
  PROVE  ClockInv' /\ SetStep
<1> DEFINE Told == now + skew
           then == heard.time + skew
<1>1. style \in {"dmy", "mdy", "unset"}
  BY ClockAssumption DEF ClockAssumption
<1>2. /\ now \in Nat /\ skew \in Int /\ error \in Int /\ Told \in Int /\ Car = Told
      /\ then \in Int /\ then <= Told /\ Told - then = now - heard.time
  BY DEF ClockInv, ClockTypes, Car
<1>3. /\ ~have_date /\ have_date' = TRUE
      /\ datetime' = [datetime EXCEPT !.day = DayRead(Told, style),
                                      !.month = MonthRead(Told, style),
                                      !.year = YearOf(Told)]
      /\ UNCHANGED <<now, zone, skew, have_time>>
      /\ heard' = [heard EXCEPT !.date = now]
      /\ SetTimeAndDate(TRUE)
  BY <1>2 DEF TakeDate
<1>4. /\ "day" \notin misread' =>
           ~(style = "unset" \/ (style = "mdy" /\ MDayOf(Told) # MonthOf(Told)))
      /\ have_time /\ "day" \notin misread' => Told \div 86400 = then \div 86400
      /\ misread \subseteq misread'
  <2>1. misread' = misread
          \cup (IF Unreadable(style) \/ (have_time /\ PastMidnight(heard.time))
                THEN {"day"} ELSE {})
    BY DEF TakeDate
  <2>2. Unreadable(style) <=>
          style = "unset" \/ (style = "mdy" /\ MDayOf(Told) # MonthOf(Told))
    BY <1>2 DEF Unreadable
  <2>3. PastMidnight(heard.time) <=> Told \div 86400 # then \div 86400
    BY <1>2 DEF PastMidnight, DayNo, Day
  <2> QED BY <2>1, <2>2, <2>3
<1> HIDE DEF Told, then
<1> DEFINE day   == DayRead(Told, style)
           month == MonthRead(Told, style)
           year  == YearOf(Told)
<1>5. day \in Int /\ month \in Int /\ year \in Int
  BY <1>1, <1>2, ReadTypes
<1>6. "day" \notin misread' => MkDay(day, month, year) = Told \div 86400
  <2> SUFFICES ASSUME "day" \notin misread'
               PROVE  MkDay(day, month, year) = Told \div 86400
    OBVIOUS
  <2>1. day = MDayOf(Told) /\ month = MonthOf(Told)
    BY <1>1, <1>4 DEF DayRead, MonthRead
  <2> HIDE DEF day, month
  <2> QED BY <1>2, <2>1, DayReadRight
<1> HIDE DEF day, month, year
<1>7. /\ datetime' \in DateTimes
      /\ TimeShown' = TimeShown
      /\ DayShown' = MkDay(day, month, year)
  <2>1. datetime' = SetDate(datetime, day, month, year)
    BY <1>3 DEF day, month, year, SetDate
  <2>2. datetime \in DateTimes
    BY DEF ClockInv, ClockTypes
  <2>3. /\ datetime' \in DateTimes
        /\ datetime'.day = day /\ datetime'.month = month /\ datetime'.year = year
        /\ datetime'.hours = datetime.hours /\ datetime'.minutes = datetime.minutes
        /\ datetime'.seconds = datetime.seconds
    BY <1>5, <2>1, <2>2, DateReplaced
  <2> QED BY <2>3 DEF TimeShown, DayShown
<1>8. have_time => error' = (DayShown' * 86400 + TimeShown') - now /\ error' \in Int
  BY <1>2, <1>3, <1>7, SetInFull
<1>9. error' \in Int
  <2>1. CASE have_time
    BY <1>8, <2>1
  <2>2. CASE ~have_time
    BY <1>2, <1>3, <2>2 DEF SetTimeAndDate
  <2> QED BY <2>1, <2>2
<1>10. heard' \in [time : Nat, date : Nat] /\ heard'.date = now /\ heard'.time = heard.time
  BY <1>2, <1>3 DEF ClockInv, ClockTypes
<1>11. ClockTypes'
  BY <1>2, <1>3, <1>7, <1>9, <1>10 DEF ClockInv, ClockTypes
<1>12. TimeIsDisplayed' /\ DayIsDisplayed'
  <2>1. heard'.date + skew' = Told
    BY <1>3, <1>10 DEF Told
  <2> QED BY <1>3, <1>6, <1>7, <2>1 DEF TimeIsDisplayed, DayIsDisplayed
<1>13. SetStep
  <2> SUFFICES ASSUME have_time PROVE SetStep
    BY <1>3 DEF SetStep
  <2> DEFINE X    == DayShown'
             late == Told - (X * 86400 + FullMinute(then))
  <2>1. X \in Int
    BY <1>7, SMT DEF DateTimes, DayShown, MkDay
  <2>2. /\ (late + 1) % 86400 <= (Told - then) + 60
        /\ X = then \div 86400 => -1 <= late /\ late <= (Told - then) + 60
    <3> HIDE DEF X
    <3> QED BY <1>2, <2>1, LateBy
  <2>3. misread' = {} => X = then \div 86400
    BY <1>4, <1>6, <1>7
  <2>4. Behind' = Told - (now + error')
    BY <1>3 DEF Behind, Car, PiLocal, Told
  <2>5. "hour" \notin misread' => TimeShown' = FullMinute(then)
    BY <1>3, <1>4, <1>7 DEF ClockInv, TimeIsDisplayed, then
  <2>6. error' = (X * 86400 + TimeShown') - now
    BY <1>8
  <2> HIDE DEF X
  <2>7. "hour" \notin misread' => Behind' = late
    <3>1. FullMinute(then) \in Int
      BY <1>2, FullMinuteType
    <3> QED BY <1>2, <2>1, <2>4, <2>5, <2>6, <3>1
  <2>8. now - heard'.time + 60 = (Told - then) + 60
    BY <1>2, <1>10
  <2> HIDE DEF late
  <2>9. misread' = {} => "hour" \notin misread'
    OBVIOUS
  <2> QED BY <2>2, <2>3, <2>7, <2>8, <2>9 DEF SetStep, Day
<1> QED BY <1>11, <1>12, <1>13 DEF ClockInv

AdjustStep ==
  have_time /\ have_date /\ error' # error =>
    /\ error' % Hour = 0
    /\ LET change == Distance(error', error)
       IN  IF DayNo(PiLocal) = DayNo(PiLocal - zone)
           THEN change <= 180
           ELSE Distance(change, Day) <= 180

(* The second of the hour, in minutes and seconds.                         *)
SecondOfHour(t) == MinuteOf(t) * 60 + SecondOf(t)

LEMMA HourSplit ==
  ASSUME NEW t \in Int
  PROVE  /\ SecondOfHour(t) \in Int
         /\ t = DayNo(t) * Day + (HourOf(t) * Hour + SecondOfHour(t))
         /\ t = (t \div Hour) * Hour + SecondOfHour(t)
BY SMT DEF SecondOfHour, MinuteOf, SecondOf, DayNo, HourOf,
           Day, Hour

(* The day in a zone is that of UTC, the one before or the one behind.     *)
LEMMA DayInZone ==
  ASSUME NEW t \in Int, NEW z \in Int, -Day <= z, z <= Day
  PROVE  /\ DayNo(t - z) - DayNo(t) \in Int
         /\ -1 <= DayNo(t - z) - DayNo(t)
         /\ DayNo(t - z) - DayNo(t) <= 1
BY SMT DEF DayNo, Day

LEMMA GpsError ==
  ASSUME NEW t \in Int, NEW d \in Int, NEW h \in Int
  PROVE  MkTime(d, h, MinuteOf(t), SecondOf(t))
           = d * Day + (h * Hour + SecondOfHour(t))
<1>1. MinuteOf(t) \in Int /\ SecondOf(t) \in Int
  BY ReadTypes
<1> DEFINE m == MinuteOf(t)
           s == SecondOf(t)
<1>2. SecondOfHour(t) = m * 60 + s
  BY DEF SecondOfHour
<1> HIDE DEF m, s
<1>3. MkTime(d, h, m, s) = d * Day + (h * Hour + SecondOfHour(t))
  <2>1. m \in Int /\ s \in Int
    BY <1>1 DEF m, s
  <2> QED BY <1>2, <2>1 DEF MkTime, Day, Hour
<1> QED BY <1>3 DEF m, s

(* The Pi shows t + e when it is t.  Its hour, the true second of it, and  *)
(* a day that may be off by one are set.                                   *)
LEMMA AdjustedBy ==
  ASSUME NEW t \in Int, NEW e \in Int, NEW f \in Int, NEW z \in Int,
         -Day <= z, z <= Day,
         f = MkTime(DayNo((t + e) - z), HourOf(t + e),
                          MinuteOf(t), SecondOf(t)) - t,
         Distance(SecondOfHour(t), SecondOfHour(t + e)) <= 180
  PROVE  /\ f % Hour = 0
         /\ IF DayNo(t + e) = DayNo((t + e) - z)
            THEN Distance(f, e) <= 180
            ELSE Distance(Distance(f, e), Day) <= 180
<1> DEFINE p     == t + e
           hour  == HourOf(p)
           day   == DayNo(p)
           gone  == DayNo(p - z)
           mine  == SecondOfHour(p)
           exact == SecondOfHour(t)
           full  == t \div Hour
<1>1. p \in Int /\ p - z \in Int
  OBVIOUS
<1> HIDE DEF p
<1>2. hour \in Int
  BY <1>1, ReadTypes
<1>3. day \in Int /\ gone \in Int
  BY <1>1, DayNoType
<1>4. mine \in Int /\ p = day * Day + (hour * Hour + mine)
  BY <1>1, HourSplit
<1>5. full \in Int /\ exact \in Int /\ t = full * Hour + exact
  <2>1. exact \in Int /\ t = full * Hour + exact
    BY HourSplit
  <2>2. full \in Int
    BY DEF Hour
  <2> HIDE DEF full, exact
  <2> QED BY <2>1, <2>2
<1>6. -1 <= gone - day /\ gone - day <= 1
  BY <1>1, DayInZone
<1>7. Distance(exact, mine) <= 180
  BY DEF p
<1>8. f = (gone * Day + (hour * Hour + exact)) - t
  <2>1. f = MkTime(gone, hour, MinuteOf(t), SecondOf(t)) - t
    BY DEF p
  <2> HIDE DEF hour, gone
  <2> QED BY <1>2, <1>3, <2>1, GpsError
<1> HIDE DEF hour, day, gone, mine, exact, full
<1>9. f % Hour = 0
  <2>1. f = (gone * 24 + hour - full) * Hour /\ gone * 24 + hour - full \in Int
    <3>1. f = (gone * Day + hour * Hour) - full * Hour
      <4> DEFINE a == gone * Day
                 b == hour * Hour
                 c == full * Hour
      <4>1. a \in Int /\ b \in Int /\ c \in Int
        BY <1>2, <1>3, <1>5 DEF Day, Hour
      <4>2. f = (a + (b + exact)) - t /\ t = c + exact /\ exact \in Int
        BY <1>5, <1>8
      <4> HIDE DEF a, b, c
      <4>3. f = (a + (b + exact)) - (c + exact)
        BY <4>2
      <4>4. (a + (b + exact)) - (c + exact) = (a + b) - c
        BY <4>1, <4>2
      <4> QED BY <4>3, <4>4 DEF a, b, c
    <3> QED BY <1>2, <1>3, <1>5, <3>1 DEF Day, Hour
  <2>2. \A k \in Int : (k * Hour) % Hour = 0
    BY SMT DEF Hour
  <2> QED BY <2>1, <2>2
<1>10. f - e = (gone - day) * Day + (exact - mine)
  BY <1>2, <1>3, <1>4, <1>5, <1>8 DEF p, Day, Hour
<1>11. exact - mine <= 180 /\ mine - exact <= 180
  BY <1>4, <1>5, <1>7 DEF Distance
<1>12. IF day = gone THEN Distance(f, e) <= 180
       ELSE Distance(Distance(f, e), Day) <= 180
  <2>1. CASE gone - day = 0
    <3>1. f - e = exact - mine /\ day = gone
      BY <1>3, <1>4, <1>5, <1>10, <2>1 DEF Day
    <3> QED BY <1>4, <1>5, <1>11, <3>1 DEF Distance
  <2>2. CASE gone - day = 1
    <3>1. f - e = Day + (exact - mine) /\ day # gone
      BY <1>3, <1>4, <1>5, <1>10, <2>2 DEF Day
    <3>2. Distance(f, e) = Day + (exact - mine)
      BY <1>4, <1>5, <1>11, <3>1 DEF Distance, Day
    <3> QED BY <1>4, <1>5, <1>11, <3>1, <3>2 DEF Distance, Day
  <2>3. CASE gone - day = -1
    <3>1. f - e = (exact - mine) - Day /\ day # gone
      BY <1>3, <1>4, <1>5, <1>10, <2>3 DEF Day
    <3>2. Distance(f, e) = Day - (exact - mine)
      BY <1>4, <1>5, <1>11, <3>1 DEF Distance, Day
    <3> QED BY <1>4, <1>5, <1>11, <3>1, <3>2 DEF Distance, Day
  <2>4. gone - day = -1 \/ gone - day = 0 \/ gone - day = 1
    BY <1>3, <1>6
  <2> QED BY <2>1, <2>2, <2>3, <2>4
<1> QED BY <1>9, <1>12 DEF day, gone, p

LEMMA GpsAdjustsClock ==
  ASSUME ClockTypes, HandleGps
  PROVE  /\ error' \in Int
         /\ have_time /\ have_date => AdjustStep
<1> DEFINE day    == DayNo((now + error) - zone)
           hour   == HourOf(now + error)
           minute == MinuteOf(now)
           secs   == SecondOf(now)
<1>1. now \in Int /\ error \in Int /\ now + error \in Int /\ PiLocal = now + error
  BY DEF ClockTypes, PiLocal
<1>2. zone \in Int /\ -Day <= zone /\ zone <= Day /\ (now + error) - zone \in Int
  BY <1>1 DEF ClockTypes
<1>3. UNCHANGED <<now, have_time, have_date>> /\ SetTimeAndDate(FALSE)
  BY DEF HandleGps
<1>4. day \in Int
  BY <1>2, DayNoType
<1>5. hour \in Int /\ minute \in Int /\ secs \in Int
  BY <1>1, ReadTypes
<1>6. Distance(SecondOfHour(now), SecondOfHour(now + error)) <= 180
  BY GpsSets DEF SecondOfHour
<1>7. datetime'.hours = hour /\ datetime'.minutes = minute /\ datetime'.seconds = secs
  <2>1. datetime' = SetTime(datetime, hour, minute, secs)
    BY <1>1, GpsSets DEF SetTime, LocalHour
  <2>2. datetime \in DateTimes
    BY DEF ClockTypes
  <2> HIDE DEF hour, minute, secs
  <2> QED BY <1>5, <2>1, <2>2, TimeReplaced
<1>8. IF have_time /\ have_date
      THEN error' = MkTime(day, hour, minute, secs) - now
      ELSE error' = error
  <2>1. PiLocal - zone = (now + error) - zone
    BY <1>1
  <2> HIDE DEF hour, minute, secs
  <2>2. CASE have_time /\ have_date
    BY <1>3, <1>7, <2>1, <2>2 DEF SetTimeAndDate, NewError
  <2>3. CASE ~(have_time /\ have_date)
    BY <1>3, <2>3 DEF SetTimeAndDate
  <2> QED BY <2>2, <2>3
<1>9. CASE have_time /\ have_date
  <2> DEFINE new == error'
  <2>1. new = MkTime(day, hour, minute, secs) - now
    BY <1>8, <1>9
  <2>2. new \in Int
    <3> HIDE DEF day, hour, minute, secs, new
    <3>1. MkTime(day, hour, minute, secs) \in Int
      BY <1>4, <1>5, MkTimeType
    <3> QED BY <1>1, <2>1, <3>1
  <2> HIDE DEF new
  <2>3. /\ new % Hour = 0
        /\ IF DayNo(now + error) = day
           THEN Distance(new, error) <= 180
           ELSE Distance(Distance(new, error), Day) <= 180
    BY <1>1, <1>2, <1>6, <2>1, <2>2, AdjustedBy
  <2>4. AdjustStep
    BY <1>1, <2>3, Zenon DEF AdjustStep, new
  <2> QED BY <2>2, <2>4 DEF new
<1>10. CASE ~(have_time /\ have_date)
  BY <1>1, <1>8, <1>10
<1> QED BY <1>9, <1>10

(* GPS may only spoil the hour, and says so.                               *)
LEMMA GpsKeeps ==
  ASSUME ClockInv, HandleGps
  PROVE  ClockInv'
<1>1. /\ UNCHANGED <<now, zone, skew, have_time, have_date, heard>>
      /\ misread' = IF have_time /\ ~have_date THEN misread \cup {"hour"} ELSE misread
  BY DEF HandleGps
<1>2. /\ now \in Int /\ now + error \in Int /\ datetime \in DateTimes
      /\ PiLocal = now + error /\ ClockTypes
  BY DEF ClockInv, ClockTypes, PiLocal
<1> DEFINE hour == HourOf(now + error)
<1>3. datetime' \in DateTimes /\ DayShown' = DayShown
  <2>1. datetime' = SetTime(datetime, hour, MinuteOf(now), SecondOf(now))
    BY <1>2, GpsSets DEF SetTime, LocalHour
  <2>2. hour \in Int /\ MinuteOf(now) \in Int /\ SecondOf(now) \in Int
    BY <1>2, ReadTypes
  <2> HIDE DEF hour
  <2>3. /\ datetime' \in DateTimes /\ datetime'.day = datetime.day
        /\ datetime'.month = datetime.month /\ datetime'.year = datetime.year
    BY <1>2, <2>1, <2>2, TimeReplaced
  <2> QED BY <2>3 DEF DayShown
<1>4. error' \in Int
  BY <1>2, GpsAdjustsClock
<1>5. ClockTypes'
  BY <1>1, <1>2, <1>3, <1>4 DEF ClockTypes
<1>6. TimeIsDisplayed' /\ DayIsDisplayed'
  BY <1>1, <1>3 DEF ClockInv, TimeIsDisplayed, DayIsDisplayed
<1> QED BY <1>5, <1>6 DEF ClockInv

LEMMA ClockBegins == ASSUME ClockInit PROVE ClockInv
<1>1. /\ now \in Nat /\ skew \in Int /\ error \in Int
      /\ zone \in Int /\ -Day <= zone /\ zone <= Day
  BY ClockAssumption DEF ClockAssumption, ClockInit
<1>2. datetime \in DateTimes /\ heard \in [time : Nat, date : Nat]
      /\ heard.time = 0 /\ heard.date = 0 /\ have_time = FALSE /\ have_date = FALSE
  BY DEF ClockInit, DateTimes
<1>3. 0 <= now
  BY <1>1
<1>4. ClockTypes
  BY <1>1, <1>2, <1>3 DEF ClockTypes
<1> QED BY <1>2, <1>4 DEF ClockInv, TimeIsDisplayed, DayIsDisplayed

LEMMA ClockStep ==
  ASSUME ClockInv, [ClockNext]_clock_vars
  PROVE  ClockInv' /\ SetStep /\ AdjustStep
<1>1. ASSUME NEW style \in TimeStyle, TakeTime(style)
      PROVE  ClockInv' /\ SetStep /\ AdjustStep
  <2>1. AdjustStep
    BY <1>1 DEF TakeTime, AdjustStep
  <2> QED BY <1>1, <2>1, TimeSets
<1>2. ASSUME NEW style \in DateStyle, TakeDate(style)
      PROVE  ClockInv' /\ SetStep /\ AdjustStep
  <2>1. AdjustStep
    BY <1>2 DEF TakeDate, AdjustStep
  <2> QED BY <1>2, <2>1, DateSets
<1>3. CASE HandleGps
  <2>1. UNCHANGED <<have_time, have_date>>
    BY <1>3 DEF HandleGps
  <2>2. SetStep
    BY <2>1 DEF SetStep
  <2>3. AdjustStep
    <3>1. have_time /\ have_date => AdjustStep
      BY <1>3, GpsAdjustsClock DEF ClockInv
    <3> QED BY <3>1 DEF AdjustStep
  <2> QED BY <1>3, <2>2, <2>3, GpsKeeps
<1>4. CASE Wait
  <2>1. UNCHANGED <<zone, skew, error, have_time, have_date, datetime, heard, misread>>
    BY <1>4 DEF Wait, ibus
  <2>2. now' \in Nat /\ now <= now'
    BY <1>4, ClockAssumption DEF Wait, ClockAssumption, ClockInv, ClockTypes
  <2>3. ClockTypes'
    BY <2>1, <2>2 DEF ClockInv, ClockTypes
  <2>4. TimeIsDisplayed' /\ DayIsDisplayed'
    BY <2>1 DEF ClockInv, TimeIsDisplayed, DayIsDisplayed, TimeShown, DayShown
  <2>5. SetStep /\ AdjustStep
    BY <2>1 DEF SetStep, AdjustStep
  <2> QED BY <2>3, <2>4, <2>5 DEF ClockInv
<1>5. CASE UNCHANGED clock_vars
  <2>1. UNCHANGED <<now, zone, skew, error, have_time, have_date, datetime, heard, misread>>
    BY <1>5 DEF clock_vars, ibus
  <2>2. ClockTypes'
    BY <2>1 DEF ClockInv, ClockTypes
  <2>3. TimeIsDisplayed' /\ DayIsDisplayed'
    BY <2>1 DEF ClockInv, TimeIsDisplayed, DayIsDisplayed, TimeShown, DayShown
  <2>4. SetStep /\ AdjustStep
    BY <2>1 DEF SetStep, AdjustStep
  <2> QED BY <2>2, <2>3, <2>4 DEF ClockInv
<1> QED BY <1>1, <1>2, <1>3, <1>4, <1>5 DEF ClockNext, Ignore

LEMMA ClockInvariance == ClockSpec => []ClockInv
<1>1. ClockInit => ClockInv
  BY ClockBegins
<1>2. ClockInv /\ [ClockNext]_clock_vars => ClockInv'
  BY ClockStep
<1> QED BY <1>1, <1>2, PTL DEF ClockSpec

(* The clock that is set in full shows the car's time of day, late by the   *)
(* time since it was displayed and less than a minute, and the car's day,  *)
(* unless one of the listed misreadings happened: whatever the time, the   *)
(* order of the messages, and the GPS messages between them.               *)
THEOREM ClockIsTheCars == ClockSpec => SetFromCar
<1>1. ClockInv /\ [ClockNext]_clock_vars => [SetStep]_clock_vars
  BY ClockStep
<1>2. ClockSpec => [][SetStep]_clock_vars
  BY <1>1, ClockInvariance, PTL DEF ClockSpec
<1> QED BY <1>2 DEF SetFromCar, SetStep

(* From then on the clock only changes by three minutes, and a day where   *)
(* the Pi's zone makes one, to an error of whole hours.                    *)
THEOREM GpsCorrectsLittle == ClockSpec => GpsAdjusts
<1>1. ClockInv /\ [ClockNext]_clock_vars => [AdjustStep]_clock_vars
  BY ClockStep
<1>2. ClockSpec => [][AdjustStep]_clock_vars
  BY <1>1, ClockInvariance, PTL DEF ClockSpec
<1> QED BY <1>2 DEF GpsAdjusts, AdjustStep
=============================================================================
