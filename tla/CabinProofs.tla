----------------------------- MODULE CabinProofs -----------------------------
(***************************************************************************)
(* The picture and the keys (modules Screen and Cabin), proved for every   *)
(* set of command line options and any amount of unread input.             *)
(***************************************************************************)
EXTENDS Cabin, SequenceTheorems, TLAPS

(* The messages after which a Pi that plays the CD changer decides anew    *)
(* whose keys they are, and those that decide for the Pi.                  *)
Deciding == CdcScreens \cup Exits \cup {"aux-screen", "tape-screen"}
ForPi    == CdcScreens

(* Keys and picture of a board of version 4 agree until the phone button.  *)
KeysMatchPicture ==
  opts.v4 /\ opts.input # "none" /\ ~toggled
    => (keyboard_blocked <=> videoSource # Pi)

(* On an older board: what the program will make of the keys when it has   *)
(* read its input agrees with the firmware.  The last message that decides *)
(* is what counts; if there is none, the keys themselves.                  *)
NothingDecides == \A i \in 1..Len(rx) : rx[i] \notin Deciding
DecidesLast(i) == /\ rx[i] \in Deciding
                  /\ \A k \in 1..Len(rx) : rx[k] \in Deciding => k <= i
KeysWillMatch ==
  ~opts.v4 /\ opts.input = "cdc" /\ ~apart =>
    \/ NothingDecides /\ (keyboard_blocked <=> fwSource # Pi)
    \/ \E i \in 1..Len(rx) : DecidesLast(i) /\ (rx[i] \in ForPi <=> fwSource = Pi)

IInv == TypeOK /\ KeysMatchPicture /\ KeysWillMatch
-----------------------------------------------------------------------------
(* The screen of the program, for every message.                           *)

ScreenTypes ==
  /\ videoSource \in Bmw..Camera
  /\ {keyboard_blocked, relay, pin17, typed, reversing, toggled} \subseteq BOOLEAN

(* What a handler of the table does, as one of six effects.                *)
LEMMA HandlerEffects ==
  ASSUME NEW kind \in Kind, HandleMessage(kind)
  PROVE  \/ EnterPiScreen /\ kind \in CdcScreens \cup {"aux-screen", "tape-screen"}
         \/ OutsideKey /\ kind \in Exits \cup {"aux-screen", "tape-screen"}
         \/ Phone /\ kind = "phone"
         \/ \E reverse \in BOOLEAN : Gear(reverse) /\ kind \in Gears
         \/ Ignore
<1>1. CASE kind \in CdcScreens
  BY <1>1 DEF HandleMessage
<1>2. CASE kind \notin CdcScreens /\ opts.input = "none"
  BY <1>2 DEF HandleMessage
<1>3. CASE kind \notin CdcScreens /\ opts.input # "none"
  <2>1. (kind = "reverse") \in BOOLEAN
    OBVIOUS
  <2> QED BY <1>3, <2>1 DEF HandleMessage, InputScreen
<1> QED BY <1>1, <1>2, <1>3

LEMMA HandlerTypes ==
  ASSUME ScreenTypes, NEW kind \in Kind, HandleMessage(kind)
  PROVE  ScreenTypes'
<1>1. typed' \in BOOLEAN
  BY DEF HandleMessage
<1>2. ASSUME NEW src \in Bmw..Camera, Show(src)
      PROVE  relay' \in BOOLEAN /\ pin17' \in BOOLEAN
  BY <1>2 DEF Show
<1>3. Bmw \in Bmw..Camera /\ Pi \in Bmw..Camera /\ Camera \in Bmw..Camera
  BY DEF Bmw, Pi, Camera
<1>4. NextSource(videoSource) \in Bmw..Camera
  BY DEF ScreenTypes, NextSource, Bmw, Camera
<1>5. CASE EnterPiScreen
  BY <1>1, <1>2, <1>3, <1>5 DEF ScreenTypes, EnterPiScreen, Select, video, outputs
<1>6. CASE OutsideKey
  BY <1>1, <1>2, <1>3, <1>6 DEF ScreenTypes, OutsideKey, Select, video, outputs
<1>7. CASE Phone
  BY <1>1, <1>2, <1>4, <1>7 DEF ScreenTypes, Phone, Select, video, outputs
<1>8. ASSUME NEW reverse \in BOOLEAN, Gear(reverse) PROVE ScreenTypes'
  BY <1>1, <1>2, <1>3, <1>8 DEF ScreenTypes, Gear, video, outputs
<1>9. CASE Ignore
  BY <1>1, <1>9 DEF ScreenTypes, Ignore, video, outputs
<1> QED BY <1>5, <1>6, <1>7, <1>8, <1>9, HandlerEffects

(* Whoever selects a picture of a version 4 board gives away the keys with *)
(* it; only the phone button does not, and it is remembered.               *)
LEMMA HandlerMatches ==
  ASSUME KeysMatchPicture, opts' = opts, NEW kind \in Kind, HandleMessage(kind)
  PROVE  KeysMatchPicture'
<1>1. CASE EnterPiScreen
  BY <1>1 DEF KeysMatchPicture, EnterPiScreen, Select
<1>2. CASE OutsideKey
  BY <1>2 DEF KeysMatchPicture, OutsideKey, Select, Bmw, Pi
<1>3. CASE Phone
  BY <1>3 DEF KeysMatchPicture, Phone, video
<1>4. ASSUME NEW reverse \in BOOLEAN, Gear(reverse) PROVE KeysMatchPicture'
  BY <1>4 DEF KeysMatchPicture, Gear
<1>5. CASE Ignore
  BY <1>5 DEF KeysMatchPicture, Ignore, video
<1> QED BY <1>1, <1>2, <1>3, <1>4, <1>5, HandlerEffects
-----------------------------------------------------------------------------
(* The unread input of an older board.                                     *)

(* The program plays the CD changer: what a message does to the keys.      *)
LEMMA KeysAfterMessage ==
  ASSUME opts.input = "cdc", ~opts.v4, NEW kind \in Kind, HandleMessage(kind)
  PROVE  keyboard_blocked' = IF kind \in Deciding THEN kind \notin ForPi
                             ELSE keyboard_blocked
<1>1. CASE kind \in CdcScreens
  BY <1>1 DEF HandleMessage, EnterPiScreen, Deciding, ForPi
<1>2. CASE kind \in Exits \cup {"aux-screen", "tape-screen"}
  <2>1. OutsideKey /\ kind \notin CdcScreens
    BY <1>2 DEF HandleMessage, InputScreen, Exits, CdcScreens, Gears, Buttons
  <2> QED BY <1>2, <2>1 DEF OutsideKey, Deciding, ForPi
<1>3. CASE kind \in {"phone"} \cup Gears \cup Buttons
  <2>1. kind \notin Deciding
    BY <1>3 DEF Gears, Buttons, Deciding, CdcScreens, Exits
  <2>2. keyboard_blocked' = keyboard_blocked
    BY <1>3, <2>1 DEF HandleMessage, Deciding, Phone, Gear, Ignore
  <2> QED BY <2>1, <2>2
<1> QED BY <1>1, <1>2, <1>3 DEF Kind

(* Reading the first message does not change what the rest will make of    *)
(* the keys.                                                               *)
LEMMA ReadMatches ==
  ASSUME TypeOK, KeysWillMatch, Read
  PROVE  KeysWillMatch'
<1> SUFFICES ASSUME ~opts.v4, opts.input = "cdc", ~apart
             PROVE  \/ NothingDecides' /\ (keyboard_blocked' <=> fwSource' # Pi)
                    \/ \E i \in 1..Len(rx') :
                         DecidesLast(i)' /\ (rx'[i] \in ForPi <=> fwSource' = Pi)
  BY DEF KeysWillMatch, Read, firmware
<1>1. /\ rx \in Seq(Kind) /\ rx # <<>> /\ Len(rx) \in Nat /\ Len(rx) >= 1
      /\ Head(rx) = rx[1] /\ rx[1] \in Kind
  BY DEF TypeOK, Read
<1>2. /\ rx' = Tail(rx) /\ Len(rx') = Len(rx) - 1
      /\ \A k \in 1..(Len(rx) - 1) : rx'[k] = rx[k + 1]
  BY <1>1, HeadTailProperties DEF Read
<1>3. fwSource' = fwSource
  BY DEF Read, firmware
<1>4. keyboard_blocked' = IF rx[1] \in Deciding THEN rx[1] \notin ForPi
                          ELSE keyboard_blocked
  BY <1>1, KeysAfterMessage DEF Read
<1>5. CASE NothingDecides /\ (keyboard_blocked <=> fwSource # Pi)
  <2>1. rx[1] \notin Deciding
    BY <1>1, <1>5 DEF NothingDecides
  <2>2. NothingDecides'
    BY <1>1, <1>2, <1>5 DEF NothingDecides
  <2> QED BY <1>3, <1>4, <1>5, <2>1, <2>2
<1>6. ASSUME NEW i \in 1..Len(rx), DecidesLast(i), rx[i] \in ForPi <=> fwSource = Pi
      PROVE  \/ NothingDecides' /\ (keyboard_blocked' <=> fwSource' # Pi)
             \/ \E k \in 1..Len(rx') :
                  DecidesLast(k)' /\ (rx'[k] \in ForPi <=> fwSource' = Pi)
  <2>1. CASE i = 1
    <3>1. NothingDecides'
      <4> SUFFICES ASSUME NEW k \in 1..(Len(rx) - 1), rx'[k] \in Deciding PROVE FALSE
        BY <1>2 DEF NothingDecides
      <4>1. rx[k + 1] \in Deciding /\ k + 1 \in 1..Len(rx) /\ ~(k + 1 <= 1)
        BY <1>1, <1>2
      <4> QED BY <1>6, <2>1, <4>1 DEF DecidesLast
    <3>2. keyboard_blocked' = (rx[1] \notin ForPi)
      BY <1>4, <1>6, <2>1 DEF DecidesLast
    <3> QED BY <1>3, <1>6, <2>1, <3>1, <3>2
  <2>2. CASE i # 1
    <3>1. i - 1 \in 1..(Len(rx) - 1) /\ (i - 1) + 1 = i
      BY <1>1, <2>2
    <3>2. rx'[i - 1] = rx[i] /\ i - 1 \in 1..Len(rx')
      BY <1>2, <3>1
    <3>3. ASSUME NEW k \in 1..Len(rx'), rx'[k] \in Deciding PROVE k <= i - 1
      <4>1. rx[k + 1] \in Deciding /\ k + 1 \in 1..Len(rx)
        BY <1>1, <1>2, <3>3
      <4>2. k + 1 <= i
        BY <1>6, <4>1 DEF DecidesLast
      <4> QED BY <1>1, <1>2, <4>2
    <3>4. DecidesLast(i - 1)'
      BY <1>6, <3>2, <3>3 DEF DecidesLast
    <3> QED BY <1>3, <1>6, <3>2, <3>4
  <2> QED BY <2>1, <2>2
<1> QED BY <1>5, <1>6 DEF KeysWillMatch

(* What the firmware does to its source, and when the two are not apart    *)
(* after a message that changes the screen.                                *)
LEMMA FirmwareChoice ==
  ASSUME NEW kind \in Kind, FirmwareHandles(kind) \/ FirmwareIgnores(kind)
  PROVE  /\ kind \in Common => fwSource' = IF kind = "cdc-screen" THEN Pi ELSE Bmw
         /\ kind \in Buttons \cup Gears => fwSource' = fwSource
<1>1. CASE kind \in Common
  <2>1. kind \notin Buttons /\ kind \notin Gears /\ kind # "phone"
    BY <1>1 DEF Common, Buttons, Gears
  <2> QED BY <1>1, <2>1 DEF Common, FirmwareHandles, FirmwareIgnores, Firmware!Choose
<1>2. CASE kind \in Buttons \cup Gears
  <2>1. kind \notin Common /\ kind # "phone"
    BY <1>2 DEF Common, Buttons, Gears
  <2> QED BY <1>2, <2>1 DEF Common, FirmwareHandles, FirmwareIgnores, FirmwareGear,
             Firmware!Reverse, Firmware!Forward, firmware
<1>3. CASE kind \notin Common /\ kind \notin Buttons \cup Gears
  BY <1>3
<1> QED BY <1>1, <1>2, <1>3

LEMMA FirmwareTypes ==
  ASSUME TypeOK, NEW kind \in Kind, FirmwareHandles(kind) \/ FirmwareIgnores(kind)
  PROVE  fwSource' \in Bmw..Camera /\ fwShown' \in Bmw..Camera /\ fwReversing' \in BOOLEAN
<1>1. NextSource(fwSource) \in Bmw..Camera
  BY DEF TypeOK, NextSource, Bmw, Camera
<1>2. Bmw \in Bmw..Camera /\ Pi \in Bmw..Camera /\ Camera \in Bmw..Camera
  BY DEF Bmw, Pi, Camera
<1> QED
  BY <1>1, <1>2 DEF TypeOK, FirmwareHandles, FirmwareIgnores, FirmwarePhone,
     FirmwareGear, Firmware!Choose, Firmware!Reverse, Firmware!Forward, firmware

(* A message that both received decides; one that only the firmware, or    *)
(* only the program knows sets the two apart; the others decide nothing.   *)
LEMMA SayMatches ==
  ASSUME TypeOK, KeysWillMatch, NEW kind \in Kind, Say(kind)
  PROVE  KeysWillMatch'
<1> SUFFICES ASSUME ~opts.v4, opts.input = "cdc", ~apart'
             PROVE  \/ NothingDecides' /\ (keyboard_blocked' <=> fwSource' # Pi)
                    \/ \E i \in 1..Len(rx') :
                         DecidesLast(i)' /\ (rx'[i] \in ForPi <=> fwSource' = Pi)
  BY DEF KeysWillMatch, Say
<1>1. PICK heard \in BOOLEAN, received \in BOOLEAN :
        /\ rx' = IF heard THEN Append(rx, kind) ELSE rx
        /\ IF received THEN FirmwareHandles(kind) \/ FirmwareIgnores(kind)
                       ELSE UNCHANGED firmware
        /\ apart' = IF kind \in Changes
                    THEN ~(heard /\ received /\ kind \in Common)
                    ELSE apart
  BY DEF Say
<1>2. rx \in Seq(Kind) /\ Len(rx) \in Nat
  BY DEF TypeOK
<1>3. /\ Append(rx, kind) \in Seq(Kind) /\ Len(Append(rx, kind)) = Len(rx) + 1
      /\ \A k \in 1..Len(rx) : Append(rx, kind)[k] = rx[k]
      /\ Append(rx, kind)[Len(rx) + 1] = kind
  BY <1>2, AppendProperties
<1>4. keyboard_blocked' = keyboard_blocked
  BY DEF Say, program
<1>5. CASE kind \in Changes
  <2>1. heard /\ received /\ kind \in Common
    BY <1>1, <1>5
  <2>2. fwSource' = IF kind = "cdc-screen" THEN Pi ELSE Bmw
    BY <1>1, <2>1, FirmwareChoice
  <2>3. kind \in Deciding /\ (kind \in ForPi <=> kind = "cdc-screen")
    BY <2>1 DEF Common, Deciding, ForPi, CdcScreens, Exits
  <2>4. rx' = Append(rx, kind)
    BY <1>1, <2>1
  <2>a. PICK n \in Nat : n = Len(rx) + 1
    BY <1>2
  <2>b. rx'[n] = kind /\ Len(rx') = n
    BY <1>3, <2>4, <2>a
  <2>5. DecidesLast(n)'
    BY <2>3, <2>b DEF DecidesLast
  <2>6. rx'[n] \in ForPi <=> fwSource' = Pi
    BY <2>2, <2>3, <2>b DEF Bmw, Pi
  <2>7. n \in 1..Len(rx')
    BY <1>2, <2>a, <2>b
  <2> QED BY <2>5, <2>6, <2>7
<1>6. CASE kind \notin Changes
  <2>1. kind \in Buttons \cup Gears
    BY <1>6 DEF Changes
  <2>2. kind \notin Deciding
    BY <2>1 DEF Buttons, Gears, Deciding, CdcScreens, Exits
  <2>3. fwSource' = fwSource /\ ~apart
    BY <1>1, <1>6, <2>1, FirmwareChoice DEF firmware
  <2>4. \/ NothingDecides /\ (keyboard_blocked <=> fwSource # Pi)
        \/ \E i \in 1..Len(rx) : DecidesLast(i) /\ (rx[i] \in ForPi <=> fwSource = Pi)
    BY <2>3 DEF KeysWillMatch
  <2>5. CASE ~heard
    BY <1>1, <1>4, <2>3, <2>4, <2>5 DEF NothingDecides, DecidesLast
  <2>6. CASE heard
    <3>1. rx' = Append(rx, kind)
      BY <1>1, <2>6
    <3>2. \A k \in 1..Len(rx') : rx'[k] \in Deciding => k \in 1..Len(rx) /\ rx'[k] = rx[k]
      BY <1>2, <1>3, <2>2, <3>1
    <3>3. CASE NothingDecides /\ (keyboard_blocked <=> fwSource # Pi)
      <4>1. NothingDecides'
        BY <3>2, <3>3 DEF NothingDecides
      <4> QED BY <1>4, <2>3, <3>3, <4>1
    <3>4. ASSUME NEW i \in 1..Len(rx), DecidesLast(i),
                 rx[i] \in ForPi <=> fwSource = Pi
          PROVE  \E k \in 1..Len(rx') :
                   DecidesLast(k)' /\ (rx'[k] \in ForPi <=> fwSource' = Pi)
      <4>1. i \in 1..Len(rx') /\ rx'[i] = rx[i]
        BY <1>2, <1>3, <3>1
      <4>2. DecidesLast(i)'
        BY <3>2, <3>4, <4>1 DEF DecidesLast
      <4> QED BY <2>3, <3>4, <4>1, <4>2
    <3> QED BY <2>4, <3>3, <3>4
  <2> QED BY <2>5, <2>6
<1> QED BY <1>5, <1>6
-----------------------------------------------------------------------------
LEMMA IInvInit == Init => IInv
<1> SUFFICES ASSUME Init PROVE IInv
  OBVIOUS
<1>1. /\ opts \in Option
      /\ videoSource = Bmw /\ keyboard_blocked = TRUE /\ relay = FALSE /\ pin17 = FALSE
      /\ typed = FALSE /\ reversing = FALSE /\ toggled = FALSE
      /\ fwSource = Bmw /\ fwShown = Bmw /\ fwReversing = FALSE
      /\ rx = <<>> /\ told \in BOOLEAN /\ apart = FALSE
  BY ScreenAssumption DEF Init, ScreenInit, ScreenAssumption, Firmware!Init
<1>2. TypeOK
  <2>1. rx \in Seq(Kind)
    BY <1>1
  <2>2. {keyboard_blocked, relay, pin17, typed, reversing, toggled} \subseteq BOOLEAN
    BY <1>1
  <2>3. Bmw \in Bmw..Camera
    BY DEF Bmw, Camera
  <2> QED BY <1>1, <2>1, <2>2, <2>3 DEF TypeOK
<1>3. KeysMatchPicture
  BY <1>1 DEF KeysMatchPicture, Bmw, Pi
<1>4. NothingDecides /\ (keyboard_blocked <=> fwSource # Pi)
  BY <1>1 DEF NothingDecides, Bmw, Pi
<1> QED BY <1>2, <1>3, <1>4 DEF IInv, KeysWillMatch

LEMMA IInvNext == IInv /\ [Next]_vars => IInv'
<1> SUFFICES ASSUME IInv, [Next]_vars PROVE IInv'
  OBVIOUS
<1>0. TypeOK /\ KeysMatchPicture /\ KeysWillMatch
  BY DEF IInv
<1>1. CASE Read
  <2>1. rx \in Seq(Kind) /\ rx # <<>> /\ Head(rx) \in Kind /\ Tail(rx) \in Seq(Kind)
    BY <1>0, <1>1 DEF TypeOK, Read
  <2>2. HandleMessage(Head(rx)) /\ rx' = Tail(rx) /\ UNCHANGED <<opts, told, firmware, apart>>
    BY <1>1 DEF Read
  <2>3. ScreenTypes
    BY <1>0 DEF TypeOK, ScreenTypes
  <2>4. ScreenTypes'
    BY <2>1, <2>2, <2>3, HandlerTypes
  <2>5. TypeOK'
    BY <1>0, <2>1, <2>2, <2>4 DEF TypeOK, ScreenTypes, firmware
  <2>6. KeysMatchPicture'
    BY <1>0, <2>1, <2>2, HandlerMatches
  <2> QED BY <1>0, <1>1, <2>5, <2>6, ReadMatches DEF IInv
<1>2. ASSUME NEW kind \in Kind, Say(kind) PROVE IInv'
  <2>1. PICK heard \in BOOLEAN, received \in BOOLEAN :
          /\ rx' = IF heard THEN Append(rx, kind) ELSE rx
          /\ IF received /\ ~opts.v4
             THEN FirmwareHandles(kind) \/ FirmwareIgnores(kind)
             ELSE UNCHANGED firmware
          /\ apart' = IF kind \in Changes
                      THEN ~(heard /\ received /\ kind \in Common)
                      ELSE apart
    BY <1>2 DEF Say
  <2>2. UNCHANGED <<opts, program, told>>
    BY <1>2 DEF Say
  <2>3. fwSource' \in Bmw..Camera /\ fwShown' \in Bmw..Camera /\ fwReversing' \in BOOLEAN
    BY <1>0, <2>1, FirmwareTypes DEF TypeOK, firmware
  <2>4. rx' \in Seq(Kind)
    BY <1>0, <2>1 DEF TypeOK
  <2>a. apart' \in BOOLEAN
    <3>1. CASE kind \in Changes
      BY <2>1, <3>1
    <3>2. CASE kind \notin Changes
      BY <1>0, <2>1, <3>2 DEF TypeOK
    <3> QED BY <3>1, <3>2
  <2>5. TypeOK'
    BY <1>0, <2>2, <2>3, <2>4, <2>a DEF TypeOK, program, video, outputs
  <2>6. KeysMatchPicture'
    BY <1>0, <2>2 DEF KeysMatchPicture, program, video
  <2> QED BY <1>0, <1>2, <2>5, <2>6, SayMatches DEF IInv
<1>3. CASE UNCHANGED vars
  <2>1. TypeOK'
    BY <1>0, <1>3 DEF TypeOK, vars, program, video, outputs, firmware
  <2>2. KeysMatchPicture'
    BY <1>0, <1>3 DEF KeysMatchPicture, vars, program, video
  <2>3. KeysWillMatch'
    BY <1>0, <1>3 DEF KeysWillMatch, NothingDecides, DecidesLast, vars, program,
       firmware
  <2> QED BY <2>1, <2>2, <2>3 DEF IInv
<1> QED BY <1>1, <1>2, <1>3 DEF Next

LEMMA Invariance == Spec => []IInv
BY IInvInit, IInvNext, PTL DEF Spec

(* The types of both programs' variables, for every set of options.        *)
THEOREM TypeCorrect == Spec => []TypeOK
<1>1. IInv => TypeOK
  BY DEF IInv
<1> QED BY <1>1, Invariance, PTL

(* Older boards: once the last message that changes the screen is one that *)
(* both programs know and received, and the input is read, the keys belong *)
(* to the Pi exactly while the firmware shows its picture.                 *)
THEOREM KeysFollowTheFirmware == Spec => []KeysFollowFirmware
<1>1. IInv => KeysFollowFirmware
  <2> SUFFICES ASSUME IInv, ~opts.v4, opts.input = "cdc", rx = <<>>, ~apart
               PROVE  keyboard_blocked <=> fwSource # Pi
    BY DEF KeysFollowFirmware
  <2>1. 1..Len(rx) = {}
    OBVIOUS
  <2> QED BY <2>1 DEF IInv, KeysWillMatch
<1> QED BY <1>1, Invariance, PTL

(* Version 4 boards: a button of the monitor is a key press exactly while  *)
(* the Pi's picture is selected, unless the phone button chose another.    *)
THEOREM KeysFollowThePicture == Spec => KeysFollowPicture
<1> DEFINE Step == Read /\ Head(rx) = "key" /\ opts.v4 /\ opts.input # "none" /\ ~toggled
                     => (typed' <=> videoSource = Pi)
<1>1. IInv /\ [Next]_vars => [Step]_vars
  <2> SUFFICES ASSUME IInv, Read, Head(rx) = "key", opts.v4, opts.input # "none", ~toggled
               PROVE  typed' <=> videoSource = Pi
    OBVIOUS
  <2>1. keyboard_blocked <=> videoSource # Pi
    BY DEF IInv, KeysMatchPicture
  <2>2. typed' = (Passed("key") /\ opts.input # "none" /\ ~keyboard_blocked)
    BY DEF Read, HandleMessage
  <2>3. Passed("key")
    BY DEF Passed, Buttons
  <2> QED BY <2>1, <2>2, <2>3
<1> QED BY <1>1, Invariance, PTL DEF Spec, KeysFollowPicture
-----------------------------------------------------------------------------
(* The picture of a version 4 board implements the one the firmware of the *)
(* older boards implements, too (AttinyProofs).                            *)

(* ibus_set_video: what is to be seen is what the pins show.               *)
LEMMA ShownIsSet ==
  ASSUME NEW src \in Bmw..Camera, Show(src)
  PROVE  Shown' = src
<1>1. relay' = (src = Camera) /\ pin17' = (src # Bmw)
  BY DEF Show
<1>2. src = Bmw \/ src = Pi \/ src = Camera
  BY DEF Bmw, Pi, Camera
<1> QED BY <1>1, <1>2 DEF Shown, Bmw, Pi, Camera

LEMMA SelectIsChoose ==
  ASSUME NEW src \in Bmw..Camera, Select(src), reversing' = reversing
  PROVE  Picture!Next
<1>1. Shown' = src
  BY ShownIsSet DEF Select
<1>2. Picture!Choose(src)
  BY <1>1 DEF Picture!Choose, Select
<1> QED BY <1>2 DEF Picture!Next

LEMMA PinsKeepPicture ==
  ASSUME UNCHANGED <<video, reversing>>
  PROVE  UNCHANGED Picture!vars
BY DEF video, outputs, Picture!vars, Shown

LEMMA HandlerShowsPicture ==
  ASSUME TypeOK, NEW kind \in Kind, HandleMessage(kind)
  PROVE  [Picture!Next]_(Picture!vars)
<1>1. Bmw \in Bmw..Camera /\ Pi \in Bmw..Camera /\ Camera \in Bmw..Camera
  BY DEF Bmw, Pi, Camera
<1>2. CASE EnterPiScreen
  BY <1>1, <1>2, SelectIsChoose, PinsKeepPicture DEF EnterPiScreen
<1>3. CASE OutsideKey
  BY <1>1, <1>3, SelectIsChoose, PinsKeepPicture DEF OutsideKey
<1>4. CASE Phone
  <2>1. NextSource(videoSource) \in Bmw..Camera
    BY DEF TypeOK, NextSource, Bmw, Camera
  <2> QED BY <1>4, <2>1, SelectIsChoose, PinsKeepPicture DEF Phone
<1>5. ASSUME NEW reverse \in BOOLEAN, Gear(reverse)
      PROVE  [Picture!Next]_(Picture!vars)
  <2>1. CASE opts.v4 /\ opts.camera /\ reverse
    <3>1. Show(Camera) /\ reversing' = TRUE /\ videoSource' = videoSource
      BY <1>5, <2>1 DEF Gear
    <3>2. Picture!Reverse
      BY <1>1, <3>1, ShownIsSet DEF Picture!Reverse
    <3> QED BY <3>2 DEF Picture!Next
  <2>2. CASE opts.v4 /\ opts.camera /\ ~reverse
    <3>1. Show(videoSource) /\ reversing' = FALSE /\ videoSource' = videoSource
      BY <1>5, <2>2 DEF Gear
    <3>2. Picture!Forward
      BY <3>1, ShownIsSet DEF TypeOK, Picture!Forward
    <3> QED BY <3>2 DEF Picture!Next
  <2>3. CASE ~(opts.v4 /\ opts.camera)
    BY <1>5, <2>3, PinsKeepPicture DEF Gear, video
  <2> QED BY <2>1, <2>2, <2>3
<1>6. CASE Ignore
  BY <1>6, PinsKeepPicture DEF Ignore
<1> QED BY <1>2, <1>3, <1>4, <1>5, <1>6, HandlerEffects

(* Whatever is heard, on a version 4 board the driver sees what was        *)
(* selected last, or the camera from reverse gear on until the gear or a   *)
(* selection ends that: ibus_handle_ike_sensor never loses the selection.  *)
THEOREM ProgramImplementsPicture == Spec => ImplementsPicture
<1>1. Init => Picture!Init
  BY DEF Init, ScreenInit, Shown, Picture!Init, Bmw, Pi, Camera
<1>2. TypeOK /\ [Next]_vars => [Picture!Next]_(Picture!vars)
  <2> SUFFICES ASSUME TypeOK, [Next]_vars PROVE [Picture!Next]_(Picture!vars)
    OBVIOUS
  <2>1. CASE Read
    <3>1. Head(rx) \in Kind
      BY <2>1 DEF TypeOK, Read
    <3> QED BY <2>1, <3>1, HandlerShowsPicture DEF Read
  <2>2. ASSUME NEW kind \in Kind, Say(kind) PROVE UNCHANGED Picture!vars
    BY <2>2, PinsKeepPicture DEF Say, program
  <2>3. CASE UNCHANGED vars
    BY <2>3, PinsKeepPicture DEF vars, program
  <2> QED BY <2>1, <2>2, <2>3 DEF Next
<1> QED BY <1>1, <1>2, TypeCorrect, PTL DEF Spec, ImplementsPicture, Picture!Spec
=============================================================================
