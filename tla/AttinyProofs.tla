---------------------------- MODULE AttinyProofs ----------------------------
(***************************************************************************)
(* The invariants of the firmware (module Attiny) hold for every choice of *)
(* its times and for any number of messages.                               *)
(***************************************************************************)
EXTENDS Attiny, TLAPS

(* The part of TypeOK that check_packet is about.                          *)
HandlerTypes ==
  /\ videoSource \in Bmw..Camera /\ settings \in 0..15
  /\ camera \in BOOLEAN /\ trigger \in BOOLEAN /\ power \in BOOLEAN
  /\ cdcMessage \in BOOLEAN /\ reversing \in BOOLEAN
  /\ ledQueue \in {"off", "on", "blink"} /\ ledQueueTimeout \in {0, LedTicks}
  /\ bootCount \in 0..BootTicks /\ held \in 0..Never

(* What is queued for the LEDs has a time.                                 *)
QueueIsTimed == ledQueue # "off" => ledQueueTimeout = LedTicks

(* While the boot button counts, it was pressed as many ticks ago as are   *)
(* missing from its counter.                                               *)
BootIsHeld == bootCount > 0 => held = BootTicks - bootCount

(* The ticks without a packet of which idleCount whole seconds, but for    *)
(* the first one that had begun, and count ticks of the next consist.      *)
IdleTicks == 1 + (idleCount - 1) * Second + (IF idleCount < IdleSeconds THEN count ELSE 0)
IdleIsCounted ==
  /\ idleCount > 0 => quiet >= IdleTicks
  /\ idleCount > 0 /\ idleCount < IdleSeconds => count < Second
  /\ power \/ quiet = 0 \/ idleCount = IdleSeconds

IInv ==
  /\ TypeOK
  /\ VideoMatches
  /\ QueueIsTimed
  /\ LitIsTimed
  /\ BootIsHeld
  /\ IdleIsCounted
-----------------------------------------------------------------------------
(* The arguments of a message are in range.                                *)
LEMMA ArgumentRange ==
  ASSUME NEW m \in Message \cup {None, Junk}
  PROVE  /\ m.kind = "settings" => m.arg \in 0..15
         /\ m.kind = "video" => m.arg \in Bmw..Camera
BY DEF Message, None, Junk, Arguments

(* check_packet, whatever the message: the selected source and the pins    *)
(* stay in agreement, what it queues has a time, the boot counter is       *)
(* started as a whole, and the power is never switched off.                *)
LEMMA HandlerEffect ==
  ASSUME TypeOK, VideoMatches, QueueIsTimed, BootIsHeld,
         NEW m \in Message \cup {None, Junk}, Known(m) \/ Ignored(m)
  PROVE  /\ HandlerTypes'
         /\ VideoMatches'
         /\ QueueIsTimed'
         /\ BootIsHeld'
         /\ power => power'
<1> USE AttinyAssumption
<1> DEFINE Goal == /\ HandlerTypes' /\ VideoMatches' /\ QueueIsTimed'
                   /\ BootIsHeld' /\ (power => power')
<1>0. HandlerTypes
  BY DEF TypeOK, HandlerTypes
<1>1. CASE m.kind = "phone" /\ Phone
  <2>1. NextSource(videoSource) \in Bmw..Camera
    BY <1>0 DEF HandlerTypes, NextSource, Bmw, Camera
  <2>2. HandlerTypes'
    BY <1>0, <1>1, <2>1 DEF HandlerTypes, Phone, Select, Show, QueueLeds, boot, prefs
  <2>3. VideoMatches' /\ QueueIsTimed' /\ BootIsHeld' /\ (power => power')
    BY <1>1 DEF VideoMatches, QueueIsTimed, BootIsHeld, Phone, Select, Show,
                QueueLeds, boot
  <2> QED BY <2>2, <2>3
<1>2. CASE m.kind = "boot-pressed" /\ BootPressed
  <2>1. HandlerTypes'
    BY <1>0, <1>2 DEF HandlerTypes, BootPressed, QueueLeds, video, pins, prefs, Never
  <2>2. VideoMatches' /\ QueueIsTimed' /\ BootIsHeld' /\ (power => power')
    BY <1>2 DEF VideoMatches, QueueIsTimed, BootIsHeld, BootPressed, QueueLeds,
                video, pins
  <2> QED BY <2>1, <2>2
<1>3. CASE m.kind = "boot-released" /\ BootReleased
  <2>1. HandlerTypes'
    BY <1>0, <1>3 DEF HandlerTypes, BootReleased, QueueLeds, video, pins, boot, prefs
  <2>2. VideoMatches' /\ QueueIsTimed' /\ BootIsHeld' /\ (power => power')
    BY <1>3 DEF VideoMatches, QueueIsTimed, BootIsHeld, BootReleased, QueueLeds,
                video, pins, boot
  <2> QED BY <2>1, <2>2
<1>4. ASSUME NEW reverse \in BOOLEAN, Gear(reverse) PROVE Goal
  <2>1. HandlerTypes'
    BY <1>0, <1>4 DEF HandlerTypes, Gear, Show, leds, boot, prefs
  <2>2. VideoMatches'
    <3>1. CASE reverse
      <4>1. camera' = (Camera = Camera) /\ trigger' = (Camera # Bmw) /\ reversing' = TRUE
        BY <1>4, <3>1 DEF Gear, Show
      <4>2. Camera # Bmw
        BY DEF Camera, Bmw
      <4> QED BY <4>1, <4>2 DEF VideoMatches
    <3>2. CASE ~reverse
      <4>1. /\ camera' = (videoSource = Camera)
            /\ trigger' = (videoSource # Bmw)
            /\ videoSource' = videoSource
        BY <1>4, <3>2 DEF Gear, Show
      <4> QED BY <4>1 DEF VideoMatches
    <3> QED BY <3>1, <3>2
  <2>3. QueueIsTimed' /\ BootIsHeld' /\ (power => power')
    BY <1>4 DEF QueueIsTimed, BootIsHeld, Gear, Show, leds, boot
  <2> QED BY <2>1, <2>2, <2>3
<1>5. CASE m.kind = "settings" /\ SetSettings(m.arg)
  <2>1. HandlerTypes'
    BY <1>0, <1>5, ArgumentRange
    DEF HandlerTypes, SetSettings, video, pins, leds, boot
  <2>2. VideoMatches' /\ QueueIsTimed' /\ BootIsHeld' /\ (power => power')
    BY <1>5 DEF VideoMatches, QueueIsTimed, BootIsHeld, SetSettings, video, pins,
                leds, boot
  <2> QED BY <2>1, <2>2
<1>6. ASSUME NEW src \in Bmw..Camera, Select(src), UNCHANGED <<leds, boot, prefs>>
      PROVE  Goal
  <2>1. HandlerTypes'
    BY <1>0, <1>6 DEF HandlerTypes, Select, Show, leds, boot, prefs
  <2>2. VideoMatches' /\ QueueIsTimed' /\ BootIsHeld' /\ (power => power')
    BY <1>6 DEF VideoMatches, QueueIsTimed, BootIsHeld, Select, Show, leds, boot
  <2> QED BY <2>1, <2>2
<1>7. CASE m.kind = "video" /\ SetVideoSource(m.arg)
  BY <1>6, <1>7, ArgumentRange DEF SetVideoSource
<1>8. CASE m.kind = "set-cdc-message" /\ SetCdcMessage(m.arg)
  <2>1. HandlerTypes'
    BY <1>0, <1>8 DEF HandlerTypes, SetCdcMessage, video, pins, leds, boot
  <2>2. VideoMatches' /\ QueueIsTimed' /\ BootIsHeld' /\ (power => power')
    BY <1>8 DEF VideoMatches, QueueIsTimed, BootIsHeld, SetCdcMessage, video, pins,
                leds, boot
  <2> QED BY <2>1, <2>2
<1>9. CASE CdcScreen(Pi) \/ CdcScreen(Bmw)
  <2>1. Pi \in Bmw..Camera /\ Bmw \in Bmw..Camera
    BY DEF Pi, Bmw, Camera
  <2> QED BY <1>6, <1>9, <2>1 DEF CdcScreen
<1>10. CASE Ignored(m)
  <2>1. UNCHANGED <<video, leds, boot, prefs>>
    BY <1>10 DEF Ignored
  <2>2. HandlerTypes'
    BY <1>0, <2>1 DEF HandlerTypes, video, pins, leds, boot, prefs
  <2>3. VideoMatches' /\ QueueIsTimed' /\ BootIsHeld' /\ (power => power')
    BY <2>1 DEF VideoMatches, QueueIsTimed, BootIsHeld, video, pins, leds, boot
  <2> QED BY <2>2, <2>3
<1>11. CASE m.kind \in {"reverse", "forward"} /\ Gear(m.kind = "reverse")
  BY <1>4, <1>11
<1> QED
  BY <1>1, <1>2, <1>3, <1>5, <1>7, <1>8, <1>9, <1>10, <1>11 DEF Known
-----------------------------------------------------------------------------
(* check_packet keeps the whole invariant.                                 *)
LEMMA PacketKeepsInvariant ==
  ASSUME IInv, NEW m \in Message \cup {None, Junk}, CheckPacket(m),
         UNCHANGED <<pending, ledsOnCount, count, lit>>,
         underway' \in Message \cup {None}, sent' = sent
  PROVE  IInv'
<1> USE AttinyAssumption
<1>1. /\ HandlerTypes' /\ VideoMatches' /\ QueueIsTimed' /\ BootIsHeld'
      /\ power => power'
  BY HandlerEffect DEF IInv, CheckPacket
<1>2. buf' = None /\ idleCount' = 0 /\ quiet' = 0
  BY DEF CheckPacket, RestartIdle
<1>3. TypeOK'
  <2>1. IdleSeconds * Second \in Nat
    OBVIOUS
  <2> QED BY <1>1, <1>2, <2>1 DEF IInv, TypeOK, HandlerTypes
<1>4. LitIsTimed'
  BY DEF IInv, LitIsTimed
<1>5. IdleIsCounted'
  BY <1>2 DEF IdleIsCounted
<1> QED BY <1>1, <1>3, <1>4, <1>5 DEF IInv

(* Steps that only concern the reception of bytes.                         *)
LEMMA ReceptionKeepsInvariant ==
  ASSUME IInv,
         UNCHANGED <<video, boot, leds, prefs, ledsOnCount, idleCount, count, lit, quiet>>,
         buf' \in Message \cup {None, Junk}, underway' \in Message \cup {None},
         pending' \in BOOLEAN, sent' \in 0..MaxMessages
  PROVE  IInv'
<1>1. TypeOK'
  BY DEF IInv, TypeOK, video, pins, boot, leds, prefs
<1>2. VideoMatches' /\ QueueIsTimed' /\ LitIsTimed' /\ BootIsHeld'
  BY DEF IInv, VideoMatches, QueueIsTimed, LitIsTimed, BootIsHeld, video, pins,
         boot, leds
<1>3. IdleIsCounted'
  BY DEF IInv, IdleIsCounted, IdleTicks, video, pins
<1> QED BY <1>1, <1>2, <1>3 DEF IInv
-----------------------------------------------------------------------------
(* The timer.                                                              *)

LEMMA LaterSecond ==
  ASSUME NEW i \in Nat, NEW n \in Nat, NEW s \in Nat \ {0}, i < n
  PROVE  i * s + s <= n * s
<1>1. PICK k \in Nat : n = i + 1 + k
  <2>1. n - i - 1 \in Nat /\ n = i + 1 + (n - i - 1)
    OBVIOUS
  <2> QED BY <2>1
<1>2. (i + 1 + k) * s = i * s + s + k * s
  OBVIOUS
<1>3. k * s >= 0
  OBVIOUS
<1>4. i * s \in Nat /\ k * s \in Nat
  OBVIOUS
<1> QED BY <1>1, <1>2, <1>3, <1>4

LEMMA TimerTypes ==
  ASSUME IInv, NEW idleFirst \in BOOLEAN, NEW idleThen \in BOOLEAN,
         Timer(idleFirst, idleThen)
  PROVE  TypeOK'
<1> USE AttinyAssumption
<1>1. idleCount' \in 0..IdleSeconds /\ count' \in 0 .. 5 * Second - 1 /\ power' \in BOOLEAN
  <2>1. CASE idleCount >= IdleSeconds
    BY <2>1 DEF IInv, TypeOK, Timer, CountIdle
  <2>2. CASE ~(idleCount >= IdleSeconds)
    BY <2>2 DEF IInv, TypeOK, Timer, CountIdle
  <2> QED BY <2>1, <2>2
<1>2. ledsOnCount' \in 0..LedTicks /\ ledQueue' \in {"off", "on", "blink"}
      /\ ledQueueTimeout' = ledQueueTimeout
  <2>1. ledQueueTimeout \in 0..LedTicks /\ Expires(idleFirst) \in 0..LedTicks
    BY DEF IInv, TypeOK, Expires, TurnsOff
  <2>2. /\ ledsOnCount' = IF TurnsOn(idleThen) THEN ledQueueTimeout ELSE Expires(idleFirst)
        /\ ledQueue' = IF TurnsOn(idleThen) THEN "off" ELSE ledQueue
        /\ ledQueueTimeout' = ledQueueTimeout
    BY DEF Timer, DriveLeds
  <2> QED BY <2>1, <2>2 DEF IInv, TypeOK
<1>3. lit' \in BOOLEAN
  BY DEF Timer, DriveLeds
<1>4. bootCount' \in 0..BootTicks /\ held' \in 0..Never
  BY DEF IInv, TypeOK, Timer, Never
<1>5. quiet' \in 0 .. IdleSeconds * Second
  <2>1. IdleSeconds * Second \in Nat
    OBVIOUS
  <2> QED BY <2>1 DEF IInv, TypeOK, Timer
<1>6. /\ buf' = None /\ pending' = FALSE
      /\ UNCHANGED <<underway, videoSource, camera, trigger, reversing, settings, cdcMessage, sent>>
  BY DEF Timer, prefs
<1> QED BY <1>1, <1>2, <1>3, <1>4, <1>5, <1>6 DEF IInv, TypeOK

(* The LEDs: they are switched off when their counter ends and are on with *)
(* a counter above 0 otherwise.                                            *)
LEMMA TimerLeds ==
  ASSUME IInv, NEW idleFirst \in BOOLEAN, NEW idleThen \in BOOLEAN,
         Timer(idleFirst, idleThen)
  PROVE  LitIsTimed' /\ QueueIsTimed'
<1> USE AttinyAssumption
<1>1. QueueIsTimed'
  BY DEF IInv, QueueIsTimed, Timer, DriveLeds
<1>2. CASE TurnsOn(idleThen)
  <2>1. ledsOnCount' = LedTicks /\ lit' = TRUE
    BY <1>2 DEF IInv, QueueIsTimed, Timer, DriveLeds, TurnsOn
  <2> QED BY <1>1, <2>1 DEF LitIsTimed
<1>3. CASE ~TurnsOn(idleThen) /\ TurnsOff(idleFirst)
  <2>1. ledsOnCount = 1 /\ ledsOnCount' = ledsOnCount - 1
    BY <1>3 DEF Timer, DriveLeds, Expires, TurnsOff
  <2>2. ~lit'
    BY <1>3 DEF Timer, DriveLeds
  <2> QED BY <1>1, <2>1, <2>2 DEF LitIsTimed
<1>4. CASE ~TurnsOn(idleThen) /\ ~TurnsOff(idleFirst)
  <2>1. (ledsOnCount' > 0) <=> (ledsOnCount > 0)
    BY <1>4 DEF IInv, TypeOK, Timer, DriveLeds, Expires
  <2>2. lit' = lit
    BY <1>4 DEF IInv, TypeOK, Timer, DriveLeds
  <2> QED BY <1>1, <2>1, <2>2 DEF IInv, LitIsTimed
<1> QED BY <1>2, <1>3, <1>4

(* The idle time.                                                          *)
LEMMA TimerIdle ==
  ASSUME IInv, NEW idleFirst \in BOOLEAN, NEW idleThen \in BOOLEAN,
         Timer(idleFirst, idleThen)
  PROVE  IdleIsCounted'
<1> USE AttinyAssumption
<1> DEFINE Limit == IdleSeconds * Second
           Before(i) == (i - 1) * Second
<1>0. /\ idleCount \in 0..IdleSeconds /\ count \in 0 .. 5 * Second - 1
      /\ quiet \in 0..Limit /\ Limit \in Nat
      /\ Second \in Nat \ {0} /\ IdleSeconds \in Nat \ {0}
  <2>1. IdleSeconds * Second \in Nat
    OBVIOUS
  <2> QED BY <2>1 DEF IInv, TypeOK
<1>1. quiet' = IF quiet = Limit THEN quiet ELSE quiet + 1
  BY DEF Timer
<1>2. \A i \in 1..IdleSeconds : Before(i) \in Nat /\ Before(i) + Second <= Limit
  <2> TAKE i \in 1..IdleSeconds
  <2>1. i - 1 \in Nat /\ i - 1 < IdleSeconds
    BY <1>0
  <2>2. (i - 1) * Second \in Nat
    BY <2>1, <1>0
  <2> QED BY <2>1, <2>2, <1>0, LaterSecond
<1>3. CASE idleCount >= IdleSeconds
  <2>1. idleCount = IdleSeconds /\ idleCount' = IdleSeconds
    BY <1>0, <1>3 DEF Timer, CountIdle
  <2>2. quiet >= 1 + Before(IdleSeconds) + 0
    BY <1>0, <2>1 DEF IInv, IdleIsCounted, IdleTicks
  <2>3. quiet' >= quiet
    BY <1>0, <1>1
  <2>4. Before(IdleSeconds) \in Nat
    BY <1>0, <1>2
  <2>5. quiet' >= 1 + Before(IdleSeconds) + 0
    BY <1>0, <1>1, <2>2, <2>3, <2>4
  <2>6. IdleTicks' = 1 + Before(IdleSeconds) + 0
    BY <1>0, <2>1 DEF IdleTicks
  <2> QED BY <1>0, <2>1, <2>5, <2>6 DEF IdleIsCounted
<1>4. CASE idleCount < IdleSeconds /\ count + 1 >= Second
  <2>1. count' = 0 /\ idleCount' = idleCount + 1 /\ power' = TRUE
    BY <1>0, <1>4 DEF Timer, CountIdle
  <2>2. CASE idleCount = 0
    <3>1. Before(1) = 0
      BY <1>0
    <3>2. quiet' >= 1
      BY <1>0, <1>1, <1>2, <3>1
    <3>3. IdleTicks' = 1 + Before(1) + 0
      BY <2>1, <2>2 DEF IdleTicks
    <3> QED BY <1>0, <2>1, <3>1, <3>2, <3>3 DEF IdleIsCounted
  <2>3. CASE idleCount > 0
    <3>1. quiet >= 1 + Before(idleCount) + count /\ count < Second
      BY <1>0, <1>4, <2>3 DEF IInv, IdleIsCounted, IdleTicks
    <3>2. Before(idleCount + 1) = Before(idleCount) + Second
      BY <1>0
    <3>3. /\ Before(idleCount) \in Nat
          /\ Before(idleCount + 1) + Second <= Limit
      BY <1>0, <1>2, <1>4, <2>3
    <3>4. quiet' >= 1 + Before(idleCount + 1) + 0
      BY <1>0, <1>1, <1>4, <3>1, <3>2, <3>3
    <3>5. IdleTicks' = 1 + Before(idleCount + 1) + 0
      BY <2>1 DEF IdleTicks
    <3> QED BY <1>0, <2>1, <3>4, <3>5 DEF IdleIsCounted
  <2> QED BY <1>0, <2>2, <2>3
<1>5. CASE idleCount < IdleSeconds /\ count + 1 < Second
  <2>1. count' = count + 1 /\ idleCount' = idleCount /\ power' = TRUE
    BY <1>0, <1>5 DEF Timer, CountIdle
  <2>2. CASE idleCount = 0
    BY <2>1, <2>2 DEF IdleIsCounted
  <2>3. CASE idleCount > 0
    <3>1. quiet >= 1 + Before(idleCount) + count
      BY <1>0, <1>5, <2>3 DEF IInv, IdleIsCounted, IdleTicks
    <3>2. Before(idleCount) \in Nat /\ Before(idleCount) + Second <= Limit
      BY <1>0, <1>2, <2>3
    <3>3. quiet' >= 1 + Before(idleCount) + (count + 1)
      BY <1>0, <1>1, <1>5, <3>1, <3>2
    <3>4. IdleTicks' = 1 + Before(idleCount) + (count + 1)
      BY <1>5, <2>1 DEF IdleTicks
    <3> QED BY <1>0, <1>5, <2>1, <3>3, <3>4 DEF IdleIsCounted
  <2> QED BY <1>0, <2>2, <2>3
<1> QED BY <1>0, <1>3, <1>4, <1>5

LEMMA TimerKeepsInvariant ==
  ASSUME IInv, NEW idleFirst \in BOOLEAN, NEW idleThen \in BOOLEAN,
         Timer(idleFirst, idleThen)
  PROVE  IInv'
<1> USE AttinyAssumption
<1>1. VideoMatches'
  BY DEF IInv, VideoMatches, Timer
<1>2. BootIsHeld'
  BY DEF IInv, TypeOK, BootIsHeld, Timer, Never
<1> QED BY <1>1, <1>2, TimerTypes, TimerLeds, TimerIdle DEF IInv
-----------------------------------------------------------------------------
LEMMA Inductive == IInv /\ [Next]_vars => IInv'
<1> SUFFICES ASSUME IInv, [Next]_vars PROVE IInv'
  OBVIOUS
<1> USE AttinyAssumption
<1>0. TypeOK
  BY DEF IInv
<1>1. ASSUME NEW m \in Message, FirstPart(m) PROVE IInv'
  BY <1>0, <1>1, ReceptionKeepsInvariant DEF TypeOK, FirstPart
<1>2. CASE LastPart
  <2>1. CASE buf = underway
    <3>1. CheckPacket(buf) /\ buf \in Message \cup {None, Junk}
      BY <1>0, <1>2, <2>1 DEF TypeOK, LastPart
    <3>2. /\ UNCHANGED <<pending, ledsOnCount, count, lit>>
          /\ underway' \in Message \cup {None} /\ sent' = sent
      BY <1>2 DEF LastPart
    <3> QED BY <3>1, <3>2, PacketKeepsInvariant
  <2>2. CASE buf # underway
    BY <1>0, <1>2, <2>2, ReceptionKeepsInvariant DEF TypeOK, LastPart
  <2> QED BY <2>1, <2>2
<1>3. CASE Broken
  BY <1>0, <1>3, ReceptionKeepsInvariant DEF TypeOK, Broken
<1>4. CASE Stray
  BY <1>0, <1>4, ReceptionKeepsInvariant DEF TypeOK, Stray
<1>5. CASE JunkCompletes
  <2>1. CheckPacket(buf) /\ buf \in Message \cup {None, Junk}
    BY <1>0, <1>5 DEF TypeOK, JunkCompletes
  <2>2. /\ UNCHANGED <<pending, ledsOnCount, count, lit>>
        /\ underway' \in Message \cup {None} /\ sent' = sent
    BY <1>0, <1>5 DEF TypeOK, JunkCompletes
  <2> QED BY <2>1, <2>2, PacketKeepsInvariant
<1>6. CASE Overflow
  BY <1>0, <1>6, ReceptionKeepsInvariant DEF TypeOK, Overflow
<1>7. ASSUME NEW idleFirst \in BOOLEAN, NEW idleThen \in BOOLEAN,
             Timer(idleFirst, idleThen)
      PROVE  IInv'
  BY <1>7, TimerKeepsInvariant
<1>8. CASE UNCHANGED vars
  BY <1>0, <1>8, ReceptionKeepsInvariant DEF TypeOK, vars
<1> QED BY <1>1, <1>2, <1>3, <1>4, <1>5, <1>6, <1>7, <1>8 DEF Next

LEMMA Initial == Init => IInv
<1> SUFFICES ASSUME Init PROVE IInv
  OBVIOUS
<1> USE AttinyAssumption
<1>1. IdleSeconds * Second \in Nat
  OBVIOUS
<1>2. TypeOK
  <2>1. 5 * Second - 1 \in Nat /\ Second \in Nat /\ BootTicks + 1 \in Nat
    OBVIOUS
  <2>2. /\ 0 \in 0 .. 5 * Second - 1 /\ 0 \in 0 .. IdleSeconds * Second
        /\ 0 \in 0..IdleSeconds /\ 0 \in 0..BootTicks /\ 0 \in 0..LedTicks
        /\ 0 \in 0..MaxMessages /\ Never \in 0..Never
    BY <1>1, <2>1 DEF Never
  <2>3. 0 \in Bmw..Camera
    BY DEF Bmw, Camera
  <2>4. /\ quiet \in 0 .. IdleSeconds * Second /\ count \in 0 .. 5 * Second - 1
        /\ idleCount \in 0..IdleSeconds /\ bootCount \in 0..BootTicks
        /\ ledsOnCount \in 0..LedTicks /\ sent \in 0..MaxMessages
        /\ held \in 0..Never /\ videoSource \in Bmw..Camera
    BY <2>2, <2>3, Zenon DEF Init, Bmw
  <2>5. settings \in 0..15 /\ ledQueueTimeout \in {0, LedTicks}
    BY DEF Init
  <2>6. /\ buf \in Message \cup {None, Junk} /\ underway \in Message \cup {None}
        /\ ledQueue \in {"off", "on", "blink"}
        /\ pending \in BOOLEAN /\ cdcMessage \in BOOLEAN
        /\ lit \in BOOLEAN /\ reversing \in BOOLEAN
        /\ camera \in BOOLEAN /\ trigger \in BOOLEAN /\ power \in BOOLEAN
    BY DEF Init
  <2> QED BY <2>4, <2>5, <2>6, Zenon DEF TypeOK
<1>3. VideoMatches
  BY DEF Init, VideoMatches, Bmw, Camera
<1>4. QueueIsTimed /\ LitIsTimed /\ BootIsHeld /\ IdleIsCounted
  BY DEF Init, QueueIsTimed, LitIsTimed, BootIsHeld, IdleIsCounted
<1> QED BY <1>2, <1>3, <1>4 DEF IInv

THEOREM Invariance == Spec => []IInv
BY Initial, Inductive, PTL DEF Spec

(* The firmware's variables keep their types, counters within their        *)
(* bounds and videoSource within its enumeration (set by check_packet).    *)
THEOREM TypeCorrect == Spec => []TypeOK
<1>1. IInv => TypeOK
  BY DEF IInv
<1> QED BY <1>1, Invariance, PTL

(* The relays and the trigger always show the selected source, or the      *)
(* camera in reverse gear (set_video and its callers).                     *)
THEOREM VideoIsShown == Spec => []VideoMatches
<1>1. IInv => VideoMatches
  BY DEF IInv
<1> QED BY <1>1, Invariance, PTL

(* LEDs that are on have a counter that the timer's handler will bring to  *)
(* an end, whatever is queued in between.                                  *)
THEOREM LitLedsAreTimed == Spec => []LitIsTimed
<1>1. IInv => LitIsTimed
  BY DEF IInv
<1> QED BY <1>1, Invariance, PTL

(* The Pi loses its power only after IdleSeconds - 1 whole seconds of      *)
(* ticks without a packet, for every tick rate and time.                   *)
THEOREM PowerOffIsJustified == Spec => []PowerOffJustified
<1> USE AttinyAssumption
<1>1. IInv => PowerOffJustified
  <2> SUFFICES ASSUME IInv, idleCount = IdleSeconds PROVE quiet > (IdleSeconds - 1) * Second
    BY DEF IInv, IdleIsCounted, PowerOffJustified
  <2>1. (IdleSeconds - 1) * Second \in Int
    OBVIOUS
  <2>2. quiet >= 1 + (IdleSeconds - 1) * Second + 0 /\ quiet \in Int
    BY DEF IInv, TypeOK, IdleIsCounted, IdleTicks
  <2> QED BY <2>1, <2>2
<1> QED BY <1>1, Invariance, PTL

(* The LEDs blink only for a press of the boot button that was long enough *)
(* and is still remembered (BootReleased).                                 *)
THEOREM BlinkingIsALongPress == Spec => BootIsLongPress
<1> USE AttinyAssumption
<1> DEFINE Step == ledQueue' = "blink" /\ ledQueue # "blink" =>
                     held > BootTicks - BootLate /\ held < BootTicks
<1>1. IInv /\ [Next]_vars => [Step]_vars
  <2> SUFFICES ASSUME IInv, Next, ledQueue' = "blink", ledQueue # "blink"
               PROVE  held > BootTicks - BootLate /\ held < BootTicks
    BY DEF IInv
  <2>1. InTime(bootCount)
    BY DEF Next, FirstPart, LastPart, Broken, Stray, JunkCompletes, Overflow,
           Timer, DriveLeds, CheckPacket, Known, Ignored, Phone, BootPressed,
           BootReleased, Gear, SetSettings, SetCdcMessage, SetVideoSource,
           CdcScreen, QueueLeds, leds
  <2> QED BY <2>1 DEF IInv, TypeOK, BootIsHeld, InTime
<1> QED BY <1>1, Invariance, PTL DEF Spec, BootIsLongPress
-----------------------------------------------------------------------------
(* The picture.                                                            *)

(* set_video: what is to be seen is what the pins show.                    *)
LEMMA ShownIsSet ==
  ASSUME NEW src \in Bmw..Camera, Show(src)
  PROVE  Shown' = src
<1>1. camera' = (src = Camera) /\ trigger' = (src # Bmw)
  BY DEF Show
<1>2. src = Bmw \/ src = Pi \/ src = Camera
  BY DEF Bmw, Pi, Camera
<1> QED BY <1>1, <1>2 DEF Shown, Bmw, Pi, Camera

(* Without a gear message and without a selection nothing that is seen     *)
(* changes; the Pi's power is not part of the picture.                     *)
LEMMA PinsKeepPicture ==
  ASSUME UNCHANGED <<videoSource, camera, trigger, reversing>>
  PROVE  UNCHANGED Picture!vars
BY DEF Picture!vars, Shown

LEMMA SelectIsChoose ==
  ASSUME NEW src \in Bmw..Camera, Select(src)
  PROVE  Picture!Next
<1>1. Shown' = src
  BY ShownIsSet DEF Select
<1>2. Picture!Choose(src)
  BY <1>1 DEF Picture!Choose, Select
<1> QED BY <1>2 DEF Picture!Next

(* Every branch of check_packet is a step of the picture or none.          *)
LEMMA HandlerShowsPicture ==
  ASSUME TypeOK, NEW m \in Message \cup {None, Junk}, Known(m) \/ Ignored(m)
  PROVE  [Picture!Next]_(Picture!vars)
<1>1. ASSUME NEW reverse \in BOOLEAN, Gear(reverse) PROVE Picture!Next
  <2>1. CASE reverse
    <3>1. Show(Camera) /\ reversing' = TRUE /\ videoSource' = videoSource
      BY <1>1, <2>1 DEF Gear
    <3>2. Camera \in Bmw..Camera
      BY DEF Bmw, Camera
    <3>3. Picture!Reverse
      BY <3>1, <3>2, ShownIsSet DEF Picture!Reverse
    <3> QED BY <3>3 DEF Picture!Next
  <2>2. CASE ~reverse
    <3>1. Show(videoSource) /\ reversing' = FALSE /\ videoSource' = videoSource
      BY <1>1, <2>2 DEF Gear
    <3>2. Picture!Forward
      BY <3>1, ShownIsSet DEF TypeOK, Picture!Forward
    <3> QED BY <3>2 DEF Picture!Next
  <2> QED BY <2>1, <2>2
<1>2. CASE m.kind = "phone" /\ Phone
  <2>1. NextSource(videoSource) \in Bmw..Camera
    BY DEF TypeOK, NextSource, Bmw, Camera
  <2> QED BY <1>2, <2>1, SelectIsChoose DEF Phone
<1>3. CASE m.kind \in {"reverse", "forward"} /\ Gear(m.kind = "reverse")
  BY <1>1, <1>3
<1>4. CASE m.kind = "video" /\ SetVideoSource(m.arg)
  BY <1>4, ArgumentRange, SelectIsChoose DEF SetVideoSource
<1>5. CASE CdcScreen(Pi) \/ CdcScreen(Bmw)
  <2>1. Pi \in Bmw..Camera /\ Bmw \in Bmw..Camera
    BY DEF Pi, Bmw, Camera
  <2> QED BY <1>5, <2>1, SelectIsChoose DEF CdcScreen
<1>6. CASE UNCHANGED video
  BY <1>6, PinsKeepPicture DEF video, pins
<1> QED
  BY <1>2, <1>3, <1>4, <1>5, <1>6
  DEF Known, Ignored, BootPressed, BootReleased, SetSettings, SetCdcMessage

LEMMA StepShowsPicture ==
  ASSUME TypeOK, [Next]_vars
  PROVE  [Picture!Next]_(Picture!vars)
<1>1. ASSUME NEW m \in Message, FirstPart(m) PROVE UNCHANGED Picture!vars
  BY <1>1, PinsKeepPicture DEF FirstPart, video, pins
<1>2. CASE LastPart
  <2>1. CASE buf = underway
    BY <1>2, <2>1, HandlerShowsPicture DEF TypeOK, LastPart, CheckPacket
  <2>2. CASE buf # underway
    BY <1>2, <2>2, PinsKeepPicture DEF LastPart, video, pins
  <2> QED BY <2>1, <2>2
<1>3. CASE Broken \/ Stray \/ Overflow
  BY <1>3, PinsKeepPicture DEF Broken, Stray, Overflow, video, pins
<1>4. CASE JunkCompletes
  BY <1>4, HandlerShowsPicture DEF TypeOK, JunkCompletes, CheckPacket
<1>5. ASSUME NEW idleFirst \in BOOLEAN, NEW idleThen \in BOOLEAN,
             Timer(idleFirst, idleThen)
      PROVE  UNCHANGED Picture!vars
  BY <1>5, PinsKeepPicture DEF Timer
<1>6. CASE UNCHANGED vars
  BY <1>6, PinsKeepPicture DEF vars, video, pins
<1> QED BY <1>1, <1>2, <1>3, <1>4, <1>5, <1>6 DEF Next

(* The firmware keeps the promise of the abstract picture: whatever        *)
(* messages and ticks do, the driver sees what was selected last, or the   *)
(* camera from reverse gear on until the gear or a selection ends that.    *)
THEOREM FirmwareImplementsPicture == Spec => ImplementsPicture
<1>1. Init => Picture!Init
  BY DEF Init, Shown, Picture!Init, Bmw, Pi, Camera
<1>2. TypeOK /\ [Next]_vars => [Picture!Next]_(Picture!vars)
  BY StepShowsPicture
<1> QED BY <1>1, <1>2, TypeCorrect, PTL DEF Spec, ImplementsPicture, Picture!Spec
=============================================================================
