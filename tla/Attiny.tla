------------------------------- MODULE Attiny -------------------------------
(***************************************************************************)
(* The firmware of the ATtiny2313A (src/attiny2313a/ibus.c): the receive   *)
(* interrupt with check_packet, and the timer interrupt.  main() only      *)
(* sleeps.                                                                 *)
(*                                                                         *)
(* An interrupt handler is not interrupted, so it is one step.  The timer  *)
(* is restarted by every byte and overflows after 6.7 ms without one; its  *)
(* handler may have to wait (pending) while a byte is being handled, and   *)
(* then clears a buffer that is not old at all.                            *)
(*                                                                         *)
(* A message on the bus is known by what check_packet takes it for, and is *)
(* received in two parts.  The heartbeat LED, and relay 3, which nothing   *)
(* switches on (set_relays is empty), are left out.                        *)
(***************************************************************************)
EXTENDS Integers

CONSTANTS
  Kinds,        \* the kinds of messages to explore, a subset of Kind
  Second,       \* ticks of the timer in a second (150 in the code)
  IdleSeconds,  \* seconds until the Pi is switched off (360)
  BootTicks,    \* how long a press of the boot button is remembered (1350)
  BootLate,     \* the rest of it from which on a release counts (900)
  LedTicks,     \* how long the LEDs are on (75, 450 or 750)
  MaxMessages   \* bound: transmissions and stray bytes on the bus

Kind == {"phone", "boot-pressed", "boot-released", "reverse", "forward",
         "settings", "video", "set-cdc-message", "cdc-screen", "custom-screen",
         "cdc-exit", "other"}

ASSUME AttinyAssumption ==
  /\ Kinds \subseteq Kind
  /\ {Second, IdleSeconds, BootTicks, BootLate, LedTicks} \subseteq Nat \ {0}
  /\ BootLate < BootTicks
  /\ MaxMessages \in Nat

Bmw    == 0   \* videoSource_t
Pi     == 1
Camera == 2

NoPhoneButton == 1   \* the bits of settings
NoCamera      == 2
NoCdc         == 4
NoIdleTimeout == 8

(* The messages of the Pi carry an argument; of a custom message it matters *)
(* whether its first byte is 0.                                            *)
Arguments(k) ==
  CASE k = "settings"        -> 0..15
    [] k = "video"           -> Bmw..Camera
    [] k = "set-cdc-message" -> 0..1
    [] OTHER                 -> {0}
Message == UNION {[kind : {k}, arg : Arguments(k)] : k \in Kinds}
None  == [kind |-> "none", arg |-> 0]
Junk  == [kind |-> "junk", arg |-> 0]

VARIABLES
  buf,          \* None (bufPos = 0), the message whose first part is in the
                \* buffer, or Junk
  pending,      \* the timer has overflowed and its handler has not run
  underway,     \* the message on the bus whose first part was sent
  videoSource, settings,
  cdcMessage,   \* a custom message was stored
  camera, trigger, power,   \* pins: the camera relays (and its 12V), the
                \* video trigger, and the Pi's power (low is on)
  ledQueue,     \* "off" (0), "on" or "blink"
  ledQueueTimeout, ledsOnCount,
  bootCount, idleCount,
  count,        \* the static counter of the timer's handler
  sent,         \* number of transmissions and stray bytes so far
  lit,          \* history: LEDs were switched on and not off
  reversing,    \* history: the last gear message acted upon was reverse
  held,         \* history: ticks since the boot button was pressed
  quiet         \* history: ticks since a packet was seen

pins  == <<camera, trigger, power>>
video == <<videoSource, pins, reversing>>
boot  == <<bootCount, held>>
leds  == <<ledQueue, ledQueueTimeout>>
prefs == <<settings, cdcMessage>>
vars  == <<buf, pending, underway, video, boot, leds, prefs, ledsOnCount,
           idleCount, count, sent, lit, quiet>>

Never == BootTicks + 1   \* held, before the button was pressed
Off(setting) == (settings \div setting) % 2 = 1
-----------------------------------------------------------------------------
Init ==
  /\ buf = None /\ pending = FALSE /\ underway = None
  /\ videoSource = Bmw /\ settings = 0 /\ cdcMessage = FALSE
  /\ camera = FALSE /\ trigger = FALSE /\ power = TRUE
  /\ ledQueue = "off" /\ ledQueueTimeout = 0 /\ ledsOnCount = 0
  /\ bootCount = 0 /\ idleCount = 0 /\ count = 0
  /\ sent = 0
  /\ lit = FALSE /\ reversing = FALSE /\ held = Never /\ quiet = 0

(* set_video: the Pi gets power when it is to be seen.                     *)
Show(src) ==
  /\ camera' = (src = Camera)
  /\ trigger' = (src # Bmw)
  /\ power' = (power \/ src = Pi)

Select(src) ==
  /\ videoSource' = src
  /\ Show(src)
  /\ UNCHANGED reversing

NextUnbounded(src) == src + 1   \* mutant: no wrap
NextSource(src) == IF src + 1 > Camera THEN Bmw ELSE src + 1

QueueLedsUntimed(what) ==   \* mutant: the time is forgotten
  /\ ledQueue' = what
  /\ UNCHANGED ledQueueTimeout

QueueLeds(what) ==
  /\ ledQueue' = what
  /\ ledQueueTimeout' = LedTicks

(* check_packet, one operator for each message it knows.                   *)

Phone ==
  /\ ~Off(NoPhoneButton)
  /\ Select(NextSource(videoSource))
  /\ QueueLeds("on")
  /\ UNCHANGED <<boot, prefs>>

BootPressed ==
  /\ bootCount' = BootTicks
  /\ held' = 0
  /\ QueueLeds("on")
  /\ UNCHANGED <<video, prefs>>

InTimeAlways(n) == n < BootLate   \* mutant: whether it was pressed at all
InTime(n) == n # 0 /\ n < BootLate

BootReleased ==
  /\ InTime(bootCount)
  /\ QueueLeds("blink")
  /\ UNCHANGED <<video, boot, prefs>>

GearDeselecting(reverse) ==   \* mutant: the camera becomes the selected source
  /\ ~Off(NoCamera)
  /\ Show(IF reverse THEN Camera ELSE videoSource)
  /\ videoSource' = IF reverse THEN Camera ELSE videoSource
  /\ reversing' = reverse
  /\ UNCHANGED <<leds, boot, prefs>>

Gear(reverse) ==
  /\ ~Off(NoCamera)
  /\ Show(IF reverse THEN Camera ELSE videoSource)
  /\ reversing' = reverse
  /\ UNCHANGED <<videoSource, leds, boot, prefs>>

SetSettings(arg) ==
  /\ settings' = arg
  /\ UNCHANGED <<video, leds, boot, cdcMessage>>

SetCdcMessage(first) ==
  /\ cdcMessage' = (first # 0)
  /\ UNCHANGED <<video, leds, boot, settings>>

SetVideoSource(src) ==
  /\ Select(src)
  /\ UNCHANGED <<leds, boot, prefs>>

CdcScreen(src) ==
  /\ ~Off(NoCdc)
  /\ Select(src)
  /\ UNCHANGED <<leds, boot, prefs>>

Known(m) ==
  \/ m.kind = "phone" /\ Phone
  \/ m.kind = "boot-pressed" /\ BootPressed
  \/ m.kind = "boot-released" /\ BootReleased
  \/ m.kind \in {"reverse", "forward"} /\ Gear(m.kind = "reverse")
  \/ m.kind = "settings" /\ SetSettings(m.arg)
  \/ m.kind = "video" /\ SetVideoSource(m.arg)
  \/ m.kind = "set-cdc-message" /\ SetCdcMessage(m.arg)
  \/ m.kind = "cdc-screen" /\ CdcScreen(Pi)
  \/ m.kind = "custom-screen" /\ cdcMessage /\ CdcScreen(Pi)
  \/ m.kind = "cdc-exit" /\ CdcScreen(Bmw)

(* What check_packet does nothing about: other messages, those that a      *)
(* setting rules out, and a release that does not count.                   *)
Ignored(m) ==
  /\ \/ m.kind \in {"other", "junk"}
     \/ m.kind = "phone" /\ Off(NoPhoneButton)
     \/ m.kind = "boot-released" /\ ~InTime(bootCount)
     \/ m.kind \in {"reverse", "forward"} /\ Off(NoCamera)
     \/ m.kind = "custom-screen" /\ ~cdcMessage
     \/ m.kind \in {"cdc-screen", "custom-screen", "cdc-exit"} /\ Off(NoCdc)
  /\ UNCHANGED <<video, leds, boot, prefs>>

KeepIdle == idleCount   \* mutant: the idle time goes on
RestartIdle == 0

CheckPacket(m) ==
  /\ Known(m) \/ Ignored(m)
  /\ buf' = None
  /\ idleCount' = RestartIdle
  /\ quiet' = 0
-----------------------------------------------------------------------------
(* The receive interrupt.                                                  *)

(* The first part of a message is put behind whatever is in the buffer.    *)
FirstPart(m) ==
  /\ underway = None
  /\ sent < MaxMessages
  /\ sent' = sent + 1
  /\ underway' = m
  /\ buf' = IF buf = None THEN m ELSE Junk
  /\ UNCHANGED <<pending, video, boot, leds, prefs, ledsOnCount, idleCount,
                 count, lit, quiet>>

(* The rest completes the message if its first part is still there.  A     *)
(* pending timer was handled in between.                                   *)
LastPart ==
  /\ underway # None
  /\ ~pending
  /\ underway' = None
  /\ IF buf = underway THEN CheckPacket(buf)
     ELSE /\ buf' = Junk
          /\ UNCHANGED <<video, boot, leds, prefs, idleCount, quiet>>
  /\ UNCHANGED <<pending, ledsOnCount, count, sent, lit>>

(* A sender stops, or the rest has errors and is not stored.               *)
Broken ==
  /\ underway # None
  /\ underway' = None
  /\ UNCHANGED <<buf, pending, video, boot, leds, prefs, ledsOnCount,
                 idleCount, count, sent, lit, quiet>>

(* A byte that begins no message: one of the firmware's own, which it      *)
(* hears, or of a message whose beginning it missed.                       *)
Stray ==
  /\ sent < MaxMessages
  /\ sent' = sent + 1
  /\ buf' = Junk
  /\ UNCHANGED <<pending, underway, video, boot, leds, prefs, ledsOnCount,
                 idleCount, count, lit, quiet>>

(* Out of step, the bytes may look like a complete packet: checksums are   *)
(* not tested in general.                                                  *)
JunkCompletes ==
  /\ buf = Junk
  /\ CheckPacket(buf)
  /\ UNCHANGED <<pending, underway, ledsOnCount, count, sent, lit>>
-----------------------------------------------------------------------------
(* The timer.  It may overflow just before a message begins, but not       *)
(* within one, whose bytes are 1.2 ms apart.                               *)
Overflow ==
  /\ underway = None
  /\ ~pending
  /\ pending' = TRUE
  /\ UNCHANGED <<buf, underway, video, boot, leds, prefs, ledsOnCount,
                 idleCount, count, sent, lit, quiet>>

(* The seconds without a packet, and the Pi's power.                       *)
CountIdle ==
  IF idleCount >= IdleSeconds
  THEN /\ idleCount' = IdleSeconds
       /\ count' = IF count + 1 >= 5 * Second THEN 0 ELSE count + 1
       /\ power' = (power /\ Off(NoIdleTimeout))
  ELSE /\ IF count + 1 >= Second
          THEN count' = 0 /\ idleCount' = idleCount + 1
          ELSE count' = count + 1 /\ UNCHANGED idleCount
       /\ power' = TRUE

TurnsOff(idle) == ledsOnCount = 1 /\ idle /\ buf = None
TurnsOn(idle)  == ledQueue # "off" /\ idle /\ buf = None

ExpiresBusy(idle) ==   \* mutant: the last tick counts on a busy bus, too
  IF ledsOnCount > 0 THEN ledsOnCount - 1 ELSE 0
Expires(idle) ==
  IF TurnsOff(idle) \/ ledsOnCount > 1 THEN ledsOnCount - 1 ELSE ledsOnCount

(* The LEDs: off when their time is over, on when something is queued, and *)
(* both only if the bus looks idle, which is looked at twice.              *)
DriveLeds(idleFirst, idleThen) ==
  /\ ledsOnCount' = IF TurnsOn(idleThen) THEN ledQueueTimeout ELSE Expires(idleFirst)
  /\ lit' = (TurnsOn(idleThen) \/ (lit /\ ~TurnsOff(idleFirst)))
  /\ ledQueue' = IF TurnsOn(idleThen) THEN "off" ELSE ledQueue
  /\ UNCHANGED ledQueueTimeout

(* The handler.  Its last statement starts a new packet.                   *)
Timer(idleFirst, idleThen) ==
  /\ pending
  /\ pending' = FALSE
  /\ CountIdle
  /\ DriveLeds(idleFirst, idleThen)
  /\ bootCount' = IF bootCount = 0 THEN 0 ELSE bootCount - 1
  /\ buf' = None
  /\ held' = IF held = Never THEN Never ELSE held + 1
  /\ quiet' = IF quiet = IdleSeconds * Second THEN quiet ELSE quiet + 1
  /\ UNCHANGED <<underway, videoSource, camera, trigger, reversing, prefs, sent>>

Next ==
  \/ \E m \in Message : FirstPart(m)
  \/ LastPart \/ Broken \/ Stray \/ JunkCompletes
  \/ Overflow
  \/ \E idleFirst, idleThen \in BOOLEAN : Timer(idleFirst, idleThen)

Spec == Init /\ [][Next]_vars

(* Messages end, the timer runs and its handler is called; when it is      *)
(* called again and again with an empty buffer, the bus is idle for once.  *)
FairSpec ==
  /\ Spec
  /\ WF_vars(LastPart)
  /\ WF_vars(Overflow)
  /\ WF_vars(\E idleFirst, idleThen \in BOOLEAN : Timer(idleFirst, idleThen))
  /\ SF_vars(buf = None /\ Timer(TRUE, TRUE))
-----------------------------------------------------------------------------
TypeOK ==
  /\ buf \in Message \cup {None, Junk} /\ underway \in Message \cup {None}
  /\ pending \in BOOLEAN /\ cdcMessage \in BOOLEAN
  /\ lit \in BOOLEAN /\ reversing \in BOOLEAN
  /\ videoSource \in Bmw..Camera /\ settings \in 0..15
  /\ camera \in BOOLEAN /\ trigger \in BOOLEAN /\ power \in BOOLEAN
  /\ ledQueue \in {"off", "on", "blink"}
  /\ ledQueueTimeout \in {0, LedTicks} /\ ledsOnCount \in 0..LedTicks
  /\ bootCount \in 0..BootTicks /\ held \in 0..Never
  /\ idleCount \in 0..IdleSeconds /\ count \in 0 .. 5 * Second - 1
  /\ sent \in 0..MaxMessages /\ quiet \in 0 .. IdleSeconds * Second

(* The relays and the trigger show the selected source, or the camera      *)
(* while reverse gear is engaged as far as the firmware knows; a source    *)
(* selected meanwhile takes the camera away.                               *)
VideoMatches ==
  \/ (camera <=> videoSource = Camera) /\ (trigger <=> videoSource # Bmw)
  \/ reversing /\ camera /\ trigger

(* The LEDs are on exactly as long as a tick will switch them off.         *)
LitIsTimed == lit <=> ledsOnCount > 0

(* All LEDs blink, as the sign of a long press, only for a release that    *)
(* comes late enough after the button was pressed and not too late.        *)
BootIsLongPress ==
  [][ledQueue' = "blink" /\ ledQueue # "blink" =>
       held > BootTicks - BootLate /\ held < BootTicks]_vars

(* The Pi is without power only if no packet was seen for the idle time    *)
(* less the second that had begun, or if one was seen since the last tick, *)
(* which will switch it on again.                                          *)
PowerOffJustified ==
  power \/ quiet = 0 \/ quiet > (IdleSeconds - 1) * Second

(* The relays and the trigger, as the driver sees them, are the picture    *)
(* both boards promise: every step selects a source and shows it at once,  *)
(* or follows the gear, or changes nothing that is seen.                   *)
Shown == IF camera THEN Camera ELSE IF trigger THEN Pi ELSE Bmw

Picture == INSTANCE Picture WITH
  Source <- Bmw..Camera, First <- Bmw, selected <- videoSource, shown <- Shown

ImplementsPicture == Picture!Spec

(* LEDs that were switched on are switched off again.                      *)
LedsGoOut == lit ~> ~lit
=============================================================================
