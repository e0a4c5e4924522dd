-------------------------------- MODULE Screen --------------------------------
(***************************************************************************)
(* What src/rpi/ibus.c does about the picture and the keys: the messages   *)
(* that select the Pi's screen or leave it, the phone button, the gear     *)
(* (all three switch the video on boards of version 4), and the buttons    *)
(* that become key presses unless the keyboard is blocked.                 *)
(*                                                                         *)
(* A message is known by what ibus_handle_message takes it for; Cabin puts *)
(* the messages on the bus.  Which key a button generates is left out.     *)
(***************************************************************************)
EXTENDS Integers

CONSTANT
  Options     \* command line options to explore, a subset of Option

Bmw    == 0   \* videoSource_t
Pi     == 1
Camera == 2

(* -a input, -v version >= 4, -b, no -r, -n.                               *)
Option ==
  [input : {"cdc", "aux", "tape", "none"}, v4 : BOOLEAN, bluetooth : BOOLEAN,
   camera : BOOLEAN, nextprev : BOOLEAN]

ASSUME ScreenAssumption == Options \subseteq Option

CdcScreens == {"cdc-screen", "new-cdc-screen"}    \* is_cdc_message
Exits      == {"exit-button", "info-button", "main-menu"}
Gears      == {"reverse", "forward"}
Buttons    == {"key", "rotary", "speak", "next", "cd-next"}
Kind == CdcScreens \cup {"aux-screen", "tape-screen", "phone"}
          \cup Exits \cup Gears \cup Buttons

VARIABLES
  opts,              \* the options the program was started with
  videoSource, keyboard_blocked,   \* struct ibus
  relay, pin17,      \* outputs: the relay of the camera, the video trigger
  typed,             \* history: the last message became a key press
  reversing,         \* history: the last gear acted upon was reverse
  toggled            \* history: the phone button was acted upon since the
                     \* radio's screen last was

outputs == <<relay, pin17>>
video   == <<videoSource, outputs>>
program == <<video, keyboard_blocked, typed, reversing, toggled>>

ScreenInit ==
  /\ opts \in Options
  /\ videoSource = Bmw /\ keyboard_blocked = TRUE
  /\ relay = FALSE /\ pin17 = FALSE
  /\ typed = FALSE /\ reversing = FALSE /\ toggled = FALSE
-----------------------------------------------------------------------------
(* ibus_set_video.                                                         *)
Show(src) ==
  /\ relay' = (src = Camera)
  /\ pin17' = (src # Bmw)

Select(src) ==
  /\ videoSource' = src
  /\ Show(src)

NextSource(src) == IF src + 1 > Camera THEN Bmw ELSE src + 1

EnterOnce ==   \* mutant: the picture is not selected again
  /\ keyboard_blocked' = FALSE
  /\ IF opts.v4 /\ keyboard_blocked THEN Select(Pi) ELSE UNCHANGED video
  /\ toggled' = FALSE
  /\ UNCHANGED reversing

(* enter_pi_screen; "playing" is CdChanger's.                              *)
EnterPiScreen ==
  /\ keyboard_blocked' = FALSE
  /\ IF opts.v4 THEN Select(Pi) ELSE UNCHANGED video
  /\ toggled' = FALSE
  /\ UNCHANGED reversing

OutsideKeyUnblocked ==   \* mutant: the keys stay with the Pi
  /\ IF opts.v4 THEN Select(Bmw) ELSE UNCHANGED video
  /\ toggled' = FALSE
  /\ UNCHANGED <<keyboard_blocked, reversing>>

OutsideKey ==
  /\ keyboard_blocked' = TRUE
  /\ IF opts.v4 THEN Select(Bmw) ELSE UNCHANGED video
  /\ toggled' = FALSE
  /\ UNCHANGED reversing

Phone ==
  /\ IF opts.v4 /\ ~opts.bluetooth
     THEN /\ Select(NextSource(videoSource))
          /\ toggled' = TRUE
     ELSE UNCHANGED <<video, toggled>>
  /\ UNCHANGED <<keyboard_blocked, reversing>>

GearSelecting(reverse) ==   \* mutant: the camera becomes the selected source
  /\ opts.v4 /\ opts.camera
  /\ Select(IF reverse THEN Camera ELSE videoSource)
  /\ reversing' = reverse
  /\ UNCHANGED <<keyboard_blocked, toggled>>

(* ibus_handle_ike_sensor.  The script it starts is not waited for.        *)
Gear(reverse) ==
  /\ IF opts.v4 /\ opts.camera
     THEN /\ Show(IF reverse THEN Camera ELSE videoSource)
          /\ reversing' = reverse
     ELSE UNCHANGED <<outputs, reversing>>
  /\ UNCHANGED <<videoSource, keyboard_blocked, toggled>>

(* ibus_handle_aux, ibus_handle_tape.                                      *)
InputScreen(source) ==
  IF opts.input = source THEN EnterPiScreen ELSE OutsideKey

Ignore == UNCHANGED <<video, keyboard_blocked, reversing, toggled>>

(* Buttons that some options give back to the car.                         *)
Passed(kind) ==
  /\ kind \in Buttons
  /\ (kind = "speak") => ~opts.bluetooth
  /\ (kind = "next") => opts.nextprev

(* ibus_handle_message.  The text that selects the CD changer is looked    *)
(* for first; without an input the table of events is not used at all.     *)
HandleMessage(kind) ==
  /\ typed' = (Passed(kind) /\ opts.input # "none" /\ ~keyboard_blocked)
  /\ IF kind \in CdcScreens
     THEN IF opts.input = "cdc" THEN EnterPiScreen ELSE Ignore
     ELSE IF opts.input = "none" THEN Ignore
     ELSE \/ kind = "phone" /\ Phone
          \/ kind \in Exits /\ OutsideKey
          \/ kind \in Gears /\ Gear(kind = "reverse")
          \/ kind = "aux-screen" /\ InputScreen("aux")
          \/ kind = "tape-screen" /\ InputScreen("tape")
          \/ kind \in Buttons /\ Ignore
=============================================================================
