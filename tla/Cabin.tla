-------------------------------- MODULE Cabin --------------------------------
(***************************************************************************)
(* The driver's view of the screen and the keys.  On boards of version 4   *)
(* the program on the Pi switches the video (Screen).  On older boards the *)
(* firmware does (Picture, which Attiny implements), while the Pi decides  *)
(* what becomes a key press; the two only hear the same bus, and neither   *)
(* tells the other what it understood.                                     *)
(***************************************************************************)
EXTENDS Screen, Sequences

CONSTANT
  MaxRx         \* bound: messages waiting in the serial port's input

ASSUME CabinAssumption == MaxRx \in Nat \ {0}

VARIABLES
  rx,           \* messages that the program has not read yet
  told,         \* the firmware has received the settings sent at startup
  fwSource, fwShown, fwReversing,   \* the firmware's picture
  apart         \* history: the last message that changes the screen was not
                \* received by both programs, or only one of them knows it

firmware == <<fwSource, fwShown, fwReversing>>
vars == <<opts, program, rx, told, firmware, apart>>

Firmware == INSTANCE Picture WITH
  Source <- Bmw..Camera, First <- Bmw,
  selected <- fwSource, shown <- fwShown, reversing <- fwReversing

Init ==
  /\ ScreenInit
  /\ Firmware!Init
  /\ rx = <<>>
  /\ told \in IF opts.v4 THEN {FALSE} ELSE BOOLEAN
  /\ apart = FALSE
-----------------------------------------------------------------------------
(* check_packet, with the settings of the startup message.  It knows fewer *)
(* texts than is_cdc_message, no text of other inputs, and no button whose *)
(* message is longer than six bytes.                                       *)
FirmwarePhone ==
  /\ ~(told /\ opts.bluetooth)
  /\ Firmware!Choose(NextSource(fwSource))

FirmwareGear(reverse) ==
  /\ ~(told /\ ~opts.camera)
  /\ IF reverse THEN Firmware!Reverse ELSE Firmware!Forward

FirmwareHandles(kind) ==
  \/ kind = "phone" /\ FirmwarePhone
  \/ kind \in Gears /\ FirmwareGear(kind = "reverse")
  \/ kind = "cdc-screen" /\ Firmware!Choose(Pi)
  \/ kind \in {"exit-button", "main-menu"} /\ Firmware!Choose(Bmw)

FirmwareIgnores(kind) ==
  /\ \/ kind \in Buttons \cup {"new-cdc-screen", "info-button", "aux-screen",
                               "tape-screen"}
     \/ kind = "phone" /\ told /\ opts.bluetooth
     \/ kind \in Gears /\ told /\ ~opts.camera
  /\ UNCHANGED firmware

Common  == {"cdc-screen", "exit-button", "main-menu"}
Changes == Kind \ (Buttons \cup Gears)

(* A message is on the bus.  Each of the two programs may miss it.         *)
Say(kind) ==
  /\ Len(rx) < MaxRx
  /\ \E heard, received \in BOOLEAN :
       /\ rx' = IF heard THEN Append(rx, kind) ELSE rx
       /\ IF received /\ ~opts.v4
          THEN FirmwareHandles(kind) \/ FirmwareIgnores(kind)
          ELSE UNCHANGED firmware
       /\ apart' = IF kind \in Changes
                   THEN ~(heard /\ received /\ kind \in Common)
                   ELSE apart
  /\ UNCHANGED <<opts, program, told>>

(* ibus_read hands the first message to ibus_handle_message.               *)
Read ==
  /\ rx # <<>>
  /\ HandleMessage(Head(rx))
  /\ rx' = Tail(rx)
  /\ UNCHANGED <<opts, told, firmware, apart>>

Next == Read \/ \E kind \in Kind : Say(kind)

Spec == Init /\ [][Next]_vars
-----------------------------------------------------------------------------
TypeOK ==
  /\ opts \in Option
  /\ videoSource \in Bmw..Camera
  /\ {keyboard_blocked, relay, pin17, typed, reversing, toggled} \subseteq BOOLEAN
  /\ rx \in Seq(Kind)
  /\ told \in BOOLEAN /\ apart \in BOOLEAN
  /\ fwSource \in Bmw..Camera /\ fwShown \in Bmw..Camera
  /\ fwReversing \in BOOLEAN

(* The relay and the trigger of a board of version 4, as the driver sees   *)
(* them, are the picture that the firmware of older boards promises, too.  *)
Shown == IF relay THEN Camera ELSE IF pin17 THEN Pi ELSE Bmw

Picture == INSTANCE Picture WITH
  Source <- Bmw..Camera, First <- Bmw, selected <- videoSource, shown <- Shown

ImplementsPicture == Picture!Spec

(* On a board of version 4 a button of the monitor is a key press for the  *)
(* Pi exactly while the Pi's picture is selected, whatever the radio, the  *)
(* gear and the other buttons did before, unless the driver has chosen     *)
(* another picture with the phone button since.                            *)
KeysFollowPicture ==
  [][Read /\ Head(rx) = "key" /\ opts.v4 /\ opts.input # "none" /\ ~toggled
       => (typed' <=> videoSource = Pi)]_vars

(* On older boards the program and the firmware follow the radio           *)
(* separately.  After a message that both know and both received, the keys *)
(* belong to the Pi exactly while the firmware has selected its picture,   *)
(* however far apart the two were before and however late the program      *)
(* reads.                                                                  *)
KeysFollowFirmware ==
  ~opts.v4 /\ opts.input = "cdc" /\ rx = <<>> /\ ~apart
    => (keyboard_blocked <=> fwSource # Pi)
=============================================================================
