------------------------------ MODULE CdChanger ------------------------------
(***************************************************************************)
(* The CD changer the program pretends to be (src/rpi/ibus.c), composed    *)
(* with its transmit queue (PacketQueue), the 50ms tick, the main loop's   *)
(* timer and the bus.                                                      *)
(*                                                                         *)
(* The radio sends commands and status requests; the program answers with  *)
(* status messages, hears its own answers, and sets its idea of the status *)
(* ("playing") both from the commands and from what it hears.  write()     *)
(* returns before the bus has the bytes: wire holds the program's own      *)
(* messages that nobody has heard yet, rx the serial port's input, which   *)
(* is the intact messages, in bus order, that the program has not read.    *)
(***************************************************************************)
EXTENDS PacketQueue

CONSTANTS
  Settings,   \* the circumstances to explore, each of them a record:
              \*   options: command line options, a subset of Option,
              \*   radio:   what the radio and the rest of the car say,
              \*   said:    bound, how many messages they say,
              \*   prompt:  TRUE if a tick finds what came before it read, but
              \*            for the end of a message that is just coming in;
              \*            if not, a callback may block the main loop for
              \*            longer (log_flush in the 1s tick, a write to a slow
              \*            TCP client)
  MaxRx       \* bound: messages on the wire and in the serial port's input

Inputs == {"cdc", "aux", "tape", "none"}

(* -a input, -c interval > 0, no -m (announce), -v hardware version >= 4.  *)
Option ==
  [input : Inputs, interval : BOOLEAN, announce : BOOLEAN, v4 : BOOLEAN]

(* CDC 1-04 and its variants, recognised by is_cdc_message; the rest by    *)
(* the table of events.                                                    *)
FromRadio == {"cdc-screen", "cd-poll", "cd-info", "cd-stop", "cd-pause",
              "cd-start", "cd-next", "cd-change", "main-menu", "aux-screen",
              "tape-screen", "radio-text"}
FromCar   == {"immobilized", "outside-key"}
Own       == {"not-playing", "start-playing", "pause-playing", "im-here",
              "announce"}

ASSUME CdChangerAssumption ==
  /\ \A s \in Settings :
       /\ s.options \subseteq Option
       /\ s.radio \subseteq FromRadio \cup FromCar
       /\ s.said \in Nat /\ s.prompt \in BOOLEAN
  /\ Msg = Own
  /\ MaxRx \in Nat \ {0}

TimerTag    == 1..3   \* enough for the registered one, the stored one, a new one
MaxTimeouts == 5      \* cdchanger_interval_timeout stops at this count

VARIABLES
  setting,           \* one of Settings
  opts,              \* the options the program was started with
  pkt_list,          \* the transmit list
  playing, cdc_announce, cdc_info_tag, cdc_timeouts,   \* struct ibus
  keyboard_blocked, videoSource,                       \* struct ibus
  bytes_read,        \* TRUE if something was read since the tick cleared it
  timers,            \* tags of the registered cdchanger_interval_timeout timers
  wire,              \* own messages, written and not heard yet
  rx,                \* unread input
  said,              \* number of messages the car has sent
  radio_status,      \* history: the last status that was intact on the bus
  wanted             \* history: what the radio asked for last

state   == <<playing, cdc_announce, cdc_info_tag, cdc_timeouts, timers>>
screen  == <<keyboard_blocked, videoSource>>
session == <<setting, opts>>
vars    == <<session, pkt_list, state, screen, bytes_read, wire, rx, said,
             radio_status, wanted>>

RadioMsg == setting.radio
MaxRadio == setting.said
Prompt   == setting.prompt

Init ==
  /\ setting \in Settings
  /\ opts \in setting.options
  /\ pkt_list = <<>>
  /\ playing = FALSE
  /\ cdc_announce = opts.announce
  /\ cdc_info_tag = -1
  /\ cdc_timeouts = 0
  /\ keyboard_blocked = TRUE
  /\ videoSource = "bmw"
  /\ bytes_read = FALSE
  /\ timers = {}
  /\ wire = <<>>
  /\ rx = <<>>
  /\ said = 0
  /\ radio_status = "none"
  /\ wanted = "none"
-----------------------------------------------------------------------------
(* Shared parts of the handlers.                                           *)

Cdc == opts.input = "cdc"

(* cdchanger_send_inforeq: the answer goes to the front of the list.       *)
Status(is_playing) == IF is_playing THEN "start-playing" ELSE "not-playing"
SendInfoReq(list, is_playing) == Replace(list, Status(is_playing), TagCdc)

(* cdchanger_announce, called for every message of the radio.              *)
Announced(list) ==
  IF Cdc /\ cdc_announce THEN Send(list, "announce") ELSE list

(* ibus_read hands the first message to ibus_handle_message.               *)
Reads(m) ==
  /\ rx # <<>>
  /\ Head(rx).msg = m
  /\ rx' = Tail(rx)
  /\ bytes_read' = TRUE
  /\ UNCHANGED <<session, wire, said, radio_status>>

(* The end of ibus_handle_message: a message that did not have to be       *)
(* recovered from a damaged stretch of input is looked up in the list,     *)
(* as the handler left it.                                                 *)
Finish(list) ==
  pkt_list' = IF Head(rx).recovered THEN list
              ELSE RemoveFromQueue(list, Head(rx).msg)

(* Effects on the picture, shared by the handlers.                         *)
ShowPi  == /\ keyboard_blocked' = FALSE
           /\ videoSource' = IF opts.v4 THEN "pi" ELSE videoSource
ShowBmw == /\ keyboard_blocked' = TRUE
           /\ videoSource' = IF opts.v4 THEN "bmw" ELSE videoSource

ForgetTimer ==   \* mutant: mainloop_timeout_remove is missing
  /\ timers' = timers
  /\ cdc_info_tag' = -1

(* Removing the timer whose tag is stored; a stale tag removes nothing.    *)
StopTimer ==
  /\ timers' = timers \ {cdc_info_tag}
  /\ cdc_info_tag' = -1

(* mainloop_timeout_add never hands out a tag twice; only the tags that    *)
(* are still stored somewhere can be told from a new one.                  *)
NewTag == CHOOSE t \in TimerTag : t \notin timers \cup {cdc_info_tag}

(* A start-playing without a tag, which no status message supersedes.      *)
StartPending(list) ==
  \E i \in DOMAIN list : list[i].msg = "start-playing" /\ list[i].tag = NoTag

WantsPlay == wanted' = "play"
WantsStop(list) == wanted' = IF StartPending(list) THEN "race" ELSE "stop"
-----------------------------------------------------------------------------
(* Messages of the radio.                                                  *)

(* is_cdc_message and enter_pi_screen, then cdchanger_announce.            *)
CdcScreen ==
  /\ Reads("cdc-screen")
  /\ cdc_announce' = IF Cdc THEN FALSE ELSE cdc_announce
  /\ IF Cdc THEN ShowPi ELSE UNCHANGED screen
  /\ IF Cdc /\ ~playing
     THEN /\ playing' = TRUE
          /\ Finish(SendInfoReq(pkt_list, TRUE))
          /\ WantsPlay
     ELSE /\ Finish(Announced(pkt_list))
          /\ UNCHANGED <<playing, wanted>>
  /\ UNCHANGED <<cdc_info_tag, cdc_timeouts, timers>>

(* ibus_handle_aux and ibus_handle_tape: the Pi's own input, or another.   *)
OtherScreen ==
  \E source \in {"aux", "tape"} :
    /\ Reads(IF source = "aux" THEN "aux-screen" ELSE "tape-screen")
    /\ cdc_announce' = (cdc_announce /\ ~Cdc)
    /\ Finish(Announced(pkt_list))
    /\ CASE opts.input = source -> ShowPi
         [] opts.input = "none" -> UNCHANGED screen
         [] OTHER               -> ShowBmw
    /\ UNCHANGED <<playing, cdc_info_tag, cdc_timeouts, timers, wanted>>

(* ibus_handle_outsidekey, for a message of the radio or of the car.       *)
MainMenu ==
  /\ Reads("main-menu")
  /\ cdc_announce' = (cdc_announce /\ ~Cdc)
  /\ Finish(Announced(pkt_list))
  /\ IF opts.input = "none" THEN UNCHANGED screen ELSE ShowBmw
  /\ UNCHANGED <<playing, cdc_info_tag, cdc_timeouts, timers, wanted>>

(* cdchanger_handle_poll.                                                  *)
Poll ==
  /\ Reads("cd-poll")
  /\ cdc_announce' = (cdc_announce /\ ~Cdc)
  /\ Finish(IF Cdc THEN Send(Announced(pkt_list), "im-here") ELSE pkt_list)
  /\ UNCHANGED <<playing, cdc_info_tag, cdc_timeouts, timers, screen, wanted>>

(* cdchanger_handle_inforeq.                                               *)
InfoReq ==
  /\ Reads("cd-info")
  /\ cdc_announce' = (cdc_announce /\ ~Cdc)
  /\ IF Cdc
     THEN /\ Finish(SendInfoReq(Announced(pkt_list), playing))
          /\ cdc_timeouts' = 0
          /\ IF opts.interval
             THEN /\ timers' = (timers \ {cdc_info_tag}) \cup {NewTag}
                  /\ cdc_info_tag' = NewTag
             ELSE UNCHANGED <<timers, cdc_info_tag>>
     ELSE /\ Finish(pkt_list)
          /\ UNCHANGED <<cdc_timeouts, timers, cdc_info_tag>>
  /\ UNCHANGED <<playing, screen, wanted>>

(* cdchanger_handle_stop.                                                  *)
Stop ==
  /\ Reads("cd-stop")
  /\ cdc_announce' = (cdc_announce /\ ~Cdc)
  /\ IF Cdc
     THEN LET list == Replace(Announced(pkt_list), "not-playing", TagCdc)
          IN  /\ Finish(list)
              /\ WantsStop(list)
              /\ playing' = FALSE
              /\ StopTimer
     ELSE /\ Finish(pkt_list)
          /\ UNCHANGED <<wanted, playing, timers, cdc_info_tag>>
  /\ UNCHANGED <<cdc_timeouts, screen>>

(* cdchanger_handle_pause: the timer stays.                                *)
Pause ==
  /\ Reads("cd-pause")
  /\ cdc_announce' = (cdc_announce /\ ~Cdc)
  /\ IF Cdc
     THEN LET list == Replace(Announced(pkt_list), "pause-playing", TagCdc)
          IN  /\ Finish(list)
              /\ WantsStop(list)
              /\ playing' = FALSE
     ELSE /\ Finish(pkt_list)
          /\ UNCHANGED <<wanted, playing>>
  /\ UNCHANGED <<cdc_info_tag, cdc_timeouts, timers, screen>>

(* cdchanger_handle_start (cd-start, cd-next, cd-prev) and                 *)
(* cdchanger_handle_diskchange, which leaves "playing" to the echo.        *)
Start ==
  \E m \in {"cd-start", "cd-next", "cd-change"} :
    /\ Reads(m)
    /\ cdc_announce' = (cdc_announce /\ ~Cdc)
    /\ IF Cdc
       THEN /\ Finish(Send(Announced(pkt_list), "start-playing"))
            /\ playing' = (playing \/ m # "cd-change")
            /\ WantsPlay
       ELSE /\ Finish(pkt_list)
            /\ UNCHANGED <<playing, wanted>>
    /\ UNCHANGED <<cdc_info_tag, cdc_timeouts, timers, screen>>

(* Any other message of the radio.                                         *)
RadioText ==
  /\ Reads("radio-text")
  /\ cdc_announce' = (cdc_announce /\ ~Cdc)
  /\ Finish(Announced(pkt_list))
  /\ UNCHANGED <<playing, cdc_info_tag, cdc_timeouts, timers, screen, wanted>>
-----------------------------------------------------------------------------
(* Messages of the rest of the car, and the program's own.                 *)

(* ibus_handle_immobilized: the key was turned off.                        *)
Immobilized ==
  /\ Reads("immobilized")
  /\ Finish(pkt_list)
  /\ IF opts.input = "none" THEN UNCHANGED <<timers, cdc_info_tag>> ELSE StopTimer
  /\ UNCHANGED <<playing, cdc_announce, cdc_timeouts, screen, wanted>>

OutsideKey ==
  /\ Reads("outside-key")
  /\ Finish(pkt_list)
  /\ IF opts.input = "none" THEN UNCHANGED screen ELSE ShowBmw
  /\ UNCHANGED <<state, wanted>>

PlayingIgnoringStart(m) ==   \* mutant: cdchanger_handle_playing does nothing
  playing /\ ~(Cdc /\ m \in {"not-playing", "pause-playing"})

PlayingAfter(m) ==
  IF ~Cdc THEN playing
  ELSE IF m = "start-playing" THEN TRUE
  ELSE IF m \in {"not-playing", "pause-playing"} THEN FALSE
  ELSE playing

(* cdchanger_handle_stopped and cdchanger_handle_playing: "for status      *)
(* tracking", from whatever CD changer message is heard.                   *)
HearOwn ==
  \E m \in Own :
    /\ Reads(m)
    /\ Finish(pkt_list)
    /\ playing' = PlayingAfter(m)
    /\ UNCHANGED <<cdc_announce, cdc_info_tag, cdc_timeouts, timers, screen,
                   wanted>>
-----------------------------------------------------------------------------
(* The bus and the timers.                                                 *)

Statuses == {"not-playing", "start-playing", "pause-playing"}

(* What was written reaches the bus.  It is heard intact, or recovered     *)
(* behind damaged bytes, or damaged; in the last case the radio may have   *)
(* understood it.                                                          *)
Arrives ==
  /\ wire # <<>>
  /\ wire' = Tail(wire)
  /\ LET m == Head(wire)
     IN  \/ \E recovered \in BOOLEAN :
              /\ rx' = Append(rx, [msg |-> m, recovered |-> recovered])
              /\ radio_status' = IF m \in Statuses THEN m ELSE radio_status
         \/ /\ rx' = rx
            /\ radio_status' \in IF m \in Statuses THEN {m, radio_status}
                                                   ELSE {radio_status}
  /\ UNCHANGED <<session, pkt_list, state, screen, bytes_read, said, wanted>>

(* ibus_50ms_tick.  partial: part of a message was read (bufPos # 0), so    *)
(* bytes_read is not 0 and is not cleared.  The message of the last tick   *)
(* has been over for 30ms, unless a callback blocked.  The port is one     *)
(* that has echoed before (SendQueue has the broken ones).                 *)
Tick(idle, partial) ==
  LET service == ServiceQueue(pkt_list, TRUE, ~bytes_read /\ ~partial, idle)
  IN  /\ partial => rx \o wire # <<>>
      /\ Prompt => wire = <<>> /\ (rx # <<>> => partial)
      /\ service.written = <<>> \/ Len(wire) + Len(rx) < MaxRx
      /\ pkt_list' = service.list
      /\ wire' = wire \o service.written
      /\ bytes_read' = partial
      /\ UNCHANGED <<session, state, screen, rx, said, radio_status, wanted>>

Expired(n) == n >= MaxTimeouts

(* A transmission of m that the program has not taken notice of.           *)
InFlight(m) ==
  \/ \E i \in DOMAIN wire : wire[i] = m
  \/ \E i \in DOMAIN rx : rx[i].msg = m

(* The program is about to report that it does not play, in front of the   *)
(* start that the radio asked for, and the echo that is under way will     *)
(* remove that start.                                                      *)
OverridesStart == wanted = "play" /\ ~playing /\ InFlight("start-playing")

(* cdchanger_interval_timeout: the main loop may call it between the       *)
(* write() of a status and its echo, in the same pass even, and with input *)
(* that came in after select().  A callback that returns 0 is removed by   *)
(* the main loop; cdc_info_tag keeps the tag.                              *)
IntervalTimeout ==
  \E t \in timers :
    /\ cdc_timeouts' = cdc_timeouts + 1
    /\ IF Expired(cdc_timeouts')
       THEN /\ timers' = timers \ {t}
            /\ UNCHANGED <<pkt_list, cdc_announce, wanted>>
       ELSE /\ pkt_list' = SendInfoReq(pkt_list, playing)
            /\ cdc_announce' = FALSE
            /\ wanted' = IF OverridesStart THEN "race" ELSE wanted
            /\ UNCHANGED timers
    /\ UNCHANGED <<session, playing, cdc_info_tag, screen, bytes_read, wire, rx,
                   said, radio_status>>

(* The radio and the rest of the car use the bus when it is free; a        *)
(* collision damages a message of the program, and theirs is repeated.     *)
Car(m) ==
  /\ said < MaxRadio
  /\ Len(rx) < MaxRx
  /\ wire = <<>>
  /\ said' = said + 1
  /\ rx' = Append(rx, [msg |-> m, recovered |-> FALSE])
  /\ UNCHANGED <<session, pkt_list, state, screen, bytes_read, wire, radio_status,
                 wanted>>
-----------------------------------------------------------------------------
Handle ==
  \/ CdcScreen \/ OtherScreen \/ MainMenu \/ Poll \/ InfoReq \/ Stop \/ Pause
  \/ Start \/ RadioText \/ Immobilized \/ OutsideKey \/ HearOwn

Next ==
  \/ Handle
  \/ \E idle, partial \in BOOLEAN : Tick(idle, partial)
  \/ Arrives
  \/ IntervalTimeout
  \/ \E m \in RadioMsg : Car(m)

Spec == Init /\ [][Next]_vars

(* Input is read until there is none, the timers run, the bus falls idle   *)
(* again and again, and a transmission that is repeated is eventually      *)
(* heard intact.                                                           *)
Heard == Arrives /\ rx' # rx /\ ~rx'[Len(rx')].recovered

Fairness ==
  /\ []<>(rx = <<>>)
  /\ WF_vars(\E partial \in BOOLEAN : Tick(TRUE, partial))
  /\ WF_vars(Arrives)
  /\ SF_vars(Heard)
  /\ WF_vars(IntervalTimeout)

FairSpec == Spec /\ Fairness
-----------------------------------------------------------------------------
TypeOK ==
  /\ setting \in Settings /\ opts \in Option
  /\ pkt_list \in Seq(Packet)
  /\ {playing, cdc_announce, keyboard_blocked, bytes_read} \subseteq BOOLEAN
  /\ cdc_info_tag \in TimerTag \cup {-1}
  /\ cdc_timeouts \in 0..MaxTimeouts
  /\ videoSource \in {"bmw", "pi"}
  /\ timers \subseteq TimerTag
  /\ wire \in Seq(Own)
  /\ rx \in Seq([msg : FromRadio \cup FromCar \cup Own, recovered : BOOLEAN])
  /\ said \in 0..MaxRadio
  /\ radio_status \in Statuses \cup {"none"}
  /\ wanted \in {"none", "play", "stop", "race"}

(* A registered interval timer is always the one whose tag is stored:      *)
(* stop, immobilized and the next cd-info can remove it, however the timer *)
(* removed itself or was replaced before.                                  *)
NoOrphanTimer == timers \subseteq {cdc_info_tag}

(* An interval timer that may still send has sent fewer than MaxTimeouts   *)
(* answers since the radio last asked.                                     *)
TimerExpires == timers # {} => cdc_timeouts < MaxTimeouts

(* Together: every interval timer can be stopped and will end by itself.   *)
TimerSound == NoOrphanTimer /\ TimerExpires

(* When everything that was said has been read and everything queued has   *)
(* been delivered, the program and the radio agree whether it plays,       *)
(* though timers may queue, withdraw and send in any order while a status  *)
(* is on the wire.  If a callback blocks, a status may be sent again       *)
(* before its echo was read, and the second echo then removes a newer      *)
(* packet with the same bytes.                                             *)
Quiet == rx = <<>> /\ wire = <<>> /\ pkt_list = <<>>
StatusAgrees ==
  Quiet /\ Prompt /\ radio_status # "none" =>
    (playing <=> radio_status = "start-playing")

(* The last command of the radio is what the bus settles on, whatever was  *)
(* queued, repeated or half delivered when it came.  The code loses it in  *)
(* two races that wanted = "race" leaves out: a start was still queued     *)
(* when the stop came (SyncWaitsForEcho in SendQueue), and the interval    *)
(* timer ran between a start and its echo (OverridesStart).                *)
CommandWins ==
  Quiet /\ Prompt => /\ wanted = "play" => radio_status = "start-playing"
                     /\ wanted = "stop" => radio_status \in Statuses \ {"start-playing"}

(* When the car falls silent, so does the program ("Avoid battery drain    *)
(* and staying awake").                                                    *)
FallsSilent == <>[](timers = {} /\ Quiet)
=============================================================================
