---------------------------- MODULE Housekeeping ----------------------------
(***************************************************************************)
(* What the program does on its own (src/rpi/ibus.c): it asks for time and *)
(* date, warns of hot coolant and turns the Pi off when the bus is idle.   *)
(* Composed with the transmit queue (PacketQueue), both ticks and the bus, *)
(* for these work on one another: an answer withdraws the question that is *)
(* still queued, and the echo of every question is a byte on the bus that  *)
(* puts off the idle timeout.                                              *)
(*                                                                         *)
(* Seconds are counted by the 1s tick; between two of them the 50ms tick   *)
(* runs.  The port is one that has echoed before (SendQueue has the        *)
(* others), and this instance sends nothing else (CdChanger does).         *)
(***************************************************************************)
EXTENDS PacketQueue, TimeFlags

CONSTANTS
  Period,       \* seconds of a round of ibus_1s_tick (30)
  AskAt,        \* the seconds of it at which questions are asked ({8, 23})
  MaxRequests,  \* questions beyond the first (3)
  IdleTimeout,  \* seconds, option -t (300)
  Warning,      \* degrees, option -w (300)
  Coolant,      \* the coolant temperatures of this instance, as the two
                \* bytes of the message
  MaxSaid,      \* bound: messages of the car
  MaxRx         \* bound: messages waiting in the serial port's input

AskTime == "ask-time"
AskDate == "ask-date"
Flash   == "flash-leds"

ASSUME HousekeepingAssumption ==
  /\ {Period, IdleTimeout, MaxRx} \subseteq Nat \ {0}
  /\ AskAt \subseteq 0 .. Period - 1
  /\ {MaxRequests, MaxSaid} \subseteq Nat
  /\ Warning \in Int
  /\ Coolant \subseteq [low : 0..255, high : 0..255]
  /\ Msg = {AskTime, AskDate, Flash}

VARIABLES
  has_input,           \* FALSE: started with -a 9, and only listens
  pkt_list,                              \* the transmit list
  num_time_requests, num_date_requests,  \* struct ibus
  read_msgs,           \* struct ibus: TRUE if it is not 0
  high_coolant_count,  \* struct ibus
  second,              \* the static counter of ibus_1s_tick
  idle,                \* whole seconds since last_byte
  bytes_read,          \* TRUE if something was read since the tick cleared it
  on,                  \* power_off was not called
  ticked,              \* the 50ms tick has run since the 1s tick
  rx,                  \* unread input: messages, and Noise for damaged bytes
  said,                \* number of messages the car has sent
  readings,            \* history: the temperatures the program has read
  flashed              \* history: the bus has carried the command intact

clock    == <<have_time, have_date, num_time_requests, num_date_requests>>
coolant  == <<high_coolant_count, readings>>
schedule == <<second, ticked>>
line     == <<idle, bytes_read>>
vars     == <<has_input, pkt_list, clock, read_msgs, coolant, schedule, line, on,
              rx, said, flashed>>

Warned == 999
Noise  == [kind |-> "noise", temp |-> 0]
Message(kind) == [kind |-> kind, temp |-> 0]

Init ==
  /\ has_input \in BOOLEAN
  /\ pkt_list = <<>>
  /\ have_time = FALSE /\ have_date = FALSE
  /\ num_time_requests = 0 /\ num_date_requests = 0
  /\ read_msgs = FALSE
  /\ high_coolant_count = 0 /\ readings = <<>>
  /\ second = 0 /\ ticked = FALSE
  /\ idle = 0 /\ bytes_read = FALSE
  /\ on = TRUE
  /\ rx = <<>> /\ said = 0
  /\ flashed = FALSE
-----------------------------------------------------------------------------
(* Messages.                                                               *)

FinishHead(list) ==   \* mutant: any message is taken for the head's echo
  pkt_list' = IF list = <<>> THEN list ELSE Tail(list)

(* The end of ibus_handle_message, on the list as the handler left it.     *)
Finish(list) == pkt_list' = RemoveFromQueue(list, Head(rx).kind)

AnswerOnly(list, tag) == list   \* mutant: the question stays queued
Answered(list, tag) == RemoveTag(list, tag)

(* ibus_handle_time and ibus_handle_date; Clock has what they do with it.  *)
HandleTime ==
  /\ Head(rx).kind = "time"
  /\ Finish(IF has_input /\ ~have_time THEN Answered(pkt_list, TagTime) ELSE pkt_list)
  /\ have_time' = (have_time \/ has_input)
  /\ UNCHANGED <<have_date, num_time_requests, num_date_requests, coolant, flashed>>

HandleDate ==
  /\ Head(rx).kind = "date"
  /\ Finish(IF has_input /\ ~have_date THEN Answered(pkt_list, TagDate) ELSE pkt_list)
  /\ have_date' = (have_date \/ has_input)
  /\ UNCHANGED <<have_time, num_time_requests, num_date_requests, coolant, flashed>>

(* The sum of a signed byte and a shifted one, kept in 16 bits.            *)
SignedByte(b) == IF b >= 128 THEN b - 256 ELSE b
Int16(n) == ((n + 32768) % 65536) - 32768
CoolantTemp(reading) == Int16(reading.high * 256 + SignedByte(reading.low))
Temp == {CoolantTemp(reading) : reading \in Coolant}

CountForever(count) == count >= 0   \* mutant: one hot reading is enough
Again(count) == count >= 1

(* ibus_handle_temps.                                                      *)
HandleTemps ==
  /\ Head(rx).kind = "temps"
  /\ UNCHANGED <<clock, flashed>>
  /\ readings' = Append(readings, Head(rx).temp)
  /\ IF ~has_input \/ high_coolant_count = Warned
     THEN Finish(pkt_list) /\ UNCHANGED high_coolant_count
     ELSE IF Head(rx).temp < Warning
     THEN Finish(pkt_list) /\ high_coolant_count' = 0
     ELSE IF Again(high_coolant_count)
     THEN Finish(Replace(pkt_list, Flash, TagLeds)) /\ high_coolant_count' = Warned
     ELSE Finish(pkt_list) /\ high_coolant_count' = high_coolant_count + 1

HandleEcho ==
  /\ Head(rx).kind \in Msg
  /\ Finish(pkt_list)
  /\ flashed' = (flashed \/ Head(rx).kind = Flash)
  /\ UNCHANGED <<clock, coolant>>

(* ibus_read.                                                              *)
Read ==
  /\ on
  /\ rx # <<>>
  /\ rx' = Tail(rx)
  /\ idle' = 0
  /\ bytes_read' = TRUE
  /\ IF Head(rx) = Noise
     THEN UNCHANGED <<pkt_list, clock, read_msgs, coolant, flashed>>
     ELSE /\ HandleTime \/ HandleDate \/ HandleTemps \/ HandleEcho
          /\ read_msgs' = TRUE
  /\ UNCHANGED <<has_input, schedule, on, said>>
-----------------------------------------------------------------------------
(* The ticks.                                                              *)

(* ibus_50ms_tick.  The bus gives back what is written intact, damaged or  *)
(* not at all.                                                             *)
Heard == {"nothing", "intact", "damaged"}

Tick(line_idle, heard) ==
  LET service == ServiceQueue(pkt_list, TRUE, ~bytes_read, line_idle)
  IN  /\ on
      /\ heard = "nothing" \/ (service.written # <<>> /\ Len(rx) < MaxRx)
      /\ pkt_list' = service.list
      /\ rx' = CASE heard = "nothing" -> rx
                 [] heard = "intact"  -> Append(rx, Message(service.written[1]))
                 [] heard = "damaged" -> Append(rx, Noise)
      /\ bytes_read' = FALSE
      /\ ticked' = TRUE
      /\ UNCHANGED <<has_input, clock, read_msgs, coolant, second, idle, on, said,
                     flashed>>

AskedUncounted(n) == n   \* mutant: the questions are not counted
Asked(n) == n + 1

Due(have, n) == ~have /\ n <= MaxRequests

(* The questions of ibus_1s_tick.  They are only asked if some message was *)
(* ever received.                                                          *)
AskQuestions(now) ==
  LET asks == now \in AskAt /\ read_msgs /\ has_input
      time == asks /\ Due(have_time, num_time_requests)
      date == asks /\ Due(have_date, num_date_requests)
      list == IF time THEN Replace(pkt_list, AskTime, TagTime) ELSE pkt_list
  IN  /\ pkt_list' = IF date THEN Replace(list, AskDate, TagDate) ELSE list
      /\ num_time_requests' = IF time THEN Asked(num_time_requests)
                                      ELSE num_time_requests
      /\ num_date_requests' = IF date THEN Asked(num_date_requests)
                                      ELSE num_date_requests
      /\ UNCHANGED <<have_time, have_date>>

(* ibus_1s_tick.  power_off may return before the Pi is off; as the log is *)
(* closed then, the program does not survive its next line of log.         *)
Second ==
  /\ on
  /\ ticked
  /\ ticked' = FALSE
  /\ second' = (second + 1) % Period
  /\ AskQuestions(second')
  /\ idle' = IF idle <= IdleTimeout THEN idle + 1 ELSE idle
  /\ on' = (idle' <= IdleTimeout)
  /\ UNCHANGED <<has_input, read_msgs, coolant, bytes_read, rx, said, flashed>>

Off ==
  /\ ~on
  /\ UNCHANGED vars

(* The car.                                                                *)
Says(m) ==
  /\ on
  /\ said < MaxSaid
  /\ Len(rx) < MaxRx
  /\ said' = said + 1
  /\ rx' = Append(rx, m)
  /\ UNCHANGED <<has_input, pkt_list, clock, read_msgs, coolant, schedule, line, on,
                 flashed>>

CarMessage == {Message(kind) : kind \in {"time", "date"}}
  \cup {[kind |-> "temps", temp |-> temp] : temp \in Temp}

Next ==
  \/ Read
  \/ \E line_idle \in BOOLEAN, heard \in Heard : Tick(line_idle, heard)
  \/ Second
  \/ Off
  \/ \E m \in CarMessage : Says(m)

Spec == Init /\ [][Next]_vars

(* Time passes, and a transmission that is repeated finds the bus idle and *)
(* comes back intact in the end.                                           *)
Fairness ==
  /\ WF_vars(\E heard \in Heard : Tick(TRUE, heard))
  /\ WF_vars(Second)
  /\ SF_vars(Tick(TRUE, "intact"))

FairSpec == Spec /\ Fairness
-----------------------------------------------------------------------------
TypeOK ==
  /\ pkt_list \in Seq(Packet)
  /\ {has_input, have_time, have_date, read_msgs, bytes_read, on, ticked, flashed}
       \subseteq BOOLEAN
  /\ num_time_requests \in 0 .. MaxRequests + 1
  /\ num_date_requests \in 0 .. MaxRequests + 1
  /\ high_coolant_count \in {0, 1, Warned}
  /\ second \in 0 .. Period - 1 /\ idle \in 0 .. IdleTimeout + 1
  /\ rx \in Seq(CarMessage \cup {Noise} \cup {Message(m) : m \in Msg})
  /\ said \in 0..MaxSaid /\ readings \in Seq(Temp)

(* A question that was answered is neither queued nor asked again, though  *)
(* it may be under way or be repeated when the answer comes.               *)
NoQuestionAfterAnswer ==
  /\ have_time => Tagged(pkt_list, TagTime) = {}
  /\ have_date => Tagged(pkt_list, TagDate) = {}

(* Two readings in a row were at the limit or above it.                    *)
HotPair(temps) ==
  \E i \in 2..Len(temps) : temps[i - 1] >= Warning /\ temps[i] >= Warning

WarningQueued == Tagged(pkt_list, TagLeds) # {}

(* The driver is warned exactly when two readings in a row were hot for    *)
(* the first time, and never again, however many other messages came       *)
(* between and after them and whatever was read later.                     *)
WarnsOnce ==
  [][~WarningQueued /\ WarningQueued'
       <=> has_input /\ ~HotPair(readings) /\ HotPair(readings')]_vars

(* The command that warns stays queued, whatever is read, answered or      *)
(* withdrawn meanwhile, until its own echo shows that the bus carried it.  *)
WarningKept == has_input /\ HotPair(readings) => flashed \/ WarningQueued

(* When the car falls silent the Pi is turned off: the program's own       *)
(* questions, repeated and heard, do not keep it awake for ever.  (They    *)
(* would if their echoes were damaged for ever: see Fairness.)             *)
TurnsOff == <>~on
=============================================================================
