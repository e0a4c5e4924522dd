# A TLA+ model of pibus

pibus connects a Raspberry Pi to the I-Bus of a BMW: the Pi pretends to be a CD
changer, turns the radio's and the steering wheel's buttons into key presses and
switches the screen between the car and the Pi. The repository has two programs:

- `src/rpi`: the program on the Pi, one single-threaded process around a `select`
  loop;
- `src/attiny2313a`: the firmware of the microcontroller on the interface board
  of versions 2 and 3, two interrupt handlers around a `main` that sleeps.

This directory holds TLA+ modules of the parts whose behaviour is hard to test,
TLC configurations that check them on small instances, and TLAPS proofs of what
holds for every instance.

## 1. The system

### Components, their state and their operations

| component | source | state | operations |
|---|---|---|---|
| transmit queue | `rpi/ibus-send.c`, `slist.c` | `pkt_list` (bytes, countdown, sync, tag, transmit_count), `port_good` | `ibus_send`, `ibus_send_with_tag`, `ibus_remove_tag_from_queue`, `ibus_remove_from_queue`, `ibus_service_queue` |
| serial port and ticks | `rpi/ibus.c` | `ifd`, `ifd_tag`, `bytes_read`, counters | `ibus_init_serial_port`, `ibus_50ms_tick`, `ibus_1s_tick` |
| receiver | `rpi/ibus.c` | `buf`, `bufPos`, `last_byte` | `ibus_read`, `ibus_discard_receive_buffer`, `ibus_discard_bytes` |
| CD changer | `rpi/ibus.c` | `playing`, `cdc_announce`, `cdc_info_tag`, `cdc_timeouts` | the `cdchanger_*` handlers, `enter_pi_screen` |
| screen and keys | `rpi/ibus.c`, `keyboard.c` | `keyboard_blocked`, `videoSource`, relay and video pins | `ibus_handle_phone`, `_ike_sensor`, `_outsidekey`, `_aux`, `_tape`, key handlers |
| clock | `rpi/ibus.c` | `have_time`, `have_date`, `set_gps_time`, `datetime`, request counters | `ibus_handle_time`, `_date`, `_gps`, requests of the 1s tick |
| coolant warning | `rpi/ibus.c` | `coolant_temp`, `high_coolant_count` | `ibus_handle_temps` |
| main loop | `rpi/mainloop.c` | timer list, descriptor list, `checked` flags | `mainloop`, `mainloop_timeout_add/remove`, `mainloop_input_add/remove` |
| TCP server | `rpi/server.c` | connections with a partial command | `server_accept`, `server_read`, `server_disconnect`, `server_send_hex` |
| idle power off | `rpi/ibus.c` | `last_byte`, `read_msgs` | `ibus_1s_tick`, `power_off` |
| log, GPIO, keyboard, options | `log.c`, `annotate.c`, `gpio.c`, `keyboard.c`, `pibus.c` | files, registers | input and output only |
| ATtiny firmware | `attiny2313a/ibus.c` | receive buffer, LED state, idle timer, video source | receive and timer interrupts, `check_packet` |

### How they interact

Everything in the Pi program happens in callbacks of the main loop, one at a
time. A pass of the loop first calls the callbacks of the descriptors that are
readable (`ibus_read`, `server_accept`, `server_read`), then those of the timers
that are due (50ms tick, 1s tick, the CD changer's interval timer). What makes it
hard is that the *bus* is concurrent: the program hears its own transmissions, in
bus order, mixed with those of the car, after a delay, sometimes damaged. A
message handler changes the transmit queue, the CD changer's status and the
timers; the tick transmits, retries, and reopens the port.

```
 radio, car --> bus --> ibus_read --> ibus_handle_message --> handlers --> pkt_list
                 ^                           |                                |
                 |                           +--> ibus_remove_from_queue ---->|
                 +------- write() <------ ibus_service_queue <----------------+
                                           (50ms tick, retries, give up)
```

### What is hard, and what makes a component correct

- *Transmit queue*: an urgent packet overtakes one that is on the bus, echoes
  are lost, a client replaces a packet that has been sent, `open()` fails while
  the port is reopened. Correct: one packet per tag, nothing but the head (or the
  one it overtook) on the bus, nothing lost until its echo is heard, the port
  reopened only for a reason, and never left closed.
- *CD changer*: three sources of truth for "playing" (commands, the screen's
  text, echoes), answers under way when the next command comes, a timer that
  can be removed by four paths. Correct: once things settle the program and the
  radio agree and the last command has won; no timer is orphaned; the program
  falls silent when the car does.
- *Receiver*: resynchronisation after damage, runts, gaps measured when a byte
  is read instead of when it arrived. Correct: what is handed on is a stretch of
  the bus, in order and once; an intact message that can be recognised is handed
  on; the program never transmits within another's message.
- *Screen and keys*: the radio, the phone button and the gear change the picture
  in any order. On boards of version 4 the Pi switches it; on older ones the
  firmware does, while the Pi still decides what becomes a key press, and neither
  tells the other what it understood. Correct: the picture is the selected one, or
  the camera; the keys belong to the Pi while its picture is selected.
- *Clock*: time and date come in two messages, as a text in the car's language, and
  GPS corrects minutes and seconds. Correct: the clock is the car's, and GPS moves
  it little.
- *Housekeeping* (questions, coolant, idle time): an answer overtakes the question
  that is still queued, a warning shares the queue with what is withdrawn from it,
  and every echo of the program's own packets counts as life on the bus.
- *Main loop*: callbacks add and free the records the loop is walking over.
- *Server*: lines arrive in pieces and from several clients, which may leave, or not
  read what they are told, at any point. Correct: what is executed is what was sent,
  and every line counts.
- *Firmware*: two interrupts share a buffer and counters, and a late timer interrupt
  cuts a message.

## 2. The modules

| module | models |
|---|---|
| `PacketQueue` | the list operations of `ibus-send.c` as operators on sequences of packets |
| `Outbox` | abstract specification: what the transmit queue promises its clients |
| `SendQueue` | the transmit queue as a state machine, with ticks, echoes, losses and the reopening of the port; refines `Outbox` |
| `CdChanger` | the CD changer handlers composed with the queue, the tick, the interval timer and the serial input |
| `Receiver` | how bytes become messages: framing, both recoveries, the gaps, `bytes_read` |
| `MainLoop` | one pass of the main loop step by step, with the callbacks that change its two lists, and the server's connections |
| `Picture` | abstract specification: the picture that both interface boards promise |
| `Attiny` | the firmware: receive interrupt, `check_packet`, timer interrupt; refines `Picture` |
| `Screen` | the handlers of the Pi program that change the picture, block the keyboard or generate keys |
| `Cabin` | `Screen` with the serial input and the firmware of older boards, seen by the driver; refines `Picture` |
| `TimeFlags` | `have_time` and `have_date`, which `Clock` and `Housekeeping` share |
| `Clock` | time, date and GPS messages and the clock of the Pi |
| `Housekeeping` | questions, coolant warning and idle timeout, on the transmit queue, with both ticks and the bus |
| `Server` | the TCP server and its clients: lines, commands, announcements |
| `MCSendQueue`, `MCCdChanger`, `MCReceiver`, `MCMainLoop`, `MCAttiny`, `MCCabin`, `MCClock`, `MCHousekeeping`, `MCServer` | small instances |
| `PacketQueueProofs` | what each list operation leaves in the list: the facts the next three modules share |
| `SendQueueProofs` | the invariants of `SendQueue`, and that it implements `Outbox` |
| `CdChangerProofs` | the invariants of `CdChanger` |
| `HousekeepingProofs` | the invariants of `Housekeeping`, and `WarnsOnce`; `SetFromCar` and `GpsAdjusts` of `Clock` |
| `ReceiverProofs` | the invariants of `Receiver`, and that bytes are used once and intact messages delivered |
| `MainLoopProofs` | the invariants of `MainLoop` and of `Server` |
| `CabinProofs` | the invariants of `Cabin`, and that it implements `Picture` |
| `AttinyProofs` | the invariants of `Attiny`, and that it implements `Picture` |

### PacketQueue and SendQueue

A packet is a record of the fields of `struct packet`; its bytes are a member of
`Msg`. `ServiceQueue` is `ibus_service_queue` with its three tests of the line
(CTS, UART pin, FIFO) abstracted to the argument `idle`; it returns the new list,
what was written and `*giveup`. (With `-g 0` and a closed port, `get_cts` returns a bit
of a variable that was never set, `ibus-send.c:39`; either answer is one of `idle`, but
that the line then falls idle again and again is an assumption.) Two facts of the code shape the model: the loop
looks at the head alone (`list = NULL`), and on a give-up it returns before the
countdown is set, so the head is sent again on the next tick that may send.
`transmit_count` is counted up to one above `MaxAttempts`, which is all it is
compared with.

The actions of `SendQueue` are the calls of the clients (`Post`, `Supersede`,
`Withdraw`), the 50ms tick (`Tick`, with `Reopen` or `Written` for what happens at
the port) and the arrival of an echo (`Echo`). `wire` holds the echoes that are on
their way; a written message that is not appended to `wire` was damaged. `silent`
is a history variable. `can_send` of `ibus_50ms_tick` is an argument: the car may
have transmitted since the last tick or not.

### CdChanger

One action per entry of the `events` table or group of entries with the same
handler. Every handler ends in `Finish`, the end of `ibus_handle_message`:
`ibus_remove_from_queue` on the list *as the handler left it*, unless the message
was recovered from a damaged stretch. `bytes_read` decides whether the tick may send,
as in the code.

A transmission and its echo are two steps. `write()` returns at once (the `fsync` at
`ibus-send.c:135` does not wait for a tty), so `Tick` puts what it wrote on `wire`, and
some 14 ms later `Arrives` takes it from there: intact, recovered or damaged. `rx` is
the serial input: intact messages, the program's own among them, in bus order, that
are not read yet. In between the other timer may run, `cdchanger_interval_timeout`, in
the same pass of the loop even, and so may it while input waits that came in after
`select`: `IntervalTimeout` has no guard but that the timer is registered.

An instance explores several *settings*: options, what the radio says and how often,
and whether the loop is prompt. With a prompt loop a 50ms *tick* finds the echo of
the last one read, since it is over after 14 ms and reading it takes no time, and what
else came in read, too, but for a message that is just coming in (`partial`). In the
other settings a callback (a log flush, a write to a slow client) may stall the loop
longer than that, and ticks and messages interleave freely as well.

`wanted` is history, the last command of the radio; it becomes `"race"` in the two
cases in which the code loses that command: a stop comes while a start is still queued
(`WantsStop`; the start has no tag and is not superseded), or the interval timer runs
between a start and its echo while the program does not play yet (`OverridesStart`; see
Findings).

### Receiver

One action reads one byte (`Read`, the body of the loop in `ibus_read`); `Tick` is
the part of the 50ms tick that concerns the buffer; `Transmit` puts a message on
the bus, intact or with a byte changed, lost, or the end missing. The two recoveries
(`Discarded`, `Framed`) differ as they do in the code: after a gap a frame needs four
bytes and the search stops when fewer than five are left; after a bad checksum any
length byte is accepted, and four bytes are enough. They are recursive functions of
the number of bytes discarded, defined for the numbers the loops can reach: for the
run of a recovery, those that leave four bytes. That they stay within the buffer (the
"bug?" of `ibus_discard_bytes`, `bufPos < 0`, never happens) is checked by TLC with
every application, and proved (`RunInOrder`, `DiscardedInOrder`). A byte in the
buffer carries its position in the input: history, for `OncePerByte`. In
a setting that is not prompt, time may pass between any two bytes, which is what a callback that
blocks the loop looks like from here, and transmissions may follow one another
without the gap being noticed.

### MainLoop

`pc` is the place in the loop: `Select`, then one `CheckInput` per record, then
`StartTimers`, and `SkipTimer` or `CallTimer` and `TimerReturned` for each timer. A
callback is part of the step that calls it. A pointer is the tag of the record it
points to, so that it dangles when no record of the list has the tag. The saved
`next` pointer of the timer walk is the interesting one: the 50ms tick may free the
interval timer, through a cd-stop that it recovers from the receive buffer. It is
safe because new timers are *prepended*: the interval timer comes before the two
ticks in the walk, so `next` never points to it while a tick runs. The descriptor
walk has no such pointer; it starts again from the head and relies on `checked`.

Descriptors are the operating system's: the lowest free number is handed out, so
that a callback may close a descriptor and a later one of the same pass may open
another with the same number, which `rd` still shows as readable. `IbusRead` is
harmless then, and so is a client (its socket does not block);
`OnlyClientsSeeStaleReadiness` says that `accept`, which would block, is never called
that way. `exit(1)` after a failed read of the serial port ends the program and is not
modelled; the death of the process by SIGPIPE is in `Server`.

### Attiny

On this processor an interrupt handler is not interrupted, so each handler is a
step; what interleaves is their order. The timer is restarted by every byte and
overflows after 6.7 ms without one. Its last statement clears the buffer: that is how
a packet begins, and it is also the race of this program. An overflow that comes
just before the first byte of a message is handled just after it (`pending`), and
the message is lost. A message is abstracted to two parts for that reason: one
before and one after the handler. Bytes out of step (`Stray`) include the
firmware's own LED messages, which it hears. `settings` keeps its four bits, since
they decide which branch of `check_packet` is taken; the custom message is stored
or not. The Pi program sends only settings (`ibus.c:1567`); the video sources of the
other custom message are taken to be those of the enumeration.

One consequence of the code is visible in the model and in no property: if "no
camera" is set while reverse gear is engaged, the message that ends reverse gear
is ignored and the camera stays until the next change of the source
(`reversing` then stays `TRUE`, and `VideoMatches` allows it).

### Picture, Screen and Cabin

`Picture` is three actions: something is selected and seen (`Choose`), reverse gear
shows the camera (`Reverse`), any other gear shows what is selected (`Forward`). Both
programs implement it: `Attiny` with its relays, `Cabin` with the relay and the
trigger of a board of version 4. A button or the radio wins over the camera, since
both programs call `set_video` at once.

`Screen` has one operator per handler and `HandleMessage`, the dispatch of
`ibus_handle_message`: the texts that select the CD changer are looked for first,
whatever the table says, and with `-a 9` the table is not used at all. A message is
known by what the program takes it for. `typed` says whether the message became a
key press.

`Cabin` puts the messages on the bus. Each of the two programs may miss any of them
(`heard`, `received`), and the Pi reads later than the firmware. The firmware is
`Picture` with a guard for what it recognises: it knows fewer texts
(`new-cdc-screen` stands for those added to `is_cdc_message` only), no text of other
inputs and no button whose message has seven bytes. `told` is whether it received
the settings that `ibus_init` sends once. `apart` marks that the last message of the
kind that changes the screen was missed by one of them or is known to one only;
`KeysFollowFirmware` says that the next one that is not brings them together.

### Clock

`now` is the true time, in the zone that the car displays; `skew` is the car's error and
`error` the Pi's. A text is modelled by the numbers that `atoin` gets out of it
(`HoursRead`, `DayRead`, `MonthRead`): 12 hours with a "P", a date of dashes, a date
with the month first. `NewError` is `ibus_set_time_and_date`: the date it keeps for
GPS comes from `gmtime` and goes into `mktime`, which expects local time. `misread`
is history: it collects the reasons why the clock may be wrong by more than the
minute that the display does not show, and they are exactly the exceptions that
`SetFromCar` needs: 12 o'clock, an unset or reversed date, midnight between the two
messages, and GPS between them. A zone is at most a day from UTC, which is the form
that POSIX gives `TZ`. `Clock` is proved about in one module with `Housekeeping`, hence
the names `ClockInit`, `ClockNext`, `TakeTime` (for `ibus_handle_time`, whose effect on
the transmit queue is `HandleTime` of `Housekeeping`) and so on.

### Housekeeping

`Read` and `Tick` are `ibus_read` and the 50ms tick with the queue of `PacketQueue`;
`Second` is the 1s tick, at most one per round of 50ms ticks. `rx` has the car's
messages, the program's echoes and `Noise`, a damaged transmission, which is read and
dropped but resets the idle time all the same. `has_input = FALSE` is `-a 9`. A coolant
reading is the two bytes of the message; `CoolantTemp` adds them as the code does,
so that a low byte of 128 or more counts as negative.

### Server

`server_read` takes a byte at a time (`ReadByte`) until there is none yet, which can be
anywhere (`ReadNothing`). A client sends a script and may leave at any point; what it
sent by then stays readable. The first write to a client that is gone is answered
with a reset and the second raises SIGPIPE; nothing catches it, so `alive` becomes
FALSE and the program stops. What `write` returns is ignored, so that a client that
does not read is `lost` for `SameNews`. A byte that does not fit overwrites nothing
that counts, but `pos` stays, so a line is cut (`Store`). "tx " and a whole message
in hexadecimal digits are one character each; a bad command is anything else.
`CloseConnection` is `server_disconnect`, which takes one record out of the list
(`Removed`, for `slist_remove`). `Server` shares a module of proofs with `MainLoop`, which
has a `connect_list` of its own (of records, where `Server` has clients): the variable
is `connections` here.

What a client may expect is stated by places, not by a second parser: `Ends` are the
places of its text where a line ends, `InLine` those of the bytes of one line, and
`Holds` says that a buffer has the bytes at some places, in order and cut to its size.
The *n*-th line handled for a client belongs to the *n*-th end of a line it has sent;
`Rank` is that *n*. `EveryLineCounts` pairs lines and errors in the same way.

## 3. The runs

| run | checks | instance |
|---|---|---|
| `queue_all` | type invariant, `ListWellFormed` (`OnePerTag`, `SyncIsFirst`), `StopAndWait`, `ClosedPortHasWork`, `ReopenJustified`, that `SendQueue` implements `Outbox`, and `Drains` under `FairSpec` | 2 messages, tags `cdc` and `time`, 3 client calls, 2 ticks between retries, 3 attempts, 2 echoes on their way |
| `queue_sync` | shows that `SyncWaitsForEcho` does not hold (see Findings) | 2 client calls |
| `cd_all` | `TimerSound` (`NoOrphanTimer`, `TimerExpires`), `StatusAgrees`, `CommandWins`, and `FallsSilent` under `FairSpec` | three settings: a loop that may stall with every message, once with four sets of options and 1 message of the car, once with a changer that does not announce itself and 2; a prompt loop with a CD changer, the messages that change the status or start and stop the timer, and 3 of them |
| `recv_all` | type invariant, `SilentWithinMessages`, `IntactDelivered`, `OncePerByte`, and `BecomesQuiet` under `FairSpec` | bytes of 3 bits, a buffer of 8, 3 transmissions, two settings: messages of 4 and 5 bytes of which 2 are damaged, a prompt loop; messages of 5 bytes of which 1 is damaged, a loop that may stall |
| `loop_safety` | `PointersValid`, `ListsConsistent` (`DescriptorsWatched`, `ConnectionsMatch`, `SerialConsistent`), `OnlyClientsSeeStaleReadiness` | 3 descriptors |
| `loop_live` | `InputServed`, `TimerServed` under `FairSpec` | 2 descriptors |
| `attiny_all` | type invariant, `LitIsTimed`, `PowerOffJustified`, `BootIsLongPress`, that `Attiny` implements `Picture`, and `LedsGoOut` under `FairSpec` | every kind of message, 3 transmissions, 2 idle seconds of a tick each, a boot button remembered for 4 ticks of which the last 2 make a long press, LEDs lit for 2 |
| `cabin_all` | `KeysFollowFirmware`, `KeysFollowPicture`, and that `Cabin` implements `Picture` | 8 sets of options, any number of messages, 2 of them unread |
| `clock_all` | `SetFromCar`, `GpsAdjusts` | 7 instants around noon and midnight, 3 zones, 3 errors of the car, 2 of the Pi, every style of display |
| `clock_date` | shows that `DateAsDisplayed` does not hold (see Findings) | the same, dates with the month first |
| `housekeeping_all` | `NoQuestionAfterAnswer`, `WarningKept`, `WarnsOnce`, and `TurnsOff` under `FairSpec` | a round of 2 seconds with one question, 2 questions of a kind, 2 idle seconds, 4 messages of the car, 2 unread, readings of 129 and 131 degrees, the warning being at 130 |
| `server_all` | `LinesHandled`, `EveryLineCounts`, `SameNews`, and `AllIsRead` under `FairSpec` | 2 clients, 2 scripts, a buffer of 3 bytes, 1 message heard on the bus |

The type invariant is a property of the runs where a bug in the code could leave it
(a countdown below zero, a byte behind the end of the buffer, a video source outside
its enumeration); each of the other modules has one too (`ClockTypeOK`, `ServerTypeOK`), which
the instances above satisfy. `HeadCountIsRecent` of `SendQueue` and `VideoMatches` of `Attiny` are
parts of inductive invariants, so the proofs have them, and what they are for
(`ReopenJustified`, the picture) is checked.

Bounds. Three client calls allow an urgent packet, an ordinary one and a third that
replaces or withdraws one of them or is overtaken by both to be queued together,
which is every relation of two packets that the list's operators distinguish (the
proofs cover any number); two messages make packets with equal and with
different bytes. `MaxAttempts = 3` is the code's value. `ResendTicks` is 10 in the
code and 2 here: the countdown is only tested for zero. In `CdChanger` the port
is one that has echoed before, so `MaxAttempts` plays no part there. In the prompt
setting of `cd_all` three messages of the radio start the interval timer and make a
command arrive while the answers to the others are queued, on the bus, or read; the timer
may run in any of these states, also between a transmission and its echo. With a loop
that may stall two messages are enough for a stop, an immobilized or a second cd-info
to come before, after and within every step of the timer.

In `Receiver` three bits are enough for length bytes that are too small (0, 1), right
(2, 3), too large for the message (4, 5) and for the buffer (6, 7), so that the buffer
saturates; the transmission after the damaged one is where resynchronisation
shows. In `MainLoop` three descriptors are the serial port, the listening socket
and one client, or two clients while the port is closed, when a client has the
number the port had; the timers are the three the program has, and they do not
depend on the number of clients. `loop_live` has two descriptors, the serial port
and the listening socket, or a client while the port is closed.
In `Attiny` the times are scaled to a few ticks, keeping their order: of the 4 ticks
for which the boot button is remembered a release counts in the last 2 (in the code,
1350 and 900), so that there are presses that are too short, long enough and forgotten;
`AttinyProofs` covers the code's values. Three transmissions allow a setting, a selection
and reverse gear in any order.

`Cabin` has no bound but `MaxRx`: two unread messages let the Pi be a message behind
while the firmware already acts on the next. The instants of `Clock` have a message
of each kind before and after noon and midnight, some within three minutes of the
error of the Pi's clock, and the zones make the Pi's day differ from that of UTC.
In `Housekeeping` the times are scaled (a round of 30 seconds, an idle time of 300),
keeping the order "asked, answered or not, idle". Four messages of the car make a
sequence of hot readings broken off (hot, cold, hot), two with another message between
them, and readings after the warning; 129 and 131 degrees are on either side of the
limit, and the low bytes of both are negative as the code reads them. The scripts of `Server` have a good line, one with a carriage return,
one too long for the buffer, an empty one and one that is never finished.

Fairness. `WF(Tick(TRUE, TRUE))`: the main loop calls the tick every 50 ms and the
bus falls idle again and again. `SF(Delivered)`, `SF(Heard)`, and in `Housekeeping`
`SF(Tick(TRUE, "intact"))`: a transmission that is repeated is eventually not
damaged; without this no protocol could promise delivery, and damaged echoes would
keep the idle time at 0. `SF(Echo)`, `[]<>(rx = <<>>)` and `[]<>(line = <<>>)`: what
arrived is read, since the loop reads until there is nothing left before it runs
timers, and the bus has pauses. `SF(Reopened)`: an `open()` that is repeated eventually succeeds;
this is an assumption about the operating system, and `Drains` with
`ClosedPortHasWork` shows that the program goes on trying. `WF(Loop)` in `MainLoop` only says that the process is
scheduled: it is one disjunction, so no callback is favoured. `WF(Tick)`
and `WF(Elapse)` in `Receiver` and `WF(Second)` in `Housekeeping` say the same of the
tick and time. In `Server`, `WF(ReadByte \/ ReadNothing)` is the loop of
`server_read`; `SF(Accept)` and `SF(Serve)` of a client that is gone say that the main
loop accepts a waiting connection and serves a readable one, the end of the input being
readable: `InputServed` of `MainLoop` is what justifies both. In `Attiny`, `WF` of the
overflow, of the handler and of the end of a message is the hardware's; `SF` of a
handler that finds the bus idle and the buffer empty says that the bus is not busy
at every tick for ever.

## 4. The proofs

Every safety property that a passing run checks is proved. The only assumptions are
the named ones on the constants, which TLC
evaluates in the runs: `RetryAssumption` (both retry constants are positive),
`BoundsAssumption`, `CdChangerAssumption`, `HousekeepingAssumption`, `ClockAssumption`,
`ReceiverAssumption`, `MaxFdAssumption`, `ServerAssumption`, `ScreenAssumption`,
`CabinAssumption` and `AttinyAssumption`. All proofs of a component have one shape: an inductive invariant
`IInv`, lemmas about the operators of its handlers, one lemma per action, `Invariance`,
and one theorem per property.

**PacketQueueProofs.** What the walk of `ibus_remove_tag_from_queue` returns: it
restarts at the head after every removal, so it is a recursive function on the number
of restarts, and its equations are derived by induction over a *set* of naturals
(`NatSetInduction`), which needs no operator as a parameter. `RemoveTagRemovesAll`
says that no packet with the tag is left. The clients' proofs do not reason about
positions in the list: `Holds(list, msg, tag)` is all they ask of it, and there is one
lemma for each operation that says what the new list holds (`SendHolds` and so on) and
one that says it is still `WellFormed`.

**SendQueueProofs.** The inductive invariant is `TypeOK`, `WellFormed(pkt_list)`,
`HeadCountIsRecent` and `ClosedPortHasWork`. `WellFormed` is needed because
`StopAndWait` alone is not inductive: that an overtaken packet is the *second* one
follows only if every urgent packet is the head, which follows only if a tag
occurs once; and `HeadCountIsRecent` needs it to know that a packet that moves up
behind a withdrawn head has never been sent. `QueueImplementsOutbox` maps the list to
the sequence of its messages and tags. A tick is then a transmission of the first
entry, a reopening or a stutter, and an echo removes the first entry that matches; the
step that needs the invariant is the client's call
that supersedes, where the removal of every packet with the tag is the removal of
the only one.

**CdChangerProofs.** `TimerSound` is inductive with the types and needs no assumption
about the loop: whatever removes the interval timer clears `cdc_info_tag`.
For the status the invariant has two layers. `ListInv` says what a tag means in this
queue: a status has the CD changer's tag, but for a start the radio asked for, which
has none and which therefore no later answer supersedes. Then, with a prompt
loop, `OneInFlight`: at most one of the program's messages is on the wire or unread,
and nothing is waiting to be read before it. It need not be the head of the list any
more, nor in the list at all, since the interval timer may have queued another answer
between the write and the echo; what its echo removes may be a newer packet with the
same bytes. `FlightInv` says that this is `Harmless`: while a status is in flight some
status is queued, the echo of a start takes away no start that a contrary answer is in
front of, and any other echo leaves the start behind it. `RadioHeard` says that the
radio has heard what the program is about to hear. On top of that `AgreesUnlessQueued`,
`StartIsUnderWay` and `StopIsUnderWay` say where the last command is: queued, on the
bus, or heard. `StatusAgrees` and `CommandWins` are these with an empty queue. The one
place where `Harmless` fails is the step that `OverridesStart` describes, which is why
`CommandWins` has that exception and `StatusAgrees` has none.

**HousekeepingProofs.** Questions and the warning share the queue, so what is needed
is that a tag tells the message (`ListInv`): no withdrawal and no echo of the one then
takes the other away. `QuestionsWithdrawn`, `CountIsHot` and `WarningState` relate the
three flags of the code to the list and to the sequence of all readings: the count is
`Warned` exactly when that sequence has two hot readings in a row (`HotPair`), and 1
exactly when it ends with the first of them (`PairsGrow` is what one more reading does
to both). `CountIsHot` needs the case `-a 9` of its own, where a program that only
listens counts no reading.

The second part is about `Clock`, for every instant, zone and error. Both properties are
about one step, but `SetFromCar` needs to know what the *earlier* of the two messages
left in `datetime`, and that is the invariant `ClockInv`: until the date comes, the
time of day there is the one the car displayed (`TimeIsDisplayed`), and until the time
comes, the day is (`DayIsDisplayed`), unless `misread` has the reason. The rest is
arithmetic: hour, minute and day of a number of seconds put together again are that
number, less its second (`HoursReadRight`, `DayReadRight`), so that the clock is late by
the time since the display and a minute; an instant of the same day stays
the same day. For GPS, `AdjustedBy` shows that
a clock set to its own hour with the true minute and second is off by whole hours and
moved by as much as the two differed; the bound on the zones makes the day that is
kept the Pi's own or one of its neighbours.

**ReceiverProofs.** The two recoveries are recursive functions over the places of the
buffer. That such a function has a value, and what its value is like, is shown for
every buffer by the place with the fewest bytes left for which it would fail
(`BackwardInduction`, `BackwardRecursion`): again a set, not an operator, carries the
induction. From it `RunInOrder`, `DiscardedInOrder` and `FramedInOrder`: what a recovery
hands on are stretches of the buffer in their order, and what it leaves is the end of
the buffer behind them. The invariant says that the buffer is the row of bytes
read last and lies behind everything handed on (`BufferInv`; a full buffer is not
complete and stays as it is), that in step it is what was read of the transmission
(`InStep`), and that the program transmits only with an empty buffer and a tick after
the last byte (`Silence`). The transmission that `SilentWithinMessages` protects is one
that is read as it arrives; with a loop that stalls, the code promises an empty buffer
only, and so do the property and the theorem.

**MainLoopProofs.** `PointersValid` needs the shape of the timer list (`TimersInv`): the
two ticks stay at its end, and the interval timer, if there is one, is in front of
them. Then `WalkInv` can say where `next` points while each callback runs. For the
descriptors the invariant compares sets, not lists: what is registered is
what is open (`InputsAgree`). That no callback but a client's sees stale readiness needs
`StaleIsClient`: a number that was closed and handed out again in this pass was handed
out by `accept`. New tags and numbers are the least free ones; `NewInputTagIsNew` is a
pigeonhole argument, since a list of as many records as there are descriptors leaves a
tag free.

The second part is about `Server`, for any number of clients, any scripts and any
size of the buffer. `LinesHandled` is not inductive: it says nothing of the line that is
being read. `ServerInv` adds `BufferHolds`, that the buffer of every client holds what
was read of its current line, and keeps one fact per client (`OwnLines`) and
one per kind of answer (`LinesSent`, `LinesRefused`). None of it needs recursion over
the text: a byte is a new place behind all others (`NextPlace`, `RankGrows`), `StoreHolds`
is what `Store` does to the buffer, and a line that ends adds a pair to two sets whose
earlier pairs keep their ranks (`RankPairs`). A client that leaves shortens its script
behind what was read (`SameBeginning`). `SameNews` follows from `Told`, which holds of a
program that was killed, too, and from `Arrived`: the list has only clients that came.

**CabinProofs.** On older boards the Pi is behind the firmware by what is unread, so
the property is not inductive: `KeysWillMatch` says what the program *will* make of
its input, the last message that decides being what counts. On boards of version 4
`KeysMatchPicture` relates keys and picture until the phone button. The refinement of
`Picture` maps each effect of a handler (`HandlerEffects` lists six) to `Choose`,
`Reverse`, `Forward` or a stutter.

**AttinyProofs.** For all times and any number of
transmissions. The inductive invariant adds four facts: the pins show the selected
source, or the camera in reverse gear (`VideoMatches`); what is queued for the LEDs has a time
(`QueueIsTimed`); while the boot button counts, it was pressed as many ticks ago as its
counter lacks (`BootIsHeld`); and the ticks since the last packet are at least the
whole idle seconds but one plus the count of the current one (`IdleIsCounted`): the
counter of ticks is not reset by a packet, so the first second may be short. That is
why the Pi may lose its power up to a second before the "6 minutes" of
`attiny2313a/ibus.c:511`. `HandlerEffect` treats every branch of `check_packet` once,
for both steps that call it. The refinement needs the type invariant only: `ShownIsSet`
says that `set_video` makes the pins show its argument, `HandlerShowsPicture` maps each
branch of `check_packet`, and `StepShowsPicture` adds the steps that only receive bytes
and the tick, which touches the Pi's power but no pin of the picture.

Only model-checked: all liveness (`Drains`, `FallsSilent`, `BecomesQuiet`, `InputServed`,
`TimerServed`, `LedsGoOut`, `TurnsOff`, `AllIsRead`) and everything that needs
`ENABLED`, which TLAPS does not reach.

## 5. Findings

`ibus-send.c:103` says of a packet with `sync` that the loop "must send all previous
items first (including echo-back)". Every such packet is *prepended*
(`ibus.c:556`), so there never is a previous item in the list, and the packet is
written while one that was transmitted before it still waits for its echo. The run
`queue_sync` shows the shortest case: send a packet, ask for the CD status before
its echo is read, tick.

`ibus.c:402` takes the first number of a date for the day. The comment of
`ibus_handle_time` (`ibus.c:430`) shows the message of a car that puts the month first,
"01/26/2010" on 26 January; the run `clock_date` sets day 1 of month 26.

Met while modelling, without a run of their own:

- The usage text calls `-t` and `-a` "V4 boards only" (`pibus.c`); neither the idle
  timeout nor the input looks at the version (`ibus.c:1361`, `ibus.c:1089`).
- `-w` is described as "above <temp> degrees"; the warning comes *at* that temperature,
  too (`ibus.c:287`), at the second reading in a row.
- The interval timer can override a disk change (`-c`, a CD changer that does not play
  yet). `cd-change` queues a start without a tag and leaves `playing` to its echo
  (`ibus.c:688`); a tick writes it; before the echo the interval timer finds `playing`
  still FALSE and puts "not playing" in front of it (`ibus.c:559`); the echo then sets
  `playing` and removes the start, and "not playing" is sent last. The program and the
  radio agree in the end (`StatusAgrees`), but on the wrong status; the next cd-info or
  interval timer does not correct it, for "not playing" is heard, too. No document says
  what should happen; `OverridesStart` of `CdChanger` names the case.
- Of a 12 hour display "12:30PM" is hour 24 and "12:30AM" hour 12 (`ibus.c:440`); the
  exceptions of `SetFromCar` say when this matters.
- A client that is gone when the program writes to it twice ends the program
  (SIGPIPE); `AllIsRead` and `SameNews` of `Server` are about a program that lives.

## 6. Not modelled

- `log.c` and `annotate.c`: formatting and file output without effect on the rest; that
  a flush may block is what settings without a prompt loop stand for.
- `keyboard.c` and the choice of the key: events written to uinput.
- `gpio.c`: registers; what they answer is an input of the tick.
- Parsing of the options, `server_init`, the blinking of the LED, the external scripts
  (nothing waits for them), the cut of an announcement to 126 bytes, summer time.
- What happens between `power_off` and the end of power: the log is closed by then.

## 7. Plan

The modules are complete as far as the code has state worth checking, and every safety
property has its proof. What a change of the code would ask for first:

1. The hazards that no property covers, each with its reason in `PROJECT.json`: the
   messages that are too short and the message of four bytes in the two recoveries, the
   timer overflow at the first byte in the firmware, SIGPIPE, and the client that sends
   faster than `server_read` reads. A fix of one of them is a property of `Receiver`,
   `Attiny` or `Server`; one of the disk change (see Findings) removes `OverridesStart`.
2. Liveness rests on the instances of TLC. Where the bounds are the reason (the
   number of requests, of readings, of clients), a larger instance is the next step.
