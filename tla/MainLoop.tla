------------------------------ MODULE MainLoop ------------------------------
(***************************************************************************)
(* The main loop (src/rpi/mainloop.c) with the callbacks that change its   *)
(* two lists while it walks over them: ibus_read and the three timers of   *)
(* src/rpi/ibus.c, and the TCP server (src/rpi/server.c).                  *)
(*                                                                         *)
(* A record of a list is known by its tag, and a pointer to a record is    *)
(* its tag.  A pointer dangles when the record was freed, that is, when no *)
(* record of the list has the tag.  Time is abstracted to a flag of each   *)
(* timer: it is due when next_call has been reached.                       *)
(*                                                                         *)
(* Descriptors are numbered by the operating system, which always hands    *)
(* out the lowest free number, so a number may come back within a pass.    *)
(***************************************************************************)
EXTENDS Integers, Sequences

CONSTANT MaxFd   \* bound: the highest descriptor the program may hold

ASSUME MaxFdAssumption == MaxFd \in Nat /\ MaxFd >= 2

Fd     == 1..MaxFd
Serial == 1   \* the descriptors of the serial port and of the listening
Listen == 2   \* socket when the program starts
None   == 0   \* NULL; the code's -1 for "no tag"
Closed == 0   \* the code's -1 for "no descriptor"

(* Enough for the records of a list and the tags stored elsewhere.         *)
TimerTag == 1..6
InputTag == 1..(MaxFd + 2)

VARIABLES
  timers,        \* tmr_list, head first
  inputs,        \* se_list, head first
  connect_list,  \* the server's connections, head first
  ifd, ifd_tag,  \* the serial port and its record in inputs
  cdc_info_tag,  \* the tag of the interval timer, possibly a stale one
  partial,       \* bufPos > 0: a message was received in part
  opened,        \* the descriptors that are open
  ready,         \* the descriptors with something to read
  rd,            \* what select returned
  pc,            \* where the loop is
  next,          \* the loop's pointer to the timer to look at
  te, again      \* the timer whose callback returned, and what it returned

lists == <<timers, inputs, connect_list>>
port  == <<ifd, ifd_tag, cdc_info_tag, partial>>
loop  == <<rd, pc, next, te, again>>
vars  == <<lists, port, opened, ready, loop>>
-----------------------------------------------------------------------------
(* The lists.                                                              *)

Tags(list) == {list[i].tag : i \in DOMAIN list}

(* slist_remove of the record with this tag, if there is one.              *)
Without(list, tag) ==
  LET found == {i \in DOMAIN list : list[i].tag = tag}
      i     == CHOOSE i \in found : TRUE
  IN  IF found = {} THEN list
      ELSE SubSeq(list, 1, i - 1) \o SubSeq(list, i + 1, Len(list))

First(list) == IF list = <<>> THEN None ELSE list[1].tag

(* The record behind the one with this tag.                                *)
Follower(list, tag) ==
  LET i == CHOOSE i \in DOMAIN list : list[i].tag = tag
  IN  IF i = Len(list) THEN None ELSE list[i + 1].tag

(* mainloop_timeout_add, mainloop_input_add.  The code counts tags up; the  *)
(* model takes one that nothing refers to.                                 *)
NewTimerTag == CHOOSE t \in TimerTag : t \notin Tags(timers) \cup {cdc_info_tag, next, te}
NewInputTag == CHOOSE t \in InputTag : t \notin Tags(inputs) \cup {ifd_tag}

Timer(tag, callback) == [tag |-> tag, callback |-> callback, due |-> FALSE]
Input(tag, callback, fd) ==
  [tag |-> tag, callback |-> callback, fd |-> fd, checked |-> FALSE]

(* ibus_init and server_init: the last one registered is the head.         *)
Init ==
  /\ timers = <<Timer(2, "1s"), Timer(1, "50ms")>>
  /\ inputs = <<Input(2, "accept", Listen), Input(1, "ibus", Serial)>>
  /\ connect_list = <<>>
  /\ ifd = Serial /\ ifd_tag = 1
  /\ cdc_info_tag = None
  /\ partial = FALSE
  /\ opened = {Serial, Listen}
  /\ ready = {}
  /\ rd = {}
  /\ pc = "select"
  /\ next = None /\ te = None /\ again = TRUE
-----------------------------------------------------------------------------
(* What the callbacks do.                                                  *)

(* The handlers of the messages of one callback, as far as the timers go:  *)
(* none of them concerns the interval timer, or the last one that does     *)
(* stops it (cd-stop, immobilized), or starts it anew (cd-info).           *)
HandleMessages ==
  \/ UNCHANGED <<timers, cdc_info_tag>>
  \/ /\ timers' = Without(timers, cdc_info_tag)
     /\ cdc_info_tag' = None
  \/ /\ timers' = <<Timer(NewTimerTag, "interval")>> \o Without(timers, cdc_info_tag)
     /\ cdc_info_tag' = NewTimerTag

Lowest(fds) == CHOOSE fd \in fds : \A other \in fds : fd <= other

(* ibus_init_serial_port: close the port if it is open, and open it.       *)
PortOpened ==
  LET left == opened \ {ifd}
      fd   == Lowest(Fd \ left)
  IN  /\ left # Fd
      /\ ifd' = fd /\ ifd_tag' = NewInputTag
      /\ inputs' = <<Input(NewInputTag, "ibus", fd)>> \o Without(inputs, ifd_tag)
      /\ opened' = left \cup {fd}
      /\ ready' = ready \ {ifd}

PortFailed ==
  /\ ifd' = Closed /\ ifd_tag' = None
  /\ inputs' = Without(inputs, ifd_tag)
  /\ opened' = opened \ {ifd}
  /\ ready' = ready \ {ifd}

InitSerialPort == PortOpened \/ PortFailed

(* power_off, which returns when the shutdown was only requested.          *)
PowerOff ==
  /\ inputs' = Without(inputs, ifd_tag)
  /\ ifd' = Closed /\ ifd_tag' = None
  /\ opened' = opened \ {ifd}
  /\ ready' = ready \ {ifd}

(* ibus_read: reads until nothing is left.                                 *)
IbusRead(fd) ==
  /\ IF fd \in ready
     THEN /\ HandleMessages
          /\ partial' \in BOOLEAN
     ELSE UNCHANGED <<timers, cdc_info_tag, partial>>
  /\ ready' = ready \ {fd}
  /\ UNCHANGED <<connect_list, ifd, ifd_tag, opened>>

(* server_accept, server_add_connection.  accept() may fail.               *)
ServerAccept(fd) ==
  /\ ready' = ready \ {fd}
  /\ \/ UNCHANGED <<connect_list, opened>>
     \/ /\ opened # Fd
        /\ opened' = opened \cup {Lowest(Fd \ opened)}
        /\ connect_list' =
             <<[tag |-> NewInputTag, socket |-> Lowest(Fd \ opened)]>> \o connect_list
  /\ UNCHANGED <<timers, port>>

DisconnectKeepingInput(list, tag) == list   \* mutant: no mainloop_input_remove
Disconnect(list, tag) == Without(list, tag)

(* server_read: commands until nothing is left, or the end of the          *)
(* connection and server_disconnect.                                       *)
ServerRead(tag, fd) ==
  /\ ready' = ready \ {fd}
  /\ \/ UNCHANGED <<connect_list, opened>>
     \/ /\ fd \in ready
        /\ connect_list' = Without(connect_list, tag)
        /\ opened' = opened \ {fd}
  /\ UNCHANGED <<timers, port>>
-----------------------------------------------------------------------------
(* One pass of the loop.                                                   *)

Fds(list) == {list[i].fd : i \in DOMAIN list}

KeepChecked(list) == list   \* mutant: the flags are not cleared
Unchecked(list) == [i \in DOMAIN list |-> [list[i] EXCEPT !.checked = FALSE]]

Marked(list, i) == [list EXCEPT ![i].checked = TRUE]

SelectFailing ==   \* mutant: the sets are left as they were passed to select
  /\ pc = "select"
  /\ rd' = Fds(inputs)
  /\ inputs' = Unchecked(inputs)
  /\ pc' = "inputs"
  /\ UNCHANGED <<timers, connect_list, port, opened, ready, next, te, again>>

(* select, and the flags of all records cleared.                           *)
Select ==
  /\ pc = "select"
  /\ \/ ready \cap Fds(inputs) # {}
     \/ \E i \in DOMAIN timers : timers[i].due
  /\ rd' = ready \cap Fds(inputs)
  /\ inputs' = Unchecked(inputs)
  /\ pc' = "inputs"
  /\ UNCHANGED <<timers, connect_list, port, opened, ready, next, te, again>>

(* The first record that was not checked.                                  *)
Pending == {i \in DOMAIN inputs : ~inputs[i].checked}
Current == CHOOSE i \in Pending : \A j \in Pending : i <= j

(* The record is marked before its callback runs; afterwards the walk      *)
(* starts again at the head of the list as it is then.                     *)
CheckInput ==
  /\ pc = "inputs"
  /\ Pending # {}
  /\ LET se     == inputs[Current]
         marked == Marked(inputs, Current)
     IN  IF se.fd \notin rd
         THEN /\ inputs' = marked
              /\ UNCHANGED <<timers, connect_list, port, opened, ready>>
         ELSE \/ /\ se.callback = "ibus"
                 /\ inputs' = marked
                 /\ IbusRead(se.fd)
              \/ /\ se.callback = "accept"
                 /\ ServerAccept(se.fd)
                 /\ inputs' = IF connect_list' = connect_list THEN marked
                              ELSE <<Input(connect_list'[1].tag, "client",
                                           connect_list'[1].socket)>> \o marked
              \/ /\ se.callback = "client"
                 /\ ServerRead(se.tag, se.fd)
                 /\ inputs' = IF connect_list' = connect_list THEN marked
                              ELSE Disconnect(marked, se.tag)
  /\ UNCHANGED loop

(* do_timers.                                                              *)
StartTimers ==
  /\ pc = "inputs"
  /\ Pending = {}
  /\ pc' = "timers"
  /\ next' = First(timers)
  /\ UNCHANGED <<lists, port, opened, ready, rd, te, again>>

TimerOf(tag) == timers[CHOOSE i \in DOMAIN timers : timers[i].tag = tag]

(* The loop's pointer moves on before the callback runs.                   *)
SkipTimer ==
  /\ pc = "timers"
  /\ next \in Tags(timers)
  /\ ~TimerOf(next).due
  /\ next' = Follower(timers, next)
  /\ UNCHANGED <<lists, port, opened, ready, rd, pc, te, again>>

(* ibus_50ms_tick: what is left in the buffer is searched for messages, or *)
(* the queue is serviced and may give up the port.                         *)
Tick50ms ==
  /\ again' = TRUE
  /\ \/ UNCHANGED <<lists, port, opened, ready>>
     \/ /\ partial
        /\ HandleMessages
        /\ partial' = FALSE
        /\ UNCHANGED <<inputs, connect_list, ifd, ifd_tag, opened, ready>>
     \/ /\ ~partial
        /\ InitSerialPort
        /\ UNCHANGED <<timers, connect_list, cdc_info_tag, partial>>

(* ibus_1s_tick: the idle timeout.                                         *)
Tick1s ==
  /\ again' = TRUE
  /\ \/ UNCHANGED <<lists, port, opened, ready>>
     \/ /\ PowerOff
        /\ UNCHANGED <<timers, connect_list, cdc_info_tag, partial>>

(* cdchanger_interval_timeout: returns 0 after too many timeouts.          *)
TickInterval ==
  /\ again' \in BOOLEAN
  /\ UNCHANGED <<lists, port, opened, ready>>

CallTimer ==
  /\ pc = "timers"
  /\ next \in Tags(timers)
  /\ TimerOf(next).due
  /\ te' = next
  /\ next' = Follower(timers, next)
  /\ CASE TimerOf(next).callback = "50ms"     -> Tick50ms
       [] TimerOf(next).callback = "1s"       -> Tick1s
       [] TimerOf(next).callback = "interval" -> TickInterval
  /\ pc' = "returned"
  /\ UNCHANGED rd

NotRearmed(list, tag) == list   \* mutant: next_call is not moved
Rearmed(list, tag) ==
  [i \in DOMAIN list |->
     IF list[i].tag = tag THEN [list[i] EXCEPT !.due = FALSE] ELSE list[i]]

FromFreed(list, tag) == tag   \* mutant: the walk goes on from the freed record
Restart(list, tag) == First(list)

(* A callback that returned 0 is removed, and the walk starts again.       *)
TimerReturned ==
  /\ pc = "returned"
  /\ te \in Tags(timers)
  /\ timers' = IF again THEN Rearmed(timers, te) ELSE Without(timers, te)
  /\ next' = IF again THEN next ELSE Restart(timers', te)
  /\ te' = None
  /\ again' = TRUE
  /\ pc' = "timers"
  /\ UNCHANGED <<inputs, connect_list, port, opened, ready, rd>>

EndPass ==
  /\ pc = "timers"
  /\ next = None
  /\ pc' = "select"
  /\ rd' = {}
  /\ UNCHANGED <<lists, port, opened, ready, next, te, again>>
-----------------------------------------------------------------------------
(* The environment: something to read arrives, and time passes.  A timer   *)
(* that becomes due while timers are run has to wait for the next pass,    *)
(* which compares with a later time.                                       *)
Arrive(fd) ==
  /\ fd \in opened \ ready
  /\ ready' = ready \cup {fd}
  /\ UNCHANGED <<lists, port, opened, loop>>

Elapse(i) ==
  /\ pc \in {"select", "inputs"}
  /\ i \in DOMAIN timers
  /\ ~timers[i].due
  /\ timers' = [timers EXCEPT ![i].due = TRUE]
  /\ UNCHANGED <<inputs, connect_list, port, opened, ready, loop>>

Loop ==
  \/ Select \/ CheckInput \/ StartTimers \/ SkipTimer \/ CallTimer
  \/ TimerReturned \/ EndPass

Next ==
  \/ Loop
  \/ \E fd \in Fd : Arrive(fd)
  \/ \E i \in 1..3 : Elapse(i)

Spec == Init /\ [][Next]_vars

(* The process is scheduled.                                               *)
FairSpec == Spec /\ WF_vars(Loop)
-----------------------------------------------------------------------------
TypeOK ==
  /\ timers \in Seq([tag : TimerTag, callback : {"50ms", "1s", "interval"},
                     due : BOOLEAN])
  /\ inputs \in Seq([tag : InputTag, callback : {"ibus", "accept", "client"},
                     fd : Fd, checked : BOOLEAN])
  /\ connect_list \in Seq([tag : InputTag, socket : Fd])
  /\ ifd \in Fd \cup {Closed} /\ ifd_tag \in InputTag \cup {None}
  /\ cdc_info_tag \in TimerTag \cup {None}
  /\ partial \in BOOLEAN /\ again \in BOOLEAN
  /\ ready \subseteq Fd /\ rd \subseteq Fd /\ opened \subseteq Fd
  /\ pc \in {"select", "inputs", "timers", "returned"}
  /\ next \in TimerTag \cup {None} /\ te \in TimerTag \cup {None}

(* The walk over the timers never follows a pointer to a freed record,     *)
(* although the 50ms tick may free the interval timer (a cd-stop that it   *)
(* recovers from the buffer) while the walk already holds a pointer to the *)
(* timer behind its own.                                                   *)
PointersValid ==
  /\ pc = "timers" => next \in Tags(timers) \cup {None}
  /\ pc = "returned" => /\ te \in Tags(timers)
                        /\ again => next \in Tags(timers) \cup {None}

(* select is given exactly the open descriptors, each once: none that was  *)
(* closed, by a failed reopening, a power off or a disconnected client,    *)
(* and none is open that nobody listens to.                                *)
DescriptorsWatched ==
  /\ opened = Fds(inputs)
  /\ \A i, j \in DOMAIN inputs : inputs[i].fd = inputs[j].fd => i = j

(* The server's list and the main loop's agree: what is sent to the        *)
(* connections goes to open sockets, and no callback runs for a connection *)
(* that was freed.                                                         *)
ConnectionsMatch ==
  {<<connect_list[i].tag, connect_list[i].socket>> : i \in DOMAIN connect_list}
    = {<<inputs[i].tag, inputs[i].fd>> :
         i \in {j \in DOMAIN inputs : inputs[j].callback = "client"}}

(* The serial port is registered once while it is open, under the tag that *)
(* will remove it, and not at all while it is closed.                      *)
SerialConsistent ==
  /\ ifd = Closed <=> ifd_tag = None
  /\ {<<inputs[i].tag, inputs[i].fd>> :
        i \in {j \in DOMAIN inputs : inputs[j].callback = "ibus"}}
       = IF ifd = Closed THEN {} ELSE {<<ifd_tag, ifd>>}

(* The three views of what is open - the main loop's, the server's and the *)
(* serial port's - agree whenever no callback is running.                  *)
ListsConsistent == DescriptorsWatched /\ ConnectionsMatch /\ SerialConsistent

(* A descriptor may look ready only because its number was closed and      *)
(* handed out again in the same pass.  Only clients of the server, whose   *)
(* sockets do not block, are ever called then; accept(), which would block *)
(* the program, always finds a client.                                     *)
OnlyClientsSeeStaleReadiness ==
  pc = "inputs" =>
    \A i \in Pending :
      inputs[i].fd \in rd \ ready => inputs[i].callback = "client"

(* What arrives is read, however busy the other descriptors and the timers *)
(* are.                                                                    *)
InputServed ==
  \A fd \in Fd : fd \in ready \cap Fds(inputs) ~> fd \notin ready

(* A timer that is due is called or removed.                               *)
DueTags == {timers[i].tag : i \in {j \in DOMAIN timers : timers[j].due}}
TimerServed == \A tag \in TimerTag : tag \in DueTags ~> tag \notin DueTags
=============================================================================
