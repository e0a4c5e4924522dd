-------------------------------- MODULE Server --------------------------------
(***************************************************************************)
(* The TCP server (src/rpi/server.c): clients send lines, a line that      *)
(* begins with "tx " becomes a message for the bus, and every client is    *)
(* told of every message on the bus, transmitted or received, and of every *)
(* error, its own or another's.                                            *)
(*                                                                         *)
(* The clients run beside the program.  server_read takes one byte at a    *)
(* time until there is none yet, which may be the case anywhere.  Bytes    *)
(* are abstracted: Tx stands for "tx ", and a member of Msg for the digits *)
(* of one complete message.  The loop that calls server_read, with bytes   *)
(* to read or without, is MainLoop's; here it may be called at any time.   *)
(***************************************************************************)
EXTENDS FiniteSets, Integers, Sequences

CONSTANTS
  Client,     \* each connects once
  Msg,        \* messages a client may ask for
  Scripts,    \* what a client may send, sequences of Char
  CmdSize,    \* CMD_SIZ (256)
  MaxHeard    \* bound: messages on the bus that are announced

Tx   == "tx "
CR   == "\r"
NL   == "\n"
Char == Msg \cup {Tx, CR, NL}

Nobody == "nobody"

ASSUME ServerAssumption ==
  /\ Scripts \subseteq Seq(Char)
  /\ CmdSize \in Nat \ {0} /\ MaxHeard \in Nat
  /\ {Tx, CR, NL} \cap Msg = {} /\ Nobody \notin Client

Error(n) == [kind |-> "error", code |-> n]
Heard    == [kind |-> "heard", code |-> 0]   \* the prefix is "rx " or "tx "
News     == {Heard, Error(0), Error(1)}

VARIABLES
  connections,       \* connect_list, newest first
  cmd,               \* the first pos bytes of each connection's buffer
  serving,           \* whose server_read is running, or Nobody
  alive,             \* no write() has raised SIGPIPE
  sent,              \* history: the messages given to ibus_send
  script,            \* what the client sends, unless it leaves before
  taken,             \* how much of it was read
  peer,              \* the client's end of the connection
  accepted,          \* the clients whose connection was accepted
  handled,           \* history: the lines handled, and whose they were
  announced,         \* history: all that was announced
  received,          \* history: what was announced before the client's
                     \* connection was accepted, and what it got since
  lost               \* history: the clients for which a write failed

program     == <<connections, cmd, serving, alive, sent>>
news        == <<announced, received, lost>>
server_vars == <<program, script, taken, peer, accepted, handled, news>>

Listed == {connections[i] : i \in DOMAIN connections}

ServerInit ==
  /\ connections = <<>>
  /\ cmd = [c \in Client |-> <<>>]
  /\ serving = Nobody /\ alive = TRUE
  /\ sent = <<>>
  /\ script \in [Client -> Scripts]
  /\ taken = [c \in Client |-> 0]
  /\ peer = [c \in Client |-> "away"]
  /\ accepted = {}
  /\ handled = <<>> /\ announced = <<>>
  /\ received = [c \in Client |-> <<>>]
  /\ lost = {}
-----------------------------------------------------------------------------
(* The clients.                                                            *)

Connect(c) ==
  /\ peer[c] = "away"
  /\ peer' = [peer EXCEPT ![c] = "here"]
  /\ UNCHANGED <<program, script, taken, accepted, handled, news>>

(* close(): what was sent by then can still be read, and the end behind it. *)
Leave(c) ==
  /\ peer[c] = "here"
  /\ peer' = [peer EXCEPT ![c] = "gone"]
  /\ \E n \in taken[c] .. Len(script[c]) :
       script' = [script EXCEPT ![c] = SubSeq(@, 1, n)]
  /\ received' = [received EXCEPT ![c] = <<>>]
  /\ UNCHANGED <<program, taken, accepted, handled, announced, lost>>
-----------------------------------------------------------------------------
(* Announcements.                                                          *)

(* write() to a client that has closed is answered with a reset, and the   *)
(* next one raises SIGPIPE, which nothing catches.                         *)
WrittenTo(state) == IF state = "gone" THEN "reset" ELSE state

NotNewest(list) ==   \* mutant: next before the write
  IF list = <<>> THEN list ELSE Tail(list)
Walk(list) == list

(* server_send_data: to every connection.  What write() returns is ignored *)
(* and a client that does not read loses all or a part of the line.        *)
Announce(lines) ==
  LET to   == {Walk(connections)[i] : i \in DOMAIN Walk(connections)}
      here == {c \in to : peer[c] = "here"}
  IN  \E full \in SUBSET here :
        /\ announced' = announced \o lines
        /\ alive' = (\A c \in to : peer[c] # "reset")
        /\ peer' = [c \in Client |-> IF c \in to THEN WrittenTo(peer[c]) ELSE peer[c]]
        /\ lost' = lost \cup full
        /\ received' = [c \in Client |->
             IF c \in lost' THEN <<>>
             ELSE IF c \in here THEN received[c] \o lines ELSE received[c]]

(* server_handle_message, server_notify_tx: from ibus_read or a tick.      *)
Notify ==
  /\ alive /\ serving = Nobody
  /\ Cardinality({i \in DOMAIN announced : announced[i] = Heard}) < MaxHeard
  /\ Announce(<<Heard>>)
  /\ UNCHANGED <<connections, cmd, serving, sent, script, taken, accepted, handled>>
-----------------------------------------------------------------------------
(* Commands.                                                               *)

IsTx(line) == line # <<>> /\ line[1] = Tx

(* ibus_send_ascii: the digits are exactly one message.                    *)
Sendable(line) == Len(line) = 2 /\ line[2] \in Msg

AnswerFallsThrough(line) ==   \* mutant: no return after the branch of "tx "
  IF IsTx(line) /\ ~Sendable(line) THEN <<Error(1), Error(0)>> ELSE <<Error(0)>>

(* What server_handle_command announces.                                   *)
Answer(line) ==
  IF ~IsTx(line) THEN <<Error(0)>> ELSE IF Sendable(line) THEN <<>> ELSE <<Error(1)>>

HandleCommand(c, line) ==
  /\ handled' = Append(handled, [client |-> c, line |-> line])
  /\ sent' = IF IsTx(line) /\ Sendable(line) THEN Append(sent, line[2]) ELSE sent
  /\ IF Answer(line) = <<>> THEN UNCHANGED <<alive, peer, news>>
     ELSE Announce(Answer(line))

(* The byte behind the last one is overwritten until the line ends.        *)
Store(buffer, char) ==
  IF Len(buffer) < CmdSize - 1 THEN Append(buffer, char) ELSE buffer

KeepBuffer(buffer) == buffer   \* mutant: pos is not reset
Emptied(buffer) == <<>>

(* One turn of server_read's loop.                                         *)
ReadByte ==
  /\ alive /\ serving # Nobody
  /\ taken[serving] < Len(script[serving])
  /\ taken' = [taken EXCEPT ![serving] = @ + 1]
  /\ LET char == script[serving][taken[serving] + 1]
     IN  IF char = NL
         THEN /\ HandleCommand(serving, cmd[serving])
              /\ cmd' = [cmd EXCEPT ![serving] = Emptied(@)]
         ELSE /\ cmd' = IF char = CR THEN cmd
                        ELSE [cmd EXCEPT ![serving] = Store(@, char)]
              /\ UNCHANGED <<alive, sent, peer, handled, news>>
  /\ UNCHANGED <<connections, serving, script, accepted>>

(* server_disconnect, at the end of the input or after an error.           *)
Removed(list, i) == SubSeq(list, 1, i - 1) \o SubSeq(list, i + 1, Len(list))

CloseConnection ==
  /\ \E i \in DOMAIN connections :
       connections[i] = serving /\ connections' = Removed(connections, i)
  /\ serving' = Nobody

HangUp == CloseConnection   \* mutant: EWOULDBLOCK is an error
Return == serving' = Nobody /\ UNCHANGED connections

ReadNothing ==
  /\ alive /\ serving # Nobody
  /\ \/ peer[serving] = "here" /\ Return
     \/ /\ peer[serving] # "here" /\ taken[serving] = Len(script[serving])
        /\ CloseConnection
  /\ UNCHANGED <<cmd, alive, sent, script, taken, peer, accepted, handled, news>>

(* The main loop calls server_read.                                        *)
Serve(c) ==
  /\ alive /\ serving = Nobody
  /\ c \in Listed
  /\ serving' = c
  /\ UNCHANGED <<connections, cmd, alive, sent, script, taken, peer, accepted, handled,
                 news>>

(* server_accept and server_add_connection.                                *)
Accept(c) ==
  /\ alive /\ serving = Nobody
  /\ c \notin accepted /\ peer[c] # "away"
  /\ accepted' = accepted \cup {c}
  /\ connections' = <<c>> \o connections
  /\ received' = [received EXCEPT ![c] = announced]
  /\ UNCHANGED <<cmd, serving, alive, sent, script, taken, peer, handled, announced,
                 lost>>

(* Killed, or waiting in select() for clients that do not come.            *)
Done ==
  /\ ~alive \/ connections = <<>>
  /\ UNCHANGED server_vars

ServerNext ==
  \/ \E c \in Client : Connect(c) \/ Leave(c) \/ Accept(c) \/ Serve(c)
  \/ Notify
  \/ ReadByte
  \/ ReadNothing
  \/ Done

ServerSpec == ServerInit /\ [][ServerNext]_server_vars

(* The main loop accepts every connection and serves every connection with *)
(* something to read (MainLoop's InputServed); the end of the input is.    *)
ServerFairness ==
  /\ WF_server_vars(ReadByte \/ ReadNothing)
  /\ \A c \in Client : /\ SF_server_vars(Accept(c))
                        /\ SF_server_vars(peer[c] # "here" /\ Serve(c))

ServerFairSpec == ServerSpec /\ ServerFairness
-----------------------------------------------------------------------------
ServerTypeOK ==
  /\ connections \in Seq(Client) /\ accepted \subseteq Client
  /\ cmd \in [Client -> Seq(Char)] /\ script \in [Client -> Seq(Char)]
  /\ taken \in [Client -> Nat]
  /\ \A c \in Client : Len(cmd[c]) < CmdSize /\ taken[c] <= Len(script[c])
  /\ serving \in Client \cup {Nobody} /\ alive \in BOOLEAN
  /\ sent \in Seq(Msg)
  /\ peer \in [Client -> {"away", "here", "gone", "reset"}]
  /\ handled \in Seq([client : Client, line : Seq(Char)])
  /\ announced \in Seq(News) /\ received \in [Client -> Seq(News)]
  /\ lost \subseteq Client

(* Which of the members of S, a set of places in a sequence, i is.         *)
Rank(S, i) == Cardinality({j \in S : j <= i})

(* Reference: where the first n bytes of a text end a line, where the bytes *)
(* of the line are that ends before i, and what the buffer holds of bytes  *)
(* at the places S.                                                        *)
Ends(text, n) == {i \in 1 .. n : text[i] = NL}

InLine(text, i) ==
  {j \in 1 .. i - 1 : text[j] # CR /\ \A k \in j .. i - 1 : text[k] # NL}

Holds(buffer, text, S) ==
  /\ Len(buffer) = IF Cardinality(S) < CmdSize THEN Cardinality(S) ELSE CmdSize - 1
  /\ \A i \in S : Rank(S, i) < CmdSize => buffer[Rank(S, i)] = text[i]

(* However the bytes of the clients are interleaved, split and delayed, and *)
(* whoever comes and goes meanwhile, the commands handled for a client are  *)
(* exactly the lines it has sent so far, in order, without CR and cut to   *)
(* what the buffer holds.                                                  *)
LinesHandled ==
  \A c \in Client :
    LET own  == {n \in DOMAIN handled : handled[n].client = c}
        ends == Ends(script[c], taken[c])
    IN  /\ Cardinality(own) = Cardinality(ends)
        /\ \A n \in own, i \in ends :
             Rank(own, n) = Rank(ends, i) =>
               Holds(handled[n].line, script[c], InLine(script[c], i))

(* What was sent and what was complained about is what the lines handled   *)
(* so far ask for: every line is either sent or answered by one error, in  *)
(* their order.                                                            *)
Asks(line) == \E m \in Msg : line = <<Tx, m>>

EveryLineCounts ==
  LET good   == {n \in DOMAIN handled : Asks(handled[n].line)}
      bad    == DOMAIN handled \ good
      errors == {n \in DOMAIN announced : announced[n].kind = "error"}
  IN  /\ Len(sent) = Cardinality(good)
      /\ \A n \in good : sent[Rank(good, n)] = handled[n].line[2]
      /\ Cardinality(errors) = Cardinality(bad)
      /\ \A n \in bad, e \in errors :
           Rank(bad, n) = Rank(errors, e) =>
             announced[e] = Error(IF handled[n].line # <<>> /\ handled[n].line[1] = Tx
                                  THEN 1 ELSE 0)

(* A client whose writes all succeeded has been told everything since its  *)
(* connection was accepted, once and in order; so any two agree.           *)
SameNews ==
  alive => \A c \in Listed \ lost : (peer[c] = "here") => (received[c] = announced)

(* Whatever a client has sent is read, even if it closed at once, unless   *)
(* the program was killed.                                                 *)
AllIsRead ==
  \A c \in Client :
    (peer[c] \in {"gone", "reset"}) ~> (taken[c] = Len(script[c]) \/ ~alive)
=============================================================================
