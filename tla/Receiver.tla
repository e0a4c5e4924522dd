------------------------------ MODULE Receiver ------------------------------
(***************************************************************************)
(* How the program makes messages out of the bytes of the bus: ibus_read,  *)
(* ibus_discard_receive_buffer and the part of the 50ms tick that looks at *)
(* the receive buffer (src/rpi/ibus.c).                                    *)
(*                                                                         *)
(* A message is <<source, length, destination, data ..., checksum>>; its   *)
(* second byte is the number of bytes that follow it and its last byte     *)
(* makes the exclusive or of all bytes 0.  There is no start marker: a     *)
(* receiver that has lost its place finds it again by trial, or after a    *)
(* gap.                                                                    *)
(*                                                                         *)
(* Bytes are narrower here and the buffer is shorter than in the code.     *)
(* Time is the age of the last byte: Recent, Late (more than 64 ms) or Old *)
(* (more than 200 ms).  A byte of the buffer carries its position in what  *)
(* was read, which is history and plays no part in what the program does.  *)
(***************************************************************************)
EXTENDS Integers, Sequences, SequencesExt

CONSTANTS
  ByteBits,     \* width of a byte (8 in the code)
  Size,         \* sizeof(ibus.buf) (192 in the code)
  MaxSent,      \* bound: number of messages sent
  Settings      \* the circumstances to explore, each of them a record:
                \*   messages: what the senders on the bus send,
                \*   damaged:  bound, how many of them are damaged,
                \*   prompt:   TRUE if bytes are read when they arrive; if
                \*             not, a callback may block the main loop, and
                \*             bytes wait to be read

Byte == 0 .. 2^ByteBits - 1

Bit(b, k) == (b \div 2^k) % 2
Xor == [a \in Byte, b \in Byte |->
  MapThenSumSet(LAMBDA k : IF Bit(a, k) = Bit(b, k) THEN 0 ELSE 2^k, 0..ByteBits-1)]
Sum(bytes) == FoldLeft(LAMBDA a, b : Xor[a, b], 0, bytes)

ASSUME ReceiverAssumption ==
  /\ ByteBits \in Nat \ {0}
  /\ Size \in Nat /\ Size >= 6
  /\ \A s \in Settings :
       /\ \A m \in s.messages :
            /\ m \in Seq(Byte)
            /\ Len(m) >= 4 /\ Len(m) < Size
            /\ m[2] + 2 = Len(m)
            /\ Sum(m) = 0
       /\ s.damaged \in Nat /\ s.prompt \in BOOLEAN
  /\ MaxSent \in Nat

Recent == 0   \* the age of the last byte
Late   == 1
Old    == 2

VARIABLES
  setting,     \* one of Settings
  buf,         \* the first bufPos bytes of ibus.buf
  bytes_read,  \* TRUE if the code's counter is not 0
  age,         \* the time since last_byte
  line,        \* the transmissions that were not read completely
  pos,         \* number of bytes read of the first of them
  sent, damaged,   \* number of transmissions, and of damaged ones
  ticks,       \* number of ticks since the last byte, up to 1
  position,    \* history: number of bytes read
  synced,      \* history: the transmission now read began in step
  handed,      \* history: what the last step gave to ibus_handle_message
  upto         \* history: position of the last byte that was handed on

vars == <<setting, buf, bytes_read, age, line, pos, sent, damaged, ticks, position,
          synced, handed, upto>>

Messages   == setting.messages
MaxDamaged == setting.damaged
Prompt     == setting.prompt
-----------------------------------------------------------------------------
(* The buffer b from its byte i + 1 on, i bytes having been discarded.     *)

Left(b, i)     == Len(b) - i
FrameLen(b, i) == b[i + 2].byte + 2
Frame(b, i)    == SubSeq(b, i + 1, i + FrameLen(b, i))
Rest(b, i)     == SubSeq(b, i + 1, Len(b))

(* ibus_good_checksum.                                                     *)
GoodChecksum(frame) == Sum([i \in DOMAIN frame |-> frame[i].byte]) = 0

Intact(frame)    == [frame |-> frame, recovered |-> FALSE]
Recovered(frame) == [frame |-> frame, recovered |-> TRUE]

OneShort(i, len) == i + len - 1   \* mutant: a byte too few is discarded
(* ibus_discard_bytes, of a message that was handed on.                    *)
Behind(i, len) == i + len

(* The good messages that follow one another from here on.  They have at   *)
(* least `least' bytes, and the next one is tried if `room' bytes are left *)
(* or more.  Both recoveries have such a loop, and neither tries when less *)
(* than four bytes are left.                                               *)
Run(b, from, least, room) ==
  LET run[i \in 0 .. Len(b) - 4] ==
        IF /\ FrameLen(b, i) >= least
           /\ FrameLen(b, i) <= Left(b, i)
           /\ GoodChecksum(Frame(b, i))
        THEN LET j    == Behind(i, FrameLen(b, i))
                 more == IF Left(b, j) >= room THEN run[j]
                         ELSE [at |-> j, found |-> <<>>]
             IN  [more EXCEPT !.found = <<Recovered(Frame(b, i))>> \o @]
        ELSE [at |-> i, found |-> <<>>]
  IN  run[from]

(* ibus_discard_receive_buffer: what it hands on; it leaves nothing.       *)
Discarded(b) ==
  LET scan[i \in 0..Len(b)] ==
        IF Left(b, i) >= 5
        THEN LET r == Run(b, i + 1, 4, 5) IN r.found \o scan[r.at]
        ELSE <<>>
  IN  scan[0]

Complete(b, i) == Left(b, i) >= 4 /\ FrameLen(b, i) = Left(b, i)

(* retry: a complete frame is handed on if it is good, and otherwise       *)
(* `corrupt' is the outcome; an incomplete one stays in the buffer.        *)
Retry(b, i, corrupt) ==
  IF ~Complete(b, i)             THEN [at |-> i, found |-> <<>>]
  ELSE IF GoodChecksum(Frame(b, i)) THEN [at |-> Len(b), found |-> <<Intact(Frame(b, i))>>]
  ELSE corrupt

(* The recovery of ibus_read: one byte is discarded until a message is     *)
(* found, then retry; without one the buffer is cleared.                   *)
Framed(b) ==
  LET scan[i \in 0..Len(b)] ==
        IF Left(b, i) < 5 THEN [at |-> Len(b), found |-> <<>>]
        ELSE LET r     == Run(b, i + 1, 2, 4)
                 again == Retry(b, r.at, scan[r.at])
             IN  IF r.found = <<>> THEN scan[i + 1]
                 ELSE [again EXCEPT !.found = r.found \o @]
  IN  Retry(b, 0, scan[0])

StoreAnyway(b, c) == Append(b, c)   \* mutant: the end of the buffer is not tested
(* The last byte of the buffer is written but never counted.               *)
Store(b, c) == IF Len(b) < Size - 1 THEN Append(b, c) ELSE b
-----------------------------------------------------------------------------
Init ==
  /\ setting \in Settings
  /\ buf = <<>> /\ bytes_read = FALSE
  /\ age = Recent
  /\ line = <<>> /\ pos = 0
  /\ sent = 0 /\ damaged = 0
  /\ ticks = 0
  /\ position = 0 /\ synced = TRUE /\ handed = <<>> /\ upto = 0

HandOn(found) ==
  /\ handed' = found
  /\ upto' = IF found = <<>> THEN upto ELSE Last(Last(found).frame).position

KeepLate(b) == [left |-> b, found |-> <<>>]   \* mutant: no gap is noticed
(* What is left of a transmission that ended more than 64 ms ago.          *)
AfterGap(b) == [left |-> <<>>, found |-> Discarded(b)]

(* ibus_read, for one byte.                                                *)
Read ==
  /\ line # <<>>
  /\ LET bytes  == line[1].bytes
         byte   == [byte |-> bytes[pos + 1], position |-> position + 1]
         gap    == IF age >= Late THEN AfterGap(buf) ELSE [left |-> buf, found |-> <<>>]
         stored == Store(gap.left, byte)
         framed == Framed(stored)
         last   == pos + 1 = Len(bytes)
     IN  /\ buf' = Rest(stored, framed.at)
         /\ HandOn(gap.found \o framed.found)
         /\ pos' = IF last THEN 0 ELSE pos + 1
         /\ line' = IF last THEN Tail(line) ELSE line
         /\ synced' = IF pos = 0 THEN buf = <<>> \/ age >= Late ELSE synced
  /\ age' = Recent
  /\ bytes_read' = TRUE
  /\ position' = position + 1
  /\ ticks' = 0
  /\ UNCHANGED <<setting, sent, damaged>>

ClearedAlways(read, b) == FALSE   \* mutant: cleared within a message, too
(* bytes_read is cleared when the tick could not send, unless a message    *)
(* was received in part.                                                   *)
Cleared(read, b) == read /\ b # <<>>

(* The ticks come 50 ms apart: at most one between two bytes of a          *)
(* transmission that is read as it arrives.                                *)
MayTick == Prompt /\ pos > 0 => ticks = 0

NeverTimedOut(b) == FALSE   \* mutant: the rest waits for the next byte
TimedOut(b) == b # <<>> /\ age >= Old

(* ibus_50ms_tick, as far as the receive buffer goes.                      *)
Tick ==
  /\ MayTick
  /\ buf' = IF TimedOut(buf) THEN <<>> ELSE buf
  /\ HandOn(IF TimedOut(buf) THEN Discarded(buf) ELSE <<>>)
  /\ bytes_read' = Cleared(bytes_read, buf')
  /\ ticks' = 1
  /\ UNCHANGED <<setting, age, line, pos, sent, damaged, position, synced>>
-----------------------------------------------------------------------------
(* The bus.  A transmission is damaged when a byte is changed, a byte is   *)
(* lost, or the sender stops early.                                        *)
Damaged(m) ==
  ({[m EXCEPT ![i] = b] : i \in DOMAIN m, b \in Byte} \ {m})
    \cup {RemoveAt(m, i) : i \in DOMAIN m}
    \cup {SubSeq(m, 1, n) : n \in 1 .. Len(m) - 1}

Transmit(bytes, intact) ==
  /\ sent < MaxSent
  /\ Prompt => line = <<>>
  /\ sent' = sent + 1
  /\ line' = Append(line, [bytes |-> bytes, intact |-> intact])
  /\ damaged' = IF intact THEN damaged ELSE damaged + 1
  /\ handed' = <<>>
  /\ UNCHANGED <<setting, buf, bytes_read, age, pos, ticks, position, synced, upto>>

(* Time passes without a byte being read.  In step is only what is read    *)
(* without such a pause.                                                   *)
Elapse ==
  /\ age < Old
  /\ Prompt => line = <<>>
  /\ age' = age + 1
  /\ synced' = (synced /\ pos = 0)
  /\ handed' = <<>>
  /\ UNCHANGED <<setting, buf, bytes_read, line, pos, sent, damaged, ticks, position, upto>>

Next ==
  \/ Read
  \/ Tick
  \/ Elapse
  \/ \E m \in Messages : Transmit(m, TRUE)
  \/ \E m \in Messages : \E bytes \in Damaged(m) :
       damaged < MaxDamaged /\ Transmit(bytes, FALSE)

Spec == Init /\ [][Next]_vars

(* What arrived is read in the end (with a bounded number of transmissions *)
(* this is what WF_vars(Read) says), the tick runs every 50 ms, and time   *)
(* passes.                                                                 *)
FairSpec == Spec /\ []<>(line = <<>>) /\ WF_vars(Tick) /\ WF_vars(Elapse)
-----------------------------------------------------------------------------
TaggedByte == [byte : Byte, position : Nat]

TypeOK ==
  /\ setting \in Settings
  /\ buf \in Seq(TaggedByte) /\ Len(buf) < Size
  /\ bytes_read \in BOOLEAN /\ synced \in BOOLEAN
  /\ age \in {Recent, Late, Old}
  /\ line \in Seq([bytes : Seq(Byte), intact : BOOLEAN])
  /\ {pos, sent, damaged, position, upto} \subseteq Nat
  /\ ticks \in {0, 1}
  /\ handed \in Seq([frame : Seq(TaggedByte), recovered : BOOLEAN])

(* A message that is intact, and that begins when the program has nothing  *)
(* left of an earlier one or after a gap, is handed on when its last byte  *)
(* is read, as it was sent and nothing else, and not as a recovered one:   *)
(* an echo removes its packet from the transmit queue.                     *)
IntactDelivered ==
  [][Read /\ synced' /\ line[1].intact =>
       /\ (pos' = 0 =>
            /\ buf' = <<>>
            /\ \E frame \in {handed'[i].frame : i \in DOMAIN handed'} :
                 /\ handed' = <<Intact(frame)>>
                 /\ [i \in DOMAIN frame |-> frame[i].byte] = line[1].bytes)
       /\ (pos > 0 /\ pos' > 0 => handed' = <<>>)]_vars

(* No byte is handed on twice, messages are handed on in the order of the  *)
(* bus, and each of them is a stretch of what was read, however much the   *)
(* two recoveries discard and whatever did not fit into the buffer.        *)
OncePerByte ==
  [][/\ \A i \in DOMAIN handed' :
          LET frame == handed'[i].frame
              floor == IF i = 1 THEN upto ELSE Last(handed'[i - 1].frame).position
          IN  /\ frame[1].position > floor
              /\ \A j \in DOMAIN frame : frame[j].position = frame[1].position + j - 1
    ]_vars

(* The program never transmits while it holds a part of a message, nor     *)
(* within a message of another sender, however badly out of step it is.    *)
SilentWithinMessages ==
  ~bytes_read => /\ buf = <<>>
                 /\ Prompt /\ MayTick => pos = 0

(* Nothing received in part blocks the transmit queue for ever.            *)
BecomesQuiet == <>[](~bytes_read /\ buf = <<>>)
=============================================================================
