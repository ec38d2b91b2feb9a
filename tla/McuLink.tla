--------------------------------- MODULE McuLink ------------------------------
(* The serial link of the AutoLink MCU tester, autolink/libtest/src/qemu_mcu.c: *)
(* a caller of autolink_mcu_send_msg1 at one end, the service thread with       *)
(* autolink_mcu_parse at the other, and the line between them.  The peer frames *)
(* its messages as this program does.                                           *)
(* A frame is AA 77 00, checksum, counter, command, ack, length, data.          *)
EXTENDS Integers, Sequences, FiniteSets

CONSTANTS Messages,      \* the messages sent: records of cmd1 and data
          DataSize,      \* sizeof(mcuinfo.data), 128
          Chunk,         \* bytes the thread reads at once, 32
          LineRoom,      \* bytes the line takes before a write is cut short
          Times,         \* the caller's number of attempts
          MaxSends, MaxNoise    \* bounds: messages sent, bytes lost or changed

Byte == 0..255
SYNC_0 == 170   SYNC_1 == 119   NORMAL == 0

ASSUME MessagesAssumption ==
  Messages \subseteq {m \in [cmd1 : Byte, data : Seq(Byte)] : Len(m.data) <= 127}

ASSUME SizesAssumption ==
  /\ DataSize \in Nat /\ DataSize > 8 /\ Chunk \in Nat \ {0}
  /\ LineRoom \in Nat /\ Times \in Nat /\ MaxSends \in Nat /\ MaxNoise \in Nat

VARIABLES
  up,          \* the uart is open and the service thread runs
  frame, iter, \* the sender: the frame it is writing, <<>> if none, and attempts
  line,        \* bytes written and not yet read
  buff,        \* the thread: bytes read and not yet parsed
  pos, checksum, framecounter, cmd1, ack, len, data,   \* mcuinfo
  last,        \* what the parser made of its last byte
  sends, noise,   \* bounds
  recent,      \* history: the bytes parsed, the latest first
  due,         \* history: frames written whole and not yet received, since the
               \* link was last idle
  dirty        \* history: since then, the line carried something else

sender == <<frame, iter, sends>>
parser == <<pos, checksum, framecounter, cmd1, ack, len, data>>
vars == <<up, sender, line, buff, parser, last, noise, recent, due, dirty>>

(* Both checksum functions: the exclusive or of the flag, the counter, the      *)
(* command, the ack, the length and the data.  A bit of it is set if an odd     *)
(* number of the bytes have it set.                                             *)
XorOf(bytes) ==
  LET Bit(w) == Cardinality({i \in DOMAIN bytes : (bytes[i] \div w) % 2 = 1}) % 2
  IN Bit(1) + 2 * Bit(2) + 4 * Bit(4) + 8 * Bit(8)
     + 16 * Bit(16) + 32 * Bit(32) + 64 * Bit(64) + 128 * Bit(128)

Encode(m) ==
  LET body == <<0, m.cmd1, 0, Len(m.data)>> \o m.data
  IN <<SYNC_0, SYNC_1, NORMAL, XorOf(<<NORMAL>> \o body)>> \o body

(* A frame that the parser has room for: pos never gets past DataSize - 1.      *)
Fits(f) == Len(f) <= DataSize - 1

Init ==
  /\ up = FALSE /\ frame = <<>> /\ iter = 0 /\ line = <<>> /\ buff = <<>>
  /\ pos = 0 /\ checksum = 0 /\ framecounter = 0 /\ cmd1 = 0 /\ ack = 0 /\ len = 0
  /\ data = [i \in 0..DataSize - 1 |-> 0]
  /\ last = "none" /\ sends = 0 /\ noise = 0
  /\ recent = [i \in 1..DataSize |-> 0] /\ due = <<>> /\ dirty = FALSE

(* autolink_mcu_init1: the uart opens and the thread is made.  An init that      *)
(* fails changes nothing the link depends on; when the speed or the parity      *)
(* cannot be set it forgets a descriptor it leaves open (237-245), which the    *)
(* model does not count.                                                        *)
autolink_mcu_init1 ==
  /\ ~up
  /\ up' = TRUE
  /\ UNCHANGED <<sender, line, buff, parser, last, noise, recent, due, dirty>>

-------------------------------------------------------------------------------
(* The sender.                                                                  *)

autolink_mcu_send_msg1(m) ==
  /\ frame = <<>> /\ sends < MaxSends
  /\ frame' = Encode(m) /\ iter' = 0 /\ sends' = sends + 1
  /\ UNCHANGED <<up, line, buff, parser, last, noise, recent, due, dirty>>

(* An attempt without an open uart, or after the last one: the call returns.    *)
SendReturns ==
  /\ frame # <<>>
  /\ \/ iter = Times /\ frame' = <<>> /\ UNCHANGED iter
     \/ ~up /\ iter < Times /\ iter' = iter + 1 /\ UNCHANGED frame
  /\ UNCHANGED <<up, sends, line, buff, parser, last, noise, recent, due, dirty>>

(* Mutant: the first write that takes anything ends the call. *)
SendsOnce ==
  LET room == LineRoom - Len(line)
      k == IF Len(frame) <= room THEN Len(frame) ELSE room
  IN /\ up /\ frame # <<>> /\ iter < Times
     /\ line' = line \o SubSeq(frame, 1, k)
     /\ IF k > 0
        THEN /\ frame' = <<>> /\ UNCHANGED <<iter, dirty>>
             /\ due' = IF Fits(frame) THEN Append(due, frame) ELSE due
        ELSE iter' = iter + 1 /\ UNCHANGED <<frame, due, dirty>>
     /\ UNCHANGED <<up, sends, buff, parser, last, noise, recent>>

(* autolink_mcu_sendinfo1: a non-blocking write takes what the line has room    *)
(* for.  The call ends if that was all of it; else the next attempt writes the  *)
(* frame from its beginning.                                                    *)
autolink_mcu_sendinfo1 ==
  LET room == LineRoom - Len(line)
      k == IF Len(frame) <= room THEN Len(frame) ELSE room
  IN /\ up /\ frame # <<>> /\ iter < Times
     /\ line' = line \o SubSeq(frame, 1, k)
     /\ IF k = Len(frame)
        THEN /\ frame' = <<>> /\ UNCHANGED iter
             /\ IF Fits(frame) THEN due' = Append(due, frame) /\ UNCHANGED dirty
                ELSE dirty' = TRUE /\ UNCHANGED due
        ELSE /\ iter' = iter + 1
             /\ dirty' = (dirty \/ k > 0)
             /\ UNCHANGED <<frame, due>>
     /\ UNCHANGED <<up, sends, buff, parser, last, noise, recent>>

(* The line loses its first byte or changes it.                                 *)
Noise ==
  /\ line # <<>> /\ noise < MaxNoise
  /\ noise' = noise + 1 /\ dirty' = TRUE
  /\ \/ line' = Tail(line)
     \/ \E b \in {SYNC_0, 9} : line' = <<b>> \o Tail(line)
  /\ UNCHANGED <<up, sender, buff, parser, last, recent, due>>

-------------------------------------------------------------------------------
(* The service thread.                                                          *)

(* Mutant: what is left in the line after a read is thrown away. *)
ReadAndFlush(k) ==
  /\ up /\ buff = <<>> /\ k <= Len(line)
  /\ buff' = SubSeq(line, 1, k) /\ line' = <<>>
  /\ UNCHANGED <<up, sender, parser, last, noise, recent, due, dirty>>

(* read(): up to a chunk of what is there.                                      *)
ReadChunk(k) ==
  /\ up /\ buff = <<>> /\ k <= Len(line)
  /\ buff' = SubSeq(line, 1, k) /\ line' = SubSeq(line, k + 1, Len(line))
  /\ UNCHANGED <<up, sender, parser, last, noise, recent, due, dirty>>

(* Mutant: the array is taken to have room for one byte more. *)
RejectsLate(c) == pos >= DataSize \/ (pos = 0 /\ c # SYNC_0)
                  \/ (pos = 1 /\ c # SYNC_1) \/ (pos = 2 /\ c # NORMAL)

(* Mutant: the flag is not looked at. *)
RejectsAnyFlagged(c) == pos >= DataSize - 1 \/ (pos = 0 /\ c # SYNC_0)
                        \/ (pos = 1 /\ c # SYNC_1)

(* The byte is not what this place of a frame calls for, or there is no place:  *)
(* it is dropped and the parser waits for a frame to begin.                     *)
Rejects(c) == \/ pos >= DataSize - 1
              \/ pos = 0 /\ c # SYNC_0
              \/ pos = 1 /\ c # SYNC_1
              \/ pos = 2 /\ c # NORMAL

Field(c, at, old) == IF pos = at THEN c ELSE old

(* autolink_mcu_checksum2 over the fields of a frame with n bytes of data d.    *)
(* The parser keeps no flag: mcuinfo.flag stays 0, which is NORMAL.             *)
autolink_mcu_checksum2(n, d) ==
  XorOf(<<NORMAL, framecounter, cmd1, ack, n>> \o [i \in 1..n |-> d[i - 1]])

(* The frame it has then received.                                              *)
Received == <<SYNC_0, SYNC_1, NORMAL, checksum', framecounter', cmd1', ack', len'>>
            \o [i \in 1..len' |-> data'[i - 1]]

autolink_mcu_parse(c) ==
  LET newlen == Field(c, 7, len)
      newdata == IF pos >= 8 THEN [data EXCEPT ![pos - 8] = c] ELSE data
  IN IF Rejects(c)
     THEN /\ pos' = 0 /\ last' = "rejected"
          /\ UNCHANGED <<checksum, framecounter, cmd1, ack, len, data>>
     ELSE /\ checksum' = Field(c, 3, checksum)
          /\ framecounter' = Field(c, 4, framecounter)
          /\ cmd1' = Field(c, 5, cmd1) /\ ack' = Field(c, 6, ack)
          /\ len' = newlen /\ data' = newdata
          /\ IF pos + 1 = newlen + 8
             THEN /\ pos' = 0
                  /\ last' = IF checksum = autolink_mcu_checksum2(newlen, newdata)
                             THEN "frame" ELSE "bad sum"
             ELSE pos' = pos + 1 /\ last' = "byte"

(* One byte of the chunk.  When it leaves the link idle, the history of what is *)
(* due begins anew.                                                             *)
ParseByte ==
  LET idle == pos' = 0 /\ Tail(buff) = <<>> /\ line = <<>>
  IN /\ buff # <<>>
     /\ autolink_mcu_parse(Head(buff))
     /\ buff' = Tail(buff)
     /\ recent' = [i \in 1..DataSize |-> IF i = 1 THEN Head(buff) ELSE recent[i - 1]]
     /\ dirty' = (dirty /\ ~idle)
     /\ due' = IF dirty /\ idle THEN <<>>
               ELSE IF last' = "frame" /\ due # <<>> /\ Received = Head(due)
                    THEN Tail(due) ELSE due
     /\ UNCHANGED <<up, sender, line, noise>>

Next == \/ autolink_mcu_init1
        \/ \E m \in Messages : autolink_mcu_send_msg1(m)
        \/ SendReturns \/ autolink_mcu_sendinfo1 \/ Noise
        \/ \E k \in 1..Chunk : ReadChunk(k)
        \/ ParseByte

Service == (\E k \in 1..Chunk : ReadChunk(k)) \/ ParseByte
Spec == Init /\ [][Next]_vars
FairSpec == Spec /\ WF_vars(Service)

-------------------------------------------------------------------------------
(* Properties                                                                   *)

LineTypes ==
  frame \in Seq(Byte) /\ line \in Seq(Byte) /\ buff \in Seq(Byte)
ParserTypes ==
  /\ pos \in 0..DataSize - 1 /\ data \in [0..DataSize - 1 -> Byte]
  /\ checksum \in Byte /\ framecounter \in Byte /\ cmd1 \in Byte
  /\ ack \in Byte /\ len \in Byte
  /\ last \in {"none", "rejected", "byte", "frame", "bad sum"}
CountTypes ==
  /\ up \in BOOLEAN /\ dirty \in BOOLEAN
  /\ iter \in 0..Times /\ sends \in 0..MaxSends /\ noise \in 0..MaxNoise
HistoryTypes ==
  recent \in [1..DataSize -> Byte] /\ due \in Seq(Seq(Byte))

TypeOK == LineTypes /\ ParserTypes /\ CountTypes /\ HistoryTypes

(* The i-th byte of the n bytes parsed last.                                    *)
ByteOf(n, i) == recent[n - i]

(* The fields of the parser are the n bytes parsed last, read as a frame.       *)
ReadAs(n) ==
  /\ n > 0 => ByteOf(n, 0) = SYNC_0
  /\ n > 1 => ByteOf(n, 1) = SYNC_1
  /\ n > 2 => ByteOf(n, 2) = NORMAL
  /\ n > 3 => ByteOf(n, 3) = checksum
  /\ n > 4 => ByteOf(n, 4) = framecounter
  /\ n > 5 => ByteOf(n, 5) = cmd1
  /\ n > 6 => ByteOf(n, 6) = ack
  /\ n > 7 => ByteOf(n, 7) = len
  /\ \A i \in 8..n - 1 : ByteOf(n, i) = data[i - 8]

(* Whatever the line carries, what the parser holds of a frame is an unbroken   *)
(* run of the bytes parsed last, and a frame that it accepts is such a run, of  *)
(* the length it says, all of its data within the array: no byte of an earlier, *)
(* abandoned frame is taken for one of it (qemu_mcu.c:86, 118-145).             *)
FramesAreRuns ==
  /\ ReadAs(pos)
  /\ last = "frame" =>
       \E n \in 8..DataSize - 1 :
         /\ n = len + 8 /\ ReadAs(n)
         /\ checksum = autolink_mcu_checksum2(len, data)

(* While the line carried whole frames only, since it was last idle, the bytes  *)
(* of the frame begun, of the chunk and of the line are the frames written and  *)
(* still due: each message that fits arrives once and in order, and an *)
(* error of the past is forgotten as soon as the link is idle (qemu_mcu.c:      *)
(* 84-158, 214-223, 310-328).                                                   *)
Concatenated(fs) ==
  LET cat[i \in 0..Len(fs)] == IF i = 0 THEN <<>> ELSE cat[i - 1] \o fs[i]
  IN cat[Len(fs)]
CleanLineDelivers ==
  ~dirty => [i \in 1..pos |-> ByteOf(pos, i - 1)] \o buff \o line = Concatenated(due)

(* A message written whole on a clean line is received: the thread reads and    *)
(* parses all there is (qemu_mcu.c:298-330).                                    *)
MessagesArrive == ~dirty ~> (due = <<>> \/ dirty)
===============================================================================
