---------------------------- MODULE McuLinkProofs -----------------------------
(* Whatever the line carries, the frame parser of qemu_mcu.c stays within its   *)
(* array and never puts a frame together from bytes that are not consecutive.   *)
EXTENDS McuLink, FiniteSetTheorems, SequenceTheorems, WellFoundedInduction, TLAPS

-------------------------------------------------------------------------------
(* Types                                                                        *)

(* The checksum of any bytes is a byte (qemu_mcu.c:59-80, 162-174).             *)
LEMMA XorIsByte ==
  ASSUME NEW bytes \in Seq(Byte)
  PROVE  XorOf(bytes) \in Byte
<1> DEFINE Odd(w) == {i \in DOMAIN bytes : (bytes[i] \div w) % 2 = 1}
           Bit(w) == Cardinality(Odd(w)) % 2
<1>1. ASSUME NEW w PROVE Bit(w) \in 0..1
  <2>1. IsFiniteSet(1..Len(bytes))
    BY FS_Interval
  <2>2. Odd(w) \subseteq 1..Len(bytes)
    OBVIOUS
  <2>3. Cardinality(Odd(w)) \in Nat
    BY <2>1, <2>2, FS_Subset, FS_CardinalityType
  <2> HIDE DEF Odd
  <2> QED
    BY <2>3
<1>2. XorOf(bytes) = Bit(1) + 2 * Bit(2) + 4 * Bit(4) + 8 * Bit(8)
                     + 16 * Bit(16) + 32 * Bit(32) + 64 * Bit(64) + 128 * Bit(128)
  BY DEF XorOf
<1> HIDE DEF Bit
<1>3. PICK a \in 0..1, b \in 0..1, c \in 0..1, d \in 0..1,
           e \in 0..1, f \in 0..1, g \in 0..1, h \in 0..1 :
        /\ a = Bit(1) /\ b = Bit(2) /\ c = Bit(4) /\ d = Bit(8)
        /\ e = Bit(16) /\ f = Bit(32) /\ g = Bit(64) /\ h = Bit(128)
  BY <1>1
<1>4. XorOf(bytes) = a + 2 * b + 4 * c + 8 * d + 16 * e + 32 * f + 64 * g + 128 * h
  BY <1>2, <1>3, Zenon
<1> QED
  BY <1>4 DEF Byte

(* A frame consists of bytes (qemu_mcu.c:200-212).                              *)
LEMMA EncodeType ==
  ASSUME NEW m \in Messages
  PROVE  Encode(m) \in Seq(Byte)
<1>1. PICK d \in Seq(Byte), n \in Nat : m.data = d /\ n = Len(d)
  BY MessagesAssumption
<1>2. n <= 127
  BY <1>1, MessagesAssumption
<1>3. n \in Byte /\ m.cmd1 \in Byte /\ 0 \in Byte
  BY <1>2, MessagesAssumption DEF Byte
<1>4. Len(m.data) = n
  BY <1>1, Zenon
<1> DEFINE body == <<0, m.cmd1, 0, n>> \o d
<1>5. body \in Seq(Byte)
  BY <1>3
<1>6. /\ NORMAL \in Byte /\ SYNC_0 \in Byte /\ SYNC_1 \in Byte
  BY DEF NORMAL, SYNC_0, SYNC_1, Byte
<1> DEFINE sum == XorOf(<<NORMAL>> \o body)
<1>7. sum \in Byte
  <2>1. <<NORMAL>> \in Seq(Byte)
    BY <1>6
  <2> HIDE DEF body
  <2>2. <<NORMAL>> \o body \in Seq(Byte)
    BY <1>5, <2>1
  <2> QED
    BY <2>2, XorIsByte
<1>8. Encode(m) = <<SYNC_0, SYNC_1, NORMAL, sum>> \o body
  BY <1>1, <1>4, Zenon DEF Encode
<1> HIDE DEF body, sum
<1>9. <<SYNC_0, SYNC_1, NORMAL, sum>> \in Seq(Byte)
  BY <1>6, <1>7
<1> QED
  BY <1>5, <1>8, <1>9

LEMMA TypeInit == Init => TypeOK
<1> SUFFICES ASSUME Init PROVE TypeOK
  OBVIOUS
<1> USE SizesAssumption DEF Init
<1>1. LineTypes
  BY DEF LineTypes
<1>2. ParserTypes
  BY DEF ParserTypes, Byte
<1>3. CountTypes
  BY DEF CountTypes
<1>4. HistoryTypes
  BY DEF HistoryTypes, Byte
<1> QED
  BY <1>1, <1>2, <1>3, <1>4 DEF TypeOK

(* What the sender and the line do to the bytes underway.                       *)
LEMMA LineTypesNext ==
  ASSUME LineTypes, Next
  PROVE  LineTypes'
<1> USE DEF LineTypes
<1>1. CASE autolink_mcu_init1 \/ SendReturns
  <2>1. (frame' = <<>> \/ frame' = frame) /\ line' = line /\ buff' = buff
    BY <1>1 DEF autolink_mcu_init1, SendReturns, sender
  <2>2. CASE frame' = <<>>
    BY <2>1, <2>2
  <2>3. CASE frame' = frame
    BY <2>1, <2>3
  <2> QED
    BY <2>1, <2>2, <2>3
<1>2. ASSUME NEW m \in Messages, autolink_mcu_send_msg1(m) PROVE LineTypes'
  BY <1>2, EncodeType DEF autolink_mcu_send_msg1
<1>3. CASE autolink_mcu_sendinfo1
  <2>1. PICK k : /\ k = IF Len(frame) <= LineRoom - Len(line) THEN Len(frame)
                        ELSE LineRoom - Len(line)
                 /\ line' = line \o SubSeq(frame, 1, k)
    BY <1>3 DEF autolink_mcu_sendinfo1
  <2>2. k \in Int /\ k <= Len(frame)
    BY <2>1, SizesAssumption
  <2>3. SubSeq(frame, 1, k) \in Seq(Byte)
    <3>1. \A i \in 1..k : frame[i] \in Byte
      BY <2>1, <2>2
    <3> QED
      BY <2>2, <3>1, SubSeqProperties
  <2>4. line' \in Seq(Byte)
    BY <2>1, <2>3
  <2>5. (frame' = <<>> \/ frame' = frame) /\ buff' = buff
    BY <1>3 DEF autolink_mcu_sendinfo1
  <2>6. CASE frame' = <<>>
    BY <2>4, <2>5, <2>6
  <2>7. CASE frame' = frame
    BY <2>4, <2>5, <2>7
  <2> QED
    BY <2>5, <2>6, <2>7
<1>4. CASE Noise
  <2>1. line # <<>> /\ frame' = frame /\ buff' = buff
    BY <1>4 DEF Noise, sender
  <2>2. PICK b \in {SYNC_0, 9} : line' = Tail(line) \/ line' = <<b>> \o Tail(line)
    BY <1>4 DEF Noise
  <2>3. b \in Byte
    BY <2>2 DEF SYNC_0, Byte
  <2>4. Tail(line) \in Seq(Byte)
    BY <2>1
  <2>5. <<b>> \in Seq(Byte)
    BY <2>3
  <2>6. CASE line' = Tail(line)
    BY <2>1, <2>4, <2>6
  <2>7. CASE line' = <<b>> \o Tail(line)
    <3>1. line' \in Seq(Byte)
      BY <2>4, <2>5, <2>7
    <3> QED
      BY <2>1, <3>1
  <2> QED
    BY <2>2, <2>6, <2>7
<1>5. ASSUME NEW k \in 1..Chunk, ReadChunk(k) PROVE LineTypes'
  <2>1. /\ k \in Int /\ k >= 1 /\ k <= Len(line) /\ frame' = frame
        /\ buff' = SubSeq(line, 1, k) /\ line' = SubSeq(line, k + 1, Len(line))
    BY <1>5, SizesAssumption DEF ReadChunk, sender
  <2>2. (\A i \in 1..k : line[i] \in Byte) /\ (\A i \in k + 1..Len(line) : line[i] \in Byte)
    BY <2>1
  <2>3. Len(line) \in Int /\ k + 1 \in Int
    BY <2>1
  <2> QED
    BY <2>1, <2>2, <2>3, SubSeqProperties
<1>6. CASE ParseByte
  <2>1. buff # <<>> /\ buff' = Tail(buff) /\ line' = line /\ frame' = frame
    BY <1>6 DEF ParseByte, sender
  <2> QED
    BY <2>1
<1> QED
  BY <1>1, <1>2, <1>3, <1>4, <1>5, <1>6 DEF Next

(* The fields after a byte that the parser takes (qemu_mcu.c:118-142).          *)
LEMMA ParseType ==
  ASSUME ParserTypes, NEW c \in Byte, autolink_mcu_parse(c)
  PROVE  ParserTypes'
<1>1. pos \in 0..DataSize - 1 /\ data \in [0..DataSize - 1 -> Byte]
  BY DEF ParserTypes
<1>2. /\ checksum \in Byte /\ framecounter \in Byte /\ cmd1 \in Byte
      /\ ack \in Byte /\ len \in Byte
  BY DEF ParserTypes
<1>3. pos' \in 0..DataSize - 1 /\ data' \in [0..DataSize - 1 -> Byte]
  <2>1. pos \in Nat /\ pos <= DataSize - 1 /\ DataSize \in Nat
    BY <1>1, SizesAssumption
  <2>2. CASE Rejects(c)
    <3>1. pos' = 0 /\ data' = data
      BY <2>2 DEF autolink_mcu_parse
    <3> QED
      BY <1>1, <2>1, <3>1
  <2>3. CASE ~Rejects(c)
    <3>1. ~(pos >= DataSize - 1)
      BY <2>3, Zenon DEF Rejects
    <3>2. pos + 1 \in 0..DataSize - 1 /\ 0 \in 0..DataSize - 1
      BY <2>1, <3>1
    <3>3. pos' = 0 \/ pos' = pos + 1
      BY <2>3 DEF autolink_mcu_parse
    <3>4. data' = data \/ (pos >= 8 /\ data' = [data EXCEPT ![pos - 8] = c])
      BY <2>3 DEF autolink_mcu_parse
    <3>5. data' \in [0..DataSize - 1 -> Byte]
      BY <1>1, <3>4
    <3> QED
      BY <3>2, <3>3, <3>5
  <2> QED
    BY <2>2, <2>3
<1>4. /\ checksum' \in {c, checksum} /\ framecounter' \in {c, framecounter}
      /\ cmd1' \in {c, cmd1} /\ ack' \in {c, ack} /\ len' \in {c, len}
      /\ last' \in {"rejected", "byte", "frame", "bad sum"}
  BY DEF autolink_mcu_parse, Field
<1> QED
  BY <1>2, <1>3, <1>4 DEF ParserTypes

LEMMA ParserTypesNext ==
  ASSUME LineTypes, ParserTypes, Next
  PROVE  ParserTypes'
<1>1. CASE ParseByte
  <2>1. buff # <<>> /\ autolink_mcu_parse(Head(buff))
    BY <1>1 DEF ParseByte
  <2>2. Head(buff) \in Byte
    BY <2>1 DEF LineTypes
  <2> QED
    BY <2>1, <2>2, ParseType
<1>2. CASE ~ParseByte
  <2>1. UNCHANGED <<parser, last>>
    BY <1>2 DEF Next, autolink_mcu_init1, autolink_mcu_send_msg1, SendReturns,
                autolink_mcu_sendinfo1, Noise, ReadChunk
  <2> QED
    BY <2>1 DEF ParserTypes, parser
<1> QED
  BY <1>1, <1>2

LEMMA CountTypesNext ==
  ASSUME CountTypes, Next
  PROVE  CountTypes'
<1> USE DEF CountTypes
<1>1. up' \in BOOLEAN
  BY DEF Next, autolink_mcu_init1, autolink_mcu_send_msg1, SendReturns,
         autolink_mcu_sendinfo1, Noise, ReadChunk, ParseByte
<1>2. iter' \in 0..Times
  <2>1. iter' = iter \/ iter' = 0 \/ (iter < Times /\ iter' = iter + 1)
    BY DEF Next, autolink_mcu_init1, autolink_mcu_send_msg1, SendReturns,
           autolink_mcu_sendinfo1, Noise, ReadChunk, ParseByte, sender
  <2> QED
    BY <2>1, SizesAssumption
<1>3. sends' \in 0..MaxSends
  <2>1. sends' = sends \/ (sends < MaxSends /\ sends' = sends + 1)
    BY DEF Next, autolink_mcu_init1, autolink_mcu_send_msg1, SendReturns,
           autolink_mcu_sendinfo1, Noise, ReadChunk, ParseByte, sender
  <2> QED
    BY <2>1, SizesAssumption
<1>4. noise' \in 0..MaxNoise
  <2>1. noise' = noise \/ (noise < MaxNoise /\ noise' = noise + 1)
    BY DEF Next, autolink_mcu_init1, autolink_mcu_send_msg1, SendReturns,
           autolink_mcu_sendinfo1, Noise, ReadChunk, ParseByte
  <2> QED
    BY <2>1, SizesAssumption
<1>5. dirty' \in BOOLEAN
  BY DEF Next, autolink_mcu_init1, autolink_mcu_send_msg1, SendReturns,
         autolink_mcu_sendinfo1, Noise, ReadChunk, ParseByte
<1> QED
  BY <1>1, <1>2, <1>3, <1>4, <1>5

LEMMA HistoryTypesNext ==
  ASSUME LineTypes, HistoryTypes, Next
  PROVE  HistoryTypes'
<1> USE DEF HistoryTypes
<1>1. CASE ParseByte
  <2>1. buff # <<>>
        /\ recent' = [i \in 1..DataSize |-> IF i = 1 THEN Head(buff) ELSE recent[i - 1]]
    BY <1>1 DEF ParseByte
  <2>2. Head(buff) \in Byte
    BY <2>1 DEF LineTypes
  <2>3. recent' \in [1..DataSize -> Byte]
    BY <2>1, <2>2, SizesAssumption
  <2>4. due' = due \/ due' = <<>> \/ (due # <<>> /\ due' = Tail(due))
    BY <1>1 DEF ParseByte
  <2>5. due' \in Seq(Seq(Byte))
    <3>1. CASE due' = due
      BY <3>1
    <3>2. CASE due' = <<>>
      BY <3>2
    <3>3. CASE due # <<>> /\ due' = Tail(due)
      BY <3>3
    <3> QED
      BY <2>4, <3>1, <3>2, <3>3
  <2> QED
    BY <2>3, <2>5
<1>2. CASE autolink_mcu_sendinfo1
  <2>1. recent' = recent /\ (due' = due \/ due' = Append(due, frame))
    BY <1>2 DEF autolink_mcu_sendinfo1
  <2>2. CASE due' = due
    BY <2>1, <2>2
  <2>3. CASE due' = Append(due, frame)
    <3>1. due' \in Seq(Seq(Byte))
      BY <2>3 DEF LineTypes
    <3> QED
      BY <2>1, <3>1
  <2> QED
    BY <2>1, <2>2, <2>3
<1>3. CASE ~ParseByte /\ ~autolink_mcu_sendinfo1
  <2>1. UNCHANGED <<recent, due>>
    BY <1>3 DEF Next, autolink_mcu_init1, autolink_mcu_send_msg1, SendReturns,
                Noise, ReadChunk
  <2> QED
    BY <2>1
<1> QED
  BY <1>1, <1>2, <1>3

(* Every variable keeps its type; above all the position stays within the array *)
(* (qemu_mcu.c:86-92, 138-140).                                                 *)
THEOREM TypeCorrect == Spec => []TypeOK
<1>1. TypeOK /\ [Next]_vars => TypeOK'
  <2> SUFFICES ASSUME TypeOK, [Next]_vars PROVE TypeOK'
    OBVIOUS
  <2>1. CASE Next
    BY <2>1, LineTypesNext, ParserTypesNext, CountTypesNext, HistoryTypesNext DEF TypeOK
  <2>2. CASE UNCHANGED vars
    BY <2>2 DEF TypeOK, LineTypes, ParserTypes, CountTypes, HistoryTypes, vars, sender,
                parser
  <2> QED
    BY <2>1, <2>2
<1> QED
  BY <1>1, TypeInit, PTL DEF Spec

-------------------------------------------------------------------------------
(* Frames are unbroken runs of bytes                                            *)

LEMMA PosInArray ==
  ASSUME TypeOK
  PROVE  pos \in Nat /\ pos <= DataSize - 1 /\ DataSize \in Nat
<1>1. pos \in 0..DataSize - 1
  BY DEF TypeOK, ParserTypes
<1> QED
  BY <1>1, SizesAssumption

(* The bytes parsed last, after one more (the history variable).                *)
LEMMA RecentShifts ==
  ASSUME TypeOK, ParseByte, NEW n \in 0..DataSize - 1
  PROVE  /\ ByteOf(n + 1, n)' = Head(buff)
         /\ \A i \in 0..n - 1 : ByteOf(n + 1, i)' = ByteOf(n, i)
<1>1. recent' = [i \in 1..DataSize |-> IF i = 1 THEN Head(buff) ELSE recent[i - 1]]
  BY DEF ParseByte
<1>2. DataSize \in Nat /\ n \in Nat /\ n <= DataSize - 1
  BY SizesAssumption
<1>3. recent'[1] = Head(buff)
  BY <1>1, <1>2, SizesAssumption
<1>4. (n + 1) - n = 1
  BY <1>2
<1>5. ByteOf(n + 1, n)' = Head(buff)
  BY <1>3, <1>4 DEF ByteOf
<1>6. ASSUME NEW i \in 0..n - 1 PROVE ByteOf(n + 1, i)' = ByteOf(n, i)
  <2>1. (n + 1) - i \in 2..DataSize /\ ((n + 1) - i) - 1 = n - i
    BY <1>2
  <2>2. recent'[(n + 1) - i] = recent[n - i]
    BY <1>1, <1>2, <2>1
  <2> QED
    BY <2>2 DEF ByteOf
<1> QED
  BY <1>5, <1>6

(* A byte that the parser takes goes to the field of its place and to no other  *)
(* (qemu_mcu.c:118-142).                                                        *)
LEMMA TakenByteExtends ==
  ASSUME TypeOK, ParseByte, NEW n, n = pos, ReadAs(n), ~Rejects(Head(buff))
  PROVE  ReadAs(n + 1)'
<1> DEFINE c == Head(buff)
<1>1. autolink_mcu_parse(c)
  BY DEF ParseByte
<1>2. n \in Nat /\ n \in 0..DataSize - 1 /\ DataSize \in Nat
  BY PosInArray
<1>3. /\ ByteOf(n + 1, n)' = c
      /\ \A i \in 0..n - 1 : ByteOf(n + 1, i)' = ByteOf(n, i)
  BY <1>2, RecentShifts
<1>4. /\ n = 0 => c = SYNC_0
      /\ n = 1 => c = SYNC_1
      /\ n = 2 => c = NORMAL
  BY Zenon DEF Rejects
<1>5. /\ checksum' = IF n = 3 THEN c ELSE checksum
      /\ framecounter' = IF n = 4 THEN c ELSE framecounter
      /\ cmd1' = IF n = 5 THEN c ELSE cmd1
      /\ ack' = IF n = 6 THEN c ELSE ack
      /\ len' = IF n = 7 THEN c ELSE len
  BY <1>1 DEF autolink_mcu_parse, Field
<1>6. data' = IF n >= 8 THEN [data EXCEPT ![n - 8] = c] ELSE data
  BY <1>1 DEF autolink_mcu_parse
<1> HIDE DEF c
<1>7. /\ n + 1 > 0 => ByteOf(n + 1, 0)' = SYNC_0
      /\ n + 1 > 1 => ByteOf(n + 1, 1)' = SYNC_1
      /\ n + 1 > 2 => ByteOf(n + 1, 2)' = NORMAL
  <2>1. CASE n = 0
    BY <1>3, <1>4, <2>1
  <2>2. CASE n = 1
    BY <1>2, <1>3, <1>4, <2>2 DEF ReadAs
  <2>3. CASE n = 2
    BY <1>2, <1>3, <1>4, <2>3 DEF ReadAs
  <2>4. CASE n > 2
    BY <1>2, <1>3, <2>4 DEF ReadAs
  <2> QED
    BY <1>2, <2>1, <2>2, <2>3, <2>4
<1>8. /\ n + 1 > 3 => ByteOf(n + 1, 3)' = checksum'
      /\ n + 1 > 4 => ByteOf(n + 1, 4)' = framecounter'
      /\ n + 1 > 5 => ByteOf(n + 1, 5)' = cmd1'
      /\ n + 1 > 6 => ByteOf(n + 1, 6)' = ack'
      /\ n + 1 > 7 => ByteOf(n + 1, 7)' = len'
  <2>1. n + 1 > 3 => ByteOf(n + 1, 3)' = checksum'
    BY <1>2, <1>3, <1>5 DEF ReadAs
  <2>2. n + 1 > 4 => ByteOf(n + 1, 4)' = framecounter'
    BY <1>2, <1>3, <1>5 DEF ReadAs
  <2>3. n + 1 > 5 => ByteOf(n + 1, 5)' = cmd1'
    BY <1>2, <1>3, <1>5 DEF ReadAs
  <2>4. n + 1 > 6 => ByteOf(n + 1, 6)' = ack'
    BY <1>2, <1>3, <1>5 DEF ReadAs
  <2>5. n + 1 > 7 => ByteOf(n + 1, 7)' = len'
    BY <1>2, <1>3, <1>5 DEF ReadAs
  <2> QED
    BY <2>1, <2>2, <2>3, <2>4, <2>5
<1>9. ASSUME NEW i \in 8..(n + 1) - 1 PROVE ByteOf(n + 1, i)' = data'[i - 8]
  <2>1. i \in Int /\ i >= 8 /\ i <= n
    BY <1>2
  <2>2. data' = [data EXCEPT ![n - 8] = c]
    BY <1>2, <1>6, <2>1
  <2>3. data \in [0..DataSize - 1 -> Byte]
    BY DEF TypeOK, ParserTypes
  <2>4. CASE i = n
    <3>1. n - 8 \in 0..DataSize - 1
      BY <1>2, <2>1
    <3>2. data'[i - 8] = c
      BY <2>2, <2>3, <2>4, <3>1
    <3> QED
      BY <1>3, <2>4, <3>2
  <2>5. CASE i < n
    <3>1. /\ i - 8 \in 0..DataSize - 1 /\ i - 8 # n - 8
          /\ i \in 8..n - 1 /\ i \in 0..n - 1
      BY <1>2, <2>1, <2>5
    <3>2. data'[i - 8] = data[i - 8]
      BY <2>2, <2>3, <3>1
    <3>3. ByteOf(n, i) = data[i - 8]
      BY <3>1 DEF ReadAs
    <3> QED
      BY <1>3, <3>1, <3>2, <3>3
  <2> QED
    BY <1>2, <2>1, <2>4, <2>5
<1> QED
  BY <1>7, <1>8, <1>9 DEF ReadAs

LEMMA NothingReadYet ==
  ASSUME pos' = 0
  PROVE  ReadAs(pos)'
BY DEF ReadAs

LEMMA RunsNext == TypeOK /\ FramesAreRuns /\ [Next]_vars => FramesAreRuns'
<1> SUFFICES ASSUME TypeOK, FramesAreRuns, [Next]_vars PROVE FramesAreRuns'
  OBVIOUS
<1>1. CASE ~ParseByte
  <2>1. UNCHANGED <<parser, last, recent>>
    BY <1>1 DEF Next, vars, autolink_mcu_init1, autolink_mcu_send_msg1, SendReturns,
                autolink_mcu_sendinfo1, Noise, ReadChunk
  <2> QED
    <3>1. ReadAs(pos)'
      BY <2>1 DEF FramesAreRuns, ReadAs, ByteOf, parser
    <3>2. ASSUME last' = "frame"
          PROVE  \E m \in 8..DataSize - 1 :
                   m = len' + 8 /\ ReadAs(m)'
                   /\ checksum' = autolink_mcu_checksum2(len, data)'
      <4>1. PICK m \in 8..DataSize - 1 :
              m = len + 8 /\ ReadAs(m) /\ checksum = autolink_mcu_checksum2(len, data)
        BY <2>1, <3>2 DEF FramesAreRuns
      <4>2. ReadAs(m)'
        BY <2>1, <4>1 DEF ReadAs, ByteOf, parser
      <4>3. checksum' = autolink_mcu_checksum2(len, data)'
        BY <2>1, <4>1 DEF autolink_mcu_checksum2, parser
      <4> QED
        BY <2>1, <4>1, <4>2, <4>3 DEF parser
    <3> QED
      BY <3>1, <3>2 DEF FramesAreRuns
<1>2. CASE ParseByte /\ Rejects(Head(buff))
  <2>1. pos' = 0 /\ last' = "rejected"
    BY <1>2 DEF ParseByte, autolink_mcu_parse
  <2> QED
    BY <2>1, NothingReadYet DEF FramesAreRuns
<1>3. CASE ParseByte /\ ~Rejects(Head(buff))
  <2> DEFINE c == Head(buff)
  <2>1. PICK n \in Nat : n = pos /\ n <= DataSize - 1
    BY PosInArray
  <2>2. ReadAs(n)
    BY <2>1 DEF FramesAreRuns
  <2>3. ReadAs(n + 1)'
    BY <1>3, <2>1, <2>2, TakenByteExtends
  <2>4. n + 1 <= DataSize - 1 /\ DataSize \in Nat
    <3>1. ~(n >= DataSize - 1)
      BY <1>3, <2>1, Zenon DEF Rejects
    <3> QED
      BY <2>1, <3>1, SizesAssumption
  <2>5. autolink_mcu_parse(c)
    BY <1>3 DEF ParseByte
  <2>6. CASE pos' = 0
    <3>1. ReadAs(pos)'
      BY <2>6, NothingReadYet
    <3>2. ASSUME last' = "frame"
          PROVE  /\ n + 1 = len' + 8
                 /\ checksum = autolink_mcu_checksum2(len', data')
      BY <1>3, <2>1, <2>5, <3>2 DEF autolink_mcu_parse
    <3>3. len' \in Nat
      <4>1. ParserTypes'
        BY ParserTypesNext, <1>3 DEF Next, TypeOK
      <4>2. len' \in Byte
        BY <4>1, Zenon DEF ParserTypes
      <4> QED
        BY <4>2 DEF Byte
    <3>4. ASSUME last' = "frame"
          PROVE  n >= 7 /\ n + 1 \in 8..DataSize - 1
      <4>1. PICK k \in Nat : k = len'
        BY <3>3
      <4>2. n + 1 = k + 8
        BY <3>2, <3>4, <4>1
      <4> QED
        BY <2>1, <2>4, <4>2
    <3>5. ASSUME last' = "frame"
          PROVE  UNCHANGED <<checksum, framecounter, cmd1, ack>>
      <4>1. pos # 3 /\ pos # 4 /\ pos # 5 /\ pos # 6
        BY <2>1, <3>4, <3>5
      <4> QED
        BY <1>3, <2>5, <4>1 DEF autolink_mcu_parse, Field
    <3>6. ASSUME last' = "frame"
          PROVE  checksum' = autolink_mcu_checksum2(len, data)'
      BY <3>2, <3>5, <3>6, Zenon DEF autolink_mcu_checksum2
    <3>7. ASSUME last' = "frame"
          PROVE  \E m \in 8..DataSize - 1 :
                   m = len' + 8 /\ ReadAs(m)'
                   /\ checksum' = autolink_mcu_checksum2(len, data)'
      <4>1. n + 1 \in 8..DataSize - 1
        BY <3>4, <3>7
      <4> QED
        BY <2>3, <3>2, <3>6, <3>7, <4>1
    <3> QED
      BY <3>1, <3>7 DEF FramesAreRuns
  <2>7. CASE pos' # 0
    <3>1. pos' = n + 1 /\ last' = "byte"
      BY <1>3, <2>1, <2>5, <2>7 DEF autolink_mcu_parse
    <3>2. ReadAs(pos)'
      BY <2>3, <3>1, Zenon DEF ReadAs
    <3> QED
      BY <3>1, <3>2 DEF FramesAreRuns
  <2> QED
    BY <2>6, <2>7
<1> QED
  BY <1>1, <1>2, <1>3 DEF Next, vars

(* Whatever the line carries, what the parser holds of a frame is an unbroken   *)
(* run of the bytes parsed last, and a frame it accepts is such a run, within   *)
(* its array (qemu_mcu.c:84-158).                                               *)
THEOREM AcceptedFramesAreRuns == Spec => []FramesAreRuns
<1>1. Init => FramesAreRuns
  BY DEF Init, FramesAreRuns, ReadAs
<1> QED
  BY <1>1, RunsNext, TypeCorrect, PTL DEF Spec

-------------------------------------------------------------------------------
(* The concatenation of frames                                                  *)

(* A set that holds 0 and with each number the next holds them all.             *)
LEMMA NatSetInduction ==
  ASSUME NEW S, 0 \in S, \A n \in Nat : n \in S => n + 1 \in S
  PROVE  \A n \in Nat : n \in S
<1> DEFINE R == {p \in Nat \X Nat : p[1] < p[2]}
           T == Nat \ S
<1>1. SUFFICES ASSUME T # {} PROVE FALSE
  OBVIOUS
<1>2. IsWellFoundedOn(R, Nat)
  BY NatLessThanWellFounded DEF OpToRel
<1>3. PICK m \in T : \A k \in T : ~ (<<k, m>> \in R)
  <2>1. T \subseteq Nat
    OBVIOUS
  <2> HIDE DEF R, T
  <2> QED
    BY <1>1, <1>2, <2>1, WFMin
<1>4. m \in Nat /\ m # 0 /\ m - 1 \in Nat /\ <<m - 1, m>> \in R
  OBVIOUS
<1>5. m - 1 \in S
  BY <1>3, <1>4
<1>6. (m - 1) + 1 \in S
  BY <1>4, <1>5
<1> QED
  BY <1>4, <1>6

(* The function that Concatenated defines by recursion, as far as n.            *)
Cats(fs, n, g) ==
  /\ g \in [0..n -> Seq(Byte)]
  /\ g[0] = <<>>
  /\ \A i \in 1..n : g[i] = g[i - 1] \o fs[i]

LEMMA CatsExist ==
  ASSUME NEW fs \in Seq(Seq(Byte))
  PROVE  \E g : Cats(fs, Len(fs), g)
<1> DEFINE S == {n \in Nat : n <= Len(fs) => \E g : Cats(fs, n, g)}
<1>1. 0 \in S
  <2>1. <<>> \in Seq(Byte)
    OBVIOUS
  <2>2. Cats(fs, 0, [i \in 0..0 |-> <<>>])
    BY <2>1 DEF Cats
  <2> QED
    BY <2>2
<1>2. ASSUME NEW n \in Nat, n \in S PROVE n + 1 \in S
  <2>1. SUFFICES ASSUME n + 1 <= Len(fs) PROVE \E g : Cats(fs, n + 1, g)
    OBVIOUS
  <2>2. PICK g : Cats(fs, n, g)
    BY <1>2, <2>1
  <2>3. /\ g \in [0..n -> Seq(Byte)] /\ g[0] = <<>>
        /\ \A i \in 1..n : g[i] = g[i - 1] \o fs[i]
    BY <2>2 DEF Cats
  <2>4. fs[n + 1] \in Seq(Byte) /\ g[n] \in Seq(Byte)
    BY <2>1, <2>3
  <2>5. PICK x \in Seq(Byte) : x = g[n] \o fs[n + 1]
    <3>1. \A a, b \in Seq(Byte) : a \o b \in Seq(Byte)
      OBVIOUS
    <3> QED
      BY <2>4, <3>1, Zenon
  <2> DEFINE h == [i \in 0..n + 1 |-> IF i = n + 1 THEN x ELSE g[i]]
  <2>6. h \in [0..n + 1 -> Seq(Byte)] /\ h[0] = <<>>
    BY <2>3
  <2>7. ASSUME NEW i \in 1..n + 1 PROVE h[i] = h[i - 1] \o fs[i]
    <3>1. CASE i = n + 1
      <4>1. h[i] = x /\ h[i - 1] = g[n] /\ i - 1 = n
        BY <3>1
      <4> QED
        BY <3>1, <4>1, <2>5
    <3>2. CASE i # n + 1
      <4>1. h[i] = g[i] /\ h[i - 1] = g[i - 1] /\ i \in 1..n
        BY <3>2
      <4> QED
        BY <4>1, <2>3
    <3> QED
      BY <3>1, <3>2
  <2> HIDE DEF h
  <2>8. Cats(fs, n + 1, h)
    BY <2>6, <2>7 DEF Cats
  <2> QED
    BY <2>8
<1> HIDE DEF S
<1>3. Len(fs) \in S
  BY <1>1, <1>2, NatSetInduction
<1> QED
  BY <1>3 DEF S

(* Whatever follows the recursion gives the concatenation.                      *)
LEMMA CatIs ==
  ASSUME NEW fs \in Seq(Seq(Byte)), NEW h, Cats(fs, Len(fs), h)
  PROVE  Concatenated(fs) = h[Len(fs)]
<1> DEFINE Equation(g) == g = [i \in 0..Len(fs) |-> IF i = 0 THEN <<>> ELSE g[i - 1] \o fs[i]]
           cat == CHOOSE g : Equation(g)
<1>1. Concatenated(fs) = cat[Len(fs)]
  BY DEF Concatenated
<1>2. Equation(h)
  <2>1. h \in [0..Len(fs) -> Seq(Byte)]
    BY DEF Cats
  <2>2. ASSUME NEW i \in 0..Len(fs)
        PROVE  h[i] = IF i = 0 THEN <<>> ELSE h[i - 1] \o fs[i]
    <3>1. h[0] = <<>> /\ \A j \in 1..Len(fs) : h[j] = h[j - 1] \o fs[j]
      BY DEF Cats
    <3>2. CASE i = 0
      BY <3>1, <3>2
    <3>3. CASE i # 0
      <4>1. i \in 1..Len(fs)
        BY <3>3
      <4> QED
        BY <3>1, <3>3, <4>1, Zenon
    <3> QED
      BY <3>2, <3>3
  <2> QED
    BY <2>1, <2>2
<1>3. Equation(cat)
  <2> HIDE DEF Equation
  <2> QED
    BY <1>2
<1> HIDE DEF cat
<1>4. ASSUME NEW i \in 0..Len(fs)
      PROVE  cat[i] = IF i = 0 THEN <<>> ELSE cat[i - 1] \o fs[i]
  BY <1>3
<1> DEFINE S == {n \in Nat : n <= Len(fs) => cat[n] = h[n]}
<1>5. 0 \in S
  BY <1>4 DEF Cats
<1>6. ASSUME NEW n \in Nat, n \in S PROVE n + 1 \in S
  <2>1. SUFFICES ASSUME n + 1 <= Len(fs) PROVE cat[n + 1] = h[n + 1]
    OBVIOUS
  <2>2. n + 1 \in 1..Len(fs) /\ (n + 1) - 1 = n /\ cat[n] = h[n] /\ n + 1 # 0
    BY <1>6, <2>1
  <2>3. cat[n + 1] = cat[n] \o fs[n + 1]
    <3>1. PICK i \in 0..Len(fs) : i = n + 1 /\ i - 1 = n /\ i # 0
      BY <2>1, <2>2
    <3>2. cat[i] = cat[i - 1] \o fs[i]
      BY <3>1, <1>4, Zenon
    <3> QED
      BY <3>1, <3>2, Zenon
  <2>4. h[n + 1] = h[n] \o fs[n + 1]
    BY <2>2 DEF Cats
  <2> QED
    BY <2>2, <2>3, <2>4
<1> HIDE DEF S
<1>7. Len(fs) \in S
  BY <1>5, <1>6, NatSetInduction
<1> QED
  BY <1>1, <1>7 DEF S

LEMMA CatOfNone == Concatenated(<<>>) = <<>>
<1>1. <<>> \in Seq(Seq(Byte)) /\ Len(<<>>) = 0 /\ <<>> \in Seq(Byte)
  OBVIOUS
<1>2. PICK g : Cats(<<>>, Len(<<>>), g)
  BY <1>1, CatsExist, Zenon
<1>3. Concatenated(<<>>) = g[Len(<<>>)]
  BY <1>1, <1>2, CatIs, Zenon
<1> QED
  BY <1>1, <1>2, <1>3 DEF Cats

LEMMA CatType ==
  ASSUME NEW fs \in Seq(Seq(Byte))
  PROVE  Concatenated(fs) \in Seq(Byte)
<1>1. PICK g : Cats(fs, Len(fs), g)
  BY CatsExist
<1>2. g[Len(fs)] \in Seq(Byte)
  BY <1>1 DEF Cats
<1> QED
  BY <1>1, <1>2, CatIs

LEMMA CatOfAppend ==
  ASSUME NEW fs \in Seq(Seq(Byte)), NEW f \in Seq(Byte)
  PROVE  Concatenated(Append(fs, f)) = Concatenated(fs) \o f
<1>1. PICK gs : gs = Append(fs, f)
  OBVIOUS
<1>2. gs \in Seq(Seq(Byte)) /\ Len(gs) = Len(fs) + 1 /\ gs[Len(fs) + 1] = f
      /\ \A i \in 1..Len(fs) : gs[i] = fs[i]
  BY <1>1
<1>3. PICK n \in Nat : n = Len(fs)
  OBVIOUS
<1>4. PICK g : Cats(fs, n, g)
  BY <1>3, CatsExist
<1>5. Concatenated(fs) = g[n]
  BY <1>3, <1>4, CatIs
<1>6. PICK h : Cats(gs, n + 1, h)
  BY <1>2, <1>3, CatsExist
<1>7. Concatenated(gs) = h[n + 1]
  BY <1>2, <1>3, <1>6, CatIs
<1>8. h[n + 1] = h[n] \o f
  <2>1. n + 1 \in 1..n + 1 /\ (n + 1) - 1 = n /\ gs[n + 1] = f
    BY <1>2, <1>3
  <2>2. h[n + 1] = h[(n + 1) - 1] \o gs[n + 1]
    BY <1>6, <2>1 DEF Cats
  <2> QED
    BY <2>1, <2>2
<1>9. PICK r : r = [i \in 0..n |-> h[i]]
  OBVIOUS
<1>10. Cats(fs, n, r) /\ r[n] = h[n]
  <2>1. r \in [0..n -> Seq(Byte)] /\ r[0] = <<>>
    BY <1>6, <1>9 DEF Cats
  <2>2. ASSUME NEW i \in 1..n PROVE r[i] = r[i - 1] \o fs[i]
    <3>1. i \in 1..n + 1 /\ i \in 0..n /\ i - 1 \in 0..n /\ gs[i] = fs[i]
      BY <1>2, <1>3
    <3>2. h[i] = h[i - 1] \o gs[i]
      BY <1>6, <3>1 DEF Cats
    <3> QED
      BY <3>1, <3>2, <1>9
  <2>3. r[n] = h[n]
    BY <1>9
  <2> QED
    BY <2>1, <2>2, <2>3 DEF Cats
<1>11. Concatenated(fs) = h[n]
  BY <1>3, <1>10, CatIs
<1> QED
  BY <1>1, <1>7, <1>8, <1>11

LEMMA CatOfTail ==
  ASSUME NEW fs \in Seq(Seq(Byte)), fs # <<>>
  PROVE  Concatenated(fs) = Head(fs) \o Concatenated(Tail(fs))
<1>1. PICK gs, f : gs = Tail(fs) /\ f = Head(fs)
  OBVIOUS
<1>2. /\ gs \in Seq(Seq(Byte)) /\ f \in Seq(Byte) /\ f = fs[1] /\ Len(fs) = Len(gs) + 1
      /\ \A i \in 1..Len(gs) : gs[i] = fs[i + 1] /\ gs[i] \in Seq(Byte)
  BY <1>1
<1>3. PICK n \in Nat : n = Len(gs)
  BY <1>2
<1>4. PICK g : Cats(gs, n, g)
  BY <1>2, <1>3, CatsExist
<1>5. Concatenated(gs) = g[n]
  BY <1>2, <1>3, <1>4, CatIs
<1>6. g \in [0..n -> Seq(Byte)] /\ g[0] = <<>> /\ \A i \in 1..n : g[i] = g[i - 1] \o gs[i]
  BY <1>4 DEF Cats
<1> DEFINE h == [i \in 0..n + 1 |-> IF i = 0 THEN <<>> ELSE f \o g[i - 1]]
<1>7. h \in [0..n + 1 -> Seq(Byte)] /\ h[0] = <<>>
  <2>1. \A a, b \in Seq(Byte) : a \o b \in Seq(Byte)
    OBVIOUS
  <2>2. <<>> \in Seq(Byte)
    OBVIOUS
  <2>3. ASSUME NEW i \in 0..n + 1, i # 0 PROVE f \o g[i - 1] \in Seq(Byte)
    <3>1. i - 1 \in 0..n
      BY <2>3
    <3>2. g[i - 1] \in Seq(Byte)
      BY <1>6, <3>1
    <3> QED
      BY <1>2, <2>1, <3>2, Zenon
  <2> QED
    BY <2>2, <2>3
<1>8. ASSUME NEW i \in 1..n + 1 PROVE h[i] = h[i - 1] \o fs[i]
  <2>1. h[i] = f \o g[i - 1]
    OBVIOUS
  <2>2. CASE i = 1
    <3>1. h[i - 1] = <<>> /\ g[i - 1] = <<>> /\ fs[i] = f
      BY <2>2, <1>2, <1>6
    <3>2. f \o <<>> = f /\ <<>> \o f = f
      BY <1>2
    <3> QED
      BY <2>1, <3>1, <3>2
  <2>3. CASE i # 1
    <3>1. PICK j \in 1..n : j = i - 1
      BY <2>3
    <3>2. j - 1 \in 0..n /\ j + 1 = i /\ j \in 0..n + 1 /\ j # 0
      BY <3>1
    <3>3. g[j] = g[j - 1] \o gs[j]
      BY <1>6
    <3>4. gs[j] = fs[i] /\ gs[j] \in Seq(Byte)
      BY <1>2, <1>3, <3>2
    <3>5. h[j] = f \o g[j - 1]
      BY <3>2
    <3>6. g[j - 1] \in Seq(Byte)
      BY <1>6, <3>2
    <3>7. \A a, b, c \in Seq(Byte) : a \o (b \o c) = (a \o b) \o c
      OBVIOUS
    <3>8. f \o (g[j - 1] \o gs[j]) = (f \o g[j - 1]) \o gs[j]
      BY <1>2, <3>6, <3>7, <3>4, Zenon
    <3> QED
      BY <2>1, <3>1, <3>5, <3>8, <3>3, <3>4
  <2> QED
    BY <2>2, <2>3
<1>9. Cats(fs, n + 1, h)
  <2> HIDE DEF h
  <2> QED
    BY <1>7, <1>8 DEF Cats
<1>10. Concatenated(fs) = h[n + 1]
  <2> HIDE DEF h
  <2> QED
    BY <1>2, <1>3, <1>9, CatIs
<1>11. h[n + 1] = f \o g[n]
  <2>1. n + 1 \in 0..n + 1 /\ n + 1 # 0 /\ (n + 1) - 1 = n
    OBVIOUS
  <2>2. h[n + 1] = f \o g[(n + 1) - 1]
    BY <2>1, Zenon
  <2> QED
    BY <2>1, <2>2, Zenon
<1> QED
  <2> HIDE DEF h
  <2> QED
    BY <1>1, <1>5, <1>10, <1>11, Zenon

-------------------------------------------------------------------------------
(* On a clean line every message arrives                                        *)

(* x is a followed by b.                                                        *)
Joins(x, a, b) ==
  /\ x \in Seq(Byte) /\ Len(x) = Len(a) + Len(b)
  /\ \A i \in 1..Len(a) : x[i] = a[i]
  /\ \A i \in 1..Len(b) : x[Len(a) + i] = b[i]

LEMMA JoinFacts ==
  ASSUME NEW a \in Seq(Byte), NEW b \in Seq(Byte)
  PROVE  Joins(a \o b, a, b)
BY DEF Joins

LEMMA JoinUnique ==
  ASSUME NEW a \in Seq(Byte), NEW b \in Seq(Byte), NEW x, NEW y, Joins(x, a, b), Joins(y, a, b)
  PROVE  x = y
<1>1. /\ x \in Seq(Byte) /\ y \in Seq(Byte) /\ Len(x) = Len(a) + Len(b) /\ Len(y) = Len(x)
  BY DEF Joins
<1>2. ASSUME NEW i \in 1..Len(x) PROVE x[i] = y[i]
  <2>1. CASE i <= Len(a)
    <3>1. i \in 1..Len(a)
      BY <2>1
    <3> QED
      BY <3>1 DEF Joins
  <2>2. CASE i > Len(a)
    <3>1. i - Len(a) \in 1..Len(b) /\ Len(a) + (i - Len(a)) = i
      BY <1>1, <2>2
    <3> QED
      BY <3>1 DEF Joins
  <2> QED
    BY <2>1, <2>2
<1> QED
  BY <1>1, <1>2

(* What is on its way: frames of messages, each of which fits the array; and    *)
(* the parser has not gone past the end of the frame it is in.                  *)
Sent(f) == \E m \in Messages : f = Encode(m)
FramesSent ==
  /\ frame = <<>> \/ Sent(frame)
  /\ \A i \in DOMAIN due : Sent(due[i]) /\ Fits(due[i])
WithinFrame == pos >= 8 => pos < len + 8

(* The n bytes parsed last, the oldest first.                                   *)
Held(n) == [i \in 1..n |-> ByteOf(n, i - 1)]

CleanInv == TypeOK /\ FramesAreRuns /\ FramesSent /\ WithinFrame /\ CleanLineDelivers

LEMMA NoByteHeld == Held(0) = <<>>
  BY DEF Held

(* A frame and what it carries.                                                 *)
Shaped(f, d) ==
  /\ f \in Seq(Byte) /\ Len(f) = 8 + Len(d) /\ Len(d) \in Byte
  /\ f[1] = SYNC_0 /\ f[2] = SYNC_1 /\ f[3] = NORMAL
  /\ f[4] = XorOf(<<NORMAL, f[5], f[6], f[7], f[8]>> \o d)
  /\ f[8] = Len(d)
  /\ \A i \in 1..Len(d) : f[8 + i] = d[i]

(* The layout of a frame (qemu_mcu.c:200-212).                                  *)
LEMMA FrameShape ==
  ASSUME NEW m \in Messages, NEW f, f = Encode(m)
  PROVE  \E d \in Seq(Byte) : Shaped(f, d)
<1>1. PICK d \in Seq(Byte), n \in Nat : m.data = d /\ n = Len(d)
  BY MessagesAssumption
<1>2. n <= 127
  BY <1>1, MessagesAssumption
<1>3. Len(m.data) = n
  BY <1>1, Zenon
<1>4. PICK c : c = m.cmd1
  OBVIOUS
<1> DEFINE body == <<0, c, 0, n>> \o d
           head == <<NORMAL>> \o body
<1>5. head = <<NORMAL, 0, c, 0, n>> \o d
  BY <1>1
<1>6. PICK x : x = XorOf(head)
  OBVIOUS
<1>7. f = <<SYNC_0, SYNC_1, NORMAL, x>> \o body
  BY <1>1, <1>3, <1>4, <1>6, Zenon DEF Encode
<1>8. /\ Len(f) = 8 + n /\ f[1] = SYNC_0 /\ f[2] = SYNC_1 /\ f[3] = NORMAL /\ f[4] = x
      /\ f[5] = 0 /\ f[6] = c /\ f[7] = 0 /\ f[8] = n
      /\ \A i \in 1..n : f[8 + i] = d[i]
  BY <1>1, <1>7
<1>9. f \in Seq(Byte)
  BY EncodeType
<1>10. f[4] = XorOf(<<NORMAL, f[5], f[6], f[7], f[8]>> \o d)
  BY <1>5, <1>6, <1>8, Zenon
<1>11. n \in Byte
  BY <1>2 DEF Byte
<1>12. Shaped(f, d)
  BY <1>1, <1>8, <1>9, <1>10, <1>11 DEF Shaped
<1> QED
  BY <1>12

LEMMA SentShape ==
  ASSUME NEW f, Sent(f)
  PROVE  \E d \in Seq(Byte) : Shaped(f, d)
BY FrameShape DEF Sent

(* The parser ends a frame where it says it ends, never later                   *)
(* (qemu_mcu.c:138-157).                                                        *)
LEMMA WithinFrameNext ==
  ASSUME TypeOK, WithinFrame, ParseByte
  PROVE  WithinFrame'
<1> DEFINE c == Head(buff)
<1>1. autolink_mcu_parse(c)
  BY DEF ParseByte
<1>2. c \in Nat
  <2>1. buff # <<>> /\ buff \in Seq(Byte)
    BY DEF ParseByte, TypeOK, LineTypes
  <2>2. c \in Byte
    BY <2>1
  <2> QED
    BY <2>2 DEF Byte
<1>3. pos \in Nat /\ len \in Nat
  <2>1. len \in Byte
    BY Zenon DEF TypeOK, ParserTypes
  <2> QED
    BY <2>1, PosInArray DEF Byte
<1> HIDE DEF c
<1>4. CASE Rejects(c)
  BY <1>1, <1>4 DEF autolink_mcu_parse, WithinFrame
<1>5. CASE ~Rejects(c)
  <2>1. PICK l : l = Field(c, 7, len)
    OBVIOUS
  <2>2. len' = l /\ (pos' = 0 \/ (pos + 1 # l + 8 /\ pos' = pos + 1))
    BY <1>1, <1>5, <2>1 DEF autolink_mcu_parse
  <2>3. l = IF pos = 7 THEN c ELSE len
    BY <2>1 DEF Field
  <2> QED
    BY <1>2, <1>3, <2>2, <2>3 DEF WithinFrame
<1> QED
  BY <1>4, <1>5

(* The bytes held are the beginning of f, as far as f goes.                     *)
Begins(f) == \A i \in 0..pos - 1 : i < Len(f) => ByteOf(pos, i) = f[i + 1]

LEMMA FrameNotPassed ==
  ASSUME TypeOK, ReadAs(pos), WithinFrame, NEW f, Sent(f), Begins(f)
  PROVE  pos < Len(f) /\ Len(f) \in Nat
<1>1. PICK d \in Seq(Byte) : /\ Len(f) = 8 + Len(d) /\ f[8] = Len(d)
  <2>1. PICK d \in Seq(Byte) : Shaped(f, d)
    BY SentShape
  <2> QED BY <2>1, Zenon DEF Shaped
<1>2. PICK n \in Nat, l \in Nat : n = pos /\ l = len
  <2>1. len \in Byte
    BY Zenon DEF TypeOK, ParserTypes
  <2> QED
    BY <2>1, PosInArray DEF Byte
<1>3. CASE n < 8
  BY <1>1, <1>2, <1>3
<1>4. CASE n >= 8
  <2>1. ByteOf(n, 7) = len
    BY <1>2, <1>4 DEF ReadAs
  <2>2. 7 \in 0..n - 1 /\ 7 + 1 = 8 /\ 7 < Len(f)
    BY <1>1, <1>2, <1>4
  <2>3. ByteOf(n, 7) = f[8]
    BY <1>2, <2>2 DEF Begins
  <2>4. PICK k \in Nat : k = Len(d) /\ l = k /\ Len(f) = 8 + k
    BY <1>1, <1>2, <2>1, <2>3
  <2>5. n < 8 + l
    BY <1>2, <1>4 DEF WithinFrame
  <2> QED
    BY <1>2, <2>4, <2>5
<1> QED
  BY <1>2, <1>3, <1>4

(* The parser takes a frame byte by byte and accepts it with its last one       *)
(* (qemu_mcu.c:84-158).                                                         *)
LEMMA NextByteOfFrame ==
  ASSUME TypeOK, ReadAs(pos), WithinFrame, ParseByte,
         NEW f, Sent(f), Fits(f), Begins(f), Head(buff) = f[pos + 1]
  PROVE  \/ pos + 1 < Len(f) /\ pos' = pos + 1 /\ last' = "byte"
         \/ pos + 1 = Len(f) /\ pos' = 0 /\ last' = "frame" /\ Received = f
<1> DEFINE c == Head(buff)
<1>1. PICK d \in Seq(Byte) :
        /\ f \in Seq(Byte) /\ Len(f) = 8 + Len(d) /\ Len(d) \in Byte
        /\ f[1] = SYNC_0 /\ f[2] = SYNC_1 /\ f[3] = NORMAL
        /\ f[4] = XorOf(<<NORMAL, f[5], f[6], f[7], f[8]>> \o d)
        /\ f[8] = Len(d)
        /\ \A i \in 1..Len(d) : f[8 + i] = d[i]
  <2>1. PICK d \in Seq(Byte) : Shaped(f, d)
    BY SentShape
  <2> QED BY <2>1, Zenon DEF Shaped
<1>2. PICK n \in Nat, k \in Nat : n = pos /\ k = Len(d) /\ n < 8 + k /\ f[8] = k
                                 /\ n <= DataSize - 1 /\ DataSize \in Nat
  BY <1>1, FrameNotPassed, PosInArray
<1>3. autolink_mcu_parse(c) /\ c = f[n + 1]
  BY <1>2 DEF ParseByte
<1>4. 8 + k <= DataSize - 1
  BY <1>1, <1>2 DEF Fits
<1>5. \A i \in 0..n - 1 : ByteOf(n, i) = f[i + 1]
  <2>1. \A i \in 0..n - 1 : i < Len(f)
    BY <1>1, <1>2
  <2> QED
    BY <1>2, <2>1 DEF Begins
<1> HIDE DEF c
<1>6. ~Rejects(c)
  <2>1. ~(n >= DataSize - 1)
    BY <1>2, <1>4
  <2>2. /\ n = 0 => c = SYNC_0
        /\ n = 1 => c = SYNC_1
        /\ n = 2 => c = NORMAL
    BY <1>1, <1>3
  <2> QED
    BY <1>2, <2>1, <2>2 DEF Rejects
<1>7. ReadAs(n + 1)'
  BY <1>2, <1>6, TakenByteExtends DEF c
<1>8. ASSUME NEW i \in 0..n PROVE ByteOf(n + 1, i)' = f[i + 1]
  <2>1. n \in 0..DataSize - 1
    BY <1>2, <1>4
  <2>2. /\ ByteOf(n + 1, n)' = c
        /\ \A j \in 0..n - 1 : ByteOf(n + 1, j)' = ByteOf(n, j)
    BY <2>1, RecentShifts DEF c
  <2>3. CASE i = n
    BY <1>3, <2>2, <2>3
  <2>4. CASE i # n
    <3>1. i \in 0..n - 1
      BY <2>4
    <3> QED
      BY <1>5, <2>2, <3>1
  <2> QED
    BY <2>3, <2>4
<1>9. PICK l \in Nat : /\ l = len' /\ l = Field(c, 7, len)
                       /\ n >= 7 => l = k
  <2>1. len' = Field(c, 7, len)
    BY <1>3, <1>6 DEF autolink_mcu_parse
  <2>2. len' \in Byte
    <3>1. LineTypes /\ ParserTypes /\ Next
      BY DEF TypeOK, Next
    <3>2. ParserTypes'
      BY <3>1, ParserTypesNext
    <3> QED
      BY <3>2, Zenon DEF ParserTypes
  <2>3. ASSUME n >= 7 PROVE len' = k
    <3>1. ByteOf(n + 1, 7)' = len'
      BY <1>7, <2>3, <1>2 DEF ReadAs
    <3>2. 7 \in 0..n /\ 7 + 1 = 8
      BY <1>2, <2>3
    <3>3. ByteOf(n + 1, 7)' = f[8]
      BY <1>8, <3>2
    <3> QED
      BY <1>2, <3>1, <3>3
  <2>4. len' \in Nat
    BY <2>2 DEF Byte
  <2> QED
    BY <2>1, <2>3, <2>4
<1>10. CASE n + 1 < 8 + k
  <2>1. n + 1 # l + 8
    BY <1>2, <1>9, <1>10
  <2>2. pos' = pos + 1 /\ last' = "byte"
    BY <1>2, <1>3, <1>6, <1>9, <2>1 DEF autolink_mcu_parse
  <2> QED
    BY <1>1, <1>2, <1>10, <2>2
<1>11. CASE ~(n + 1 < 8 + k)
  <2>1. n + 1 = 8 + k /\ l = k /\ n >= 7
    BY <1>2, <1>9, <1>11
  <2>2. /\ checksum' = f[4] /\ framecounter' = f[5] /\ cmd1' = f[6] /\ ack' = f[7]
    <3>1. /\ ByteOf(n + 1, 3)' = checksum' /\ ByteOf(n + 1, 4)' = framecounter'
          /\ ByteOf(n + 1, 5)' = cmd1' /\ ByteOf(n + 1, 6)' = ack'
      BY <1>2, <1>7, <2>1 DEF ReadAs
    <3>2. /\ 3 \in 0..n /\ 4 \in 0..n /\ 5 \in 0..n /\ 6 \in 0..n
          /\ 3 + 1 = 4 /\ 4 + 1 = 5 /\ 5 + 1 = 6 /\ 6 + 1 = 7
      BY <1>2, <2>1
    <3>3. /\ ByteOf(n + 1, 3)' = f[4] /\ ByteOf(n + 1, 4)' = f[5]
          /\ ByteOf(n + 1, 5)' = f[6] /\ ByteOf(n + 1, 6)' = f[7]
      BY <1>8, <3>2
    <3> QED
      BY <3>1, <3>3
  <2>3. /\ checksum' = checksum /\ framecounter' = framecounter /\ cmd1' = cmd1
        /\ ack' = ack
    <3>1. pos # 3 /\ pos # 4 /\ pos # 5 /\ pos # 6
      BY <1>2, <2>1
    <3> QED
      BY <1>3, <1>6, <3>1 DEF autolink_mcu_parse, Field
  <2>4. [i \in 1..k |-> data'[i - 1]] = d
    <3>1. ASSUME NEW i \in 1..k PROVE data'[i - 1] = d[i]
      <4>1. PICK j \in 8..(n + 1) - 1 : j = i + 7 /\ j - 8 = i - 1 /\ j + 1 = 8 + i /\ j \in 0..n
        BY <1>2, <2>1
      <4>2. ByteOf(n + 1, j)' = data'[j - 8]
        BY <1>7, <4>1 DEF ReadAs
      <4>3. ByteOf(n + 1, j)' = f[j + 1]
        BY <1>8, <4>1
      <4>4. f[8 + i] = d[i]
        BY <1>1, <1>2
      <4> QED
        BY <4>1, <4>2, <4>3, <4>4
    <3>2. [i \in 1..k |-> data'[i - 1]] = [i \in 1..k |-> d[i]]
      BY <3>1
    <3>3. [i \in 1..k |-> d[i]] = d
      BY <1>2
    <3> QED
      BY <3>2, <3>3
  <2>5. autolink_mcu_checksum2(l, data') = f[4]
    <3>1. autolink_mcu_checksum2(l, data') = XorOf(<<NORMAL, f[5], f[6], f[7], k>> \o d)
      BY <2>1, <2>2, <2>3, <2>4, Zenon DEF autolink_mcu_checksum2
    <3> QED
      BY <1>1, <1>2, <3>1, Zenon
  <2>6. pos' = 0 /\ last' = "frame"
    <3>1. PICK nd : nd = data' /\ nd = IF pos >= 8 THEN [data EXCEPT ![pos - 8] = c] ELSE data
      BY <1>3, <1>6 DEF autolink_mcu_parse
    <3>2. pos + 1 = l + 8 /\ checksum = autolink_mcu_checksum2(l, nd)
      BY <1>2, <2>1, <2>2, <2>3, <2>5, <3>1
    <3> QED
      BY <1>3, <1>6, <1>9, <3>1, <3>2 DEF autolink_mcu_parse
  <2>7. Received = f
    <3>1. Received = <<SYNC_0, SYNC_1, NORMAL, f[4], f[5], f[6], f[7], k>> \o d
      BY <1>9, <2>1, <2>2, <2>4, Zenon DEF Received
    <3>2. PICK r : r = <<SYNC_0, SYNC_1, NORMAL, f[4], f[5], f[6], f[7], k>> \o d
      OBVIOUS
    <3>3. /\ r \in Seq(Byte) /\ Len(r) = 8 + k
          /\ r[1] = SYNC_0 /\ r[2] = SYNC_1 /\ r[3] = NORMAL /\ r[4] = f[4]
          /\ r[5] = f[5] /\ r[6] = f[6] /\ r[7] = f[7] /\ r[8] = k
          /\ \A i \in 1..k : r[8 + i] = d[i]
      <4>1. PICK h : h = <<SYNC_0, SYNC_1, NORMAL, f[4], f[5], f[6], f[7], k>>
        OBVIOUS
      <4>2. /\ SYNC_0 \in Byte /\ SYNC_1 \in Byte /\ NORMAL \in Byte /\ k \in Byte
            /\ f[4] \in Byte /\ f[5] \in Byte /\ f[6] \in Byte /\ f[7] \in Byte
        <5>1. SYNC_0 \in Byte /\ SYNC_1 \in Byte /\ NORMAL \in Byte
          BY DEF SYNC_0, SYNC_1, NORMAL, Byte
        <5>2. k \in Byte
          BY <1>1, <1>2
        <5>3. f \in Seq(Byte) /\ Len(f) = 8 + k
          BY <1>1, <1>2
        <5>4. f[4] \in Byte /\ f[5] \in Byte /\ f[6] \in Byte /\ f[7] \in Byte
          BY <5>3
        <5> QED
          BY <5>1, <5>2, <5>4
      <4>3. /\ h \in Seq(Byte) /\ Len(h) = 8
            /\ h[1] = SYNC_0 /\ h[2] = SYNC_1 /\ h[3] = NORMAL /\ h[4] = f[4]
            /\ h[5] = f[5] /\ h[6] = f[6] /\ h[7] = f[7] /\ h[8] = k
        BY <4>1, <4>2
      <4>4. r = h \o d
        BY <3>2, <4>1
      <4>5. /\ r \in Seq(Byte) /\ Len(r) = 8 + k
            /\ \A i \in 1..8 : r[i] = h[i]
            /\ \A i \in 1..k : r[8 + i] = d[i]
        <5>1. d \in Seq(Byte) /\ Len(d) = k /\ h \in Seq(Byte) /\ Len(h) = 8
          BY <1>2, <4>3
        <5>2. Joins(r, h, d)
          BY <4>4, <5>1, JoinFacts
        <5> QED
          BY <5>1, <5>2 DEF Joins
      <4> QED
        BY <4>3, <4>5
    <3>4. ASSUME NEW i \in 1..8 + k PROVE r[i] = f[i]
      <4>1. CASE i <= 8
        <5>1. i = 1 \/ i = 2 \/ i = 3 \/ i = 4 \/ i = 5 \/ i = 6 \/ i = 7 \/ i = 8
          BY <4>1
        <5>2. /\ r[1] = f[1] /\ r[2] = f[2] /\ r[3] = f[3] /\ r[4] = f[4]
              /\ r[5] = f[5] /\ r[6] = f[6] /\ r[7] = f[7] /\ r[8] = f[8]
          BY <1>1, <1>2, <3>3, Zenon
        <5> QED
          BY <5>1, <5>2, Zenon
      <4>2. CASE i > 8
        <5>1. PICK j \in 1..k : 8 + j = i
          <6>1. i - 8 \in 1..k /\ 8 + (i - 8) = i
            BY <4>2
          <6> QED
            BY <6>1
        <5> QED
          BY <1>1, <1>2, <3>3, <5>1
      <4> QED
        BY <4>1, <4>2
    <3>5. r = f
      BY <1>1, <1>2, <3>3, <3>4
    <3> QED
      BY <3>1, <3>2, <3>5
  <2> QED
    BY <1>1, <1>2, <2>1, <2>6, <2>7
<1> QED
  BY <1>10, <1>11

-------------------------------------------------------------------------------
(* Facts about bytes in a row.                                                  *)
LEMMA JoinType ==
  ASSUME NEW a \in Seq(Byte), NEW b \in Seq(Byte)
  PROVE  a \o b \in Seq(Byte)
OBVIOUS

LEMMA JoinAssociates ==
  ASSUME NEW a \in Seq(Byte), NEW b \in Seq(Byte), NEW c \in Seq(Byte)
  PROVE  a \o (b \o c) = (a \o b) \o c
OBVIOUS

LEMMA JoinCancels ==
  ASSUME NEW a \in Seq(Byte), NEW b \in Seq(Byte), NEW c \in Seq(Byte),
         NEW x, Joins(x, a, b), Joins(x, a, c)
  PROVE  b = c
<1>1. Len(b) = Len(c) /\ Len(a) \in Nat /\ Len(b) \in Nat
  BY DEF Joins
<1>2. ASSUME NEW i \in 1..Len(b) PROVE b[i] = c[i]
  BY <1>1 DEF Joins
<1> QED
  BY <1>1, <1>2

(* A byte moved from the front of b to the end of a.                            *)
LEMMA JoinMovesByte ==
  ASSUME NEW a \in Seq(Byte), NEW b \in Seq(Byte), b # <<>>
  PROVE  Append(a, Head(b)) \o Tail(b) = a \o b
<1>1. Head(b) \in Byte /\ Tail(b) \in Seq(Byte)
  OBVIOUS
<1>2. PICK c, t : c = Head(b) /\ t = Tail(b)
  OBVIOUS
<1>3. b = <<c>> \o t
  BY <1>2
<1>4. Append(a, c) = a \o <<c>> /\ c \in Byte /\ <<c>> \in Seq(Byte) /\ t \in Seq(Byte)
  BY <1>1, <1>2
<1>5. (a \o <<c>>) \o t = a \o (<<c>> \o t)
  BY <1>4, JoinAssociates
<1> QED
  BY <1>2, <1>3, <1>4, <1>5, Zenon

LEMMA HeadAndTail ==
  ASSUME NEW S, NEW s \in Seq(S), s # <<>>
  PROVE  /\ Head(s) \in S /\ Tail(s) \in Seq(S) /\ Head(s) = s[1] /\ Len(s) >= 1
         /\ 1 \in DOMAIN s
OBVIOUS

LEMMA AppendFacts ==
  ASSUME NEW a \in Seq(Byte), NEW b \in Byte, NEW n, n = Len(a)
  PROVE  /\ Append(a, b) \in Seq(Byte) /\ Len(Append(a, b)) = n + 1
         /\ Append(a, b)[n + 1] = b
         /\ \A i \in 1..n : Append(a, b)[i] = a[i]
OBVIOUS

LEMMA JoinOfNothing ==
  ASSUME NEW a \in Seq(Byte)
  PROVE  a \o <<>> = a /\ <<>> \o a = a /\ <<>> \in Seq(Byte)
OBVIOUS

LEMMA HeldType ==
  ASSUME TypeOK, NEW n \in 0..DataSize
  PROVE  /\ Held(n) \in Seq(Byte) /\ Len(Held(n)) = n
         /\ \A i \in 1..n : Held(n)[i] = ByteOf(n, i - 1)
<1>1. recent \in [1..DataSize -> Byte] /\ DataSize \in Nat /\ n \in Nat
  BY SizesAssumption DEF TypeOK, HistoryTypes
<1>2. ASSUME NEW i \in 1..n PROVE ByteOf(n, i - 1) \in Byte
  <2>1. n - (i - 1) \in 1..DataSize
    BY <1>1
  <2> QED
    BY <1>1, <2>1 DEF ByteOf
<1> HIDE DEF ByteOf
<1> QED
  BY <1>1, <1>2 DEF Held

(* The bytes held after one more.                                               *)
LEMMA HeldGrows ==
  ASSUME TypeOK, ParseByte, NEW n \in 0..DataSize - 1
  PROVE  Held(n + 1)' = Append(Held(n), Head(buff))
<1>1. DataSize \in Nat /\ n \in Nat
  BY SizesAssumption
<1>2. PICK a \in Seq(Byte) : a = Held(n) /\ Len(a) = n /\ \A i \in 1..n : a[i] = ByteOf(n, i - 1)
  <2>1. n \in 0..DataSize
    BY <1>1
  <2> QED
    BY <2>1, HeldType
<1>3. PICK c \in Byte : c = Head(buff)
  BY DEF ParseByte, TypeOK, LineTypes
<1>4. Held(n + 1)' = [i \in 1..n + 1 |-> ByteOf(n + 1, i - 1)']
  BY DEF Held
<1>5. ASSUME NEW i \in 1..n + 1 PROVE ByteOf(n + 1, i - 1)' = Append(a, c)[i]
  <2>1. CASE i = n + 1
    <3>1. i - 1 = n /\ Append(a, c)[i] = c
      BY <1>2, <2>1
    <3> QED
      BY <1>3, <3>1, RecentShifts
  <2>2. CASE i # n + 1
    <3>1. i - 1 \in 0..n - 1 /\ i \in 1..n
      BY <1>1, <2>2
    <3>2. Append(a, c)[i] = a[i]
      BY <1>2, <3>1
    <3> QED
      BY <1>2, <3>1, <3>2, RecentShifts
  <2> QED
    BY <2>1, <2>2
<1>6. Append(a, c) = [i \in 1..n + 1 |-> Append(a, c)[i]]
  <2>1. PICK x : x = Append(a, c)
    OBVIOUS
  <2>2. x \in Seq(Byte) /\ Len(x) = n + 1
    BY <1>2, <2>1
  <2>3. x = [i \in 1..n + 1 |-> x[i]]
    BY <2>2
  <2> QED
    BY <2>1, <2>3
<1>7. [i \in 1..n + 1 |-> ByteOf(n + 1, i - 1)'] = [i \in 1..n + 1 |-> Append(a, c)[i]]
  BY <1>5, Zenon
<1> QED
  BY <1>2, <1>3, <1>4, <1>6, <1>7, Zenon

(* What is underway: the frame begun, the chunk and the line.                   *)
Underway == (Held(pos) \o buff) \o line

LEMMA CleanMeans == CleanLineDelivers <=> (~dirty => Underway = Concatenated(due))
BY Zenon DEF CleanLineDelivers, Underway, Held

LEMMA HeldNow ==
  ASSUME TypeOK
  PROVE  /\ Held(pos) \in Seq(Byte) /\ Len(Held(pos)) = pos
         /\ \A i \in 1..pos : Held(pos)[i] = ByteOf(pos, i - 1)
<1>1. PICK n \in 0..DataSize : n = pos
  BY PosInArray
<1>2. /\ Held(n) \in Seq(Byte) /\ Len(Held(n)) = n
      /\ \A i \in 1..n : Held(n)[i] = ByteOf(n, i - 1)
  BY HeldType
<1> QED
  BY <1>1, <1>2, Zenon

LEMMA HeldStays ==
  ASSUME pos' = pos, recent' = recent
  PROVE  Held(pos)' = Held(pos)
BY DEF Held, ByteOf

(* Only frames of messages are written (qemu_mcu.c:214-223).                    *)
LEMMA FramesSentNext ==
  ASSUME TypeOK, FramesSent, Next
  PROVE  FramesSent'
<1>1. /\ frame = <<>> \/ Sent(frame)
      /\ \A i \in DOMAIN due : Sent(due[i]) /\ Fits(due[i])
      /\ due \in Seq(Seq(Byte)) /\ frame \in Seq(Byte)
  BY DEF FramesSent, TypeOK, LineTypes, HistoryTypes
<1>2. frame' = <<>> \/ Sent(frame)'
  <2>1. ASSUME NEW m \in Messages, autolink_mcu_send_msg1(m) PROVE Sent(frame')
    BY <2>1 DEF autolink_mcu_send_msg1, Sent
  <2>2. (\E m \in Messages : autolink_mcu_send_msg1(m)) \/ frame' = frame \/ frame' = <<>>
    BY DEF Next, autolink_mcu_init1, SendReturns, autolink_mcu_sendinfo1, Noise, ReadChunk,
           ParseByte, sender
  <2>3. Sent(frame)' <=> Sent(frame')
    BY DEF Sent
  <2> QED
    BY <1>1, <2>1, <2>2, <2>3, Zenon
<1>3. \/ due' = due \/ due' = <<>> \/ (due # <<>> /\ due' = Tail(due))
      \/ (frame # <<>> /\ Fits(frame) /\ due' = Append(due, frame))
  BY DEF Next, autolink_mcu_init1, autolink_mcu_send_msg1, SendReturns,
         autolink_mcu_sendinfo1, Noise, ReadChunk, ParseByte
<1>4. ASSUME NEW i \in DOMAIN due' PROVE Sent(due'[i]) /\ Fits(due'[i])
  <2>1. CASE due' = due
    BY <1>1, <2>1
  <2>2. CASE due' = <<>>
    BY <2>2
  <2>3. CASE due # <<>> /\ due' = Tail(due)
    <3>1. i + 1 \in DOMAIN due /\ due'[i] = due[i + 1]
      BY <1>1, <2>3
    <3> QED
      BY <1>1, <3>1
  <2>4. CASE frame # <<>> /\ Fits(frame) /\ due' = Append(due, frame)
    <3>1. due'[i] = frame \/ (i \in DOMAIN due /\ due'[i] = due[i])
      BY <1>1, <2>4
    <3> QED
      BY <1>1, <2>4, <3>1
  <2> QED
    BY <1>3, <2>1, <2>2, <2>3, <2>4
<1> QED
  BY <1>2, <1>4 DEF FramesSent, Sent

(* The sender adds a whole frame at the end, or soils the line                  *)
(* (qemu_mcu.c:176-223).                                                        *)
LEMMA SendKeepsOrder ==
  ASSUME TypeOK, CleanLineDelivers, autolink_mcu_sendinfo1, ~dirty'
  PROVE  Underway' = Concatenated(due)'
<1>1. /\ line \in Seq(Byte) /\ buff \in Seq(Byte) /\ frame \in Seq(Byte)
      /\ due \in Seq(Seq(Byte)) /\ dirty \in BOOLEAN
  BY DEF TypeOK, LineTypes, HistoryTypes, CountTypes
<1>2. PICK k : /\ k = IF Len(frame) <= LineRoom - Len(line) THEN Len(frame)
                      ELSE LineRoom - Len(line)
               /\ line' = line \o SubSeq(frame, 1, k)
               /\ IF k = Len(frame)
                  THEN IF Fits(frame) THEN due' = Append(due, frame) /\ dirty' = dirty
                       ELSE dirty' = TRUE
                  ELSE due' = due /\ dirty' = (dirty \/ k > 0)
  BY DEF autolink_mcu_sendinfo1
<1>3. k \in Int
  BY <1>1, <1>2, SizesAssumption
<1>4. Underway = Concatenated(due)
  <2>1. ~dirty
    BY <1>1, <1>2
  <2> QED
    BY <2>1, CleanMeans
<1>5. PICK h \in Seq(Byte) : h = Held(pos)
  BY HeldNow
<1>6. PICK u \in Seq(Byte) : u = h \o buff
  BY <1>1, JoinType
<1>7. Underway' = u \o line'
  <2>1. Held(pos)' = h /\ buff' = buff
    BY <1>5, HeldStays DEF autolink_mcu_sendinfo1, parser
  <2> QED
    BY <1>6, <2>1, Zenon DEF Underway
<1>8. u \o line = Concatenated(due)
  BY <1>4, <1>5, <1>6, Zenon DEF Underway
<1>9. CASE k = Len(frame)
  <2>1. due' = Append(due, frame)
    BY <1>2, <1>9
  <2>2. SubSeq(frame, 1, k) = frame
    BY <1>1, <1>9
  <2>3. u \o (line \o frame) = (u \o line) \o frame
    BY <1>1, JoinAssociates
  <2>4. Concatenated(due') = Concatenated(due) \o frame
    BY <1>1, <2>1, CatOfAppend
  <2> QED
    BY <1>2, <1>7, <1>8, <2>2, <2>3, <2>4, Zenon
<1>10. CASE k # Len(frame)
  <2>1. due' = due /\ ~(k > 0)
    BY <1>2, <1>10
  <2>2. SubSeq(frame, 1, k) = <<>>
    BY <1>1, <1>3, <2>1
  <2>3. line' = line
    BY <1>1, <1>2, <2>2, JoinOfNothing
  <2> QED
    BY <1>7, <1>8, <2>1, <2>3, Zenon
<1> QED
  BY <1>9, <1>10

(* A read takes nothing from what is underway (qemu_mcu.c:310-328).             *)
LEMMA ReadKeepsOrder ==
  ASSUME TypeOK, NEW k \in 1..Chunk, ReadChunk(k)
  PROVE  Underway' = Underway
<1>1. line \in Seq(Byte) /\ buff = <<>> /\ k \in Nat /\ k <= Len(line)
  BY SizesAssumption DEF TypeOK, LineTypes, ReadChunk
<1>2. PICK h \in Seq(Byte) : h = Held(pos) /\ h = Held(pos)'
  <2>1. Held(pos) \in Seq(Byte) /\ Held(pos)' = Held(pos)
    BY HeldNow, HeldStays DEF ReadChunk, parser
  <2> QED
    BY <2>1, Zenon
<1>3. PICK a \in Seq(Byte), b \in Seq(Byte) : a = buff' /\ b = line' /\ line = a \o b
  <2>1. buff' = SubSeq(line, 1, k) /\ line' = SubSeq(line, k + 1, Len(line))
    BY DEF ReadChunk
  <2>2. SubSeq(line, 1, k) \in Seq(Byte) /\ SubSeq(line, k + 1, Len(line)) \in Seq(Byte)
    BY <1>1
  <2>3. line = SubSeq(line, 1, k) \o SubSeq(line, k + 1, Len(line))
    BY <1>1
  <2> QED
    BY <2>1, <2>2, <2>3
<1>4. (h \o <<>>) \o line = (h \o a) \o b
  <2>1. h \o (a \o b) = (h \o a) \o b
    BY JoinAssociates
  <2>2. h \o <<>> = h
    BY JoinOfNothing
  <2> QED
    BY <1>3, <2>1, <2>2, Zenon
<1> QED
  BY <1>1, <1>2, <1>3, <1>4, Zenon DEF Underway

(* The thread takes a byte of a clean line: the frame first due grows by it or  *)
(* is complete (qemu_mcu.c:84-158).                                             *)
LEMMA CleanByteKeepsOrder ==
  ASSUME TypeOK, ReadAs(pos), WithinFrame, FramesSent, ParseByte, ~dirty,
         Underway = Concatenated(due)
  PROVE  Underway' = Concatenated(due)'
<1>1. /\ line \in Seq(Byte) /\ buff \in Seq(Byte) /\ buff # <<>>
      /\ due \in Seq(Seq(Byte)) /\ line' = line /\ buff' = Tail(buff)
  BY DEF TypeOK, LineTypes, HistoryTypes, ParseByte
<1>2. PICK n \in Nat : n = pos /\ n \in 0..DataSize - 1
  BY PosInArray
<1>3. PICK h \in Seq(Byte) :
        h = Held(pos) /\ Len(h) = n /\ \A i \in 1..n : h[i] = ByteOf(pos, i - 1)
  <2>1. /\ Held(pos) \in Seq(Byte) /\ Len(Held(pos)) = pos
        /\ \A i \in 1..pos : Held(pos)[i] = ByteOf(pos, i - 1)
    BY HeldNow
  <2> QED
    BY <1>2, <2>1
<1>4. PICK b \in Byte, t \in Seq(Byte) :
        b = Head(buff) /\ t = Tail(buff) /\ b = buff[1] /\ Len(buff) >= 1
  BY <1>1, HeadAndTail, Zenon
<1>4a. \A a \in Seq(Byte) : a \o (t \o line) = (a \o t) \o line
  <2>1. PICK l \in Seq(Byte) : l = line
    BY <1>1
  <2>2. \A a \in Seq(Byte) : a \o (t \o l) = (a \o t) \o l
    BY JoinAssociates
  <2> QED
    BY <2>1, <2>2, Zenon
<1>5. PICK u \in Seq(Byte) : u = h \o buff /\ Joins(u, h, buff)
  BY <1>1, JoinType, JoinFacts
<1>6. PICK x \in Seq(Byte) : x = u \o line /\ Joins(x, u, line)
  BY <1>1, JoinType, JoinFacts
<1>7. x = Concatenated(due)
  BY <1>3, <1>5, <1>6, Zenon DEF Underway
<1>8. /\ Len(x) >= n + 1 /\ x[n + 1] = b
      /\ \A i \in 1..n : x[i] = h[i]
  <2>1. Len(u) >= n + 1 /\ u[n + 1] = b /\ \A i \in 1..n : u[i] = h[i]
    <3>1. 1 \in 1..Len(buff)
      BY <1>1, <1>4
    <3>2. Len(u) = n + Len(buff)
      BY <1>3, <1>5 DEF Joins
    <3>3. u[n + 1] = buff[1]
      BY <1>3, <1>5, <3>1 DEF Joins
    <3>4. \A i \in 1..n : u[i] = h[i]
      BY <1>3, <1>5 DEF Joins
    <3> QED
      BY <1>1, <1>4, <3>2, <3>3, <3>4
  <2>2. Len(x) = Len(u) + Len(line) /\ \A i \in 1..Len(u) : x[i] = u[i]
    BY <1>6 DEF Joins
  <2>3. Len(line) \in Nat /\ Len(u) \in Nat
    BY <1>1
  <2>4. n + 1 \in 1..Len(u) /\ \A i \in 1..n : i \in 1..Len(u)
    BY <2>1, <2>3
  <2> QED
    BY <2>1, <2>2, <2>3, <2>4
<1>9. due # <<>>
  <2>1. SUFFICES ASSUME due = <<>> PROVE FALSE
    OBVIOUS
  <2>2. x = <<>>
    BY <1>7, <2>1, CatOfNone
  <2>3. Len(x) = 0
    BY <2>2
  <2> QED
    BY <1>2, <1>8, <2>3
<1>10. PICK f \in Seq(Byte), fs \in Seq(Seq(Byte)) :
         f = Head(due) /\ fs = Tail(due) /\ f = due[1] /\ 1 \in DOMAIN due
  BY <1>1, <1>9, HeadAndTail, Zenon
<1>11. Sent(f) /\ Fits(f)
  BY <1>10 DEF FramesSent
<1>12. PICK r \in Seq(Byte) : r = Concatenated(fs)
  BY CatType
<1>13. Joins(x, f, r)
  <2>1. x = f \o r
    BY <1>1, <1>7, <1>9, <1>10, <1>12, CatOfTail, Zenon
  <2>2. Joins(f \o r, f, r)
    BY JoinFacts
  <2> QED
    BY <2>1, <2>2, Zenon
<1>14. \A i \in 1..Len(f) : x[i] = f[i]
  BY <1>13 DEF Joins
<1>15. Begins(f)
  <2>1. ASSUME NEW i \in 0..pos - 1, i < Len(f) PROVE ByteOf(pos, i) = f[i + 1]
    <3>1. PICK j \in Nat : j = i + 1 /\ j - 1 = i /\ j \in 1..n /\ j \in 1..Len(f)
      BY <1>2, <2>1
    <3>2. x[j] = h[j] /\ h[j] = ByteOf(pos, j - 1) /\ x[j] = f[j]
      BY <1>3, <1>8, <1>14, <3>1
    <3> QED
      BY <3>1, <3>2
  <2> QED
    BY <2>1 DEF Begins
<1>16. n < Len(f) /\ Len(f) \in Nat
  BY <1>2, <1>11, <1>15, FrameNotPassed
<1>17. b = f[n + 1]
  <2>1. n + 1 \in 1..Len(f)
    BY <1>2, <1>16
  <2> QED
    BY <1>8, <1>14, <2>1, Zenon
<1>18. \/ n + 1 < Len(f) /\ pos' = n + 1 /\ last' = "byte"
       \/ n + 1 = Len(f) /\ pos' = 0 /\ last' = "frame" /\ Received = f
  BY <1>2, <1>4, <1>11, <1>15, <1>17, NextByteOfFrame
<1>19. due' = IF last' = "frame" /\ due # <<>> /\ Received = Head(due) THEN Tail(due) ELSE due
  BY DEF ParseByte
<1>20. Held(n + 1)' = Append(h, b)
  BY <1>2, <1>3, <1>4, HeldGrows
<1>21. PICK g \in Seq(Byte) : g = Append(h, b) /\ Len(g) = n + 1 /\ g[n + 1] = b
                              /\ \A i \in 1..n : g[i] = h[i]
  <2>1. n = Len(h)
    BY <1>3
  <2>2. /\ Append(h, b) \in Seq(Byte) /\ Len(Append(h, b)) = n + 1
        /\ Append(h, b)[n + 1] = b
        /\ \A i \in 1..n : Append(h, b)[i] = h[i]
    BY <2>1, AppendFacts
  <2> QED
    BY <2>2, Zenon
<1>22. x = (g \o t) \o line
  <2>1. Append(h, Head(buff)) \o Tail(buff) = h \o buff
    BY <1>1, JoinMovesByte
  <2>2. g \o t = u
    BY <1>4, <1>5, <1>21, <2>1, Zenon
  <2> QED
    BY <1>6, <2>2, Zenon
<1>23. CASE n + 1 < Len(f) /\ pos' = n + 1 /\ last' = "byte"
  <2>1. due' = due
    BY <1>19, <1>23
  <2>2. Held(pos)' = g
    BY <1>20, <1>21, <1>23, Zenon DEF Held
  <2>3. Underway' = x
    BY <1>1, <1>4, <1>22, <2>2, Zenon DEF Underway
  <2> QED
    BY <1>7, <2>1, <2>3, Zenon
<1>24. CASE n + 1 = Len(f) /\ pos' = 0 /\ last' = "frame" /\ Received = f
  <2>1. due' = fs
    BY <1>9, <1>10, <1>19, <1>24
  <2>2. Held(pos)' = <<>>
    BY <1>24 DEF Held
  <2>3. PICK y \in Seq(Byte) : y = t \o line
    BY <1>1, JoinType
  <2>4. Underway' = y
    <3>1. <<>> \o t = t
      BY JoinOfNothing
    <3> QED
      BY <1>1, <1>4, <2>2, <2>3, <3>1, Zenon DEF Underway
  <2>5. g = f
    <3>1. ASSUME NEW i \in 1..n + 1 PROVE g[i] = f[i]
      <4>1. CASE i = n + 1
        BY <1>17, <1>21, <4>1
      <4>2. CASE i # n + 1
        <5>1. i \in 1..n /\ i \in 1..Len(f)
          BY <1>2, <1>24, <4>2
        <5> QED
          BY <1>8, <1>14, <1>21, <5>1
      <4> QED
        BY <4>1, <4>2
    <3> QED
      BY <1>21, <1>24, <3>1
  <2>6. Joins(x, f, y)
    <3>1. x = f \o y
      <4>1. f \o (t \o line) = (f \o t) \o line
        BY <1>4a, Zenon
      <4> QED
        BY <1>22, <2>3, <2>5, <4>1, Zenon
    <3>2. Joins(f \o y, f, y)
      BY JoinFacts
    <3> QED
      BY <3>1, <3>2, Zenon
  <2>7. r = y
    BY <1>13, <2>6, JoinCancels
  <2> QED
    BY <1>12, <2>1, <2>4, <2>7, Zenon
<1> QED
  BY <1>18, <1>23, <1>24

(* A byte that leaves a soiled link idle leaves nothing underway.               *)
LEMMA IdleIsClean ==
  ASSUME ParseByte, dirty, ~dirty'
  PROVE  Underway' = Concatenated(due)'
<1>1. /\ pos' = 0 /\ buff' = <<>> /\ line' = <<>> /\ due' = <<>>
  BY DEF ParseByte
<1>2. Held(pos)' = <<>>
  BY <1>1 DEF Held
<1>3. <<>> \o <<>> = <<>>
  OBVIOUS
<1> QED
  BY <1>1, <1>2, <1>3, CatOfNone, Zenon DEF Underway

LEMMA CleanInit == Init => CleanInv
<1> SUFFICES ASSUME Init PROVE CleanInv
  OBVIOUS
<1>1. /\ frame = <<>> /\ line = <<>> /\ buff = <<>> /\ due = <<>> /\ pos = 0
      /\ last = "none"
  BY DEF Init
<1>2. FramesAreRuns
  BY <1>1 DEF FramesAreRuns, ReadAs
<1>3. FramesSent /\ WithinFrame
  BY <1>1 DEF FramesSent, WithinFrame
<1>4. Underway = Concatenated(due)
  <2>1. Held(pos) = <<>>
    BY <1>1 DEF Held
  <2>2. <<>> \o <<>> = <<>>
    OBVIOUS
  <2> QED
    BY <1>1, <2>1, <2>2, CatOfNone, Zenon DEF Underway
<1> QED
  BY <1>2, <1>3, <1>4, TypeInit, CleanMeans DEF CleanInv

LEMMA CleanNext == CleanInv /\ [Next]_vars => CleanInv'
<1> SUFFICES ASSUME CleanInv, [Next]_vars PROVE CleanInv'
  OBVIOUS
<1>1. TypeOK /\ FramesAreRuns /\ FramesSent /\ WithinFrame /\ CleanLineDelivers
  BY DEF CleanInv
<1>2. CASE UNCHANGED vars
  <2>1. UNCHANGED <<up, frame, iter, sends, line, buff, parser, last, noise, recent, due, dirty>>
    BY <1>2 DEF vars, sender
  <2>2. TypeOK'
    BY <1>1, <2>1 DEF TypeOK, LineTypes, ParserTypes, CountTypes, HistoryTypes, parser
  <2>3. FramesAreRuns'
    BY <1>1, <1>2, RunsNext
  <2>4. FramesSent' /\ WithinFrame'
    BY <1>1, <2>1 DEF FramesSent, WithinFrame, Sent, Fits, parser
  <2>5. CleanLineDelivers'
    BY <1>1, <2>1 DEF CleanLineDelivers, ByteOf, Concatenated, parser
  <2> QED
    BY <2>2, <2>3, <2>4, <2>5 DEF CleanInv
<1>3. CASE Next
  <2>1. TypeOK'
    BY <1>1, <1>3, LineTypesNext, ParserTypesNext, CountTypesNext, HistoryTypesNext DEF TypeOK
  <2>2. FramesAreRuns'
    BY <1>1, <1>3, RunsNext
  <2>3. FramesSent'
    BY <1>1, <1>3, FramesSentNext
  <2>4. WithinFrame'
    <3>1. CASE ParseByte
      BY <1>1, <3>1, WithinFrameNext
    <3>2. CASE ~ParseByte
      <4>1. UNCHANGED parser
        BY <1>3, <3>2 DEF Next, autolink_mcu_init1, autolink_mcu_send_msg1, SendReturns,
                          autolink_mcu_sendinfo1, Noise, ReadChunk
      <4> QED
        BY <1>1, <4>1 DEF WithinFrame, parser
    <3> QED
      BY <3>1, <3>2
  <2>5. ASSUME ~dirty' PROVE Underway' = Concatenated(due)'
    <3>1. CASE autolink_mcu_init1 \/ SendReturns \/ \E m \in Messages : autolink_mcu_send_msg1(m)
      <4>1. UNCHANGED <<parser, recent, buff, line, due, dirty>>
        BY <3>1 DEF autolink_mcu_init1, SendReturns, autolink_mcu_send_msg1
      <4>2. Underway = Concatenated(due)
        BY <1>1, <2>5, <4>1, CleanMeans
      <4>3. Held(pos)' = Held(pos)
        BY <4>1, HeldStays DEF parser
      <4> QED
        BY <4>1, <4>2, <4>3, Zenon DEF Underway
    <3>2. CASE autolink_mcu_sendinfo1
      BY <1>1, <2>5, <3>2, SendKeepsOrder
    <3>3. CASE Noise
      BY <2>5, <3>3 DEF Noise
    <3>4. ASSUME NEW k \in 1..Chunk, ReadChunk(k) PROVE Underway' = Concatenated(due)'
      <4>1. UNCHANGED <<due, dirty>>
        BY <3>4 DEF ReadChunk
      <4>2. Underway = Concatenated(due)
        BY <1>1, <2>5, <4>1, CleanMeans
      <4>3. Underway' = Underway
        BY <1>1, <3>4, ReadKeepsOrder
      <4> QED
        BY <4>1, <4>2, <4>3, Zenon
    <3>5. CASE ParseByte
      <4>1. CASE dirty
        BY <2>5, <3>5, <4>1, IdleIsClean
      <4>2. CASE ~dirty
        <5>1. Underway = Concatenated(due)
          BY <1>1, <4>2, CleanMeans
        <5>2. ReadAs(pos)
          BY <1>1 DEF FramesAreRuns
        <5> QED
          BY <1>1, <3>5, <4>2, <5>1, <5>2, CleanByteKeepsOrder
      <4> QED
        BY <4>1, <4>2
    <3> QED
      BY <1>3, <3>1, <3>2, <3>3, <3>4, <3>5, Zenon DEF Next
  <2>6. CleanLineDelivers'
    BY <2>5, Zenon DEF CleanLineDelivers, Underway, Held
  <2> QED
    BY <2>1, <2>2, <2>3, <2>4, <2>6 DEF CleanInv
<1> QED
  BY <1>2, <1>3

(* While the line carried whole frames only, what is underway, from the bytes   *)
(* the parser holds to the last byte of the line, is the frames still due, in   *)
(* order (qemu_mcu.c:84-158, 214-223, 310-328).                                 *)
THEOREM CleanLine == Spec => []CleanLineDelivers
<1>1. CleanInv => CleanLineDelivers
  BY DEF CleanInv
<1> QED
  BY <1>1, CleanInit, CleanNext, PTL DEF Spec
===============================================================================
