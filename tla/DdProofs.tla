-------------------------------- MODULE DdProofs ------------------------------
(* Proofs about Dd, for every command line, input and failure: its types; and,  *)
(* for the sizes that Sized allows, the bounds of its two buffers; that a plain *)
(* copy loses, repeats and reorders nothing; that errors keep the offsets; that *)
(* what it has put out when it ends is the conversion of the whole input; and   *)
(* that it ends.                                                                *)
EXTENDS Dd, WellFoundedInduction, TLAPS

-------------------------------------------------------------------------------
(* Least and greatest members.                                                  *)

LEMMA LeastMember ==
  ASSUME NEW T, T \subseteq Nat, T # {}
  PROVE  \E x \in T : \A y \in T : x <= y
<1>1. \E x \in T : \A y \in T : ~ (<<y, x>> \in OpToRel(<, Nat))
  BY NatLessThanWellFounded, WFMin, Zenon
<1>2. ASSUME NEW x \in Nat, NEW y \in Nat, ~ (<<y, x>> \in OpToRel(<, Nat))
      PROVE  x <= y
  <2>1. SUFFICES ASSUME y < x PROVE FALSE
    BY SMT
  <2>2. <<y, x>> \in Nat \X Nat /\ <<y, x>>[1] < <<y, x>>[2]
    BY <2>1
  <2> QED BY <1>2, <2>2 DEF OpToRel
<1> QED BY <1>1, <1>2

LEMMA GreatestMember ==
  ASSUME NEW n \in Nat, NEW T, T \subseteq 0..n, T # {}
  PROVE  \E x \in T : \A y \in T : y <= x
<1> DEFINE Gaps == {n - x : x \in T}
<1>0. \A x \in T : x \in Nat /\ x <= n
  OBVIOUS
<1>1. Gaps \subseteq Nat /\ Gaps # {}
  <2>1. \A x \in T : n - x \in Nat
    BY <1>0
  <2>2. PICK x : x \in T
    OBVIOUS
  <2>3. n - x \in Gaps
    BY <2>2
  <2> QED BY <2>1, <2>3
<1>2. PICK u \in Gaps : \A v \in Gaps : u <= v
  BY <1>1, LeastMember, Zenon
<1>3. PICK x \in T : u = n - x
  BY <1>2
<1>4. ASSUME NEW y \in T PROVE y <= x
  <2>0. y \in Nat /\ x \in Nat
    BY <1>0
  <2>1. n - y \in Gaps
    OBVIOUS
  <2>2. n - x <= n - y
    BY <2>1, <1>2, <1>3
  <2> QED BY <2>0, <2>2
<1> QED BY <1>3, <1>4

-------------------------------------------------------------------------------
(* Operators                                                                    *)

LEMMA FillType ==
  ASSUME NEW byte \in Byte, NEW n \in Int
  PROVE  /\ Fill(byte, n) \in Seq(Byte)
         /\ Len(Fill(byte, n)) = IF n > 0 THEN n ELSE 0
<1>1. CASE n >= 0
  <2>1. n \in Nat
    BY <1>1
  <2> QED BY <2>1 DEF Fill
<1>2. CASE n < 0
  <2>1. Fill(byte, n) = [i \in 1..0 |-> byte]
    <3>1. 1..n = 1..0
      BY <1>2
    <3> QED BY <3>1, Zenon DEF Fill
  <2>2. [i \in 1..0 |-> byte] \in Seq(Byte) /\ Len([i \in 1..0 |-> byte]) = 0
    OBVIOUS
  <2> QED BY <1>2, <2>1, <2>2
<1> QED BY <1>1, <1>2

LEMMA FromType ==
  ASSUME NEW s \in Seq(Byte), NEW i \in Nat, i >= 1
  PROVE  /\ From(s, i) \in Seq(Byte)
         /\ Len(From(s, i)) = IF i <= Len(s) THEN Len(s) - i + 1 ELSE 0
         /\ Len(From(s, i)) <= Len(s)
         /\ \A j \in 1..Len(From(s, i)) : From(s, i)[j] = s[i + j - 1]
BY SMTT(30) DEF From

LEMMA OverwriteType ==
  ASSUME NEW file \in Seq(Byte), NEW new \in Seq(Byte), NEW pos \in Nat
  PROVE  /\ Overwrite(file, pos, new) \in Seq(Byte)
         /\ Len(Overwrite(file, pos, new)) =
              IF pos + Len(new) > Len(file) THEN pos + Len(new) ELSE Len(file)
         /\ \A i \in 1..Len(Overwrite(file, pos, new)) :
              Overwrite(file, pos, new)[i] =
                IF i > pos /\ i <= pos + Len(new) THEN new[i - pos]
                ELSE IF i <= Len(file) THEN file[i] ELSE Zero
<1> DEFINE n == IF pos + Len(new) > Len(file) THEN pos + Len(new) ELSE Len(file)
           byte(i) == IF i > pos /\ i <= pos + Len(new) THEN new[i - pos]
                      ELSE IF i <= Len(file) THEN file[i] ELSE Zero
<1>1. n \in Nat
  OBVIOUS
<1>2. ASSUME NEW i \in 1..n PROVE byte(i) \in Byte
  <2>1. Zero \in Byte
    BY BytesAssumption
  <2> QED BY <2>1
<1>3. Overwrite(file, pos, new) = [i \in 1..n |-> byte(i)]
  BY DEF Overwrite
<1> HIDE DEF n, byte
<1>4. /\ [i \in 1..n |-> byte(i)] \in Seq(Byte)
      /\ Len([i \in 1..n |-> byte(i)]) = n
      /\ \A i \in 1..n : [j \in 1..n |-> byte(j)][i] = byte(i)
  BY <1>1, <1>2
<1> QED BY <1>3, <1>4 DEF n, byte

LEMMA FirstNLIsFirst ==
  ASSUME NEW s \in Seq(Byte), HasNL(s)
  PROVE  /\ FirstNL(s) \in 1..Len(s)
         /\ s[FirstNL(s)] = NL
         /\ \A j \in 1..FirstNL(s) - 1 : s[j] # NL
<1> DEFINE T == {i \in 1..Len(s) : s[i] = NL}
<1>1. T \subseteq Nat /\ T # {}
  BY DEF HasNL
<1>2. PICK x \in T : \A y \in T : x <= y
  BY <1>1, LeastMember, Zenon
<1>3. \A j \in 1..x - 1 : s[j] # NL
  <2>1. x \in 1..Len(s)
    OBVIOUS
  <2>2. SUFFICES ASSUME NEW j \in 1..x - 1, s[j] = NL PROVE FALSE
    OBVIOUS
  <2>3. j \in T /\ j < x /\ j \in Nat
    BY <2>1, <2>2
  <2> QED BY <2>1, <2>3, <1>2
<1>4. \E i \in 1..Len(s) : s[i] = NL /\ \A j \in 1..i - 1 : s[j] # NL
  BY <1>3
<1> QED BY <1>4 DEF FirstNL

LEMMA AfterNLType ==
  ASSUME NEW s \in Seq(Byte)
  PROVE  /\ AfterNL(s) \in Seq(Byte)
         /\ Len(AfterNL(s)) <= Len(s)
         /\ ~HasNL(s) => AfterNL(s) = <<>>
<1>1. CASE HasNL(s)
  <2>1. FirstNL(s) + 1 \in Nat /\ FirstNL(s) + 1 >= 1
    BY <1>1, FirstNLIsFirst
  <2> QED BY <1>1, <2>1, FromType DEF AfterNL
<1>2. CASE ~HasNL(s)
  BY <1>2 DEF AfterNL
<1> QED BY <1>1, <1>2

LEMMA StrippedType ==
  ASSUME NEW s \in Seq(Byte)
  PROVE  /\ Stripped(s) \in Seq(Byte)
         /\ Len(Stripped(s)) <= Len(s) + 1
<1> DEFINE ends == {i \in 1..Len(s) : s[i] # Space}
           last == CHOOSE i \in ends \cup {0} : \A j \in ends : j <= i
<1>1. Len(s) \in Nat /\ ends \cup {0} \subseteq 0..Len(s) /\ ends \cup {0} # {}
  OBVIOUS
<1>2. \E i \in ends \cup {0} : \A j \in ends \cup {0} : j <= i
  <2> HIDE DEF ends
  <2> QED BY <1>1, GreatestMember, Zenon
<1>3. last \in ends \cup {0}
  <2> HIDE DEF ends
  <2>1. \E i \in ends \cup {0} : \A j \in ends : j <= i
    BY <1>2
  <2> QED BY <2>1
<1>4. last \in 0..Len(s)
  <2> HIDE DEF last, ends
  <2> QED BY <1>1, <1>3
<1>5. Stripped(s) = Append(SubSeq(s, 1, last), NL)
  BY DEF Stripped
<1> HIDE DEF last
<1>6. SubSeq(s, 1, last) \in Seq(Byte) /\ Len(SubSeq(s, 1, last)) = last
  BY <1>4
<1>7. NL \in Byte
  BY BytesAssumption
<1> DEFINE kept == SubSeq(s, 1, last)
<1> HIDE DEF kept
<1>8. Append(kept, NL) \in Seq(Byte) /\ Len(Append(kept, NL)) = Len(kept) + 1
  BY <1>6, <1>7 DEF kept
<1> QED BY <1>4, <1>5, <1>6, <1>8 DEF kept

LEMMA RecordLenType ==
  ASSUME opt \in Options, NEW s \in Seq(Byte)
  PROVE  /\ RecordLen(s) \in Nat /\ RecordLen(s) <= opt.cbs /\ RecordLen(s) <= Len(s)
         /\ (HasNL(s) \/ Len(s) >= opt.cbs) /\ RecordLen(s) < opt.cbs =>
               RecordLen(s) < Len(s)
<1>1. PICK c \in Nat : c = opt.cbs
  BY DEF Options
<1> DEFINE n == Least(c, Len(s))
<1>2. n \in Nat /\ n <= c /\ n <= Len(s)
  BY DEF Least
<1>3. RecordLen(s) = IF HasNL(SubSeq(s, 1, n)) THEN FirstNL(s) - 1 ELSE n
  BY <1>1 DEF RecordLen
<1>4. CASE HasNL(SubSeq(s, 1, n))
  <2>1. PICK i \in 1..n : s[i] = NL
    BY <1>2, <1>4 DEF HasNL
  <2>2. HasNL(s)
    BY <1>2, <2>1 DEF HasNL
  <2>3. FirstNL(s) <= i
    <3>1. FirstNL(s) \in 1..Len(s) /\ \A j \in 1..FirstNL(s) - 1 : s[j] # NL
      BY <2>2, FirstNLIsFirst
    <3> QED BY <2>1, <3>1
  <2>4. FirstNL(s) \in 1..Len(s)
    BY <2>2, FirstNLIsFirst
  <2> HIDE DEF n
  <2>5. RecordLen(s) = FirstNL(s) - 1
    BY <1>3, <1>4
  <2> QED BY <1>1, <1>2, <2>1, <2>3, <2>4, <2>5
<1>5. CASE ~HasNL(SubSeq(s, 1, n))
  <2>1. RecordLen(s) = n
    BY <1>3, <1>5
  <2>2. ASSUME HasNL(s) \/ Len(s) >= c, n < c PROVE n < Len(s)
    <3>1. CASE Len(s) < c
      <4>1. n = Len(s)
        BY <3>1 DEF Least
      <4>2. ~HasNL(s)
        BY <1>5, <4>1 DEF HasNL
      <4> QED BY <2>2, <3>1, <4>2
    <3>2. CASE Len(s) >= c
      BY <3>2, <2>2 DEF Least
    <3> QED BY <3>1, <3>2
  <2> HIDE DEF n
  <2> QED BY <1>1, <1>2, <2>1, <2>2
<1> QED BY <1>4, <1>5

LEMMA PaddedType ==
  ASSUME opt \in Options, NEW chunk \in Seq(Byte), Len(chunk) <= opt.ibs
  PROVE  /\ Padded(chunk) \in Seq(Byte)
         /\ Len(Padded(chunk)) <= opt.ibs
<1>1. PICK n \in Nat : n = opt.ibs
  BY DEF Options
<1> DEFINE pad == Fill(IF Records THEN Space ELSE Zero, n - Len(chunk))
<1>2. pad \in Seq(Byte) /\ Len(pad) = n - Len(chunk)
  <2>1. (IF Records THEN Space ELSE Zero) \in Byte /\ n - Len(chunk) \in Int
    BY BytesAssumption
  <2>2. n - Len(chunk) >= 0
    BY <1>1
  <2>3. (n - Len(chunk) > 0) \/ n - Len(chunk) = 0
    BY <2>2
  <2>4. pad \in Seq(Byte) /\ Len(pad) = IF n - Len(chunk) > 0 THEN n - Len(chunk) ELSE 0
    BY <2>1, FillType, Zenon
  <2> QED BY <2>3, <2>4
<1>3. Padded(chunk) = IF Has("SYNC") THEN chunk \o pad ELSE chunk
  BY <1>1, Zenon DEF Padded
<1> HIDE DEF pad
<1> QED BY <1>1, <1>2, <1>3

LEMMA ClosedType ==
  ASSUME opt \in Options, inbuf \in Seq(Byte), outbuf \in Seq(Byte)
  PROVE  /\ Closed \in Seq(Byte)
         /\ ClosedAt \in 0..Len(Closed)
         /\ OSynced \in Seq(Byte)
         /\ Len(OSynced) = IF Has("OSYNC") /\ opt.obs > Len(Closed) THEN opt.obs
                           ELSE Len(Closed)
<1>1. PICK n \in Nat, c \in Nat : n = opt.obs /\ c = opt.cbs
  BY DEF Options
<1>2. cfunc(opt) \in {"def", "block", "unblock"}
  BY DEF cfunc
<1> DEFINE pad == Fill(Space, opt.cbs - Len(inbuf))
<1>3. pad \in Seq(Byte)
  <2>1. Space \in Byte /\ opt.cbs - Len(inbuf) \in Int
    BY <1>1, BytesAssumption
  <2> QED BY <2>1, FillType
<1>4. Stripped(inbuf) \in Seq(Byte)
  BY StrippedType
<1>5. Closed = IF inbuf = <<>> THEN outbuf
               ELSE CASE cfunc(opt) = "def" -> inbuf
                      [] cfunc(opt) = "block" -> outbuf \o inbuf \o pad
                      [] cfunc(opt) = "unblock" -> outbuf \o Stripped(inbuf)
  BY DEF Closed
<1> HIDE DEF pad
<1>6. Closed \in Seq(Byte) /\ (cfunc(opt) = "block" => Len(outbuf) <= Len(Closed))
  BY <1>2, <1>3, <1>4, <1>5
<1>7. ClosedAt \in 0..Len(Closed)
  BY <1>6 DEF ClosedAt
<1> DEFINE byte(i) == IF i <= ClosedAt THEN Closed[i]
                      ELSE IF i <= ClosedAt + (n - Len(Closed)) THEN Zero
                      ELSE IF i <= Len(Closed) THEN Closed[i] ELSE Junk
           synced == [i \in 1..n |-> byte(i)]
<1>8. synced \in Seq(Byte) /\ Len(synced) = n
  <2>1. ASSUME NEW i \in 1..n PROVE byte(i) \in Byte
    <3>1. Zero \in Byte /\ Junk \in Byte
      BY BytesAssumption
    <3> QED BY <3>1, <1>6, <1>7
  <2> HIDE DEF byte
  <2> QED BY <2>1
<1>9. OSynced = IF Has("OSYNC") /\ n - Len(Closed) > 0 THEN synced ELSE Closed
  BY <1>1, Zenon DEF OSynced
<1> HIDE DEF synced
<1>10. n - Len(Closed) > 0 <=> n > Len(Closed)
  BY <1>6
<1> QED BY <1>1, <1>6, <1>7, <1>8, <1>9, <1>10

-------------------------------------------------------------------------------
(* The options                                                                  *)

(* What jcl leaves of a line it accepts: bs is off when records are converted.  *)
SoundOptions(o) ==
  o.status = "ok" =>
    (("BLOCK" \in o.flags \/ "UNBLOCK" \in o.flags) => "BS" \notin o.flags)

LEMMA JclOptions ==
  ASSUME NEW line \in CommandLines
  PROVE  jcl(line) \in Options /\ SoundOptions(jcl(line))
<1> DEFINE o == ParseOperands(line)
<1>1. o \in Options
  BY LinesAssumption DEF SoundLine
<1>2. jcl(line) = CheckOptions(o)
  BY DEF jcl
<1> HIDE DEF o
<1> DEFINE buffered == o.flags \cap {"BLOCK", "UNBLOCK", "SWAB", "OSYNC", "SPARSE"} # {}
           flags == IF "BS" \in o.flags /\ buffered
                    THEN (o.flags \ {"BS"}) \cup {"IBS", "OBS"} ELSE o.flags
           records == flags \cap {"BLOCK", "UNBLOCK"} # {}
<1>3. CASE o.status = "ok" /\ (records <=> "CBS" \in flags)
  <2>1. jcl(line) = [o EXCEPT !.flags = flags]
    BY <1>2, <1>3 DEF CheckOptions
  <2>2. flags \in SUBSET Flags
    <3>1. o.flags \in SUBSET Flags
      BY <1>1 DEF Options
    <3>2. "IBS" \in Flags /\ "OBS" \in Flags
      BY DEF Flags
    <3> QED BY <3>1, <3>2
  <2>3. /\ "BLOCK" \in flags <=> "BLOCK" \in o.flags
        /\ "UNBLOCK" \in flags <=> "UNBLOCK" \in o.flags
        /\ "BLOCK" \in flags \/ "UNBLOCK" \in flags => "BS" \notin flags
    OBVIOUS
  <2> HIDE DEF flags
  <2>4. jcl(line) \in Options
    BY <1>1, <2>1, <2>2, Zenon DEF Options
  <2>5. jcl(line).flags = flags
    BY <1>1, <2>1 DEF Options
  <2> QED BY <2>3, <2>4, <2>5 DEF SoundOptions
<1>4. CASE ~(o.status = "ok" /\ (records <=> "CBS" \in flags))
  <2>1. jcl(line) = IF o.status = "ok" THEN Refuse(o) ELSE o
    BY <1>2, <1>4 DEF CheckOptions
  <2>2. Refuse(o) \in Options /\ Refuse(o).status = "refused"
    BY <1>1 DEF Options, Refuse
  <2> QED BY <1>1, <2>1, <2>2 DEF SoundOptions
<1> QED BY <1>3, <1>4

-------------------------------------------------------------------------------
(* Types                                                                        *)

LEMMA TypeInit == Init => TypeOK
<1> SUFFICES ASSUME Init PROVE TypeOK
  OBVIOUS
<1>1. opt \in Options
  BY JclOptions DEF Init
<1>2. input \in Seq(Byte) /\ output \in Seq(Byte) /\ <<>> \in Seq(Byte)
  BY FilesAssumption DEF Init
<1>3. ControlTypes
  BY <1>1 DEF Init, ControlTypes
<1>4. NumberTypes
  BY DEF Init, NumberTypes
<1>5. ByteTypes
  BY <1>2 DEF Init, ByteTypes
<1> QED BY <1>3, <1>4, <1>5 DEF TypeOK

(* Nothing changes the options and the input.                                   *)
LEMMA ArgsFixed ==
  ASSUME Next
  PROVE  UNCHANGED args
BY DEF Next, jclExits, jclReturns, setup, setupExits, Exit, dd_in, ReadEnds, Read,
       ReadError, ReadExits, Accept, convert, def, blockDrop, block, unblock, ConvReturns,
       dd_out, SkipSparse, Write, WriteInterrupted, WriteExits, dd_close, Exits, args

LEMMA ControlTypesNext ==
  ASSUME TypeOK, Next
  PROVE  ControlTypes'
<1> USE DEF ControlTypes
<1>1. /\ pc \in {"jcl", "setup", "read", "conv", "out", "close", "exit", "done", "failed"}
      /\ ret \in {"read", "conv", "exit"}
      /\ intrunc \in BOOLEAN /\ force \in BOOLEAN /\ short \in BOOLEAN
  BY DEF TypeOK
<1>2. opt' \in Options /\ pipe' \in BOOLEAN
  BY ArgsFixed DEF TypeOK, args
<1>3. /\ pc' \in {"jcl", "setup", "read", "conv", "out", "close", "exit", "done", "failed"}
      /\ ret' \in {"read", "conv", "exit"}
      /\ force' \in BOOLEAN /\ short' \in BOOLEAN
  <2>1. CASE jclExits \/ jclReturns \/ setup \/ setupExits \/ Exits
    BY <1>1, <2>1 DEF jclExits, jclReturns, setup, setupExits, Exit, Exits, source, sink
  <2>2. CASE dd_in
    BY <1>1, <2>2 DEF dd_in, ReadEnds, Read, ReadError, ReadExits, Exit, Accept, StartOut,
                      source, sink
  <2>3. CASE convert
    BY <1>1, <2>3 DEF convert, def, blockDrop, block, unblock, ConvReturns, RecordAdded,
                      StartOut, source, sink
  <2>4. CASE dd_out
    BY <1>1, <2>4 DEF dd_out, SkipSparse, Write, WriteInterrupted, WriteExits, EndBlock,
                      Exit, source, sink
  <2>5. CASE dd_close
    BY <1>1, <2>5 DEF dd_close, StartOut, source, sink
  <2> QED BY <2>1, <2>2, <2>3, <2>4, <2>5 DEF Next
<1>4. intrunc' \in BOOLEAN
  BY <1>1 DEF Next, jclExits, jclReturns, setup, setupExits, Exit, dd_in, ReadEnds, Read,
       ReadError, ReadExits, Accept, convert, def, blockDrop, block, unblock, ConvReturns,
       dd_out, SkipSparse, Write, WriteInterrupted, WriteExits, dd_close, Exits, source
<1> QED BY <1>2, <1>3, <1>4

LEMMA LeastRemaining ==
  ASSUME TypeOK
  PROVE  /\ Least(opt.ibs, Remaining) \in Nat
         /\ Least(opt.ibs, Remaining) <= opt.ibs
         /\ rpos + Least(opt.ibs, Remaining) <= Len(input) \/ Least(opt.ibs, Remaining) = 0
<1>1. PICK i \in Nat, r \in Nat, s \in Seq(Byte) : i = opt.ibs /\ r = rpos /\ s = input
  BY DEF TypeOK, ControlTypes, NumberTypes, ByteTypes, Options
<1> QED BY <1>1 DEF Least, Remaining

LEMMA ReadChunk ==
  ASSUME TypeOK, NEW k \in 1..Least(opt.ibs, Remaining)
  PROVE  /\ k \in Nat /\ SubSeq(input, rpos + 1, rpos + k) \in Seq(Byte)
         /\ Len(SubSeq(input, rpos + 1, rpos + k)) = k
         /\ k <= opt.ibs
<1>1. PICK i \in Nat, r \in Nat, s \in Seq(Byte), n \in Nat :
        i = opt.ibs /\ r = rpos /\ s = input /\ n = Least(opt.ibs, Remaining)
  BY LeastRemaining DEF TypeOK, ControlTypes, NumberTypes, ByteTypes, Options
<1>2. k \in 1..n /\ n <= i /\ (r + n <= Len(s) \/ n = 0)
  BY <1>1, LeastRemaining, Zenon
<1>3. k \in Nat /\ k <= i /\ SubSeq(s, r + 1, r + k) \in Seq(Byte)
      /\ Len(SubSeq(s, r + 1, r + k)) = k
  BY <1>2
<1> QED BY <1>1, <1>3, Zenon

LEMMA ClosingBytes ==
  ASSUME TypeOK
  PROVE  OSynced \in Seq(Byte) /\ Fill(Zero, opt.obs) \in Seq(Byte)
<1>1. /\ opt \in Options /\ inbuf \in Seq(Byte) /\ outbuf \in Seq(Byte)
      /\ opt.obs \in Int /\ Zero \in Byte
  BY BytesAssumption DEF TypeOK, ControlTypes, ByteTypes, Options
<1> QED BY <1>1, ClosedType, FillType

LEMMA NumberTypesNext ==
  ASSUME TypeOK, Next
  PROVE  NumberTypes'
<1> USE DEF NumberTypes
<1>1. PICK i \in Nat, o \in Nat, c \in Nat, skip \in Nat, seek \in Nat :
        /\ i = opt.ibs /\ o = opt.obs /\ c = opt.cbs /\ skip = opt.skip /\ seek = opt.seek
  BY DEF TypeOK, ControlTypes, Options
<1>2. /\ rpos \in Nat /\ wpos \in Nat /\ cnt \in Nat /\ blocks \in Nat /\ faults \in Nat
      /\ pending \in Int /\ bytes \in Int
  BY DEF TypeOK
<1>3. skip * i \in Nat /\ seek * o \in Nat
  OBVIOUS
<1>4. rpos' \in Nat /\ blocks' \in Nat
  <2>1. CASE dd_in
    <3>1. ASSUME NEW k \in 1..Least(opt.ibs, Remaining), Read(k)
          PROVE  rpos' \in Nat /\ blocks' \in Nat
      BY <1>2, <3>1, LeastRemaining DEF Read, Accept
    <3>2. CASE ReadError
      <4>1. /\ rpos' = rpos \/ rpos' = rpos + opt.ibs
            /\ blocks' = blocks \/ blocks' = blocks + 1
        BY <3>2 DEF ReadError, Accept, source
      <4> QED BY <1>1, <1>2, <4>1
    <3> QED BY <1>2, <2>1, <3>1, <3>2 DEF dd_in, ReadEnds, ReadExits, Exit, source
  <2>2. CASE setup
    BY <1>1, <1>2, <1>3, <2>2 DEF setup
  <2>3. CASE ~dd_in /\ ~setup
    BY <1>2, <2>3 DEF Next, jclExits, jclReturns, setupExits, Exit, convert, def, blockDrop,
       block, unblock, ConvReturns, dd_out, SkipSparse, Write, WriteInterrupted, WriteExits,
       dd_close, Exits, source
  <2> QED BY <2>1, <2>2, <2>3
<1>5. faults' \in Nat
  <2>1. UNCHANGED faults \/ Fault
    BY DEF Next, jclExits, jclReturns, setup, setupExits, dd_in, ReadEnds, Read,
       ReadError, ReadExits, convert, def, blockDrop, block, unblock, ConvReturns,
       dd_out, SkipSparse, Write, WriteInterrupted, WriteExits, dd_close, Exits
  <2> QED BY <1>2, <2>1 DEF Fault
<1>6. wpos' \in Nat /\ bytes' \in Int /\ pending' \in Int
  <2>1. CASE dd_out
    <3>1. CASE SkipSparse
      BY <1>2, <3>1 DEF SkipSparse
    <3>2. ASSUME NEW k \in 1..cnt, Write(k) PROVE wpos' \in Nat /\ bytes' \in Int /\ pending' \in Int
      BY <1>2, <3>2 DEF Write
    <3>3. CASE WriteInterrupted
      BY <1>2, <3>3 DEF WriteInterrupted
    <3>4. CASE WriteExits
      BY <1>2, <3>4 DEF WriteExits, Exit, sink
    <3> QED BY <2>1, <3>1, <3>2, <3>3, <3>4 DEF dd_out
  <2>2. CASE setup
    BY <1>1, <1>2, <1>3, <2>2 DEF setup
  <2>3. CASE dd_close
    <3>1. /\ wpos' = wpos /\ bytes' = bytes
          /\ pending' = pending \/ pending' = pending - opt.obs
      BY <2>3 DEF dd_close
    <3> QED BY <1>1, <1>2, <3>1
  <2>4. CASE ~dd_out /\ ~setup /\ ~dd_close
    BY <1>2, <2>4 DEF Next, jclExits, jclReturns, setupExits, Exit, dd_in, ReadEnds, Read,
       ReadError, ReadExits, Accept, convert, def, blockDrop, block, unblock, ConvReturns,
       Exits, sink
  <2> QED BY <2>1, <2>2, <2>3, <2>4
<1>7. cnt' \in Nat
  <2>1. ASSUME NEW buf \in Seq(Byte), NEW forced, NEW back, StartOut(buf, forced, back)
        PROVE  cnt' \in Nat
    BY <1>1, <2>1 DEF StartOut
  <2>2. CASE dd_out
    <3>1. ASSUME NEW rest, EndBlock(rest) PROVE cnt' \in Nat
      BY <1>1, <3>1 DEF EndBlock
    <3>2. ASSUME NEW k \in 1..cnt, Write(k) PROVE cnt' \in Nat
      <4>1. CASE k = cnt
        BY <3>1, <3>2, <4>1 DEF Write
      <4>2. CASE k # cnt
        BY <1>2, <3>2, <4>2 DEF Write
      <4> QED BY <4>1, <4>2
    <3> QED BY <1>2, <2>2, <3>1, <3>2 DEF dd_out, SkipSparse, WriteInterrupted, WriteExits,
                                          Exit, sink
  <2>3. CASE dd_in
    <3>1. ASSUME NEW chunk \in Seq(Byte), Len(chunk) <= opt.ibs, Accept(Padded(chunk))
          PROVE  cnt' \in Nat
      <4>1. inbuf \o Padded(chunk) \in Seq(Byte)
        <5>1. Padded(chunk) \in Seq(Byte)
          BY <3>1, PaddedType DEF TypeOK, ControlTypes
        <5> QED BY <5>1 DEF TypeOK, ByteTypes
      <4>2. StartOut(inbuf \o Padded(chunk), TRUE, "read") \/ cnt' = cnt
        BY <3>1 DEF Accept
      <4> QED BY <1>2, <2>1, <4>1, <4>2
    <3>2. ASSUME NEW k \in 1..Least(opt.ibs, Remaining), Read(k) PROVE cnt' \in Nat
      BY <3>1, <3>2, ReadChunk DEF Read
    <3>3. CASE ReadError
      <4>1. <<>> \in Seq(Byte) /\ Len(<<>>) <= opt.ibs
        BY <1>1
      <4>2. Accept(Padded(<<>>)) \/ cnt' = cnt
        BY <3>3 DEF ReadError, sink
      <4> QED BY <1>2, <3>1, <4>1, <4>2
    <3> QED BY <1>2, <2>3, <3>2, <3>3 DEF dd_in, ReadEnds, ReadExits, Exit, sink
  <2>4. CASE convert
    BY <1>1, <1>2, <2>4 DEF convert, def, blockDrop, block, unblock, ConvReturns, RecordAdded,
                      StartOut, sink
  <2>5. CASE dd_close
    <3>1. OSynced \in Seq(Byte) /\ Fill(Zero, opt.obs) \in Seq(Byte)
      BY ClosingBytes
    <3> QED BY <1>2, <2>1, <2>5, <3>1 DEF dd_close
  <2>6. CASE jclExits \/ jclReturns \/ setup \/ setupExits \/ Exits
    BY <1>2, <2>6 DEF jclExits, jclReturns, setup, setupExits, Exit, Exits, sink
  <2> QED BY <2>2, <2>3, <2>4, <2>5, <2>6 DEF Next
<1> QED BY <1>4, <1>5, <1>6, <1>7

(* dd_out never asks for more than the buffer holds, and for all of it if forced *)
(* (dd.c:468).                                                                  *)
OutHolds == pc = "out" => cnt <= Len(outbuf) /\ (force => cnt = Len(outbuf))

LEMMA ByteTypesNext ==
  ASSUME TypeOK, OutHolds, Next
  PROVE  ByteTypes'
<1>1. /\ input \in Seq(Byte) /\ output \in Seq(Byte) /\ inbuf \in Seq(Byte)
      /\ outbuf \in Seq(Byte) /\ taken \in Seq(Byte)
  BY DEF TypeOK, ByteTypes
<1>2. PICK i \in Nat, o \in Nat, c \in Nat, seek \in Nat :
        /\ i = opt.ibs /\ o = opt.obs /\ c = opt.cbs /\ seek = opt.seek
  BY DEF TypeOK, ControlTypes, Options
<1>3. opt \in Options /\ wpos \in Nat /\ pending \in Int /\ cnt \in Nat
  BY DEF TypeOK, ControlTypes, NumberTypes
<1>4. <<>> \in Seq(Byte)
  OBVIOUS
<1>5. input' \in Seq(Byte)
  BY <1>1, ArgsFixed DEF args
<1>6. inbuf' \in Seq(Byte) /\ taken' \in Seq(Byte) /\ outbuf' \in Seq(Byte)
      /\ output' \in Seq(Byte)
  <2> DEFINE Good == inbuf' \in Seq(Byte) /\ taken' \in Seq(Byte) /\ outbuf' \in Seq(Byte)
                     /\ output' \in Seq(Byte)
  <2>1. CASE jclExits \/ jclReturns \/ Exits
    BY <1>1, <2>1 DEF jclExits, jclReturns, Exits, source, sink
  <2>2. CASE setup \/ setupExits
    <3>1. Truncated \in Seq(Byte) /\ Opened \in Seq(Byte)
      <4>1. seek * o \in Nat
        BY <1>2
      <4> DEFINE byte(k) == IF k <= Len(output) THEN output[k] ELSE Zero
      <4>2. \A k \in 1..seek * o : byte(k) \in Byte
        BY <1>1, BytesAssumption
      <4> HIDE DEF byte
      <4>3. [k \in 1..seek * o |-> byte(k)] \in Seq(Byte)
        BY <4>1, <4>2
      <4>4. Truncated \in {Opened, [k \in 1..seek * o |-> byte(k)]} /\ Opened \in {output, <<>>}
        BY <1>2, Zenon DEF Truncated, Truncates, Opened, byte
      <4> QED BY <1>1, <1>4, <4>3, <4>4, Zenon
    <3> QED BY <1>1, <2>2, <3>1 DEF setup, setupExits, source
  <2>3. CASE dd_in
    <3>1. ASSUME NEW chunk \in Seq(Byte), Len(chunk) <= opt.ibs, Accept(Padded(chunk))
          PROVE  Good
      <4>1. Padded(chunk) \in Seq(Byte)
        BY <1>3, <3>1, PaddedType
      <4>2. inbuf \o Padded(chunk) \in Seq(Byte) /\ taken \o Padded(chunk) \in Seq(Byte)
        BY <1>1, <4>1
      <4>3. /\ taken' = taken \o Padded(chunk) /\ output' = output
            /\ \/ inbuf' = <<>> /\ outbuf' = inbuf \o Padded(chunk)
               \/ inbuf' = inbuf \o Padded(chunk) /\ outbuf' = outbuf
        BY <3>1, Zenon DEF Accept, StartOut
      <4> QED BY <1>1, <1>4, <4>2, <4>3, Zenon
    <3>2. ASSUME NEW k \in 1..Least(opt.ibs, Remaining), Read(k) PROVE Good
      BY <3>1, <3>2, ReadChunk DEF Read
    <3>3. CASE ReadError
      <4>1. <<>> \in Seq(Byte) /\ Len(<<>>) <= opt.ibs
        BY <1>2
      <4>2. Accept(Padded(<<>>)) \/ UNCHANGED <<inbuf, taken, outbuf, output>>
        BY <3>3 DEF ReadError, sink
      <4> QED BY <1>1, <3>1, <4>1, <4>2
    <3> QED BY <1>1, <2>3, <3>2, <3>3 DEF dd_in, ReadEnds, ReadExits, Exit, source, sink
  <2>4. CASE convert
    <3>1. CASE def
      BY <1>1, <3>1 DEF def, StartOut, source
    <3>2. CASE blockDrop
      BY <1>1, <3>2, AfterNLType DEF blockDrop, sink
    <3>3. CASE block
      <4> DEFINE n == RecordLen(inbuf)
                 rest == From(inbuf, n + 1)
                 record == SubSeq(inbuf, 1, n) \o Fill(Space, opt.cbs - n)
      <4>1. n \in Nat /\ n <= c /\ n <= Len(inbuf) /\ (n < c => n < Len(inbuf))
        BY <1>1, <1>2, <1>3, <3>3, RecordLenType DEF block
      <4> HIDE DEF n
      <4>2. rest \in Seq(Byte) /\ Len(rest) = IF n + 1 <= Len(inbuf) THEN Len(inbuf) - n ELSE 0
        <5>1. n + 1 \in Nat /\ n + 1 >= 1
          BY <4>1
        <5>2. /\ From(inbuf, n + 1) \in Seq(Byte)
              /\ Len(From(inbuf, n + 1)) =
                   IF n + 1 <= Len(inbuf) THEN Len(inbuf) - (n + 1) + 1 ELSE 0
          BY <1>1, <5>1, FromType
        <5> HIDE DEF rest
        <5>3. Len(inbuf) - (n + 1) + 1 = Len(inbuf) - n
          BY <1>1, <4>1
        <5> QED BY <5>2, <5>3, Zenon DEF rest
      <4> HIDE DEF rest
      <4>3. AfterNL(rest) \in Seq(Byte)
        BY <4>2, AfterNLType
      <4>4. n < c => Tail(rest) \in Seq(Byte)
        BY <4>1, <4>2
      <4>5. Fill(Space, opt.cbs - n) \in Seq(Byte)
        <5>1. Space \in Byte /\ opt.cbs - n \in Int
          BY <1>2, <4>1, BytesAssumption
        <5> QED BY <5>1, FillType
      <4>6. outbuf \o SubSeq(inbuf, 1, n) \o Fill(Space, opt.cbs - n) \in Seq(Byte)
        BY <1>1, <4>1, <4>5
      <4>7. inbuf' = (IF n < opt.cbs THEN Tail(rest) ELSE AfterNL(rest))
            /\ outbuf' = outbuf \o SubSeq(inbuf, 1, n) \o Fill(Space, opt.cbs - n)
            /\ taken' = taken /\ output' = output
        BY <3>3, Zenon DEF block, AfterRecord, RecordAdded, StartOut, n, rest
      <4> QED BY <1>1, <1>2, <4>3, <4>4, <4>6, <4>7
    <3>4. CASE unblock
      <4>1. From(inbuf, opt.cbs + 1) \in Seq(Byte)
        <5>1. opt.cbs + 1 \in Nat /\ opt.cbs + 1 >= 1
          BY <1>2
        <5> QED BY <1>1, <5>1, FromType
      <4>2. outbuf \o Stripped(SubSeq(inbuf, 1, opt.cbs)) \in Seq(Byte)
        <5>1. SubSeq(inbuf, 1, opt.cbs) \in Seq(Byte)
          BY <1>1, <1>2, <3>4 DEF unblock
        <5>2. Stripped(SubSeq(inbuf, 1, opt.cbs)) \in Seq(Byte)
          BY <5>1, StrippedType
        <5> QED BY <1>1, <5>2
      <4>3. inbuf' = From(inbuf, opt.cbs + 1) /\ taken' = taken /\ output' = output
            /\ outbuf' = outbuf \o Stripped(SubSeq(inbuf, 1, opt.cbs))
        BY <3>4, Zenon DEF unblock, RecordAdded, StartOut
      <4> QED BY <1>1, <4>1, <4>2, <4>3
    <3> QED BY <1>1, <2>4, <3>1, <3>2, <3>3, <3>4 DEF convert, ConvReturns, source, sink
  <2>5. CASE dd_out
    <3>1. ASSUME NEW k \in Nat, EndBlock(From(outbuf, k + 1))
          PROVE  inbuf' \in Seq(Byte) /\ outbuf' \in Seq(Byte)
      <4>1. k + 1 \in Nat /\ k + 1 >= 1
        OBVIOUS
      <4>2. From(outbuf, k + 1) \in Seq(Byte)
        BY <1>1, <4>1, FromType
      <4> QED BY <1>1, <3>1, <4>2 DEF EndBlock
    <3>2. CASE SkipSparse
      BY <1>1, <1>3, <3>1, <3>2 DEF SkipSparse
    <3>3. ASSUME NEW k \in 1..cnt, Write(k) PROVE Good
      <4>1. k \in Nat
        BY <1>3
      <4>2. inbuf' \in Seq(Byte) /\ outbuf' \in Seq(Byte)
        <5>1. CASE k = cnt
          BY <3>1, <3>3, <4>1, <5>1 DEF Write
        <5>2. CASE k # cnt
          <6>1. From(outbuf, k + 1) \in Seq(Byte)
            BY <1>1, <4>1, FromType
          <6> QED BY <1>1, <3>3, <5>2, <6>1 DEF Write
        <5> QED BY <5>1, <5>2
      <4>3. output' \in Seq(Byte)
        <5>1. wpos + pending \in Nat
          BY <1>3, <3>3 DEF Write
        <5>2. k <= Len(outbuf)
          BY <1>1, <1>3, <3>3 DEF Write, OutHolds
        <5>3. SubSeq(outbuf, 1, k) \in Seq(Byte)
          BY <1>1, <4>1, <5>2
        <5> QED BY <1>1, <3>3, <5>1, <5>3, OverwriteType DEF Write
      <4> QED BY <1>1, <3>3, <4>2, <4>3 DEF Write
    <3> QED BY <1>1, <2>5, <3>2, <3>3 DEF dd_out, WriteInterrupted, WriteExits, Exit, source, sink
  <2>6. CASE dd_close
    BY <1>1, <1>4, <2>6, ClosingBytes DEF dd_close, StartOut
  <2> QED BY <2>1, <2>2, <2>3, <2>4, <2>5, <2>6 DEF Next
<1> QED BY <1>5, <1>6 DEF ByteTypes

LEMMA OutHoldsNext ==
  ASSUME TypeOK, OutHolds, Next
  PROVE  OutHolds'
<1>1. /\ cnt \in Nat /\ outbuf \in Seq(Byte) /\ inbuf \in Seq(Byte)
  BY DEF TypeOK, NumberTypes, ByteTypes
<1>2. PICK o \in Nat : o = opt.obs
  BY DEF TypeOK, ControlTypes, Options
<1>3. opt' = opt
  BY ArgsFixed DEF args
<1>4. ASSUME NEW buf \in Seq(Byte), NEW forced \in BOOLEAN, NEW back,
             forced \/ Len(buf) >= opt.obs, StartOut(buf, forced, back)
      PROVE  OutHolds'
  BY <1>2, <1>4 DEF StartOut, OutHolds
<1>5. CASE dd_out
  <2>1. ASSUME NEW k \in Nat, EndBlock(From(outbuf, k + 1)), UNCHANGED force, pc = "out",
               ret # "out", force => k = Len(outbuf)
        PROVE  OutHolds'
    <3> DEFINE rest == From(outbuf, k + 1)
    <3>1. rest \in Seq(Byte) /\ Len(rest) = IF k + 1 <= Len(outbuf) THEN Len(outbuf) - k ELSE 0
      <4>1. k + 1 \in Nat /\ k + 1 >= 1
        OBVIOUS
      <4> QED BY <1>1, <4>1, FromType
    <3> HIDE DEF rest
    <3>2. CASE Len(rest) < o
      <4>1. pc' = ret
        BY <1>2, <2>1, <3>2 DEF EndBlock, rest
      <4> QED BY <2>1, <4>1 DEF OutHolds
    <3>3. CASE ~(Len(rest) < o)
      <4>1. outbuf' = rest /\ cnt' = o
        BY <1>2, <2>1, <3>3 DEF EndBlock, rest
      <4>2. force => Len(rest) = 0
        BY <1>1, <2>1, <3>1
      <4> QED BY <1>2, <2>1, <3>1, <3>3, <4>1, <4>2 DEF OutHolds
    <3> QED BY <3>2, <3>3
  <2>2. ret # "out"
    BY DEF TypeOK, ControlTypes
  <2>3. CASE SkipSparse
    <3>1. ~force /\ UNCHANGED force /\ EndBlock(From(outbuf, cnt + 1)) /\ pc = "out"
      BY <2>3 DEF SkipSparse, IsSparse
    <3> QED BY <1>1, <2>1, <2>2, <3>1
  <2>4. ASSUME NEW k \in 1..cnt, Write(k) PROVE OutHolds'
    <3>1. k \in Nat /\ k <= cnt /\ k >= 1
      BY <1>1
    <3>2. pc = "out" /\ cnt <= Len(outbuf) /\ (force => cnt = Len(outbuf)) /\ UNCHANGED force
      BY <2>4 DEF OutHolds, Write
    <3>3. CASE k = cnt
      BY <2>1, <2>2, <2>4, <3>1, <3>2, <3>3 DEF Write
    <3>4. CASE k # cnt
      <4>1. /\ Len(From(outbuf, k + 1)) = IF k + 1 <= Len(outbuf) THEN Len(outbuf) - k ELSE 0
        <5>1. k + 1 \in Nat /\ k + 1 >= 1
          BY <3>1
        <5> QED BY <1>1, <3>1, <5>1, FromType
      <4>2. outbuf' = From(outbuf, k + 1) /\ cnt' = cnt - k
        BY <2>4, <3>4 DEF Write
      <4> HIDE DEF From
      <4>3. Len(outbuf') = IF k + 1 <= Len(outbuf) THEN Len(outbuf) - k ELSE 0
        BY <4>1, <4>2
      <4> QED BY <1>1, <3>1, <3>2, <3>4, <4>2, <4>3 DEF OutHolds
    <3> QED BY <3>3, <3>4
  <2>5. CASE WriteInterrupted
    BY <2>5 DEF WriteInterrupted, OutHolds
  <2>6. CASE WriteExits
    BY <2>6 DEF WriteExits, Exit, OutHolds
  <2> QED BY <1>5, <2>3, <2>4, <2>5, <2>6 DEF dd_out
<1>6. CASE dd_in
  <2>1. ASSUME NEW chunk \in Seq(Byte), Len(chunk) <= opt.ibs, Accept(Padded(chunk))
        PROVE  OutHolds'
    <3>1. inbuf \o Padded(chunk) \in Seq(Byte)
      <4>1. Padded(chunk) \in Seq(Byte)
        BY <2>1, PaddedType DEF TypeOK, ControlTypes
      <4> QED BY <1>1, <4>1
    <3>2. CASE Has("BS")
      BY <1>4, <2>1, <3>1, <3>2 DEF Accept
    <3>3. CASE ~Has("BS")
      BY <2>1, <3>3 DEF Accept, OutHolds
    <3> QED BY <3>2, <3>3
  <2>2. ASSUME NEW k \in 1..Least(opt.ibs, Remaining), Read(k) PROVE OutHolds'
    BY <2>1, <2>2, ReadChunk DEF Read
  <2>3. CASE ReadError
    <3>1. <<>> \in Seq(Byte) /\ Len(<<>>) <= opt.ibs
      BY DEF TypeOK, ControlTypes, Options
    <3>2. Accept(Padded(<<>>)) \/ pc' = "read"
      BY <2>3 DEF ReadError
    <3> QED BY <2>1, <3>1, <3>2 DEF OutHolds
  <2> QED BY <1>6, <2>2, <2>3 DEF dd_in, ReadEnds, ReadExits, Exit, OutHolds
<1>7. CASE convert
  <2>1. CASE def
    BY <1>1, <1>4, <2>1 DEF def, OutHolds
  <2>2. outbuf' \in Seq(Byte)
    BY ByteTypesNext DEF ByteTypes
  <2>3. ASSUME NEW buf, RecordAdded(buf), outbuf' = buf, pc = "conv" PROVE OutHolds'
    <3>1. buf \in Seq(Byte)
      BY <2>2, <2>3
    <3> QED BY <1>4, <2>3, <3>1 DEF RecordAdded, OutHolds
  <2>4. CASE block
    BY <2>3, <2>4 DEF block, RecordAdded, StartOut
  <2>5. CASE unblock
    BY <2>3, <2>5 DEF unblock, RecordAdded, StartOut
  <2> QED BY <1>7, <2>1, <2>4, <2>5 DEF convert, blockDrop, ConvReturns, OutHolds
<1>8. CASE dd_close
  BY <1>4, <1>8, ClosingBytes DEF dd_close, OutHolds
<1>9. CASE jclExits \/ jclReturns \/ setup \/ setupExits \/ Exits
  BY <1>9 DEF jclExits, jclReturns, setup, setupExits, Exit, Exits, OutHolds
<1> QED BY <1>5, <1>6, <1>7, <1>8, <1>9 DEF Next

(* The variables of dd keep their types: the numbers count, the position never  *)
(* gets before the start, and the buffers hold bytes (dd.c:107-145).            *)
THEOREM TypeCorrect == Spec => []TypeOK
<1>1. Init => TypeOK /\ OutHolds
  BY TypeInit DEF Init, OutHolds
<1>2. TypeOK /\ OutHolds /\ [Next]_vars => (TypeOK /\ OutHolds)'
  <2> SUFFICES ASSUME TypeOK, OutHolds, [Next]_vars PROVE (TypeOK /\ OutHolds)'
    OBVIOUS
  <2>1. CASE Next
    BY <2>1, ControlTypesNext, NumberTypesNext, ByteTypesNext, OutHoldsNext DEF TypeOK
  <2>2. CASE UNCHANGED vars
    BY <2>2 DEF vars, args, source, sink, TypeOK, ControlTypes, NumberTypes, ByteTypes,
                OutHolds
  <2> QED BY <2>1, <2>2
<1> QED BY <1>1, <1>2, PTL DEF Spec

-------------------------------------------------------------------------------
(* The bounds of the buffers                                                    *)

(* The inductive form of BufferBounds over the lengths ni and no of what the     *)
(* buffers hold: between two reads less than a record or an output block is     *)
(* kept, and dd_out returns to where it was called with what it was called for. *)
RoomFor(recs, o, i, c, p, r, f, ni, no) ==
  LET limit == IF recs THEN c ELSE o
  IN /\ ni <= limit + i - 1
     /\ no <= (IF recs THEN o + c ELSE o + i - 1)
     /\ p \in {"jcl", "setup"} => ni = 0 /\ no = 0
     /\ p \in {"read", "close"} => ni < limit
     /\ recs /\ p \in {"read", "conv", "close"} => no < o
     /\ p = "out" => \/ r = "exit" /\ f /\ ni = 0
                     \/ r = "read" /\ f /\ ni = 0 /\ ~recs
                     \/ r = "read" /\ ~f /\ ~recs
                     \/ r = "conv" /\ ~f /\ recs

Room == /\ Sized /\ SoundOptions(opt)
        /\ opt.status = "ok" =>
              RoomFor(Records, opt.obs, opt.ibs, opt.cbs, pc, ret, force,
                      Len(inbuf), Len(outbuf))

(* The sizes do not change.                                                     *)
LEMMA SizedFixed ==
  ASSUME UNCHANGED args
  PROVE  Sized' <=> Sized
BY DEF args, Sized, InAsked, OutAsked, Records, Has

LEMMA RoomInit == Init /\ Sized => Room
<1> SUFFICES ASSUME Init, Sized PROVE Room
  OBVIOUS
<1>1. opt \in Options /\ SoundOptions(opt)
  BY JclOptions DEF Init
<1>2. PICK i \in Nat, o \in Nat, c \in Nat : i = opt.ibs /\ o = opt.obs /\ c = opt.cbs
  BY <1>1 DEF Options
<1>3. pc = "jcl" /\ Len(inbuf) = 0 /\ Len(outbuf) = 0
  BY DEF Init
<1>4. ASSUME opt.status = "ok" PROVE i > 0 /\ o > 0 /\ (Records => c > 0)
  BY <1>2, <1>4 DEF Sized
<1> QED BY <1>1, <1>2, <1>3, <1>4 DEF Room, RoomFor

(* What the close leaves to write fits.                                         *)
LEMMA ClosedRoom ==
  ASSUME TypeOK, Room, opt.status = "ok", pc = "close"
  PROVE  /\ Len(OSynced) <= OutAsked
         /\ Len(Fill(Zero, opt.obs)) <= OutAsked
<1>1. /\ opt \in Options /\ inbuf \in Seq(Byte) /\ outbuf \in Seq(Byte)
  BY DEF TypeOK, ControlTypes, ByteTypes
<1>2. PICK i \in Nat, o \in Nat, c \in Nat : i = opt.ibs /\ o = opt.obs /\ c = opt.cbs
  BY <1>1 DEF Options
<1>3. i > 0 /\ o > 0 /\ (Records => c > 0)
  BY <1>2 DEF Room, Sized, Records, Has
<1>4. RoomFor(Records, o, i, c, "close", ret, force, Len(inbuf), Len(outbuf))
  BY <1>2 DEF Room
<1>5. OutAsked = IF Records THEN o + c ELSE o + i - 1
  BY <1>2 DEF OutAsked
<1>6. Len(Closed) \in Nat
  BY <1>1, ClosedType
<1>7. Len(Closed) <= IF Records THEN o + c ELSE o + i - 1
  <2>1. CASE inbuf = <<>>
    BY <1>1, <1>4, <2>1 DEF Closed, RoomFor
  <2>2. CASE inbuf # <<>> /\ cfunc(opt) = "def"
    <3>1. Closed = inbuf /\ ~Records
      BY <2>2 DEF Closed, cfunc, Records, Has
    <3> QED BY <1>1, <1>2, <1>4, <3>1 DEF RoomFor
  <2>3. CASE inbuf # <<>> /\ cfunc(opt) = "block"
    <3> DEFINE pad == Fill(Space, opt.cbs - Len(inbuf))
    <3>1. Closed = outbuf \o inbuf \o pad
      BY <2>3 DEF Closed
    <3>2. Records
      BY <2>3 DEF cfunc, Records, Has
    <3>3. Len(inbuf) < c /\ Len(outbuf) < o
      BY <1>4, <3>2 DEF RoomFor
    <3>4. c - Len(inbuf) \in Int /\ c - Len(inbuf) > 0 /\ Space \in Byte
      BY <1>1, <3>3, BytesAssumption
    <3>5. pad \in Seq(Byte) /\ Len(pad) = c - Len(inbuf)
      BY <1>2, <3>4, FillType
    <3> HIDE DEF pad
    <3>6. Len(Closed) = Len(outbuf) + c
      <4>1. outbuf \o inbuf \in Seq(Byte) /\ Len(outbuf \o inbuf) = Len(outbuf) + Len(inbuf)
        BY <1>1
      <4>2. Len(Closed) = Len(outbuf \o inbuf) + Len(pad)
        BY <3>1, <3>5, <4>1
      <4> QED BY <1>1, <3>3, <3>5, <4>1, <4>2
    <3> QED BY <1>1, <3>2, <3>3, <3>6
  <2>4. CASE inbuf # <<>> /\ cfunc(opt) = "unblock"
    <3>1. Closed = outbuf \o Stripped(inbuf)
      BY <2>4 DEF Closed
    <3>2. Records
      BY <2>4 DEF cfunc, Records, Has
    <3>3. Len(inbuf) < c /\ Len(outbuf) < o
      BY <1>4, <3>2 DEF RoomFor
    <3>4. Stripped(inbuf) \in Seq(Byte) /\ Len(Stripped(inbuf)) <= Len(inbuf) + 1
      BY <1>1, StrippedType
    <3> QED BY <1>1, <3>1, <3>2, <3>3, <3>4
  <2> QED BY <2>1, <2>2, <2>3, <2>4 DEF cfunc
<1>8. Len(OSynced) = IF Has("OSYNC") /\ o > Len(Closed) THEN o ELSE Len(Closed)
  BY <1>1, <1>2, ClosedType
<1>9. Len(Fill(Zero, opt.obs)) = o
  <2>1. opt.obs \in Int /\ Zero \in Byte /\ opt.obs > 0
    BY <1>2, <1>3, BytesAssumption
  <2> QED BY <1>2, <2>1, FillType
<1> QED BY <1>3, <1>5, <1>6, <1>7, <1>8, <1>9

LEMMA RoomNext ==
  ASSUME TypeOK, OutHolds, Room, Next
  PROVE  Room'
<1>1. opt' = opt /\ (Records' <=> Records)
  BY ArgsFixed DEF args, Records, Has
<1>2. SUFFICES ASSUME opt.status = "ok"
               PROVE  RoomFor(Records, opt.obs, opt.ibs, opt.cbs, pc', ret', force',
                              Len(inbuf'), Len(outbuf'))
  BY <1>1, ArgsFixed, SizedFixed DEF Room, SoundOptions
<1>3. /\ opt \in Options /\ inbuf \in Seq(Byte) /\ outbuf \in Seq(Byte)
      /\ inbuf' \in Seq(Byte) /\ outbuf' \in Seq(Byte) /\ cnt \in Nat
  BY ByteTypesNext DEF TypeOK, ControlTypes, NumberTypes, ByteTypes
<1>4. PICK i \in Nat, o \in Nat, c \in Nat : i = opt.ibs /\ o = opt.obs /\ c = opt.cbs
  BY <1>3 DEF Options
<1>5. i > 0 /\ o > 0 /\ (Records => c > 0 /\ ~Has("BS"))
  BY <1>2, <1>4 DEF Room, Sized, SoundOptions, Records, Has
<1> DEFINE ni == Len(inbuf)  no == Len(outbuf)  mi == Len(inbuf')  mo == Len(outbuf')
<1>6. ni \in Nat /\ no \in Nat /\ mi \in Nat /\ mo \in Nat
  BY <1>3
<1>7. RoomFor(Records, o, i, c, pc, ret, force, ni, no)
  BY <1>2, <1>4 DEF Room
<1> DEFINE Goal == RoomFor(Records, o, i, c, pc', ret', force', mi, mo)
<1>8. SUFFICES Goal
  BY <1>4, Zenon
<1>9. cfunc(opt) = "def" <=> ~Records
  BY DEF cfunc, Records, Has
<1> HIDE DEF ni, no, mi, mo
<1>10. CASE jclExits \/ jclReturns \/ setup \/ setupExits \/ Exits
  <2>1. /\ mi = ni /\ mo = no
        /\ pc' \in {"setup", "done", "failed"} \/ (pc = "setup" /\ pc' = "read")
        /\ pc' = "setup" => pc = "jcl"
    BY <1>10 DEF jclExits, jclReturns, setup, setupExits, Exit, Exits, source, sink,
                 ni, no, mi, mo
  <2> QED BY <1>5, <1>6, <1>7, <2>1 DEF RoomFor
<1>11. CASE dd_in
  <2>1. ASSUME NEW chunk \in Seq(Byte), Len(chunk) <= opt.ibs, Accept(Padded(chunk)),
               pc = "read"
        PROVE  Goal
    <3>1. Padded(chunk) \in Seq(Byte) /\ Len(Padded(chunk)) <= i
      BY <1>3, <1>4, <2>1, PaddedType
    <3>2. PICK b \in Nat : b = Len(Padded(chunk))
      BY <3>1
    <3>3. Len(inbuf \o Padded(chunk)) = ni + b
      BY <1>3, <3>1, <3>2 DEF ni
    <3>4. CASE Has("BS")
      <4>1. inbuf' = <<>> /\ outbuf' = inbuf \o Padded(chunk) /\ pc' = "out"
            /\ ret' = "read" /\ force' = TRUE
        BY <2>1, <3>4 DEF Accept, StartOut
      <4>2. mi = 0 /\ mo = ni + b /\ b <= i
        BY <3>1, <3>2, <3>3, <4>1 DEF mi, mo
      <4> QED BY <1>5, <1>6, <1>7, <2>1, <3>4, <4>1, <4>2 DEF RoomFor
    <3>5. CASE ~Has("BS")
      <4>1. inbuf' = inbuf \o Padded(chunk) /\ outbuf' = outbuf /\ pc' = "conv"
        BY <2>1, <3>5 DEF Accept
      <4>2. mi = ni + b /\ mo = no /\ b <= i
        BY <3>1, <3>2, <3>3, <4>1 DEF mi, mo, no
      <4> QED BY <1>5, <1>6, <1>7, <2>1, <4>1, <4>2 DEF RoomFor
    <3> QED BY <3>4, <3>5
  <2>2. ASSUME NEW k \in 1..Least(opt.ibs, Remaining), Read(k) PROVE Goal
    <3>1. pc = "read" /\ Accept(Padded(SubSeq(input, rpos + 1, rpos + k)))
      BY <2>2 DEF Read
    <3> HIDE DEF Goal
    <3> QED BY <2>1, <3>1, ReadChunk
  <2>3. ASSUME pc = "read", pc' \in {"read", "close", "failed"}, UNCHANGED <<inbuf, outbuf>>
        PROVE  Goal
    <3>1. mi = ni /\ mo = no
      BY <2>3 DEF mi, mo, ni, no
    <3> QED BY <1>5, <1>6, <1>7, <2>3, <3>1 DEF RoomFor
  <2>4. CASE ReadError
    <3>1. <<>> \in Seq(Byte) /\ Len(<<>>) <= opt.ibs
      BY <1>4
    <3>2. Accept(Padded(<<>>)) \/ (pc' = "read" /\ UNCHANGED <<inbuf, outbuf>>)
      BY <2>4 DEF ReadError, sink
    <3>3. pc = "read"
      BY <2>4 DEF ReadError
    <3> HIDE DEF Goal
    <3> QED BY <2>1, <2>3, <3>1, <3>2, <3>3
  <2>5. CASE ReadEnds \/ ReadExits
    <3>1. pc = "read" /\ pc' \in {"close", "failed"} /\ UNCHANGED <<inbuf, outbuf>>
      BY <2>5 DEF ReadEnds, ReadExits, Exit, source, sink
    <3> HIDE DEF Goal
    <3> QED BY <2>3, <3>1
  <2> HIDE DEF Goal
  <2> QED BY <1>11, <2>2, <2>4, <2>5 DEF dd_in
<1>12. ASSUME NEW buf \in Seq(Byte), outbuf' = buf, mi <= ni,
              pc = "conv", RecordAdded(buf), Records, Len(buf) <= no + c + 1
       PROVE  Goal
  <2>1. mi <= ni
    BY <1>12
  <2>2. mo = Len(buf) /\ mo <= o + c
    <3>1. no < o
      BY <1>7, <1>12 DEF RoomFor
    <3> QED BY <1>6, <1>12, <3>1 DEF mo
  <2>3. CASE mo >= o
    <3>1. pc' = "out" /\ force' = FALSE /\ ret' = "conv"
      BY <1>4, <1>12, <2>2, <2>3 DEF RecordAdded, StartOut
    <3> QED BY <1>5, <1>6, <1>7, <1>12, <2>1, <2>2, <3>1 DEF RoomFor
  <2>4. CASE ~(mo >= o)
    <3>1. pc' = "conv"
      BY <1>4, <1>12, <2>2, <2>4 DEF RecordAdded
    <3> QED BY <1>5, <1>6, <1>7, <1>12, <2>1, <2>2, <2>4, <3>1 DEF RoomFor
  <2> QED BY <2>3, <2>4
<1>13. CASE convert
  <2>1. CASE def
    <3>1. pc = "conv" /\ ~Records /\ inbuf' = inbuf /\ outbuf' = inbuf
      BY <1>9, <2>1 DEF def, StartOut, source
    <3>2. mi = ni /\ mo = ni
      BY <3>1 DEF mi, mo, ni
    <3>3. \/ ni >= o /\ pc' = "out" /\ ret' = "read" /\ force' = FALSE
          \/ ~(ni >= o) /\ pc' = "read"
      BY <1>4, <2>1 DEF def, StartOut, ni
    <3> QED BY <1>5, <1>6, <1>7, <3>1, <3>2, <3>3 DEF RoomFor
  <2>2. CASE blockDrop
    <3>1. pc = "conv" /\ Records /\ inbuf' = AfterNL(inbuf) /\ outbuf' = outbuf
          /\ (pc' = "conv" \/ (pc' = "read" /\ ~HasNL(inbuf)))
      BY <1>3, <1>9, <2>2 DEF blockDrop, sink
    <3>2. mi <= ni /\ mo = no /\ (pc' = "read" => mi = 0)
      BY <1>3, <3>1, AfterNLType DEF mi, mo, ni, no
    <3> QED BY <1>5, <1>6, <1>7, <3>1, <3>2 DEF RoomFor
  <2>3. CASE block
    <3> DEFINE n == RecordLen(inbuf)
               rest == From(inbuf, n + 1)
               pad == Fill(Space, opt.cbs - n)
    <3>1. n \in Nat /\ n <= c /\ n <= ni /\ (n < c => n < ni)
      BY <1>3, <1>4, <2>3, RecordLenType DEF block, ni
    <3>2. Records /\ pc = "conv"
      BY <1>9, <2>3 DEF block
    <3>3. /\ inbuf' = (IF n < c THEN Tail(rest) ELSE AfterNL(rest))
          /\ RecordAdded(outbuf \o SubSeq(inbuf, 1, n) \o pad)
          /\ outbuf' = outbuf \o SubSeq(inbuf, 1, n) \o pad
      BY <1>4, <2>3 DEF block, AfterRecord, RecordAdded, StartOut
    <3> HIDE DEF n
    <3>4. rest \in Seq(Byte) /\ Len(rest) <= ni /\ (n < c => Len(rest) > 0)
      <4>1. n + 1 \in Nat /\ n + 1 >= 1
        BY <3>1
      <4>2. /\ rest \in Seq(Byte) /\ Len(rest) <= Len(inbuf)
            /\ Len(rest) = IF n + 1 <= Len(inbuf) THEN Len(inbuf) - (n + 1) + 1 ELSE 0
        BY <1>3, <4>1, FromType
      <4> HIDE DEF rest
      <4>3. n < c => n + 1 <= Len(inbuf)
        BY <1>3, <3>1 DEF ni
      <4>4. n + 1 <= Len(inbuf) => Len(inbuf) - (n + 1) + 1 > 0
        BY <1>3, <3>1
      <4> QED BY <4>2, <4>3, <4>4 DEF ni
    <3> HIDE DEF rest
    <3>5. mi <= ni
      <4>1. CASE n < c
        <5>1. Len(Tail(rest)) = Len(rest) - 1 /\ Len(rest) \in Nat
          BY <3>4, <4>1
        <5> QED BY <1>6, <3>3, <3>4, <4>1, <5>1 DEF mi
      <4>2. CASE ~(n < c)
        <5>1. Len(AfterNL(rest)) <= Len(rest) /\ AfterNL(rest) \in Seq(Byte)
          BY <3>4, AfterNLType
        <5>2. Len(rest) \in Nat /\ Len(AfterNL(rest)) \in Nat
          BY <3>4, <5>1
        <5> QED BY <1>6, <3>3, <3>4, <4>2, <5>1, <5>2 DEF mi
      <4> QED BY <4>1, <4>2
    <3>6. pad \in Seq(Byte) /\ Len(pad) = c - n
      <4>1. c - n \in Int /\ c - n >= 0 /\ Space \in Byte
        BY <3>1, BytesAssumption
      <4>2. /\ Fill(Space, c - n) \in Seq(Byte)
            /\ Len(Fill(Space, c - n)) = IF c - n > 0 THEN c - n ELSE 0
        BY <4>1, FillType, Zenon
      <4>3. pad = Fill(Space, c - n)
        BY <1>4, Zenon
      <4> HIDE DEF pad
      <4> QED BY <3>1, <4>1, <4>2, <4>3
    <3> HIDE DEF pad
    <3>7. Len(outbuf \o SubSeq(inbuf, 1, n) \o pad) = no + c
          /\ outbuf \o SubSeq(inbuf, 1, n) \o pad \in Seq(Byte)
      <4>1. SubSeq(inbuf, 1, n) \in Seq(Byte) /\ Len(SubSeq(inbuf, 1, n)) = n
        BY <1>3, <3>1 DEF ni
      <4>2. /\ outbuf \o SubSeq(inbuf, 1, n) \in Seq(Byte)
            /\ Len(outbuf \o SubSeq(inbuf, 1, n)) = no + n
        BY <1>3, <4>1 DEF no
      <4>3. ASSUME NEW s \in Seq(Byte), Len(s) = no + n
            PROVE  Len(s \o pad) = no + c /\ s \o pad \in Seq(Byte)
        <5>1. Len(s \o pad) = Len(s) + Len(pad) /\ s \o pad \in Seq(Byte)
          BY <3>6, <4>3
        <5> QED BY <1>6, <3>1, <3>6, <4>3, <5>1
      <4> QED BY <4>2, <4>3, Zenon
    <3> HIDE DEF Goal
    <3>8. Len(outbuf \o SubSeq(inbuf, 1, n) \o pad) <= no + c + 1
      BY <1>6, <3>7
    <3> QED BY <1>12, <3>2, <3>3, <3>5, <3>7, <3>8
  <2>4. CASE unblock
    <3> DEFINE record == Stripped(SubSeq(inbuf, 1, opt.cbs))
    <3>1. pc = "conv" /\ Records /\ c <= ni
      BY <1>4, <1>9, <2>4 DEF unblock, ni
    <3>2. record \in Seq(Byte) /\ Len(record) <= c + 1
      <4>1. SubSeq(inbuf, 1, c) \in Seq(Byte) /\ Len(SubSeq(inbuf, 1, c)) = c
        BY <1>3, <3>1 DEF ni
      <4> QED BY <1>4, <4>1, StrippedType
    <3>3. inbuf' = From(inbuf, opt.cbs + 1) /\ outbuf' = outbuf \o record
          /\ RecordAdded(outbuf \o record)
      BY <2>4 DEF unblock, RecordAdded, StartOut
    <3> HIDE DEF record
    <3>4. mi <= ni
      <4>1. opt.cbs + 1 \in Nat /\ opt.cbs + 1 >= 1
        BY <1>4
      <4> QED BY <1>3, <3>3, <4>1, FromType DEF mi, ni
    <3>5. outbuf \o record \in Seq(Byte) /\ Len(outbuf \o record) = no + Len(record)
          /\ Len(record) \in Nat
      BY <1>3, <3>2 DEF no
    <3>6. Len(outbuf \o record) <= no + c + 1
      BY <1>6, <3>2, <3>5
    <3> HIDE DEF Goal
    <3> QED BY <1>12, <3>1, <3>3, <3>4, <3>5, <3>6
  <2>5. CASE ConvReturns
    <3>1. pc = "conv" /\ Records /\ mi = ni /\ mo = no /\ pc' = "read" /\ (ni = 0 \/ ni < c)
      BY <1>3, <1>4, <1>9, <2>5 DEF ConvReturns, source, sink, ni, no, mi, mo
    <3> QED BY <1>5, <1>6, <1>7, <3>1 DEF RoomFor
  <2> HIDE DEF Goal
  <2> QED BY <1>13, <2>1, <2>2, <2>3, <2>4, <2>5 DEF convert
<1>14. CASE dd_out
  <2>1. ASSUME NEW k \in Nat, EndBlock(From(outbuf, k + 1)), UNCHANGED <<force, ret>>, pc = "out"
        PROVE  Goal
    <3> DEFINE rest == From(outbuf, k + 1)
    <3>1. rest \in Seq(Byte) /\ Len(rest) <= no
      <4>1. k + 1 \in Nat /\ k + 1 >= 1
        OBVIOUS
      <4> QED BY <1>3, <4>1, FromType DEF no
    <3> HIDE DEF rest
    <3>2. outbuf' = rest
      BY <2>1 DEF EndBlock, rest
    <3>3. mo = Len(rest) /\ mo <= no
      BY <3>1, <3>2 DEF mo
    <3>4. CASE mo < o
      <4>1. pc' = ret /\ inbuf' = IF ~Records /\ ~force THEN rest ELSE inbuf
        BY <1>4, <1>9, <2>1, <3>3, <3>4 DEF EndBlock, rest
      <4>2. mi = IF ~Records /\ ~force THEN mo ELSE ni
        BY <3>3, <4>1 DEF mi, ni
      <4> QED BY <1>5, <1>6, <1>7, <2>1, <3>3, <3>4, <4>1, <4>2 DEF RoomFor
    <3>5. CASE ~(mo < o)
      <4>1. pc' = pc /\ inbuf' = inbuf
        BY <1>4, <2>1, <3>3, <3>5 DEF EndBlock, rest
      <4>2. mi = ni
        BY <4>1 DEF mi, ni
      <4> QED BY <1>5, <1>6, <1>7, <2>1, <3>3, <4>1, <4>2 DEF RoomFor
    <3> QED BY <3>4, <3>5
  <2>2. ASSUME pc = "out", pc' \in {"out", "failed"}, UNCHANGED <<inbuf, force, ret>>, mo <= no
        PROVE  Goal
    <3>1. mi = ni
      BY <2>2 DEF mi, ni
    <3> QED BY <1>5, <1>6, <1>7, <2>2, <3>1 DEF RoomFor
  <2>3. CASE SkipSparse
    <3>1. EndBlock(From(outbuf, cnt + 1)) /\ UNCHANGED <<force, ret>> /\ pc = "out"
      BY <2>3 DEF SkipSparse
    <3> HIDE DEF Goal
    <3> QED BY <1>3, <2>1, <3>1
  <2>4. ASSUME NEW k \in 1..cnt, Write(k) PROVE Goal
    <3>1. k \in Nat
      BY <1>3
    <3>2. pc = "out" /\ UNCHANGED <<force, ret>>
      BY <2>4 DEF Write
    <3>3. CASE k = cnt
      <4> HIDE DEF Goal
      <4> QED BY <2>1, <2>4, <3>1, <3>2, <3>3 DEF Write
    <3>4. CASE k # cnt
      <4>1. outbuf' = From(outbuf, k + 1) /\ pc' = pc /\ inbuf' = inbuf
        BY <2>4, <3>4 DEF Write
      <4>2. Len(From(outbuf, k + 1)) <= Len(outbuf)
        <5>1. k + 1 \in Nat /\ k + 1 >= 1
          BY <3>1
        <5> QED BY <1>3, <5>1, FromType
      <4>3. mo <= no
        BY <4>1, <4>2, Zenon DEF mo, no
      <4> HIDE DEF Goal
      <4> QED BY <2>2, <3>2, <4>1, <4>3
    <3> QED BY <3>3, <3>4
  <2>5. CASE WriteInterrupted \/ WriteExits
    <3>1. pc = "out" /\ pc' \in {"out", "failed"} /\ UNCHANGED <<inbuf, force, ret, outbuf>>
      BY <2>5 DEF WriteInterrupted, WriteExits, Exit, source, sink
    <3>2. mo <= no
      BY <1>6, <3>1 DEF mo, no
    <3> HIDE DEF Goal
    <3> QED BY <2>2, <3>1, <3>2
  <2> HIDE DEF Goal
  <2> QED BY <1>14, <2>3, <2>4, <2>5 DEF dd_out
<1>15. CASE dd_close
  <2>1. pc = "close" /\ inbuf' = <<>>
    BY <1>15 DEF dd_close
  <2>2. \/ outbuf' = Fill(Zero, opt.obs) \/ outbuf' = OSynced \/ outbuf' = outbuf
    BY <1>15 DEF dd_close, StartOut
  <2>3. pc' = "exit" \/ (pc' = "out" /\ force' = TRUE /\ ret' = "exit")
    BY <1>15 DEF dd_close, StartOut
  <2>4. OutAsked = IF Records THEN o + c ELSE o + i - 1
    BY <1>4 DEF OutAsked
  <2>5. mo <= IF Records THEN o + c ELSE o + i - 1
    <3>1. \/ mo = Len(Fill(Zero, opt.obs)) \/ mo = Len(OSynced) \/ mo = no
      BY <2>2 DEF mo, no
    <3>2. Len(Fill(Zero, opt.obs)) <= OutAsked /\ Len(OSynced) <= OutAsked
      BY <1>2, <2>1, ClosedRoom
    <3>3. no <= IF Records THEN o + c ELSE o + i - 1
      BY <1>7 DEF RoomFor
    <3> QED BY <2>4, <3>1, <3>2, <3>3
  <2>6. mi = 0
    BY <2>1 DEF mi
  <2> QED BY <1>5, <1>6, <1>7, <2>1, <2>3, <2>5, <2>6 DEF RoomFor
<1> HIDE DEF Goal
<1> QED BY <1>10, <1>11, <1>13, <1>14, <1>15 DEF Next

(* Of what u_int does not cut off, malloc gives what was asked for.             *)
LEMMA Uncut ==
  ASSUME NEW n \in Nat, n < U
  PROVE  n % U = n
BY WidthAssumption

LEMMA RoomBounds == TypeOK /\ Room => BufferBounds
<1> SUFFICES ASSUME TypeOK, Room, opt.status = "ok" PROVE BufferBounds
  BY DEF BufferBounds
<1>1. PICK i \in Nat, o \in Nat, c \in Nat, ni \in Nat, no \in Nat :
        /\ i = opt.ibs /\ o = opt.obs /\ c = opt.cbs
        /\ ni = Len(inbuf) /\ no = Len(outbuf)
  <2>1. opt.ibs \in Nat /\ opt.obs \in Nat /\ opt.cbs \in Nat
    BY DEF TypeOK, ControlTypes, Options
  <2>2. Len(inbuf) \in Nat /\ Len(outbuf) \in Nat
    BY DEF TypeOK, ByteTypes
  <2> QED BY <2>1, <2>2
<1>2. i > 0 /\ o > 0 /\ (Records => c > 0)
  BY <1>1 DEF Room, Sized, Records, Has
<1>3. RoomFor(Records, o, i, c, pc, ret, force, ni, no)
  BY <1>1 DEF Room
<1>4. /\ InRoom = IF Records THEN (IF i > c THEN i ELSE c) + c ELSE o + i - 1
      /\ OutRoom = IF Records THEN o + c ELSE o + i - 1
  <2>1. /\ InAsked = IF Records THEN (IF i > c THEN i ELSE c) + c ELSE o + i - 1
        /\ OutAsked = IF Records THEN o + c ELSE o + i - 1
    BY <1>1 DEF InAsked, OutAsked, Most
  <2>2. InAsked \in Nat /\ OutAsked \in Nat
    BY <1>2, <2>1
  <2>3. InAsked < U /\ OutAsked < U
    BY DEF Room, Sized
  <2> QED BY <2>1, <2>2, <2>3, Uncut, Zenon DEF InRoom, OutRoom
<1>5. /\ pc = "read" => ni + i <= InRoom
      /\ ni <= InRoom /\ no <= OutRoom
  BY <1>2, <1>3, <1>4 DEF RoomFor
<1>6. /\ pc = "read" => Len(inbuf) + opt.ibs <= InRoom
      /\ Len(inbuf) <= InRoom /\ Len(outbuf) <= OutRoom
  BY <1>1, <1>5, Zenon
<1> QED BY <1>6, Zenon DEF BufferBounds

LEMMA RoomHolds == Spec => [](TypeOK /\ OutHolds /\ (Sized => Room))
<1>1. Init => TypeOK /\ OutHolds /\ (Sized => Room)
  BY TypeInit, RoomInit DEF Init, OutHolds
<1>2. TypeOK /\ OutHolds /\ (Sized => Room) /\ [Next]_vars
        => (TypeOK /\ OutHolds /\ (Sized => Room))'
  <2> SUFFICES ASSUME TypeOK, OutHolds, Sized => Room, [Next]_vars
               PROVE  (TypeOK /\ OutHolds)' /\ (Sized' => Room')
    OBVIOUS
  <2>1. CASE Next
    BY <2>1, ControlTypesNext, NumberTypesNext, ByteTypesNext, OutHoldsNext, RoomNext,
       ArgsFixed, SizedFixed DEF TypeOK
  <2>2. CASE UNCHANGED vars
    BY <2>2, SizedFixed DEF vars, args, source, sink, TypeOK, ControlTypes, NumberTypes,
                ByteTypes, OutHolds, Room, SoundOptions, Records, Has
  <2> QED BY <2>1, <2>2
<1> QED BY <1>1, <1>2, PTL DEF Spec

(* With sizes other than 0 and records whose sums u_int holds, however short    *)
(* the reads and writes, nothing is put behind the end of the memory a buffer   *)
(* was given (dd.c:210-221, 315, 717-945).                                      *)
THEOREM BuffersHold == Spec => []BufferBounds
<1>1. TypeOK /\ (Sized => Room) => BufferBounds
  BY RoomBounds DEF BufferBounds
<1> QED BY <1>1, RoomHolds, PTL

-------------------------------------------------------------------------------
(* Nothing is lost                                                              *)

LEMMA Reassociate ==
  ASSUME NEW a \in Seq(Byte), NEW b \in Seq(Byte), NEW c \in Seq(Byte)
  PROVE  (a \o b) \o c = a \o (b \o c)
OBVIOUS

(* Concatenation as an operator of its own, for steps that only move brackets.   *)
Cat(a, b) == a \o b

LEMMA CatFacts ==
  ASSUME NEW a \in Seq(Byte), NEW b \in Seq(Byte), NEW c \in Seq(Byte)
  PROVE  Cat(a, b) \in Seq(Byte) /\ Cat(Cat(a, b), c) = Cat(a, Cat(b, c))
<1>1. a \o b \in Seq(Byte)
  OBVIOUS
<1> QED BY <1>1, Reassociate, Zenon DEF Cat

LEMMA CatSecond ==
  ASSUME NEW a \in Seq(Byte), NEW b \in Seq(Byte), NEW n \in Nat, n = Len(a),
         NEW j \in 1..n + Len(b), j > n
  PROVE  (a \o b)[j] = b[j - n]
OBVIOUS

(* Three and four pieces taken together differently.                            *)
Grouped(p, t, u) == (p \o t) \o u = p \o (t \o u)
Regrouped(p, t, u, v) == (p \o t) \o (u \o v) = (p \o (t \o u)) \o v

LEMMA Group ==
  ASSUME NEW p \in Seq(Byte), NEW t \in Seq(Byte), NEW u \in Seq(Byte)
  PROVE  Grouped(p, t, u)
BY Reassociate DEF Grouped

LEMMA Regroup ==
  ASSUME NEW p \in Seq(Byte), NEW t \in Seq(Byte), NEW u \in Seq(Byte), NEW v \in Seq(Byte)
  PROVE  Regrouped(p, t, u, v)
<1>1. Cat(u, v) \in Seq(Byte) /\ Cat(t, u) \in Seq(Byte)
  BY CatFacts
<1>2. Cat(Cat(p, t), Cat(u, v)) = Cat(p, Cat(t, Cat(u, v)))
  BY <1>1, CatFacts
<1>3. Cat(t, Cat(u, v)) = Cat(Cat(t, u), v)
  BY CatFacts
<1>4. Cat(p, Cat(Cat(t, u), v)) = Cat(Cat(p, Cat(t, u)), v)
  BY <1>1, CatFacts
<1>5. Cat(Cat(p, t), Cat(u, v)) = Cat(Cat(p, Cat(t, u)), v)
  BY <1>2, <1>3, <1>4
<1> QED BY <1>5, Zenon DEF Regrouped, Cat

LEMMA Split ==
  ASSUME NEW s \in Seq(Byte), NEW k \in Nat, k <= Len(s)
  PROVE  /\ SubSeq(s, 1, k) \in Seq(Byte) /\ From(s, k + 1) \in Seq(Byte)
         /\ SubSeq(s, 1, k) \o From(s, k + 1) = s /\ Len(SubSeq(s, 1, k)) = k
<1>1. SubSeq(s, 1, k) \in Seq(Byte) /\ Len(SubSeq(s, 1, k)) = k
      /\ \A j \in 1..k : SubSeq(s, 1, k)[j] = s[j]
  OBVIOUS
<1>2. k + 1 \in Nat /\ k + 1 >= 1
  OBVIOUS
<1>3. /\ From(s, k + 1) \in Seq(Byte)
      /\ Len(From(s, k + 1)) = IF k + 1 <= Len(s) THEN Len(s) - (k + 1) + 1 ELSE 0
      /\ \A j \in 1..Len(From(s, k + 1)) : From(s, k + 1)[j] = s[k + 1 + j - 1]
  BY <1>2, FromType
<1>4. Len(From(s, k + 1)) = Len(s) - k
  BY <1>3
<1> DEFINE t == SubSeq(s, 1, k) \o From(s, k + 1)
<1>5. t \in Seq(Byte) /\ Len(t) = Len(s)
  <2>1. \A a, b \in Seq(Byte) : a \o b \in Seq(Byte) /\ Len(a \o b) = Len(a) + Len(b)
    OBVIOUS
  <2>2. t \in Seq(Byte) /\ Len(t) = Len(SubSeq(s, 1, k)) + Len(From(s, k + 1))
    BY <1>1, <1>3, <2>1, Zenon
  <2> HIDE DEF t
  <2> QED BY <1>1, <1>4, <2>2
<1>6. ASSUME NEW j \in 1..Len(s) PROVE t[j] = s[j]
  <2>1. CASE j <= k
    BY <1>1, <1>3, <2>1
  <2>2. CASE j > k
    <3>1. t[j] = From(s, k + 1)[j - k]
      BY <1>1, <1>3, <1>4, <2>2
    <3>2. j - k \in 1..Len(From(s, k + 1)) /\ k + 1 + (j - k) - 1 = j
      BY <1>4, <2>2
    <3>3. From(s, k + 1)[j - k] = s[k + 1 + (j - k) - 1]
      BY <1>3, <3>2
    <3> QED BY <3>1, <3>2, <3>3, Zenon
  <2>3. j <= k \/ j > k
    OBVIOUS
  <2> QED BY <2>1, <2>2, <2>3, Zenon
<1> HIDE DEF t
<1>7. t = s
  BY <1>5, <1>6
<1> QED BY <1>1, <1>3, <1>7 DEF t

(* A write appends to what was written behind the place of the seek.            *)
LEMMA WriteAppends ==
  ASSUME NEW file \in Seq(Byte), NEW new \in Seq(Byte), NEW base \in Nat, NEW pos \in Nat,
         base <= pos, pos <= Len(file) \/ pos = base
  PROVE  /\ SubSeq(Overwrite(file, pos, new), base + 1, pos + Len(new))
               = SubSeq(file, base + 1, pos) \o new
         /\ SubSeq(file, base + 1, pos) \in Seq(Byte)
         /\ pos + Len(new) <= Len(Overwrite(file, pos, new))
<1> DEFINE f == Overwrite(file, pos, new)
           old == SubSeq(file, base + 1, pos)
           s == SubSeq(f, base + 1, pos + Len(new))
           n == pos - base
<1>1. /\ f \in Seq(Byte)
      /\ Len(f) = IF pos + Len(new) > Len(file) THEN pos + Len(new) ELSE Len(file)
      /\ \A i \in 1..Len(f) : f[i] = IF i > pos /\ i <= pos + Len(new) THEN new[i - pos]
                                     ELSE IF i <= Len(file) THEN file[i] ELSE Zero
  BY OverwriteType
<1> HIDE DEF f
<1>2. n \in Nat /\ pos + Len(new) <= Len(f)
  BY <1>1
<1>3. /\ old \in Seq(Byte) /\ Len(old) = n
      /\ \A j \in 1..n : old[j] = file[base + j]
  <2>1. CASE pos <= Len(file)
    BY <2>1
  <2>2. CASE pos = base
    <3>1. n = 0 /\ old = <<>>
      BY <2>2
    <3> QED BY <3>1
  <2> QED BY <2>1, <2>2
<1>4. /\ s \in Seq(Byte) /\ Len(s) = n + Len(new)
      /\ \A j \in 1..n + Len(new) : s[j] = f[base + j]
  <2>1. ASSUME NEW g \in Seq(Byte), NEW x \in Nat, NEW y \in Nat, x <= y, y <= Len(g)
        PROVE  /\ SubSeq(g, x + 1, y) \in Seq(Byte) /\ Len(SubSeq(g, x + 1, y)) = y - x
               /\ \A j \in 1..y - x : SubSeq(g, x + 1, y)[j] = g[x + j]
    BY <2>1
  <2>2. PICK end \in Nat : end = pos + Len(new) /\ base <= end /\ end - base = n + Len(new)
    BY <1>2
  <2>3. end <= Len(f)
    BY <1>2, <2>2
  <2>4. /\ SubSeq(f, base + 1, end) \in Seq(Byte) /\ Len(SubSeq(f, base + 1, end)) = end - base
        /\ \A j \in 1..end - base : SubSeq(f, base + 1, end)[j] = f[base + j]
    BY <1>1, <2>1, <2>2, <2>3
  <2> HIDE DEF n
  <2> QED BY <2>2, <2>4, Zenon
<1> HIDE DEF s, old
<1>5. old \o new \in Seq(Byte) /\ Len(old \o new) = n + Len(new)
  BY <1>3
<1>6. ASSUME NEW j \in 1..n + Len(new) PROVE s[j] = (old \o new)[j]
  <2>1. base + j \in 1..Len(f)
    BY <1>2
  <2>2. CASE j <= n
    <3>1. (old \o new)[j] = file[base + j] /\ n > 0
      BY <1>2, <1>3, <2>2
    <3>2. base + j <= Len(file) /\ ~(base + j > pos)
      BY <1>2, <2>2, <3>1
    <3>3. f[base + j] = file[base + j]
      BY <1>1, <2>1, <3>2
    <3> QED BY <1>4, <3>1, <3>3
  <2>3. CASE j > n
    <3>1. (old \o new)[j] = new[j - n]
      BY <1>2, <1>3, <2>3, CatSecond
    <3>2. base + j > pos /\ base + j <= pos + Len(new) /\ (base + j) - pos = j - n
      BY <1>2, <2>3
    <3>3. f[base + j] = new[j - n]
      <4>1. f[base + j] = new[(base + j) - pos]
        BY <1>1, <2>1, <3>2
      <4> QED BY <3>2, <4>1, Zenon
    <3>4. s[j] = f[base + j]
      BY <1>4
    <3> QED BY <3>1, <3>3, <3>4, Zenon
  <2>4. j <= n \/ j > n
    BY <1>2
  <2> QED BY <2>2, <2>3, <2>4, Zenon
<1>7. s = old \o new
  <2> DEFINE t == old \o new
  <2>1. s \in Seq(Byte) /\ t \in Seq(Byte) /\ Len(t) = Len(s)
    BY <1>4, <1>5
  <2>2. \A j \in 1..Len(s) : s[j] = t[j]
    BY <1>4, <1>6
  <2> HIDE DEF t
  <2>3. s = t
    BY <2>1, <2>2
  <2> QED BY <2>3 DEF t
<1> QED BY <1>2, <1>3, <1>7 DEF s, f, old

Appends(file, new, base, pos) ==
  /\ SubSeq(Overwrite(file, pos, new), base + 1, pos + Len(new))
       = SubSeq(file, base + 1, pos) \o new
  /\ SubSeq(file, base + 1, pos) \in Seq(Byte)
  /\ pos + Len(new) <= Len(Overwrite(file, pos, new))

LEMMA WritesAppend ==
  ASSUME NEW file \in Seq(Byte), NEW new \in Seq(Byte), NEW base \in Nat, NEW pos \in Nat,
         base <= pos, pos <= Len(file) \/ pos = base
  PROVE  Appends(file, new, base, pos)
BY WriteAppends, Zenon DEF Appends

Plain == opt.status = "ok" /\ cfunc(opt) = "def" /\ ~Has("SPARSE") /\ ~Has("OSYNC")
Base == opt.seek * opt.obs

(* The inductive form of NothingLost: nothing is skipped in the output, between *)
(* two reads the two buffers hold the same, and after the close neither holds   *)
(* anything.                                                                    *)
Kept ==
  Plain =>
    /\ pending = 0
    /\ pc \in {"jcl", "setup"} => taken = <<>> /\ inbuf = <<>> /\ outbuf = <<>>
    /\ pc \in {"read", "close"} => outbuf = inbuf
    /\ pc \in {"exit", "done"} => inbuf = <<>>
    /\ pc \in {"read", "conv", "out", "close", "exit", "done"} =>
          /\ Base <= wpos /\ (wpos <= Len(output) \/ wpos = Base)
          /\ Sent \o (IF pc = "out" THEN outbuf ELSE inbuf) = taken

(* What was sent is a sequence of bytes.                                        *)
LEMMA SentType ==
  ASSUME NEW file \in Seq(Byte), NEW base \in Nat, NEW pos \in Nat,
         base <= pos, pos <= Len(file) \/ pos = base
  PROVE  SubSeq(file, base + 1, pos) \in Seq(Byte)
<1>1. CASE pos <= Len(file)
  BY <1>1
<1>2. CASE pos = base
  BY <1>2
<1> QED BY <1>1, <1>2

LEMMA KeptNext ==
  ASSUME TypeOK, OutHolds, Room, Kept, Next
  PROVE  Kept'
<1>1. opt' = opt /\ Plain' = Plain /\ Base' = Base
  BY ArgsFixed DEF args, Plain, Has, Base
<1>2. SUFFICES ASSUME Plain PROVE Kept'
  BY <1>1 DEF Kept
<1>3. /\ opt \in Options /\ inbuf \in Seq(Byte) /\ outbuf \in Seq(Byte) /\ taken \in Seq(Byte)
      /\ output \in Seq(Byte) /\ cnt \in Nat /\ wpos \in Nat /\ pending \in Int
      /\ ret \in {"read", "conv", "exit"}
  BY DEF TypeOK, ControlTypes, NumberTypes, ByteTypes
<1>4. PICK b \in Nat, o \in Nat : b = Base /\ o = opt.obs
  <2>1. PICK seek \in Nat, obs \in Nat : seek = opt.seek /\ obs = opt.obs
    BY <1>3 DEF Options
  <2>2. seek * obs \in Nat
    OBVIOUS
  <2> QED BY <2>1, <2>2 DEF Base
<1>5. cfunc(opt) = "def" /\ ~Records /\ ~Has("SPARSE") /\ ~Has("OSYNC") /\ opt.status = "ok"
      /\ o > 0
  <2>1. cfunc(opt) = "def" /\ ~Has("SPARSE") /\ ~Has("OSYNC") /\ opt.status = "ok"
    BY <1>2 DEF Plain
  <2>2. ~Records
    BY <2>1 DEF cfunc, Records, Has
  <2>3. o > 0
    BY <1>4, <2>1 DEF Room, Sized
  <2> QED BY <2>1, <2>2, <2>3
<1>6. pending = 0
  BY <1>2 DEF Kept
<1> DEFINE Placed(p, f) == b <= p /\ (p <= Len(f) \/ p = b)
           Running == {"read", "conv", "out", "close", "exit", "done"}
           sent == SubSeq(output, b + 1, wpos)
<1>7. ASSUME pc \in Running
      PROVE  /\ Placed(wpos, output) /\ sent \in Seq(Byte)
             /\ sent \o (IF pc = "out" THEN outbuf ELSE inbuf) = taken
  <2>1. Placed(wpos, output) /\ sent \o (IF pc = "out" THEN outbuf ELSE inbuf) = taken
    BY <1>2, <1>4, <1>7 DEF Kept, Sent, Base
  <2> QED BY <1>3, <2>1, SentType
(* Steps that leave what was sent alone.                                        *)
<1>8. ASSUME pc \in Running, UNCHANGED <<output, wpos, pending>>,
             pc' \in {"read", "close"} => outbuf' = inbuf',
             pc' \in {"exit", "done"} => inbuf' = <<>>,
             pc' \in {"failed"} \cup Running,
             pc' # "failed" => sent \o (IF pc' = "out" THEN outbuf' ELSE inbuf') = taken'
      PROVE  Kept'
  <2>1. Sent' = sent
    BY <1>1, <1>4, <1>8 DEF Sent, Base
  <2>2. Placed(wpos, output)
    BY <1>7, <1>8
  <2> HIDE DEF sent
  <2> QED BY <1>1, <1>4, <1>6, <1>8, <2>1, <2>2 DEF Kept
<1>9. CASE jclExits \/ jclReturns \/ setupExits
  <2>1. pc' \in {"setup", "failed"} /\ (pc' = "setup" => pc = "jcl")
        /\ UNCHANGED <<pending, taken, inbuf, outbuf>>
    BY <1>5, <1>9 DEF jclExits, jclReturns, setupExits, Exit, source, sink
  <2> QED BY <1>2, <2>1 DEF Kept
<1>10. CASE Exits
  <2>1. pc = "exit" /\ pc' \in {"done", "failed"}
        /\ UNCHANGED <<pending, taken, inbuf, outbuf, output, wpos>>
    BY <1>10 DEF Exits, source, sink
  <2>2. inbuf = <<>>
    BY <1>2, <2>1 DEF Kept
  <2>3. pc \in Running
    BY <2>1
  <2>4. sent \o inbuf = taken
    BY <1>7, <2>1, <2>3
  <2> HIDE DEF sent
  <2> QED BY <1>8, <2>1, <2>2, <2>3, <2>4
<1>11. CASE setup
  <2>1. /\ pc = "setup" /\ pc' = "read" /\ wpos' = Base
        /\ UNCHANGED <<pending, taken, inbuf, outbuf>>
    BY <1>11 DEF setup, Base
  <2>2. taken = <<>> /\ inbuf = <<>> /\ outbuf = <<>>
    BY <1>2, <2>1 DEF Kept
  <2>3. Sent' = <<>>
    <3>1. Sent' = SubSeq(output', b + 1, b)
      BY <1>1, <1>4, <2>1 DEF Sent, Base
    <3> QED BY <1>4, <3>1
  <2>4. <<>> \o <<>> = <<>>
    OBVIOUS
  <2> QED BY <1>1, <1>4, <1>6, <2>1, <2>2, <2>3, <2>4 DEF Kept
<1>12. CASE dd_in
  <2>1. ASSUME NEW chunk \in Seq(Byte), Len(chunk) <= opt.ibs, Accept(Padded(chunk)),
               pc = "read"
        PROVE  Kept'
    <3>1. Padded(chunk) \in Seq(Byte)
      BY <1>3, <2>1, PaddedType
    <3>2. sent \in Seq(Byte) /\ sent \o inbuf = taken
      BY <1>7, <2>1
    <3> HIDE DEF sent
    <3>3. sent \o (inbuf \o Padded(chunk)) = taken \o Padded(chunk)
      <4>1. Grouped(sent, inbuf, Padded(chunk))
        BY <1>3, <3>1, <3>2, Group
      <4> QED BY <3>2, <4>1, Zenon DEF Grouped
    <3>4. taken' = taken \o Padded(chunk) /\ UNCHANGED <<output, wpos, pending>>
      BY <2>1 DEF Accept
    <3>5. \/ pc' = "out" /\ outbuf' = inbuf \o Padded(chunk)
          \/ pc' = "conv" /\ inbuf' = inbuf \o Padded(chunk)
      BY <2>1, Zenon DEF Accept, StartOut
    <3> QED BY <1>8, <2>1, <3>3, <3>4, <3>5
  <2>2. ASSUME NEW k \in 1..Least(opt.ibs, Remaining), Read(k) PROVE Kept'
    BY <2>1, <2>2, ReadChunk DEF Read
  <2>3. ASSUME pc = "read", pc' \in {"read", "close", "failed"},
               UNCHANGED <<inbuf, outbuf, taken, output, wpos, pending>>
        PROVE  Kept'
    <3>1. sent \o inbuf = taken /\ outbuf = inbuf
      BY <1>2, <1>7, <2>3 DEF Kept
    <3> HIDE DEF sent
    <3> QED BY <1>8, <2>3, <3>1
  <2>4. CASE ReadError
    <3>1. <<>> \in Seq(Byte) /\ Len(<<>>) <= opt.ibs
      BY <1>3 DEF Options
    <3>2. Accept(Padded(<<>>)) \/ UNCHANGED <<pc, inbuf, outbuf, taken, output, wpos, pending>>
      BY <2>4 DEF ReadError, sink
    <3>3. pc = "read"
      BY <2>4 DEF ReadError
    <3> QED BY <2>1, <2>3, <3>1, <3>2, <3>3
  <2>5. CASE ReadEnds \/ ReadExits
    BY <2>3, <2>5 DEF ReadEnds, ReadExits, Exit, source, sink
  <2> QED BY <1>12, <2>2, <2>4, <2>5 DEF dd_in
<1>13. CASE convert
  <2>1. def
    BY <1>5, <1>13 DEF convert, blockDrop, block, unblock, ConvReturns
  <2>2. /\ pc = "conv" /\ pc' \in {"out", "read"} /\ inbuf' = inbuf /\ outbuf' = inbuf
        /\ UNCHANGED <<taken, output, wpos, pending>>
    BY <2>1 DEF def, StartOut, source
  <2>3. sent \o inbuf = taken
    BY <1>7, <2>2
  <2> HIDE DEF sent
  <2> QED BY <1>8, <2>2, <2>3
<1>14. CASE dd_out
  <2>0. pc = "out"
    BY <1>14 DEF dd_out, SkipSparse, Write, WriteInterrupted, WriteExits
  <2>1. /\ sent \in Seq(Byte) /\ sent \o outbuf = taken /\ Placed(wpos, output)
        /\ cnt <= Len(outbuf) /\ (force => cnt = Len(outbuf) /\ inbuf = <<>>)
        /\ (ret = "exit" => force) /\ ret # "conv"
    <3>1. RoomFor(Records, opt.obs, opt.ibs, opt.cbs, pc, ret, force, Len(inbuf), Len(outbuf))
      BY <1>5 DEF Room
    <3>2. /\ force => Len(inbuf) = 0
          /\ (ret = "exit" => force) /\ ret # "conv"
      BY <1>5, <2>0, <3>1 DEF RoomFor
    <3>3. Len(inbuf) = 0 => inbuf = <<>>
      BY <1>3
    <3>4. sent \in Seq(Byte) /\ sent \o outbuf = taken /\ Placed(wpos, output)
      BY <1>7, <2>0
    <3> QED BY <2>0, <3>2, <3>3, <3>4 DEF OutHolds
  <2>2. ~SkipSparse
    BY <1>5 DEF SkipSparse, IsSparse
  <2>3. ASSUME NEW k \in 1..cnt, Write(k) PROVE Kept'
    <3> DEFINE first == SubSeq(outbuf, 1, k)
               rest == From(outbuf, k + 1)
    <3>1. k \in Nat /\ k <= cnt /\ k <= Len(outbuf)
      BY <1>3, <2>1
    <3>2. first \in Seq(Byte) /\ rest \in Seq(Byte) /\ first \o rest = outbuf /\ Len(first) = k
      BY <1>3, <3>1, Split
    <3>3. /\ output' = Overwrite(output, wpos, first) /\ wpos' = wpos + k /\ pending' = 0
          /\ taken' = taken /\ force' = force /\ outbuf' = rest
      <4>1. /\ output' = Overwrite(output, wpos + pending, first) /\ wpos' = wpos + pending + k
            /\ pending' = 0 /\ taken' = taken /\ force' = force
        BY <2>3 DEF Write
      <4>2. outbuf' = rest
        BY <2>3 DEF Write, EndBlock
      <4>3. wpos + pending = wpos /\ wpos + pending + k = wpos + k
        BY <1>3, <1>6, <3>1
      <4> HIDE DEF first, rest
      <4> QED BY <4>1, <4>2, <4>3
    <3>4. (force /\ k = cnt) => rest = <<>>
      BY <1>3, <2>1, <3>1, FromType DEF From
    <3>5. \/ pc' = "out"
          \/ pc' = "read" /\ ~force /\ inbuf' = rest
          \/ pc' = ret /\ force /\ inbuf' = inbuf /\ k = cnt
      <4>1. CASE k = cnt
        <5>1. EndBlock(rest) /\ UNCHANGED <<force, ret>>
          BY <2>3, <4>1 DEF Write
        <5>2. (pc' = ret /\ inbuf' = IF ~force THEN rest ELSE inbuf) \/ pc' = "out"
          BY <1>5, <2>0, <5>1 DEF EndBlock
        <5>3. ~force => ret = "read"
          BY <1>3, <2>1
        <5>4. CASE pc' = "out"
          BY <5>4
        <5>5. CASE force /\ pc' = ret /\ inbuf' = inbuf
          BY <4>1, <5>5, Zenon
        <5>6. CASE ~force /\ pc' = ret /\ inbuf' = rest
          BY <5>3, <5>6, Zenon
        <5> QED BY <5>2, <5>4, <5>5, <5>6, Zenon
      <4>2. CASE k # cnt
        BY <2>0, <2>3, <4>2 DEF Write
      <4> QED BY <4>1, <4>2
    <3> HIDE DEF first, rest
    <3>6. /\ SubSeq(output', b + 1, wpos') = sent \o first
          /\ Placed(wpos', output')
      <4>1. /\ SubSeq(Overwrite(output, wpos, first), b + 1, wpos + Len(first)) = sent \o first
            /\ wpos + Len(first) <= Len(Overwrite(output, wpos, first))
        <5>1. b <= wpos /\ (wpos <= Len(output) \/ wpos = b)
          BY <2>1
        <5>2. Appends(output, first, b, wpos)
          BY <1>3, <3>2, <5>1, WritesAppend
        <5> QED BY <5>2, Zenon DEF Appends
      <4>2. b <= wpos + k
        BY <1>3, <2>1, <3>1
      <4> HIDE DEF sent
      <4>3. Len(first) = k
        BY <3>2
      <4> QED BY <3>3, <4>1, <4>2, <4>3
    <3>7. Sent' = sent \o first
      BY <1>1, <1>4, <3>6 DEF Sent, Base
    <3> HIDE DEF sent
    <3>8. (sent \o first) \o rest = taken'
      <4>1. (sent \o first) \o rest = sent \o (first \o rest)
        BY <2>1, <3>2, Reassociate
      <4> QED BY <2>1, <3>2, <3>3, <4>1
    <3>9. CASE pc' = "out"
      BY <1>1, <1>4, <3>3, <3>6, <3>7, <3>8, <3>9 DEF Kept
    <3>10. CASE pc' # "out"
      <4>1. inbuf' = rest /\ outbuf' = rest /\ pc' \in {"read", "exit"}
            /\ (pc' = "exit" => rest = <<>>)
        BY <1>3, <2>1, <3>3, <3>4, <3>5, <3>10
      <4> QED BY <1>1, <1>4, <3>3, <3>6, <3>7, <3>8, <4>1 DEF Kept
    <3> QED BY <3>9, <3>10
  <2>4. CASE WriteInterrupted
    <3>1. /\ wpos' = wpos + pending /\ pending' = 0 /\ output' = output /\ outbuf' = outbuf
          /\ pc' = pc /\ taken' = taken /\ inbuf' = inbuf
      BY <2>4 DEF WriteInterrupted, source
    <3>2. wpos' = wpos
      BY <1>3, <1>6, <3>1
    <3> HIDE DEF sent
    <3> QED BY <1>6, <1>8, <2>0, <2>1, <3>1, <3>2
  <2>5. CASE WriteExits
    <3>1. pc' = "failed" /\ pending' = pending
      BY <2>5 DEF WriteExits, Exit, sink
    <3> QED BY <1>6, <3>1 DEF Kept
  <2> QED BY <1>14, <2>2, <2>3, <2>4, <2>5 DEF dd_out
<1>15. CASE dd_close
  <2>1. pc = "close" /\ inbuf' = <<>> /\ UNCHANGED <<taken, output, wpos>>
    BY <1>15 DEF dd_close
  <2>2. outbuf = inbuf
    BY <1>2, <2>1 DEF Kept
  <2>3. OSynced = inbuf
    BY <1>5, <2>2 DEF OSynced, Closed
  <2>4. /\ pending' = pending
        /\ \/ pc' = "out" /\ outbuf' = inbuf
           \/ pc' = "exit" /\ inbuf = <<>>
    BY <1>6, <1>15, <2>3 DEF dd_close, StartOut
  <2>5. sent \o inbuf = taken
    BY <1>7, <2>1
  <2> HIDE DEF sent
  <2> QED BY <1>8, <2>1, <2>4, <2>5
<1> QED BY <1>9, <1>10, <1>11, <1>12, <1>13, <1>14, <1>15 DEF Next

(* A copy without conversion puts out exactly what it read, in order and once,  *)
(* for all sizes that Sized allows, all lengths of input and all short reads    *)
(* and writes (dd.c:315-391, 468-550, 717-762).                                 *)
THEOREM CopyLosesNothing == Spec => []NothingLost
<1>1. Init => Kept
  BY DEF Init, Kept
<1>2. TypeOK /\ OutHolds /\ (Sized => Room) /\ (Sized => Kept) /\ [Next]_vars
        => (Sized => Kept)'
  <2> SUFFICES ASSUME TypeOK, OutHolds, Sized => Room, Sized => Kept, [Next]_vars, Sized'
               PROVE  Kept'
    OBVIOUS
  <2>1. CASE Next
    BY <2>1, ArgsFixed, SizedFixed, KeptNext
  <2>2. CASE UNCHANGED vars
    <3>1. UNCHANGED <<pc, args, source, sink, faults>>
      BY <2>2 DEF vars
    <3>2. Sized
      BY <3>1, SizedFixed
    <3>3. Plain' = Plain /\ Base' = Base /\ Sent' = Sent
      BY <3>1 DEF args, sink, Plain, Has, Base, Sent
    <3> QED BY <3>1, <3>2, <3>3 DEF args, source, sink, Kept
  <2> QED BY <2>1, <2>2
<1>3. (Sized => Kept) => NothingLost
  BY DEF Kept, NothingLost, Copying, Plain, Has
<1> QED BY <1>1, <1>2, <1>3, RoomHolds, PTL DEF Spec

-------------------------------------------------------------------------------
(* The places of what was read.                                                 *)

PadByte == IF Records THEN Space ELSE Zero

(* Every byte is padding or what the input holds that far behind a position.    *)
InPlace(s, after) ==
  \A i \in 1..Len(s) :
    s[i] = PadByte \/ (after + i \in DOMAIN input /\ s[i] = input[after + i])

(* The inductive form of ErrorsKeepOffsets.  With sync all blocks are of the    *)
(* size asked for, and a read moves the position by no more: once it is behind, *)
(* after a short read or an error on a pipe, it stays behind.                   *)
PlacesKept ==
  opt.status = "ok" /\ Has("SYNC") =>
    /\ pc \in {"jcl", "setup"} => blocks = 0
    /\ Len(taken) = blocks * opt.ibs
    /\ rpos <= (opt.skip + blocks) * opt.ibs
    /\ rpos = (opt.skip + blocks) * opt.ibs => InPlace(taken, opt.skip * opt.ibs)

(* The block after those that were taken.                                       *)
LEMMA NextBlock ==
  ASSUME NEW skip \in Nat, NEW n \in Nat, NEW size \in Nat
  PROVE  /\ (skip + n) * size \in Nat /\ n * size \in Nat /\ skip * size \in Nat
         /\ (skip + n) * size = skip * size + n * size
         /\ (n + 1) * size = n * size + size
         /\ (skip + (n + 1)) * size = (skip + n) * size + size
OBVIOUS

(* With sync a block is what was read and padding behind it.                    *)
LEMMA PaddedBlock ==
  ASSUME opt \in Options, Has("SYNC"), NEW chunk \in Seq(Byte), Len(chunk) <= opt.ibs
  PROVE  /\ Padded(chunk) \in Seq(Byte) /\ Len(Padded(chunk)) = opt.ibs
         /\ \A i \in 1..Len(chunk) : Padded(chunk)[i] = chunk[i]
         /\ \A i \in Len(chunk) + 1..opt.ibs : Padded(chunk)[i] = PadByte
<1>1. PICK n \in Nat, b \in Byte : n = opt.ibs /\ b = PadByte
  BY BytesAssumption DEF Options, PadByte
<1>2. PICK m \in Nat : m = n - Len(chunk)
  BY <1>1
<1>3. Fill(b, m) \in Seq(Byte) /\ Len(Fill(b, m)) = m /\ \A i \in 1..m : Fill(b, m)[i] = b
  BY DEF Fill
<1>4. Padded(chunk) = chunk \o Fill(b, m)
  BY <1>1, <1>2, Zenon DEF Padded, PadByte
<1>5. ASSUME NEW f \in Seq(Byte), Len(f) = m, \A i \in 1..m : f[i] = b
      PROVE  /\ chunk \o f \in Seq(Byte) /\ Len(chunk \o f) = n
             /\ \A i \in 1..Len(chunk) : (chunk \o f)[i] = chunk[i]
             /\ \A i \in Len(chunk) + 1..n : (chunk \o f)[i] = b
  <2>1. chunk \o f \in Seq(Byte) /\ Len(chunk \o f) = n
    BY <1>1, <1>2, <1>5
  <2>2. \A i \in 1..Len(chunk) : (chunk \o f)[i] = chunk[i]
    OBVIOUS
  <2>3. ASSUME NEW i \in Len(chunk) + 1..n PROVE (chunk \o f)[i] = b
    <3>1. i - Len(chunk) \in 1..m /\ i \in 1..Len(chunk) + Len(f) /\ i > Len(chunk)
      BY <1>1, <1>2, <1>5
    <3>2. (chunk \o f)[i] = f[i - Len(chunk)]
      BY <3>1, CatSecond
    <3> QED BY <1>5, <3>1, <3>2
  <2> QED BY <2>1, <2>2, <2>3
<1>6. PICK f \in Seq(Byte) : f = Fill(b, m)
  BY <1>3
<1>7. Len(f) = m /\ \A i \in 1..m : f[i] = b
  BY <1>3, <1>6, Zenon
<1>8. Padded(chunk) = chunk \o f
  BY <1>4, <1>6, Zenon
<1> QED BY <1>1, <1>5, <1>7, <1>8, Zenon

(* A block that starts where the last one ended keeps everything in its place.  *)
LEMMA PlacesJoin ==
  ASSUME NEW s \in Seq(Byte), NEW t \in Seq(Byte), NEW after \in Nat,
         InPlace(s, after), InPlace(t, after + Len(s))
  PROVE  InPlace(s \o t, after)
<1> SUFFICES ASSUME NEW i \in 1..Len(s \o t)
             PROVE  \/ (s \o t)[i] = PadByte
                    \/ after + i \in DOMAIN input /\ (s \o t)[i] = input[after + i]
  BY Zenon DEF InPlace
<1>1. i \in Int /\ Len(s) \in Nat /\ Len(t) \in Nat /\ Len(s \o t) = Len(s) + Len(t)
  OBVIOUS
<1>2. CASE i <= Len(s)
  <2>1. i \in 1..Len(s) /\ (s \o t)[i] = s[i]
    BY <1>1, <1>2
  <2> QED BY <2>1, Zenon DEF InPlace
<1>3. CASE i > Len(s)
  <2>0. i - Len(s) \in 1..Len(t)
    BY <1>1, <1>3
  <2>1. PICK j \in 1..Len(t) : j = i - Len(s)
    BY <2>0, Zenon
  <2>2. (s \o t)[i] = t[j] /\ (after + Len(s)) + j = after + i
    BY <1>1, <1>3, <2>1
  <2>3. t[j] = PadByte \/ ((after + Len(s)) + j \in DOMAIN input
                            /\ t[j] = input[(after + Len(s)) + j])
    BY <2>1, Zenon DEF InPlace
  <2> QED BY <2>2, <2>3, Zenon
<1> QED BY <1>1, <1>2, <1>3

(* A block that was taken: its bytes from the position on, the rest padding.    *)
LEMMA PlacesAccept ==
  ASSUME TypeOK, Room, PlacesKept, opt.status = "ok", Has("SYNC"), UNCHANGED args,
         NEW chunk \in Seq(Byte), Len(chunk) <= opt.ibs, Accept(Padded(chunk)),
         \A j \in 1..Len(chunk) : rpos + j \in DOMAIN input /\ chunk[j] = input[rpos + j],
         rpos' \in Nat, rpos' <= rpos + opt.ibs,
         rpos' = rpos + opt.ibs \/ rpos' = rpos + Len(chunk),
         pc = "read"
  PROVE  PlacesKept'
<1>1. PICK skip \in Nat, n \in Nat, size \in Nat, r \in Nat :
        skip = opt.skip /\ n = blocks /\ size = opt.ibs /\ r = rpos
  BY DEF TypeOK, ControlTypes, NumberTypes, Options
<1>2. size > 0
  BY <1>1 DEF Room, Sized
<1>3. /\ (skip + n) * size \in Nat /\ n * size \in Nat /\ skip * size \in Nat
      /\ (skip + n) * size = skip * size + n * size
      /\ (n + 1) * size = n * size + size
      /\ (skip + (n + 1)) * size = (skip + n) * size + size
  BY NextBlock
<1>4. PICK start \in Nat, end \in Nat, first \in Nat :
        start = n * size /\ end = (skip + n) * size /\ first = skip * size
  BY <1>3
<1>5. /\ end = first + start /\ (n + 1) * size = start + size
      /\ (skip + (n + 1)) * size = end + size
  BY <1>3, <1>4
<1>6. /\ Len(taken) = start /\ r <= end
      /\ r = end => InPlace(taken, first)
  BY <1>1, <1>4 DEF PlacesKept
<1>7. /\ Padded(chunk) \in Seq(Byte) /\ Len(Padded(chunk)) = size
      /\ \A i \in 1..Len(chunk) : Padded(chunk)[i] = chunk[i]
      /\ \A i \in Len(chunk) + 1..size : Padded(chunk)[i] = PadByte
  BY <1>1, PaddedBlock DEF TypeOK, ControlTypes
<1>8. /\ blocks' = n + 1 /\ taken' = taken \o Padded(chunk) /\ pc' \in {"out", "conv"}
      /\ opt' = opt /\ input' = input
  BY <1>1 DEF Accept, StartOut, args
<1>9. taken \in Seq(Byte)
  BY DEF TypeOK, ByteTypes
<1>10. Len(taken') = start + size /\ rpos' <= end + size
  <2>1. Len(taken') = Len(taken) + Len(Padded(chunk))
    <3>1. \A s, u \in Seq(Byte) : Len(s \o u) = Len(s) + Len(u)
      OBVIOUS
    <3> QED BY <1>7, <1>8, <1>9, <3>1, Zenon
  <2> QED BY <1>1, <1>6, <1>7, <2>1
<1>11. ASSUME rpos' = end + size PROVE InPlace(taken', first)
  <2>1. r = end
    BY <1>1, <1>2, <1>6, <1>11
  <2>2. InPlace(Padded(chunk), r)
    <3> SUFFICES ASSUME NEW i \in 1..size
                 PROVE  \/ Padded(chunk)[i] = PadByte
                        \/ r + i \in DOMAIN input /\ Padded(chunk)[i] = input[r + i]
      BY <1>7, Zenon DEF InPlace
    <3>1. CASE i \in 1..Len(chunk)
      BY <1>1, <1>7, <3>1, Zenon
    <3>2. CASE i \notin 1..Len(chunk)
      <4>1. i \in Len(chunk) + 1..size
        BY <3>2
      <4> QED BY <1>7, <4>1, Zenon
    <3> QED BY <3>1, <3>2
  <2>3. InPlace(Padded(chunk), first + Len(taken))
    BY <1>5, <1>6, <2>1, <2>2
  <2>4. InPlace(taken, first)
    BY <1>6, <2>1
  <2> QED BY <1>7, <1>8, <1>9, <2>3, <2>4, PlacesJoin
<1>12. ASSUME rpos' = end + size PROVE InPlace(taken, first)'
  <2>1. PadByte' = PadByte
    BY <1>8 DEF PadByte, Records, Has
  <2> QED BY <1>8, <1>11, <1>12, <2>1 DEF InPlace
<1>13. first = opt'.skip * opt'.ibs /\ end + size = (opt'.skip + blocks') * opt'.ibs
       /\ start + size = blocks' * opt'.ibs
  BY <1>1, <1>4, <1>5, <1>8
<1> QED BY <1>8, <1>10, <1>12, <1>13 DEF PlacesKept

(* What a read transfers is what the input holds at the position.               *)
LEMMA ReadBytes ==
  ASSUME TypeOK, NEW k \in 1..Least(opt.ibs, Remaining)
  PROVE  \A j \in 1..k : /\ rpos + j \in DOMAIN input
                         /\ SubSeq(input, rpos + 1, rpos + k)[j] = input[rpos + j]
<1>1. PICK r \in Nat, s \in Seq(Byte), n \in Nat :
        r = rpos /\ s = input /\ n = Least(opt.ibs, Remaining)
  BY LeastRemaining DEF TypeOK, NumberTypes, ByteTypes
<1>2. k \in 1..n /\ (r + n <= Len(s) \/ n = 0)
  BY <1>1, LeastRemaining, Zenon
<1>3. \A j \in 1..k : r + j \in DOMAIN s /\ SubSeq(s, r + 1, r + k)[j] = s[r + j]
  BY <1>2
<1> QED BY <1>1, <1>3, Zenon

LEMMA PlacesNext ==
  ASSUME TypeOK, Room, PlacesKept, Next
  PROVE  PlacesKept'
<1>1. opt' = opt /\ input' = input /\ UNCHANGED args
  BY ArgsFixed DEF args
<1>2. SUFFICES ASSUME opt.status = "ok", Has("SYNC") PROVE PlacesKept'
  BY <1>1 DEF PlacesKept, Has
<1>3. PICK skip \in Nat, size \in Nat : skip = opt.skip /\ size = opt.ibs
  BY DEF TypeOK, ControlTypes, Options
<1>4. ASSUME UNCHANGED <<rpos, blocks, taken>>, pc' \in {"jcl", "setup"} => pc \in {"jcl", "setup"}
      PROVE  PlacesKept'
  <2>1. PadByte' = PadByte
    BY <1>1 DEF PadByte, Records, Has
  <2>2. InPlace(taken, opt.skip * opt.ibs)' <=> InPlace(taken, opt.skip * opt.ibs)
    BY <1>1, <1>4, <2>1 DEF InPlace
  <2> QED BY <1>1, <1>2, <1>4, <2>2 DEF PlacesKept
<1>5. CASE setup
  <2>1. /\ pc = "setup" /\ pc' = "read" /\ rpos' = skip * size
        /\ UNCHANGED <<blocks, taken>>
    BY <1>3, <1>5 DEF setup
  <2>2. blocks = 0 /\ Len(taken) = 0 * size
    BY <1>2, <1>3, <2>1 DEF PlacesKept
  <2>3. skip + 0 = skip /\ 0 * size = 0 /\ skip * size \in Nat
    OBVIOUS
  <2>4. (opt'.skip + blocks') * opt'.ibs = skip * size /\ blocks' * opt'.ibs = 0
    BY <1>1, <1>3, <2>1, <2>2, <2>3
  <2>5. InPlace(taken, opt.skip * opt.ibs)'
    <3>1. Len(taken') = 0
      BY <2>1, <2>2, <2>3
    <3> QED BY <3>1 DEF InPlace
  <2> QED BY <2>1, <2>2, <2>3, <2>4, <2>5 DEF PlacesKept
<1>6. CASE dd_in
  <2>1. ASSUME NEW k \in 1..Least(opt.ibs, Remaining), Read(k) PROVE PlacesKept'
    <3>1. /\ k \in Nat /\ SubSeq(input, rpos + 1, rpos + k) \in Seq(Byte)
          /\ Len(SubSeq(input, rpos + 1, rpos + k)) = k
          /\ k <= opt.ibs
      BY ReadChunk
    <3>2. pc = "read" /\ rpos' = rpos + k /\ Accept(Padded(SubSeq(input, rpos + 1, rpos + k)))
      BY <2>1 DEF Read
    <3>3. rpos \in Nat /\ opt.ibs \in Nat
      BY DEF TypeOK, ControlTypes, NumberTypes, Options
    <3>4. rpos' \in Nat /\ rpos' <= rpos + opt.ibs
      BY <3>1, <3>2, <3>3
    <3>5. \A j \in 1..k : /\ rpos + j \in DOMAIN input
                          /\ SubSeq(input, rpos + 1, rpos + k)[j] = input[rpos + j]
      BY ReadBytes
    <3> QED BY <1>1, <1>2, <3>1, <3>2, <3>4, <3>5, PlacesAccept
  <2>2. CASE ReadError
    <3>1. pc = "read" /\ rpos' = (IF pipe THEN rpos ELSE rpos + opt.ibs) /\ Accept(Padded(<<>>))
      BY <1>2, <2>2 DEF ReadError
    <3>2. rpos \in Nat /\ opt.ibs \in Nat
      BY DEF TypeOK, ControlTypes, NumberTypes, Options
    <3>3. <<>> \in Seq(Byte) /\ Len(<<>>) = 0 /\ 0 <= opt.ibs
      BY <3>2
    <3>4. rpos' \in Nat /\ rpos' <= rpos + opt.ibs
          /\ (rpos' = rpos + opt.ibs \/ rpos' = rpos + 0)
      BY <3>1, <3>2
    <3>5. \A j \in 1..0 : rpos + j \in DOMAIN input /\ <<>>[j] = input[rpos + j]
      OBVIOUS
    <3> QED BY <1>1, <1>2, <3>1, <3>3, <3>4, <3>5, PlacesAccept
  <2>3. CASE ReadEnds \/ ReadExits
    BY <1>4, <2>3 DEF ReadEnds, ReadExits, Exit, source
  <2> QED BY <1>6, <2>1, <2>2, <2>3 DEF dd_in
<1>7. CASE jclExits \/ jclReturns \/ setupExits \/ Exits
  BY <1>4, <1>7 DEF jclExits, jclReturns, setupExits, Exits, Exit, source
<1>8. CASE convert
  BY <1>4, <1>8 DEF convert, def, blockDrop, block, unblock, ConvReturns, RecordAdded, StartOut, source
<1>9. CASE dd_out
  <2>1. UNCHANGED <<rpos, blocks, taken>>
    BY <1>9 DEF dd_out, SkipSparse, Write, WriteInterrupted, WriteExits, Exit, source
  <2>2. pc' \in {"jcl", "setup"} => pc \in {"jcl", "setup"}
    BY <1>9 DEF dd_out, SkipSparse, Write, WriteInterrupted, WriteExits, Exit, EndBlock, TypeOK,
                ControlTypes
  <2> QED BY <1>4, <2>1, <2>2
<1>10. CASE dd_close
  BY <1>4, <1>10 DEF dd_close, StartOut
<1> QED BY <1>5, <1>6, <1>7, <1>8, <1>9, <1>10 DEF Next

(* With noerror and sync every byte is at its offset, whatever the sizes that   *)
(* Sized allows, the number of errors and the kind of input, until a read is    *)
(* short (dd.c:341-355).                                                        *)
THEOREM OffsetsKept == Spec => []ErrorsKeepOffsets
<1>1. Init => PlacesKept
  <2> SUFFICES ASSUME Init PROVE PlacesKept
    OBVIOUS
  <2>1. blocks = 0 /\ rpos = 0 /\ Len(taken) = 0 /\ opt \in Options
    BY TypeInit DEF Init, TypeOK, ControlTypes
  <2>2. PICK skip \in Nat, size \in Nat : skip = opt.skip /\ size = opt.ibs
    BY <2>1 DEF Options
  <2>3. 0 * size = 0 /\ (skip + 0) * size \in Nat
    OBVIOUS
  <2> QED BY <2>1, <2>2, <2>3 DEF PlacesKept, InPlace
<1>2. TypeOK /\ (Sized => Room) /\ (Sized => PlacesKept) /\ [Next]_vars
        => (Sized => PlacesKept)'
  <2> SUFFICES ASSUME TypeOK, Sized => Room, Sized => PlacesKept, [Next]_vars, Sized'
               PROVE  PlacesKept'
    OBVIOUS
  <2>1. CASE Next
    BY <2>1, ArgsFixed, SizedFixed, PlacesNext
  <2>2. CASE UNCHANGED vars
    <3>1. Sized
      BY <2>2, SizedFixed DEF vars
    <3> QED BY <2>2, <3>1 DEF vars, args, source, PlacesKept, InPlace, PadByte, Records, Has
  <2> QED BY <2>1, <2>2
<1>3. (Sized => PlacesKept) => ErrorsKeepOffsets
  BY DEF PlacesKept, InPlace, PadByte, ErrorsKeepOffsets
<1> QED BY <1>1, <1>2, <1>3, RoomHolds, PTL DEF Spec

-------------------------------------------------------------------------------
(* What the conversions of a whole stream do when the stream is continued       *)

(* A set that holds 0 and with each number the next holds them all.             *)
LEMMA NatSetInduction ==
  ASSUME NEW S, 0 \in S, \A n \in Nat : n \in S => n + 1 \in S
  PROVE  \A n \in Nat : n \in S
<1> DEFINE T == Nat \ S
<1>1. SUFFICES ASSUME T # {} PROVE FALSE
  OBVIOUS
<1>2. T \subseteq Nat
  OBVIOUS
<1>3. PICK m \in T : \A k \in T : m <= k
  <2> HIDE DEF T
  <2> QED BY <1>1, <1>2, LeastMember
<1>4. m \in Nat /\ m # 0 /\ m - 1 \in Nat /\ (m - 1) + 1 = m
  OBVIOUS
<1>5. m - 1 \in S
  BY <1>3, <1>4
<1> QED BY <1>4, <1>5

LEMMA Joined ==
  ASSUME NEW s \in Seq(Byte), NEW t \in Seq(Byte)
  PROVE  /\ s \o t \in Seq(Byte) /\ Len(s \o t) = Len(s) + Len(t)
         /\ \A i \in 1..Len(s) : (s \o t)[i] = s[i]
         /\ \A i \in 1..Len(t) : (s \o t)[Len(s) + i] = t[i]
OBVIOUS

LEMMA SameBytes ==
  ASSUME NEW s \in Seq(Byte), NEW t \in Seq(Byte), Len(s) = Len(t),
         \A i \in 1..Len(s) : s[i] = t[i]
  PROVE  s = t
<1>1. DOMAIN s = DOMAIN t /\ \A i \in DOMAIN s : s[i] = t[i]
  OBVIOUS
<1>2. s = [i \in DOMAIN s |-> s[i]] /\ t = [i \in DOMAIN t |-> t[i]]
  OBVIOUS
<1> QED BY <1>1, <1>2, Zenon

LEMMA PartOf ==
  ASSUME NEW s \in Seq(Byte), NEW x \in Nat, NEW y \in Nat, x <= y, y <= Len(s)
  PROVE  /\ SubSeq(s, x + 1, y) \in Seq(Byte) /\ Len(SubSeq(s, x + 1, y)) = y - x
         /\ \A j \in 1..y - x : SubSeq(s, x + 1, y)[j] = s[x + j]
OBVIOUS

LEMMA BlockRecordFacts ==
  ASSUME NEW t \in Seq(Byte), NEW size \in Nat
  PROVE  /\ Whole!BlockRecord(t, size) \in Seq(Byte)
         /\ Len(Whole!BlockRecord(t, size)) = size
         /\ \A i \in 1..size : Whole!BlockRecord(t, size)[i] = IF i <= Len(t) THEN t[i] ELSE Space
<1>1. \A i \in 1..size : (IF i <= Len(t) THEN t[i] ELSE Space) \in Byte
  BY BytesAssumption
<1> QED BY <1>1 DEF Whole!BlockRecord

(* Where the record that begins at i ends: at its newline, or behind the last   *)
(* byte.                                                                        *)
IsEnd(s, i, e) == /\ e \in i..Len(s) + 1 /\ (e = Len(s) + 1 \/ s[e] = NL)
                  /\ \A j \in i..e - 1 : s[j] # NL
EndOf(s, i) == CHOOSE e \in i..Len(s) + 1 : /\ e = Len(s) + 1 \/ s[e] = NL
                                            /\ \A j \in i..e - 1 : s[j] # NL

LEMMA EndExists ==
  ASSUME NEW s \in Seq(Byte), NEW i \in 1..Len(s) + 1
  PROVE  IsEnd(s, i, EndOf(s, i))
<1> DEFINE T == {e \in i..Len(s) + 1 : e = Len(s) + 1 \/ s[e] = NL}
<1>1. T \subseteq Nat /\ Len(s) + 1 \in T
  OBVIOUS
<1>2. PICK x \in T : \A y \in T : x <= y
  <2> HIDE DEF T
  <2> QED BY <1>1, LeastMember
<1>3. \A j \in i..x - 1 : s[j] # NL
  <2> SUFFICES ASSUME NEW j \in i..x - 1, s[j] = NL PROVE FALSE
    OBVIOUS
  <2>1. j \in T /\ j < x
    OBVIOUS
  <2>2. x <= j /\ x \in Nat /\ j \in Nat
    BY <1>2, <2>1
  <2> QED BY <2>1, <2>2
<1>4. \E e \in i..Len(s) + 1 : (e = Len(s) + 1 \/ s[e] = NL) /\ \A j \in i..e - 1 : s[j] # NL
  BY <1>3
<1> QED BY <1>4 DEF IsEnd, EndOf

LEMMA EndUnique ==
  ASSUME NEW s \in Seq(Byte), NEW i \in 1..Len(s) + 1, NEW d, NEW e,
         IsEnd(s, i, d), IsEnd(s, i, e)
  PROVE  d = e
BY DEF IsEnd

(* The function that Blocked defines by recursion, from the end.                *)
Step(s, size, f, i) ==
  IF i > Len(s) THEN <<>>
  ELSE Whole!BlockRecord(SubSeq(s, i, EndOf(s, i) - 1), size) \o f[EndOf(s, i) + 1]
BlockFrom(s, size, f) ==
  /\ f \in [1..Len(s) + 2 -> Seq(Byte)]
  /\ \A i \in 1..Len(s) + 2 : f[i] = Step(s, size, f, i)

LEMMA RecordType ==
  ASSUME NEW s \in Seq(Byte), NEW size \in Nat, NEW i \in 1..Len(s)
  PROVE  /\ EndOf(s, i) \in i..Len(s) + 1 /\ EndOf(s, i) + 1 \in i + 1..Len(s) + 2
         /\ SubSeq(s, i, EndOf(s, i) - 1) \in Seq(Byte)
         /\ Whole!BlockRecord(SubSeq(s, i, EndOf(s, i) - 1), size) \in Seq(Byte)
<1>1. IsEnd(s, i, EndOf(s, i))
  BY EndExists
<1>2. PICK e \in i..Len(s) + 1 : e = EndOf(s, i)
  BY <1>1 DEF IsEnd
<1>3. SubSeq(s, i, e - 1) \in Seq(Byte) /\ e + 1 \in i + 1..Len(s) + 2
  OBVIOUS
<1> QED BY <1>2, <1>3, BlockRecordFacts

LEMMA BlockFromExists ==
  ASSUME NEW s \in Seq(Byte), NEW size \in Nat
  PROVE  \E f : BlockFrom(s, size, f)
<1> DEFINE L == Len(s)
           Upto(n, f) == /\ f \in [1..L + 2 -> Seq(Byte)]
                         /\ \A i \in 1..L + 2 : i > L - n => f[i] = Step(s, size, f, i)
           S == {n \in Nat : n <= L => \E f : Upto(n, f)}
<1>1. 0 \in S
  <2>1. <<>> \in Seq(Byte)
    OBVIOUS
  <2>2. Upto(0, [i \in 1..L + 2 |-> <<>>])
    BY <2>1 DEF Step
  <2> QED BY <2>2
<1>2. ASSUME NEW n \in Nat, n \in S PROVE n + 1 \in S
  <2>1. SUFFICES ASSUME n + 1 <= L PROVE \E f : Upto(n + 1, f)
    OBVIOUS
  <2>2. PICK f : Upto(n, f)
    BY <1>2, <2>1
  <2>3. PICK i \in 1..L : i = L - n
    <3>1. L - n \in 1..L
      BY <2>1
    <3> QED BY <3>1, Zenon
  <2>4. Step(s, size, f, i) \in Seq(Byte)
    <3>1. f[EndOf(s, i) + 1] \in Seq(Byte)
      <4>1. EndOf(s, i) + 1 \in i + 1..L + 2
        BY RecordType
      <4>2. EndOf(s, i) + 1 \in 1..L + 2
        BY <4>1
      <4> QED BY <2>2, <4>2
    <3>2. \A a, b \in Seq(Byte) : a \o b \in Seq(Byte)
      OBVIOUS
    <3>3. ~(i > Len(s))
      OBVIOUS
    <3> QED BY <3>1, <3>2, <3>3, RecordType, Zenon DEF Step
  <2>5. PICK new \in Seq(Byte) : new = Step(s, size, f, i)
    BY <2>4
  <2> DEFINE g == [f EXCEPT ![i] = new]
  <2>6. g \in [1..L + 2 -> Seq(Byte)] /\ g[i] = new /\ \A j \in 1..L + 2 : j # i => g[j] = f[j]
    BY <2>2, <2>5
  <2> HIDE DEF g
  <2>7. ASSUME NEW j \in 1..L + 2, j > L - (n + 1) PROVE g[j] = Step(s, size, g, j)
    <3>1. CASE j > Len(s)
      <4>1. j # i /\ j > L - n
        BY <2>1, <2>3, <3>1
      <4>2. g[j] = f[j] /\ f[j] = Step(s, size, f, j)
        BY <2>2, <2>6, <4>1
      <4> QED BY <3>1, <4>2, Zenon DEF Step
    <3>2. CASE ~(j > Len(s))
      <4>1. j \in 1..Len(s) /\ j >= i
        BY <2>1, <2>3, <2>7, <3>2
      <4>2. EndOf(s, j) + 1 \in j + 1..L + 2
        BY <4>1, RecordType
      <4>3. EndOf(s, j) + 1 \in 1..L + 2 /\ EndOf(s, j) + 1 # i
        BY <4>1, <4>2
      <4>4. g[EndOf(s, j) + 1] = f[EndOf(s, j) + 1]
        BY <2>6, <4>3, Zenon
      <4>5. Step(s, size, g, j) = Step(s, size, f, j)
        BY <3>2, <4>4, Zenon DEF Step
      <4>6. CASE j = i
        BY <2>5, <2>6, <4>5, <4>6
      <4>7. CASE j # i
        <5>1. j > L - n
          BY <2>1, <2>3, <4>1, <4>7
        <5> QED BY <2>2, <2>6, <4>5, <4>7, <5>1
      <4> QED BY <4>6, <4>7
    <3> QED BY <3>1, <3>2
  <2>8. Upto(n + 1, g)
    BY <2>6, <2>7
  <2> QED BY <2>8
<1>3. PICK n \in Nat : n = L
  OBVIOUS
<1> HIDE DEF S
<1>4. n \in S
  BY <1>1, <1>2, NatSetInduction
<1>5. PICK f : Upto(n, f)
  BY <1>3, <1>4 DEF S
<1>6. \A i \in 1..L + 2 : i > L - n
  BY <1>3
<1> QED BY <1>5, <1>6 DEF BlockFrom

(* Whatever follows the recursion gives the conversion.                         *)
LEMMA BlockedIs ==
  ASSUME NEW s \in Seq(Byte), NEW size \in Nat, NEW h, BlockFrom(s, size, h)
  PROVE  Whole!Blocked(s, size) = h[1]
<1> DEFINE L == Len(s)
           Equation(g) == g = [i \in 1..L + 2 |-> Step(s, size, g, i)]
           whole == CHOOSE g : Equation(g)
<1>1. Whole!Blocked(s, size) = whole[1]
  BY DEF Whole!Blocked, Step, EndOf
<1>2. Equation(h)
  BY DEF BlockFrom
<1>3. Equation(whole)
  <2> HIDE DEF Equation
  <2> QED BY <1>2
<1> HIDE DEF whole
<1>4. \A i \in 1..L + 2 : whole[i] = Step(s, size, whole, i) /\ h[i] = Step(s, size, h, i)
  BY <1>3 DEF BlockFrom
<1> HIDE DEF Equation
<1> DEFINE S == {n \in Nat : n <= L => \A i \in 1..L + 2 : i > L - n => whole[i] = h[i]}
<1>5. 0 \in S
  <2> SUFFICES ASSUME NEW i \in 1..L + 2, i > L PROVE whole[i] = h[i]
    OBVIOUS
  <2> QED BY <1>4, Zenon DEF Step
<1>6. ASSUME NEW n \in Nat, n \in S PROVE n + 1 \in S
  <2>1. SUFFICES ASSUME n + 1 <= L, NEW i \in 1..L + 2, i > L - (n + 1) PROVE whole[i] = h[i]
    OBVIOUS
  <2>2. \A j \in 1..L + 2 : j > L - n => whole[j] = h[j]
    BY <1>6, <2>1
  <2>3. CASE i > L - n
    BY <2>2, <2>3
  <2>4. CASE ~(i > L - n)
    <3>1. i \in 1..Len(s) /\ i = L - n
      BY <2>1, <2>4
    <3>2. EndOf(s, i) + 1 \in i + 1..Len(s) + 2
      BY <3>1, RecordType
    <3>3. EndOf(s, i) + 1 \in 1..L + 2 /\ EndOf(s, i) + 1 > L - n
      BY <3>1, <3>2
    <3>4. whole[EndOf(s, i) + 1] = h[EndOf(s, i) + 1]
      BY <2>2, <3>3, Zenon
    <3> QED BY <1>4, <3>4, Zenon DEF Step
  <2> QED BY <2>3, <2>4
<1> HIDE DEF S
<1>7. PICK n \in Nat : n = L
  OBVIOUS
<1>8. n \in S
  BY <1>5, <1>6, NatSetInduction
<1>9. 1 > L - n /\ 1 \in 1..L + 2
  BY <1>7
<1> QED BY <1>1, <1>7, <1>8, <1>9 DEF S

LEMMA BlockedType ==
  ASSUME NEW s \in Seq(Byte), NEW size \in Nat
  PROVE  /\ Whole!Blocked(s, size) \in Seq(Byte)
         /\ s = <<>> => Whole!Blocked(s, size) = <<>>
<1>1. PICK f : BlockFrom(s, size, f)
  BY BlockFromExists
<1>2. Whole!Blocked(s, size) = f[1]
  BY <1>1, BlockedIs
<1>3. f[1] \in Seq(Byte)
  BY <1>1 DEF BlockFrom
<1>4. s = <<>> => f[1] = <<>>
  <2>1. s = <<>> => 1 > Len(s)
    OBVIOUS
  <2>2. f[1] = Step(s, size, f, 1)
    BY <1>1 DEF BlockFrom
  <2> QED BY <2>1, <2>2, Zenon DEF Step
<1> QED BY <1>2, <1>3, <1>4

(* All the records before are complete.                                         *)
Starts(p) == p = <<>> \/ p[Len(p)] = NL

(* A stream of complete records continued with one more, with its newline or at *)
(* the end of the stream without.                                               *)
LEMMA BlockedJoin ==
  ASSUME NEW p \in Seq(Byte), Starts(p), NEW t \in Seq(Byte), ~HasNL(t), NEW size \in Nat,
         NEW u \in Seq(Byte), u = t \o <<NL>> \/ (u = t /\ t # <<>>)
  PROVE  Whole!Blocked(p \o u, size) = Whole!Blocked(p, size) \o Whole!BlockRecord(t, size)
<1>1. NL \in Byte /\ <<NL>> \in Seq(Byte) /\ Len(<<NL>>) = 1 /\ <<NL>>[1] = NL
  BY BytesAssumption
<1>2. PICK a \in Nat, b \in Nat : a = Len(p) /\ b = Len(t)
  OBVIOUS
<1>3. /\ Len(u) \in b..b + 1 /\ Len(u) > 0
      /\ \A i \in 1..b : u[i] = t[i]
      /\ b < Len(u) => u[b + 1] = NL
  <2>1. CASE u = t \o <<NL>>
    BY <1>1, <1>2, <2>1, Joined
  <2>2. CASE u = t /\ t # <<>>
    BY <1>2, <2>2
  <2> QED BY <2>1, <2>2
<1>4. PICK s \in Seq(Byte) : s = p \o u
  BY Joined
<1>5. /\ Len(s) = a + Len(u)
      /\ \A i \in 1..a : s[i] = p[i]
      /\ \A i \in 1..Len(u) : s[a + i] = u[i]
  BY <1>2, <1>4, Joined
<1>6. PICK l \in Nat : l = Len(s) /\ l \in a + b..a + b + 1 /\ l > a /\ Len(u) = l - a
  <2>1. /\ Len(s) \in Nat /\ Len(s) \in a + b..a + b + 1 /\ Len(s) > a
        /\ Len(u) = Len(s) - a
    BY <1>2, <1>3, <1>5
  <2> QED BY <2>1, Zenon
<1>7. /\ \A i \in 1..b : s[a + i] = t[i]
      /\ a + b < l => s[a + b + 1] = NL
  <2>1. \A i \in 1..b : i \in 1..Len(u)
    BY <1>3
  <2>2. b < Len(u) => b + 1 \in 1..Len(u)
    BY <1>3
  <2>3. a + b < l => b < Len(u)
    BY <1>6
  <2>4. a + (b + 1) = a + b + 1
    OBVIOUS
  <2> QED BY <1>3, <1>5, <2>1, <2>2, <2>3, <2>4, Zenon
<1>8. \A i \in 1..b : t[i] # NL
  BY <1>2 DEF HasNL
<1>9. PICK f : BlockFrom(p, size, f)
  BY BlockFromExists
<1>10. PICK h : BlockFrom(s, size, h)
  BY BlockFromExists
<1>11. PICK rec \in Seq(Byte) : rec = Whole!BlockRecord(t, size)
  BY BlockRecordFacts
(* The last record is the one that was added.                                   *)
<1>12. f[a + 1] = <<>> /\ h[a + 1] = rec
  <2>1. f[a + 1] = <<>>
    <3>1. a + 1 \in 1..Len(p) + 2 /\ a + 1 > Len(p)
      BY <1>2
    <3>2. f[a + 1] = Step(p, size, f, a + 1)
      BY <1>9, <3>1 DEF BlockFrom
    <3> QED BY <3>1, <3>2, Zenon DEF Step
  <2>2. IsEnd(s, a + 1, a + b + 1)
    <3>1. a + b + 1 \in a + 1..l + 1 /\ (a + b + 1 = l + 1 \/ s[a + b + 1] = NL)
      <4>1. a + b + 1 \in a + 1..l + 1 /\ (a + b + 1 = l + 1 \/ a + b < l)
        BY <1>6
      <4> QED BY <1>7, <4>1, Zenon
    <3>2. ASSUME NEW j \in a + 1..(a + b + 1) - 1 PROVE s[j] # NL
      <4>1. j - a \in 1..b /\ a + (j - a) = j
        OBVIOUS
      <4>2. s[a + (j - a)] = t[j - a] /\ t[j - a] # NL
        BY <1>7, <1>8, <4>1, Zenon
      <4> QED BY <4>1, <4>2
    <3> QED BY <1>6, <3>1, <3>2 DEF IsEnd
  <2>3. a + 1 \in 1..Len(s) /\ a + 1 \in 1..Len(s) + 1
    BY <1>6
  <2>4. EndOf(s, a + 1) = a + b + 1
    BY <2>2, <2>3, EndExists, EndUnique
  <2>5. SubSeq(s, a + 1, (a + b + 1) - 1) = t
    <3>1. SubSeq(s, a + 1, a + b) \in Seq(Byte) /\ Len(SubSeq(s, a + 1, a + b)) = b
          /\ \A i \in 1..b : SubSeq(s, a + 1, a + b)[i] = s[a + i]
      BY <1>6
    <3>2. PICK v \in Seq(Byte) : v = SubSeq(s, a + 1, a + b)
      BY <3>1
    <3>3. Len(v) = Len(t) /\ \A i \in 1..Len(t) : v[i] = t[i]
      BY <1>2, <1>7, <3>1, <3>2
    <3>4. v = t
      BY <3>3, SameBytes, Zenon
    <3>5. (a + b + 1) - 1 = a + b
      OBVIOUS
    <3> QED BY <3>2, <3>4, <3>5, Zenon
  <2>6. h[a + b + 2] = <<>>
    <3>1. a + b + 2 \in 1..Len(s) + 2 /\ a + b + 2 > Len(s)
      BY <1>6
    <3>2. h[a + b + 2] = Step(s, size, h, a + b + 2)
      BY <1>10, <3>1 DEF BlockFrom
    <3> QED BY <3>1, <3>2, Zenon DEF Step
  <2>7. h[a + 1] = rec \o h[(a + b + 1) + 1]
    <3>1. a + 1 \in 1..Len(s) + 2 /\ ~(a + 1 > Len(s))
      BY <2>3
    <3>2. h[a + 1] = Step(s, size, h, a + 1)
      BY <1>10, <3>1 DEF BlockFrom
    <3> QED BY <1>11, <2>4, <2>5, <3>1, <3>2, Zenon DEF Step
  <2>8. (a + b + 1) + 1 = a + b + 2
    OBVIOUS
  <2>9. rec \o <<>> = rec
    OBVIOUS
  <2> QED BY <2>1, <2>6, <2>7, <2>8, <2>9, Zenon
(* The others end where they ended.                                             *)
<1>13. ASSUME NEW i \in 1..a
       PROVE  /\ EndOf(s, i) = EndOf(p, i) /\ EndOf(p, i) \in i..a
              /\ SubSeq(s, i, EndOf(s, i) - 1) = SubSeq(p, i, EndOf(p, i) - 1)
  <2>1. i \in 1..Len(p) + 1 /\ i \in 1..Len(s) + 1
    BY <1>2, <1>6
  <2>2. PICK e : e = EndOf(p, i) /\ IsEnd(p, i, e)
    BY <2>1, EndExists
  <2>3. p[a] = NL
    <3>1. p # <<>>
      BY <1>2
    <3> QED BY <1>2, <3>1 DEF Starts
  <2>4. e \in i..a
    <3>1. e \in i..a + 1 /\ \A j \in i..e - 1 : p[j] # NL
      BY <1>2, <2>2 DEF IsEnd
    <3>2. e # a + 1
      <4> SUFFICES ASSUME e = a + 1 PROVE FALSE
        OBVIOUS
      <4>1. a \in i..e - 1
        OBVIOUS
      <4> QED BY <2>3, <3>1, <4>1
    <3> QED BY <3>1, <3>2
  <2>5. IsEnd(s, i, e)
    <3>1. /\ e \in i..Len(s) + 1 /\ e # a + 1 /\ e \in 1..a
          /\ \A j \in i..e - 1 : j \in 1..a
      BY <1>6, <2>4
    <3>2. p[e] = NL /\ \A j \in i..e - 1 : p[j] # NL
      BY <1>2, <2>2, <3>1 DEF IsEnd
    <3> QED BY <1>5, <3>1, <3>2 DEF IsEnd
  <2>6. EndOf(s, i) = e
    BY <2>1, <2>5, EndExists, EndUnique
  <2>7. SubSeq(s, i, e - 1) = SubSeq(p, i, e - 1)
    <3>1. \A j \in 1..a : s[j] = p[j]
      BY <1>5
    <3>2. a <= Len(s) /\ a = Len(p)
      BY <1>2, <1>6
    <3>3. PICK v \in Seq(Byte) : /\ v = SubSeq(s, i, e - 1) /\ Len(v) = e - i
                                /\ \A j \in 1..e - i : v[j] = s[i + j - 1]
      <4>1. /\ SubSeq(s, i, e - 1) \in Seq(Byte) /\ Len(SubSeq(s, i, e - 1)) = e - i
            /\ \A j \in 1..e - i : SubSeq(s, i, e - 1)[j] = s[i + j - 1]
        BY <2>4, <3>2
      <4> QED BY <4>1, Zenon
    <3>4. PICK w \in Seq(Byte) : /\ w = SubSeq(p, i, e - 1) /\ Len(w) = e - i
                                /\ \A j \in 1..e - i : w[j] = p[i + j - 1]
      <4>1. /\ SubSeq(p, i, e - 1) \in Seq(Byte) /\ Len(SubSeq(p, i, e - 1)) = e - i
            /\ \A j \in 1..e - i : SubSeq(p, i, e - 1)[j] = p[i + j - 1]
        BY <2>4, <3>2
      <4> QED BY <4>1, Zenon
    <3>5. \A j \in 1..e - i : i + j - 1 \in 1..a
      BY <2>4
    <3>6. \A j \in 1..e - i : v[j] = w[j]
      BY <3>1, <3>3, <3>4, <3>5, Zenon
    <3>7. v = w
      BY <3>3, <3>4, <3>6, SameBytes, Zenon
    <3> QED BY <3>3, <3>4, <3>7, Zenon
  <2> QED BY <2>2, <2>4, <2>6, <2>7, Zenon
<1> DEFINE S == {n \in Nat : n <= a => \A i \in 1..a + 1 : i > a - n => h[i] = f[i] \o rec}
<1>14. 0 \in S
  <2> SUFFICES ASSUME NEW i \in 1..a + 1, i > a - 0 PROVE h[i] = f[i] \o rec
    OBVIOUS
  <2>1. i = a + 1
    OBVIOUS
  <2>2. <<>> \o rec = rec
    OBVIOUS
  <2> QED BY <1>12, <2>1, <2>2, Zenon
<1>15. ASSUME NEW n \in Nat, n \in S PROVE n + 1 \in S
  <2>1. SUFFICES ASSUME n + 1 <= a, NEW i \in 1..a + 1, i > a - (n + 1) PROVE h[i] = f[i] \o rec
    OBVIOUS
  <2>2. \A j \in 1..a + 1 : j > a - n => h[j] = f[j] \o rec
    BY <1>15, <2>1
  <2>3. CASE i > a - n
    BY <2>2, <2>3
  <2>4. CASE ~(i > a - n)
    <3>1. i \in 1..a /\ i = a - n /\ i \in 1..Len(p) /\ ~(i > Len(p)) /\ ~(i > Len(s))
          /\ i \in 1..Len(p) + 2 /\ i \in 1..Len(s) + 2
      BY <1>2, <1>6, <2>1, <2>4
    <3>2. PICK e \in i..a : e = EndOf(p, i) /\ EndOf(s, i) = e
      BY <1>13, <3>1
    <3>3. h[e + 1] = f[e + 1] \o rec
      <4>1. e + 1 \in 1..a + 1 /\ e + 1 > a - n
        BY <3>1, <3>2
      <4> QED BY <2>2, <4>1, Zenon
    <3>4. PICK r1 \in Seq(Byte) : r1 = Whole!BlockRecord(SubSeq(p, i, EndOf(p, i) - 1), size)
      BY <3>1, RecordType
    <3>5. f[i] = r1 \o f[e + 1]
      <4>1. f[i] = Step(p, size, f, i)
        BY <1>9, <3>1 DEF BlockFrom
      <4> QED BY <3>1, <3>2, <3>4, <4>1, Zenon DEF Step
    <3>6. h[i] = r1 \o h[e + 1]
      <4>1. h[i] = Step(s, size, h, i)
        BY <1>10, <3>1 DEF BlockFrom
      <4>2. SubSeq(s, i, EndOf(s, i) - 1) = SubSeq(p, i, EndOf(p, i) - 1)
        BY <1>13, <3>1
      <4> QED BY <3>1, <3>2, <3>4, <4>1, <4>2, Zenon DEF Step
    <3>7. f[e + 1] \in Seq(Byte)
      <4>1. e + 1 \in 1..Len(p) + 2
        BY <1>2, <3>2
      <4> QED BY <1>9, <4>1 DEF BlockFrom
    <3>8. h[i] = r1 \o (f[e + 1] \o rec)
      BY <3>3, <3>6, Zenon
    <3>9. @ = (r1 \o f[e + 1]) \o rec
      <4>1. Grouped(r1, f[e + 1], rec)
        BY <3>7, Group
      <4> QED BY <4>1, Zenon DEF Grouped
    <3>10. @ = f[i] \o rec
      BY <3>5, Zenon
    <3> QED BY <3>8, <3>9, <3>10, Zenon
  <2> QED BY <2>3, <2>4
<1> HIDE DEF S
<1>16. a \in S
  BY <1>14, <1>15, NatSetInduction
<1>17. h[1] = f[1] \o rec
  <2>1. 1 \in 1..a + 1 /\ 1 > a - a /\ a <= a
    OBVIOUS
  <2> QED BY <1>16, <2>1 DEF S
<1> QED BY <1>4, <1>9, <1>10, <1>11, <1>17, BlockedIs, Zenon

RecordJoins(p, t, u, size) ==
  Whole!Blocked(p \o u, size) = Whole!Blocked(p, size) \o Whole!BlockRecord(t, size)

LEMMA RecordsJoin ==
  ASSUME NEW p \in Seq(Byte), Starts(p), NEW t \in Seq(Byte), ~HasNL(t), NEW size \in Nat,
         NEW u \in Seq(Byte), u = t \o <<NL>> \/ (u = t /\ t # <<>>)
  PROVE  RecordJoins(p, t, u, size)
BY BlockedJoin, Zenon DEF RecordJoins

(* A record of block.                                                           *)
LEMMA FillRecord ==
  ASSUME NEW t \in Seq(Byte), NEW size \in Nat, Len(t) <= size
  PROVE  /\ Fill(Space, size - Len(t)) \in Seq(Byte)
         /\ t \o Fill(Space, size - Len(t)) = Whole!BlockRecord(t, size)
<1>1. PICK m \in Nat, b \in Byte : m = size - Len(t) /\ b = Space
  BY BytesAssumption
<1>2. Fill(b, m) \in Seq(Byte) /\ Len(Fill(b, m)) = m /\ \A i \in 1..m : Fill(b, m)[i] = b
  BY DEF Fill
<1>3. PICK s \in Seq(Byte), r \in Seq(Byte) : s = t \o Fill(b, m) /\ r = Whole!BlockRecord(t, size)
  BY <1>2, Joined, BlockRecordFacts
<1>4. Len(s) = size /\ \A i \in 1..size : s[i] = IF i <= Len(t) THEN t[i] ELSE Space
  BY <1>1, <1>2, <1>3
<1>5. Len(r) = size /\ \A i \in 1..size : r[i] = IF i <= Len(t) THEN t[i] ELSE Space
  BY <1>3, BlockRecordFacts, Zenon
<1>6. s = r
  BY <1>4, <1>5, SameBytes
<1> QED BY <1>1, <1>2, <1>3, <1>6

(* What a record has behind its size is cut off.                                *)
LEMMA RecordCut ==
  ASSUME NEW t \in Seq(Byte), NEW u \in Seq(Byte), NEW size \in Nat, size <= Len(t)
  PROVE  Whole!BlockRecord(t \o u, size) = Whole!BlockRecord(t, size)
<1>1. PICK s \in Seq(Byte) : s = t \o u
  BY Joined
<1>2. Len(s) = Len(t) + Len(u) /\ \A i \in 1..Len(t) : s[i] = t[i]
  BY <1>1, Joined
<1>3. \A i \in 1..size : (IF i <= Len(s) THEN s[i] ELSE Space)
                          = (IF i <= Len(t) THEN t[i] ELSE Space)
  BY <1>2
<1>4. Whole!BlockRecord(s, size) = Whole!BlockRecord(t, size)
  BY <1>3, Zenon DEF Whole!BlockRecord
<1> QED BY <1>1, <1>4

(* A buffer up to its first newline, and the rest.                              *)
LEMMA UpToNL ==
  ASSUME NEW s \in Seq(Byte), HasNL(s)
  PROVE  /\ AfterNL(s) \in Seq(Byte)
         /\ \E u \in Seq(Byte) : ~HasNL(u) /\ s = (u \o <<NL>>) \o AfterNL(s)
<1>1. PICK f \in 1..Len(s) : f = FirstNL(s) /\ s[f] = NL /\ \A j \in 1..f - 1 : s[j] # NL
  BY FirstNLIsFirst
<1>2. f - 1 \in Nat /\ f \in Nat /\ f <= Len(s)
  OBVIOUS
<1>3. AfterNL(s) = From(s, f + 1)
  BY <1>1 DEF AfterNL
<1>4. /\ SubSeq(s, 1, f) \in Seq(Byte) /\ From(s, f + 1) \in Seq(Byte)
      /\ SubSeq(s, 1, f) \o From(s, f + 1) = s
  BY <1>2, Split
<1>5. PICK u \in Seq(Byte) : u = SubSeq(s, 1, f - 1) /\ Len(u) = f - 1
                             /\ \A j \in 1..f - 1 : u[j] = s[j]
  <2>1. SubSeq(s, 1, f - 1) \in Seq(Byte) /\ Len(SubSeq(s, 1, f - 1)) = f - 1
        /\ \A j \in 1..f - 1 : SubSeq(s, 1, f - 1)[j] = s[j]
    BY <1>2
  <2> QED BY <2>1, Zenon
<1>6. ~HasNL(u)
  BY <1>1, <1>5 DEF HasNL
<1>7. u \o <<NL>> = SubSeq(s, 1, f)
  <2>1. <<NL>> \in Seq(Byte) /\ Len(<<NL>>) = 1 /\ <<NL>>[1] = NL
    BY BytesAssumption
  <2>2. PICK v \in Seq(Byte) : v = u \o <<NL>>
    BY <2>1, Joined
  <2>3. Len(v) = f /\ (\A j \in 1..f - 1 : v[j] = s[j]) /\ v[f] = NL
    <3>1. Len(v) = Len(u) + 1 /\ (\A j \in 1..Len(u) : v[j] = u[j]) /\ v[Len(u) + 1] = NL
      BY <2>1, <2>2, Joined
    <3> QED BY <1>2, <1>5, <3>1
  <2>4. PICK w \in Seq(Byte) : w = SubSeq(s, 1, f) /\ Len(w) = f /\ \A j \in 1..f : w[j] = s[j]
    <3>1. SubSeq(s, 1, f) \in Seq(Byte) /\ Len(SubSeq(s, 1, f)) = f
          /\ \A j \in 1..f : SubSeq(s, 1, f)[j] = s[j]
      BY <1>2
    <3> QED BY <3>1, Zenon
  <2>5. \A j \in 1..f : v[j] = w[j]
    <3> SUFFICES ASSUME NEW j \in 1..f PROVE v[j] = w[j]
      OBVIOUS
    <3>1. j = f \/ j \in 1..f - 1
      BY <1>2
    <3> QED BY <1>1, <2>3, <2>4, <3>1
  <2>6. v = w
    BY <2>3, <2>4, <2>5, SameBytes
  <2> QED BY <2>2, <2>4, <2>6
<1> QED BY <1>3, <1>4, <1>5, <1>6, <1>7

LEMMA NoNLJoined ==
  ASSUME NEW t \in Seq(Byte), NEW u \in Seq(Byte), ~HasNL(t), ~HasNL(u)
  PROVE  ~HasNL(t \o u)
<1>1. PICK s \in Seq(Byte) : s = t \o u
  BY Joined
<1>2. /\ Len(s) = Len(t) + Len(u) /\ \A i \in 1..Len(t) : s[i] = t[i]
      /\ \A i \in 1..Len(u) : s[Len(t) + i] = u[i]
  BY <1>1, Joined
<1>3. ASSUME NEW i \in 1..Len(s) PROVE s[i] # NL
  <2>1. CASE i <= Len(t)
    BY <1>2, <2>1 DEF HasNL
  <2>2. CASE i > Len(t)
    <3>1. i - Len(t) \in 1..Len(u) /\ Len(t) + (i - Len(t)) = i
      BY <1>2, <2>2
    <3>2. s[Len(t) + (i - Len(t))] = u[i - Len(t)]
      BY <1>2, <3>1, Zenon
    <3> QED BY <3>1, <3>2 DEF HasNL
  <2> QED BY <2>1, <2>2
<1> QED BY <1>1, <1>3 DEF HasNL

LEMMA NLStarts ==
  ASSUME NEW p \in Seq(Byte), NEW t \in Seq(Byte)
  PROVE  t \o <<NL>> \in Seq(Byte) /\ Starts(p \o (t \o <<NL>>))
<1>1. <<NL>> \in Seq(Byte) /\ Len(<<NL>>) = 1 /\ <<NL>>[1] = NL
  BY BytesAssumption
<1>2. PICK u \in Seq(Byte) : u = t \o <<NL>>
  BY <1>1, Joined
<1>3. Len(u) = Len(t) + 1 /\ u[Len(t) + 1] = NL
  BY <1>1, <1>2, Joined
<1>4. (p \o u)[Len(p) + Len(u)] = u[Len(u)] /\ Len(p \o u) = Len(p) + Len(u)
  <2>1. Len(u) \in 1..Len(u)
    BY <1>3
  <2> QED BY <2>1, Joined
<1> QED BY <1>2, <1>3, <1>4 DEF Starts

(* What block has put out of a stream: the conversion of the complete records   *)
(* before what it still holds.  While it drops the rest of a record that was    *)
(* too long, at least size bytes of that record are known.                      *)
BlockStream(dropping, all, rest, size, sent) ==
  IF dropping
  THEN \E p, t \in Seq(Byte) :
         /\ all = (p \o t) \o rest /\ Starts(p) /\ ~HasNL(t) /\ size <= Len(t)
         /\ sent = Whole!Blocked(p, size) \o Whole!BlockRecord(t, size)
  ELSE \E p \in Seq(Byte) :
         all = p \o rest /\ Starts(p) /\ sent = Whole!Blocked(p, size)

(* One more record with its newline, and the last without.                      *)
LEMMA BlockedLine ==
  ASSUME NEW p \in Seq(Byte), Starts(p), NEW t \in Seq(Byte), ~HasNL(t), NEW size \in Nat
  PROVE  /\ <<NL>> \in Seq(Byte) /\ t \o <<NL>> \in Seq(Byte) /\ p \o (t \o <<NL>>) \in Seq(Byte)
         /\ Starts(p \o (t \o <<NL>>))
         /\ Whole!Blocked(p \o (t \o <<NL>>), size)
              = Whole!Blocked(p, size) \o Whole!BlockRecord(t, size)
<1>0. <<NL>> \in Seq(Byte)
  BY BytesAssumption
<1>1. PICK u \in Seq(Byte) : u = t \o <<NL>> /\ Starts(p \o (t \o <<NL>>))
  BY NLStarts
<1>2. Whole!Blocked(p \o u, size) = Whole!Blocked(p, size) \o Whole!BlockRecord(t, size)
  <2>1. RecordJoins(p, t, u, size)
    BY <1>1, RecordsJoin
  <2> QED BY <2>1, Zenon DEF RecordJoins
<1>3. p \o u \in Seq(Byte)
  BY Joined
<1>4. p \o (t \o <<NL>>) = p \o u
  BY <1>1, Zenon
<1>5. /\ Whole!Blocked(p \o (t \o <<NL>>), size) = Whole!Blocked(p \o u, size)
      /\ p \o (t \o <<NL>>) \in Seq(Byte) /\ t \o <<NL>> \in Seq(Byte)
  BY <1>1, <1>3, <1>4, Zenon
<1> QED BY <1>0, <1>1, <1>2, <1>5, Zenon

LineJoins(p, t, size) ==
  /\ <<NL>> \in Seq(Byte) /\ t \o <<NL>> \in Seq(Byte) /\ p \o (t \o <<NL>>) \in Seq(Byte)
  /\ Starts(p \o (t \o <<NL>>))
  /\ Whole!Blocked(p \o (t \o <<NL>>), size)
       = Whole!Blocked(p, size) \o Whole!BlockRecord(t, size)

LEMMA LinesJoin ==
  ASSUME NEW p \in Seq(Byte), Starts(p), NEW t \in Seq(Byte), ~HasNL(t), NEW size \in Nat
  PROVE  LineJoins(p, t, size)
BY BlockedLine, Zenon DEF LineJoins

LEMMA BlockedLast ==
  ASSUME NEW p \in Seq(Byte), Starts(p), NEW t \in Seq(Byte), ~HasNL(t), t # <<>>,
         NEW size \in Nat
  PROVE  Whole!Blocked(p \o t, size) = Whole!Blocked(p, size) \o Whole!BlockRecord(t, size)
BY BlockedJoin

(* What is dropped of a record changes nothing of its conversion.               *)
LEMMA BlockDrops ==
  ASSUME NEW all \in Seq(Byte), NEW rest \in Seq(Byte), NEW size \in Nat, NEW sent \in Seq(Byte),
         BlockStream(TRUE, all, rest, size, sent)
  PROVE  BlockStream(~HasNL(rest), all, AfterNL(rest), size, sent)
<1>1. PICK p \in Seq(Byte), t \in Seq(Byte) :
         /\ all = (p \o t) \o rest /\ Starts(p) /\ ~HasNL(t) /\ size <= Len(t)
         /\ sent = Whole!Blocked(p, size) \o Whole!BlockRecord(t, size)
  BY Zenon DEF BlockStream
<1>2. CASE HasNL(rest)
  <2>1. PICK u \in Seq(Byte), v \in Seq(Byte) :
          ~HasNL(u) /\ v = AfterNL(rest) /\ rest = (u \o <<NL>>) \o v
    BY <1>2, UpToNL, Zenon
  <2>2. PICK r \in Seq(Byte) : r = t \o u
    <3>1. t \o u \in Seq(Byte)
      OBVIOUS
    <3> QED BY <3>1
  <2>3. ~HasNL(r)
    BY <1>1, <2>1, <2>2, NoNLJoined
  <2> DEFINE q == p \o (r \o <<NL>>)
  <2>4. /\ <<NL>> \in Seq(Byte) /\ q \in Seq(Byte) /\ Starts(q)
        /\ Whole!Blocked(q, size) = Whole!Blocked(p, size) \o Whole!BlockRecord(r, size)
    <3>1. Starts(p)
      BY <1>1
    <3>2. LineJoins(p, r, size)
      BY <2>3, <3>1, LinesJoin
    <3> QED BY <3>2, Zenon DEF LineJoins
  <2>5. Whole!BlockRecord(r, size) = Whole!BlockRecord(t, size)
    BY <1>1, <2>2, RecordCut
  <2>6. all = q \o v
    <3>1. PICK w \in Seq(Byte) : w = u \o <<NL>>
      BY <2>4, Joined
    <3>2. t \o w = r \o <<NL>>
      <4>1. \A n \in Seq(Byte) : (t \o u) \o n = t \o (u \o n)
        BY Reassociate, Zenon
      <4> QED BY <2>2, <2>4, <3>1, <4>1, Zenon
    <3>3. all = (p \o t) \o rest
      BY <1>1
    <3>4. @ = (p \o t) \o (w \o v)
      BY <2>1, <3>1, Zenon
    <3>5. @ = (p \o (t \o w)) \o v
      <4>1. Regrouped(p, t, w, v)
        BY Regroup
      <4> QED BY <4>1, Zenon DEF Regrouped
    <3>6. @ = q \o v
      BY <3>2, Zenon
    <3> QED BY <3>3, <3>4, <3>5, <3>6, Zenon
  <2> HIDE DEF q
  <2>7. sent = Whole!Blocked(q, size)
    BY <1>1, <2>4, <2>5, Zenon
  <2> QED BY <1>2, <2>1, <2>4, <2>6, <2>7, Zenon DEF BlockStream
<1>3. CASE ~HasNL(rest)
  <2>1. AfterNL(rest) = <<>> /\ <<>> \in Seq(Byte)
    BY <1>3 DEF AfterNL
  <2>2. PICK r \in Seq(Byte) : r = t \o rest
    BY Joined, Zenon
  <2>3. ~HasNL(r) /\ size <= Len(r)
    <3>1. Len(r) = Len(t) + Len(rest)
      BY <2>2
    <3>2. size <= Len(r)
      BY <1>1, <3>1
    <3> QED BY <1>1, <1>3, <2>2, <3>2, NoNLJoined
  <2>4. all = (p \o r) \o <<>>
    <3>1. (p \o t) \o rest = p \o (t \o rest)
      <4>1. Grouped(p, t, rest)
        BY <1>1, <2>2, Group
      <4> QED BY <4>1, Zenon DEF Grouped
    <3>2. p \o r \in Seq(Byte)
      BY Joined, Zenon
    <3>3. \A s \in Seq(Byte) : s \o <<>> = s
      OBVIOUS
    <3> QED BY <1>1, <2>2, <3>1, <3>2, <3>3, Zenon
  <2>5. sent = Whole!Blocked(p, size) \o Whole!BlockRecord(r, size)
    BY <1>1, <2>2, RecordCut, Zenon
  <2> QED BY <1>1, <1>3, <2>1, <2>3, <2>4, <2>5, Zenon DEF BlockStream
<1> QED BY <1>2, <1>3

(* A record converted, as block does it.                                        *)
LEMMA BlockConverts ==
  ASSUME opt \in Options, NEW all \in Seq(Byte), NEW s \in Seq(Byte), NEW sent \in Seq(Byte),
         BlockStream(FALSE, all, s, opt.cbs, sent),
         HasNL(s) \/ Len(s) >= opt.cbs,
         NEW n, n = RecordLen(s), NEW rest, rest = From(s, n + 1)
  PROVE  BlockStream(n = opt.cbs /\ ~HasNL(rest), all,
                     IF n < opt.cbs THEN Tail(rest) ELSE AfterNL(rest), opt.cbs,
                     sent \o (SubSeq(s, 1, n) \o Fill(Space, opt.cbs - n)))
<1>1. PICK c \in Nat : c = opt.cbs
  BY DEF Options
<1>2. /\ n \in Nat /\ n <= c /\ n <= Len(s)
      /\ n < c => n < Len(s)
  BY <1>1, RecordLenType
<1>3. PICK t \in Seq(Byte) : t = SubSeq(s, 1, n) /\ Len(t) = n /\ rest \in Seq(Byte)
                             /\ s = t \o rest
  BY <1>2, Split
<1>4. PICK m \in Nat : m = Least(c, Len(s)) /\ m <= c /\ m <= Len(s) /\ (m = c \/ m = Len(s))
  BY DEF Least
<1>5. n = IF HasNL(SubSeq(s, 1, m)) THEN FirstNL(s) - 1 ELSE m
  BY <1>1, <1>4 DEF RecordLen
<1>6. \A i \in 1..m : SubSeq(s, 1, m)[i] = s[i] /\ Len(SubSeq(s, 1, m)) = m
  BY <1>4
<1>7. HasNL(SubSeq(s, 1, m)) => HasNL(s)
  BY <1>4 DEF HasNL
<1>8. HasNL(SubSeq(s, 1, m)) => /\ FirstNL(s) \in 1..Len(s) /\ s[FirstNL(s)] = NL
                                /\ \A j \in 1..FirstNL(s) - 1 : s[j] # NL
  BY <1>7, FirstNLIsFirst
<1>9. ~HasNL(t)
  <2>1. \A i \in 1..n : t[i] = s[i]
    <3>1. t = SubSeq(s, 1, n) /\ n <= Len(s)
      BY <1>2, <1>3, Zenon
    <3> QED BY <1>2, <3>1
  <2>2. \A i \in 1..n : s[i] # NL
    <3>1. CASE HasNL(SubSeq(s, 1, m))
      <4>1. n = FirstNL(s) - 1
        BY <1>5, <3>1, Zenon
      <4> QED BY <1>8, <3>1, <4>1, Zenon
    <3>2. CASE ~HasNL(SubSeq(s, 1, m))
      <4>1. n = m /\ Len(SubSeq(s, 1, m)) = m
        BY <1>4, <1>5, <3>2
      <4> QED BY <1>6, <3>2, <4>1 DEF HasNL
    <3> QED BY <3>1, <3>2
  <2> QED BY <1>3, <2>1, <2>2 DEF HasNL
<1>10. PICK p \in Seq(Byte) : all = p \o s /\ Starts(p) /\ sent = Whole!Blocked(p, c)
  BY <1>1, Zenon DEF BlockStream
<1>11. PICK now \in Seq(Byte) :
         /\ now = sent \o (SubSeq(s, 1, n) \o Fill(Space, opt.cbs - n))
         /\ now = Whole!Blocked(p, c) \o Whole!BlockRecord(t, c)
  <2>1. SubSeq(s, 1, n) \o Fill(Space, opt.cbs - n) = Whole!BlockRecord(t, c)
    <3>1. t \o Fill(Space, c - Len(t)) = Whole!BlockRecord(t, c)
      BY <1>2, <1>3, FillRecord
    <3> QED BY <1>1, <1>3, <3>1, Zenon
  <2>2. sent \o Whole!BlockRecord(t, c) \in Seq(Byte)
    BY BlockRecordFacts, Joined, Zenon
  <2>3. PICK now \in Seq(Byte) : now = sent \o Whole!BlockRecord(t, c)
    BY <2>2, Zenon
  <2>4. now = sent \o (SubSeq(s, 1, n) \o Fill(Space, opt.cbs - n))
    BY <2>1, <2>3, Zenon
  <2>5. now = Whole!Blocked(p, c) \o Whole!BlockRecord(t, c)
    BY <1>10, <2>3, Zenon
  <2> QED BY <2>4, <2>5, Zenon
<1>12. all = (p \o t) \o rest
  <2>1. rest \in Seq(Byte)
    BY <1>3
  <2>2. (p \o t) \o rest = p \o (t \o rest)
    <3>1. Grouped(p, t, rest)
      BY <2>1, Group
    <3> QED BY <3>1, Zenon DEF Grouped
  <2> QED BY <1>3, <1>10, <2>2, Zenon
<1>13. CASE n < c
  <2>1. HasNL(SubSeq(s, 1, m))
    BY <1>2, <1>4, <1>5, <1>13
  <2>2. s[n + 1] = NL /\ n + 1 <= Len(s)
    BY <1>2, <1>5, <1>8, <2>1
  <2>3. PICK r \in Seq(Byte) : r = Tail(rest) /\ rest = <<NL>> \o r
    <3>1. rest # <<>> /\ rest[1] = NL
      <4>1. n + 1 \in Nat /\ n + 1 >= 1
        BY <1>2
      <4>2. Len(rest) = Len(s) - n /\ \A j \in 1..Len(rest) : rest[j] = s[n + 1 + j - 1]
        <5>1. /\ Len(From(s, n + 1)) = IF n + 1 <= Len(s) THEN Len(s) - (n + 1) + 1 ELSE 0
              /\ \A j \in 1..Len(From(s, n + 1)) : From(s, n + 1)[j] = s[n + 1 + j - 1]
          BY <4>1, FromType, Zenon
        <5>2. Len(s) - (n + 1) + 1 = Len(s) - n
          BY <1>2
        <5> QED BY <2>2, <5>1, <5>2, Zenon
      <4>3. 1 \in 1..Len(rest) /\ n + 1 + 1 - 1 = n + 1
        BY <1>2, <2>2, <4>2
      <4>4. rest[1] = s[n + 1]
        BY <4>2, <4>3, Zenon
      <4>5. Len(rest) >= 1
        BY <1>3, <4>3
      <4> QED BY <2>2, <4>4, <4>5, <1>3
    <3>2. Tail(rest) \in Seq(Byte) /\ rest = <<rest[1]>> \o Tail(rest)
      BY <1>3, <3>1
    <3> QED BY <3>1, <3>2
  <2> DEFINE q == p \o (t \o <<NL>>)
  <2>4. /\ <<NL>> \in Seq(Byte) /\ q \in Seq(Byte) /\ Starts(q)
        /\ Whole!Blocked(q, c) = Whole!Blocked(p, c) \o Whole!BlockRecord(t, c)
    <3>1. LineJoins(p, t, c)
      <4>1. Starts(p)
        BY <1>10, Zenon
      <4> QED BY <1>9, <4>1, LinesJoin
    <3> QED BY <3>1, Zenon DEF LineJoins
  <2>5. all = q \o r
    <3>1. PICK w \in Seq(Byte) : w = <<NL>>
      BY <2>4, Zenon
    <3>2. all = (p \o t) \o (w \o r)
      BY <1>12, <2>3, <3>1, Zenon
    <3>3. Regrouped(p, t, w, r)
      BY Regroup, Zenon
    <3> QED BY <3>1, <3>2, <3>3, Zenon DEF Regrouped
  <2> HIDE DEF q
  <2>9. BlockStream(FALSE, all, r, c, now)
    BY <1>11, <2>4, <2>5, Zenon DEF BlockStream
  <2>10. ~(n = c)
    BY <1>2, <1>13
  <2> QED BY <1>1, <1>11, <1>13, <2>3, <2>9, <2>10, Zenon
<1>14. CASE ~(n < c)
  <2>1. n = c /\ c <= Len(t)
    BY <1>2, <1>3, <1>14
  <2>2. BlockStream(TRUE, all, rest, c, now)
    BY <1>9, <1>10, <1>11, <1>12, <2>1, Zenon DEF BlockStream
  <2>3. BlockStream(~HasNL(rest), all, AfterNL(rest), c, now)
    BY <1>3, <2>2, BlockDrops, Zenon
  <2> QED BY <1>1, <1>11, <1>14, <2>1, <2>3, Zenon
<1> QED BY <1>13, <1>14

(* The end of the stream, as block_close does it.                               *)
LeftOver(dropping, s, size) == IF dropping THEN s = <<>> ELSE ~HasNL(s) /\ Len(s) < size

BlockEnds(all, s, size, sent) ==
  Whole!Blocked(all, size) =
    IF s = <<>> THEN sent ELSE sent \o (s \o Fill(Space, size - Len(s)))

LEMMA BlockCloses ==
  ASSUME NEW all \in Seq(Byte), NEW s \in Seq(Byte), NEW size \in Nat, size > 0,
         NEW sent \in Seq(Byte), NEW dropping \in BOOLEAN,
         BlockStream(dropping, all, s, size, sent),
         LeftOver(dropping, s, size)
  PROVE  BlockEnds(all, s, size, sent)
<1>0. \A a \in Seq(Byte) : a \o <<>> = a
  OBVIOUS
<1>1. CASE dropping
  <2>1. PICK p \in Seq(Byte), t \in Seq(Byte) :
         /\ all = (p \o t) \o s /\ Starts(p) /\ ~HasNL(t) /\ size <= Len(t)
         /\ sent = Whole!Blocked(p, size) \o Whole!BlockRecord(t, size)
    BY <1>1, Zenon DEF BlockStream
  <2>2. t # <<>>
    BY <2>1
  <2>3. all = p \o t
    <3>1. p \o t \in Seq(Byte)
      BY Joined, Zenon
    <3>2. s = <<>>
      BY <1>1 DEF LeftOver
    <3> QED BY <1>0, <2>1, <3>1, <3>2, Zenon
  <2>4. Whole!Blocked(p \o t, size) = Whole!Blocked(p, size) \o Whole!BlockRecord(t, size)
    BY <2>1, <2>2, BlockedLast
  <2>5. s = <<>>
    BY <1>1 DEF LeftOver
  <2> QED BY <2>1, <2>3, <2>4, <2>5, Zenon DEF BlockEnds
<1>2. CASE ~dropping
  <2>1. PICK p \in Seq(Byte) : all = p \o s /\ Starts(p) /\ sent = Whole!Blocked(p, size)
    BY <1>2, Zenon DEF BlockStream
  <2>2. CASE s = <<>>
    BY <1>0, <2>1, <2>2, Zenon DEF BlockEnds
  <2>3. CASE s # <<>>
    <3>0. ~HasNL(s) /\ Len(s) < size
      BY <1>2 DEF LeftOver
    <3>1. Whole!Blocked(p \o s, size) = Whole!Blocked(p, size) \o Whole!BlockRecord(s, size)
      BY <3>0, <2>1, <2>3, BlockedLast
    <3>2. s \o Fill(Space, size - Len(s)) = Whole!BlockRecord(s, size)
      BY <3>0, FillRecord
    <3> QED BY <2>1, <2>3, <3>1, <3>2, Zenon DEF BlockEnds
  <2> QED BY <2>2, <2>3
<1> QED BY <1>1, <1>2

(* unblock_close and unblock strip a record as the conversion says.             *)
LEMMA StrippedIs ==
  ASSUME NEW s \in Seq(Byte)
  PROVE  Stripped(s) = Whole!UnblockRecord(s)
<1> DEFINE ends == {i \in 1..Len(s) : s[i] # Space}
           last == CHOOSE i \in ends \cup {0} : \A j \in ends : j <= i
           Keeps(n) == /\ n > 0 => s[n] # Space
                       /\ \A j \in n + 1..Len(s) : s[j] = Space
           keep == CHOOSE n \in 0..Len(s) : Keeps(n)
<1>1. Len(s) \in Nat /\ ends \cup {0} \subseteq 0..Len(s) /\ ends \cup {0} # {}
  OBVIOUS
<1>2. \E i \in ends \cup {0} : \A j \in ends \cup {0} : j <= i
  <2> HIDE DEF ends
  <2> QED BY <1>1, GreatestMember, Zenon
<1>3. last \in ends \cup {0} /\ \A j \in ends : j <= last
  <2> HIDE DEF ends
  <2>1. \E i \in ends \cup {0} : \A j \in ends : j <= i
    BY <1>2
  <2> QED BY <2>1
<1>4. Stripped(s) = Append(SubSeq(s, 1, last), NL)
  BY DEF Stripped
<1>5. Whole!UnblockRecord(s) = Append(SubSeq(s, 1, keep), NL)
  BY DEF Whole!UnblockRecord
<1>6. PICK x \in 0..Len(s) : x = last
  <2> HIDE DEF last, ends
  <2> QED BY <1>1, <1>3
<1> HIDE DEF last
<1>7. (x > 0 => s[x] # Space) /\ \A j \in 1..Len(s) : s[j] # Space => j <= x
  BY <1>3, <1>6
<1>8. Keeps(x)
  BY <1>6, <1>7
<1>9. PICK y \in 0..Len(s) : y = keep /\ Keeps(y)
  <2> HIDE DEF Keeps
  <2> QED BY <1>8
<1> HIDE DEF keep
<1>10. x = y
  <2>1. CASE x < y
    <3>1. y \in x + 1..Len(s) /\ y > 0
      BY <2>1
    <3> QED BY <1>8, <1>9, <3>1
  <2>2. CASE y < x
    <3>1. x \in y + 1..Len(s) /\ x > 0
      BY <2>2
    <3> QED BY <1>8, <1>9, <3>1
  <2> QED BY <2>1, <2>2
<1> QED BY <1>4, <1>5, <1>6, <1>9, <1>10

LEMMA UnblockRecordType ==
  ASSUME NEW s \in Seq(Byte)
  PROVE  Whole!UnblockRecord(s) \in Seq(Byte)
BY StrippedIs, StrippedType

(* The function that Unblocked defines by recursion, from the start.            *)
UpTo(s, size, k) == IF k * size < Len(s) THEN k * size ELSE Len(s)
NextStep(s, size, f, k) ==
  IF k = 0 THEN <<>>
  ELSE IF (k - 1) * size >= Len(s) THEN f[k - 1]
  ELSE f[k - 1] \o Whole!UnblockRecord(SubSeq(s, (k - 1) * size + 1, UpTo(s, size, k)))
UnblockFrom(s, size, f) ==
  /\ f \in [0..Len(s) -> Seq(Byte)]
  /\ \A k \in 0..Len(s) : f[k] = NextStep(s, size, f, k)

LEMMA PieceType ==
  ASSUME NEW s \in Seq(Byte), NEW size \in Nat, NEW k \in Nat, k > 0
  PROVE  /\ SubSeq(s, (k - 1) * size + 1, UpTo(s, size, k)) \in Seq(Byte)
         /\ Whole!UnblockRecord(SubSeq(s, (k - 1) * size + 1, UpTo(s, size, k))) \in Seq(Byte)
<1>1. k - 1 \in Nat
  OBVIOUS
<1>2. k * size \in Nat /\ (k - 1) * size \in Nat
  BY <1>1
<1>3. PICK a \in Nat, b \in Nat : a = (k - 1) * size /\ b = k * size
  BY <1>2, Zenon
<1>4. PICK e \in Nat : e = UpTo(s, size, k) /\ e <= Len(s)
  BY <1>3 DEF UpTo
<1>5. SubSeq(s, a + 1, e) \in Seq(Byte)
  BY <1>4
<1>6. SubSeq(s, (k - 1) * size + 1, UpTo(s, size, k)) \in Seq(Byte)
  BY <1>3, <1>4, <1>5, Zenon
<1> QED BY <1>6, UnblockRecordType, Zenon

LEMMA NextStepType ==
  ASSUME NEW s \in Seq(Byte), NEW size \in Nat, NEW f, NEW k \in Nat, k > 0,
         f[k - 1] \in Seq(Byte)
  PROVE  NextStep(s, size, f, k) \in Seq(Byte)
<1>1. Whole!UnblockRecord(SubSeq(s, (k - 1) * size + 1, UpTo(s, size, k))) \in Seq(Byte)
  BY PieceType
<1>2. \A a, b \in Seq(Byte) : a \o b \in Seq(Byte)
  OBVIOUS
<1>3. k # 0
  OBVIOUS
<1> QED BY <1>1, <1>2, <1>3, Zenon DEF NextStep

LEMMA UnblockFromExists ==
  ASSUME NEW s \in Seq(Byte), NEW size \in Nat
  PROVE  \E f : UnblockFrom(s, size, f)
<1> DEFINE L == Len(s)
           Upto(n, f) == /\ f \in [0..L -> Seq(Byte)]
                         /\ \A k \in 0..L : k <= n => f[k] = NextStep(s, size, f, k)
           S == {n \in Nat : n <= L => \E f : Upto(n, f)}
<1>1. 0 \in S
  <2>1. <<>> \in Seq(Byte)
    OBVIOUS
  <2>2. [k \in 0..L |-> <<>>] \in [0..L -> Seq(Byte)]
    BY <2>1
  <2>3. ASSUME NEW k \in 0..L, k <= 0
        PROVE  [j \in 0..L |-> <<>>][k] = NextStep(s, size, [j \in 0..L |-> <<>>], k)
    <3>1. k = 0
      BY <2>3
    <3> QED BY <3>1, Zenon DEF NextStep
  <2> QED BY <2>2, <2>3
<1>2. ASSUME NEW n \in Nat, n \in S PROVE n + 1 \in S
  <2>1. SUFFICES ASSUME n + 1 <= L PROVE \E f : Upto(n + 1, f)
    OBVIOUS
  <2>2. PICK f : Upto(n, f)
    BY <1>2, <2>1
  <2>3. n \in 0..L /\ n + 1 \in 0..L /\ (n + 1) - 1 = n
    BY <2>1
  <2>4. f[(n + 1) - 1] \in Seq(Byte)
    BY <2>2, <2>3
  <2>5. PICK new \in Seq(Byte) : new = NextStep(s, size, f, n + 1)
    <3>1. n + 1 \in Nat /\ n + 1 > 0
      OBVIOUS
    <3> QED BY <2>4, <3>1, NextStepType
  <2> DEFINE g == [f EXCEPT ![n + 1] = new]
  <2>6. g \in [0..L -> Seq(Byte)] /\ g[n + 1] = new /\ \A j \in 0..L : j # n + 1 => g[j] = f[j]
    BY <2>2, <2>3, <2>5
  <2> HIDE DEF g
  <2>7. ASSUME NEW k \in 0..L, k <= n + 1 PROVE g[k] = NextStep(s, size, g, k)
    <3>1. CASE k = 0
      <4>1. k <= n /\ k # n + 1
        BY <3>1
      <4>2. g[k] = NextStep(s, size, f, k)
        BY <2>2, <2>6, <4>1
      <4> QED BY <3>1, <4>2, Zenon DEF NextStep
    <3>2. CASE k # 0
      <4>1. k - 1 \in 0..L /\ k - 1 # n + 1
        BY <2>7, <3>2
      <4>2. g[k - 1] = f[k - 1]
        BY <2>6, <4>1, Zenon
      <4>3. NextStep(s, size, g, k) = NextStep(s, size, f, k)
        BY <4>2, Zenon DEF NextStep
      <4>4. CASE k = n + 1
        BY <2>5, <2>6, <4>3, <4>4
      <4>5. CASE k # n + 1
        <5>1. k <= n
          BY <2>7, <4>5
        <5> QED BY <2>2, <2>6, <4>3, <4>5, <5>1
      <4> QED BY <4>4, <4>5
    <3> QED BY <3>1, <3>2
  <2>8. Upto(n + 1, g)
    BY <2>6, <2>7
  <2> QED BY <2>8
<1>3. PICK n \in Nat : n = L
  OBVIOUS
<1> HIDE DEF S
<1>4. n \in S
  BY <1>1, <1>2, NatSetInduction
<1>5. PICK f : Upto(n, f)
  BY <1>3, <1>4 DEF S
<1>6. \A k \in 0..L : k <= n
  BY <1>3
<1> QED BY <1>5, <1>6 DEF UnblockFrom

LEMMA UnblockedIs ==
  ASSUME NEW s \in Seq(Byte), NEW size \in Nat, NEW h, UnblockFrom(s, size, h)
  PROVE  Whole!Unblocked(s, size) = h[Len(s)]
<1> DEFINE L == Len(s)
           Equation(g) == g = [k \in 0..L |-> NextStep(s, size, g, k)]
           whole == CHOOSE g : Equation(g)
<1>1. Whole!Unblocked(s, size) = whole[L]
  BY DEF Whole!Unblocked, NextStep, UpTo
<1>2. Equation(h)
  BY DEF UnblockFrom
<1>3. Equation(whole)
  <2> HIDE DEF Equation
  <2> QED BY <1>2
<1> HIDE DEF whole
<1>4. \A k \in 0..L : whole[k] = NextStep(s, size, whole, k) /\ h[k] = NextStep(s, size, h, k)
  BY <1>3 DEF UnblockFrom
<1> HIDE DEF Equation
<1> DEFINE S == {n \in Nat : n <= L => whole[n] = h[n]}
<1>5. 0 \in S
  <2>1. 0 \in 0..L
    OBVIOUS
  <2>2. whole[0] = h[0]
    BY <1>4, <2>1, Zenon DEF NextStep
  <2> QED BY <2>2
<1>6. ASSUME NEW n \in Nat, n \in S PROVE n + 1 \in S
  <2>1. SUFFICES ASSUME n + 1 <= L PROVE whole[n + 1] = h[n + 1]
    OBVIOUS
  <2>2. whole[n] = h[n] /\ n + 1 \in 0..L /\ (n + 1) - 1 = n
    BY <1>6, <2>1
  <2>3. whole[(n + 1) - 1] = h[(n + 1) - 1]
    BY <2>2
  <2> QED BY <1>4, <2>2, <2>3, Zenon DEF NextStep
<1> HIDE DEF S
<1>7. PICK n \in Nat : n = L
  OBVIOUS
<1>8. n \in S
  BY <1>5, <1>6, NatSetInduction
<1>9. n <= n
  OBVIOUS
<1> QED BY <1>1, <1>7, <1>8, <1>9 DEF S

LEMMA Multiples ==
  ASSUME NEW n \in Nat, NEW size \in Nat, size > 0
  PROVE  /\ n * size \in Nat /\ n <= n * size /\ (n + 1) * size = n * size + size
         /\ \A k \in Nat : k <= n => k * size \in Nat /\ k * size <= n * size
<1>1. ASSUME NEW k \in Nat, k <= n PROVE k * size \in Nat /\ k * size <= n * size
  <2>1. PICK d \in Nat : d = n - k
    BY <1>1
  <2>2. (k + d) * size = k * size + d * size /\ k * size \in Nat /\ d * size \in Nat
    BY NextBlock
  <2>3. k + d = n
    BY <2>1
  <2>4. PICK x \in Nat, y \in Nat : x = k * size /\ y = d * size
    BY <2>2, Zenon
  <2>5. x <= x + y
    OBVIOUS
  <2> QED BY <2>2, <2>3, <2>4, <2>5, Zenon
<1>2. n <= n * size
  <2>1. PICK d \in Nat : size = 1 + d
    <3>1. size - 1 \in Nat /\ size = 1 + (size - 1)
      OBVIOUS
    <3> QED BY <3>1
  <2>2. n * (1 + d) = n + n * d /\ n * d \in Nat
    OBVIOUS
  <2> QED BY <2>1, <2>2
<1> QED BY <1>1, <1>2, NextBlock

(* Whole records continued with one more, which may be shorter if it is the     *)
(* last.                                                                        *)
LEMMA UnblockedJoin ==
  ASSUME NEW p \in Seq(Byte), NEW t \in Seq(Byte), NEW size \in Nat, size > 0,
         Len(t) >= 1, Len(t) <= size
  PROVE  \A n \in Nat : Len(p) = n * size =>
           Whole!Unblocked(p \o t, size) = Whole!Unblocked(p, size) \o Whole!UnblockRecord(t)
<1>0. SUFFICES ASSUME NEW n \in Nat, Len(p) = n * size
               PROVE  Whole!Unblocked(p \o t, size)
                        = Whole!Unblocked(p, size) \o Whole!UnblockRecord(t)
  BY Zenon
<1>1. PICK a \in Nat, b \in Nat : a = Len(p) /\ b = Len(t)
  OBVIOUS
<1>2. PICK s \in Seq(Byte) : s = p \o t
  BY Joined
<1>3. PICK l \in Nat : l = Len(s) /\ l = a + b /\ a < l /\ l <= a + size
  <2>1. Len(s) \in Nat /\ Len(s) = a + b
    BY <1>1, <1>2
  <2> QED BY <1>1, <2>1
<1>4. /\ \A i \in 1..a : s[i] = p[i]
      /\ \A i \in 1..b : s[a + i] = t[i]
  BY <1>1, <1>2, Joined
<1>5. PICK f : UnblockFrom(p, size, f)
  BY UnblockFromExists
<1>6. PICK h : UnblockFrom(s, size, h)
  BY UnblockFromExists
<1>7. /\ f \in [0..a -> Seq(Byte)] /\ \A k \in 0..a : f[k] = NextStep(p, size, f, k)
      /\ h \in [0..l -> Seq(Byte)] /\ \A k \in 0..l : h[k] = NextStep(s, size, h, k)
  BY <1>1, <1>3, <1>5, <1>6 DEF UnblockFrom
<1>8. n * size = a /\ n <= a /\ (n + 1) * size = a + size
  BY <1>0, <1>1, Multiples
(* The whole records are the same.                                              *)
<1>9. h[n] = f[n]
  <2> DEFINE S == {k \in Nat : k <= n => h[k] = f[k]}
  <2>1. 0 \in S
    <3>1. 0 \in 0..a /\ 0 \in 0..l
      OBVIOUS
    <3>2. h[0] = f[0]
      BY <1>7, <3>1, Zenon DEF NextStep
    <3> QED BY <3>2
  <2>2. ASSUME NEW k \in Nat, k \in S PROVE k + 1 \in S
    <3>1. SUFFICES ASSUME k + 1 <= n PROVE h[k + 1] = f[k + 1]
      OBVIOUS
    <3>2. h[k] = f[k]
      BY <2>2, <3>1
    <3>3. /\ k + 1 \in Nat /\ (k + 1) * size \in Nat /\ (k + 1) * size <= n * size
          /\ k * size \in Nat /\ (k + 1) * size = k * size + size
      BY <3>1, Multiples
    <3>4. PICK x \in Nat, y \in Nat : x = k * size /\ y = (k + 1) * size
      BY <3>3, Zenon
    <3>5. y <= a /\ y = x + size /\ ~(x >= a) /\ ~(x >= l) /\ y < l
      BY <1>3, <1>8, <3>3, <3>4
    <3>6. UpTo(p, size, k + 1) = y /\ UpTo(s, size, k + 1) = y
      <4>1. ~(y > a) /\ ~(y > l)
        BY <3>5
      <4>2. y = (k + 1) * size /\ a = Len(p) /\ l = Len(s)
        BY <1>1, <1>3, <3>4, Zenon
      <4>3. /\ UpTo(p, size, k + 1) = IF y < a THEN y ELSE a
            /\ UpTo(s, size, k + 1) = IF y < l THEN y ELSE l
        BY <4>2, Zenon DEF UpTo
      <4> QED BY <4>1, <4>3
    <3>7. SubSeq(s, x + 1, y) = SubSeq(p, x + 1, y)
      <4>1. /\ SubSeq(s, x + 1, y) \in Seq(Byte) /\ Len(SubSeq(s, x + 1, y)) = y - x
            /\ \A j \in 1..y - x : SubSeq(s, x + 1, y)[j] = s[x + j]
        <5>1. x <= y /\ y <= Len(s)
          BY <1>3, <3>5
        <5> QED BY <5>1, PartOf, Zenon
      <4>2. /\ SubSeq(p, x + 1, y) \in Seq(Byte) /\ Len(SubSeq(p, x + 1, y)) = y - x
            /\ \A j \in 1..y - x : SubSeq(p, x + 1, y)[j] = p[x + j]
        BY <1>1, <3>5
      <4>3. PICK v \in Seq(Byte), w \in Seq(Byte) :
              v = SubSeq(s, x + 1, y) /\ w = SubSeq(p, x + 1, y)
        BY <4>1, <4>2, Zenon
      <4>4. \A j \in 1..y - x : x + j \in 1..a
        BY <3>5
      <4>5. \A j \in 1..y - x : v[j] = w[j]
        BY <1>4, <4>1, <4>2, <4>3, <4>4, Zenon
      <4>6. Len(v) = y - x /\ Len(w) = y - x
        BY <4>1, <4>2, <4>3, Zenon
      <4>7. v = w
        BY <4>5, <4>6, SameBytes
      <4> QED BY <4>3, <4>7
    <3>8. /\ (k + 1) - 1 = k /\ k + 1 # 0 /\ k + 1 \in 0..a /\ k + 1 \in 0..l
      BY <1>3, <1>8, <3>1
    <3>9. f[k + 1] = f[k] \o Whole!UnblockRecord(SubSeq(p, x + 1, y))
      <4>1. f[k + 1] = NextStep(p, size, f, k + 1)
        BY <1>7, <3>8, Zenon
      <4> QED BY <1>1, <3>4, <3>5, <3>6, <3>8, <4>1, Zenon DEF NextStep
    <3>10. h[k + 1] = h[k] \o Whole!UnblockRecord(SubSeq(s, x + 1, y))
      <4>1. h[k + 1] = NextStep(s, size, h, k + 1)
        BY <1>7, <3>8, Zenon
      <4> QED BY <1>3, <3>4, <3>5, <3>6, <3>8, <4>1, Zenon DEF NextStep
    <3> QED BY <3>2, <3>7, <3>9, <3>10, Zenon
  <2> HIDE DEF S
  <2>3. n \in S
    BY <2>1, <2>2, NatSetInduction
  <2>4. n <= n
    OBVIOUS
  <2> QED BY <2>3, <2>4 DEF S
(* Behind them nothing is added.                                                *)
<1>10. f[a] = f[n]
  <2> DEFINE S == {k \in Nat : n + k <= a => f[n + k] = f[n]}
  <2>1. 0 \in S
    OBVIOUS
  <2>2. ASSUME NEW k \in Nat, k \in S PROVE k + 1 \in S
    <3>1. SUFFICES ASSUME n + (k + 1) <= a PROVE f[n + (k + 1)] = f[n]
      OBVIOUS
    <3>2. f[n + k] = f[n]
      BY <2>2, <3>1
    <3>3. PICK m \in Nat : m = n + k
      OBVIOUS
    <3>4. n + (k + 1) = m + 1 /\ (m + 1) - 1 = m /\ m + 1 # 0 /\ m + 1 \in 0..a /\ n <= m
      BY <3>1, <3>3
    <3>5. m * size >= Len(p)
      <4>1. n * size <= m * size /\ m * size \in Nat
        BY <3>4, Multiples
      <4> QED BY <1>1, <1>8, <4>1
    <3>6. f[m + 1] = f[m]
      <4>1. f[m + 1] = NextStep(p, size, f, m + 1)
        BY <1>7, <3>4, Zenon
      <4> QED BY <3>4, <3>5, <4>1, Zenon DEF NextStep
    <3> QED BY <3>2, <3>3, <3>4, <3>6, Zenon
  <2> HIDE DEF S
  <2>3. PICK d \in Nat : n + d = a
    <3>1. a - n \in Nat /\ n + (a - n) = a
      BY <1>8
    <3> QED BY <3>1
  <2>4. d \in S
    BY <2>1, <2>2, NatSetInduction
  <2>5. n + d <= a
    BY <2>3
  <2> QED BY <2>3, <2>4, <2>5 DEF S
(* Then the record that was added.                                              *)
<1>11. h[n + 1] = f[n] \o Whole!UnblockRecord(t)
  <2>1. /\ (n + 1) - 1 = n /\ n + 1 # 0 /\ n + 1 \in 0..l /\ ~(a >= l)
        /\ ~((n + 1) * size < l)
    BY <1>3, <1>8
  <2>2. UpTo(s, size, n + 1) = l
    BY <1>3, <2>1, Zenon DEF UpTo
  <2>3. SubSeq(s, a + 1, l) = t
    <3>1. /\ SubSeq(s, a + 1, l) \in Seq(Byte) /\ Len(SubSeq(s, a + 1, l)) = b
          /\ \A j \in 1..b : SubSeq(s, a + 1, l)[j] = s[a + j]
      <4>1. a <= l /\ l <= Len(s) /\ l - a = b
        BY <1>3
      <4>2. /\ SubSeq(s, a + 1, l) \in Seq(Byte) /\ Len(SubSeq(s, a + 1, l)) = l - a
            /\ \A j \in 1..l - a : SubSeq(s, a + 1, l)[j] = s[a + j]
        BY <4>1, PartOf, Zenon
      <4> QED BY <4>1, <4>2, Zenon
    <3>2. PICK v \in Seq(Byte) : v = SubSeq(s, a + 1, l)
      BY <3>1
    <3>3. Len(v) = Len(t) /\ \A j \in 1..Len(t) : v[j] = t[j]
      BY <1>1, <1>4, <3>1, <3>2
    <3>4. v = t
      BY <3>3, SameBytes
    <3> QED BY <3>2, <3>4
  <2>4. h[n + 1] = NextStep(s, size, h, n + 1)
    BY <1>7, <2>1, Zenon
  <2>5. h[n + 1] = h[n] \o Whole!UnblockRecord(SubSeq(s, a + 1, l))
    BY <1>3, <1>8, <2>1, <2>2, <2>4, Zenon DEF NextStep
  <2> QED BY <1>9, <2>3, <2>5, Zenon
(* And nothing behind it.                                                       *)
<1>12. h[l] = h[n + 1]
  <2> DEFINE S == {k \in Nat : n + 1 + k <= l => h[n + 1 + k] = h[n + 1]}
  <2>1. 0 \in S
    OBVIOUS
  <2>2. ASSUME NEW k \in Nat, k \in S PROVE k + 1 \in S
    <3>1. SUFFICES ASSUME n + 1 + (k + 1) <= l PROVE h[n + 1 + (k + 1)] = h[n + 1]
      OBVIOUS
    <3>2. h[n + 1 + k] = h[n + 1]
      BY <2>2, <3>1
    <3>3. PICK m \in Nat : m = n + 1 + k
      OBVIOUS
    <3>4. n + 1 + (k + 1) = m + 1 /\ (m + 1) - 1 = m /\ m + 1 # 0 /\ m + 1 \in 0..l
          /\ n + 1 <= m /\ n + 1 \in Nat
      BY <3>1, <3>3
    <3>5. m * size >= Len(s)
      <4>1. (n + 1) * size <= m * size /\ m * size \in Nat
        BY <3>4, Multiples
      <4> QED BY <1>3, <1>8, <4>1
    <3>6. h[m + 1] = h[m]
      <4>1. h[m + 1] = NextStep(s, size, h, m + 1)
        BY <1>7, <3>4, Zenon
      <4> QED BY <3>4, <3>5, <4>1, Zenon DEF NextStep
    <3> QED BY <3>2, <3>3, <3>4, <3>6, Zenon
  <2> HIDE DEF S
  <2>3. PICK d \in Nat : n + 1 + d = l
    <3>1. l - (n + 1) \in Nat /\ n + 1 + (l - (n + 1)) = l
      BY <1>3, <1>8
    <3> QED BY <3>1
  <2>4. d \in S
    BY <2>1, <2>2, NatSetInduction
  <2>5. n + 1 + d <= l
    BY <2>3
  <2> QED BY <2>3, <2>4, <2>5 DEF S
<1>13. Whole!Unblocked(p, size) = f[a]
  BY <1>1, <1>5, UnblockedIs
<1>14. Whole!Unblocked(s, size) = h[l]
  BY <1>3, <1>6, UnblockedIs
<1> QED BY <1>2, <1>10, <1>11, <1>12, <1>13, <1>14, Zenon

-------------------------------------------------------------------------------
(* What was put out, the zeros included that a pending seek will leave.         *)

Out(file, base, end) == SubSeq(Overwrite(file, end, <<>>), base + 1, end)

LEMMA OutFacts ==
  ASSUME NEW file \in Seq(Byte), NEW base \in Nat, NEW end \in Nat, base <= end
  PROVE  /\ Out(file, base, end) \in Seq(Byte) /\ Len(Out(file, base, end)) = end - base
         /\ \A j \in 1..end - base :
              Out(file, base, end)[j] = IF base + j <= Len(file) THEN file[base + j] ELSE Zero
<1>0. <<>> \in Seq(Byte) /\ Len(<<>>) = 0
  OBVIOUS
<1>1. PICK none \in Seq(Byte) : none = <<>> /\ Len(none) = 0
  BY <1>0, Zenon
<1>2. PICK f \in Seq(Byte) :
        /\ f = Overwrite(file, end, none) /\ end <= Len(f)
        /\ \A i \in 1..Len(f) : f[i] = IF i <= Len(file) THEN file[i] ELSE Zero
  <2> DEFINE g == Overwrite(file, end, none)
  <2>1. /\ g \in Seq(Byte)
        /\ Len(g) = IF end + Len(none) > Len(file) THEN end + Len(none) ELSE Len(file)
        /\ \A i \in 1..Len(g) : g[i] = IF i > end /\ i <= end + Len(none) THEN none[i - end]
                                       ELSE IF i <= Len(file) THEN file[i] ELSE Zero
    BY OverwriteType
  <2> HIDE DEF g
  <2>2. end <= Len(g)
    BY <1>1, <2>1
  <2>3. \A i \in 1..Len(g) : ~(i > end /\ i <= end + Len(none))
    BY <1>1
  <2>4. \A i \in 1..Len(g) : g[i] = IF i <= Len(file) THEN file[i] ELSE Zero
    BY <2>1, <2>3, Zenon
  <2> QED BY <2>1, <2>2, <2>4, Zenon DEF g
<1>3. Out(file, base, end) = SubSeq(f, base + 1, end)
  BY <1>1, <1>2, Zenon DEF Out
<1>4. /\ SubSeq(f, base + 1, end) \in Seq(Byte) /\ Len(SubSeq(f, base + 1, end)) = end - base
      /\ \A j \in 1..end - base : SubSeq(f, base + 1, end)[j] = f[base + j]
  BY <1>2, PartOf, Zenon
<1>5. \A j \in 1..end - base : base + j \in 1..Len(f)
  BY <1>2
<1> QED BY <1>2, <1>3, <1>4, <1>5, Zenon

LEMMA OutNothing ==
  ASSUME NEW file \in Seq(Byte), NEW base \in Nat
  PROVE  Out(file, base, base) = <<>>
<1>1. base <= base /\ base - base = 0
  OBVIOUS
<1>2. PICK s \in Seq(Byte) : s = Out(file, base, base) /\ Len(s) = 0
  BY <1>1, OutFacts, Zenon
<1> QED BY <1>2

(* Nothing is pending: it is in the file.                                       *)
LEMMA OutSent ==
  ASSUME NEW file \in Seq(Byte), NEW base \in Nat, NEW end \in Nat, base <= end,
         end <= Len(file) \/ end = base
  PROVE  SubSeq(file, base + 1, end) = Out(file, base, end)
<1>1. CASE end <= Len(file)
  <2>1. PICK s \in Seq(Byte), r \in Seq(Byte) :
          /\ s = SubSeq(file, base + 1, end) /\ r = Out(file, base, end)
    BY <1>1, PartOf, OutFacts, Zenon
  <2>2. Len(s) = end - base /\ \A j \in 1..end - base : s[j] = file[base + j]
    BY <1>1, <2>1, PartOf, Zenon
  <2>3. /\ Len(r) = end - base
        /\ \A j \in 1..end - base : r[j] = IF base + j <= Len(file) THEN file[base + j] ELSE Zero
    BY <2>1, OutFacts, Zenon
  <2>4. \A j \in 1..end - base : base + j <= Len(file)
    BY <1>1
  <2>5. \A j \in 1..end - base : s[j] = r[j]
    BY <2>2, <2>3, <2>4, Zenon
  <2>6. s = r
    BY <2>2, <2>3, <2>5, SameBytes
  <2> QED BY <2>1, <2>6
<1>2. CASE end = base
  <2>1. SubSeq(file, base + 1, base) = <<>>
    OBVIOUS
  <2> QED BY <1>2, <2>1, OutNothing, Zenon
<1> QED BY <1>1, <1>2

LEMMA OutWrite ==
  ASSUME NEW file \in Seq(Byte), NEW base \in Nat, NEW end \in Nat, base <= end,
         NEW new \in Seq(Byte)
  PROVE  Out(Overwrite(file, end, new), base, end + Len(new)) = Out(file, base, end) \o new
<1>0. PICK f \in Seq(Byte) : f = Overwrite(file, end, new)
  BY OverwriteType
<1>1. /\ Len(f) = IF end + Len(new) > Len(file) THEN end + Len(new) ELSE Len(file)
      /\ \A i \in 1..Len(f) : f[i] = IF i > end /\ i <= end + Len(new) THEN new[i - end]
                                     ELSE IF i <= Len(file) THEN file[i] ELSE Zero
  <2> DEFINE g == Overwrite(file, end, new)
  <2>1. /\ Len(g) = IF end + Len(new) > Len(file) THEN end + Len(new) ELSE Len(file)
        /\ \A i \in 1..Len(g) : g[i] = IF i > end /\ i <= end + Len(new) THEN new[i - end]
                                       ELSE IF i <= Len(file) THEN file[i] ELSE Zero
    BY OverwriteType
  <2> HIDE DEF g
  <2>2. g = f
    BY <1>0 DEF g
  <2> QED BY <2>1, <2>2, Zenon
<1>2. PICK n \in Nat, m \in Nat, k \in Nat, z \in Nat :
        n = end - base /\ m = Len(new) /\ k = n + m /\ z = end + m
        /\ z - base = k /\ z <= Len(f) /\ base <= z /\ base + n = end
  <2>1. end - base \in Nat /\ Len(new) \in Nat
    OBVIOUS
  <2>2. PICK n \in Nat, m \in Nat : n = end - base /\ m = Len(new)
    BY <2>1
  <2>3. n + m \in Nat /\ end + m \in Nat /\ (end + m) - base = n + m
        /\ base <= end + m /\ base + n = end
    BY <2>2
  <2>4. end + m <= Len(f)
    BY <1>1, <2>2
  <2> QED BY <2>2, <2>3, <2>4
<1>3. PICK old \in Seq(Byte) :
        /\ old = Out(file, base, end) /\ Len(old) = n
        /\ \A j \in 1..n : old[j] = IF base + j <= Len(file) THEN file[base + j] ELSE Zero
  <2>1. /\ Out(file, base, end) \in Seq(Byte) /\ Len(Out(file, base, end)) = end - base
        /\ \A j \in 1..end - base :
             Out(file, base, end)[j] = IF base + j <= Len(file) THEN file[base + j] ELSE Zero
    BY OutFacts
  <2> QED BY <1>2, <2>1, Zenon
<1>4. PICK s \in Seq(Byte) :
        /\ s = Out(f, base, z) /\ Len(s) = k
        /\ \A j \in 1..k : s[j] = IF base + j <= Len(f) THEN f[base + j] ELSE Zero
  <2>1. /\ Out(f, base, z) \in Seq(Byte) /\ Len(Out(f, base, z)) = z - base
        /\ \A j \in 1..z - base :
             Out(f, base, z)[j] = IF base + j <= Len(f) THEN f[base + j] ELSE Zero
    <3>1. base <= z
      BY <1>2
    <3> QED BY <3>1, OutFacts
  <2> QED BY <1>2, <2>1, Zenon
<1>5. PICK r \in Seq(Byte) :
        /\ r = old \o new /\ Len(r) = k
        /\ \A j \in 1..n : r[j] = old[j]
        /\ \A j \in 1..m : r[n + j] = new[j]
  <2>1. /\ old \o new \in Seq(Byte) /\ Len(old \o new) = Len(old) + Len(new)
        /\ \A i \in 1..Len(old) : (old \o new)[i] = old[i]
        /\ \A i \in 1..Len(new) : (old \o new)[Len(old) + i] = new[i]
    BY Joined
  <2>2. Len(old) = n /\ Len(new) = m
    BY <1>1, <1>2, <1>3, Zenon
  <2>3. PICK r \in Seq(Byte) : r = old \o new
    BY <2>1, Zenon
  <2>4. Len(r) = k
    BY <1>2, <2>1, <2>2, <2>3, Zenon
  <2>5. \A i \in 1..n : r[i] = old[i]
    BY <2>1, <2>2, <2>3, Zenon
  <2>6. \A i \in 1..m : r[n + i] = new[i]
    BY <2>1, <2>2, <2>3, Zenon
  <2> QED BY <2>3, <2>4, <2>5, <2>6, Zenon
<1>6. ASSUME NEW j \in 1..k PROVE s[j] = r[j]
  <2>1. base + j <= Len(f) /\ base + j \in 1..Len(f)
    BY <1>2
  <2>2. s[j] = f[base + j]
    BY <1>4, <2>1, Zenon
  <2>3. CASE j \in 1..n
    <3>1. ~(base + j > end)
      BY <1>2, <2>3
    <3> QED BY <1>1, <1>3, <1>5, <2>1, <2>2, <2>3, <3>1, Zenon
  <2>4. CASE j \notin 1..n
    <3>1. /\ j - n \in 1..m /\ n + (j - n) = j /\ (base + j) - end = j - n
          /\ base + j > end /\ base + j <= end + Len(new)
      BY <1>2, <2>4
    <3>2. f[base + j] = new[j - n]
      BY <1>1, <2>1, <3>1, Zenon
    <3>3. r[n + (j - n)] = new[j - n]
      BY <1>5, <3>1, Zenon
    <3> QED BY <2>2, <3>1, <3>2, <3>3, Zenon
  <2> QED BY <2>3, <2>4
<1>7. s = r
  BY <1>4, <1>5, <1>6, SameBytes
<1> QED BY <1>0, <1>2, <1>3, <1>4, <1>5, <1>7, Zenon

LEMMA OutZeros ==
  ASSUME NEW file \in Seq(Byte), NEW base \in Nat, NEW end \in Nat, base <= end,
         NEW m \in Nat, Len(file) <= end
  PROVE  /\ Fill(Zero, m) \in Seq(Byte)
         /\ Out(file, base, end + m) = Out(file, base, end) \o Fill(Zero, m)
<1>1. PICK new \in Seq(Byte) :
        new = Fill(Zero, m) /\ Len(new) = m /\ \A j \in 1..m : new[j] = Zero
  <2>1. Zero \in Byte
    BY BytesAssumption
  <2>2. Fill(Zero, m) \in Seq(Byte) /\ Len(Fill(Zero, m)) = m
        /\ \A j \in 1..m : Fill(Zero, m)[j] = Zero
    BY <2>1 DEF Fill
  <2> QED BY <2>2, Zenon
<1>2. PICK n \in Nat, k \in Nat, z \in Nat :
        n = end - base /\ k = n + m /\ z = end + m /\ z - base = k /\ base <= z /\ base + n = end
  <2>1. end - base \in Nat
    OBVIOUS
  <2>2. PICK n \in Nat : n = end - base
    BY <2>1
  <2>3. n + m \in Nat /\ end + m \in Nat /\ (end + m) - base = n + m
        /\ base <= end + m /\ base + n = end
    BY <2>2
  <2> QED BY <2>2, <2>3
<1>3. PICK old \in Seq(Byte) :
        /\ old = Out(file, base, end) /\ Len(old) = n
        /\ \A j \in 1..n : old[j] = IF base + j <= Len(file) THEN file[base + j] ELSE Zero
  <2>1. /\ Out(file, base, end) \in Seq(Byte) /\ Len(Out(file, base, end)) = end - base
        /\ \A j \in 1..end - base :
             Out(file, base, end)[j] = IF base + j <= Len(file) THEN file[base + j] ELSE Zero
    BY OutFacts
  <2> QED BY <1>2, <2>1, Zenon
<1>4. PICK s \in Seq(Byte) :
        /\ s = Out(file, base, z) /\ Len(s) = k
        /\ \A j \in 1..k : s[j] = IF base + j <= Len(file) THEN file[base + j] ELSE Zero
  <2>1. /\ Out(file, base, z) \in Seq(Byte) /\ Len(Out(file, base, z)) = z - base
        /\ \A j \in 1..z - base :
             Out(file, base, z)[j] = IF base + j <= Len(file) THEN file[base + j] ELSE Zero
    <3>1. base <= z
      BY <1>2
    <3> QED BY <3>1, OutFacts
  <2> QED BY <1>2, <2>1, Zenon
<1>5. PICK r \in Seq(Byte) :
        /\ r = old \o new /\ Len(r) = k
        /\ \A j \in 1..n : r[j] = old[j]
        /\ \A j \in 1..m : r[n + j] = new[j]
  <2>1. /\ old \o new \in Seq(Byte) /\ Len(old \o new) = Len(old) + Len(new)
        /\ \A i \in 1..Len(old) : (old \o new)[i] = old[i]
        /\ \A i \in 1..Len(new) : (old \o new)[Len(old) + i] = new[i]
    BY Joined
  <2>2. Len(old) = n /\ Len(new) = m
    BY <1>1, <1>2, <1>3, Zenon
  <2>3. PICK r \in Seq(Byte) : r = old \o new
    BY <2>1, Zenon
  <2>4. Len(r) = k
    BY <1>2, <2>1, <2>2, <2>3, Zenon
  <2>5. \A i \in 1..n : r[i] = old[i]
    BY <2>1, <2>2, <2>3, Zenon
  <2>6. \A i \in 1..m : r[n + i] = new[i]
    BY <2>1, <2>2, <2>3, Zenon
  <2> QED BY <2>3, <2>4, <2>5, <2>6, Zenon
<1>6. ASSUME NEW j \in 1..k PROVE s[j] = r[j]
  <2>1. CASE j \in 1..n
    BY <1>3, <1>4, <1>5, <2>1, Zenon
  <2>2. CASE j \notin 1..n
    <3>1. j - n \in 1..m /\ n + (j - n) = j /\ ~(base + j <= Len(file))
      BY <1>2, <2>2
    <3>2. r[n + (j - n)] = Zero
      BY <1>1, <1>5, <3>1, Zenon
    <3> QED BY <1>4, <3>1, <3>2, Zenon
  <2> QED BY <2>1, <2>2
<1>7. s = r
  BY <1>4, <1>5, <1>6, SameBytes
<1> QED BY <1>1, <1>2, <1>3, <1>4, <1>5, <1>7, Zenon

ZerosFollow(file, base, end, m) ==
  /\ Fill(Zero, m) \in Seq(Byte)
  /\ Out(file, base, end + m) = Out(file, base, end) \o Fill(Zero, m)

LEMMA ZerosAppend ==
  ASSUME NEW file \in Seq(Byte), NEW base \in Nat, NEW end \in Nat, base <= end,
         NEW m \in Nat, Len(file) <= end
  PROVE  ZerosFollow(file, base, end, m)
BY OutZeros, Zenon DEF ZerosFollow

-------------------------------------------------------------------------------
(* The output side: where the bytes go.                                         *)

AllSent == Out(output, Base, wpos + pending)
Running == {"read", "conv", "out", "close", "exit", "done"}

(* Sparse does not copy: see Unreliable.                                        *)
SparseFails == Has("SPARSE") /\ (short \/ ~Has("OF") \/ Has("NOTRUNC") \/ Has("SEEK"))

(* The position pos in the output, the size of the file and the pending seek    *)
(* pend: where zeros are skipped nothing of the output before lies behind the    *)
(* position; skipped blocks are whole, so one is left for the close; and the    *)
(* position is in the file except between an interrupted write and its          *)
(* repetition.                                                                  *)
SinkFor(sparse, base, obs, p, f, n, zeros, size, pos, pend, sent) ==
  /\ base <= pos /\ pend >= 0 /\ sent = pos - base
  /\ IF sparse THEN size <= pos ELSE pend = 0
  /\ pend = 0 \/ pend >= obs \/ (p = "out" /\ f)
  /\ p = "out" /\ ~f /\ sparse => n = obs
  /\ p \in {"exit", "done"} => pend = 0
  /\ pos <= size \/ pos = base \/ (p = "out" /\ ~zeros)

SinkKept ==
  opt.status = "ok" /\ ~SparseFails =>
    /\ pc \in {"jcl", "setup"} => pending = 0 /\ bytes = 0
    /\ pc \in Running =>
         SinkFor(Has("SPARSE"), Base, opt.obs, pc, force, cnt, IsSparse, Len(output), wpos,
                 pending, bytes)

LEMMA BaseType ==
  ASSUME TypeOK
  PROVE  Base \in Nat /\ opt.obs \in Nat /\ opt.seek \in Nat
<1>1. PICK seek \in Nat, obs \in Nat : seek = opt.seek /\ obs = opt.obs
  BY DEF TypeOK, ControlTypes, Options
<1>2. seek * obs \in Nat
  OBVIOUS
<1> QED BY <1>1, <1>2 DEF Base

LEMMA SinkNext ==
  ASSUME TypeOK, OutHolds, Room, SinkKept, Next
  PROVE  SinkKept'
<1>1. opt' = opt /\ Base' = Base /\ (\A flag : Has(flag)' <=> Has(flag))
  BY ArgsFixed DEF args, Has, Base
<1>2. SUFFICES ASSUME opt.status = "ok", ~SparseFails' PROVE SinkKept'
  BY <1>1 DEF SinkKept
<1>3. PICK b \in Nat, o \in Nat : b = Base /\ o = opt.obs
  BY BaseType
<1>4. /\ output \in Seq(Byte) /\ outbuf \in Seq(Byte) /\ cnt \in Nat /\ wpos \in Nat
      /\ pending \in Int /\ bytes \in Int /\ force \in BOOLEAN
      /\ ret \in {"read", "conv", "exit"}
  BY DEF TypeOK, ControlTypes, NumberTypes, ByteTypes
<1>5. o > 0
  BY <1>2, <1>3 DEF Room, Sized
<1>6. short' = short \/ (short' = TRUE /\ pc = "out")
  BY DEF Next, jclExits, jclReturns, setup, setupExits, Exit, dd_in, ReadEnds, Read, ReadError,
       ReadExits, Accept, convert, def, blockDrop, block, unblock, ConvReturns, dd_out,
       SkipSparse, Write, WriteInterrupted, WriteExits, dd_close, Exits, sink
<1>7. ~SparseFails
  BY <1>1, <1>2, <1>6 DEF SparseFails
<1> DEFINE sparse == Has("SPARSE")
           size == Len(output)
<1>8. pc \in Running => SinkFor(sparse, b, o, pc, force, cnt, IsSparse, size, wpos, pending, bytes)
  BY <1>2, <1>3, <1>7 DEF SinkKept
<1>9. /\ pc' \notin {"jcl", "setup"} \cup Running => SinkKept'
      /\ pc' \in Running /\ SinkFor(sparse, b, o, pc', force', cnt', IsSparse', Len(output'),
                                    wpos', pending', bytes') => SinkKept'
  BY <1>1, <1>3 DEF SinkKept, Running
<1>10. size \in Nat
  BY <1>4
(* Steps that leave the output alone.                                           *)
<1>11. ASSUME pc \in Running \ {"out"}, UNCHANGED <<output, wpos, pending, bytes>>,
              pc' \in {"read", "conv", "out", "close", "done", "failed"},
              pc' = "done" => pc = "exit",
              pc' = "out" /\ ~force' => cnt' = opt.obs
       PROVE  SinkKept'
  <2>1. SinkFor(sparse, b, o, pc, force, cnt, IsSparse, size, wpos, pending, bytes) /\ pc # "out"
    BY <1>8, <1>11
  <2> HIDE DEF sparse, size
  <2>2. pc' # "failed" =>
          SinkFor(sparse, b, o, pc', force', cnt', IsSparse', size, wpos, pending, bytes)
    BY <1>3, <1>11, <2>1 DEF SinkFor
  <2>3. Len(output') = size
    BY <1>11 DEF size
  <2>4. pc' = "failed" => pc' \notin {"jcl", "setup"} \cup Running
    BY DEF Running
  <2>5. pc' # "failed" => pc' \in Running
    BY <1>11 DEF Running
  <2> QED BY <1>9, <1>11, <2>2, <2>3, <2>4, <2>5, Zenon
<1>12. CASE jclExits \/ jclReturns \/ setupExits
  <2>1. pc' = "failed" \/ (pc = "jcl" /\ pc' = "setup" /\ pending' = pending /\ bytes' = bytes)
    BY <1>2, <1>12 DEF jclExits, jclReturns, setupExits, sink
  <2> QED BY <1>1, <1>2, <1>7, <2>1 DEF SinkKept, Running
<1>13. CASE Exits
  BY <1>11, <1>13 DEF Exits, sink, Running
<1>14. CASE setup
  <2>1. /\ pc = "setup" /\ pc' = "read" /\ wpos' = b /\ output' \in {Truncated, Opened}
        /\ UNCHANGED <<pending, bytes>>
    BY <1>3, <1>14 DEF setup, Base
  <2>2. pending = 0 /\ bytes = 0
    BY <1>2, <1>7, <2>1 DEF SinkKept
  <2>3. sparse => Len(output') = 0
    <3>1. sparse => Has("OF") /\ ~Has("NOTRUNC") /\ ~Has("SEEK")
      BY <1>7 DEF SparseFails
    <3>2. sparse => output' = <<>>
      BY <2>1, <3>1 DEF Truncated, Truncates, Opened
    <3> QED BY <3>2
  <2> HIDE DEF sparse
  <2>4. SinkFor(sparse, b, o, pc', force', cnt', IsSparse', Len(output'), wpos', pending', bytes')
    BY <2>1, <2>2, <2>3 DEF SinkFor
  <2>5. pc' \in Running
    BY <2>1 DEF Running
  <2> QED BY <1>9, <2>4, <2>5, Zenon DEF sparse
<1>15. CASE dd_in
  <2>1. ASSUME NEW chunk, Accept(chunk), pc = "read" PROVE SinkKept'
    <3>1. /\ UNCHANGED <<output, wpos, pending, bytes>>
          /\ pc' = "conv" \/ (pc' = "out" /\ force' = TRUE)
      BY <2>1 DEF Accept, StartOut
    <3>2. pc \in Running \ {"out"}
      BY <2>1 DEF Running
    <3> QED BY <1>11, <2>1, <3>1, <3>2
  <2>2. ASSUME pc = "read", UNCHANGED <<output, wpos, pending, bytes>>,
               pc' \in {"read", "close", "failed"}
        PROVE  SinkKept'
    <3>1. pc \in Running \ {"out"}
      BY <2>2 DEF Running
    <3> QED BY <1>11, <2>2, <3>1
  <2>3. ASSUME NEW k \in 1..Least(opt.ibs, Remaining), Read(k) PROVE SinkKept'
    BY <2>1, <2>3 DEF Read
  <2>4. CASE ReadError
    BY <2>1, <2>2, <2>4 DEF ReadError, sink
  <2>5. CASE ReadEnds \/ ReadExits
    BY <2>2, <2>5 DEF ReadEnds, ReadExits, Exit, sink
  <2> QED BY <1>15, <2>3, <2>4, <2>5 DEF dd_in
<1>16. CASE convert
  <2>1. /\ pc = "conv" /\ UNCHANGED <<output, wpos, pending, bytes>>
        /\ pc' \in {"read", "conv"} \/ (pc' = "out" /\ force' = FALSE /\ cnt' = opt.obs)
    BY <1>16 DEF convert, def, blockDrop, block, unblock, ConvReturns, RecordAdded, StartOut,
                 sink, source
  <2>2. pc \in Running \ {"out"}
    BY <2>1 DEF Running
  <2> QED BY <1>11, <2>1, <2>2
<1>17. CASE dd_close
  <2>1. pc = "close" /\ UNCHANGED <<output, wpos, bytes>>
    BY <1>17 DEF dd_close
  <2>2. SinkFor(sparse, b, o, pc, force, cnt, IsSparse, size, wpos, pending, bytes)
    BY <1>8, <2>1 DEF Running
  <2>3. \/ pc' = "out" /\ force' = TRUE /\ pending # 0 /\ pending' = pending - o
        \/ pc' = "out" /\ force' = TRUE /\ pending' = pending
        \/ pc' = "exit" /\ pending = 0 /\ pending' = pending
    BY <1>3, <1>17 DEF dd_close, StartOut
  <2>4. Len(output') = size /\ pc' \in Running
    BY <2>1, <2>3 DEF Running
  <2> HIDE DEF sparse, size
  <2>5. SinkFor(sparse, b, o, pc', force', cnt', IsSparse', Len(output'), wpos', pending', bytes')
    BY <1>4, <2>1, <2>2, <2>3, <2>4 DEF SinkFor
  <2> QED BY <1>9, <2>4, <2>5, Zenon DEF sparse
<1>18. CASE dd_out
  <2>0. pc = "out"
    BY <1>18 DEF dd_out, SkipSparse, Write, WriteInterrupted, WriteExits
  <2>1. SinkFor(sparse, b, o, "out", force, cnt, IsSparse, size, wpos, pending, bytes)
    BY <1>8, <2>0 DEF Running
  <2>2. ret = "exit" => force
    BY <1>2, <2>0 DEF Room, RoomFor
  <2>3. ASSUME NEW rest, EndBlock(rest), ret' = ret, force' = force
        PROVE  /\ pc' \in {"out", "read", "conv", "exit"} /\ (pc' = "exit" => force)
               /\ pc' = "out" => cnt' = o
    BY <1>3, <1>4, <2>0, <2>2, <2>3 DEF EndBlock
  <2> HIDE DEF sparse, size
  <2>4. CASE SkipSparse
    <3>1. /\ pending' = pending + cnt /\ EndBlock(From(outbuf, cnt + 1))
          /\ ~force /\ Has("SPARSE") /\ IsSparse
          /\ UNCHANGED <<force, ret, output, wpos, bytes>>
      BY <2>4 DEF SkipSparse, IsSparse
    <3>2. sparse
      BY <3>1 DEF sparse
    <3>3. Len(output') = size
      BY <3>1 DEF size
    <3>4. /\ pc' \in {"out", "read", "conv", "exit"} /\ (pc' = "exit" => force)
          /\ pc' = "out" => cnt' = o
      BY <2>3, <3>1
    <3>5. /\ cnt = o /\ pending >= 0 /\ b <= wpos /\ bytes = wpos - b /\ size <= wpos
          /\ wpos <= size \/ wpos = b
      BY <2>1, <3>1, <3>2 DEF SinkFor
    <3>6. pending' >= o /\ wpos' = wpos /\ bytes' = bytes /\ pc' # "exit" /\ pc' # "done"
          /\ force' = force
      BY <1>3, <1>4, <3>1, <3>4, <3>5
    <3>7. SinkFor(sparse, b, o, pc', force', cnt', IsSparse', Len(output'), wpos', pending', bytes')
      <4>1. pending' >= 0 /\ pending' >= o
        BY <1>3, <1>4, <3>1, <3>5, <3>6
      <4>2. b <= wpos' /\ bytes' = wpos' - b
        BY <3>5, <3>6
      <4>3. IF sparse THEN Len(output') <= wpos' ELSE pending' = 0
        BY <3>2, <3>3, <3>5, <3>6
      <4>4. wpos' <= Len(output') \/ wpos' = b
        BY <3>3, <3>5, <3>6
      <4>5. (pc' = "out" => cnt' = o) /\ pc' \notin {"exit", "done"}
        BY <3>4, <3>6
      <4> QED BY <4>1, <4>2, <4>3, <4>4, <4>5, Zenon DEF SinkFor
    <3>8. pc' \in Running
      BY <3>4 DEF Running
    <3> QED BY <1>9, <3>7, <3>8, Zenon DEF sparse
  <2>5. ASSUME NEW k \in 1..cnt, Write(k) PROVE SinkKept'
    <3> DEFINE first == SubSeq(outbuf, 1, k)
    <3>1. k \in Nat /\ k <= cnt /\ k <= Len(outbuf)
      BY <1>4, <2>0 DEF OutHolds
    <3>2. first \in Seq(Byte) /\ Len(first) = k
      BY <1>4, <3>1, Split
    <3>3. /\ output' = Overwrite(output, wpos + pending, first) /\ wpos' = wpos + pending + k
          /\ bytes' = bytes + pending + k /\ pending' = 0 /\ UNCHANGED <<force, ret>>
      BY <2>5 DEF Write
    <3>4. pending >= 0 /\ b <= wpos /\ bytes = wpos - b /\ (sparse => size <= wpos)
      BY <2>1 DEF SinkFor
    <3>5. PICK end \in Nat : end = wpos + pending
      BY <1>4, <3>4
    <3>6. Len(output') = IF end + k > size THEN end + k ELSE size
      <4> HIDE DEF first
      <4>1. Len(Overwrite(output, end, first)) = IF end + k > Len(output) THEN end + k
                                                 ELSE Len(output)
        BY <1>4, <3>2, OverwriteType
      <4> QED BY <3>3, <3>5, <4>1 DEF size
    <3>7. wpos' <= Len(output') /\ (sparse => Len(output') <= wpos') /\ b <= wpos'
          /\ bytes' = wpos' - b
      BY <1>4, <1>10, <3>1, <3>3, <3>4, <3>5, <3>6
    <3>8. pc' \in {"out", "read", "conv", "exit"} /\ (pc' = "out" /\ sparse /\ ~force => cnt' = o)
      <4>1. CASE k = cnt
        BY <2>3, <2>5, <3>3, <4>1 DEF Write
      <4>2. CASE k # cnt
        <5>1. pc' = "out" /\ short' = TRUE
          BY <2>0, <2>5, <4>2 DEF Write
        <5>2. ~sparse
          BY <1>1, <1>2, <5>1 DEF SparseFails, sparse
        <5> QED BY <5>1, <5>2
      <4> QED BY <4>1, <4>2
    <3> HIDE DEF first
    <3>9. SinkFor(sparse, b, o, pc', force', cnt', IsSparse', Len(output'), wpos', pending', bytes')
      BY <3>3, <3>7, <3>8 DEF SinkFor
    <3>10. pc' \in Running
      BY <3>8 DEF Running
    <3> QED BY <1>9, <3>9, <3>10, Zenon DEF sparse
  <2>6. CASE WriteInterrupted
    <3>1. /\ wpos' = wpos + pending /\ bytes' = bytes + pending /\ pending' = 0 /\ output' = output
          /\ UNCHANGED <<pc, force, cnt, outbuf>> /\ ~IsSparse
      BY <2>6 DEF WriteInterrupted
    <3>2. IsSparse' <=> IsSparse
      BY <1>1, <3>1 DEF IsSparse
    <3>3. pending >= 0 /\ b <= wpos /\ bytes = wpos - b /\ (sparse => size <= wpos)
          /\ (~force /\ sparse => cnt = o)
      BY <2>1 DEF SinkFor
    <3>4. Len(output') = size
      BY <3>1 DEF size
    <3>5. /\ b <= wpos' /\ bytes' = wpos' - b /\ (sparse => size <= wpos')
          /\ (~force' /\ sparse => cnt' = o) /\ pc' = "out" /\ ~IsSparse'
      BY <1>4, <1>10, <2>0, <3>1, <3>2, <3>3
    <3>6. SinkFor(sparse, b, o, pc', force', cnt', IsSparse', Len(output'), wpos', pending', bytes')
      <4>1. /\ b <= wpos' /\ pending' >= 0 /\ bytes' = wpos' - b
            /\ pending' = 0 /\ pc' = "out" /\ pc' \notin {"exit", "done"}
        BY <3>1, <3>5
      <4>2. IF sparse THEN Len(output') <= wpos' ELSE pending' = 0
        BY <3>4, <3>5, <4>1
      <4>3. pc' = "out" /\ ~force' /\ sparse => cnt' = o
        BY <3>5
      <4>4. pc' = "out" /\ ~IsSparse'
        BY <3>5
      <4> QED BY <4>1, <4>2, <4>3, <4>4, Zenon DEF SinkFor
    <3>7. pc' \in Running
      BY <3>5 DEF Running
    <3> QED BY <1>9, <3>6, <3>7, Zenon DEF sparse
  <2>7. CASE WriteExits
    <3>1. pc' = "failed"
      BY <2>7 DEF WriteExits, Exit
    <3> QED BY <1>9, <3>1 DEF Running
  <2> QED BY <1>18, <2>4, <2>5, <2>6, <2>7 DEF dd_out
<1> QED BY <1>12, <1>13, <1>14, <1>15, <1>16, <1>17, <1>18 DEF Next

Reliable == opt.status = "ok" /\ ~SparseFails

LEMMA ReliableFixed ==
  ASSUME Next, Reliable'
  PROVE  /\ Reliable /\ opt' = opt /\ Base' = Base /\ Records' = Records
         /\ \A flag : Has(flag)' <=> Has(flag)
<1>1. opt' = opt /\ Base' = Base /\ Records' = Records /\ (\A flag : Has(flag)' <=> Has(flag))
  BY ArgsFixed DEF args, Has, Base, Records
<1>2. short' = short \/ (short' = TRUE /\ pc = "out")
  BY DEF Next, jclExits, jclReturns, setup, setupExits, Exit, dd_in, ReadEnds, Read, ReadError,
       ReadExits, Accept, convert, def, blockDrop, block, unblock, ConvReturns, dd_out,
       SkipSparse, Write, WriteInterrupted, WriteExits, dd_close, Exits, sink
<1> QED BY <1>1, <1>2 DEF Reliable, SparseFails

(* What is written and what the pending seek stands for.                        *)
LEMMA SentSoFar ==
  ASSUME TypeOK, SinkKept, Reliable, pc \in Running
  PROVE  /\ Base \in Nat /\ wpos + pending \in Nat /\ Base <= wpos + pending
         /\ AllSent \in Seq(Byte) /\ pending \in Nat /\ wpos \in Nat
         /\ pending # 0 => Len(output) <= wpos
<1>1. PICK b \in Nat : b = Base
  BY BaseType
<1>2. output \in Seq(Byte) /\ wpos \in Nat /\ pending \in Int
  BY DEF TypeOK, NumberTypes, ByteTypes
<1>3. b <= wpos /\ pending >= 0 /\ (IF Has("SPARSE") THEN Len(output) <= wpos ELSE pending = 0)
  BY <1>1 DEF SinkKept, SinkFor, Reliable
<1>4. wpos + pending \in Nat /\ b <= wpos + pending /\ pending \in Nat
  BY <1>2, <1>3
<1>5. Out(output, b, wpos + pending) \in Seq(Byte)
  BY <1>2, <1>4, OutFacts
<1> QED BY <1>1, <1>2, <1>3, <1>4, <1>5 DEF AllSent

(* What dd_out puts out is what it takes from the buffer.                       *)
LEMMA OutMoves ==
  ASSUME TypeOK, OutHolds, SinkKept, Reliable, dd_out, pc' # "failed", Base' = Base
  PROVE  /\ AllSent \in Seq(Byte) /\ AllSent' \in Seq(Byte) /\ outbuf' \in Seq(Byte)
         /\ AllSent' \o outbuf' = AllSent \o outbuf
<1>1. /\ output \in Seq(Byte) /\ outbuf \in Seq(Byte) /\ cnt \in Nat /\ wpos \in Nat
      /\ pending \in Int
  BY DEF TypeOK, NumberTypes, ByteTypes
<1>2. pc = "out"
  BY DEF dd_out, SkipSparse, Write, WriteInterrupted, WriteExits
<1>3. cnt <= Len(outbuf)
  BY <1>2 DEF OutHolds
<1>4. PICK b \in Nat, end \in Nat, old \in Seq(Byte) :
        /\ b = Base /\ end = wpos + pending /\ b <= end /\ old = AllSent
        /\ old = Out(output, b, end)
  <2>1. pc \in Running
    BY <1>2 DEF Running
  <2> QED BY <2>1, SentSoFar DEF AllSent
<1>5. SUFFICES ASSUME TRUE
               PROVE  /\ AllSent' \in Seq(Byte) /\ outbuf' \in Seq(Byte)
                      /\ AllSent' \o outbuf' = old \o outbuf
  BY <1>4
<1>6. AllSent' = Out(output', b, wpos' + pending')
  BY <1>4 DEF AllSent
(* The two pieces of the buffer.                                                *)
<1>7. ASSUME NEW first \in Seq(Byte), NEW rest \in Seq(Byte), first \o rest = outbuf,
             outbuf' = rest, AllSent' = old \o first
      PROVE  /\ AllSent' \in Seq(Byte) /\ outbuf' \in Seq(Byte)
             /\ AllSent' \o outbuf' = old \o outbuf
  <2>1. old \o first \in Seq(Byte)
    BY Joined, Zenon
  <2>2. (old \o first) \o rest = old \o (first \o rest)
    BY Reassociate
  <2> QED BY <1>7, <2>1, <2>2, Zenon
<1>8. CASE SkipSparse
  <2>1. /\ pending' = pending + cnt /\ outbuf' = From(outbuf, cnt + 1)
        /\ output' = output /\ wpos' = wpos /\ IsSparse
    BY <1>8 DEF SkipSparse, EndBlock
  <2>2. Len(output) <= end
    <3>1. Len(output) <= wpos /\ pending >= 0
      BY <1>2, <2>1 DEF SinkKept, SinkFor, Reliable, IsSparse, Running
    <3> QED BY <1>1, <1>4, <3>1
  <2>3. PICK first \in Seq(Byte), rest \in Seq(Byte) :
          /\ first = SubSeq(outbuf, 1, cnt) /\ rest = From(outbuf, cnt + 1)
          /\ first \o rest = outbuf /\ Len(first) = cnt
    BY <1>1, <1>3, Split
  <2>4. first = Fill(Zero, cnt)
    <3>1. \A i \in 1..cnt : first[i] = Zero
      <4>1. \A i \in 1..cnt : first[i] = outbuf[i]
        BY <1>1, <1>3, <2>3
      <4> QED BY <2>1, <4>1 DEF IsSparse
    <3>2. first = [i \in 1..cnt |-> first[i]]
      BY <1>1, <2>3
    <3> QED BY <3>1, <3>2 DEF Fill
  <2>5. Out(output, b, end + cnt) = old \o first
    <3>1. Out(output, b, end + cnt) = Out(output, b, end) \o Fill(Zero, cnt)
      <4>1. b <= end /\ output \in Seq(Byte) /\ cnt \in Nat
        BY <1>1, <1>4
      <4>2. ZerosFollow(output, b, end, cnt)
        BY <2>2, <4>1, ZerosAppend
      <4> QED BY <4>2, Zenon DEF ZerosFollow
    <3> QED BY <1>4, <2>4, <3>1, Zenon
  <2>6. wpos' + pending' = end + cnt
    BY <1>1, <1>4, <2>1
  <2>7. AllSent' = old \o first
    BY <1>6, <2>1, <2>5, <2>6, Zenon
  <2> QED BY <1>7, <2>1, <2>3, <2>7, Zenon
<1>9. ASSUME NEW k \in 1..cnt, Write(k)
      PROVE  /\ AllSent' \in Seq(Byte) /\ outbuf' \in Seq(Byte)
             /\ AllSent' \o outbuf' = old \o outbuf
  <2>1. k \in Nat /\ k <= Len(outbuf)
    BY <1>1, <1>3
  <2>2. PICK first \in Seq(Byte), rest \in Seq(Byte) :
          /\ first = SubSeq(outbuf, 1, k) /\ rest = From(outbuf, k + 1)
          /\ first \o rest = outbuf /\ Len(first) = k
    BY <1>1, <2>1, Split
  <2>3. /\ output' = Overwrite(output, wpos + pending, first) /\ wpos' = wpos + pending + k
        /\ pending' = 0 /\ outbuf' = rest
    BY <1>9, <2>2 DEF Write, EndBlock
  <2>4. wpos' + pending' = end + Len(first)
    BY <1>1, <1>4, <2>1, <2>2, <2>3
  <2>5. Out(Overwrite(output, end, first), b, end + Len(first)) = Out(output, b, end) \o first
    <3>1. b <= end /\ output \in Seq(Byte)
      BY <1>1, <1>4
    <3> QED BY <3>1, OutWrite, Zenon
  <2>6. AllSent' = old \o first
    BY <1>4, <1>6, <2>3, <2>4, <2>5, Zenon
  <2> QED BY <1>7, <2>2, <2>3, <2>6, Zenon
<1>10. CASE WriteInterrupted
  <2>1. wpos' = wpos + pending /\ pending' = 0 /\ output' = output /\ outbuf' = outbuf
    BY <1>10 DEF WriteInterrupted
  <2>2. wpos' + pending' = end
    BY <1>1, <1>4, <2>1
  <2>3. AllSent' = old
    BY <1>4, <1>6, <2>1, <2>2, Zenon
  <2> QED BY <1>1, <2>1, <2>3, Zenon
<1>11. ~WriteExits
  BY DEF WriteExits, Exit
<1> QED BY <1>8, <1>9, <1>10, <1>11 DEF dd_out

-------------------------------------------------------------------------------
(* The conversions, and what the close adds to them.                            *)

(* What unblock has put out: the conversion of the whole records before what it *)
(* still holds.                                                                 *)
UnblockStream(all, rest, size, sent) ==
  \E p \in Seq(Byte), n \in Nat :
    all = p \o rest /\ Len(p) = n * size /\ sent = Whole!Unblocked(p, size)

LEMMA UnblockConverts ==
  ASSUME NEW all \in Seq(Byte), NEW s \in Seq(Byte), NEW size \in Nat, size > 0,
         NEW sent \in Seq(Byte), size <= Len(s), UnblockStream(all, s, size, sent)
  PROVE  UnblockStream(all, From(s, size + 1), size, sent \o Stripped(SubSeq(s, 1, size)))
<1>1. PICK t \in Seq(Byte), r \in Seq(Byte) :
        t = SubSeq(s, 1, size) /\ r = From(s, size + 1) /\ t \o r = s /\ Len(t) = size
  BY Split
<1>2. PICK p \in Seq(Byte), n \in Nat :
        all = p \o s /\ Len(p) = n * size /\ sent = Whole!Unblocked(p, size)
  BY Zenon DEF UnblockStream
<1>3. PICK q \in Seq(Byte) : q = p \o t /\ Len(q) = Len(p) + Len(t)
  BY Joined
<1>4. n + 1 \in Nat /\ Len(q) = (n + 1) * size
  <2>1. PICK a \in Nat : a = n * size /\ (n + 1) * size = a + size
    BY NextBlock
  <2>2. Len(q) = a + size
    <3>1. Len(p) = a /\ Len(t) = size
      BY <1>1, <1>2, <2>1, Zenon
    <3> QED BY <1>3, <3>1, Zenon
  <2>3. n + 1 \in Nat
    OBVIOUS
  <2> QED BY <2>1, <2>2, <2>3, Zenon
<1>5. all = q \o r
  <2>1. all = p \o (t \o r)
    BY <1>1, <1>2, Zenon
  <2>2. @ = (p \o t) \o r
    <3>1. Grouped(p, t, r)
      BY <1>1, Group
    <3> QED BY <3>1, Zenon DEF Grouped
  <2>3. @ = q \o r
    BY <1>3, Zenon
  <2> QED BY <2>1, <2>2, <2>3, Zenon
<1>6. Whole!Unblocked(q, size) = sent \o Stripped(t)
  <2>1. Len(t) >= 1 /\ Len(t) <= size
    BY <1>1
  <2>2. Whole!Unblocked(p \o t, size) = Whole!Unblocked(p, size) \o Whole!UnblockRecord(t)
    BY <1>2, <2>1, UnblockedJoin
  <2>3. Stripped(t) = Whole!UnblockRecord(t)
    BY StrippedIs, Zenon
  <2> QED BY <1>2, <1>3, <2>2, <2>3, Zenon
<1> QED BY <1>1, <1>4, <1>5, <1>6, Zenon DEF UnblockStream

LEMMA UnblockCloses ==
  ASSUME NEW all \in Seq(Byte), NEW s \in Seq(Byte), NEW size \in Nat,
         NEW sent \in Seq(Byte), Len(s) < size, UnblockStream(all, s, size, sent)
  PROVE  Whole!Unblocked(all, size) = IF s = <<>> THEN sent ELSE sent \o Stripped(s)
<1>1. PICK p \in Seq(Byte), n \in Nat :
        all = p \o s /\ Len(p) = n * size /\ sent = Whole!Unblocked(p, size)
  BY Zenon DEF UnblockStream
<1>2. CASE s = <<>>
  <2>1. p \o <<>> = p
    OBVIOUS
  <2> QED BY <1>1, <1>2, <2>1, Zenon
<1>3. CASE s # <<>>
  <2>1. Len(s) >= 1 /\ Len(s) <= size /\ size > 0
    BY <1>3
  <2>2. Whole!Unblocked(p \o s, size) = Whole!Unblocked(p, size) \o Whole!UnblockRecord(s)
    BY <1>1, <2>1, UnblockedJoin
  <2>3. Stripped(s) = Whole!UnblockRecord(s)
    BY StrippedIs, Zenon
  <2> QED BY <1>1, <1>3, <2>2, <2>3, Zenon
<1> QED BY <1>2, <1>3

(* Every conversion.                                                            *)
Stream(kind, dropping, all, rest, size, sent) ==
  /\ kind = "def" => sent = all
  /\ kind = "block" => BlockStream(dropping, all, rest, size, sent)
  /\ kind = "unblock" => UnblockStream(all, rest, size, sent)

(* More input, which the record conversions only append to what they hold.      *)
LEMMA StreamGrows ==
  ASSUME NEW kind \in {"block", "unblock"}, NEW dropping, NEW size, NEW sent,
         NEW all \in Seq(Byte), NEW rest \in Seq(Byte), NEW more \in Seq(Byte),
         Stream(kind, dropping, all, rest, size, sent)
  PROVE  Stream(kind, dropping, all \o more, rest \o more, size, sent)
<1>1. ASSUME NEW p \in Seq(Byte), all = p \o rest PROVE all \o more = p \o (rest \o more)
  <2>1. (p \o rest) \o more = p \o (rest \o more)
    BY Reassociate
  <2> QED BY <1>1, <2>1, Zenon
<1>2. CASE kind = "block" /\ dropping
  <2>1. PICK p \in Seq(Byte), t \in Seq(Byte) :
         /\ all = (p \o t) \o rest /\ Starts(p) /\ ~HasNL(t) /\ size <= Len(t)
         /\ sent = Whole!Blocked(p, size) \o Whole!BlockRecord(t, size)
    BY <1>2, Zenon DEF Stream, BlockStream
  <2>2. all \o more = (p \o t) \o (rest \o more)
    <3>1. p \o t \in Seq(Byte)
      BY Joined, Zenon
    <3> QED BY <1>1, <2>1, <3>1, Zenon
  <2>3. BlockStream(dropping, all \o more, rest \o more, size, sent)
    BY <1>2, <2>1, <2>2, Zenon DEF BlockStream
  <2> QED BY <1>2, <2>3 DEF Stream
<1>3. CASE kind = "block" /\ ~dropping
  <2>1. PICK p \in Seq(Byte) :
         all = p \o rest /\ Starts(p) /\ sent = Whole!Blocked(p, size)
    BY <1>3, Zenon DEF Stream, BlockStream
  <2>2. BlockStream(dropping, all \o more, rest \o more, size, sent)
    BY <1>1, <1>3, <2>1, Zenon DEF BlockStream
  <2> QED BY <1>3, <2>2 DEF Stream
<1>4. CASE kind = "unblock"
  <2>1. PICK p \in Seq(Byte), n \in Nat :
          all = p \o rest /\ Len(p) = n * size /\ sent = Whole!Unblocked(p, size)
    BY <1>4, Zenon DEF Stream, UnblockStream
  <2>2. UnblockStream(all \o more, rest \o more, size, sent)
    BY <1>1, <2>1, Zenon DEF UnblockStream
  <2> QED BY <1>4, <2>2 DEF Stream
<1> QED BY <1>2, <1>3, <1>4

(* The zeros of osync behind the conversion.                                    *)
Finished(sent) ==
  \E n \in Nat : /\ n <= (IF Has("OSYNC") THEN opt.obs ELSE 0)
                 /\ sent = Converted \o Fill(Zero, n)

LEMMA Kinds ==
  /\ cfunc(opt) = "def" <=> ~Records
  /\ cfunc(opt) = "block" <=> Has("BLOCK")
  /\ cfunc(opt) \in {"def", "block", "unblock"}
BY DEF cfunc, Records, Has

(* The close puts out what the conversion of everything read still lacks.       *)
LEMMA ClosesExactly ==
  ASSUME TypeOK, Room, Reliable, pc = "close", NEW sent \in Seq(Byte),
         Stream(cfunc(opt), intrunc, taken, inbuf, opt.cbs,
                sent \o (IF Records THEN outbuf ELSE inbuf)),
         cfunc(opt) = "def" => outbuf = inbuf,
         cfunc(opt) = "block" => IF intrunc THEN inbuf = <<>> ELSE ~HasNL(inbuf)
  PROVE  sent \o Closed = Converted
<1>1. inbuf \in Seq(Byte) /\ outbuf \in Seq(Byte) /\ taken \in Seq(Byte) /\ intrunc \in BOOLEAN
  BY DEF TypeOK, ControlTypes, ByteTypes
<1>2. PICK size \in Nat : size = opt.cbs
  BY DEF TypeOK, ControlTypes, Options
<1>3. Records => Len(inbuf) < size /\ size > 0
  <2>1. RoomFor(Records, opt.obs, opt.ibs, size, pc, ret, force, Len(inbuf), Len(outbuf))
    BY <1>2 DEF Room, Reliable
  <2>2. Records => Len(inbuf) < size
    BY <2>1 DEF RoomFor
  <2>3. Len(inbuf) \in Nat
    BY <1>1
  <2> QED BY <2>2, <2>3
<1>4. \A s \in Seq(Byte) : s \o <<>> = s
  OBVIOUS
<1>5. CASE cfunc(opt) = "def"
  <2>1. ~Records
    BY <1>5, Kinds
  <2>2. sent \o inbuf = taken
    BY <1>5, <2>1 DEF Stream
  <2>3. Closed = inbuf
    BY <1>5 DEF Closed
  <2>4. Converted = taken
    BY <1>5 DEF Converted
  <2> QED BY <2>2, <2>3, <2>4, Zenon
<1>6. CASE cfunc(opt) = "block"
  <2>1. Records
    BY <1>6, Kinds
  <2>2. PICK done \in Seq(Byte) : done = sent \o outbuf
    BY <1>1, Joined
  <2>3. BlockStream(intrunc, taken, inbuf, size, done)
    BY <1>2, <1>6, <2>1, <2>2 DEF Stream
  <2>4. IF intrunc THEN inbuf = <<>> ELSE ~HasNL(inbuf) /\ Len(inbuf) < size
    BY <1>3, <1>6, <2>1
  <2>5. Whole!Blocked(taken, size) =
          IF inbuf = <<>> THEN done ELSE done \o (inbuf \o Fill(Space, size - Len(inbuf)))
    <3>1. size > 0
      BY <1>3, <2>1
    <3>2. LeftOver(intrunc, inbuf, size)
      BY <2>4, Zenon DEF LeftOver
    <3>3. BlockEnds(taken, inbuf, size, done)
      BY <1>1, <2>3, <3>1, <3>2, BlockCloses, Zenon
    <3> QED BY <3>3, Zenon DEF BlockEnds
  <2>6. Converted = Whole!Blocked(taken, size)
    BY <1>2, <1>6 DEF Converted
  <2>7. CASE inbuf = <<>>
    <3>1. Closed = outbuf
      BY <2>7 DEF Closed
    <3> QED BY <2>2, <2>5, <2>6, <2>7, <3>1, Zenon
  <2>8. CASE inbuf # <<>>
    <3>1. Closed = outbuf \o inbuf \o Fill(Space, size - Len(inbuf))
      BY <1>2, <1>6, <2>8 DEF Closed
    <3>2. PICK fill \in Seq(Byte) : fill = Fill(Space, size - Len(inbuf))
      <4>1. size - Len(inbuf) \in Int
        BY <1>1
      <4> QED BY <4>1, FillType, BytesAssumption
    <3>3. Regrouped(sent, outbuf, inbuf, fill)
      BY <1>1, Regroup, Zenon
    <3>4. (sent \o (outbuf \o inbuf)) \o fill = sent \o ((outbuf \o inbuf) \o fill)
      <4>1. PICK x \in Seq(Byte) : x = outbuf \o inbuf
        BY <1>1, Joined
      <4>2. (sent \o x) \o fill = sent \o (x \o fill)
        BY Reassociate
      <4> QED BY <4>1, <4>2, Zenon
    <3> QED BY <2>2, <2>5, <2>6, <2>8, <3>1, <3>2, <3>3, <3>4, Zenon DEF Regrouped
  <2> QED BY <2>7, <2>8
<1>7. CASE cfunc(opt) = "unblock"
  <2>1. Records
    BY <1>7, Kinds
  <2>2. PICK done \in Seq(Byte) : done = sent \o outbuf
    BY <1>1, Joined
  <2>3. UnblockStream(taken, inbuf, size, done)
    BY <1>2, <1>7, <2>1, <2>2 DEF Stream
  <2>5. Whole!Unblocked(taken, size) = IF inbuf = <<>> THEN done ELSE done \o Stripped(inbuf)
    BY <1>1, <1>3, <2>1, <2>3, UnblockCloses
  <2>6. Converted = Whole!Unblocked(taken, size)
    BY <1>2, <1>7 DEF Converted
  <2>7. CASE inbuf = <<>>
    <3>1. Closed = outbuf
      BY <2>7 DEF Closed
    <3> QED BY <2>2, <2>5, <2>6, <2>7, <3>1, Zenon
  <2>8. CASE inbuf # <<>>
    <3>1. Closed = outbuf \o Stripped(inbuf)
      BY <1>7, <2>8 DEF Closed
    <3>2. PICK x \in Seq(Byte) : x = Stripped(inbuf)
      BY <1>1, StrippedType
    <3>3. Converted = (sent \o outbuf) \o x
      BY <2>2, <2>5, <2>6, <2>8, <3>2, Zenon
    <3>4. @ = sent \o (outbuf \o x)
      <4>1. Grouped(sent, outbuf, x)
        BY <1>1, Group
      <4> QED BY <4>1, Zenon DEF Grouped
    <3>5. @ = sent \o Closed
      BY <3>1, <3>2, Zenon
    <3> QED BY <3>3, <3>4, <3>5, Zenon
  <2> QED BY <2>7, <2>8
<1> QED BY <1>5, <1>6, <1>7, Kinds

(* osync adds fewer zeros than a block, or one.                                 *)
LEMMA OSyncFinishes ==
  ASSUME TypeOK, Room, Reliable, ~(Has("OSYNC") /\ Has("BLOCK")), NEW sent \in Seq(Byte),
         sent \o Closed = Converted, Closed \in Seq(Byte), Converted \in Seq(Byte)
  PROVE  Finished(sent \o OSynced)
<1>1. PICK obs \in Nat : obs = opt.obs
  BY DEF TypeOK, ControlTypes, Options
<1>2. PICK n \in Nat, c \in Seq(Byte) : c = Closed /\ n = Len(c)
  OBVIOUS
<1>3. CASE Has("OSYNC") /\ obs - n > 0
  <2>1. PICK m \in Nat : m = obs - n /\ m <= obs
    BY <1>3
  <2>2. ClosedAt = n
    <3>1. cfunc(opt) # "block"
      BY <1>3, Kinds
    <3> QED BY <1>2, <3>1 DEF ClosedAt
  <2>3. OSynced = [i \in 1..obs |-> IF i <= n THEN c[i] ELSE IF i <= n + (obs - n) THEN Zero
                                    ELSE IF i <= n THEN c[i] ELSE Junk]
    <3>1. Len(Closed) = n /\ Closed = c
      BY <1>2
    <3> QED BY <1>1, <1>3, <2>2, <3>1 DEF OSynced
  <2>4. PICK z \in Seq(Byte) : z = Fill(Zero, m) /\ Len(z) = m /\ \A i \in 1..m : z[i] = Zero
    <3>1. Zero \in Byte /\ m \in Int
      BY BytesAssumption
    <3>2. /\ Fill(Zero, m) \in Seq(Byte)
          /\ Len(Fill(Zero, m)) = IF m > 0 THEN m ELSE 0
      BY <3>1, FillType, Zenon
    <3>3. (IF m > 0 THEN m ELSE 0) = m
      OBVIOUS
    <3>4. \A i \in 1..m : Fill(Zero, m)[i] = Zero
      BY DEF Fill
    <3> QED BY <3>2, <3>3, <3>4, Zenon
  <2>5. PICK w \in Seq(Byte) : w = c \o z /\ Len(w) = obs
          /\ (\A i \in 1..n : w[i] = c[i]) /\ (\A i \in 1..m : w[n + i] = z[i])
    <3>1. /\ c \o z \in Seq(Byte) /\ Len(c \o z) = Len(c) + Len(z)
          /\ (\A i \in 1..Len(c) : (c \o z)[i] = c[i])
          /\ (\A i \in 1..Len(z) : (c \o z)[Len(c) + i] = z[i])
      BY Joined
    <3>2. n + m = obs
      BY <2>1
    <3>3. Len(c) = n /\ Len(z) = m
      BY <1>2, <2>4
    <3>4. PICK w \in Seq(Byte) : w = c \o z
      BY <3>1, Zenon
    <3>5. /\ Len(w) = n + m /\ (\A i \in 1..n : w[i] = c[i])
          /\ (\A i \in 1..m : w[n + i] = z[i])
      BY <3>1, <3>3, <3>4, Zenon
    <3> QED BY <3>2, <3>4, <3>5, Zenon
  <2>6. OSynced = w
    <3>1. ASSUME NEW i \in 1..obs
          PROVE  (IF i <= n THEN c[i] ELSE IF i <= n + (obs - n) THEN Zero
                  ELSE IF i <= n THEN c[i] ELSE Junk) = w[i]
      <4>1. CASE i <= n
        BY <2>5, <4>1
      <4>2. CASE i > n
        <5>1. i - n \in 1..m /\ n + (i - n) = i
          BY <2>1, <4>2
        <5>2. w[i] = Zero
          BY <2>4, <2>5, <5>1
        <5> QED BY <4>2, <5>2
      <4> QED BY <4>1, <4>2
    <3>2. w = [i \in 1..obs |-> w[i]]
      <4>1. w = [i \in DOMAIN w |-> w[i]] /\ DOMAIN w = 1..Len(w)
        OBVIOUS
      <4> QED BY <2>5, <4>1, Zenon
    <3> QED BY <2>3, <3>1, <3>2
  <2>7. sent \o w = (sent \o c) \o z
    <3>1. Grouped(sent, c, z)
      BY Group
    <3> QED BY <2>5, <3>1, Zenon DEF Grouped
  <2>8. sent \o OSynced = Converted \o Fill(Zero, m)
    <3>1. sent \o OSynced = (sent \o c) \o z
      BY <2>6, <2>7, Zenon
    <3>2. sent \o c = Converted
      BY <1>2, Zenon
    <3> QED BY <2>4, <3>1, <3>2, Zenon
  <2> QED BY <1>1, <1>3, <2>1, <2>8 DEF Finished
<1>4. CASE ~(Has("OSYNC") /\ obs - n > 0)
  <2>1. OSynced = Closed
    BY <1>1, <1>2, <1>4 DEF OSynced
  <2>2. Converted = Converted \o Fill(Zero, 0)
    <3>1. Fill(Zero, 0) = <<>>
      BY DEF Fill
    <3>2. \A s \in Seq(Byte) : s \o <<>> = s
      OBVIOUS
    <3> QED BY <3>1, <3>2, Zenon
  <2>3. 0 \in Nat /\ 0 <= (IF Has("OSYNC") THEN opt.obs ELSE 0)
    BY <1>1
  <2>4. sent \o OSynced = Converted \o Fill(Zero, 0)
    BY <2>1, <2>2, Zenon
  <2> QED BY <2>3, <2>4, Zenon DEF Finished
<1> QED BY <1>3, <1>4

-------------------------------------------------------------------------------
(* What is put out is the conversion of what was read.                          *)

LEMMA StreamStarts ==
  ASSUME NEW kind, NEW size \in Nat
  PROVE  Stream(kind, FALSE, <<>>, <<>>, size, <<>>)
<1>1. <<>> \in Seq(Byte) /\ Len(<<>>) = 0 /\ <<>> \o <<>> = <<>>
  OBVIOUS
<1>2. Whole!Blocked(<<>>, size) = <<>>
  BY <1>1, BlockedType
<1>3. BlockStream(FALSE, <<>>, <<>>, size, <<>>)
  BY <1>1, <1>2, Zenon DEF BlockStream, Starts
<1>4. Whole!Unblocked(<<>>, size) = <<>>
  <2>1. PICK f : UnblockFrom(<<>>, size, f)
    BY <1>1, UnblockFromExists
  <2>2. Whole!Unblocked(<<>>, size) = f[Len(<<>>)]
    BY <1>1, <2>1, UnblockedIs
  <2>3. f[0] = <<>>
    BY <1>1, <2>1 DEF UnblockFrom, NextStep
  <2> QED BY <1>1, <2>2, <2>3
<1>5. UnblockStream(<<>>, <<>>, size, <<>>)
  <2>1. 0 \in Nat /\ 0 = 0 * size
    OBVIOUS
  <2> QED BY <1>1, <1>4, <2>1, Zenon DEF UnblockStream
<1> QED BY <1>3, <1>5 DEF Stream

(* The inductive form of the conversion: what was put out and what the output   *)
(* buffer holds are the conversion of what was read without what the input      *)
(* buffer still holds.                                                          *)
Trusted == Reliable /\ ~(Has("OSYNC") /\ Has("BLOCK"))
Buffered == IF Records \/ pc = "out" THEN outbuf ELSE inbuf
Converting == Stream(cfunc(opt), intrunc, taken, inbuf, opt.cbs, AllSent \o Buffered)

StreamKept ==
  Trusted =>
    /\ pc \in {"jcl", "setup"} => taken = <<>> /\ inbuf = <<>> /\ outbuf = <<>> /\ ~intrunc
    /\ pc \in {"read", "conv", "close"} \/ (pc = "out" /\ ret # "exit") => Converting
    /\ pc \in {"read", "close"} =>
         /\ cfunc(opt) = "def" => outbuf = inbuf
         /\ cfunc(opt) = "block" => IF intrunc THEN inbuf = <<>> ELSE ~HasNL(inbuf)
    /\ pc = "out" /\ ret = "exit" => Finished(AllSent \o outbuf)
    /\ pc \in {"exit", "done"} => Finished(AllSent)

(* A block has been read.                                                       *)
LEMMA StreamAccepts ==
  ASSUME TypeOK, Room, SinkKept, Trusted, StreamKept, pc = "read",
         opt' = opt, Base' = Base, Records' = Records,
         NEW new \in Seq(Byte), Accept(new)
  PROVE  StreamKept'
<1>1. PICK old \in Seq(Byte), in \in Seq(Byte), all \in Seq(Byte),
           kind \in {"def", "block", "unblock"}, size \in Nat :
        /\ old = AllSent /\ in = inbuf /\ all = taken /\ kind = cfunc(opt) /\ size = opt.cbs
  <2>1. inbuf \in Seq(Byte) /\ taken \in Seq(Byte) /\ opt.cbs \in Nat
    BY DEF TypeOK, ControlTypes, ByteTypes, Options
  <2>2. AllSent \in Seq(Byte)
    BY SentSoFar DEF Trusted, Running
  <2> QED BY <2>1, <2>2, Kinds
<1>2. /\ AllSent' = old /\ taken' = all \o new /\ intrunc' = intrunc
      /\ cfunc(opt)' = kind /\ opt'.cbs = size
  <2>1. UNCHANGED <<output, wpos, pending, intrunc>> /\ taken' = all \o new
    BY <1>1 DEF Accept
  <2> QED BY <1>1, <2>1 DEF AllSent
<1>3. Stream(kind, intrunc, all, in, size, old \o Buffered)
  BY <1>1 DEF StreamKept, Converting
<1>4. PICK more \in Seq(Byte) : more = in \o new
  BY Joined
<1>5. \/ /\ Has("BS") /\ pc' = "out" /\ ret' = "read" /\ outbuf' = more /\ inbuf' = <<>>
      \/ ~Has("BS") /\ pc' = "conv" /\ outbuf' = outbuf /\ inbuf' = more
  BY <1>1, <1>4 DEF Accept, StartOut
<1>6. kind \in {"def", "block", "unblock"} /\ (kind = "def" <=> ~Records)
  BY <1>1, Kinds
<1>7. Stream(kind, intrunc, all \o new, inbuf', size, old \o Buffered')
  <2>1. CASE kind = "def"
    <3>1. ~Records /\ Buffered = in
      BY <1>1, <1>6, <2>1 DEF Buffered
    <3>2. old \o in = all
      BY <1>3, <2>1, <3>1 DEF Stream
    <3>3. old \o (in \o new) = (old \o in) \o new
      <4>1. Grouped(old, in, new)
        BY <1>1, Group
      <4> QED BY <4>1, Zenon DEF Grouped
    <3>4. Buffered' = more
      BY <1>5, <3>1 DEF Buffered
    <3>5. old \o Buffered' = all \o new
      BY <1>4, <3>2, <3>3, <3>4, Zenon
    <3> QED BY <2>1, <3>5 DEF Stream
  <2>2. CASE kind \in {"block", "unblock"}
    <3>1. Records
      BY <1>6, <2>2
    <3>2. ~Has("BS")
      BY <3>1 DEF Room, SoundOptions, Records, Has, Trusted, Reliable
    <3>3. Buffered = outbuf /\ Buffered' = outbuf
      BY <1>5, <3>1, <3>2 DEF Buffered
    <3>4. Stream(kind, intrunc, all, in, size, old \o outbuf)
      BY <1>3, <3>3, Zenon
    <3>5. Stream(kind, intrunc, all \o new, in \o new, size, old \o outbuf)
      BY <2>2, <3>4, StreamGrows, Zenon
    <3> QED BY <1>4, <1>5, <3>2, <3>3, <3>5, Zenon
  <2> QED BY <1>6, <2>1, <2>2
<1>8. Converting'
  BY <1>2, <1>7, Zenon DEF Converting
<1> QED BY <1>5, <1>8 DEF StreamKept

(* A record, or the rest of one, is converted.                                  *)
LEMMA StreamConverts ==
  ASSUME TypeOK, Room, SinkKept, Trusted, StreamKept, convert,
         opt' = opt, Base' = Base, Records' = Records
  PROVE  StreamKept'
<1>1. PICK old \in Seq(Byte), in \in Seq(Byte), all \in Seq(Byte), out \in Seq(Byte),
           size \in Nat :
        /\ old = AllSent /\ in = inbuf /\ all = taken /\ out = outbuf /\ size = opt.cbs
        /\ pc = "conv"
  <2>1. pc = "conv"
    BY DEF convert, def, blockDrop, block, unblock, ConvReturns
  <2>2. inbuf \in Seq(Byte) /\ taken \in Seq(Byte) /\ outbuf \in Seq(Byte) /\ opt.cbs \in Nat
    BY DEF TypeOK, ControlTypes, ByteTypes, Options
  <2>3. AllSent \in Seq(Byte)
    BY <2>1, SentSoFar DEF Trusted, Running
  <2> QED BY <2>1, <2>2, <2>3
<1>2. AllSent' = old /\ taken' = all /\ opt'.cbs = size /\ cfunc(opt)' = cfunc(opt)
  <2>1. UNCHANGED <<output, wpos, pending, taken>>
    BY DEF convert, def, blockDrop, block, unblock, ConvReturns, sink, source
  <2> QED BY <1>1, <2>1 DEF AllSent
<1>3. Stream(cfunc(opt), intrunc, all, in, size, old \o Buffered)
  BY <1>1 DEF StreamKept, Converting
<1>4. opt \in Options /\ intrunc \in BOOLEAN
  BY DEF TypeOK, ControlTypes
<1>5. CASE def
  <2>1. /\ cfunc(opt) = "def" /\ UNCHANGED <<inbuf, intrunc>> /\ outbuf' = in
        /\ (pc' = "out" /\ ret' = "read") \/ pc' = "read"
    BY <1>1, <1>5 DEF def, StartOut, source
  <2>2. ~Records
    BY <2>1, Kinds
  <2>3. Buffered = in /\ Buffered' = in
    BY <1>1, <2>1, <2>2 DEF Buffered
  <2>4. Converting'
    BY <1>1, <1>2, <1>3, <2>1, <2>3, Zenon DEF Converting
  <2> QED BY <1>1, <1>2, <2>1, <2>4 DEF StreamKept
<1>6. CASE blockDrop
  <2>1. /\ cfunc(opt) = "block" /\ intrunc /\ inbuf' = AfterNL(in) /\ intrunc' = ~HasNL(in)
        /\ outbuf' = out /\ pc' = (IF intrunc' THEN "read" ELSE "conv")
    BY <1>1, <1>6 DEF blockDrop, sink
  <2>2. Records
    BY <2>1, Kinds
  <2>3. Buffered = out /\ Buffered' = out
    BY <1>1, <2>1, <2>2 DEF Buffered
  <2>4. PICK sent \in Seq(Byte) : sent = old \o out
    BY Joined
  <2>5. BlockStream(TRUE, all, in, size, sent)
    <3>1. BlockStream(intrunc, all, in, size, sent)
      BY <1>3, <2>1, <2>3, <2>4, Zenon DEF Stream
    <3>2. intrunc = TRUE
      BY <1>4, <2>1
    <3> QED BY <3>1, <3>2, Zenon
  <2>6. BlockStream(~HasNL(in), all, AfterNL(in), size, sent)
    BY <2>5, BlockDrops, Zenon
  <2>7. Converting'
    <3>1. BlockStream(intrunc', all, inbuf', size, sent)
      BY <2>1, <2>6, Zenon
    <3>2. Stream(cfunc(opt), intrunc', all, inbuf', size, sent)
      BY <2>1, <3>1 DEF Stream
    <3> QED BY <1>1, <1>2, <2>3, <2>4, <3>2, Zenon DEF Converting
  <2>8. intrunc' => inbuf' = <<>>
    BY <2>1, AfterNLType
  <2> QED BY <1>2, <2>1, <2>7, <2>8 DEF StreamKept
<1>7. CASE block
  <2> DEFINE n == RecordLen(in)
             rest == From(in, n + 1)
             first == SubSeq(in, 1, n)
             fill == Fill(Space, size - n)
  <2>1. /\ cfunc(opt) = "block" /\ ~intrunc /\ (HasNL(in) \/ Len(in) >= opt.cbs)
        /\ inbuf' = (IF n < size THEN Tail(rest) ELSE AfterNL(rest))
        /\ intrunc' = (n = size /\ ~HasNL(rest))
        /\ outbuf' = out \o first \o fill
        /\ pc' = "conv" \/ (pc' = "out" /\ ret' = "conv")
    BY <1>1, <1>7 DEF block, AfterRecord, RecordAdded, StartOut
  <2>2. Records
    BY <2>1, Kinds
  <2>3. Buffered = out /\ Buffered' = outbuf'
    BY <1>1, <2>2 DEF Buffered
  <2>4. PICK sent \in Seq(Byte) : sent = old \o out
    BY Joined
  <2>5. BlockStream(FALSE, all, in, opt.cbs, sent)
    <3>1. BlockStream(intrunc, all, in, size, sent)
      BY <1>3, <2>1, <2>3, <2>4, Zenon DEF Stream
    <3>2. intrunc = FALSE
      BY <1>4, <2>1
    <3> QED BY <1>1, <3>1, <3>2, Zenon
  <2>6. BlockStream(n = opt.cbs /\ ~HasNL(rest), all,
                    IF n < opt.cbs THEN Tail(rest) ELSE AfterNL(rest), opt.cbs,
                    sent \o (first \o Fill(Space, opt.cbs - n)))
    <3>1. HasNL(in) \/ Len(in) >= opt.cbs
      BY <2>1
    <3> QED BY <1>4, <2>5, <3>1, BlockConverts, Zenon
  <2>7. sent \o (first \o fill) = old \o outbuf'
    <3>1. first \in Seq(Byte)
      <4>1. n \in Nat /\ n <= Len(in)
        BY <1>4, RecordLenType
      <4> QED BY <4>1, Split
    <3>2. fill \in Seq(Byte)
      <4>1. n \in Nat
        BY <1>4, RecordLenType
      <4>2. size - n \in Int /\ Space \in Byte
        BY <4>1, BytesAssumption
      <4> QED BY <4>2, FillType, Zenon
    <3> HIDE DEF first, fill
    <3>3. Regrouped(old, out, first, fill)
      BY <3>1, <3>2, Regroup, Zenon
    <3>4. (old \o (out \o first)) \o fill = old \o ((out \o first) \o fill)
      <4>1. PICK x \in Seq(Byte) : x = out \o first
        BY <3>1, Joined
      <4>2. PICK y \in Seq(Byte) : y = fill
        BY <3>2
      <4>3. Grouped(old, x, y)
        BY Group, Zenon
      <4> QED BY <4>1, <4>2, <4>3, Zenon DEF Grouped
    <3>5. outbuf' = (out \o first) \o fill
      BY <2>1
    <3> QED BY <2>4, <3>3, <3>4, <3>5, Zenon DEF Regrouped
  <2> HIDE DEF n, rest, first
  <2>8. Converting'
    <3>1. BlockStream(intrunc', all, inbuf', size, old \o outbuf')
      BY <1>1, <2>1, <2>6, <2>7, Zenon
    <3>2. Stream(cfunc(opt), intrunc', all, inbuf', size, old \o outbuf')
      BY <2>1, <3>1 DEF Stream
    <3> QED BY <1>1, <1>2, <2>3, <3>2, Zenon DEF Converting
  <2> QED BY <2>1, <2>8 DEF StreamKept
<1>8. CASE unblock
  <2> DEFINE record == Stripped(SubSeq(in, 1, size))
  <2>1. /\ cfunc(opt) = "unblock" /\ Len(in) >= size /\ inbuf' = From(in, size + 1)
        /\ intrunc' = intrunc /\ outbuf' = out \o record
        /\ pc' = "conv" \/ (pc' = "out" /\ ret' = "conv")
    BY <1>1, <1>8 DEF unblock, RecordAdded, StartOut
  <2>2. Records
    BY <2>1, Kinds
  <2>3. Buffered = out /\ Buffered' = outbuf'
    BY <1>1, <2>2 DEF Buffered
  <2>4. PICK sent \in Seq(Byte) : sent = old \o out
    BY Joined
  <2>5. UnblockStream(all, in, size, sent)
    BY <1>3, <2>1, <2>3, <2>4, Zenon DEF Stream
  <2>6. size > 0
    BY <1>1, <2>2 DEF Room, Sized, Records, Has, Trusted, Reliable
  <2>7. UnblockStream(all, From(in, size + 1), size, sent \o record)
    BY <2>1, <2>5, <2>6, UnblockConverts
  <2>8. sent \o record = old \o outbuf'
    <3>1. SubSeq(in, 1, size) \in Seq(Byte)
      BY <2>1, Split
    <3>2. record \in Seq(Byte)
      BY <3>1, StrippedType
    <3> HIDE DEF record
    <3>3. (old \o out) \o record = old \o (out \o record)
      <4>1. Grouped(old, out, record)
        BY <1>1, <3>2, Group
      <4> QED BY <4>1, Zenon DEF Grouped
    <3> QED BY <2>1, <2>4, <3>3, Zenon
  <2> HIDE DEF record
  <2>9. Converting'
    <3>1. UnblockStream(all, inbuf', size, old \o outbuf')
      BY <2>1, <2>7, <2>8, Zenon
    <3>2. Stream(cfunc(opt), intrunc', all, inbuf', size, old \o outbuf')
      BY <2>1, <3>1 DEF Stream
    <3> QED BY <1>1, <1>2, <2>3, <3>2, Zenon DEF Converting
  <2> QED BY <2>1, <2>9 DEF StreamKept
<1>9. CASE ConvReturns
  <2>1. /\ pc' = "read" /\ UNCHANGED <<inbuf, intrunc, outbuf>>
        /\ \/ cfunc(opt) = "block" /\ ~intrunc /\ (in = <<>> \/ ~HasNL(in))
           \/ cfunc(opt) = "unblock"
    BY <1>1, <1>9 DEF ConvReturns, source, sink
  <2>2. Records
    BY <2>1, Kinds
  <2>3. Buffered' = Buffered
    BY <2>1, <2>2 DEF Buffered
  <2>4. Converting'
    BY <1>1, <1>2, <1>3, <2>1, <2>3, Zenon DEF Converting
  <2>5. ~HasNL(<<>>)
    BY DEF HasNL
  <2> QED BY <1>1, <1>2, <2>1, <2>4, <2>5 DEF StreamKept
<1> QED BY <1>5, <1>6, <1>7, <1>8, <1>9 DEF convert

(* How dd_out goes on or returns.                                               *)
LEMMA OutReturns ==
  ASSUME TypeOK, OutHolds, dd_out, pc' # "failed"
  PROVE  /\ pc = "out" /\ UNCHANGED <<taken, intrunc, force, ret>>
         /\ \/ pc' = "out" /\ inbuf' = inbuf
            \/ /\ pc' = ret /\ (force => outbuf' = <<>>)
               /\ inbuf' = (IF cfunc(opt) = "def" /\ ~force THEN outbuf' ELSE inbuf)
<1>1. pc = "out" /\ outbuf \in Seq(Byte) /\ cnt \in Nat
  BY DEF dd_out, SkipSparse, Write, WriteInterrupted, WriteExits, TypeOK, NumberTypes, ByteTypes
<1>2. UNCHANGED <<taken, intrunc, force, ret>>
  BY DEF dd_out, SkipSparse, Write, WriteInterrupted, WriteExits, Exit, source
<1>3. force => cnt = Len(outbuf)
  BY <1>1 DEF OutHolds
<1>4. ASSUME EndBlock(From(outbuf, cnt + 1))
      PROVE  \/ pc' = "out" /\ inbuf' = inbuf
             \/ /\ pc' = ret /\ (force => outbuf' = <<>>)
                /\ inbuf' = (IF cfunc(opt) = "def" /\ ~force THEN outbuf' ELSE inbuf)
  <2>1. force => From(outbuf, cnt + 1) = <<>>
    BY <1>1, <1>3 DEF From
  <2>2. outbuf' = From(outbuf, cnt + 1)
    BY <1>4 DEF EndBlock
  <2>3. \/ pc' = "out" /\ inbuf' = inbuf
        \/ /\ pc' = ret
           /\ inbuf' = (IF cfunc(opt) = "def" /\ ~force THEN outbuf' ELSE inbuf)
    BY <1>1, <1>4, <2>2 DEF EndBlock
  <2> QED BY <2>1, <2>2, <2>3
<1>5. CASE SkipSparse
  BY <1>1, <1>2, <1>4, <1>5 DEF SkipSparse
<1>6. ASSUME NEW k \in 1..cnt, Write(k)
      PROVE  \/ EndBlock(From(outbuf, cnt + 1))
             \/ pc' = "out" /\ inbuf' = inbuf
  BY <1>1, <1>6 DEF Write
<1>7. CASE WriteInterrupted
  BY <1>1, <1>2, <1>7 DEF WriteInterrupted, source
<1>8. ~WriteExits
  BY DEF WriteExits, Exit
<1> QED BY <1>1, <1>2, <1>4, <1>5, <1>6, <1>7, <1>8 DEF dd_out

LEMMA StreamGoesOut ==
  ASSUME TypeOK, OutHolds, Room, SinkKept, Trusted, StreamKept, dd_out, pc' # "failed",
         opt' = opt, Base' = Base, Records' = Records, \A flag : Has(flag)' <=> Has(flag)
  PROVE  StreamKept'
<1>1. PICK all \in Seq(Byte), in \in Seq(Byte), out \in Seq(Byte), old \in Seq(Byte),
           now \in Seq(Byte), left \in Seq(Byte) :
        /\ all = taken /\ in = inbuf /\ out = outbuf /\ old = AllSent
        /\ now = AllSent' /\ left = outbuf' /\ now \o left = old \o out
  <2>1. /\ AllSent \in Seq(Byte) /\ AllSent' \in Seq(Byte) /\ outbuf' \in Seq(Byte)
        /\ AllSent' \o outbuf' = AllSent \o outbuf
    BY OutMoves DEF Trusted
  <2>2. taken \in Seq(Byte) /\ inbuf \in Seq(Byte) /\ outbuf \in Seq(Byte)
    BY DEF TypeOK, ByteTypes
  <2> QED BY <2>1, <2>2
<1>2. /\ pc = "out" /\ taken' = all /\ UNCHANGED <<intrunc, force, ret>>
      /\ \/ pc' = "out" /\ inbuf' = in
         \/ /\ pc' = ret /\ (force => left = <<>>)
            /\ inbuf' = (IF cfunc(opt) = "def" /\ ~force THEN left ELSE in)
  BY <1>1, OutReturns
<1>3. cfunc(opt') = cfunc(opt) /\ Converted' = Converted
  BY <1>1, <1>2 DEF Converted
<1>4. ret \in {"read", "conv", "exit"}
  BY DEF TypeOK, ControlTypes
<1>5. /\ ret = "exit" => force
      /\ ret = "read" => ~Records /\ (force => in = <<>>)
      /\ ret = "conv" => Records
  <2>1. RoomFor(Records, opt.obs, opt.ibs, opt.cbs, pc, ret, force, Len(inbuf), Len(outbuf))
    BY DEF Room, Trusted, Reliable
  <2>2. /\ ret = "exit" => force
        /\ ret = "read" => ~Records /\ (force => Len(inbuf) = 0)
        /\ ret = "conv" => Records
    BY <1>2, <2>1 DEF RoomFor
  <2>3. Len(in) = 0 => in = <<>>
    OBVIOUS
  <2> QED BY <1>1, <2>2, <2>3
<1>6. CASE ret = "exit"
  <2>1. Finished(old \o out)
    BY <1>1, <1>2, <1>6 DEF StreamKept
  <2>2. Finished(now \o left)'
    <3>1. Finished(now \o left)
      BY <1>1, <2>1, Zenon
    <3> QED BY <1>3, <3>1 DEF Finished
  <2>3. CASE pc' = "out"
    BY <1>1, <1>2, <1>6, <2>2, <2>3 DEF StreamKept
  <2>4. CASE pc' = "exit"
    <3>1. left = <<>>
      BY <1>2, <1>5, <1>6, <2>4
    <3>2. now \o <<>> = now
      OBVIOUS
    <3>3. Finished(now)'
      BY <2>2, <3>1, <3>2, Zenon
    <3>4. Finished(AllSent)'
      BY <1>1, <3>3, Zenon
    <3> QED BY <2>4, <3>4 DEF StreamKept
  <2> QED BY <1>2, <1>6, <2>3, <2>4
<1>7. CASE ret # "exit"
  <2>1. Stream(cfunc(opt), intrunc, all, in, opt.cbs, now \o left)
    <3>1. Buffered = out
      BY <1>1, <1>2 DEF Buffered
    <3>2. Converting
      BY <1>2, <1>7 DEF StreamKept
    <3> QED BY <1>1, <3>1, <3>2, Zenon DEF Converting
  <2>2. Stream(cfunc(opt), intrunc, all, inbuf', opt.cbs, now \o left)
    <3>1. CASE cfunc(opt) = "def"
      BY <2>1, <3>1 DEF Stream
    <3>2. CASE cfunc(opt) # "def"
      BY <1>2, <2>1, <3>2
    <3> QED BY <3>1, <3>2
  <2>3. Buffered' = left
    <3>1. CASE Records \/ pc' = "out"
      BY <1>1, <3>1 DEF Buffered
    <3>2. CASE ~Records /\ pc' # "out"
      <4>1. Buffered' = inbuf'
        BY <3>2 DEF Buffered
      <4>2. cfunc(opt) = "def"
        BY <3>2, Kinds
      <4>3. ret = "read"
        BY <1>4, <1>5, <1>7, <3>2
      <4> QED BY <1>2, <1>5, <3>2, <4>1, <4>2, <4>3
    <3> QED BY <3>1, <3>2
  <2>4. Converting'
    BY <1>1, <1>2, <1>3, <2>2, <2>3, Zenon DEF Converting
  <2>5. pc' \in {"out", "conv"} \/ (pc' = "read" /\ cfunc(opt) = "def" /\ outbuf' = inbuf')
    <3>1. CASE pc' # "out" /\ ret = "read"
      <4>1. cfunc(opt) = "def"
        BY <1>5, <3>1, Kinds
      <4> QED BY <1>1, <1>2, <1>5, <3>1, <4>1
    <3> QED BY <1>2, <1>4, <1>7, <3>1
  <2> QED BY <1>2, <1>3, <1>7, <2>4, <2>5 DEF StreamKept
<1> QED BY <1>6, <1>7

LEMMA StreamEnds ==
  ASSUME TypeOK, Room, SinkKept, Trusted, StreamKept, dd_close,
         opt' = opt, Base' = Base, Records' = Records, \A flag : Has(flag)' <=> Has(flag)
  PROVE  StreamKept'
<1>1. /\ pc = "close" /\ UNCHANGED <<taken, output, wpos>>
  BY DEF dd_close
<1>2. pc \in Running /\ Reliable
  BY <1>1 DEF Running, Trusted
<1>3. PICK old \in Seq(Byte) : old = AllSent
  BY <1>2, SentSoFar
<1>4. OSynced \in Seq(Byte) /\ Closed \in Seq(Byte)
  <2>1. opt \in Options /\ inbuf \in Seq(Byte) /\ outbuf \in Seq(Byte)
    BY DEF TypeOK, ControlTypes, ByteTypes
  <2> QED BY <2>1, ClosedType
<1>5. old \o Closed = Converted
  <2>1. Stream(cfunc(opt), intrunc, taken, inbuf, opt.cbs,
               old \o (IF Records THEN outbuf ELSE inbuf))
    <3>1. Buffered = IF Records THEN outbuf ELSE inbuf
      BY <1>1 DEF Buffered
    <3>2. Converting
      BY <1>1 DEF StreamKept
    <3> QED BY <1>3, <3>1, <3>2, Zenon DEF Converting
  <2>2. /\ cfunc(opt) = "def" => outbuf = inbuf
        /\ cfunc(opt) = "block" => IF intrunc THEN inbuf = <<>> ELSE ~HasNL(inbuf)
    BY <1>1 DEF StreamKept
  <2> QED BY <1>1, <1>2, <2>1, <2>2, ClosesExactly
<1>6. Finished(old \o OSynced)
  <2>1. Converted \in Seq(Byte)
    BY <1>4, <1>5, Joined, Zenon
  <2> QED BY <1>2, <1>4, <1>5, <2>1, OSyncFinishes DEF Trusted
<1>7. ASSUME NEW s, Finished(s) PROVE Finished(s)'
  <2>1. Converted' = Converted
    BY <1>1 DEF Converted
  <2> QED BY <1>7, <2>1 DEF Finished
<1>8. \A s \in Seq(Byte) : s \o <<>> = s
  OBVIOUS
<1>9. CASE OSynced = <<>> /\ pending # 0
  <2>1. /\ pc' = "out" /\ ret' = "exit" /\ outbuf' = Fill(Zero, opt.obs)
        /\ pending' = pending - opt.obs
    BY <1>9 DEF dd_close, StartOut
  <2>2. PICK obs \in Nat, b \in Nat, f \in Seq(Byte) : obs = opt.obs /\ b = Base /\ f = output
    BY BaseType DEF TypeOK, ByteTypes
  <2>3. /\ b <= wpos /\ pending >= obs /\ Len(f) <= wpos /\ wpos \in Nat /\ pending \in Nat
    <3>1. SinkFor(Has("SPARSE"), b, obs, pc, force, cnt, IsSparse, Len(f), wpos, pending, bytes)
      BY <1>2, <2>2 DEF SinkKept, Reliable
    <3>2. b <= wpos /\ (pending = 0 \/ pending >= obs)
          /\ (IF Has("SPARSE") THEN Len(f) <= wpos ELSE pending = 0)
      BY <1>1, <3>1 DEF SinkFor
    <3> QED BY <1>2, <1>9, <3>2, SentSoFar
  <2>4. PICK end \in Nat : end = wpos + pending - obs /\ b <= end /\ Len(f) <= end
    BY <2>3
  <2>5. /\ Fill(Zero, obs) \in Seq(Byte)
        /\ Out(f, b, end + obs) = Out(f, b, end) \o Fill(Zero, obs)
    <3>1. ZerosFollow(f, b, end, obs)
      BY <2>4, ZerosAppend
    <3> QED BY <3>1, Zenon DEF ZerosFollow
  <2>6. wpos + pending = end + obs /\ wpos' + pending' = end
    <3>1. wpos' = wpos /\ pending' = pending - obs
      BY <1>1, <2>1, <2>2, Zenon
    <3>2. PICK w \in Nat, q \in Nat : w = wpos /\ q = pending
      BY <2>3, Zenon
    <3>3. end = w + q - obs
      BY <2>4, <3>2, Zenon
    <3>4. w + q = end + obs /\ w + (q - obs) = end
      BY <3>3
    <3> QED BY <3>1, <3>2, <3>4, Zenon
  <2>7. old = Out(f, b, end + obs)
    BY <1>3, <2>2, <2>6 DEF AllSent
  <2>8. AllSent' = Out(f, b, end)
    BY <1>1, <2>2, <2>6 DEF AllSent
  <2>9. AllSent' \o outbuf' = old
    <3>1. outbuf' = Fill(Zero, obs)
      BY <2>1, <2>2, Zenon
    <3>2. AllSent' \o outbuf' = Out(f, b, end) \o Fill(Zero, obs)
      BY <2>8, <3>1, Zenon
    <3> QED BY <2>5, <2>7, <3>2, Zenon
  <2>10. Finished(AllSent \o outbuf)'
    <3>1. Finished(old)
      BY <1>6, <1>8, <1>9, Zenon
    <3>2. Finished(old)'
      BY <1>7, <3>1, Zenon
    <3> QED BY <2>9, <3>2, Zenon
  <2> QED BY <2>1, <2>10 DEF StreamKept
<1>10. CASE ~(OSynced = <<>> /\ pending # 0)
  <2>1. /\ pending' = pending
        /\ \/ pc' = "exit" /\ OSynced = <<>>
           \/ pc' = "out" /\ ret' = "exit" /\ outbuf' = OSynced
    BY <1>10 DEF dd_close, StartOut
  <2>2. AllSent' = old
    BY <1>1, <1>3, <2>1 DEF AllSent
  <2>3. CASE pc' = "exit"
    <3>1. Finished(old)
      BY <1>6, <1>8, <2>1, <2>3, Zenon
    <3>2. Finished(AllSent)'
      BY <1>7, <2>2, <3>1, Zenon
    <3> QED BY <2>3, <3>2 DEF StreamKept
  <2>4. CASE pc' = "out"
    <3>1. PICK last \in Seq(Byte) : last = OSynced
      BY <1>4
    <3>2. outbuf' = last /\ ret' = "exit"
      BY <2>1, <2>4, <3>1
    <3>3. Finished(old \o last)'
      BY <1>6, <1>7, <3>1, Zenon
    <3>4. Finished(AllSent \o outbuf)'
      BY <2>2, <3>2, <3>3, Zenon
    <3> QED BY <2>4, <3>2, <3>4 DEF StreamKept
  <2> QED BY <2>1, <2>3, <2>4
<1> QED BY <1>9, <1>10

LEMMA StreamNext ==
  ASSUME TypeOK, OutHolds, Room, SinkKept, StreamKept, Next
  PROVE  StreamKept'
<1>1. SUFFICES ASSUME Trusted' PROVE StreamKept'
  BY DEF StreamKept
<1>2. /\ opt' = opt /\ Base' = Base /\ Records' = Records /\ (\A flag : Has(flag)' <=> Has(flag))
      /\ Reliable
  BY <1>1, ReliableFixed DEF Trusted
<1>3. Trusted
  BY <1>1, <1>2 DEF Trusted
<1>4. SUFFICES ASSUME pc' # "failed" PROVE StreamKept'
  BY DEF StreamKept
<1>5. CASE jclExits \/ jclReturns \/ setupExits
  <2>1. pc = "jcl" /\ pc' = "setup" /\ UNCHANGED <<taken, inbuf, outbuf, intrunc>>
    BY <1>3, <1>4, <1>5 DEF jclExits, jclReturns, setupExits, Exit, source, sink, Trusted, Reliable
  <2> QED BY <1>3, <2>1 DEF StreamKept
<1>6. CASE setup
  <2>1. /\ pc = "setup" /\ pc' = "read" /\ wpos' = Base
        /\ UNCHANGED <<pending, taken, inbuf, outbuf, intrunc>>
    BY <1>6 DEF setup, Base
  <2>2. taken = <<>> /\ inbuf = <<>> /\ outbuf = <<>> /\ ~intrunc /\ pending = 0
    BY <1>2, <1>3, <2>1 DEF StreamKept, SinkKept, Reliable
  <2>3. intrunc = FALSE
    BY <2>2 DEF TypeOK, ControlTypes
  <2>4. AllSent' = <<>>
    <3>1. PICK b \in Nat : b = Base
      BY BaseType
    <3>2. output' \in Seq(Byte)
      BY ByteTypesNext DEF ByteTypes
    <3>3. AllSent' = Out(output', b, b)
      <4>1. wpos' + pending' = b
        BY <2>1, <2>2, <3>1
      <4> QED BY <1>2, <3>1, <4>1 DEF AllSent
    <3> QED BY <3>2, <3>3, OutNothing
  <2>5. PICK size \in Nat : size = opt.cbs
    BY DEF TypeOK, ControlTypes, Options
  <2>6. Buffered' = <<>> /\ <<>> \o <<>> = <<>>
    BY <2>1, <2>2 DEF Buffered
  <2>7. Stream(cfunc(opt), FALSE, <<>>, <<>>, size, <<>>)
    BY StreamStarts
  <2>8. Converting'
    BY <1>2, <2>1, <2>2, <2>3, <2>4, <2>5, <2>6, <2>7, Zenon DEF Converting
  <2>9. ~HasNL(<<>>)
    BY DEF HasNL
  <2> QED BY <2>1, <2>2, <2>8, <2>9 DEF StreamKept
<1>7. CASE dd_in
  <2>1. ASSUME NEW chunk \in Seq(Byte), Len(chunk) <= opt.ibs, Accept(Padded(chunk)),
               pc = "read"
        PROVE  StreamKept'
    <3>1. PICK new \in Seq(Byte) : new = Padded(chunk)
      BY <2>1, PaddedType DEF TypeOK, ControlTypes
    <3> QED BY <1>2, <1>3, <2>1, <3>1, StreamAccepts
  <2>2. ASSUME pc = "read", pc' \in {"read", "close"}, UNCHANGED <<source, sink>> \/
               UNCHANGED <<inbuf, intrunc, taken, sink>>
        PROVE  StreamKept'
    <3>1. UNCHANGED <<inbuf, intrunc, taken, output, wpos, pending, outbuf>>
      BY <2>2 DEF source, sink
    <3>2. AllSent' = AllSent /\ Buffered' = Buffered
      BY <1>2, <2>2, <3>1 DEF AllSent, Buffered
    <3>3. Converting
      BY <1>3, <2>2 DEF StreamKept
    <3>4. Converting'
      BY <1>2, <3>1, <3>2, <3>3, Zenon DEF Converting
    <3>5. /\ cfunc(opt) = "def" => outbuf = inbuf
          /\ cfunc(opt) = "block" => IF intrunc THEN inbuf = <<>> ELSE ~HasNL(inbuf)
      BY <1>3, <2>2 DEF StreamKept
    <3> QED BY <1>2, <2>2, <3>1, <3>4, <3>5 DEF StreamKept
  <2>3. ASSUME NEW k \in 1..Least(opt.ibs, Remaining), Read(k) PROVE StreamKept'
    BY <2>1, <2>3, ReadChunk DEF Read
  <2>4. CASE ReadError
    <3>1. <<>> \in Seq(Byte) /\ Len(<<>>) <= opt.ibs
      BY DEF TypeOK, ControlTypes, Options
    <3>2. Accept(Padded(<<>>)) \/ (pc' = pc /\ UNCHANGED <<inbuf, intrunc, taken, sink>>)
      BY <2>4 DEF ReadError
    <3>3. pc = "read"
      BY <2>4 DEF ReadError
    <3> QED BY <2>1, <2>2, <3>1, <3>2, <3>3
  <2>5. CASE ReadEnds \/ ReadExits
    BY <1>4, <2>2, <2>5 DEF ReadEnds, ReadExits, Exit
  <2> QED BY <1>7, <2>3, <2>4, <2>5 DEF dd_in
<1>8. CASE convert
  BY <1>2, <1>3, <1>8, StreamConverts
<1>9. CASE dd_out
  BY <1>2, <1>3, <1>4, <1>9, StreamGoesOut
<1>10. CASE dd_close
  BY <1>2, <1>3, <1>10, StreamEnds
<1>11. CASE Exits
  <2>1. pc = "exit" /\ pc' = "done" /\ UNCHANGED <<output, wpos, pending, taken>>
    BY <1>4, <1>11 DEF Exits, sink, source
  <2>2. AllSent' = AllSent /\ Converted' = Converted
    BY <1>2, <2>1 DEF AllSent, Converted
  <2>3. Finished(AllSent)
    BY <1>3, <2>1 DEF StreamKept
  <2>4. Finished(AllSent)'
    BY <1>2, <2>2, <2>3 DEF Finished
  <2> QED BY <2>1, <2>4 DEF StreamKept
<1> QED BY <1>5, <1>6, <1>7, <1>8, <1>9, <1>10, <1>11 DEF Next

-------------------------------------------------------------------------------
(* What was read is the input.                                                  *)

(* Without faults and padding what was taken is the input from the place of the *)
(* skip on, and all of it when reading ends without a count.                    *)
SourceKept ==
  opt.status = "ok" /\ ~Has("SYNC") /\ faults = 0 =>
    LET start == opt.skip * opt.ibs
    IN /\ pc \in {"jcl", "setup"} => taken = <<>>
       /\ pc \in Running =>
            /\ taken = SubSeq(input, start + 1, rpos)
            /\ start <= rpos /\ (rpos <= Len(input) \/ rpos = start)
            /\ pc \in {"close", "exit", "done"} \/ (pc = "out" /\ ret = "exit") =>
                 opt.count > 0 \/ rpos >= Len(input)

LEMMA PartGrows ==
  ASSUME NEW s \in Seq(Byte), NEW x \in Nat, NEW y \in Nat, x <= y,
         y <= Len(s) \/ y = x, NEW k \in Nat, y + k <= Len(s)
  PROVE  SubSeq(s, x + 1, y) \o SubSeq(s, y + 1, y + k) = SubSeq(s, x + 1, y + k)
<1>1. PICK e \in Nat : e = y + k /\ y <= e /\ x <= e /\ e <= Len(s) /\ y <= Len(s)
  OBVIOUS
<1>2. PICK a \in Seq(Byte) : a = SubSeq(s, x + 1, y) /\ Len(a) = y - x
                             /\ \A j \in 1..y - x : a[j] = s[x + j]
  BY <1>1, PartOf, Zenon
<1>3. PICK b \in Seq(Byte) : b = SubSeq(s, y + 1, e) /\ Len(b) = k
                             /\ \A j \in 1..k : b[j] = s[y + j]
  <2>1. /\ SubSeq(s, y + 1, e) \in Seq(Byte) /\ Len(SubSeq(s, y + 1, e)) = e - y
        /\ \A j \in 1..e - y : SubSeq(s, y + 1, e)[j] = s[y + j]
    BY <1>1, PartOf
  <2>2. e - y = k
    BY <1>1
  <2> QED BY <2>1, <2>2, Zenon
<1>4. PICK c \in Seq(Byte) : c = SubSeq(s, x + 1, e) /\ Len(c) = e - x
                             /\ \A j \in 1..e - x : c[j] = s[x + j]
  <2>1. /\ SubSeq(s, x + 1, e) \in Seq(Byte) /\ Len(SubSeq(s, x + 1, e)) = e - x
        /\ \A j \in 1..e - x : SubSeq(s, x + 1, e)[j] = s[x + j]
    BY <1>1, PartOf
  <2> QED BY <2>1, Zenon
<1>5. PICK w \in Seq(Byte) : w = a \o b
  BY Joined
<1>6. /\ Len(w) = e - x
      /\ \A j \in 1..y - x : w[j] = a[j]
      /\ \A j \in 1..k : w[y - x + j] = b[j]
  <2>1. y - x + k = e - x
    BY <1>1
  <2>2. /\ Len(a \o b) = Len(a) + Len(b)
        /\ \A j \in 1..Len(a) : (a \o b)[j] = a[j]
        /\ \A j \in 1..Len(b) : (a \o b)[Len(a) + j] = b[j]
    BY Joined
  <2> QED BY <1>2, <1>3, <1>5, <2>1, <2>2, Zenon
<1>7. ASSUME NEW j \in 1..Len(w) PROVE w[j] = c[j]
  <2>1. CASE j <= y - x
    BY <1>2, <1>4, <1>6, <2>1
  <2>2. CASE j > y - x
    <3>1. j - (y - x) \in 1..k /\ y - x + (j - (y - x)) = j /\ y + (j - (y - x)) = x + j
      BY <1>1, <1>6, <2>2
    <3>2. w[j] = b[j - (y - x)] /\ b[j - (y - x)] = s[x + j]
      BY <1>3, <1>6, <3>1
    <3>3. c[j] = s[x + j]
      BY <1>4, <1>6
    <3> QED BY <3>2, <3>3
  <2> QED BY <2>1, <2>2
<1>8. w = c
  BY <1>4, <1>6, <1>7, SameBytes
<1> QED BY <1>1, <1>2, <1>3, <1>4, <1>5, <1>8, Zenon

LEMMA SourceNext ==
  ASSUME TypeOK, Room, SourceKept, Next
  PROVE  SourceKept'
<1>1. opt' = opt /\ input' = input /\ (\A flag : Has(flag)' <=> Has(flag))
  BY ArgsFixed DEF args, Has
<1>2. faults \in Nat /\ (faults' = faults \/ faults' = faults + 1)
  BY DEF TypeOK, NumberTypes, Fault, Next, jclExits, jclReturns, setup, setupExits, dd_in,
         ReadEnds, Read, ReadError, ReadExits, convert, def, blockDrop, block, unblock,
         ConvReturns, dd_out, SkipSparse, Write, WriteInterrupted, WriteExits, dd_close, Exits
<1>3. SUFFICES ASSUME opt.status = "ok", ~Has("SYNC"), faults' = faults, faults = 0,
                      pc' # "failed"
               PROVE  SourceKept'
  <2>1. faults' = 0 => faults' = faults /\ faults = 0
    BY <1>2
  <2> QED BY <1>1, <2>1 DEF SourceKept, Running
<1>4. PICK skip \in Nat, ibs \in Nat, start \in Nat :
        skip = opt.skip /\ ibs = opt.ibs /\ start = skip * ibs /\ ibs > 0
  <2>1. PICK skip \in Nat, ibs \in Nat : skip = opt.skip /\ ibs = opt.ibs
    BY DEF TypeOK, ControlTypes, Options
  <2>2. skip * ibs \in Nat
    OBVIOUS
  <2>3. ibs > 0
    BY <1>3, <2>1 DEF Room, Sized
  <2> QED BY <2>1, <2>2, <2>3
<1>5. input \in Seq(Byte) /\ rpos \in Nat
  BY DEF TypeOK, NumberTypes, ByteTypes
<1>6. pc \in Running =>
        /\ taken = SubSeq(input, start + 1, rpos)
        /\ start <= rpos /\ (rpos <= Len(input) \/ rpos = start)
  BY <1>3, <1>4 DEF SourceKept
<1>7. ASSUME pc \in Running, UNCHANGED <<taken, rpos>>, pc' \in Running,
             pc' \in {"close", "exit", "done"} \/ (pc' = "out" /\ ret' = "exit") =>
               opt.count > 0 \/ rpos >= Len(input)
      PROVE  SourceKept'
  BY <1>1, <1>4, <1>6, <1>7 DEF SourceKept, Running
<1>8. CASE jclExits \/ jclReturns \/ setupExits
  <2>1. pc = "jcl" /\ pc' = "setup" /\ UNCHANGED taken
    BY <1>3, <1>8 DEF jclExits, jclReturns, setupExits, Exit, source
  <2> QED BY <1>3, <2>1 DEF SourceKept, Running
<1>9. CASE setup
  <2>1. pc = "setup" /\ pc' = "read" /\ rpos' = start /\ taken' = taken
    BY <1>4, <1>9 DEF setup
  <2>2. taken = <<>>
    BY <1>3, <2>1 DEF SourceKept
  <2>3. SubSeq(input, start + 1, start) = <<>>
    BY <1>5
  <2> QED BY <1>1, <1>4, <2>1, <2>2, <2>3 DEF SourceKept
<1>10. CASE dd_in
  <2>1. ASSUME NEW k \in 1..Least(opt.ibs, Remaining), Read(k) PROVE SourceKept'
    <3>1. pc = "read" /\ rpos' = rpos + k /\ taken' = taken \o SubSeq(input, rpos + 1, rpos + k)
          /\ pc' \in {"conv", "out"} /\ (pc' = "out" => ret' = "read")
      BY <1>3, <2>1 DEF Read, Padded, Accept, StartOut
    <3>2. k \in Nat /\ rpos + k <= Len(input)
      BY <1>4, <1>5 DEF Least, Remaining
    <3>3. taken = SubSeq(input, start + 1, rpos) /\ start <= rpos
          /\ (rpos <= Len(input) \/ rpos = start)
      BY <1>6, <3>1 DEF Running
    <3>4. SubSeq(input, start + 1, rpos) \o SubSeq(input, rpos + 1, rpos + k)
            = SubSeq(input, start + 1, rpos + k)
      BY <1>5, <3>2, <3>3, PartGrows
    <3>5. taken' = SubSeq(input, start + 1, rpos')
      BY <3>1, <3>3, <3>4
    <3>6. start <= rpos' /\ rpos' <= Len(input)
      BY <1>5, <3>1, <3>2, <3>3
    <3> QED BY <1>1, <1>4, <3>1, <3>5, <3>6 DEF SourceKept
  <2>2. CASE ReadEnds
    <3>1. pc = "read" /\ pc' = "close" /\ UNCHANGED <<taken, rpos>>
      BY <2>2 DEF ReadEnds, source
    <3>2. opt.count > 0 \/ Least(opt.ibs, Remaining) = 0
      BY <2>2 DEF ReadEnds, CountReached
    <3>3. opt.count > 0 \/ rpos >= Len(input)
      BY <1>4, <1>5, <3>2 DEF Least, Remaining
    <3> QED BY <1>7, <3>1, <3>3 DEF Running
  <2>3. CASE ReadError \/ ReadExits
    BY <1>2, <1>3, <2>3 DEF ReadError, ReadExits, Fault
  <2> QED BY <1>10, <2>1, <2>2, <2>3 DEF dd_in
<1>11. CASE convert
  <2>1. /\ pc = "conv" /\ UNCHANGED <<taken, rpos>>
        /\ pc' \in {"conv", "read"} \/ (pc' = "out" /\ ret' \in {"read", "conv"})
    BY <1>11 DEF convert, def, blockDrop, block, unblock, ConvReturns, RecordAdded, StartOut,
                 source
  <2> QED BY <1>7, <2>1 DEF Running
<1>12. CASE dd_out
  <2>1. /\ pc = "out" /\ UNCHANGED <<taken, rpos, ret>>
    BY <1>12 DEF dd_out, SkipSparse, Write, WriteInterrupted, WriteExits, Exit, source, sink
  <2>2. pc' = "out" \/ pc' = ret
    BY <1>3, <1>12, <2>1 DEF dd_out, SkipSparse, Write, WriteInterrupted, WriteExits, Exit,
                             EndBlock
  <2>3. ret \in {"read", "conv", "exit"}
    BY DEF TypeOK, ControlTypes
  <2>4. ret = "exit" => opt.count > 0 \/ rpos >= Len(input)
    BY <1>3, <2>1 DEF SourceKept, Running
  <2> QED BY <1>7, <2>1, <2>2, <2>3, <2>4 DEF Running
<1>13. CASE dd_close
  <2>1. pc = "close" /\ UNCHANGED <<taken, rpos>> /\ pc' \in {"out", "exit"}
    BY <1>13 DEF dd_close, StartOut
  <2>2. opt.count > 0 \/ rpos >= Len(input)
    BY <1>3, <2>1 DEF SourceKept, Running
  <2> QED BY <1>7, <2>1, <2>2 DEF Running
<1>14. CASE Exits
  <2>1. pc = "exit" /\ UNCHANGED <<taken, rpos>> /\ pc' = "done"
    BY <1>3, <1>14 DEF Exits, source
  <2>2. opt.count > 0 \/ rpos >= Len(input)
    BY <1>3, <2>1 DEF SourceKept, Running
  <2> QED BY <1>7, <2>1, <2>2 DEF Running
<1> QED BY <1>8, <1>9, <1>10, <1>11, <1>12, <1>13, <1>14 DEF Next

LEMMA ConvertedType == TypeOK => Converted \in Seq(Byte)
<1> SUFFICES ASSUME TypeOK PROVE Converted \in Seq(Byte)
  OBVIOUS
<1>1. PICK all \in Seq(Byte), size \in Nat : all = taken /\ size = opt.cbs
  BY DEF TypeOK, ControlTypes, ByteTypes, Options
<1>2. Whole!Blocked(all, size) \in Seq(Byte)
  BY BlockedType
<1>3. Whole!Unblocked(all, size) \in Seq(Byte)
  <2>1. PICK f : UnblockFrom(all, size, f)
    BY UnblockFromExists
  <2>2. Whole!Unblocked(all, size) = f[Len(all)]
    BY <2>1, UnblockedIs
  <2>3. f[Len(all)] \in Seq(Byte)
    BY <2>1 DEF UnblockFrom
  <2> QED BY <2>2, <2>3
<1>4. CASE cfunc(opt) = "def"
  BY <1>1, <1>4 DEF Converted
<1>5. CASE cfunc(opt) = "block"
  BY <1>1, <1>2, <1>5 DEF Converted
<1>6. CASE cfunc(opt) = "unblock"
  BY <1>1, <1>3, <1>6 DEF Converted
<1> QED BY <1>4, <1>5, <1>6, Kinds

(* At the end everything is written.                                            *)
LEMMA CopyEnds ==
  ASSUME TypeOK, Sized => SinkKept /\ StreamKept /\ SourceKept
  PROVE  CopyExact
<1>1. SUFFICES ASSUME SinkKept, StreamKept, SourceKept, pc = "done", opt.status = "ok",
                      ~Unreliable
               PROVE  LET n == Len(Converted)
                      IN /\ Len(Sent) >= n /\ SubSeq(Sent, 1, n) = Converted
                         /\ \A i \in n + 1..Len(Sent) : Sent[i] = Zero
                         /\ Len(Sent) - n <= IF Has("OSYNC") THEN opt.obs ELSE 0
                         /\ bytes = Len(Sent)
                         /\ faults = 0 /\ opt.count = 0 /\ ~Has("SYNC") =>
                               taken = From(input, opt.skip * opt.ibs + 1)
  BY DEF CopyExact
<1>2. Trusted /\ Reliable
  BY <1>1 DEF Trusted, Reliable, Unreliable, SparseFails
<1>3. PICK b \in Nat, obs \in Nat, p \in Nat, f \in Seq(Byte), c \in Seq(Byte) :
        b = Base /\ obs = opt.obs /\ p = wpos /\ f = output /\ c = Converted
  BY BaseType, ConvertedType DEF TypeOK, NumberTypes, ByteTypes
<1>4. /\ pending = 0 /\ b <= p /\ bytes = p - b /\ (p <= Len(f) \/ p = b)
  <2>1. SinkFor(Has("SPARSE"), b, obs, pc, force, cnt, IsSparse, Len(f), p, pending, bytes)
    BY <1>1, <1>2, <1>3 DEF SinkKept, Reliable, Running
  <2>2. pc = "done"
    BY <1>1
  <2>3. /\ b <= p /\ bytes = p - b /\ pending = 0
        /\ p <= Len(f) \/ p = b \/ (pc = "out" /\ ~IsSparse)
    BY <2>1, <2>2, Zenon DEF SinkFor
  <2> QED BY <2>2, <2>3
<1>5. PICK s \in Seq(Byte) : s = Sent /\ s = AllSent /\ Len(s) = p - b
  <2>1. SubSeq(f, b + 1, p) = Out(f, b, p)
    BY <1>4, OutSent
  <2>2. Out(f, b, p) \in Seq(Byte) /\ Len(Out(f, b, p)) = p - b
    BY <1>4, OutFacts
  <2>3. Sent = SubSeq(f, b + 1, p)
    BY <1>3 DEF Sent, Base
  <2>4. AllSent = Out(f, b, p)
    <3>1. wpos + pending = p
      BY <1>3, <1>4
    <3> QED BY <1>3, <3>1 DEF AllSent
  <2> QED BY <2>1, <2>2, <2>3, <2>4, Zenon
<1>6. PICK m \in Nat : m <= (IF Has("OSYNC") THEN opt.obs ELSE 0) /\ s = c \o Fill(Zero, m)
  <2>1. Finished(AllSent)
    BY <1>1, <1>2 DEF StreamKept
  <2> QED BY <1>3, <1>5, <2>1 DEF Finished
<1>7. PICK z \in Seq(Byte) : z = Fill(Zero, m) /\ Len(z) = m /\ \A i \in 1..m : z[i] = Zero
  <2>1. Zero \in Byte /\ m \in Int
    BY BytesAssumption
  <2>2. /\ Fill(Zero, m) \in Seq(Byte)
        /\ Len(Fill(Zero, m)) = IF m > 0 THEN m ELSE 0
    BY <2>1, FillType, Zenon
  <2>3. (IF m > 0 THEN m ELSE 0) = m
    OBVIOUS
  <2>4. \A i \in 1..m : Fill(Zero, m)[i] = Zero
    BY DEF Fill
  <2> QED BY <2>2, <2>3, <2>4, Zenon
<1>8. PICK n \in Nat, l \in Nat : n = Len(c) /\ l = Len(s)
  OBVIOUS
<1>9. /\ l = n + m
      /\ \A i \in 1..n : s[i] = c[i]
      /\ \A i \in 1..m : s[n + i] = z[i]
  <2>1. s = c \o z
    BY <1>6, <1>7, Zenon
  <2>2. /\ Len(c \o z) = Len(c) + Len(z)
        /\ \A i \in 1..Len(c) : (c \o z)[i] = c[i]
        /\ \A i \in 1..Len(z) : (c \o z)[Len(c) + i] = z[i]
    BY Joined
  <2> QED BY <1>7, <1>8, <2>1, <2>2, Zenon
<1>10. SubSeq(s, 1, n) = c
  <2>1. n <= Len(s)
    BY <1>8, <1>9
  <2>2. PICK a \in Seq(Byte) : a = SubSeq(s, 1, n) /\ Len(a) = n /\ \A i \in 1..n : a[i] = s[i]
    <3>1. PICK a \in Seq(Byte), r \in Seq(Byte) :
            a = SubSeq(s, 1, n) /\ r = From(s, n + 1) /\ a \o r = s /\ Len(a) = n
      BY <2>1, Split
    <3>2. \A i \in 1..Len(a) : (a \o r)[i] = a[i]
      BY Joined
    <3> QED BY <3>1, <3>2, Zenon
  <2>3. \A i \in 1..Len(a) : a[i] = c[i]
    BY <1>9, <2>2
  <2>4. a = c
    BY <1>8, <2>2, <2>3, SameBytes
  <2> QED BY <2>2, <2>4
<1>11. ASSUME NEW i \in n + 1..l PROVE s[i] = Zero
  <2>1. i - n \in 1..m /\ n + (i - n) = i
    BY <1>9
  <2>2. s[n + (i - n)] = z[i - n]
    BY <1>9, <2>1
  <2> QED BY <1>7, <2>1, <2>2
<1>12. ASSUME faults = 0, opt.count = 0, ~Has("SYNC")
       PROVE  taken = From(input, opt.skip * opt.ibs + 1)
  <2>1. PICK skip \in Nat, ibs \in Nat, in \in Seq(Byte), r \in Nat :
          skip = opt.skip /\ ibs = opt.ibs /\ in = input /\ r = rpos
    BY DEF TypeOK, ControlTypes, NumberTypes, ByteTypes, Options
  <2>2. PICK start \in Nat : start = skip * ibs
    OBVIOUS
  <2>3. /\ taken = SubSeq(in, start + 1, r) /\ start <= r /\ (r <= Len(in) \/ r = start)
        /\ opt.count > 0 \/ r >= Len(in)
    BY <1>1, <1>12, <2>1, <2>2 DEF SourceKept, Running
  <2>4. r = Len(in) \/ (r = start /\ start >= Len(in))
    BY <1>12, <2>3
  <2>5. From(in, start + 1) = taken
    <3>1. CASE r = Len(in)
      BY <2>3, <3>1 DEF From
    <3>2. CASE r = start /\ start >= Len(in)
      <4>1. SubSeq(in, start + 1, start) = <<>> /\ SubSeq(in, start + 1, Len(in)) = <<>>
        BY <3>2
      <4> QED BY <2>3, <3>2, <4>1 DEF From
    <3> QED BY <2>4, <3>1, <3>2
  <2> QED BY <2>1, <2>2, <2>5
<1>13. /\ l >= n
       /\ l - n <= IF Has("OSYNC") THEN opt.obs ELSE 0
       /\ bytes = l
  <2>1. l - n = m
    BY <1>9
  <2>2. l >= n
    BY <1>9
  <2>3. bytes = l
    BY <1>4, <1>5, <1>8
  <2>4. m <= IF Has("OSYNC") THEN opt.obs ELSE 0
    BY <1>6
  <2> QED BY <2>1, <2>2, <2>3, <2>4
<1>14. n = Len(Converted) /\ l = Len(Sent) /\ c = Converted /\ s = Sent
  BY <1>3, <1>5, <1>8
<1> QED BY <1>10, <1>11, <1>12, <1>13, <1>14, Zenon

(* A copy that ends well is the conversion of the whole input, for every size    *)
(* of blocks and records that Sized allows, every input and output before, every *)
(* cut of its reads and of its writes and every repetition after an              *)
(* interruption, unless an option is Unreliable; osync adds at most a block of   *)
(* zeros; and the number of bytes reported is the number written                 *)
(* (dd.c:297-391, 468-550, 717-945).                                             *)
THEOREM CopiesExactly == Spec => []CopyExact
<1>1. Init => SinkKept /\ StreamKept /\ SourceKept
  <2> SUFFICES ASSUME Init PROVE SinkKept /\ StreamKept /\ SourceKept
    OBVIOUS
  <2>1. /\ pc = "jcl" /\ pending = 0 /\ bytes = 0 /\ taken = <<>> /\ inbuf = <<>>
        /\ outbuf = <<>> /\ ~intrunc
    BY DEF Init
  <2>2. pc \notin Running
    BY <2>1 DEF Running
  <2> QED BY <2>1, <2>2 DEF SinkKept, StreamKept, SourceKept
<1>2. /\ TypeOK /\ OutHolds /\ (Sized => Room)
      /\ (Sized => SinkKept /\ StreamKept /\ SourceKept) /\ [Next]_vars
      => (Sized => SinkKept /\ StreamKept /\ SourceKept)'
  <2> SUFFICES ASSUME TypeOK, OutHolds, Sized => Room,
                      Sized => SinkKept /\ StreamKept /\ SourceKept, [Next]_vars, Sized'
               PROVE  (SinkKept /\ StreamKept /\ SourceKept)'
    OBVIOUS
  <2>0. Sized
    BY ArgsFixed, SizedFixed DEF vars
  <2> SUFFICES ASSUME Room, SinkKept, StreamKept, SourceKept
               PROVE  (SinkKept /\ StreamKept /\ SourceKept)'
    BY <2>0
  <2>1. CASE Next
    BY <2>1, SinkNext, StreamNext, SourceNext
  <2>2. CASE UNCHANGED vars
    <3>1. /\ UNCHANGED <<pc, opt, input, rpos, inbuf, intrunc, outbuf, force, cnt, ret, pending>>
          /\ UNCHANGED <<output, wpos, blocks, bytes, faults, taken, short>>
      BY <2>2 DEF vars, args, source, sink
    <3>2. SinkKept'
      BY <3>1 DEF SinkKept, SparseFails, Has, Base, IsSparse
    <3>3. StreamKept'
      BY <3>1 DEF StreamKept, Trusted, Reliable, SparseFails, Has, Base, Converting, Buffered,
                  Records, AllSent, Finished, Converted
    <3>4. SourceKept'
      BY <3>1 DEF SourceKept, Has
    <3> QED BY <3>2, <3>3, <3>4
  <2> QED BY <2>1, <2>2
<1>3. TypeOK /\ (Sized => SinkKept /\ StreamKept /\ SourceKept) => CopyExact
  BY CopyEnds
<1> QED BY <1>1, <1>2, <1>3, RoomHolds, PTL DEF Spec

-------------------------------------------------------------------------------
(* dd ends                                                                      *)

Lower6(a1, a2, a3, a4, a5, a6, b1, b2, b3, b4, b5, b6) ==
  \/ a1 < b1
  \/ a1 = b1 /\ a2 < b2
  \/ a1 = b1 /\ a2 = b2 /\ a3 < b3
  \/ a1 = b1 /\ a2 = b2 /\ a3 = b3 /\ a4 < b4
  \/ a1 = b1 /\ a2 = b2 /\ a3 = b3 /\ a4 = b4 /\ a5 < b5
  \/ a1 = b1 /\ a2 = b2 /\ a3 = b3 /\ a4 = b4 /\ a5 = b5 /\ a6 < b6

LEMMA Lower6Below ==
  ASSUME NEW a1 \in Nat, NEW a2 \in Nat, NEW a3 \in Nat, NEW a4 \in Nat, NEW a5 \in Nat,
         NEW a6 \in Nat, NEW b1 \in Nat, NEW b2 \in Nat, NEW b3 \in Nat, NEW b4 \in Nat,
         NEW b5 \in Nat, NEW b6 \in Nat,
         Lower6(a1, a2, a3, a4, a5, a6, b1, b2, b3, b4, b5, b6)
  PROVE  /\ <<a1, a2, a3, a4, a5, a6>> \in Ranks(6)
         /\ Below(<<a1, a2, a3, a4, a5, a6>>, <<b1, b2, b3, b4, b5, b6>>)
<1> DEFINE a == <<a1, a2, a3, a4, a5, a6>>
           b == <<b1, b2, b3, b4, b5, b6>>
<1>1. a \in Ranks(6)
  BY DEF Ranks
<1>2. \E i \in 1..6 : a[i] < b[i] /\ \A j \in 1..i - 1 : a[j] = b[j]
  <2>1. CASE a1 < b1
    BY <2>1
  <2>2. CASE a1 = b1 /\ a2 < b2
    BY <2>2
  <2>3. CASE a1 = b1 /\ a2 = b2 /\ a3 < b3
    BY <2>3
  <2>4. CASE a1 = b1 /\ a2 = b2 /\ a3 = b3 /\ a4 < b4
    BY <2>4
  <2>5. CASE a1 = b1 /\ a2 = b2 /\ a3 = b3 /\ a4 = b4 /\ a5 < b5
    BY <2>5
  <2>6. CASE a1 = b1 /\ a2 = b2 /\ a3 = b3 /\ a4 = b4 /\ a5 = b5 /\ a6 < b6
    BY <2>6
  <2> HIDE DEF a, b
  <2> QED BY <2>1, <2>2, <2>3, <2>4, <2>5, <2>6, Zenon DEF Lower6
<1> QED BY <1>1, <1>2 DEF Below

(* What keeps the rank going down: only options that were accepted are worked   *)
(* on, a block that is not forced holds at least a byte, and the failures are   *)
(* counted.                                                                     *)
Going == /\ pc \notin {"jcl", "done", "failed"} => opt.status = "ok"
         /\ pc = "out" /\ ~force => cnt > 0
         /\ faults <= MaxFaults

LEMMA GoingInit == Init => Going
  BY FaultsAssumption DEF Init, Going

LEMMA GoingNext ==
  ASSUME TypeOK, Room, Going, Next
  PROVE  Going'
<1>1. opt' = opt
  BY ArgsFixed DEF args
<1>2. PICK o \in Nat : o = opt.obs
  BY DEF TypeOK, ControlTypes, Options
<1>3. /\ cnt \in Nat /\ faults \in Nat /\ MaxFaults \in Nat
      /\ opt.status = "ok" => o > 0
  BY <1>2, FaultsAssumption DEF TypeOK, NumberTypes, Room, Sized
<1>4. pc' \notin {"jcl", "done", "failed"} => opt'.status = "ok"
  <2>1. CASE jclExits \/ jclReturns
    BY <1>1, <2>1 DEF jclExits, jclReturns
  <2>2. CASE pc \notin {"jcl", "done", "failed"}
    BY <1>1, <2>2 DEF Going
  <2>3. jclExits \/ jclReturns \/ pc \notin {"jcl", "done", "failed"}
    BY DEF Next, setup, setupExits, dd_in, ReadEnds, Read, ReadError, ReadExits, convert, def,
           blockDrop, block, unblock, ConvReturns, dd_out, SkipSparse, Write, WriteInterrupted,
           WriteExits, dd_close, Exits
  <2> QED BY <2>1, <2>2, <2>3
<1>5. faults' <= MaxFaults
  <2>1. faults' = faults \/ Fault
    BY DEF Next, jclExits, jclReturns, setup, setupExits, Exit, dd_in, ReadEnds, Read, ReadError,
           ReadExits, Accept, convert, def, blockDrop, block, unblock, ConvReturns, dd_out,
           SkipSparse, Write, WriteInterrupted, WriteExits, dd_close, Exits
  <2> QED BY <1>3, <2>1 DEF Fault, Going
<1>6. pc' = "out" /\ ~force' => cnt' > 0
  <2>1. ASSUME NEW buf, NEW back, opt.status = "ok", StartOut(buf, FALSE, back)
        PROVE  cnt' > 0
    BY <1>2, <1>3, <2>1 DEF StartOut
  <2>2. ASSUME NEW rest, pc = "out", force' = force, EndBlock(rest), pc' = "out"
        PROVE  cnt' > 0
    <3>1. opt.status = "ok"
      BY <2>2 DEF Going
    <3>2. ret # "out"
      BY DEF TypeOK, ControlTypes
    <3> QED BY <1>2, <1>3, <2>2, <3>1, <3>2 DEF EndBlock
  <2>3. CASE dd_out
    <3>1. CASE SkipSparse
      BY <2>2, <3>1 DEF SkipSparse
    <3>2. ASSUME NEW k \in 1..cnt, Write(k), pc' = "out"
          PROVE  cnt' > 0
      <4>1. CASE k = cnt
        BY <2>2, <3>2, <4>1 DEF Write
      <4>2. CASE k # cnt
        <5>1. cnt' = cnt - k
          BY <3>2, <4>2 DEF Write
        <5> QED BY <1>3, <4>2, <5>1
      <4> QED BY <4>1, <4>2
    <3>3. CASE WriteInterrupted \/ WriteExits
      BY <3>3 DEF WriteInterrupted, WriteExits, Exit, Going
    <3> QED BY <2>3, <3>1, <3>2, <3>3 DEF dd_out
  <2>4. CASE convert
    <3>1. opt.status = "ok" /\ pc = "conv"
      BY <2>4 DEF convert, def, blockDrop, block, unblock, ConvReturns, Going
    <3>2. ASSUME pc' = "out"
          PROVE  \E buf, back : StartOut(buf, FALSE, back)
      BY <2>4, <3>1, <3>2
      DEF convert, def, blockDrop, block, unblock, ConvReturns, RecordAdded
    <3> QED BY <2>1, <3>1, <3>2
  <2>5. CASE dd_in \/ dd_close
    BY <2>5 DEF dd_in, ReadEnds, Read, ReadError, ReadExits, Accept, StartOut, Exit, dd_close
  <2>6. CASE jclExits \/ jclReturns \/ setup \/ setupExits \/ Exits
    BY <2>6 DEF jclExits, jclReturns, setup, setupExits, Exit, Exits
  <2> QED BY <2>3, <2>4, <2>5, <2>6 DEF Next
<1> QED BY <1>4, <1>5, <1>6 DEF Going

(* Every part of a rank is a natural number.                                    *)
RankOK == /\ Stage \in Nat /\ MaxFaults - faults \in Nat /\ Remaining \in Nat
          /\ Phase \in Nat /\ Len(inbuf) \in Nat /\ ToWrite \in Nat

LEMMA RankTypes == TypeOK /\ Going => RankOK
<1> SUFFICES ASSUME TypeOK, Going PROVE RankOK
  OBVIOUS
<1>1. /\ faults \in Nat /\ MaxFaults \in Nat /\ rpos \in Nat
      /\ input \in Seq(Byte) /\ inbuf \in Seq(Byte) /\ outbuf \in Seq(Byte)
  BY FaultsAssumption DEF TypeOK, NumberTypes, ByteTypes
<1>2. Stage \in Nat
  <2>1. Stage \in {0, 1, 2, 3, 4, 5, 6}
    BY Zenon DEF Stage
  <2> QED BY <2>1
<1>3. Phase \in Nat
  <2>1. Phase \in {0, 1, 2}
    BY Zenon DEF Phase
  <2> QED BY <2>1
<1>4. Len(input) \in Nat /\ Len(inbuf) \in Nat /\ Len(outbuf) \in Nat
  BY <1>1
<1>5. Remaining \in Nat
  BY <1>1, <1>4 DEF Remaining
<1>6. ToWrite \in Nat
  BY <1>4 DEF ToWrite
<1>7. MaxFaults - faults \in Nat
  BY <1>1 DEF Going
<1> QED BY <1>2, <1>3, <1>4, <1>5, <1>6, <1>7, Zenon DEF RankOK

RankLower == Lower6(Stage', MaxFaults - faults', Remaining', Phase', Len(inbuf'), ToWrite',
                    Stage, MaxFaults - faults, Remaining, Phase, Len(inbuf), ToWrite)

(* A failure that is survived.                                                  *)
LEMMA FaultLowers ==
  ASSUME TypeOK, Stage' = Stage, Fault
  PROVE  RankLower
<1>1. MaxFaults - faults' < MaxFaults - faults
  BY FaultsAssumption DEF TypeOK, NumberTypes, Fault
<1> QED BY <1>1, Zenon DEF RankLower, Lower6

LEMMA ReadLowers ==
  ASSUME TypeOK, dd_in
  PROVE  RankLower
<1>1. input' = input /\ pc = "read" /\ ret \in {"read", "conv", "exit"}
  BY DEF TypeOK, ControlTypes, dd_in, ReadEnds, Read, ReadError, ReadExits, Exit, Accept, args
<1>2. ASSUME NEW chunk, Accept(chunk)
      PROVE  Stage' = Stage
  <2>1. pc' = "conv" \/ (pc' = "out" /\ ret' = "read")
    BY <1>2, Zenon DEF Accept, StartOut
  <2>2. Stage' = 4 /\ Stage = 4
    BY <1>1, <2>1 DEF Stage
  <2> QED BY <2>2
<1>3. ASSUME NEW k \in 1..Least(opt.ibs, Remaining), Read(k)
      PROVE  RankLower
  <2>1. Stage' = Stage /\ faults' = faults
    <3>1. Accept(Padded(SubSeq(input, rpos + 1, rpos + k))) /\ faults' = faults
      BY <1>3, Zenon DEF Read
    <3> QED BY <1>2, <3>1, Zenon
  <2>2. rpos' = rpos + k
    BY <1>3, Zenon DEF Read
  <2>3. PICK i \in Nat, r \in Nat, n \in Nat : i = opt.ibs /\ r = rpos /\ n = Len(input)
    <3>1. opt.ibs \in Nat /\ rpos \in Nat /\ input \in Seq(Byte)
      BY DEF TypeOK, ControlTypes, NumberTypes, ByteTypes, Options
    <3>2. Len(input) \in Nat
      BY <3>1
    <3> QED BY <3>1, <3>2, Zenon
  <2>4. Remaining = IF r < n THEN n - r ELSE 0
    BY <2>3 DEF Remaining
  <2>5. k \in Nat /\ k >= 1 /\ r < n
    BY <2>3, <2>4, <1>3 DEF Least
  <2>6. Remaining' = IF r + k < n THEN n - (r + k) ELSE 0
    BY <1>1, <2>2, <2>3 DEF Remaining
  <2>7. Remaining' < Remaining
    BY <2>3, <2>4, <2>5, <2>6
  <2> QED BY <2>1, <2>7, Zenon DEF RankLower, Lower6
<1>4. CASE ReadError
  <2>1. Fault /\ (pc' = pc \/ Accept(Padded(<<>>)))
    BY <1>4, Zenon DEF ReadError
  <2>2. CASE pc' = pc
    <3>1. Stage' = Stage
      BY <1>1, <2>2 DEF Stage
    <3> QED BY <2>1, <3>1, FaultLowers
  <2>3. CASE Accept(Padded(<<>>))
    <3>1. Stage' = Stage
      BY <1>2, <2>3, Zenon
    <3> QED BY <2>1, <3>1, FaultLowers
  <2> QED BY <2>1, <2>2, <2>3
<1>5. CASE ReadEnds \/ ReadExits
  <2>1. pc' \in {"close", "failed"}
    BY <1>5 DEF ReadEnds, ReadExits, Exit
  <2>2. Stage' < Stage
    BY <1>1, <2>1 DEF Stage
  <2> QED BY <2>2, Zenon DEF RankLower, Lower6
<1> QED BY <1>3, <1>4, <1>5 DEF dd_in

LEMMA AfterNLShorter ==
  ASSUME NEW s \in Seq(Byte), HasNL(s)
  PROVE  Len(AfterNL(s)) < Len(s)
<1>1. PICK i \in 1..Len(s) : i = FirstNL(s)
  BY FirstNLIsFirst
<1>2. i + 1 \in Nat /\ i + 1 >= 1
  OBVIOUS
<1>3. Len(From(s, i + 1)) = IF i + 1 <= Len(s) THEN Len(s) - (i + 1) + 1 ELSE 0
  BY <1>2, FromType
<1>4. Len(AfterNL(s)) = Len(From(s, i + 1))
  BY <1>1 DEF AfterNL
<1> QED BY <1>3, <1>4

LEMMA RestLength ==
  ASSUME NEW n \in Nat, NEW l \in Nat, n <= l
  PROVE  (IF n + 1 <= l THEN l - (n + 1) + 1 ELSE 0) = l - n
  OBVIOUS

(* A record, with what is dropped behind it, takes something from the buffer.   *)
LEMMA RecordShortens ==
  ASSUME TypeOK, opt.cbs > 0, inbuf # <<>>, HasNL(inbuf) \/ Len(inbuf) >= opt.cbs,
         NEW n, n = RecordLen(inbuf), NEW rest, rest = From(inbuf, n + 1)
  PROVE  Len(AfterRecord(rest, n)) < Len(inbuf)
<1>1. PICK c \in Nat : c = opt.cbs /\ c > 0
  BY DEF TypeOK, ControlTypes, Options
<1>2. inbuf \in Seq(Byte) /\ opt \in Options
  BY DEF TypeOK, ControlTypes, ByteTypes
<1>3. PICK l \in Nat : l = Len(inbuf) /\ l > 0
  BY <1>2
<1>4. n \in Nat /\ n <= c /\ n <= l /\ (n < c => n < l)
  BY <1>1, <1>2, <1>3, RecordLenType
<1>5. n + 1 \in Nat /\ n + 1 >= 1
  BY <1>4
<1>6. /\ rest \in Seq(Byte)
      /\ Len(rest) = IF n + 1 <= l THEN l - (n + 1) + 1 ELSE 0
  BY <1>2, <1>3, <1>5, FromType
<1>7. Len(rest) = l - n
  <2>1. (IF n + 1 <= l THEN l - (n + 1) + 1 ELSE 0) = l - n
    BY <1>3, <1>4, RestLength, Zenon
  <2> QED BY <1>6, <2>1, Zenon
<1>8. CASE n < c
  <2>1. rest # <<>>
    <3>1. Len(rest) > 0
      BY <1>3, <1>4, <1>7, <1>8
    <3> QED BY <3>1
  <2>2. Len(Tail(rest)) = Len(rest) - 1
    BY <1>6, <2>1
  <2> QED BY <1>1, <1>3, <1>4, <1>7, <1>8, <2>2 DEF AfterRecord
<1>9. CASE ~(n < c)
  <2>1. AfterRecord(rest, n) = AfterNL(rest)
    BY <1>1, <1>9 DEF AfterRecord
  <2>2. AfterNL(rest) \in Seq(Byte) /\ Len(AfterNL(rest)) <= Len(rest)
    BY <1>6, AfterNLType
  <2>3. Len(AfterNL(rest)) \in Nat
    BY <2>2
  <2> QED BY <1>1, <1>3, <1>4, <1>7, <1>9, <2>1, <2>2, <2>3
<1> QED BY <1>8, <1>9

LEMMA ConvertLowers ==
  ASSUME TypeOK, Room, Going, convert
  PROVE  RankLower
<1>1. /\ pc = "conv" /\ input' = input /\ rpos' = rpos /\ faults' = faults
      /\ opt.status = "ok"
  BY DEF convert, def, blockDrop, block, unblock, ConvReturns, args, source, Going
<1>2. Remaining' = Remaining
  BY <1>1 DEF Remaining
<1>3. Stage = 4 /\ Phase = 2
  BY <1>1 DEF Stage, Phase
<1>4. inbuf \in Seq(Byte) /\ opt \in Options /\ opt.cbs \in Nat
  BY DEF TypeOK, ControlTypes, ByteTypes, Options
<1>5. ASSUME pc' = "read" \/ (pc' = "out" /\ ret' = "read")
      PROVE  RankLower
  <2>1. Stage' = 4 /\ Phase' < 2
    BY <1>5 DEF Stage, Phase
  <2> QED BY <1>1, <1>2, <1>3, <2>1, Zenon DEF RankLower, Lower6
<1>6. ASSUME pc' = "conv" \/ (pc' = "out" /\ ret' = "conv"), Len(inbuf') < Len(inbuf)
      PROVE  RankLower
  <2>1. Stage' = 4 /\ Phase' = 2
    BY <1>6 DEF Stage, Phase
  <2> QED BY <1>1, <1>2, <1>3, <1>6, <2>1, Zenon DEF RankLower, Lower6
<1>7. ASSUME NEW buf, RecordAdded(buf)
      PROVE  pc' = "conv" \/ (pc' = "out" /\ ret' = "conv")
  BY <1>1, <1>7 DEF RecordAdded, StartOut
<1>8. CASE def \/ ConvReturns
  BY <1>5, <1>8 DEF def, ConvReturns, StartOut
<1>9. CASE blockDrop
  <2>1. CASE HasNL(inbuf)
    <3>1. inbuf' = AfterNL(inbuf) /\ pc' = "conv"
      BY <1>1, <1>9, <2>1 DEF blockDrop
    <3>2. Len(inbuf') < Len(inbuf)
      BY <1>4, <2>1, <3>1, AfterNLShorter
    <3> QED BY <1>6, <3>1, <3>2
  <2>2. CASE ~HasNL(inbuf)
    <3>1. pc' = "read"
      BY <1>9, <2>2, Zenon DEF blockDrop
    <3> QED BY <1>5, <3>1
  <2> QED BY <2>1, <2>2
<1>10. CASE block
  <2>1. opt.cbs > 0
    BY <1>1, <1>10 DEF block, cfunc, Room, Sized, Records, Has
  <2> DEFINE n == RecordLen(inbuf)
             rest == From(inbuf, n + 1)
             added == outbuf \o SubSeq(inbuf, 1, n) \o Fill(Space, opt.cbs - n)
  <2>2. /\ HasNL(inbuf) \/ Len(inbuf) >= opt.cbs
        /\ inbuf # <<>> /\ inbuf' = AfterRecord(rest, n) /\ RecordAdded(added)
    BY <1>10, Zenon DEF block
  <2> HIDE DEF n, rest, added
  <2>3. Len(inbuf') < Len(inbuf)
    BY <2>1, <2>2, RecordShortens DEF n, rest
  <2>4. pc' = "conv" \/ (pc' = "out" /\ ret' = "conv")
    BY <1>7, <2>2, Zenon
  <2> QED BY <1>6, <2>3, <2>4
<1>11. CASE unblock
  <2>1. opt.cbs > 0
    BY <1>1, <1>11 DEF unblock, cfunc, Room, Sized, Records, Has
  <2>2. PICK c \in Nat : c = opt.cbs /\ c > 0
    BY <1>4, <2>1
  <2> DEFINE added == outbuf \o Stripped(SubSeq(inbuf, 1, opt.cbs))
  <2>3. Len(inbuf) >= c /\ inbuf' = From(inbuf, c + 1) /\ RecordAdded(added)
    BY <1>11, <2>2 DEF unblock
  <2> HIDE DEF added
  <2>4. Len(inbuf') < Len(inbuf)
    <3>1. c + 1 \in Nat /\ c + 1 >= 1
      OBVIOUS
    <3>2. Len(inbuf') = IF c + 1 <= Len(inbuf) THEN Len(inbuf) - (c + 1) + 1 ELSE 0
      BY <1>4, <2>3, <3>1, FromType
    <3>3. Len(inbuf) \in Nat
      BY <1>4
    <3> QED BY <2>2, <2>3, <3>2, <3>3
  <2>5. pc' = "conv" \/ (pc' = "out" /\ ret' = "conv")
    BY <1>7, <2>3, Zenon
  <2> QED BY <1>6, <2>4, <2>5
<1> QED BY <1>8, <1>9, <1>10, <1>11 DEF convert

LEMMA OutLowers ==
  ASSUME TypeOK, OutHolds, Room, Going, dd_out
  PROVE  RankLower
<1>1. pc = "out" /\ input' = input
  BY DEF dd_out, SkipSparse, Write, WriteInterrupted, WriteExits, Exit, args
<1>2. /\ outbuf \in Seq(Byte) /\ cnt \in Nat /\ cnt <= Len(outbuf)
      /\ ret \in {"read", "conv", "exit"}
  BY <1>1 DEF TypeOK, ControlTypes, NumberTypes, ByteTypes, OutHolds
<1>3. PICK l \in Nat : l = Len(outbuf)
  BY <1>2
<1>4. ToWrite = l + 1
  BY <1>1, <1>3 DEF ToWrite
<1>5. ret = "conv" => cfunc(opt) # "def"
  <2>1. opt.status = "ok"
    BY <1>1 DEF Going
  <2>2. ret = "conv" => Records
    BY <1>1, <2>1 DEF Room, RoomFor
  <2> QED BY <2>2 DEF cfunc, Records, Has
<1>6. ASSUME ret' = ret, rpos' = rpos, faults' = faults, pc' = "out", inbuf' = inbuf,
             NEW k \in Nat, k > 0, k <= l, outbuf' = From(outbuf, k + 1)
      PROVE  RankLower
  <2>1. Remaining' = Remaining /\ Stage' = Stage /\ Phase' = Phase
    BY <1>1, <1>6 DEF Remaining, Stage, Phase
  <2>2. k + 1 \in Nat /\ k + 1 >= 1
    BY <1>6
  <2>3. Len(outbuf') = IF k + 1 <= l THEN l - (k + 1) + 1 ELSE 0
    BY <1>2, <1>3, <1>6, <2>2, FromType
  <2>4. ToWrite' < ToWrite
    BY <1>3, <1>4, <1>6, <2>3 DEF ToWrite
  <2> QED BY <1>6, <2>1, <2>4, Zenon DEF RankLower, Lower6
<1>7. ASSUME ret' = ret, rpos' = rpos, faults' = faults, pc' = ret,
             cfunc(opt) # "def" => inbuf' = inbuf
      PROVE  RankLower
  <2>1. Remaining' = Remaining
    BY <1>1, <1>7 DEF Remaining
  <2>2. CASE ret = "exit"
    <3>1. Stage' < Stage
      BY <1>1, <1>7, <2>2 DEF Stage
    <3> QED BY <3>1, Zenon DEF RankLower, Lower6
  <2>3. CASE ret = "read"
    <3>1. Stage' = Stage /\ Phase' < Phase
      BY <1>1, <1>7, <2>3 DEF Stage, Phase
    <3> QED BY <1>7, <2>1, <3>1, Zenon DEF RankLower, Lower6
  <2>4. CASE ret = "conv"
    <3>1. Stage' = Stage /\ Phase' = Phase
      BY <1>1, <1>7, <2>4 DEF Stage, Phase
    <3>2. ToWrite' < ToWrite
      BY <1>4, <1>7, <2>4 DEF ToWrite
    <3>3. inbuf' = inbuf
      BY <1>5, <1>7, <2>4
    <3> QED BY <1>7, <2>1, <3>1, <3>2, <3>3, Zenon DEF RankLower, Lower6
  <2> QED BY <1>2, <2>2, <2>3, <2>4
<1>8. ASSUME ret' = ret, rpos' = rpos, faults' = faults,
             NEW k \in Nat, k > 0, k <= l, EndBlock(From(outbuf, k + 1))
      PROVE  RankLower
  <2>1. CASE pc' = ret /\ (cfunc(opt) # "def" => inbuf' = inbuf)
    BY <1>7, <1>8, <2>1
  <2>2. CASE pc' = pc /\ inbuf' = inbuf /\ outbuf' = From(outbuf, k + 1)
    BY <1>1, <1>6, <1>8, <2>2
  <2> QED BY <1>8, <2>1, <2>2 DEF EndBlock
<1>9. CASE SkipSparse
  <2>1. /\ ret' = ret /\ rpos' = rpos /\ faults' = faults /\ ~force
        /\ EndBlock(From(outbuf, cnt + 1))
    BY <1>9 DEF SkipSparse, IsSparse
  <2>2. cnt > 0
    BY <1>1, <2>1 DEF Going
  <2> QED BY <1>2, <1>3, <1>8, <2>1, <2>2
<1>10. ASSUME NEW k \in 1..cnt, Write(k)
       PROVE  RankLower
  <2>1. ret' = ret /\ rpos' = rpos /\ faults' = faults
    BY <1>10 DEF Write
  <2>2. k \in Nat /\ k > 0 /\ k <= l
    BY <1>2, <1>3
  <2>3. CASE k = cnt
    <3>1. EndBlock(From(outbuf, k + 1))
      BY <1>10, <2>3 DEF Write
    <3> QED BY <1>8, <2>1, <2>2, <3>1
  <2>4. CASE k # cnt
    <3>1. pc' = "out" /\ inbuf' = inbuf /\ outbuf' = From(outbuf, k + 1)
      BY <1>1, <1>10, <2>4 DEF Write
    <3> QED BY <1>6, <2>1, <2>2, <3>1
  <2> QED BY <2>3, <2>4
<1>11. CASE WriteInterrupted
  <2>1. Fault /\ pc' = pc /\ ret' = ret
    BY <1>11 DEF WriteInterrupted
  <2>2. Stage' = Stage
    BY <1>1, <2>1 DEF Stage
  <2> QED BY <2>1, <2>2, FaultLowers
<1>12. CASE WriteExits
  <2>1. pc' = "failed"
    BY <1>12 DEF WriteExits, Exit
  <2>2. Stage' < Stage
    BY <1>1, <1>2, <2>1 DEF Stage
  <2> QED BY <2>2, Zenon DEF RankLower, Lower6
<1> QED BY <1>9, <1>10, <1>11, <1>12 DEF dd_out

(* The next part of the program.                                                *)
LEMMA PartLowers ==
  ASSUME jclExits \/ jclReturns \/ setup \/ setupExits \/ dd_close \/ Exits
  PROVE  RankLower
<1>1. \/ pc = "jcl" /\ pc' \in {"setup", "done", "failed"}
      \/ pc = "setup" /\ pc' \in {"read", "failed"}
      \/ pc = "close" /\ (pc' = "exit" \/ (pc' = "out" /\ ret' = "exit"))
      \/ pc = "exit" /\ pc' \in {"done", "failed"}
  BY DEF jclExits, jclReturns, setup, setupExits, Exit, dd_close, StartOut, Exits
<1>2. Stage' < Stage
  BY <1>1 DEF Stage
<1> QED BY <1>2, Zenon DEF RankLower, Lower6

(* dd ends for every size of block and record that Sized allows, every           *)
(* conversion, every input and every cut of its reads and writes, as long as     *)
(* failures are finite: every step lowers the rank, and no rank can go down for  *)
(* ever (NoEndlessDescent of VolumeIdProofs) (dd.c:297-391, 468-545, 814-876,    *)
(* 910-945).                                                                     *)
THEOREM CopyDescends == Spec => NearerToEnd
<1> DEFINE Down == Rank' \in Ranks(6) /\ Below(Rank', Rank)
           Kind == TypeOK /\ OutHolds /\ (Sized => Room)
<1>1. Init => Going
  BY GoingInit
<1>2. Kind /\ (Sized => Going) /\ [Next]_vars => (Sized => Going)'
  <2> SUFFICES ASSUME TypeOK, OutHolds, Sized => Room, Sized => Going, [Next]_vars, Sized'
               PROVE  Going'
    OBVIOUS
  <2>0. Sized
    BY ArgsFixed, SizedFixed DEF vars
  <2>1. CASE Next
    BY <2>0, <2>1, GoingNext
  <2>2. CASE UNCHANGED vars
    BY <2>0, <2>2 DEF vars, args, sink, Going
  <2> QED BY <2>1, <2>2
<1>3. TypeOK /\ (Sized => Going) => (Sized => RankOK)
  BY RankTypes
<1>4. ASSUME TypeOK, OutHolds, Room, Going, RankOK, RankOK', Next
      PROVE  Down
  <2>1. RankLower
    BY <1>4, ReadLowers, ConvertLowers, OutLowers, PartLowers DEF Next
  <2>2. /\ Stage \in Nat /\ MaxFaults - faults \in Nat /\ Remaining \in Nat
        /\ Phase \in Nat /\ Len(inbuf) \in Nat /\ ToWrite \in Nat
        /\ Stage' \in Nat /\ MaxFaults - faults' \in Nat /\ Remaining' \in Nat
        /\ Phase' \in Nat /\ Len(inbuf') \in Nat /\ ToWrite' \in Nat
    BY <1>4, Zenon DEF RankOK
  <2> QED BY <2>1, <2>2, Lower6Below DEF RankLower, Rank
<1>5. Kind /\ (Sized => Going) /\ (Sized => RankOK) /\ (Sized => RankOK)' /\ [Next]_vars
        => [Sized => Down]_vars
  <2> HIDE DEF Down
  <2> SUFFICES ASSUME Kind, Sized => Going, Sized => RankOK, (Sized => RankOK)', Next, Sized
               PROVE  Down
    OBVIOUS
  <2>1. RankOK'
    BY ArgsFixed, SizedFixed
  <2> QED BY <1>4, <2>1
<1> QED BY <1>1, <1>2, <1>3, <1>5, RoomHolds, PTL DEF Spec, NearerToEnd
===============================================================================
