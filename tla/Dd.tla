----------------------------------- MODULE Dd ---------------------------------
(* The copying of dd, testcode/android/dd/dd.c: setup(), dd_in(), the three     *)
(* conversions, dd_out() and dd_close().  One step for every system call and    *)
(* for every record converted.  The environment chooses how much a read or a    *)
(* write transfers and which of them fail.                                      *)
(* A byte is one of the few the program tells apart.  The translation table of  *)
(* the code is never set and left out.                                          *)
EXTENDS Integers, Sequences, Descent, DdOptions

NL == "nl"  Space == "space"  Zero == "zero"
Junk == "junk"            \* what the memory of the output buffer holds by chance

CONSTANTS Byte,          \* what a byte can be
          CommandLines,  \* sequences of operands, see DdOptions
          Inputs,        \* contents of the input
          Outputs,       \* contents of the output before
          MaxFaults,     \* how many system calls fail or are interrupted
          U              \* 2^32: what u_int counts, and size_t where it is as wide

(* The values of the operands are numbers; jcl stores them unchecked.           *)
SoundLine(line) == ParseOperands(line) \in Options

ASSUME BytesAssumption == {NL, Space, Zero, Junk} \subseteq Byte
ASSUME LinesAssumption == \A line \in CommandLines : SoundLine(line)
ASSUME FilesAssumption == Inputs \subseteq Seq(Byte) /\ Outputs \subseteq Seq(Byte)
ASSUME FaultsAssumption == MaxFaults \in Nat
ASSUME WidthAssumption == U \in Nat \ {0}

VARIABLES
  pc,          \* "jcl", "setup", "read", "conv", "out", "close", "exit";
               \* "done", and "failed" after exit(1)
  opt,         \* the options, DdOptions
  pipe,        \* the input cannot seek
  input, rpos,               \* the input and the position in it
  inbuf,       \* in: the in.dbcnt bytes before in.dbp
  intrunc,     \* block: the rest of a truncated record is being dropped
  outbuf,      \* out: from outp on; between calls of dd_out out.dbcnt bytes
  force, cnt, ret,           \* dd_out: its argument, cnt, where it returns to
  pending,     \* pending seek if sparse
  output, wpos,              \* the output and the position in it
  blocks,      \* st.in_full + st.in_part
  bytes,       \* st.bytes
  faults,      \* bound
  taken,       \* history: the bytes that were put into the input buffer
  short        \* history: a write transferred less than asked for

args == <<opt, pipe, input>>
source == <<rpos, inbuf, intrunc, blocks, taken>>
sink == <<outbuf, force, cnt, ret, pending, output, wpos, bytes, short>>
vars == <<pc, args, source, sink, faults>>

Least(a, b) == IF a < b THEN a ELSE b
Fill(byte, n) == [i \in 1..n |-> byte]
From(s, i) == SubSeq(s, i, Len(s))
Has(flag) == flag \in opt.flags
Records == Has("BLOCK") \/ Has("UNBLOCK")

Init ==
  /\ pc = "jcl"
  /\ \E line \in CommandLines : opt = jcl(line)
  /\ pipe \in BOOLEAN /\ input \in Inputs /\ rpos = 0
  /\ inbuf = <<>> /\ intrunc = FALSE /\ outbuf = <<>>
  /\ force = FALSE /\ cnt = 0 /\ ret = "read" /\ pending = 0
  /\ output \in Outputs /\ wpos = 0 /\ blocks = 0 /\ bytes = 0
  /\ faults = 0 /\ taken = <<>> /\ short = FALSE

Fault == faults < MaxFaults /\ faults' = faults + 1

(* exit(1) with nothing else changed.                                           *)
Exit == pc' = "failed" /\ UNCHANGED <<args, source, sink>>

-------------------------------------------------------------------------------
(* The files.                                                                   *)

(* A write of these bytes at this position: a gap before it reads as zeros.     *)
Overwrite(file, pos, new) ==
  [i \in 1..(IF pos + Len(new) > Len(file) THEN pos + Len(new) ELSE Len(file)) |->
     IF i > pos /\ i <= pos + Len(new) THEN new[i - pos]
     ELSE IF i <= Len(file) THEN file[i] ELSE Zero]

(* setup: a file is opened with O_TRUNC unless seek or notrunc is given, and the *)
(* standard output is used as it is.                                            *)
Opened == IF Has("OF") /\ ~Has("SEEK") /\ ~Has("NOTRUNC") THEN <<>> ELSE output

(* setup: the end of the file is put where seek says.                           *)
Truncates == Has("OF") /\ Has("SEEK") /\ ~Has("NOTRUNC")
Truncated ==
  IF Truncates
  THEN [i \in 1..opt.seek * opt.obs |-> IF i <= Len(output) THEN output[i] ELSE Zero]
  ELSE Opened

(* setup: what the buffers are to hold, and how much memory that asks for.      *)
Most(a, b) == IF a > b THEN a ELSE b
InAsked == IF Records THEN Most(opt.ibs, opt.cbs) + opt.cbs ELSE opt.obs + opt.ibs - 1
OutAsked == IF Records THEN opt.obs + opt.cbs ELSE opt.obs + opt.ibs - 1
InRoom == InAsked % U
OutRoom == OutAsked % U

(* jcl has refused the operands, or a count of 0 has ended the program.         *)
jclExits ==
  /\ pc = "jcl" /\ opt.status # "ok"
  /\ pc' = IF opt.status = "ended" THEN "done" ELSE "failed"
  /\ UNCHANGED <<args, source, sink, faults>>

jclReturns ==
  /\ pc = "jcl" /\ opt.status = "ok"
  /\ pc' = "setup"
  /\ UNCHANGED <<args, source, sink, faults>>

(* setup, pos_in and pos_out.  More than one input file needs a tape, which     *)
(* getfdtype never finds.  With two sizes of 0, -1 bytes are asked for, which   *)
(* malloc refuses.  Skipping on a pipe reads and drops.  An error of ftruncate  *)
(* is ignored.                                                                  *)
setup ==
  /\ pc = "setup" /\ opt.files = 1
  /\ InAsked >= 0
  /\ pipe => opt.skip * opt.ibs <= Len(input)
  /\ pc' = "read"
  /\ \/ output' = Truncated /\ UNCHANGED faults
     \/ Truncates /\ Fault /\ output' = Opened
  /\ rpos' = opt.skip * opt.ibs
  /\ wpos' = opt.seek * opt.obs
  /\ UNCHANGED <<args, inbuf, intrunc, blocks, taken, outbuf, force, cnt, ret, pending,
                 bytes, short>>

(* The output has not been opened yet, or it has and is cut already.            *)
setupExits ==
  /\ pc = "setup" /\ pc' = "failed"
  /\ \/ /\ Fault \/ (opt.files # 1 /\ UNCHANGED faults)
        /\ UNCHANGED output
     \/ /\ opt.files = 1
        /\ \/ InAsked < 0 /\ UNCHANGED faults
           \/ pipe /\ opt.skip * opt.ibs > Len(input) /\ UNCHANGED faults
           \/ Fault
        /\ output' = Opened
  /\ UNCHANGED <<args, source, outbuf, force, cnt, ret, pending, wpos, bytes, short>>

-------------------------------------------------------------------------------
(* dd_out                                                                       *)

(* Calling dd_out on this output buffer.                                        *)
StartOut(buf, forced, back) ==
  /\ pc' = "out" /\ outbuf' = buf /\ force' = forced /\ ret' = back
  /\ cnt' = IF forced THEN Len(buf) ELSE opt.obs

(* The end of a block: the next one if the buffer holds another, or the return  *)
(* to the caller.  def() then takes the rest over as its input buffer, which is *)
(* the same memory.                                                             *)
EndBlock(rest) ==
  /\ outbuf' = rest
  /\ IF Len(rest) < opt.obs
     THEN /\ pc' = ret /\ cnt' = 0
          /\ inbuf' = IF cfunc(opt) = "def" /\ ~force THEN rest ELSE inbuf
     ELSE cnt' = opt.obs /\ UNCHANGED <<pc, inbuf>>

IsSparse == ~force /\ Has("SPARSE") /\ \A i \in 1..cnt : outbuf[i] = Zero

(* A block of zeros is remembered as a seek to come.                            *)
SkipSparse ==
  /\ pc = "out" /\ IsSparse
  /\ pending' = pending + cnt
  /\ EndBlock(From(outbuf, cnt + 1))
  /\ UNCHANGED <<args, rpos, intrunc, blocks, taken, force, ret, output, wpos, bytes,
                 short, faults>>

(* Mutant: after a short write the block is written again from its start.       *)
WriteAgain(k) ==
  /\ pc = "out" /\ ~IsSparse /\ wpos + pending >= 0
  /\ output' = Overwrite(output, wpos + pending, SubSeq(outbuf, 1, k))
  /\ wpos' = wpos + pending + k
  /\ bytes' = bytes + pending + k
  /\ pending' = 0
  /\ IF k = cnt THEN EndBlock(From(outbuf, k + 1)) /\ UNCHANGED short
     ELSE cnt' = cnt - k /\ short' = TRUE /\ UNCHANGED <<pc, inbuf, outbuf>>
  /\ UNCHANGED <<args, rpos, intrunc, blocks, taken, force, ret, faults>>

(* The pending seek, then a write of k bytes out of cnt.                        *)
Write(k) ==
  /\ pc = "out" /\ ~IsSparse /\ wpos + pending >= 0
  /\ output' = Overwrite(output, wpos + pending, SubSeq(outbuf, 1, k))
  /\ wpos' = wpos + pending + k
  /\ bytes' = bytes + pending + k
  /\ pending' = 0
  /\ IF k = cnt THEN EndBlock(From(outbuf, k + 1)) /\ UNCHANGED short
     ELSE /\ outbuf' = From(outbuf, k + 1) /\ cnt' = cnt - k /\ short' = TRUE
          /\ UNCHANGED <<pc, inbuf>>
  /\ UNCHANGED <<args, rpos, intrunc, blocks, taken, force, ret, faults>>

(* The write is interrupted after the seek: it is repeated.                     *)
WriteInterrupted ==
  /\ pc = "out" /\ ~IsSparse /\ wpos + pending >= 0
  /\ Fault
  /\ wpos' = wpos + pending /\ bytes' = bytes + pending /\ pending' = 0
  /\ UNCHANGED <<pc, args, source, outbuf, force, cnt, ret, output, short>>

(* A write error, the end of the device, or a seek that fails.  A write of no   *)
(* bytes, which only a size of 0 leads to, is taken for the end of the device.  *)
WriteExits ==
  /\ pc = "out" /\ ~IsSparse
  /\ \/ Fault
     \/ (wpos + pending < 0 \/ cnt = 0) /\ UNCHANGED faults
  /\ Exit

dd_out == SkipSparse \/ (\E k \in 1..cnt : Write(k)) \/ WriteInterrupted \/ WriteExits

-------------------------------------------------------------------------------
(* dd_in                                                                        *)

(* Mutant: only as many bytes of padding as were read.                          *)
PaddedShort(chunk) ==
  IF Has("SYNC")
  THEN chunk \o Fill(IF Records THEN Space ELSE Zero, Len(chunk))
  ELSE chunk

(* What a read leaves in the input buffer: with sync it is padded to a block.   *)
Padded(chunk) ==
  IF Has("SYNC")
  THEN chunk \o Fill(IF Records THEN Space ELSE Zero, opt.ibs - Len(chunk))
  ELSE chunk

(* A block has arrived: with bs it is written at once, else converted.          *)
Accept(block) ==
  /\ blocks' = blocks + 1 /\ taken' = taken \o block
  /\ IF Has("BS")
     THEN StartOut(inbuf \o block, TRUE, "read") /\ inbuf' = <<>>
     ELSE inbuf' = inbuf \o block /\ pc' = "conv" /\ UNCHANGED <<outbuf, force, cnt, ret>>
  /\ UNCHANGED <<args, intrunc, pending, output, wpos, bytes, short>>

Remaining == IF rpos < Len(input) THEN Len(input) - rpos ELSE 0

CountReached == opt.count > 0 /\ blocks >= opt.count

(* count blocks have been read, or the end of the input is reached.             *)
ReadEnds ==
  /\ pc = "read"
  /\ CountReached \/ Least(opt.ibs, Remaining) = 0
  /\ pc' = "close"
  /\ UNCHANGED <<args, source, sink, faults>>

Read(k) ==
  /\ pc = "read" /\ ~CountReached
  /\ rpos' = rpos + k
  /\ Accept(Padded(SubSeq(input, rpos + 1, rpos + k)))
  /\ UNCHANGED faults

(* A read error with noerror: past it if the input can seek; a block of padding *)
(* with sync, nothing without.                                                  *)
ReadError ==
  /\ pc = "read" /\ ~CountReached /\ Has("NOERROR")
  /\ Fault
  /\ rpos' = IF pipe THEN rpos ELSE rpos + opt.ibs
  /\ IF Has("SYNC") THEN Accept(Padded(<<>>))
     ELSE UNCHANGED <<pc, args, inbuf, intrunc, blocks, taken, sink>>

ReadExits ==
  /\ pc = "read" /\ ~CountReached /\ ~Has("NOERROR")
  /\ Fault
  /\ Exit

dd_in == ReadEnds \/ (\E k \in 1..Least(opt.ibs, Remaining) : Read(k)) \/ ReadError
         \/ ReadExits

-------------------------------------------------------------------------------
(* The conversions.                                                             *)

(* Mutant: a buffer that holds exactly a block is not written yet.              *)
defLate ==
  /\ pc = "conv" /\ cfunc(opt) = "def"
  /\ IF Len(inbuf) > opt.obs THEN StartOut(inbuf, FALSE, "read")
     ELSE outbuf' = inbuf /\ pc' = "read" /\ UNCHANGED <<force, cnt, ret>>
  /\ UNCHANGED <<args, source, pending, output, wpos, bytes, short, faults>>

(* The input buffer is the output buffer.                                       *)
def ==
  /\ pc = "conv" /\ cfunc(opt) = "def"
  /\ IF Len(inbuf) >= opt.obs THEN StartOut(inbuf, FALSE, "read")
     ELSE outbuf' = inbuf /\ pc' = "read" /\ UNCHANGED <<force, cnt, ret>>
  /\ UNCHANGED <<args, source, pending, output, wpos, bytes, short, faults>>

(* A record was added to the output buffer: write it out when it is full.       *)
RecordAdded(buf) ==
  IF Len(buf) >= opt.obs THEN StartOut(buf, FALSE, "conv")
  ELSE outbuf' = buf /\ UNCHANGED <<pc, force, cnt, ret>>

(* The input buffer after the next newline, and whether there is one.           *)
HasNL(s) == \E i \in 1..Len(s) : s[i] = NL
FirstNL(s) == CHOOSE i \in 1..Len(s) : s[i] = NL /\ \A j \in 1..i - 1 : s[j] # NL
(* Mutant: the newline that ends a truncated record starts the next one.        *)
AtNL(s) == IF HasNL(s) THEN From(s, FirstNL(s)) ELSE <<>>
AfterNL(s) == IF HasNL(s) THEN From(s, FirstNL(s) + 1) ELSE <<>>

(* Mutant: the block goes on being converted although all of it was dropped.    *)
blockDropAll ==
  /\ pc = "conv" /\ cfunc(opt) = "block" /\ intrunc
  /\ inbuf' = AfterNL(inbuf)
  /\ intrunc' = ~HasNL(inbuf)
  /\ UNCHANGED <<pc, args, rpos, blocks, taken, sink, faults>>

(* block: drop the rest of a record truncated in an earlier block.              *)
blockDrop ==
  /\ pc = "conv" /\ cfunc(opt) = "block" /\ intrunc
  /\ inbuf' = AfterNL(inbuf)
  /\ intrunc' = ~HasNL(inbuf)
  /\ pc' = IF intrunc' THEN "read" ELSE pc
  /\ UNCHANGED <<args, rpos, blocks, taken, sink, faults>>

(* The length of the record at the head of the buffer, at most cbs.             *)
RecordLen(s) == LET n == Least(opt.cbs, Len(s))
                IN IF HasNL(SubSeq(s, 1, n)) THEN FirstNL(s) - 1 ELSE n

(* Mutant: the newline that ends a record stays in the input buffer.            *)
AfterRecordOnly(rest, n) == IF n < opt.cbs THEN rest ELSE AfterNL(rest)
(* What follows a record of length n: its newline is dropped, and the rest of   *)
(* it if it was truncated.                                                      *)
AfterRecord(rest, n) == IF n < opt.cbs THEN Tail(rest) ELSE AfterNL(rest)

(* block: one record, padded or truncated to cbs.                               *)
block ==
  /\ pc = "conv" /\ cfunc(opt) = "block" /\ ~intrunc
  /\ HasNL(inbuf) \/ Len(inbuf) >= opt.cbs
  /\ inbuf # <<>>
  /\ LET n    == RecordLen(inbuf)
         rest == From(inbuf, n + 1)
     IN /\ inbuf' = AfterRecord(rest, n)
        /\ intrunc' = (n = opt.cbs /\ ~HasNL(rest))
        /\ RecordAdded(outbuf \o SubSeq(inbuf, 1, n) \o Fill(Space, opt.cbs - n))
  /\ UNCHANGED <<args, rpos, blocks, taken, pending, output, wpos, bytes, short, faults>>

(* Without its trailing blanks and with a newline.                              *)
Stripped(s) ==
  LET ends == {i \in 1..Len(s) : s[i] # Space}
      last == CHOOSE i \in ends \cup {0} : \A j \in ends : j <= i
  IN Append(SubSeq(s, 1, last), NL)

(* unblock: one record of cbs bytes.                                            *)
unblock ==
  /\ pc = "conv" /\ cfunc(opt) = "unblock" /\ Len(inbuf) >= opt.cbs
  /\ inbuf' = From(inbuf, opt.cbs + 1)
  /\ RecordAdded(outbuf \o Stripped(SubSeq(inbuf, 1, opt.cbs)))
  /\ UNCHANGED <<args, rpos, intrunc, blocks, taken, pending, output, wpos, bytes, short,
                 faults>>

(* block and unblock: what is left is no whole record.                          *)
ConvReturns ==
  /\ pc = "conv"
  /\ \/ cfunc(opt) = "block" /\ ~intrunc
        /\ (inbuf = <<>> \/ (~HasNL(inbuf) /\ Len(inbuf) < opt.cbs))
     \/ cfunc(opt) = "unblock" /\ Len(inbuf) < opt.cbs
  /\ pc' = "read"
  /\ UNCHANGED <<args, source, sink, faults>>

convert == def \/ blockDrop \/ block \/ unblock \/ ConvReturns

-------------------------------------------------------------------------------
(* dd_close                                                                     *)

(* def_close, block_close, unblock_close: what the input buffer still holds     *)
(* goes to the output buffer.                                                   *)
Closed ==
  IF inbuf = <<>> THEN outbuf
  ELSE CASE cfunc(opt) = "def"     -> inbuf
         [] cfunc(opt) = "block"   -> outbuf \o inbuf \o Fill(Space, opt.cbs - Len(inbuf))
         [] cfunc(opt) = "unblock" -> outbuf \o Stripped(inbuf)

(* out.dbp - out.db then: block_close does not advance it over its record.      *)
ClosedAt == IF cfunc(opt) = "block" THEN Len(outbuf) ELSE Len(Closed)

(* osync: zeros from out.dbp on, as many as the count says are missing; what    *)
(* follows up to the block size is written as it lies in the buffer.            *)
OSynced ==
  LET pad == opt.obs - Len(Closed)
  IN IF Has("OSYNC") /\ pad > 0
     THEN [i \in 1..opt.obs |-> IF i <= ClosedAt THEN Closed[i]
                                ELSE IF i <= ClosedAt + pad THEN Zero
                                ELSE IF i <= Len(Closed) THEN Closed[i] ELSE Junk]
     ELSE Closed

(* dd_close: with nothing else to write, the last pending block is written.     *)
dd_close ==
  /\ pc = "close"
  /\ IF OSynced = <<>> /\ pending # 0
     THEN /\ StartOut(Fill(Zero, opt.obs), TRUE, "exit")
          /\ pending' = pending - opt.obs
     ELSE /\ IF OSynced = <<>> THEN pc' = "exit" /\ UNCHANGED <<outbuf, force, cnt, ret>>
             ELSE StartOut(OSynced, TRUE, "exit")
          /\ UNCHANGED pending
  /\ inbuf' = <<>>
  /\ UNCHANGED <<args, rpos, intrunc, blocks, taken, output, wpos, bytes, short, faults>>

(* fsync and close, either of which may report a late write error.              *)
Exits ==
  /\ pc = "exit"
  /\ \/ pc' = "done" /\ UNCHANGED faults
     \/ pc' = "failed" /\ Fault
  /\ UNCHANGED <<args, source, sink>>

Next == jclExits \/ jclReturns \/ setup \/ setupExits \/ dd_in \/ convert \/ dd_out
        \/ dd_close \/ Exits

Spec == Init /\ [][Next]_vars
FairSpec == Spec /\ WF_vars(Next)

-------------------------------------------------------------------------------
(* Properties                                                                   *)

ControlTypes ==
  /\ pc \in {"jcl", "setup", "read", "conv", "out", "close", "exit", "done", "failed"}
  /\ ret \in {"read", "conv", "exit"}
  /\ opt \in Options /\ pipe \in BOOLEAN
  /\ intrunc \in BOOLEAN /\ force \in BOOLEAN /\ short \in BOOLEAN
NumberTypes ==
  /\ rpos \in Nat /\ wpos \in Nat /\ cnt \in Nat /\ blocks \in Nat /\ faults \in Nat
  /\ pending \in Int /\ bytes \in Int
ByteTypes ==
  /\ input \in Seq(Byte) /\ output \in Seq(Byte)
  /\ inbuf \in Seq(Byte) /\ outbuf \in Seq(Byte) /\ taken \in Seq(Byte)
TypeOK == ControlTypes /\ NumberTypes /\ ByteTypes

(* jcl checks no size (dd.c:1153-1215).  With a size of 0, or with records whose *)
(* sum u_int cuts off (dd.c:217-218), dd gets less memory than its loops write, *)
(* or never ends; the properties say nothing of what it does then.              *)
Sized ==
  opt.status = "ok" =>
    /\ opt.ibs > 0 /\ opt.obs > 0 /\ (Records => opt.cbs > 0)
    /\ InAsked < U /\ OutAsked < U

(* No more is put into the buffers than setup allocates (dd.c:210-221): a read  *)
(* of a whole block fits behind what the input buffer keeps, and every record   *)
(* behind what the output buffer keeps, however short the reads and the writes  *)
(* were.  The comments at dd.c:721, 779 and 891-892 name the same bounds.       *)
BufferBounds ==
  Sized /\ opt.status = "ok" =>
    /\ pc = "read" => Len(inbuf) + opt.ibs <= InRoom
    /\ Len(inbuf) <= InRoom
    /\ Len(outbuf) <= OutRoom

(* What was written behind the place that seek asked for.                       *)
Sent == SubSeq(output, opt.seek * opt.obs + 1, wpos)

(* While dd copies unconverted, what was written and what the buffer holds are  *)
(* together what was read, in order and once: through reads of any size, blocks *)
(* that are cut and joined, short writes, and writes that are repeated after an *)
(* interruption (dd.c:315-391, 468-550, 717-750).                               *)
Copying == /\ opt.status = "ok" /\ cfunc(opt) = "def" /\ ~Has("SPARSE") /\ ~Has("OSYNC")
           /\ pc \in {"read", "conv", "out", "close", "exit", "done"}
NothingLost ==
  Sized /\ Copying => Sent \o (IF pc = "out" THEN outbuf ELSE inbuf) = taken

Whole == INSTANCE DdConvert
Converted == CASE cfunc(opt) = "def"     -> taken
               [] cfunc(opt) = "block"   -> Whole!Blocked(taken, opt.cbs)
               [] cfunc(opt) = "unblock" -> Whole!Unblocked(taken, opt.cbs)

(* Options that do not copy what was read: sparse after a short write, sparse   *)
(* over what the output held before, which only an of= without seek and notrunc *)
(* is cleared of, and osync of blocked records.                                 *)
Unreliable == (Has("SPARSE") /\ (short \/ ~Has("OF") \/ Has("NOTRUNC") \/ Has("SEEK")))
              \/ (Has("OSYNC") /\ Has("BLOCK"))

(* When dd ends well, the output is the conversion of the whole input, however  *)
(* its reads were cut into blocks and its writes into pieces and whichever of   *)
(* them were repeated (dd.c:297-391, 468-550, 717-945); osync adds zeros, fewer *)
(* than a block or exactly one; and the number of bytes reported is the number  *)
(* written (dd.c:512-519).                                                      *)
CopyExact ==
  Sized /\ pc = "done" /\ opt.status = "ok" /\ ~Unreliable =>
    LET n == Len(Converted)
    IN /\ Len(Sent) >= n /\ SubSeq(Sent, 1, n) = Converted
       /\ \A i \in n + 1..Len(Sent) : Sent[i] = Zero
       /\ Len(Sent) - n <= IF Has("OSYNC") THEN opt.obs ELSE 0
       /\ bytes = Len(Sent)
       /\ faults = 0 /\ opt.count = 0 /\ ~Has("SYNC") =>
             taken = From(input, opt.skip * opt.ibs + 1)

(* With noerror and sync a block that cannot be read is replaced by padding of  *)
(* its size, so that what follows it keeps its place (dd.c:341-355), as long as *)
(* no read was short.                                                           *)
ErrorsKeepOffsets ==
  Sized /\ opt.status = "ok" /\ Has("SYNC") /\ rpos = (opt.skip + blocks) * opt.ibs =>
    \A i \in 1..Len(taken) :
      \/ taken[i] = IF Records THEN Space ELSE Zero
      \/ LET place == opt.skip * opt.ibs + i
         IN place \in DOMAIN input /\ taken[i] = input[place]

(* dd ends: no loop of the conversions, of dd_out or of dd_in goes on without   *)
(* consuming input or output (dd.c:297, 468-545, 814, 910).                     *)
Ends == Sized => <>(pc \in {"done", "failed"})

(* The same without fairness, for the sizes that Sized allows: every step       *)
(* brings dd nearer to its end.  A failure is used up, or a read takes from the *)
(* input (dd.c:297-391), a conversion from its buffer (814-876, 910-945), a     *)
(* write from the output buffer (468-545), or the next part of the program      *)
(* begins.                                                                      *)
Stage == CASE pc = "jcl"   -> 6
           [] pc = "setup" -> 5
           [] pc \in {"read", "conv"} -> 4
           [] pc = "out"   -> IF ret = "exit" THEN 2 ELSE 4
           [] pc = "close" -> 3
           [] pc = "exit"  -> 1
           [] OTHER        -> 0
Phase == CASE pc = "conv" -> 2
           [] pc = "out"  -> IF ret = "conv" THEN 2 ELSE 1
           [] OTHER       -> 0
ToWrite == IF pc = "out" THEN Len(outbuf) + 1 ELSE 0
Rank == <<Stage, MaxFaults - faults, Remaining, Phase, Len(inbuf), ToWrite>>
NearerToEnd == [][Sized => Rank' \in Ranks(6) /\ Below(Rank', Rank)]_vars

(* The comment of block (dd.c:778): "max in buffer:  MAX(ibs, cbsz)".           *)
BlockInput == cfunc(opt) = "block" => Len(inbuf) <= Most(opt.ibs, opt.cbs)

(* The comment of def (dd.c:721): "Worst case buffer calculation is             *)
(* (ibs + obs - 1)".                                                            *)
WorstCase == cfunc(opt) = "def" => Len(inbuf) <= InAsked

(* The comment of dd_close (dd.c:413): "If there are pending sparse blocks, make *)
(* sure to write out the final block un-sparse".  So a sparse copy is a copy.   *)
SparseExact == pc = "done" /\ Has("SPARSE") /\ Has("OF") /\ cfunc(opt) = "def" => Sent = taken
===============================================================================
