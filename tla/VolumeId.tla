-------------------------------- MODULE VolumeId ------------------------------
(* The probing of a FAT volume, testcode/linux/blkid/blkid.c: main(),           *)
(* volume_id_probe_vfat(), the two buffers of volume_id_get_buffer() and the    *)
(* reads that fill them.  One step for every read() and for every stretch of    *)
(* the probe between two requests.                                              *)
(* A device is the fields of its super block and a sequence of tokens, one for  *)
(* each unit of length.  Two units of a directory entry are looked at: its name *)
(* and attributes, at its start, and its cluster numbers.                       *)
EXTENDS Integers, Sequences, Descent

CONSTANTS Devices,      \* [sb : fields of the super block, data : Seq(Token)]
          Token,        \* what the device holds
          SuperLen,     \* 0x200
          SBSize,       \* SB_BUFFER_SIZE
          SeekSize,     \* SEEK_BUFFER_SIZE
          Early,        \* 64*1024
          EntrySize,    \* sizeof(struct vfat_dir_entry)
          ClusterAt,    \* offset of cluster_high, cluster_low in an entry
          SectorSizes,  \* 0x200, 0x400, 0x800, 0x1000
          W,            \* 2^32
          MagicAt,      \* offset of type.fat32.magic
          Passes,       \* maxloop at its start
          MaxFaults     \* how many system calls are interrupted or fail

ASSUME LengthsAssumption ==
  /\ SuperLen \in Nat /\ SBSize \in Nat /\ SeekSize \in Nat /\ Early \in Nat
  /\ MagicAt \in Nat /\ MagicAt < SuperLen /\ SuperLen <= SBSize
  /\ EntrySize \in Nat /\ ClusterAt \in 1..EntrySize - 1
  /\ W \in Nat \ {0} /\ Passes \in Nat \ {0, 1}
  /\ SectorSizes \subseteq Nat /\ MaxFaults \in Nat

Zero == "zero"    \* zero bytes: fresh memory, the end marker, no cluster
FAT32 == "FAT32"  \* the magic, as the probe writes it

Fields == [ntfs : BOOLEAN, sector_size : Nat, per_cluster : Nat, reserved : Nat,
           fats : Nat, fat_length : Nat, fat32_length : Nat, root_cluster : Nat]

ASSUME DevicesAssumption ==
  /\ {Zero, FAT32} \subseteq Token
  /\ Devices \subseteq [sb : Fields, data : Seq(Token)]

VARIABLES
  pc,        \* "main", "get", "read", "back"; "done", and "trap" of a division by 0
  at,        \* the request of the probe that is being served: "super", "cluster", "again"
  dev,       \* the device
  sbbuf, sbbuf_len,                    \* sbbuf is <<>> for NULL
  seekbuf, seekbuf_off, seekbuf_len,
  gen,       \* history: how often sbbuf was allocated
  req,       \* [off, len] of the request
  dst, small_off, total,               \* volume_id_get_buffer and full_read
  result,    \* "some" or "NULL"
  vs,        \* history: gen when vs was obtained
  error,     \* id->error
  loop,      \* maxloop
  label,     \* number of the entry found, 0 for NULL
  ret,       \* what the probe returns
  faults     \* bound

probe == <<at, vs, loop, label, ret>>
buffers == <<sbbuf, sbbuf_len, seekbuf, seekbuf_off, seekbuf_len, gen>>
access == <<req, dst, small_off, total, result, error>>
vars == <<pc, dev, probe, buffers, access, faults>>

Init ==
  /\ pc = "main" /\ at = "super" /\ dev \in Devices
  /\ sbbuf = <<>> /\ sbbuf_len = 0 /\ seekbuf = <<>> /\ seekbuf_off = 0 /\ seekbuf_len = 0
  /\ gen = 0 /\ req = [off |-> 0, len |-> 0]
  /\ dst = "sb" /\ small_off = 0 /\ total = 0 /\ result = "NULL" /\ error = FALSE
  /\ vs = 0 /\ loop = Passes /\ label = 0 /\ ret = 0 /\ faults = 0

Fault == faults < MaxFaults /\ faults' = faults + 1

-------------------------------------------------------------------------------
(* volume_id_get_buffer                                                         *)

Fits == req.off + req.len <= SBSize
(* Mutant: the offset is not added to the length.                               *)
HasLength == req.len <= sbbuf_len
HasAlready == req.off + req.len <= sbbuf_len

(* The part of the superblock buffer, which is read from the start again when   *)
(* it is too short; allocated and cleared first if there is none.               *)
FromSuperblock ==
  /\ pc = "get" /\ Fits
  /\ IF sbbuf = <<>> THEN sbbuf' = [i \in 1..SBSize |-> Zero] /\ gen' = gen + 1
     ELSE UNCHANGED <<sbbuf, gen>>
  /\ dst' = "sb" /\ small_off' = req.off
  /\ IF HasAlready
     THEN pc' = "back" /\ result' = "some" /\ UNCHANGED <<sbbuf_len, total>>
     ELSE pc' = "read" /\ sbbuf_len' = req.off + req.len /\ total' = 0 /\ UNCHANGED result
  /\ UNCHANGED <<dev, probe, seekbuf, seekbuf_off, seekbuf_len, req, error, faults>>

TooLong ==
  /\ pc = "get" /\ ~Fits /\ req.len > SeekSize
  /\ pc' = "back" /\ result' = "NULL"
  /\ UNCHANGED <<dev, probe, buffers, req, dst, small_off, total, error, faults>>

Held == req.off >= seekbuf_off /\ req.off + req.len <= seekbuf_off + seekbuf_len

FromSeekBuffer ==
  /\ pc = "get" /\ ~Fits /\ req.len <= SeekSize /\ Held
  /\ pc' = "back" /\ result' = "some"
  /\ dst' = "seek" /\ small_off' = req.off - seekbuf_off
  /\ UNCHANGED <<dev, probe, buffers, req, total, error, faults>>

(* realloc keeps what fits of the old bytes.                                    *)
Resized(buf, n) == [i \in 1..n |-> IF i <= Len(buf) THEN buf[i] ELSE Zero]

MoveSeekBuffer ==
  /\ pc = "get" /\ ~Fits /\ req.len <= SeekSize /\ ~Held
  /\ pc' = "read" /\ dst' = "seek" /\ small_off' = 0 /\ total' = 0
  /\ seekbuf' = Resized(seekbuf, req.len)
  /\ seekbuf_off' = req.off /\ seekbuf_len' = req.len
  /\ UNCHANGED <<dev, probe, sbbuf, sbbuf_len, gen, req, result, error, faults>>

(* The place and the length of the read.                                        *)
Start == IF dst = "sb" THEN 0 ELSE req.off
Length == IF dst = "sb" THEN req.off + req.len ELSE req.len
Size == Len(dev.data)

(* read() puts k bytes of the device behind what full_read has already.         *)
Filled(buf, k) ==
  [i \in 1..Len(buf) |-> IF i > total /\ i <= total + k THEN dev.data[Start + i] ELSE buf[i]]

Read(k) ==
  /\ pc = "read" /\ total < Length /\ Start + total + k <= Size
  /\ IF dst = "sb" THEN sbbuf' = Filled(sbbuf, k) /\ UNCHANGED seekbuf
     ELSE seekbuf' = Filled(seekbuf, k) /\ UNCHANGED sbbuf
  /\ total' = total + k
  /\ UNCHANGED <<pc, dev, probe, sbbuf_len, seekbuf_off, seekbuf_len, gen, req, dst,
                 small_off, result, error, faults>>

(* EINTR                                                                        *)
ReadInterrupted ==
  /\ pc = "read" /\ total < Length
  /\ Fault
  /\ UNCHANGED <<pc, dev, probe, buffers, access>>

ReadDone ==
  /\ pc = "read" /\ total = Length
  /\ pc' = "back" /\ result' = "some"
  /\ UNCHANGED <<dev, probe, buffers, req, dst, small_off, total, error, faults>>

(* volume_id_free_buffer                                                        *)
Freed ==
  /\ sbbuf' = <<>> /\ sbbuf_len' = 0 /\ seekbuf' = <<>> /\ seekbuf_off' = 0
  /\ seekbuf_len' = 0 /\ UNCHANGED gen

(* The end of the device, an error of lseek or read.                            *)
ReadFails ==
  /\ pc = "read"
  /\ \/ total < Length /\ Start + total >= Size /\ UNCHANGED faults
     \/ total < Length /\ Fault
  /\ error' = (error \/ Start < Early)
  /\ Freed
  /\ pc' = "back" /\ result' = "NULL"
  /\ UNCHANGED <<dev, probe, req, dst, small_off, total>>

volume_id_get_buffer == FromSuperblock \/ TooLong \/ FromSeekBuffer \/ MoveSeekBuffer
full_read == (\E k \in 1..Length - total : Read(k)) \/ ReadInterrupted \/ ReadDone \/ ReadFails

(* What the caller is given.                                                    *)
Returned(i) == IF dst = "sb" THEN sbbuf[small_off + i] ELSE seekbuf[small_off + i]

-------------------------------------------------------------------------------
(* volume_id_probe_vfat                                                         *)

Request(where, off, len) ==
  /\ pc' = "get" /\ at' = where /\ req' = [off |-> off, len |-> len]

Return(value) ==
  /\ pc' = "done" /\ ret' = value

main ==
  /\ pc = "main"
  /\ Request("super", 0, SuperLen)
  /\ UNCHANGED <<dev, vs, loop, label, ret, buffers, dst, small_off, total, result, error,
                 faults>>

(* The fields the probe works with.                                             *)
Sb == dev.sb
uint32_t(n) == n % W
fat_size_sct ==
  uint32_t((IF Sb.fat_length = 0 THEN Sb.fat32_length ELSE Sb.fat_length) * Sb.fats)
buf_size == Sb.per_cluster * Sb.sector_size
next_off ==
  (uint32_t(Sb.reserved + fat_size_sct) + uint32_t(Sb.root_cluster - 2) * Sb.per_cluster)
    * Sb.sector_size

(* Mutant: the passes are not counted.                                          *)
NextPassUncounted ==
  IF loop = 1
  THEN Request("again", 0, SuperLen) /\ loop' = 0
  ELSE Request("cluster", next_off, buf_size) /\ loop' = loop

(* Any pass of the loop asks for the first cluster of the root directory.       *)
NextPass ==
  IF loop = 1
  THEN Request("again", 0, SuperLen) /\ loop' = 0
  ELSE Request("cluster", next_off, buf_size) /\ loop' = loop - 1

Refused ==
  /\ pc = "back" /\ at = "super"
  /\ result = "NULL" \/ Sb.ntfs \/ Sb.sector_size \notin SectorSizes
  /\ Return(-1)
  /\ IF result = "NULL" THEN UNCHANGED <<sbbuf, vs>>
     ELSE sbbuf' = [sbbuf EXCEPT ![MagicAt + 1] = FAT32] /\ vs' = gen
  /\ UNCHANGED <<dev, at, loop, label, sbbuf_len, seekbuf, seekbuf_off, seekbuf_len, gen,
                 access, faults>>

(* The magic is written before it is compared, so all the checks of it, and of  *)
(* the sectors per cluster, are passed over.                                    *)
Accepted ==
  /\ pc = "back" /\ at = "super" /\ result = "some"
  /\ ~Sb.ntfs /\ Sb.sector_size \in SectorSizes
  /\ sbbuf' = [sbbuf EXCEPT ![MagicAt + 1] = FAT32] /\ vs' = gen
  /\ IF Sb.per_cluster = 0 THEN pc' = "trap" /\ UNCHANGED <<at, loop, req>> ELSE NextPass
  /\ UNCHANGED <<dev, label, ret, sbbuf_len, seekbuf, seekbuf_off, seekbuf_len, gen, dst,
                 small_off, total, result, error, faults>>

(* get_attr_volume_id: the first volume label before the end of the directory.  *)
(* An entry that has a cluster is not one ("labels do not have file data"), and *)
(* the magic in the superblock buffer may be read as such a cluster.            *)
Entries == 1..buf_size \div EntrySize
Place(i) == (i - 1) * EntrySize + 1
IsLabel(name, cluster) == name = "label" /\ cluster = Zero
LabelRead(i) == IsLabel(Returned(Place(i)), Returned(Place(i) + ClusterAt))
(* Mutant: the end marker is not looked for.                                    *)
LabelsAnywhere == {i \in Entries : LabelRead(i) /\ \A j \in 1..i - 1 : ~LabelRead(j)}
Labels == {i \in Entries :
             /\ LabelRead(i)
             /\ \A j \in 1..i - 1 : Returned(Place(j)) # Zero /\ ~LabelRead(j)}

(* Mutant: a cluster that cannot be read is skipped.                            *)
NoClusterGoesOn ==
  /\ pc = "back" /\ at = "cluster" /\ result = "NULL"
  /\ NextPass
  /\ UNCHANGED <<dev, vs, ret, label, buffers, dst, small_off, total, result, error, faults>>
NoCluster ==
  /\ pc = "back" /\ at = "cluster" /\ result = "NULL"
  /\ Return(0)
  /\ UNCHANGED <<dev, at, vs, loop, label, buffers, access, faults>>

HasCluster ==
  /\ pc = "back" /\ at = "cluster" /\ result = "some"
  /\ IF Labels = {} THEN NextPass /\ UNCHANGED label
     ELSE /\ label' = CHOOSE i \in Labels : TRUE
          /\ Request("again", 0, SuperLen) /\ UNCHANGED loop
  /\ UNCHANGED <<dev, vs, ret, buffers, dst, small_off, total, result, error, faults>>

Finished ==
  /\ pc = "back" /\ at = "again"
  /\ Return(IF result = "NULL" THEN -1 ELSE 0)
  /\ vs' = IF result = "NULL" THEN vs ELSE gen
  /\ UNCHANGED <<dev, at, loop, label, buffers, access, faults>>

volume_id_probe_vfat == Refused \/ Accepted \/ NoCluster \/ HasCluster \/ Finished

Next == main \/ volume_id_get_buffer \/ full_read \/ volume_id_probe_vfat

Spec == Init /\ [][Next]_vars

-------------------------------------------------------------------------------
(* Properties                                                                   *)

ProbeTypes ==
  /\ pc \in {"main", "get", "read", "back", "done", "trap"}
  /\ at \in {"super", "cluster", "again"}
  /\ dev \in Devices /\ vs \in Nat /\ loop \in 0..Passes /\ label \in Nat /\ ret \in {0, -1}
BufferTypes ==
  /\ sbbuf \in Seq(Token) /\ sbbuf_len \in Nat /\ gen \in Nat
  /\ seekbuf \in Seq(Token) /\ seekbuf_off \in Nat /\ seekbuf_len \in Nat
AccessTypes ==
  /\ req \in [off : Nat, len : Nat]
  /\ dst \in {"sb", "seek"} /\ small_off \in Nat /\ total \in Nat
  /\ result \in {"some", "NULL"} /\ error \in BOOLEAN /\ faults \in Nat
TypeOK == ProbeTypes /\ BufferTypes /\ AccessTypes

(* Whichever buffer answers a request, and whatever it held before, what the    *)
(* caller is given lies inside the buffer and is what the device holds there,   *)
(* but for the magic the probe has written itself (blkid.c:214-281, 317).       *)
CacheExact ==
  pc = "back" /\ result = "some" =>
    \A i \in 1..req.len :
      /\ small_off + i \in DOMAIN (IF dst = "sb" THEN sbbuf ELSE seekbuf)
      /\ \/ Returned(i) = dev.data[req.off + i]
         \/ dst = "sb" /\ req.off + i = MagicAt + 1 /\ Returned(i) = FAT32

(* The super block is still in memory when the next cluster is computed from it *)
(* (blkid.c:428-433): no failed read in between has freed it.                   *)
SuperAlive == pc = "get" /\ at = "cluster" => sbbuf # <<>> /\ vs = gen

(* The label the probe finds is the first one of the root directory's first     *)
(* cluster, with the end of the directory not before it, and it misses none when *)
(* the cluster could be read (blkid.c:161-191, 421-446), but for the one entry   *)
(* whose cluster fields the probe itself has written its magic over (line 317): *)
(* the entry at 0x40, of a root directory that begins in the superblock.        *)
(* MagicApart leaves out no volume: entries begin at multiples of 32, and the   *)
(* magic at 0x52, or 0x56 without packing, does not.                            *)
OnDisk(i) == dev.data[next_off + i]
LabelOnDisk(i) == IsLabel(OnDisk(Place(i)), OnDisk(Place(i) + ClusterAt))
MagicApart == \A i \in Entries : next_off + Place(i) # MagicAt + 1
Overwritten(i) == next_off + Place(i) + ClusterAt = MagicAt + 1
FirstLabel(i) ==
  /\ LabelOnDisk(i)
  /\ \A j \in 1..i - 1 : OnDisk(Place(j)) # Zero /\ (LabelOnDisk(j) => Overwritten(j))
NoLabel ==
  \A i \in Entries :
    LabelOnDisk(i) => Overwritten(i) \/ \E j \in 1..i - 1 : OnDisk(Place(j)) = Zero
Readable == /\ next_off + buf_size <= Size /\ faults = 0
            /\ next_off + buf_size <= SBSize \/ buf_size <= SeekSize
LabelFound ==
  pc = "done" /\ ret = 0 /\ MagicApart =>
    /\ label # 0 => label \in Entries /\ FirstLabel(label)
    /\ label = 0 /\ Readable => NoLabel

(* The probe ends, whatever the device holds and however little a read brings:  *)
(* every step brings it nearer to its end.  The passes over the root directory  *)
(* are counted (blkid.c:420-446), no buffer asks for anything again (204-282),  *)
(* and full_read goes on only while something is left to read (125-149).        *)
Stage == IF pc \in {"done", "trap"} THEN 0
         ELSE IF pc = "main" THEN Passes + 4
         ELSE CASE at = "super"   -> Passes + 3
                [] at = "cluster" -> loop + 2
                [] at = "again"   -> 1
Phase == CASE pc = "get" -> 2 [] pc = "read" -> 1 [] OTHER -> 0
ToRead == IF pc = "read" THEN Length - total ELSE 0
Rank == <<Stage, Phase, ToRead, MaxFaults - faults>>
NearerToEnd == [][Rank' \in Ranks(4) /\ Below(Rank', Rank)]_vars
===============================================================================
