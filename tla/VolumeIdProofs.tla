----------------------------- MODULE VolumeIdProofs ----------------------------
(* Whatever a device holds and whatever read() does, the buffers of blkid are   *)
(* the device, the super block outlives the requests that need it, and the      *)
(* label is the first of the root directory.                                    *)
EXTENDS VolumeId, WellFoundedInduction, TLAPS

USE LengthsAssumption, DevicesAssumption

-------------------------------------------------------------------------------
(* The inductive invariant.                                                     *)

Reading(buf) == pc = "read" /\ dst = buf

(* What each buffer holds of the device: all it is said to hold, or as much as  *)
(* the read under way has brought.                                              *)
SuperHolds(n) ==
  /\ n <= Len(sbbuf)
  /\ \A i \in 1..n : sbbuf[i] = dev.data[i] \/ (i = MagicAt + 1 /\ sbbuf[i] = FAT32)
SeekHolds(n) ==
  n <= Len(seekbuf) /\ \A i \in 1..n : seekbuf[i] = dev.data[seekbuf_off + i]
BuffersHold ==
  /\ (sbbuf = <<>> /\ sbbuf_len = 0) \/ Len(sbbuf) = SBSize
  /\ SuperHolds(IF Reading("sb") THEN total ELSE sbbuf_len)
  /\ SeekHolds(IF Reading("seek") THEN total ELSE seekbuf_len)

(* What is asked for, and where it is while it is read and when it is there.    *)
Asked ==
  pc \in {"get", "read", "back"} =>
    IF at = "cluster" THEN req.off = next_off /\ req.len = buf_size
                      ELSE req.off = 0 /\ req.len = SuperLen
Placed ==
  /\ Reading("sb") => /\ sbbuf # <<>> /\ sbbuf_len = req.off + req.len /\ sbbuf_len <= SBSize
                      /\ small_off = req.off /\ total <= sbbuf_len
  /\ Reading("seek") => /\ seekbuf_off = req.off /\ seekbuf_len = req.len
                        /\ Len(seekbuf) = req.len
                        /\ small_off = 0 /\ total <= req.len /\ req.len <= SeekSize
                        /\ req.off + req.len > SBSize
Given ==
  pc = "back" /\ result = "some" =>
    \/ /\ dst = "sb" /\ small_off = req.off /\ req.off + req.len <= sbbuf_len
       /\ sbbuf # <<>>
    \/ /\ dst = "seek" /\ req.off >= seekbuf_off /\ small_off = req.off - seekbuf_off
       /\ req.off + req.len <= seekbuf_off + seekbuf_len

(* The super block is held while the cluster is asked for, from the buffer it   *)
(* was accepted in.                                                             *)
SuperHeld ==
  /\ at = "super" /\ pc \in {"read", "back"} => dst = "sb"
  /\ at = "cluster" /\ (pc \in {"get", "read"} \/ (pc = "back" /\ result = "some")) =>
       sbbuf # <<>> /\ vs = gen

(* How far the search is.                                                       *)
Searching ==
  /\ pc = "main" => at = "super"
  /\ at = "super" => loop = Passes
  /\ at = "cluster" => loop >= 1
  /\ label # 0 => at = "again"
  /\ at = "super" /\ pc = "done" => ret = -1
Found ==
  MagicApart =>
    /\ \A i \in {label} \ {0} : i \in Entries /\ FirstLabel(i)
    /\ label = 0 /\ at = "again" => NoLabel
Unreadable ==
  at = "cluster" /\ (pc = "done" \/ (pc = "back" /\ result = "NULL")) => ~Readable

(* Each buffer is as long as it was allocated and holds no more than that, and a *)
(* read asks for no more than its buffer has room for.                          *)
WithinBuffers ==
  /\ (sbbuf = <<>> /\ sbbuf_len = 0) \/ (Len(sbbuf) = SBSize /\ sbbuf_len <= SBSize)
  /\ Len(seekbuf) = seekbuf_len /\ seekbuf_len <= SeekSize
  /\ pc = "read" => Length <= Len(IF dst = "sb" THEN sbbuf ELSE seekbuf)

IInv == /\ TypeOK /\ BuffersHold /\ Asked /\ Placed /\ Given
        /\ SuperHeld /\ Searching /\ Found /\ Unreadable

-------------------------------------------------------------------------------
(* Numbers.                                                                     *)

LEMMA LeastElement ==
  ASSUME NEW T \in SUBSET Nat, T # {}
  PROVE  \E m \in T : \A k \in T : m <= k
<1> DEFINE R == {p \in Nat \X Nat : p[1] < p[2]}
<1>1. IsWellFoundedOn(R, Nat)
  BY NatLessThanWellFounded DEF OpToRel
<1>2. PICK m \in T : \A k \in T : ~ (<<k, m>> \in R)
  <2> HIDE DEF R
  <2> QED
    BY <1>1, WFMin
<1>3. ASSUME NEW k \in T
      PROVE  m <= k
  <2>1. <<k, m>> \in Nat \X Nat /\ <<k, m>> \notin R
    BY <1>2
  <2> QED
    BY <2>1
<1> QED
  BY <1>3

LEMMA ProductNat == ASSUME NEW a \in Nat, NEW b \in Nat PROVE a * b \in Nat
  OBVIOUS

(* The first units of an entry are within the b units that hold b \div e of them. *)
LEMMA EntryPlace ==
  ASSUME NEW b \in Nat, NEW e \in Nat \ {0}, NEW i \in 1..b \div e, NEW c \in 0..e - 1
  PROVE  (i - 1) * e \in Nat /\ (i - 1) * e + 1 + c <= b
<1>1. b \div e \in Nat /\ (b \div e) * e <= b
  OBVIOUS
<1>2. PICK j \in Nat : j = i - 1
  BY <1>1
<1>3. j * e \in Nat
  BY ProductNat
<1>4. PICK d \in Nat : b \div e = j + 1 + d
  <2>1. (b \div e) - (j + 1) \in Nat
    BY <1>1, <1>2
  <2> QED
    BY <2>1, <1>1, <1>2
<1>5. (b \div e) * e = j * e + e + d * e /\ d * e \in Nat
  BY <1>4
<1> QED
  BY <1>1, <1>2, <1>3, <1>5

LEMMA DeviceFacts ==
  ASSUME TypeOK
  PROVE  next_off \in Nat /\ buf_size \in Nat /\ Size \in Nat /\ dev.data \in Seq(Token)
<1>1. dev.sb \in Fields /\ dev.data \in Seq(Token)
  BY DEF TypeOK, ProbeTypes
<1>2. /\ Sb.sector_size \in Nat /\ Sb.per_cluster \in Nat /\ Sb.reserved \in Nat
      /\ Sb.fats \in Nat /\ Sb.fat_length \in Nat /\ Sb.fat32_length \in Nat
      /\ Sb.root_cluster \in Nat
  BY <1>1 DEF Sb, Fields
<1>3. ASSUME NEW n \in Int
      PROVE  uint32_t(n) \in Nat
  BY DEF uint32_t
<1>4. fat_size_sct \in Nat
  <2>1. (IF Sb.fat_length = 0 THEN Sb.fat32_length ELSE Sb.fat_length) \in Nat
    BY <1>2
  <2>2. (IF Sb.fat_length = 0 THEN Sb.fat32_length ELSE Sb.fat_length) * Sb.fats \in Nat
    BY <2>1, <1>2, ProductNat
  <2>3. \A n \in Nat : uint32_t(n) \in Nat
    BY <1>3
  <2> QED
    BY <2>2, <2>3, Zenon DEF fat_size_sct
<1>5. /\ uint32_t(Sb.reserved + fat_size_sct) \in Nat
      /\ uint32_t(Sb.root_cluster - 2) \in Nat
  <2>1. Sb.reserved + fat_size_sct \in Int /\ Sb.root_cluster - 2 \in Int
    BY <1>2, <1>4
  <2> QED
    BY <2>1, <1>3, Zenon
<1>6. uint32_t(Sb.root_cluster - 2) * Sb.per_cluster \in Nat
  BY <1>2, <1>5, ProductNat
<1>7. uint32_t(Sb.reserved + fat_size_sct) + uint32_t(Sb.root_cluster - 2) * Sb.per_cluster
        \in Nat
  BY <1>5, <1>6
<1>8. next_off \in Nat
  BY <1>2, <1>7, ProductNat DEF next_off
<1>9. buf_size \in Nat
  BY <1>2, ProductNat DEF buf_size
<1> QED
  BY <1>1, <1>8, <1>9 DEF Size

(* The device is never written, and what is computed from it stays.             *)
LEMMA DeviceKept ==
  ASSUME dev' = dev
  PROVE  /\ next_off' = next_off /\ buf_size' = buf_size /\ Size' = Size
         /\ Entries' = Entries /\ MagicApart' = MagicApart /\ NoLabel' = NoLabel
         /\ \A i : FirstLabel(i)' = FirstLabel(i)
<1>1. Sb' = Sb /\ next_off' = next_off /\ buf_size' = buf_size /\ Size' = Size
  BY DEF Sb, next_off, buf_size, Size, fat_size_sct, uint32_t
<1>2. Entries' = Entries
  BY <1>1 DEF Entries
<1> QED
  BY <1>1, <1>2 DEF MagicApart, NoLabel, FirstLabel, LabelOnDisk, OnDisk, Overwritten

-------------------------------------------------------------------------------
(* The buffers and the reads that fill them.                                    *)

BufferAction == volume_id_get_buffer \/ full_read

LEMMA BufferCases ==
  ASSUME BufferAction
  PROVE  \/ FromSuperblock \/ TooLong \/ FromSeekBuffer \/ MoveSeekBuffer
         \/ \E k \in 1..Length - total : Read(k)
         \/ ReadInterrupted \/ ReadDone \/ ReadFails
  BY DEF BufferAction, volume_id_get_buffer, full_read

(* They leave the probe alone.                                                  *)
LEMMA BufferFrame ==
  ASSUME BufferAction
  PROVE  /\ dev' = dev /\ at' = at /\ vs' = vs /\ loop' = loop /\ label' = label
         /\ ret' = ret /\ req' = req
         /\ pc \in {"get", "read"} /\ pc' \in {"read", "back"}
  BY BufferCases
  DEF FromSuperblock, TooLong, FromSeekBuffer, MoveSeekBuffer, Read, ReadInterrupted,
      ReadDone, ReadFails, probe, buffers, access, Freed

LEMMA BufferKeepsProbe ==
  ASSUME IInv, BufferAction
  PROVE  Asked' /\ Searching' /\ Found'
<1>1. /\ dev' = dev /\ at' = at /\ vs' = vs /\ loop' = loop /\ label' = label
      /\ ret' = ret /\ req' = req
      /\ pc \in {"get", "read"} /\ pc' \in {"read", "back"}
  BY BufferFrame
<1>2. Asked'
  BY <1>1, DeviceKept DEF IInv, Asked
<1>3. Searching'
  BY <1>1 DEF IInv, Searching
<1>4. Found'
  <2>1. Found
    BY DEF IInv
  <2> QED
    BY <2>1, <1>1, DeviceKept DEF Found
<1> QED
  BY <1>2, <1>3, <1>4

LEMMA BufferKeepsTypes ==
  ASSUME IInv, BufferAction
  PROVE  TypeOK'
<1>1. TypeOK
  BY DEF IInv
<1>2. /\ dev' = dev /\ at' = at /\ vs' = vs /\ loop' = loop /\ label' = label
      /\ ret' = ret /\ req' = req
      /\ pc \in {"get", "read"} /\ pc' \in {"read", "back"}
  BY BufferFrame
<1>3. ProbeTypes'
  BY <1>1, <1>2 DEF TypeOK, ProbeTypes
<1>4. req \in [off : Nat, len : Nat] /\ req.off \in Nat /\ req.len \in Nat
      /\ sbbuf_len \in Nat /\ gen \in Nat /\ seekbuf_off \in Nat /\ seekbuf_len \in Nat
      /\ total \in Nat /\ small_off \in Nat /\ faults \in Nat
  BY <1>1 DEF TypeOK, AccessTypes, BufferTypes
<1>5. sbbuf \in Seq(Token) /\ seekbuf \in Seq(Token) /\ <<>> \in Seq(Token)
  BY <1>1 DEF TypeOK, BufferTypes
<1>6. dst \in {"sb", "seek"} /\ result \in {"some", "NULL"} /\ error \in BOOLEAN
  BY <1>1 DEF TypeOK, AccessTypes
<1>7. CASE FromSuperblock
  <2>1. sbbuf' \in Seq(Token)
    <3>1. [i \in 1..SBSize |-> Zero] \in Seq(Token)
      OBVIOUS
    <3> QED
      BY <3>1, <1>5, <1>7 DEF FromSuperblock
  <2>2. BufferTypes'
    BY <2>1, <1>4, <1>5, <1>7 DEF FromSuperblock, BufferTypes
  <2>3. AccessTypes'
    BY <1>2, <1>4, <1>6, <1>7 DEF FromSuperblock, AccessTypes
  <2> QED
    BY <1>3, <2>2, <2>3 DEF TypeOK
<1>8. CASE TooLong
  BY <1>1, <1>3, <1>8 DEF TooLong, TypeOK, BufferTypes, AccessTypes, buffers
<1>9. CASE FromSeekBuffer
  BY <1>1, <1>3, <1>4, <1>9 DEF FromSeekBuffer, Held, TypeOK, BufferTypes, AccessTypes, buffers
<1>10. CASE MoveSeekBuffer
  <2>1. Resized(seekbuf, req.len) \in Seq(Token)
    BY <1>4, <1>5 DEF Resized
  <2>2. BufferTypes'
    BY <2>1, <1>4, <1>5, <1>10 DEF MoveSeekBuffer, BufferTypes
  <2>3. AccessTypes'
    BY <1>2, <1>4, <1>6, <1>10 DEF MoveSeekBuffer, AccessTypes
  <2> QED
    BY <1>3, <2>2, <2>3 DEF TypeOK
<1>11. ASSUME NEW k \in 1..Length - total, Read(k)
       PROVE  TypeOK'
  <2>1. Size \in Nat /\ dev.data \in Seq(Token)
    BY <1>1, DeviceFacts
  <2>2. Start \in Nat /\ Length \in Nat
    BY <1>4 DEF Start, Length
  <2>3. Start + total + k <= Size
    BY <1>11 DEF Read
  <2>4. ASSUME NEW buf \in Seq(Token)
        PROVE  Filled(buf, k) \in Seq(Token)
    <3>1. \A i \in 1..Len(buf) : i > total /\ i <= total + k => dev.data[Start + i] \in Token
      BY <1>4, <2>1, <2>2, <2>3 DEF Size
    <3> QED
      BY <3>1, <2>4 DEF Filled
  <2>5. BufferTypes'
    BY <2>4, <1>4, <1>5, <1>11 DEF Read, BufferTypes
  <2>6. AccessTypes'
    BY <1>2, <1>4, <1>6, <1>11, <2>2 DEF Read, AccessTypes
  <2> QED
    BY <1>3, <2>5, <2>6 DEF TypeOK
<1>12. CASE ReadInterrupted
  BY <1>1, <1>3, <1>4, <1>12
  DEF ReadInterrupted, Fault, TypeOK, BufferTypes, AccessTypes, buffers, access
<1>13. CASE ReadDone
  BY <1>1, <1>3, <1>13 DEF ReadDone, TypeOK, BufferTypes, AccessTypes, buffers
<1>14. CASE ReadFails
  <2>1. error' \in BOOLEAN
    BY <1>14, Zenon DEF ReadFails
  <2>2. BufferTypes'
    BY <1>4, <1>5, <1>14 DEF ReadFails, Freed, BufferTypes
  <2>3. AccessTypes'
    BY <2>1, <1>2, <1>4, <1>6, <1>14 DEF ReadFails, Fault, AccessTypes
  <2> QED
    BY <1>3, <2>2, <2>3 DEF TypeOK
<1> QED
  BY <1>7, <1>8, <1>9, <1>10, <1>11, <1>12, <1>13, <1>14, BufferCases

(* Before and after a read, what the buffers hold is the device.                *)
LEMMA BufferKeepsData ==
  ASSUME IInv, BufferAction
  PROVE  BuffersHold' /\ Placed' /\ Given'
<1>1. TypeOK /\ BuffersHold /\ Placed
  BY DEF IInv
<1>2. /\ dev' = dev /\ req' = req
      /\ pc \in {"get", "read"} /\ pc' \in {"read", "back"}
  BY BufferFrame
<1>3. req.off \in Nat /\ req.len \in Nat /\ sbbuf_len \in Nat /\ seekbuf_off \in Nat
      /\ seekbuf_len \in Nat /\ total \in Nat
  BY <1>1 DEF TypeOK, AccessTypes, BufferTypes
<1>4. sbbuf \in Seq(Token) /\ seekbuf \in Seq(Token) /\ dst \in {"sb", "seek"}
  BY <1>1 DEF TypeOK, BufferTypes, AccessTypes
<1>5. Len(<<>>) = 0 /\ SBSize \in Nat \ {0} /\ Len(sbbuf) \in Nat /\ Len(seekbuf) \in Nat
  BY <1>4
<1>6. CASE FromSuperblock
  <2>1. /\ pc = "get" /\ dst' = "sb" /\ small_off' = req.off /\ req.off + req.len <= SBSize
        /\ seekbuf' = seekbuf /\ seekbuf_off' = seekbuf_off /\ seekbuf_len' = seekbuf_len
    BY <1>6 DEF FromSuperblock, Fits
  <2>2. sbbuf' # <<>> /\ Len(sbbuf') = SBSize
    <3>1. Len([i \in 1..SBSize |-> Zero]) = SBSize
      BY <1>5
    <3>2. CASE sbbuf = <<>>
      BY <3>1, <3>2, <1>5, <1>6 DEF FromSuperblock
    <3>3. CASE sbbuf # <<>>
      BY <3>3, <1>1, <1>6 DEF FromSuperblock, BuffersHold
    <3> QED
      BY <3>2, <3>3
  <2>3. SuperHolds(sbbuf_len) /\ SeekHolds(seekbuf_len)
    BY <2>1, <1>1 DEF BuffersHold, Reading
  <2>4. SeekHolds(seekbuf_len)'
    BY <2>1, <2>3, <1>2 DEF SeekHolds
  <2>5. CASE HasAlready
    <3>1. pc' = "back" /\ sbbuf_len' = sbbuf_len
      BY <2>5, <1>6 DEF FromSuperblock
    <3>2. SuperHolds(sbbuf_len)'
      <4>1. CASE sbbuf = <<>>
        <5>1. sbbuf_len = 0
          BY <4>1, <1>1, <1>5 DEF BuffersHold
        <5> QED
          BY <5>1, <3>1, <2>2, <1>5 DEF SuperHolds
      <4>2. CASE sbbuf # <<>>
        BY <4>2, <3>1, <2>3, <1>2, <1>6 DEF SuperHolds, FromSuperblock
      <4> QED
        BY <4>1, <4>2
    <3>3. BuffersHold'
      BY <3>1, <3>2, <2>2, <2>4 DEF BuffersHold, Reading
    <3> QED
      BY <3>1, <3>3, <2>1, <2>2, <2>5, <1>2 DEF Placed, Given, Reading, HasAlready
  <2>6. CASE ~HasAlready
    <3>1. pc' = "read" /\ sbbuf_len' = req.off + req.len /\ total' = 0
      BY <2>6, <1>6 DEF FromSuperblock
    <3>2. SuperHolds(total)'
      BY <3>1, <2>2, <1>5 DEF SuperHolds
    <3>3. BuffersHold'
      BY <3>1, <3>2, <2>1, <2>2, <2>4 DEF BuffersHold, Reading
    <3> QED
      BY <3>1, <3>3, <2>1, <2>2, <1>2, <1>3 DEF Placed, Given, Reading
  <2> QED
    BY <2>5, <2>6
<1>7. CASE TooLong
  <2>1. pc = "get" /\ pc' = "back" /\ result' = "NULL"
    BY <1>7 DEF TooLong
  <2>2. /\ sbbuf' = sbbuf /\ sbbuf_len' = sbbuf_len
        /\ seekbuf' = seekbuf /\ seekbuf_off' = seekbuf_off /\ seekbuf_len' = seekbuf_len
    BY <1>7 DEF TooLong, buffers
  <2> QED
    BY <2>1, <2>2, <1>1, <1>2
    DEF BuffersHold, SuperHolds, SeekHolds, Placed, Given, Reading
<1>8. CASE FromSeekBuffer
  <2>1. pc = "get" /\ pc' = "back" /\ dst' = "seek" /\ small_off' = req.off - seekbuf_off /\ Held
    BY <1>8 DEF FromSeekBuffer
  <2>2. /\ sbbuf' = sbbuf /\ sbbuf_len' = sbbuf_len
        /\ seekbuf' = seekbuf /\ seekbuf_off' = seekbuf_off /\ seekbuf_len' = seekbuf_len
    BY <1>8 DEF FromSeekBuffer, buffers
  <2>3. BuffersHold'
    BY <2>1, <2>2, <1>1, <1>2 DEF BuffersHold, SuperHolds, SeekHolds, Reading
  <2> QED
    BY <2>1, <2>2, <2>3, <1>2 DEF Placed, Given, Reading, Held
<1>9. CASE MoveSeekBuffer
  <2>1. /\ pc = "get" /\ pc' = "read" /\ dst' = "seek" /\ small_off' = 0 /\ total' = 0
        /\ seekbuf' = Resized(seekbuf, req.len)
        /\ seekbuf_off' = req.off /\ seekbuf_len' = req.len
        /\ sbbuf' = sbbuf /\ sbbuf_len' = sbbuf_len
        /\ req.len <= SeekSize /\ req.off + req.len > SBSize
    BY <1>3, <1>9 DEF MoveSeekBuffer, Fits
  <2>2. Len(seekbuf') = req.len
    BY <2>1, <1>3 DEF Resized
  <2>3. SeekHolds(total)'
    BY <2>1, <2>2, <1>3 DEF SeekHolds
  <2>4. SuperHolds(sbbuf_len)'
    BY <2>1, <1>1, <1>2 DEF BuffersHold, SuperHolds, Reading
  <2>5. BuffersHold'
    BY <2>1, <2>3, <2>4, <1>1 DEF BuffersHold, Reading
  <2> QED
    BY <2>1, <2>2, <2>5, <1>2, <1>3 DEF Placed, Given, Reading
<1>10. ASSUME NEW k \in 1..Length - total, Read(k)
       PROVE  BuffersHold' /\ Placed' /\ Given'
  <2>1. /\ pc = "read" /\ pc' = "read" /\ total' = total + k /\ dst' = dst
        /\ small_off' = small_off /\ sbbuf_len' = sbbuf_len
        /\ seekbuf_off' = seekbuf_off /\ seekbuf_len' = seekbuf_len
        /\ Start + total + k <= Size
    BY <1>10 DEF Read
  <2>2. Start \in Nat /\ Length \in Nat /\ k \in Nat /\ total + k <= Length
    BY <1>3 DEF Start, Length
  <2>3. ASSUME NEW buf \in Seq(Token), NEW i \in 1..Len(buf)
        PROVE  /\ Len(Filled(buf, k)) = Len(buf)
               /\ i <= total => Filled(buf, k)[i] = buf[i]
               /\ i > total /\ i <= total + k => Filled(buf, k)[i] = dev.data[Start + i]
    BY <1>3, <2>2 DEF Filled
  <2>4. CASE dst = "sb"
    <3>1. /\ sbbuf' = Filled(sbbuf, k) /\ seekbuf' = seekbuf /\ Start = 0
          /\ Length = req.off + req.len
      BY <2>4, <1>10 DEF Read, Start, Length
    <3>2. /\ sbbuf # <<>> /\ sbbuf_len = req.off + req.len /\ sbbuf_len <= SBSize
          /\ small_off = req.off /\ Len(sbbuf) = SBSize /\ SuperHolds(total)
          /\ SeekHolds(seekbuf_len)
      BY <2>1, <2>4, <1>1 DEF Placed, BuffersHold, Reading
    <3>3. Len(sbbuf') = SBSize /\ sbbuf' # <<>>
      BY <3>1, <3>2, <1>4, <1>5 DEF Filled
    <3>4. ASSUME NEW i \in 1..total + k
          PROVE  sbbuf'[i] = dev.data[i] \/ (i = MagicAt + 1 /\ sbbuf'[i] = FAT32)
      <4>1. i \in 1..Len(sbbuf)
        BY <3>1, <3>2, <2>2, <1>3
      <4>2. /\ i <= total => sbbuf'[i] = sbbuf[i]
            /\ i > total => sbbuf'[i] = dev.data[i]
        BY <4>1, <3>1, <2>2, <2>3, <1>3, <1>4
      <4> QED
        BY <4>2, <3>2, <1>3, <2>2 DEF SuperHolds
    <3>5. SuperHolds(total)'
      <4>1. total + k <= Len(sbbuf')
        BY <3>1, <3>2, <3>3, <2>2, <1>3
      <4> QED
        BY <4>1, <3>4, <2>1, <1>2 DEF SuperHolds
    <3>6. SeekHolds(seekbuf_len)'
      BY <3>1, <3>2, <2>1, <1>2 DEF SeekHolds
    <3>7. BuffersHold'
      BY <3>3, <3>5, <3>6, <2>1, <2>4 DEF BuffersHold, Reading
    <3> QED
      BY <3>1, <3>2, <3>3, <3>7, <2>1, <2>2, <2>4, <1>2 DEF Placed, Given, Reading
  <2>5. CASE dst = "seek"
    <3>1. /\ seekbuf' = Filled(seekbuf, k) /\ sbbuf' = sbbuf /\ Start = req.off
          /\ Length = req.len
      BY <2>5, <1>10 DEF Read, Start, Length
    <3>2. /\ seekbuf_off = req.off /\ seekbuf_len = req.len /\ Len(seekbuf) = req.len
          /\ small_off = 0 /\ SeekHolds(total) /\ SuperHolds(sbbuf_len)
          /\ req.len <= SeekSize /\ req.off + req.len > SBSize
      BY <2>1, <2>5, <1>1 DEF Placed, BuffersHold, Reading
    <3>3. Len(seekbuf') = req.len
      BY <3>1, <3>2, <1>4 DEF Filled
    <3>4. ASSUME NEW i \in 1..total + k
          PROVE  seekbuf'[i] = dev.data[req.off + i]
      <4>1. i \in 1..Len(seekbuf)
        BY <3>1, <3>2, <2>2, <1>3
      <4>2. /\ i <= total => seekbuf'[i] = seekbuf[i]
            /\ i > total => seekbuf'[i] = dev.data[req.off + i]
        BY <4>1, <3>1, <2>2, <2>3, <1>3, <1>4
      <4> QED
        BY <4>2, <3>2, <1>3, <2>2 DEF SeekHolds
    <3>5. SeekHolds(total)'
      <4>1. total + k <= Len(seekbuf')
        BY <3>1, <3>2, <3>3, <2>2
      <4> QED
        BY <4>1, <3>2, <3>4, <2>1, <1>2 DEF SeekHolds
    <3>6. SuperHolds(sbbuf_len)'
      BY <3>1, <3>2, <2>1, <1>2 DEF SuperHolds
    <3>7. BuffersHold'
      BY <3>1, <3>5, <3>6, <2>1, <2>5, <1>1 DEF BuffersHold, Reading
    <3> QED
      BY <3>1, <3>2, <3>3, <3>7, <2>1, <2>2, <2>5, <1>2 DEF Placed, Given, Reading
  <2> QED
    BY <2>4, <2>5, <1>4
<1>11. CASE ReadInterrupted
  <2>1. /\ sbbuf' = sbbuf /\ sbbuf_len' = sbbuf_len /\ dst' = dst
        /\ seekbuf' = seekbuf /\ seekbuf_off' = seekbuf_off /\ seekbuf_len' = seekbuf_len
        /\ small_off' = small_off /\ total' = total /\ pc = "read" /\ pc' = pc
    BY <1>11 DEF ReadInterrupted, buffers, access
  <2> QED
    BY <2>1, <1>1, <1>2
    DEF BuffersHold, SuperHolds, SeekHolds, Placed, Given, Reading
<1>12. CASE ReadDone
  <2>1. /\ sbbuf' = sbbuf /\ sbbuf_len' = sbbuf_len /\ dst' = dst
        /\ seekbuf' = seekbuf /\ seekbuf_off' = seekbuf_off /\ seekbuf_len' = seekbuf_len
        /\ small_off' = small_off /\ total = Length /\ pc = "read" /\ pc' = "back"
    BY <1>12 DEF ReadDone, buffers
  <2>2. SuperHolds(sbbuf_len) /\ SeekHolds(seekbuf_len)
    BY <2>1, <1>1, <1>3, <1>4 DEF BuffersHold, Placed, Reading, Length
  <2>3. BuffersHold'
    BY <2>1, <2>2, <1>1, <1>2 DEF BuffersHold, SuperHolds, SeekHolds, Reading
  <2>4. Given'
    BY <2>1, <1>1, <1>2, <1>3, <1>4 DEF Placed, Given, Reading
  <2> QED
    BY <2>1, <2>3, <2>4 DEF Placed, Reading
<1>13. CASE ReadFails
  <2>1. /\ sbbuf' = <<>> /\ sbbuf_len' = 0 /\ seekbuf' = <<>> /\ seekbuf_len' = 0
        /\ pc' = "back" /\ result' = "NULL"
    BY <1>13 DEF ReadFails, Freed
  <2> QED
    BY <2>1, <1>5 DEF BuffersHold, SuperHolds, SeekHolds, Placed, Given, Reading
<1> QED
  BY <1>6, <1>7, <1>8, <1>9, <1>10, <1>11, <1>12, <1>13, BufferCases

(* The super block is held, or the cluster is never asked for; and a cluster    *)
(* that could be read is read.                                                  *)
LEMMA BufferKeepsSearch ==
  ASSUME IInv, BufferAction
  PROVE  SuperHeld' /\ Unreadable'
<1>1. TypeOK /\ Asked /\ Placed /\ SuperHeld /\ Unreadable
  BY DEF IInv
<1>2. /\ dev' = dev /\ at' = at /\ vs' = vs /\ req' = req
      /\ pc \in {"get", "read"} /\ pc' \in {"read", "back"}
  BY BufferFrame
<1>3. /\ req.off \in Nat /\ req.len \in Nat /\ total \in Nat /\ faults \in Nat
      /\ dst \in {"sb", "seek"} /\ result \in {"some", "NULL"}
      /\ at \in {"super", "cluster", "again"}
  BY <1>1 DEF TypeOK, AccessTypes, ProbeTypes
<1>4. /\ at = "super" => req.off = 0 /\ req.len = SuperLen
      /\ at = "cluster" => req.off = next_off /\ req.len = buf_size
  BY <1>1, <1>2, <1>3 DEF Asked
<1>5. next_off' = next_off /\ buf_size' = buf_size /\ Size' = Size /\ Size \in Nat
      /\ next_off \in Nat /\ buf_size \in Nat
  BY <1>1, <1>2, DeviceKept, DeviceFacts
<1>6. at = "cluster" => sbbuf # <<>> /\ vs = gen
  BY <1>1, <1>2 DEF SuperHeld
<1>7. at = "super" => Fits
  BY <1>4 DEF Fits
<1>8. CASE FromSuperblock
  <2>1. /\ pc = "get" /\ dst' = "sb" /\ (pc' = "read" \/ result' = "some")
        /\ sbbuf # <<>> => sbbuf' = sbbuf /\ gen' = gen
    BY <1>8 DEF FromSuperblock
  <2> QED
    BY <2>1, <1>2, <1>6 DEF SuperHeld, Unreadable
<1>9. CASE TooLong
  <2>1. pc' = "back" /\ result' = "NULL" /\ ~Fits /\ req.len > SeekSize
    BY <1>9 DEF TooLong
  <2>2. at # "super"
    BY <2>1, <1>7
  <2>3. Unreadable'
    BY <2>1, <1>2, <1>3, <1>4, <1>5 DEF Unreadable, Readable, Fits
  <2> QED
    BY <2>1, <2>2, <2>3, <1>2 DEF SuperHeld
<1>10. CASE FromSeekBuffer
  <2>1. pc' = "back" /\ result' = "some" /\ ~Fits /\ sbbuf' = sbbuf /\ gen' = gen
    BY <1>10 DEF FromSeekBuffer, buffers
  <2> QED
    BY <2>1, <1>2, <1>6, <1>7 DEF SuperHeld, Unreadable
<1>11. CASE MoveSeekBuffer
  <2>1. pc' = "read" /\ ~Fits /\ sbbuf' = sbbuf /\ gen' = gen
    BY <1>11 DEF MoveSeekBuffer
  <2> QED
    BY <2>1, <1>2, <1>6, <1>7 DEF SuperHeld, Unreadable
<1>12. ASSUME NEW k \in 1..Length - total, Read(k)
       PROVE  SuperHeld' /\ Unreadable'
  <2>1. pc = "read" /\ pc' = "read" /\ dst' = dst /\ gen' = gen
    BY <1>12 DEF Read
  <2>2. sbbuf # <<>> => sbbuf' # <<>>
    <3>1. ASSUME sbbuf # <<>>
          PROVE  Filled(sbbuf, k) # <<>>
      <4>1. Len(sbbuf) # 0 /\ Len(sbbuf) \in Nat
        BY <3>1, <1>1 DEF TypeOK, BufferTypes
      <4>2. Len(Filled(sbbuf, k)) = Len(sbbuf)
        BY <4>1 DEF Filled
      <4> QED
        BY <4>1, <4>2
    <3> QED
      BY <3>1, <1>12 DEF Read
  <2> QED
    BY <2>1, <2>2, <1>1, <1>2, <1>6 DEF SuperHeld, Unreadable
<1>13. CASE ReadInterrupted
  <2>1. pc = "read" /\ pc' = "read" /\ dst' = dst /\ gen' = gen /\ sbbuf' = sbbuf
    BY <1>13 DEF ReadInterrupted, access, buffers
  <2> QED
    BY <2>1, <1>1, <1>2, <1>6 DEF SuperHeld, Unreadable
<1>14. CASE ReadDone
  <2>1. /\ pc = "read" /\ pc' = "back" /\ result' = "some" /\ dst' = dst
        /\ gen' = gen /\ sbbuf' = sbbuf
    BY <1>14 DEF ReadDone, buffers
  <2> QED
    BY <2>1, <1>1, <1>2, <1>6 DEF SuperHeld, Unreadable
<1>15. CASE ReadFails
  <2>1. pc = "read" /\ pc' = "back" /\ result' = "NULL" /\ dst' = dst /\ total < Length
    BY <1>15 DEF ReadFails
  <2>2. Start + Length = req.off + req.len /\ Start \in Nat /\ Length \in Nat
    BY <1>3 DEF Start, Length
  <2>3. Start + total >= Size \/ faults' = faults + 1
    BY <1>15 DEF ReadFails, Fault
  <2>4. at = "cluster" => ~Readable'
    <3>1. ASSUME at = "cluster", Start + total >= Size
          PROVE  next_off + buf_size > Size
      BY <3>1, <2>1, <2>2, <1>3, <1>4, <1>5
    <3> QED
      BY <3>1, <2>3, <1>3, <1>5 DEF Readable
  <2> QED
    BY <2>1, <2>4, <1>1, <1>2 DEF SuperHeld, Unreadable
<1> QED
  BY <1>8, <1>9, <1>10, <1>11, <1>12, <1>13, <1>14, <1>15, BufferCases

LEMMA BufferKeepsIInv == ASSUME IInv, BufferAction PROVE IInv'
  BY BufferKeepsProbe, BufferKeepsTypes, BufferKeepsData, BufferKeepsSearch DEF IInv

-------------------------------------------------------------------------------
(* What the caller is given.                                                    *)

LEMMA GivenIsExact == ASSUME IInv PROVE CacheExact
<1>1. SUFFICES ASSUME pc = "back", result = "some", NEW i \in 1..req.len
               PROVE  /\ small_off + i \in DOMAIN (IF dst = "sb" THEN sbbuf ELSE seekbuf)
                      /\ \/ Returned(i) = dev.data[req.off + i]
                         \/ (dst = "sb" /\ req.off + i = MagicAt + 1 /\ Returned(i) = FAT32)
  BY DEF CacheExact
<1>2. TypeOK /\ SuperHolds(sbbuf_len) /\ SeekHolds(seekbuf_len) /\ Given
  BY <1>1 DEF IInv, BuffersHold, Reading
<1>3. /\ req.off \in Nat /\ req.len \in Nat /\ sbbuf_len \in Nat /\ seekbuf_off \in Nat
      /\ seekbuf_len \in Nat /\ small_off \in Nat /\ sbbuf \in Seq(Token)
      /\ seekbuf \in Seq(Token)
  BY <1>2 DEF TypeOK, AccessTypes, BufferTypes
<1>4. CASE dst = "sb"
  <2>1. small_off = req.off /\ req.off + req.len <= sbbuf_len
    BY <1>1, <1>2, <1>4 DEF Given
  <2>2. small_off + i \in 1..sbbuf_len /\ small_off + i = req.off + i
    BY <2>1, <1>3
  <2>3. \/ sbbuf[small_off + i] = dev.data[small_off + i]
        \/ (small_off + i = MagicAt + 1 /\ sbbuf[small_off + i] = FAT32)
    BY <2>2, <1>2 DEF SuperHolds
  <2>4. small_off + i \in DOMAIN sbbuf
    BY <2>2, <1>2, <1>3 DEF SuperHolds
  <2>5. Returned(i) = sbbuf[small_off + i]
    BY <1>4 DEF Returned
  <2>6. small_off + i \in DOMAIN (IF dst = "sb" THEN sbbuf ELSE seekbuf)
    BY <2>4, <1>4, Zenon
  <2>7. \/ Returned(i) = dev.data[req.off + i]
        \/ (dst = "sb" /\ req.off + i = MagicAt + 1 /\ Returned(i) = FAT32)
    <3>1. small_off + i = req.off + i
      BY <2>2
    <3> QED BY <3>1, <2>3, <2>5, <1>4, Zenon
  <2> QED
    BY <2>6, <2>7, Zenon
<1>5. CASE dst # "sb"
  <2>1. /\ dst = "seek" /\ small_off = req.off - seekbuf_off
        /\ req.off + req.len <= seekbuf_off + seekbuf_len
    BY <1>1, <1>2, <1>5 DEF Given
  <2>2. small_off + i \in 1..seekbuf_len /\ seekbuf_off + (small_off + i) = req.off + i
    <3>1. PICK o \in Nat, n \in Nat, b \in Nat, k \in Nat, m \in Nat :
            o = req.off /\ n = req.len /\ b = seekbuf_off /\ k = seekbuf_len /\ m = small_off
      BY <1>3, Zenon
    <3>2. m = o - b /\ o + n <= b + k /\ i \in 1..n
      BY <2>1, <3>1
    <3>3. m + i \in 1..k /\ b + (m + i) = o + i
      BY <3>2
    <3> QED BY <3>1, <3>3, Zenon
  <2>3. seekbuf[small_off + i] = dev.data[req.off + i]
    BY <2>2, <1>2 DEF SeekHolds
  <2>4. small_off + i \in DOMAIN seekbuf
    BY <2>2, <1>2, <1>3 DEF SeekHolds
  <2>5. Returned(i) = seekbuf[small_off + i]
    BY <1>5 DEF Returned
  <2> QED
    BY <2>1, <2>3, <2>4, <2>5, <1>5
<1> QED
  BY <1>4, <1>5

(* The entries looked at are those of the cluster, but for the cluster fields   *)
(* the magic lies on.                                                           *)
LEMMA EntriesAreCluster ==
  ASSUME IInv, MagicApart, pc = "back", at = "cluster", result = "some", NEW i \in Entries
  PROVE  /\ Returned(Place(i)) = OnDisk(Place(i))
         /\ LabelRead(i) => LabelOnDisk(i)
         /\ LabelOnDisk(i) => LabelRead(i) \/ Overwritten(i)
<1>1. next_off \in Nat /\ buf_size \in Nat /\ req.off = next_off /\ req.len = buf_size
  BY DeviceFacts DEF IInv, Asked
<1>2. /\ (i - 1) * EntrySize \in Nat
      /\ (i - 1) * EntrySize + 1 <= buf_size
      /\ (i - 1) * EntrySize + 1 + ClusterAt <= buf_size
  BY <1>1, EntryPlace DEF Entries
<1>3. PICK p \in Nat : p = Place(i)
  BY <1>2 DEF Place
<1>4. p \in 1..req.len /\ p + ClusterAt \in 1..req.len
  BY <1>1, <1>2, <1>3 DEF Place
<1>5. next_off + p # MagicAt + 1
  BY <1>3 DEF MagicApart
<1>6. Returned(p) = dev.data[next_off + p]
  BY <1>1, <1>4, <1>5, GivenIsExact DEF CacheExact
<1>7. \/ Returned(p + ClusterAt) = dev.data[next_off + (p + ClusterAt)]
      \/ next_off + (p + ClusterAt) = MagicAt + 1 /\ Returned(p + ClusterAt) = FAT32
  BY <1>1, <1>4, GivenIsExact DEF CacheExact
<1>8. next_off + (p + ClusterAt) = next_off + p + ClusterAt
  BY <1>1, <1>3
<1>9. Zero # FAT32
  BY DEF Zero, FAT32
<1>10. LabelRead(i) = IsLabel(Returned(p), Returned(p + ClusterAt))
  BY <1>3 DEF LabelRead
<1>11. LabelOnDisk(i) = IsLabel(dev.data[next_off + p], dev.data[next_off + (p + ClusterAt)])
  BY <1>3 DEF LabelOnDisk, OnDisk
<1>12. Overwritten(i) = (next_off + (p + ClusterAt) = MagicAt + 1)
  BY <1>3, <1>8 DEF Overwritten
<1> QED
  BY <1>3, <1>6, <1>7, <1>9, <1>10, <1>11, <1>12 DEF IsLabel, OnDisk

(* The search of one cluster finds the first label or there is none.            *)
LEMMA SearchIsExact ==
  ASSUME IInv, MagicApart, pc = "back", at = "cluster", result = "some"
  PROVE  /\ \A i \in Labels : i \in Entries /\ FirstLabel(i)
         /\ Labels = {} => NoLabel
<1>1. \A i \in Entries : /\ Returned(Place(i)) = OnDisk(Place(i))
                         /\ LabelRead(i) => LabelOnDisk(i)
                         /\ LabelOnDisk(i) => LabelRead(i) \/ Overwritten(i)
  BY EntriesAreCluster
<1>2. buf_size \in Nat /\ buf_size \div EntrySize \in Nat
  BY DeviceFacts DEF IInv
<1>3. ASSUME NEW i \in Entries, NEW j \in 1..i
      PROVE  j \in Entries /\ j \in Nat
  BY <1>2 DEF Entries
<1>4. ASSUME NEW i \in Labels
      PROVE  i \in Entries /\ FirstLabel(i)
  <2>1. /\ i \in Entries /\ LabelRead(i) /\ i \in Nat
        /\ \A j \in 1..i - 1 : Returned(Place(j)) # Zero /\ ~LabelRead(j)
    BY <1>2 DEF Labels, Entries
  <2>2. \A j \in 1..i - 1 : OnDisk(Place(j)) # Zero /\ (LabelOnDisk(j) => Overwritten(j))
    BY <2>1, <1>1, <1>3
  <2> QED
    BY <2>1, <2>2, <1>1 DEF FirstLabel
<1>5. ASSUME Labels = {}, NEW i \in Entries, LabelOnDisk(i), ~Overwritten(i)
      PROVE  \E j \in 1..i - 1 : OnDisk(Place(j)) = Zero
  <2> DEFINE T == {j \in 1..i : OnDisk(Place(j)) = Zero \/ LabelRead(j)}
  <2>0. LabelRead(i)
    BY <1>1, <1>5
  <2>1. i \in Nat /\ i \in T /\ T \subseteq Nat
    BY <1>2, <1>5, <2>0 DEF Entries
  <2>2. PICK m \in T : \A j \in T : m <= j
    <3> HIDE DEF T
    <3> QED
      BY <2>1, LeastElement
  <2>3. /\ m \in 1..i /\ m \in Entries /\ m \in Nat
        /\ OnDisk(Place(m)) = Zero \/ LabelRead(m)
    BY <2>1, <1>3, <1>5
  <2>4. \A j \in 1..m - 1 : j \in Entries /\ OnDisk(Place(j)) # Zero /\ ~LabelRead(j)
    <3>1. ASSUME NEW j \in 1..m - 1, OnDisk(Place(j)) = Zero \/ LabelRead(j)
          PROVE  FALSE
      <4>1. j \in T
        BY <3>1, <2>1, <2>3
      <4>2. m <= j
        BY <4>1, <2>2
      <4> QED
        BY <4>2, <3>1, <2>3
    <3> QED
      BY <3>1, <2>1, <2>3, <1>3
  <2>5. ~LabelRead(m)
    <3>1. ASSUME LabelRead(m)
          PROVE  m \in Labels
      BY <3>1, <2>3, <2>4, <1>1 DEF Labels
    <3> QED
      BY <3>1, <1>5
  <2>6. m # i /\ OnDisk(Place(m)) = Zero
    BY <2>0, <2>3, <2>5
  <2> QED
    BY <2>1, <2>3, <2>6
<1>6. Labels = {} => NoLabel
  BY <1>5 DEF NoLabel
<1> QED
  BY <1>4, <1>6

-------------------------------------------------------------------------------
(* The steps of the probe.                                                      *)

(* They move no byte but the magic.                                             *)
LEMMA ProbeFrame ==
  ASSUME main \/ volume_id_probe_vfat
  PROVE  /\ dev' = dev /\ sbbuf_len' = sbbuf_len /\ seekbuf' = seekbuf
         /\ seekbuf_off' = seekbuf_off /\ seekbuf_len' = seekbuf_len /\ gen' = gen
         /\ dst' = dst /\ small_off' = small_off /\ total' = total /\ result' = result
         /\ error' = error /\ faults' = faults
         /\ pc \in {"main", "back"} /\ pc' \in {"get", "done", "trap"}
  BY DEF main, volume_id_probe_vfat, Refused, Accepted, NoCluster, HasCluster, Finished,
         Request, Return, NextPass, buffers, access

LEMMA ProbeMarks ==
  ASSUME TypeOK, main \/ volume_id_probe_vfat
  PROVE  \/ sbbuf' = sbbuf
         \/ /\ sbbuf' = [sbbuf EXCEPT ![MagicAt + 1] = FAT32]
            /\ pc = "back" /\ at = "super" /\ result = "some"
<1>1. result \in {"some", "NULL"}
  BY DEF TypeOK, AccessTypes
<1>2. CASE Refused
  BY <1>1, <1>2 DEF Refused
<1>3. CASE Accepted
  BY <1>3 DEF Accepted
<1>4. CASE main \/ NoCluster \/ HasCluster \/ Finished
  BY <1>4 DEF main, NoCluster, HasCluster, Finished, buffers
<1> QED
  BY <1>2, <1>3, <1>4 DEF volume_id_probe_vfat

LEMMA ProbeKeepsData ==
  ASSUME IInv, main \/ volume_id_probe_vfat
  PROVE  BuffersHold' /\ Placed' /\ Given' /\ sbbuf' \in Seq(Token) /\ (sbbuf # <<>> => sbbuf' # <<>>)
<1>1. /\ dev' = dev /\ sbbuf_len' = sbbuf_len /\ seekbuf' = seekbuf
      /\ seekbuf_off' = seekbuf_off /\ seekbuf_len' = seekbuf_len
      /\ pc \in {"main", "back"} /\ pc' \in {"get", "done", "trap"}
  BY ProbeFrame
<1>9. TypeOK
  BY DEF IInv
<1>2. /\ sbbuf \in Seq(Token) /\ SuperHolds(sbbuf_len) /\ SeekHolds(seekbuf_len)
      /\ (sbbuf = <<>> /\ sbbuf_len = 0) \/ Len(sbbuf) = SBSize
  BY <1>1 DEF IInv, TypeOK, BufferTypes, BuffersHold, Reading
<1>3. /\ sbbuf' \in Seq(Token) /\ Len(sbbuf') = Len(sbbuf) /\ (sbbuf # <<>> => sbbuf' # <<>>)
      /\ sbbuf = <<>> => sbbuf' = <<>>
      /\ \A i \in 1..Len(sbbuf) : sbbuf'[i] = sbbuf[i] \/ (i = MagicAt + 1 /\ sbbuf'[i] = FAT32)
  <2>1. CASE sbbuf' = sbbuf
    BY <2>1, <1>2
  <2>2. CASE /\ sbbuf' = [sbbuf EXCEPT ![MagicAt + 1] = FAT32]
             /\ pc = "back" /\ at = "super" /\ result = "some"
    <3>1. sbbuf # <<>> /\ FAT32 \in Token
      BY <2>2 DEF IInv, Given, SuperHeld
    <3>2. sbbuf' \in Seq(Token) /\ Len(sbbuf') = Len(sbbuf)
      BY <2>2, <3>1, <1>2
    <3>3. Len(sbbuf) # 0 /\ Len(<<>>) = 0
      BY <3>1, <1>2
    <3>4. sbbuf' # <<>>
      BY <3>2, <3>3
    <3>5. DOMAIN sbbuf = 1..Len(sbbuf)
      BY <1>2
    <3>6. ASSUME NEW i \in 1..Len(sbbuf)
          PROVE  sbbuf'[i] = sbbuf[i] \/ (i = MagicAt + 1 /\ sbbuf'[i] = FAT32)
      BY <2>2, <3>5
    <3> QED
      BY <3>1, <3>2, <3>4, <3>6
  <2> QED
    BY <2>1, <2>2, <1>9, ProbeMarks
<1>4. SuperHolds(sbbuf_len)' /\ SeekHolds(seekbuf_len)'
  <2>1. sbbuf_len \in Nat /\ sbbuf_len <= Len(sbbuf) /\ Len(sbbuf) \in Nat
    BY <1>2 DEF IInv, TypeOK, BufferTypes, SuperHolds
  <2>2. ASSUME NEW i \in 1..sbbuf_len
        PROVE  sbbuf'[i] = dev.data[i] \/ (i = MagicAt + 1 /\ sbbuf'[i] = FAT32)
    BY <2>1, <1>2, <1>3 DEF SuperHolds
  <2> QED
    BY <2>1, <2>2, <1>1, <1>2, <1>3 DEF SuperHolds, SeekHolds
<1>5. BuffersHold'
  BY <1>1, <1>2, <1>3, <1>4 DEF BuffersHold, Reading
<1> QED
  BY <1>1, <1>3, <1>5 DEF Placed, Given, Reading

(* A pass of the loop.                                                          *)
LEMMA PassFacts ==
  ASSUME NextPass
  PROVE  /\ pc' = "get"
         /\ \/ loop = 1 /\ at' = "again" /\ req' = [off |-> 0, len |-> SuperLen] /\ loop' = 0
            \/ /\ loop # 1 /\ at' = "cluster" /\ loop' = loop - 1
               /\ req' = [off |-> next_off, len |-> buf_size]
  BY DEF NextPass, Request

LEMMA ProbeKeepsIInv ==
  ASSUME IInv, main \/ volume_id_probe_vfat
  PROVE  IInv'
<1>1. /\ dev' = dev /\ sbbuf_len' = sbbuf_len /\ seekbuf' = seekbuf
      /\ seekbuf_off' = seekbuf_off /\ seekbuf_len' = seekbuf_len /\ gen' = gen
      /\ dst' = dst /\ small_off' = small_off /\ total' = total /\ result' = result
      /\ error' = error /\ faults' = faults
  BY ProbeFrame
<1>2. /\ BuffersHold' /\ Placed' /\ Given' /\ sbbuf' \in Seq(Token)
      /\ (sbbuf # <<>> => sbbuf' # <<>>)
  BY ProbeKeepsData
<1>3. TypeOK /\ Asked /\ SuperHeld /\ Searching /\ Found /\ Unreadable /\ Given
  BY DEF IInv
<1>4. next_off' = next_off /\ buf_size' = buf_size /\ Entries' = Entries
      /\ MagicApart' = MagicApart /\ NoLabel' = NoLabel /\ Readable' = Readable
      /\ \A i : FirstLabel(i)' = FirstLabel(i)
  BY <1>1, DeviceKept DEF Readable
<1>5. next_off \in Nat /\ buf_size \in Nat
  BY <1>3, DeviceFacts
<1>6. /\ dev \in Devices /\ vs \in Nat /\ loop \in 0..Passes /\ label \in Nat /\ ret \in {0, -1}
      /\ gen \in Nat /\ req \in [off : Nat, len : Nat] /\ result \in {"some", "NULL"}
  BY <1>3 DEF TypeOK, ProbeTypes, BufferTypes, AccessTypes
<1>7. ASSUME /\ pc' \in {"get", "done", "trap"} /\ at' \in {"super", "cluster", "again"}
             /\ vs' \in Nat /\ loop' \in 0..Passes /\ label' \in Nat /\ ret' \in {0, -1}
             /\ req' \in [off : Nat, len : Nat]
      PROVE  TypeOK'
  <2>1. ProbeTypes'
    BY <1>7, <1>1, <1>6 DEF ProbeTypes
  <2>2. BufferTypes'
    BY <1>1, <1>2, <1>3 DEF BufferTypes, TypeOK
  <2>3. AccessTypes'
    BY <1>7, <1>1, <1>3 DEF AccessTypes, TypeOK
  <2> QED
    BY <2>1, <2>2, <2>3 DEF TypeOK
<1>8. [off |-> 0, len |-> SuperLen] \in [off : Nat, len : Nat]
      /\ [off |-> next_off, len |-> buf_size] \in [off : Nat, len : Nat]
  BY <1>5
<1>9. ASSUME main
      PROVE  IInv'
  <2>1. /\ pc' = "get" /\ at' = "super" /\ req' = [off |-> 0, len |-> SuperLen]
        /\ vs' = vs /\ loop' = loop /\ label' = label /\ ret' = ret /\ sbbuf' = sbbuf
        /\ pc = "main"
    BY <1>9 DEF main, Request, buffers
  <2>2. TypeOK'
    BY <2>1, <1>6, <1>7, <1>8
  <2>3. Asked'
    BY <2>1 DEF Asked
  <2>4. SuperHeld' /\ Unreadable'
    BY <2>1 DEF SuperHeld, Unreadable
  <2>5. Searching'
    BY <2>1, <1>3 DEF Searching
  <2>6. Found'
    BY <2>1, <1>3, <1>4 DEF Found, Searching
  <2> QED
    BY <2>2, <2>3, <2>4, <2>5, <2>6, <1>2 DEF IInv
<1>10. ASSUME Refused
       PROVE  IInv'
  <2>1. /\ pc' = "done" /\ at' = at /\ req' = req /\ loop' = loop /\ label' = label
        /\ ret' = -1 /\ at = "super" /\ (vs' = vs \/ vs' = gen)
    BY <1>10 DEF Refused, Return, access
  <2>2. TypeOK'
    BY <2>1, <1>6, <1>7
  <2>3. Asked' /\ SuperHeld' /\ Unreadable'
    BY <2>1 DEF Asked, SuperHeld, Unreadable
  <2>4. Searching'
    BY <2>1, <1>3 DEF Searching
  <2>5. Found'
    BY <2>1, <1>3, <1>4 DEF Found, Searching
  <2> QED
    BY <2>2, <2>3, <2>4, <2>5, <1>2 DEF IInv
<1>11. ASSUME Accepted
       PROVE  IInv'
  <2>1. /\ pc = "back" /\ at = "super" /\ result = "some" /\ label' = label /\ ret' = ret
        /\ vs' = gen /\ loop = Passes /\ label = 0
    BY <1>3, <1>11 DEF Accepted, Searching
  <2>2. sbbuf' # <<>>
    BY <2>1, <1>2, <1>3 DEF Given, SuperHeld
  <2>3. CASE pc' = "trap" /\ at' = at /\ loop' = loop /\ req' = req
    <3>1. TypeOK'
      BY <2>1, <2>3, <1>6, <1>7
    <3>2. Asked' /\ SuperHeld' /\ Unreadable' /\ Searching'
      BY <2>1, <2>3 DEF Asked, SuperHeld, Unreadable, Searching
    <3>3. Found'
      BY <2>1, <2>3, <1>4 DEF Found
    <3> QED
      BY <3>1, <3>2, <3>3, <1>2 DEF IInv
  <2>4. CASE NextPass
    <3>1. /\ pc' = "get" /\ at' = "cluster" /\ loop' = loop - 1
          /\ req' = [off |-> next_off, len |-> buf_size]
      BY <2>1, <2>4, PassFacts
    <3>2. TypeOK'
      BY <2>1, <3>1, <1>6, <1>7, <1>8
    <3>3. Asked'
      BY <3>1, <1>4 DEF Asked
    <3>4. SuperHeld' /\ Unreadable'
      BY <2>1, <2>2, <3>1, <1>1 DEF SuperHeld, Unreadable
    <3>5. Searching' /\ Found'
      BY <2>1, <3>1, <1>6 DEF Searching, Found
    <3> QED
      BY <3>2, <3>3, <3>4, <3>5, <1>2 DEF IInv
  <2> QED
    BY <2>3, <2>4, <1>11 DEF Accepted
<1>12. ASSUME NoCluster
       PROVE  IInv'
  <2>1. /\ pc = "back" /\ at = "cluster" /\ result = "NULL" /\ pc' = "done" /\ ret' = 0
        /\ at' = at /\ vs' = vs /\ loop' = loop /\ label' = label /\ req' = req
    BY <1>12 DEF NoCluster, Return, access
  <2>2. TypeOK'
    BY <2>1, <1>6, <1>7
  <2>3. Asked' /\ SuperHeld'
    BY <2>1 DEF Asked, SuperHeld
  <2>4. Unreadable'
    BY <2>1, <1>3, <1>4 DEF Unreadable
  <2>5. Searching'
    BY <2>1, <1>3 DEF Searching
  <2>6. Found'
    BY <2>1, <1>3, <1>4 DEF Found
  <2> QED
    BY <2>2, <2>3, <2>4, <2>5, <2>6, <1>2 DEF IInv
<1>13. ASSUME HasCluster
       PROVE  IInv'
  <2>1. /\ pc = "back" /\ at = "cluster" /\ result = "some" /\ vs' = vs /\ ret' = ret
        /\ sbbuf # <<>> /\ vs = gen /\ loop >= 1 /\ label = 0 /\ sbbuf' = sbbuf
    BY <1>3, <1>13 DEF HasCluster, SuperHeld, Searching, buffers
  <2>2. MagicApart => /\ \A i \in Labels : i \in Entries /\ FirstLabel(i)
                      /\ Labels = {} => NoLabel
    BY <2>1, SearchIsExact
  <2>3. CASE Labels = {}
    <3>1. label' = 0 /\ NextPass
      BY <2>1, <2>3, <1>13 DEF HasCluster
    <3>2. /\ pc' = "get"
          /\ \/ at' = "again" /\ req' = [off |-> 0, len |-> SuperLen] /\ loop' = 0
             \/ /\ loop # 1 /\ at' = "cluster" /\ loop' = loop - 1
                /\ req' = [off |-> next_off, len |-> buf_size]
      BY <3>1, PassFacts
    <3>3. TypeOK'
      BY <2>1, <3>1, <3>2, <1>6, <1>7, <1>8
    <3>4. Asked'
      BY <3>2, <1>4 DEF Asked
    <3>5. SuperHeld' /\ Unreadable'
      BY <2>1, <3>2, <1>1 DEF SuperHeld, Unreadable
    <3>6. Searching'
      BY <2>1, <3>1, <3>2, <1>6 DEF Searching
    <3>7. Found'
      BY <2>2, <2>3, <3>1, <1>4 DEF Found
    <3> QED
      BY <3>3, <3>4, <3>5, <3>6, <3>7, <1>2 DEF IInv
  <2>4. CASE Labels # {}
    <3>1. /\ label' = CHOOSE i \in Labels : TRUE
          /\ pc' = "get" /\ at' = "again" /\ req' = [off |-> 0, len |-> SuperLen]
          /\ loop' = loop
      BY <2>4, <1>13 DEF HasCluster, Request
    <3>2. label' \in Labels
      BY <2>4, <3>1
    <3>3. label' \in Nat \ {0}
      BY <3>2, <1>5 DEF Labels, Entries
    <3>4. TypeOK'
      BY <2>1, <3>1, <3>3, <1>6, <1>7, <1>8
    <3>5. Asked' /\ SuperHeld' /\ Unreadable'
      BY <3>1 DEF Asked, SuperHeld, Unreadable
    <3>6. Searching'
      BY <3>1 DEF Searching
    <3>7. Found'
      BY <2>2, <3>2, <3>3, <1>4 DEF Found
    <3> QED
      BY <3>4, <3>5, <3>6, <3>7, <1>2 DEF IInv
  <2> QED
    BY <2>3, <2>4
<1>14. ASSUME Finished
       PROVE  IInv'
  <2>1. /\ pc = "back" /\ at = "again" /\ pc' = "done" /\ ret' \in {0, -1}
        /\ at' = at /\ (vs' = vs \/ vs' = gen) /\ loop' = loop /\ label' = label /\ req' = req
    BY <1>14 DEF Finished, Return, access
  <2>2. TypeOK'
    BY <2>1, <1>6, <1>7
  <2>3. Asked' /\ SuperHeld' /\ Unreadable'
    BY <2>1 DEF Asked, SuperHeld, Unreadable
  <2>4. Searching'
    BY <2>1, <1>3 DEF Searching
  <2>5. Found'
    BY <2>1, <1>3, <1>4 DEF Found
  <2> QED
    BY <2>2, <2>3, <2>4, <2>5, <1>2 DEF IInv
<1> QED
  BY <1>9, <1>10, <1>11, <1>12, <1>13, <1>14 DEF volume_id_probe_vfat

-------------------------------------------------------------------------------
(* The theorems.                                                                *)

LEMMA InitIInv == ASSUME Init PROVE IInv
<1>1. dev \in Devices /\ dev.data \in Seq(Token) /\ <<>> \in Seq(Token) /\ Len(<<>>) = 0
  BY DEF Init
<1>2. TypeOK
  <2>1. ProbeTypes
    BY DEF Init, ProbeTypes
  <2>2. BufferTypes
    BY <1>1 DEF Init, BufferTypes
  <2>3. AccessTypes
    BY DEF Init, AccessTypes
  <2> QED
    BY <2>1, <2>2, <2>3 DEF TypeOK
<1>3. BuffersHold
  BY <1>1 DEF Init, BuffersHold, SuperHolds, SeekHolds, Reading
<1> QED
  BY <1>2, <1>3
  DEF Init, IInv, Asked, Placed, Given, SuperHeld, Searching, Found, Unreadable, Reading

LEMMA StutterKeepsIInv == ASSUME IInv, UNCHANGED vars PROVE IInv'
<1>1. /\ TypeOK' /\ BuffersHold' /\ Placed' /\ Given'
  BY DEF vars, probe, buffers, access, IInv, TypeOK, ProbeTypes, BufferTypes, AccessTypes,
         BuffersHold, SuperHolds, SeekHolds, Placed, Given, Reading
<1>2. dev' = dev
  BY DEF vars
<1>3. Asked' /\ SuperHeld' /\ Searching' /\ Unreadable'
  BY <1>2, DeviceKept
  DEF vars, probe, buffers, access, IInv, Asked, SuperHeld, Searching, Unreadable, Readable
<1>4. Found'
  BY <1>2, DeviceKept DEF vars, probe, IInv, Found
<1> QED
  BY <1>1, <1>3, <1>4 DEF IInv

(* Every state of the probe satisfies the invariant (blkid.c:201-284, 296-460). *)
THEOREM ProbeInvariant == Spec => []IInv
<1>1. IInv /\ [Next]_vars => IInv'
  BY BufferKeepsIInv, ProbeKeepsIInv, StutterKeepsIInv DEF Next, BufferAction
<1> QED
  BY InitIInv, <1>1, PTL DEF Spec

LEMMA KeepsWithinBuffers ==
  ASSUME IInv, WithinBuffers, [Next]_vars
  PROVE  WithinBuffers'
<1>1. /\ TypeOK /\ Placed /\ sbbuf \in Seq(Token) /\ seekbuf \in Seq(Token)
      /\ req.off \in Nat /\ req.len \in Nat /\ SBSize \in Nat /\ SeekSize \in Nat
      /\ dst \in {"sb", "seek"} /\ Len(<<>>) = 0
  BY DEF IInv, TypeOK, BufferTypes, AccessTypes
<1>2. CASE FromSuperblock
  <2>1. /\ dst' = "sb" /\ req' = req /\ seekbuf' = seekbuf /\ seekbuf_len' = seekbuf_len
        /\ Len(sbbuf') = SBSize
    BY <1>1, <1>2 DEF FromSuperblock, WithinBuffers
  <2>2. CASE HasAlready
    BY <1>1, <1>2, <2>1, <2>2 DEF FromSuperblock, WithinBuffers
  <2>3. CASE ~HasAlready
    <3>1. sbbuf_len' = req.off + req.len /\ req.off + req.len <= SBSize
      BY <1>2, <2>3 DEF FromSuperblock, Fits
    <3> QED
      BY <1>1, <2>1, <3>1 DEF WithinBuffers, Length
  <2> QED
    BY <2>2, <2>3
<1>3. CASE TooLong \/ FromSeekBuffer \/ ReadDone
  BY <1>3 DEF TooLong, FromSeekBuffer, ReadDone, buffers, WithinBuffers
<1>4. CASE MoveSeekBuffer
  <2>1. /\ dst' = "seek" /\ req' = req /\ sbbuf' = sbbuf /\ sbbuf_len' = sbbuf_len
        /\ seekbuf' = Resized(seekbuf, req.len) /\ seekbuf_len' = req.len
        /\ req.len <= SeekSize
    BY <1>4 DEF MoveSeekBuffer
  <2>2. Len(seekbuf') = req.len
    BY <1>1, <2>1 DEF Resized
  <2> QED
    BY <1>1, <2>1, <2>2 DEF WithinBuffers, Length
<1>5. ASSUME NEW k \in 1..Length - total, Read(k)
      PROVE  WithinBuffers'
  <2>1. /\ pc = "read" /\ dst' = dst /\ req' = req /\ sbbuf_len' = sbbuf_len
        /\ seekbuf_len' = seekbuf_len
        /\ sbbuf' = (IF dst = "sb" THEN Filled(sbbuf, k) ELSE sbbuf)
        /\ seekbuf' = (IF dst = "sb" THEN seekbuf ELSE Filled(seekbuf, k))
    BY <1>5 DEF Read
  <2>2. Len(Filled(sbbuf, k)) = Len(sbbuf) /\ Len(Filled(seekbuf, k)) = Len(seekbuf)
    BY <1>1 DEF Filled
  <2>3. Len(sbbuf') = Len(sbbuf) /\ Len(seekbuf') = Len(seekbuf) /\ Length' = Length
    BY <2>1, <2>2 DEF Length
  <2>4. dst = "sb" => sbbuf # <<>>
    BY <1>1, <2>1 DEF Placed, Reading
  <2>5. sbbuf = <<>> => sbbuf' = <<>>
    BY <2>1, <2>4
  <2> QED
    BY <2>1, <2>3, <2>5 DEF WithinBuffers
<1>6. CASE ReadInterrupted
  BY <1>6 DEF ReadInterrupted, buffers, access, WithinBuffers, Length
<1>7. CASE ReadFails
  BY <1>1, <1>7 DEF ReadFails, Freed, WithinBuffers
<1>8. CASE main \/ volume_id_probe_vfat
  <2>1. /\ seekbuf' = seekbuf /\ seekbuf_len' = seekbuf_len /\ sbbuf_len' = sbbuf_len
        /\ pc' # "read"
    BY <1>8, ProbeFrame
  <2>2. Len(sbbuf') = Len(sbbuf) /\ (sbbuf = <<>> => sbbuf' = <<>>)
    <3>1. CASE sbbuf' = sbbuf
      BY <3>1
    <3>2. CASE /\ sbbuf' = [sbbuf EXCEPT ![MagicAt + 1] = FAT32]
               /\ pc = "back" /\ at = "super" /\ result = "some"
      <4>1. sbbuf # <<>> /\ FAT32 \in Token
        BY <3>2 DEF IInv, Given, SuperHeld
      <4> QED
        BY <3>2, <4>1, <1>1
    <3> QED
      BY <3>1, <3>2, <1>1, <1>8, ProbeMarks
  <2> QED
    BY <2>1, <2>2 DEF WithinBuffers
<1>9. CASE UNCHANGED vars
  BY <1>9 DEF vars, buffers, access, WithinBuffers, Length
<1> QED
  BY <1>2, <1>3, <1>4, <1>5, <1>6, <1>7, <1>8, <1>9, BufferCases DEF Next, BufferAction

(* No read of the device writes past the buffer it fills, however long a stretch *)
(* the volume asks for, and neither buffer grows past its limit (blkid.c:213-263). *)
THEOREM ReadsWithinBuffers == Spec => []WithinBuffers
<1>1. Init => WithinBuffers
  BY DEF Init, WithinBuffers
<1>2. IInv /\ WithinBuffers /\ [Next]_vars => WithinBuffers'
  BY KeepsWithinBuffers
<1> QED
  BY <1>1, <1>2, ProbeInvariant, PTL DEF Spec

(* The types of the probe, its buffers and its requests (blkid.c:201-460).      *)
THEOREM TypeCorrect == Spec => []TypeOK
<1>1. IInv => TypeOK
  BY DEF IInv
<1> QED
  BY <1>1, ProbeInvariant, PTL

(* What volume_id_get_buffer returns is what the device holds there, in whatever *)
(* order requests came and however short the reads were (blkid.c:214-281).      *)
THEOREM BuffersExact == Spec => []CacheExact
  BY GivenIsExact, ProbeInvariant, PTL

(* The super block the next cluster is computed from has not been freed, and it *)
(* is the one that was accepted (blkid.c:214-281, 428-433).                     *)
THEOREM SuperBlockAlive == Spec => []SuperAlive
<1>1. IInv => SuperAlive
  BY DEF IInv, SuperHeld, SuperAlive
<1> QED
  BY <1>1, ProbeInvariant, PTL

(* The label the probe returns is the first of the root directory, and when the *)
(* directory's cluster can be read none is missed, but for one whose cluster    *)
(* fields the probe has written its magic over (blkid.c:161-191, 317, 421-446). *)
THEOREM LabelExact == Spec => []LabelFound
<1>1. ASSUME IInv
      PROVE  LabelFound
  <2>1. /\ Searching /\ Found /\ Unreadable /\ label \in Nat
        /\ at \in {"super", "cluster", "again"}
    BY <1>1 DEF IInv, TypeOK, ProbeTypes
  <2> QED
    BY <2>1 DEF LabelFound, Searching, Found, Unreadable
<1> QED
  BY <1>1, ProbeInvariant, PTL

-------------------------------------------------------------------------------
(* Ranks.                                                                       *)

(* No rank can go down for ever.                                                *)
LEMMA NoEndlessDescent ==
  ASSUME NEW n \in Nat, NEW f \in [Nat -> Ranks(n)]
  PROVE  \E k \in Nat : ~ Below(f[k + 1], f[k])
<1> DEFINE R == {p \in Nat \X Nat : p[1] < p[2]}
           L == LexProductOrdering(R, Nat, n)
<1>1. IsWellFoundedOn(R, Nat)
  BY NatLessThanWellFounded DEF OpToRel
<1>2. IsWellFoundedOn(L, [1..n -> Nat])
  <2> HIDE DEF R
  <2> QED
    BY <1>1, WFLexProductOrdering
<1>3. PICK k \in Nat : <<f[k + 1], f[k]>> \notin L
  <2> HIDE DEF L
  <2> QED
    BY <1>2 DEF IsWellFoundedOn, Ranks
<1>4. f[k] \in [1..n -> Nat] /\ f[k + 1] \in [1..n -> Nat]
  BY DEF Ranks
<1>5. ASSUME Below(f[k + 1], f[k])
      PROVE  FALSE
  <2>1. PICK i \in 1..n : /\ f[k + 1][i] < f[k][i]
                          /\ \A j \in 1..i - 1 : f[k + 1][j] = f[k][j]
    BY <1>4, <1>5 DEF Below
  <2>2. <<f[k + 1][i], f[k][i]>> \in R
    BY <2>1, <1>4
  <2>3. <<f[k + 1], f[k]>> \in L
    <3> HIDE DEF R
    <3> QED
      BY <2>1, <2>2, <1>4 DEF LexProductOrdering
  <2> QED
    BY <2>3, <1>3
<1> QED
  BY <1>5

Lower4(a1, a2, a3, a4, b1, b2, b3, b4) ==
  a1 < b1 \/ (a1 = b1 /\ (a2 < b2 \/ (a2 = b2 /\ (a3 < b3 \/ (a3 = b3 /\ a4 < b4)))))

LEMMA Lower4Below ==
  ASSUME NEW a1 \in Nat, NEW a2 \in Nat, NEW a3 \in Nat, NEW a4 \in Nat,
         NEW b1 \in Nat, NEW b2 \in Nat, NEW b3 \in Nat, NEW b4 \in Nat,
         Lower4(a1, a2, a3, a4, b1, b2, b3, b4)
  PROVE  /\ <<a1, a2, a3, a4>> \in Ranks(4)
         /\ Below(<<a1, a2, a3, a4>>, <<b1, b2, b3, b4>>)
<1> DEFINE a == <<a1, a2, a3, a4>>
           b == <<b1, b2, b3, b4>>
<1>1. a \in Ranks(4)
  BY DEF Ranks
<1>2. \E i \in 1..4 : a[i] < b[i] /\ \A j \in 1..i - 1 : a[j] = b[j]
  <2>1. CASE a1 < b1
    BY <2>1
  <2>2. CASE a1 = b1 /\ a2 < b2
    BY <2>2
  <2>3. CASE a1 = b1 /\ a2 = b2 /\ a3 < b3
    BY <2>3
  <2>4. CASE a1 = b1 /\ a2 = b2 /\ a3 = b3 /\ a4 < b4
    BY <2>4
  <2> QED
    BY <2>1, <2>2, <2>3, <2>4 DEF Lower4
<1> QED
  BY <1>1, <1>2 DEF Below

-------------------------------------------------------------------------------
(* The probe ends.                                                              *)

Bounded == faults <= MaxFaults

LEMMA InitBounded == ASSUME Init PROVE Bounded
  BY DEF Init, Bounded

LEMMA NextBounded == ASSUME IInv, Bounded, [Next]_vars PROVE Bounded'
<1>1. faults \in Nat /\ MaxFaults \in Nat
  BY DEF IInv, TypeOK, AccessTypes
<1>2. faults' = faults \/ Fault
  BY ProbeFrame
  DEF Next, volume_id_get_buffer, full_read, FromSuperblock, TooLong, FromSeekBuffer,
      MoveSeekBuffer, Read, ReadInterrupted, ReadDone, ReadFails, vars
<1> QED
  BY <1>1, <1>2 DEF Fault, Bounded

(* What a rank is made of is a natural number.                                  *)
RankOK ==
  Stage \in Nat /\ Phase \in Nat /\ ToRead \in Nat /\ MaxFaults - faults \in Nat

LEMMA RankTypes == ASSUME IInv, Bounded PROVE RankOK
<1>1. /\ loop \in 0..Passes /\ at \in {"super", "cluster", "again"}
      /\ req.off \in Nat /\ req.len \in Nat /\ total \in Nat /\ faults \in Nat
      /\ dst \in {"sb", "seek"} /\ Passes \in Nat /\ MaxFaults \in Nat
  BY DEF IInv, TypeOK, ProbeTypes, AccessTypes
<1>2. Stage \in Nat
  <2>1. Passes + 4 \in Nat /\ Passes + 3 \in Nat /\ loop + 2 \in Nat
    BY <1>1
  <2>2. Stage \in {0, 1, Passes + 4, Passes + 3, loop + 2}
    BY <1>1, Zenon DEF Stage
  <2> QED
    BY <2>1, <2>2
<1>3. Phase \in Nat
  BY DEF Phase
<1>4. ToRead \in Nat
  <2>1. Length \in Nat
    BY <1>1 DEF Length
  <2>2. Placed
    BY DEF IInv
  <2>3. pc = "read" => total <= Length
    BY <2>2, <1>1 DEF Length, Placed, Reading
  <2> QED
    BY <2>1, <2>3, <1>1 DEF ToRead
<1> QED
  BY <1>1, <1>2, <1>3, <1>4 DEF Bounded, RankOK

RankLower == Lower4(Stage', Phase', ToRead', MaxFaults - faults',
                    Stage, Phase, ToRead, MaxFaults - faults)

LEMMA BufferLowers ==
  ASSUME IInv, Bounded, BufferAction
  PROVE  RankLower
<1>1. /\ at' = at /\ loop' = loop /\ req' = req
      /\ pc \in {"get", "read"} /\ pc' \in {"read", "back"}
  BY BufferFrame
<1>2. Stage' = Stage
  <2>1. at \in {"super", "cluster", "again"}
    BY DEF IInv, TypeOK, ProbeTypes
  <2> QED
    BY <2>1, <1>1 DEF Stage
<1>3. /\ faults \in Nat /\ MaxFaults \in Nat /\ total \in Nat
      /\ req.off \in Nat /\ req.len \in Nat
  BY DEF IInv, TypeOK, AccessTypes
<1>4. CASE FromSuperblock \/ TooLong \/ FromSeekBuffer \/ MoveSeekBuffer
  <2>1. pc = "get"
    BY <1>4 DEF FromSuperblock, TooLong, FromSeekBuffer, MoveSeekBuffer
  <2> QED
    BY <2>1, <1>1, <1>2 DEF RankLower, Lower4, Phase
<1>5. CASE ReadDone \/ ReadFails
  <2>1. pc = "read" /\ pc' = "back"
    BY <1>5 DEF ReadDone, ReadFails
  <2> QED
    BY <2>1, <1>2 DEF RankLower, Lower4, Phase
<1>6. ASSUME NEW k \in 1..Length - total, Read(k)
      PROVE  RankLower
  <2>1. pc = "read" /\ pc' = "read" /\ dst' = dst /\ total' = total + k
    BY <1>6 DEF Read
  <2>2. Length' = Length /\ Length \in Nat
    BY <2>1, <1>1, <1>3 DEF Length
  <2>3. ToRead' = Length - (total + k) /\ ToRead = Length - total
    BY <2>1, <2>2 DEF ToRead
  <2>4. ToRead' < ToRead
    BY <2>2, <2>3, <1>3
  <2>5. Phase' = Phase
    BY <2>1 DEF Phase
  <2> QED
    BY <2>4, <2>5, <1>2 DEF RankLower, Lower4
<1>7. CASE ReadInterrupted
  <2>1. pc' = pc /\ dst' = dst /\ total' = total /\ faults' = faults + 1
    BY <1>7 DEF ReadInterrupted, access, Fault
  <2>2. ToRead' = ToRead /\ Phase' = Phase
    BY <2>1, <1>1 DEF ToRead, Phase, Length
  <2>3. MaxFaults - faults' < MaxFaults - faults
    BY <2>1, <1>3
  <2> QED
    BY <2>2, <2>3, <1>2 DEF RankLower, Lower4
<1> QED
  BY <1>4, <1>5, <1>6, <1>7, BufferCases

LEMMA ProbeLowers ==
  ASSUME IInv, main \/ volume_id_probe_vfat
  PROVE  RankLower
<1>1. /\ loop \in 0..Passes /\ Passes \in Nat \ {0, 1} /\ Searching
      /\ at \in {"super", "cluster", "again"}
  BY DEF IInv, TypeOK, ProbeTypes
<1> SUFFICES Stage' < Stage
  BY DEF RankLower, Lower4
<1>2. ASSUME NextPass, pc = "back", at \in {"super", "cluster"}
      PROVE  Stage' < Stage
  <2>1. pc' = "get" /\ at' \in {"again", "cluster"} /\ (at' = "cluster" => loop' = loop - 1)
    BY <1>2, PassFacts
  <2>2. Stage = (IF at = "super" THEN Passes + 3 ELSE loop + 2)
    BY <1>2, Zenon DEF Stage
  <2>3. Stage' = (IF at' = "again" THEN 1 ELSE loop' + 2)
    BY <2>1, Zenon DEF Stage
  <2>4. at = "super" => loop = Passes
    BY <1>1 DEF Searching
  <2> QED
    BY <2>1, <2>2, <2>3, <2>4, <1>1, <1>2
<1>3. CASE main
  <2>1. pc = "main" /\ pc' = "get" /\ at' = "super"
    BY <1>3 DEF main, Request
  <2> QED
    BY <2>1, <1>1 DEF Stage
<1>4. ASSUME pc = "back", pc' \in {"done", "trap"}
      PROVE  Stage' < Stage
  BY <1>4, <1>1 DEF Stage
<1>5. CASE Refused \/ NoCluster \/ Finished
  BY <1>5, <1>4 DEF Refused, NoCluster, Finished, Return
<1>6. CASE Accepted
  BY <1>6, <1>2, <1>4 DEF Accepted
<1>7. CASE HasCluster
  <2>1. CASE Labels = {}
    BY <2>1, <1>7, <1>2 DEF HasCluster
  <2>2. CASE Labels # {}
    <3>1. pc = "back" /\ at = "cluster" /\ pc' = "get" /\ at' = "again"
      BY <2>2, <1>7 DEF HasCluster, Request
    <3> QED
      BY <3>1, <1>1 DEF Stage
  <2> QED
    BY <2>1, <2>2
<1> QED
  BY <1>3, <1>5, <1>6, <1>7 DEF volume_id_probe_vfat

(* Every step of the probe lowers its rank, so that no device and no pattern of  *)
(* short and interrupted reads keeps it going (blkid.c:125-149, 204-282,        *)
(* 420-446): with NoEndlessDescent, a run has finitely many steps.              *)
THEOREM ProbeDescends == Spec => NearerToEnd
<1> DEFINE Step == Rank' \in Ranks(4) /\ Below(Rank', Rank)
<1>1. ASSUME IInv, Bounded, RankOK, RankOK', Next
      PROVE  Step
  <2>1. RankLower
    BY <1>1, BufferLowers, ProbeLowers DEF Next, BufferAction
  <2>2. /\ Stage \in Nat /\ Phase \in Nat /\ ToRead \in Nat /\ MaxFaults - faults \in Nat
        /\ Stage' \in Nat /\ Phase' \in Nat /\ ToRead' \in Nat /\ MaxFaults - faults' \in Nat
    BY <1>1 DEF RankOK
  <2> QED
    BY <2>1, <2>2, Lower4Below DEF RankLower, Rank
<1>2. IInv /\ Bounded /\ [Next]_vars => Bounded'
  BY NextBounded
<1>3. Init => Bounded
  BY InitBounded
<1>4. IInv /\ Bounded => RankOK
  BY RankTypes
<1>5. IInv /\ Bounded /\ RankOK /\ RankOK' /\ [Next]_vars => [Step]_vars
  BY <1>1
<1> QED
  BY <1>2, <1>3, <1>4, <1>5, ProbeInvariant, PTL DEF Spec, NearerToEnd
===============================================================================
