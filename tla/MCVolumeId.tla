------------------------------- MODULE MCVolumeId -----------------------------
(* Small devices for TLC: super blocks that ask for clusters in, across and     *)
(* behind the superblock buffer, and directories of files, labels, labels with  *)
(* a cluster and an end.  The directory may begin in the super block, with the  *)
(* probe's magic in the cluster fields of its second entry.                     *)
EXTENDS VolumeId

MCFields ==
  [ntfs : {FALSE}, sector_size : {2, 4}, per_cluster : 0..3, reserved : {0, 1, 4},
   fats : {0, 2}, fat_length : {0, 1}, fat32_length : {9}, root_cluster : {0, 2, 3}]
  \cup [ntfs : BOOLEAN, sector_size : {4, 6}, per_cluster : {1}, reserved : {1},
        fats : {2}, fat_length : {1}, fat32_length : {0}, root_cluster : {2}]

(* The units of n entries, cut at a length: a label from the first on at every  *)
(* second, of which the given one has a cluster, and one end.                   *)
Directory(length, first, end, data) ==
  [u \in 1..length |->
     LET i == (u + 1) \div 2 IN
     IF u % 2 = 0 THEN (IF i = data THEN "number" ELSE Zero)
     ELSE IF i = end THEN Zero
     ELSE IF i >= first /\ i % 2 = first % 2 THEN "label" ELSE "file"]
MCData == {Directory(length, first, end, data) :
             length \in {0, 3, 12, 18, 22}, first \in {2, 4, 8}, end \in {0, 3, 7},
             data \in {0, 4, 8}}

MCDevices == [sb : MCFields, data : MCData]
MCToken == {"file", "label", "number", Zero, FAT32}
===============================================================================
