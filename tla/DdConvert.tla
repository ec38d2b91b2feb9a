------------------------------- MODULE DdConvert ------------------------------
(* What dd's record conversions promise of a whole stream of bytes, with no     *)
(* buffers and no blocks: the reference Dd is checked against.                  *)
EXTENDS Integers, Sequences

CONSTANTS NL, Space

(* A newline-terminated record, cut or padded with spaces to cbs bytes.         *)
BlockRecord(s, cbs) ==
  [i \in 1..cbs |-> IF i <= Len(s) THEN s[i] ELSE Space]

(* The records from the i-th byte on; the last may lack its newline.            *)
Blocked(s, cbs) ==
  LET end(i) == CHOOSE e \in i..Len(s) + 1 :
                  /\ e = Len(s) + 1 \/ s[e] = NL
                  /\ \A j \in i..e - 1 : s[j] # NL
      records[i \in 1..Len(s) + 2] ==
        IF i > Len(s) THEN <<>>
        ELSE BlockRecord(SubSeq(s, i, end(i) - 1), cbs) \o records[end(i) + 1]
  IN records[1]

(* A record without its trailing spaces and with a newline.                     *)
UnblockRecord(s) ==
  LET keep == CHOOSE n \in 0..Len(s) :
                /\ n > 0 => s[n] # Space
                /\ \A j \in n + 1..Len(s) : s[j] = Space
  IN Append(SubSeq(s, 1, keep), NL)

(* Records of cbs bytes, the last perhaps shorter: the first k of them.         *)
Unblocked(s, cbs) ==
  LET upTo(k) == IF k * cbs < Len(s) THEN k * cbs ELSE Len(s)
      records[k \in 0..Len(s)] ==
        IF k = 0 THEN <<>>
        ELSE IF (k - 1) * cbs >= Len(s) THEN records[k - 1]
        ELSE records[k - 1] \o UnblockRecord(SubSeq(s, (k - 1) * cbs + 1, upTo(k)))
  IN records[Len(s)]
===============================================================================
