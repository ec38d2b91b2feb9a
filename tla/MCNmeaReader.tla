----------------------------- MODULE MCNmeaReader -----------------------------
(* Short lines for TLC: a list of satellites in two sentences, one of its own,  *)
(* and a position, of lengths below, at and beyond that of the buffer.          *)
EXTENDS NmeaReader

Number(n) == [len |-> 6, n |-> n, c |-> "0"]
Small(n) == [len |-> 2, n |-> n, c |-> "1"]
Letter(ch) == [len |-> 1, n |-> -1, c |-> ch]
Blank == [len |-> 0, n |-> -1, c |-> ","]

MCToday == [year |-> 1970, day |-> 101]

List(total, k, n, prns) ==
  [id |-> "GSV", len |-> 3,
   fields |-> <<Small(total), Small(k), Small(n)>>
     \o [i \in 1..4 * Len(prns) |-> IF i % 4 = 1 THEN Small(prns[(i - 1) \div 4 + 1]) ELSE Blank]]
GSV1 == [List(2, 1, 2, <<1>>) EXCEPT !.len = 2]
GSV2 == List(2, 2, 2, <<2>>)
GSV3 == [List(1, 1, 1, <<5>>) EXCEPT !.len = 2]
GLL1 == [id |-> "GLL", len |-> 4,
         fields |-> <<Number(5), Letter("N"), Number(6), Letter("E"), Number(3), Letter("A")>>]
MCLines == {GSV1, GSV2, GSV3, GLL1}
MCToken == UNION {{s.fields[i] : i \in DOMAIN s.fields} : s \in MCLines}
===============================================================================
