------------------------------- MODULE MCQemuGps ------------------------------
(* A few sentences for TLC: positions with and without a date, a date alone, a  *)
(* list of satellites, the satellites in use, and a line that is no sentence.   *)
EXTENDS QemuGps

Number(n) == [len |-> 6, n |-> n, c |-> "0"]
Small(n) == [len |-> 2, n |-> n, c |-> "0"]
Year == [len |-> 4, n |-> 2012, c |-> "2"]
Letter(c) == [len |-> 1, n |-> -1, c |-> c]
Blank == [len |-> 0, n |-> -1, c |-> ","]

MCToday == [year |-> 1970, day |-> 101]

GGA1 == [id |-> "GGA", len |-> 60,
         fields |-> <<Number(1), Number(1), Letter("S"), Number(2), Letter("E"), Letter("1"),
                      Small(4), Blank, Small(3), Letter("M")>>]
GLL2 == [id |-> "GLL", len |-> 40,
         fields |-> <<Number(3), Letter("N"), Number(4), Letter("W"), Number(2), Letter("A")>>]
RMC3 == [id |-> "RMC", len |-> 60,
         fields |-> <<Number(3), Letter("A"), Number(5), Letter("N"), Number(6), Letter("E"),
                      Small(1), Small(2), Number(20312)>>]
ZDA4 == [id |-> "ZDA", len |-> 40,
         fields |-> <<Number(4), Small(2), Small(3), Year, Small(0), Small(0)>>]
VTG5 == [id |-> "VTG", len |-> 40,
        fields |-> <<Small(1), Letter("T"), Blank, Letter("M"), Small(5), Letter("N"), Small(7),
                     Letter("K"), Letter("A")>>]
GSV1 == [id |-> "GSV", len |-> 40,
         fields |-> <<Small(1), Small(1), Small(2), Small(1), Blank, Blank, Blank,
                      Small(2), Blank, Blank, Blank>>]
GSAFix == [id |-> "GSA", len |-> 60, fields |-> <<Letter("A"), Letter("3"), Small(4), Small(5)>>]
Short == [id |-> "short", len |-> 20, fields |-> <<>>]

MCSentences == {GGA1, GLL2, RMC3, ZDA4, VTG5, GSV1, GSAFix, Short}
MCToken == UNION {{s.fields[i] : i \in DOMAIN s.fields} : s \in MCSentences}
===============================================================================
