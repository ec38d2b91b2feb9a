----------------------------- MODULE AthrSentence -----------------------------
(* How the parser of the Atheros HAL, testcode/android/libgps/athr_gps.c,       *)
(* differs from the one of NmeaSentence: it never takes the date of the host,   *)
(* it wants a fix before it takes a position, and it knows the $PUNV sentences  *)
(* of the chip.                                                                 *)
EXTENDS NmeaSentence

PUNV == {"QUAL", "TIMEMAP", "CFG_R"}

NoMap == [valid |-> FALSE, time |-> <<NoDate, 0>>]

(* What memset leaves before the date is set to -1.                             *)
ZeroDate == [year |-> 0, day |-> 0]
athr_cleared ==
  [flags |-> {}, place |-> <<0, 0>>, time |-> <<NoDate, 0>>, date |-> ZeroDate,
   svs |-> <<>>, mask |-> {}, changed |-> FALSE, gsa_fixed |-> FALSE, timemap |-> NoMap]
athr_reader_init == [athr_cleared EXCEPT !.date = NoDate]

(* nmea_reader_get_timestamp                                                    *)
HasTimestamp(r, tok) == tok.len >= 6 /\ r.date.year >= 0
athr_update_time(r, tok) ==
  IF HasTimestamp(r, tok) THEN [r EXCEPT !.time = <<r.date, tok.n>>] ELSE r

(* The length of the date is looked at, and nothing done about it.              *)
athr_update_date(r, date, time) ==
  IF date.n < 0 THEN r ELSE athr_update_time([r EXCEPT !.date = DateOf(date)], time)

(* The accuracy is a float, which 99.99 never equals: an unknown accuracy is    *)
(* delivered like any other (athr_gps.c:546-550).                               *)
athr_update_accuracy(r, tok) == Noted(r, tok, "ACCURACY")

athr_update_timemap(r, systime, timestamp) ==
  [r EXCEPT !.timemap =
     IF systime.len > 0 /\ HasTimestamp(r, timestamp)
     THEN [valid |-> TRUE, time |-> <<r.date, timestamp.n>>]
     ELSE [@ EXCEPT !.valid = FALSE]]

athr_GGA(r, s) ==
  LET Tok(i) == nmea_tokenizer_get(s, i)
  IN IF Tok(6).c \in {"NUL", ",", "0"} THEN r
     ELSE update_altitude(update_latlong(athr_update_time(r, Tok(1)),
                                         Tok(2), Tok(3), Tok(4), Tok(5)), Tok(9))

athr_GLL(r, s) ==
  LET Tok(i) == nmea_tokenizer_get(s, i)
  IN IF Tok(6).c # "A" THEN r
     ELSE update_latlong(athr_update_time(r, Tok(5)), Tok(1), Tok(2), Tok(3), Tok(4))

athr_RMC(r, s) ==
  LET Tok(i) == nmea_tokenizer_get(s, i)
      dated == athr_update_date(r, Tok(9), Tok(1))
      placed == update_latlong(dated, Tok(3), Tok(4), Tok(5), Tok(6))
  IN IF Tok(2).c # "A" THEN r ELSE update_speed(update_bearing(placed, Tok(8)), Tok(7))

(* A ZDA leaves no date, so that the time in it is dropped.                     *)
athr_ZDA(r, s) ==
  LET Tok(i) == nmea_tokenizer_get(s, i)
      dated == IF Tok(4).c = "NUL" THEN r ELSE update_cdate(r, Tok(2), Tok(3), Tok(4))
  IN IF Tok(1).c = "NUL" THEN dated ELSE athr_update_time(dated, Tok(1))

(* An empty token starts at the comma that ends it.                             *)
athr_PUNV(r, s) ==
  LET Tok(i) == nmea_tokenizer_get(s, i)
  IN CASE s.id = "QUAL" -> IF Tok(3).c = "," THEN r ELSE athr_update_accuracy(r, Tok(10))
       [] s.id = "TIMEMAP" -> athr_update_timemap(r, Tok(8), Tok(2))
       [] OTHER -> r

athr_reader_parse(r, s) ==
  CASE s.id = "GGA" -> athr_GGA(r, s) [] s.id = "GLL" -> athr_GLL(r, s)
    [] s.id = "GSA" -> GSA(r, s)      [] s.id = "GSV" -> GSV(r, s)
    [] s.id = "RMC" -> athr_RMC(r, s) [] s.id = "VTG" -> VTG(r, s)
    [] s.id = "ZDA" -> athr_ZDA(r, s) [] s.id \in PUNV -> athr_PUNV(r, s)
    [] OTHER -> r
===============================================================================
