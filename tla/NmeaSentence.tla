----------------------------- MODULE NmeaSentence -----------------------------
(* What one NMEA sentence does to the reader of the GPS HALs: the tokenizer and *)
(* nmea_reader_parse() up to its callbacks, testcode/android/libgps/gps_qemu.c. *)
(* (gps_neu.c is the same text; athr_gps.c differs, see AthrSentence.)          *)
(* A token is known by its length, the number str2int makes of its digits (-1   *)
(* if they are not) and its first character.  Checksums are cut off unread.     *)
EXTENDS Integers, Sequences

CONSTANTS Token,        \* the fields sentences are made of
          Today,        \* the date of the host
          MaxTokens,    \* MAX_NMEA_TOKENS
          MaxPrn,       \* 32 satellites have a bit in the mask
          Channels,     \* 12 satellites in a GSA
          PerSentence   \* 4 satellites in a GSV

Date == [year : Int, day : Int]
NoDate == [year |-> -1, day |-> -1]

ASSUME TokensAssumption ==
  /\ Token \subseteq [len : Nat, n : Int, c : STRING]
  /\ \A t \in Token : t.n >= -1 /\ (t.len = 0 => t.n = -1 /\ t.c = ",")
  /\ Today \in Date /\ Today.year >= 0

ASSUME SizesAssumption ==
  MaxTokens \in Nat /\ MaxPrn \in Nat /\ Channels \in Nat /\ PerSentence \in Nat \ {0}

Ids == {"GGA", "GLL", "GSA", "GSV", "RMC", "VTG", "ZDA", "other"}
Flags == {"LAT_LONG", "ALTITUDE", "SPEED", "BEARING", "ACCURACY"}

-------------------------------------------------------------------------------
(* The tokenizer.                                                               *)

Dummy == [len |-> 0, n |-> -1, c |-> "NUL"]

(* An empty field at the end is no token: the loop stops at the end of the line *)
(* (gps_qemu.c:325).                                                            *)
TokenCount(s) ==
  LET n == Len(s.fields) IN IF n > 0 /\ s.fields[n].len = 0 THEN n - 1 ELSE n

nmea_tokenizer_get(s, i) ==
  IF i < MaxTokens /\ i <= TokenCount(s) THEN s.fields[i] ELSE Dummy

-------------------------------------------------------------------------------
(* The reader's fields that outlive a sentence.                                 *)

nmea_reader_init ==
  [flags |-> {}, place |-> <<0, 0>>, time |-> <<NoDate, 0>>, date |-> NoDate,
   svs |-> <<>>, mask |-> {}, changed |-> FALSE, gsa_fixed |-> FALSE]

With(r, flag) == [r EXCEPT !.flags = @ \cup {flag}]

(* The date of the host stands in for one that is not known.                    *)
update_time(r, tok) ==
  LET date == IF r.date.year < 0 THEN Today ELSE r.date IN
  IF tok.len < 6 THEN r ELSE [r EXCEPT !.date = date, !.time = <<date, tok.n>>]

(* The year of a ZDA is read to four characters past its end, into the comma or *)
(* the end of the line, and is no number for that (gps_qemu.c:519).             *)
update_cdate(r, day, mon, year) ==
  IF day.len < 2 \/ mon.len < 2 \/ year.len < 4 THEN r
  ELSE [r EXCEPT !.date = [year |-> -1, day |-> 100 * day.n + mon.n]]

(* ddmmyy; a token whose day or month is not a number has n = -1.               *)
DateOf(tok) == [year |-> 2000 + (tok.n % 100), day |-> tok.n \div 100]
update_date(r, date, time) ==
  IF date.len # 6 \/ date.n < 0 THEN r
  ELSE update_time([r EXCEPT !.date = DateOf(date)], time)

Signed(tok, hemi, negative) == IF hemi.c = negative THEN -tok.n ELSE tok.n
update_latlong(r, lat, latHemi, lon, lonHemi) ==
  IF lat.len < 6 \/ lon.len < 6 THEN r
  ELSE With([r EXCEPT !.place = <<Signed(lat, latHemi, "S"), Signed(lon, lonHemi, "W")>>],
            "LAT_LONG")

Noted(r, tok, flag) == IF tok.len = 0 THEN r ELSE With(r, flag)
update_altitude(r, tok) == Noted(r, tok, "ALTITUDE")
update_bearing(r, tok) == Noted(r, tok, "BEARING")
update_speed(r, tok) == Noted(r, tok, "SPEED")
update_accuracy(r) == With(r, "ACCURACY")

-------------------------------------------------------------------------------
(* The sentences.                                                               *)

GGA(r, s) ==
  LET Tok(i) == nmea_tokenizer_get(s, i)
  IN update_altitude(update_latlong(update_time(r, Tok(1)), Tok(2), Tok(3), Tok(4), Tok(5)),
                     Tok(9))

GLL(r, s) ==
  LET Tok(i) == nmea_tokenizer_get(s, i)
  IN IF Tok(6).c # "A" THEN r
     ELSE update_latlong(update_time(r, Tok(5)), Tok(1), Tok(2), Tok(3), Tok(4))

(* An empty status in the middle of the line starts with its comma: it counts   *)
(* as a fix.                                                                    *)
GSA(r, s) ==
  LET used == {nmea_tokenizer_get(s, i).n : i \in 3..2 + Channels} \cap 1..MaxPrn
  IN IF nmea_tokenizer_get(s, 2).c \notin {"NUL", "1"}
     THEN [r EXCEPT !.mask = used, !.changed = @ \/ used # {},
                    !.gsa_fixed = @ \/ used # {}]
     ELSE IF r.gsa_fixed
     THEN [r EXCEPT !.mask = {}, !.changed = TRUE, !.gsa_fixed = FALSE]
     ELSE r

(* Mutant: the list is not emptied.                                             *)
GSVAppends(r, s) ==
  LET Tok(i) == nmea_tokenizer_get(s, i)
      room == IF Tok(3).n > Len(r.svs) THEN Tok(3).n - Len(r.svs) ELSE 0
      count == IF room < PerSentence THEN room ELSE PerSentence
  IN IF Tok(3).n <= 0 THEN r
     ELSE [r EXCEPT !.svs = @ \o [i \in 1..count |-> Tok(4 * i).n],
                    !.changed = (Tok(2).n = Tok(1).n) \/ (@ /\ Tok(2).n # 1)]

(* The first sentence of a list empties it, every one appends up to four        *)
(* satellites while the list is shorter than announced, the last one makes it   *)
(* due for delivery.                                                            *)
GSV(r, s) ==
  LET Tok(i) == nmea_tokenizer_get(s, i)
      old == IF Tok(2).n = 1 THEN <<>> ELSE r.svs
      room == IF Tok(3).n > Len(old) THEN Tok(3).n - Len(old) ELSE 0
      count == IF room < PerSentence THEN room ELSE PerSentence
  IN IF Tok(3).n <= 0 THEN r
     ELSE [r EXCEPT !.svs = old \o [i \in 1..count |-> Tok(4 * i).n],
                    !.changed = (Tok(2).n = Tok(1).n) \/ (@ /\ Tok(2).n # 1)]

RMC(r, s) ==
  LET Tok(i) == nmea_tokenizer_get(s, i)
      dated == update_date(r, Tok(9), Tok(1))
      placed == update_latlong(dated, Tok(3), Tok(4), Tok(5), Tok(6))
  IN IF Tok(2).c # "A" THEN r ELSE update_speed(update_bearing(placed, Tok(8)), Tok(7))

VTG(r, s) ==
  LET Tok(i) == nmea_tokenizer_get(s, i)
  IN IF Tok(9).c \in {"NUL", "N"} THEN r ELSE update_speed(update_bearing(r, Tok(1)), Tok(5))

ZDA(r, s) ==
  LET Tok(i) == nmea_tokenizer_get(s, i)
      dated == IF Tok(4).c = "NUL" THEN r ELSE update_cdate(r, Tok(2), Tok(3), Tok(4))
  IN IF Tok(1).c = "NUL" THEN dated ELSE update_time(dated, Tok(1))

nmea_reader_parse(r, s) ==
  update_accuracy(CASE s.id = "GGA" -> GGA(r, s) [] s.id = "GLL" -> GLL(r, s)
                    [] s.id = "GSA" -> GSA(r, s) [] s.id = "GSV" -> GSV(r, s)
                    [] s.id = "RMC" -> RMC(r, s) [] s.id = "VTG" -> VTG(r, s)
                    [] s.id = "ZDA" -> ZDA(r, s) [] OTHER -> r)
===============================================================================
