------------------------------- MODULE NmeaReader -----------------------------
(* The reader of the Atheros HAL, testcode/android/libgps/athr_gps.c: the nmea  *)
(* thread puts the characters of the tty together to lines and parses them      *)
(* under fix_sem, the timer thread delivers under fix_sem, and the control      *)
(* thread clears the reader at START without it.  (The states of the session,   *)
(* the first fix and the power of the chip are AthrGps.)                        *)
(* A character is known by the sentence it belongs to and its place in it.      *)
EXTENDS AthrSentence

CONSTANTS Sentences,    \* what the chip says; len counts the line feed
          Size,         \* NMEA_MAX_SIZE
          MinLength,    \* 9
          MaxLength,    \* the length of the longest
          MaxLines,     \* how many lines the chip begins
          MaxResets,    \* how often START clears the reader
          MaxCuts       \* how often a line stops in the middle

ASSUME SentencesAssumption ==
  /\ Sentences \subseteq [id : Ids \cup PUNV \cup {"short"}, len : Nat \ {0},
                          fields : Seq(Token)]
  /\ MaxLength \in Nat /\ \A s \in Sentences : s.len <= MaxLength
ASSUME LimitsAssumption ==
  /\ Size \in Nat \ {0} /\ MinLength \in Nat
  /\ MaxLines \in Nat /\ MaxResets \in Nat /\ MaxCuts \in Nat

Zero == [of |-> [id |-> "none", len |-> 1, fields |-> <<>>], i |-> 0]
Char == [of : Sentences, i : Nat]
Feed(ch) == ch.i = ch.of.len

(* Where the chip may be when the tty is opened.                                *)
Places == {ch \in [of : Sentences, i : 0..MaxLength] : ch.i < ch.of.len}

VARIABLES
  dev,        \* the last character the chip sent
  pc,         \* the nmea thread, in nmea_reader_addc: "take", "skip", "bound",
              \* "full", "store", "lock", "parse" (with fix_sem), "zero"
  c, p,       \* its character, and r->pos as it has read it
  in, pos, overflow, r,   \* NmeaReader
  said, was,  \* while a sentence is parsed: the sentence, and r before it
  torn,       \* the reader was cleared since the parsing began
  clearing,   \* the control thread is between memset and the date
  disturbed,  \* history: something came between the reader and whole lines, and
              \* no line has ended since
  heard,      \* history: the sentences of the list of satellites heard so far
  lines, resets, cuts   \* bounds

buffer == <<in, pos, overflow>>
parsing == <<said, was, torn>>
bounds == <<lines, resets, cuts>>
vars == <<dev, pc, c, p, buffer, r, parsing, clearing, disturbed, heard, bounds>>

Empty == [i \in 1..Size |-> Zero]

Init ==
  /\ dev \in Places
  /\ pc = "take" /\ c = Zero /\ p = 0
  /\ in = Empty /\ pos = 0 /\ overflow = FALSE /\ r = athr_reader_init
  /\ said = Zero.of /\ was = athr_reader_init /\ torn = FALSE
  /\ clearing = FALSE /\ disturbed = (dev.i > 0) /\ heard = <<>>
  /\ lines = 0 /\ resets = 0 /\ cuts = 0

-------------------------------------------------------------------------------
(* nmea_reader_addc, a step for every access of the fields that memset clears.  *)

(* The next character of the line, or the first one of the next line.           *)
NextChars ==
  IF dev.i < dev.of.len /\ dev.i > 0 THEN {[dev EXCEPT !.i = @ + 1]}
  ELSE {[of |-> s, i |-> 1] : s \in Sentences}

Take(ch) ==
  /\ pc = "take" /\ ch \in NextChars
  /\ lines' = IF ch.i = 1 THEN lines + 1 ELSE lines
  /\ lines' <= MaxLines
  /\ dev' = ch /\ c' = ch
  /\ pc' = IF overflow THEN "skip" ELSE "bound"
  /\ UNCHANGED <<p, buffer, r, parsing, clearing, disturbed, heard, resets, cuts>>

Skip ==
  /\ pc = "skip"
  /\ overflow' = ~Feed(c) /\ pc' = "take"
  /\ disturbed' = (disturbed /\ ~Feed(c))
  /\ UNCHANGED <<dev, c, p, in, pos, r, parsing, clearing, heard, bounds>>

(* Mutant: one character too many.                                              *)
BoundLate ==
  /\ pc = "bound"
  /\ p' = pos /\ pc' = IF pos > Size THEN "full" ELSE "store"
  /\ UNCHANGED <<dev, c, buffer, r, parsing, clearing, disturbed, heard, bounds>>
(* Mutant: room is kept for a terminating zero.                                 *)
BoundEarly ==
  /\ pc = "bound"
  /\ p' = pos /\ pc' = IF pos + 1 >= Size THEN "full" ELSE "store"
  /\ UNCHANGED <<dev, c, buffer, r, parsing, clearing, disturbed, heard, bounds>>
Bound ==
  /\ pc = "bound"
  /\ p' = pos /\ pc' = IF pos >= Size THEN "full" ELSE "store"
  /\ UNCHANGED <<dev, c, buffer, r, parsing, clearing, disturbed, heard, bounds>>

(* The character that does not fit is dropped, the line feed as well: then the  *)
(* next line is skipped.                                                        *)
Full ==
  /\ pc = "full"
  /\ overflow' = TRUE /\ pos' = 0 /\ pc' = "take"
  /\ disturbed' = (disturbed \/ Feed(c))
  /\ UNCHANGED <<dev, c, p, in, r, parsing, clearing, heard, bounds>>

(* The index of the store was read before; the one that is counted up may have  *)
(* been read again.                                                             *)
Store(q) ==
  /\ pc = "store" /\ q \in {p, pos}
  /\ in' = [in EXCEPT ![p + 1] = c] /\ pos' = q + 1
  /\ pc' = IF Feed(c) THEN "lock" ELSE "take"
  /\ UNCHANGED <<dev, c, p, overflow, r, parsing, clearing, disturbed, heard, bounds>>

-------------------------------------------------------------------------------
(* nmea_reader_parse, under fix_sem.                                            *)

Line == [i \in 1..pos |-> in[i]]
Text(s) == [i \in 1..s.len |-> [of |-> s, i |-> i]]
Tailed(s) == [i \in 1..s.len - 1 |-> [of |-> s, i |-> i + 1]]

(* The sentence as it is, or without its first character, the '$'.  Anything    *)
(* else may be taken for any sentence: the checksum is not looked at.           *)
Meanings ==
  LET same == {s \in Sentences : Line = Text(s) \/ Line = Tailed(s)}
  IN IF same # {} THEN same ELSE Sentences

Heard(s) ==
  LET Tok(i) == nmea_tokenizer_get(s, i)
  IN IF s.id # "GSV" THEN heard
     ELSE IF s \notin Meanings \/ Meanings = Sentences THEN <<>>
     ELSE IF Tok(2).n = 1 THEN <<s>>
     ELSE IF heard # <<>> /\ Tok(2).n = Len(heard) + 1 THEN Append(heard, s)
     ELSE <<>>

(* fix_sem is taken, the line is taken apart into tokens.                       *)
Lock(s) ==
  /\ pc = "lock" /\ s \in Meanings
  /\ IF pos < MinLength THEN pc' = "zero" /\ UNCHANGED <<said, was>>
     ELSE pc' = "parse" /\ said' = s /\ was' = r
  /\ UNCHANGED <<dev, c, p, buffer, r, torn, clearing, disturbed, heard, bounds>>

(* The tokens are read from the buffer one after the other, so that from one of *)
(* them on they may be zeros.                                                   *)
Blanked(s, k) ==
  [s EXCEPT !.fields = [i \in DOMAIN s.fields |->
     IF i <= k THEN s.fields[i] ELSE [len |-> s.fields[i].len, n |-> -1, c |-> "NUL"]]]

(* The reader was cleared while the sentence was being parsed.  A list goes on  *)
(* at any index, over zeros, but never beyond the number announced.  Any other  *)
(* field is what it was, what memset made of it, or what the rest of the        *)
(* sentence makes of it.                                                        *)
TornLists(s) ==
  LET Prns == {0, -1} \cup {nmea_tokenizer_get(s, 4 * i).n : i \in 1..PerSentence}
  IN IF s.id # "GSV" THEN {<<>>}
     ELSE UNION {[1..n -> Prns] : n \in 0..nmea_tokenizer_get(s, 3).n}
Torn(s) ==
  LET Ends == {r} \cup {athr_reader_parse(x, Blanked(s, k)) :
                           x \in {was, athr_cleared, r}, k \in 0..Len(s.fields)}
  IN [flags : SUBSET UNION {x.flags : x \in Ends}, place : {x.place : x \in Ends},
      time : {x.time : x \in Ends}, date : {x.date : x \in Ends}, svs : TornLists(s),
      mask : SUBSET UNION {x.mask : x \in Ends}, changed : {x.changed : x \in Ends},
      gsa_fixed : {x.gsa_fixed : x \in Ends}, timemap : {x.timemap : x \in Ends}]

ParsedTo(reader, list) ==
  /\ pc' = "zero" /\ r' = reader /\ heard' = list
  /\ said' = Zero.of /\ was' = athr_reader_init /\ torn' = FALSE
  /\ UNCHANGED <<dev, c, p, buffer, clearing, disturbed, bounds>>

Parse == pc = "parse" /\ ~torn /\ ParsedTo(athr_reader_parse(r, said), Heard(said))
ParseTorn(reader) == pc = "parse" /\ torn /\ reader \in Torn(said) /\ ParsedTo(reader, <<>>)

(* Mutant: the position is not reset after a line.                              *)
LeavePosition ==
  /\ pc = "zero"
  /\ pc' = "take" /\ disturbed' = FALSE
  /\ UNCHANGED <<dev, c, p, buffer, r, parsing, clearing, heard, bounds>>
ZeroPosition ==
  /\ pc = "zero"
  /\ pos' = 0 /\ pc' = "take" /\ disturbed' = FALSE
  /\ UNCHANGED <<dev, c, p, in, overflow, r, parsing, clearing, heard, bounds>>

-------------------------------------------------------------------------------
(* The other threads, and the chip.                                             *)

(* nmea_reader_init at START: memset, then the date.                            *)
Clear ==
  /\ ~clearing /\ resets < MaxResets /\ resets' = resets + 1
  /\ in' = Empty /\ pos' = 0 /\ overflow' = FALSE /\ r' = athr_cleared
  /\ clearing' = TRUE /\ disturbed' = TRUE /\ heard' = <<>>
  /\ torn' = (pc = "parse")
  /\ UNCHANGED <<dev, pc, c, p, said, was, lines, cuts>>

ClearDate ==
  /\ clearing
  /\ r' = [r EXCEPT !.date = NoDate] /\ clearing' = FALSE
  /\ UNCHANGED <<dev, pc, c, p, buffer, parsing, disturbed, heard, bounds>>

(* gps_timer_thread, under fix_sem: a position and a list of satellites that    *)
(* are due.                                                                     *)
Deliver ==
  /\ pc # "parse"
  /\ r' = [r EXCEPT !.flags = IF "LAT_LONG" \in @ THEN {} ELSE @, !.changed = FALSE]
  /\ r' # r
  /\ UNCHANGED <<dev, pc, c, p, buffer, parsing, clearing, disturbed, heard, bounds>>

(* The tty is closed, or the chip goes to sleep, in the middle of a line, and   *)
(* is opened again anywhere: what was read stays in the buffer.                 *)
Cut ==
  /\ cuts < MaxCuts /\ cuts' = cuts + 1
  /\ pc = "take" /\ dev.i > 0 /\ dev.i < dev.of.len
  /\ dev' \in Places /\ disturbed' = TRUE
  /\ UNCHANGED <<pc, c, p, buffer, r, parsing, clearing, heard, lines, resets>>

nmea_reader_addc ==
  \/ \E ch \in NextChars : Take(ch)
  \/ Skip \/ Bound \/ Full
  \/ \E q \in {p, pos} : Store(q)
  \/ \E s \in Meanings : Lock(s)
  \/ Parse
  \/ \E reader \in Torn(said) : ParseTorn(reader)
  \/ ZeroPosition

Next == nmea_reader_addc \/ Clear \/ ClearDate \/ Deliver \/ Cut

Spec == Init /\ [][Next]_vars

-------------------------------------------------------------------------------
(* Properties                                                                   *)

(* The buffer is never left, also when it is cleared under the thread that      *)
(* fills it (athr_gps.c:920-928, 373).                                          *)
BufferTypes ==
  /\ in \in [1..Size -> Char \cup {Zero}]
  /\ pos \in 0..Size /\ p \in 0..Size /\ overflow \in BOOLEAN
  /\ pc = "store" => p < Size /\ pos <= p
TypeOK ==
  /\ BufferTypes
  /\ dev \in Char /\ c \in Char \cup {Zero}
  /\ pc \in {"take", "skip", "bound", "full", "store", "lock", "parse", "zero"}
  /\ said \in Sentences \cup {Zero.of} /\ torn \in BOOLEAN
  /\ pc = "parse" => said \in Sentences
  /\ clearing \in BOOLEAN /\ disturbed \in BOOLEAN /\ heard \in Seq(Sentences)
  /\ lines \in Nat /\ resets \in Nat /\ cuts \in Nat

(* A line that is parsed is one line of the chip and all of it, unless the      *)
(* reader was cleared in its course, or a line was cut or lost its line feed    *)
(* before it: what one of these spoils ends with the next line feed             *)
(* (athr_gps.c:913-937).                                                        *)
LineWhole == pc = "lock" /\ ~disturbed => Line = Text(dev.of)

(* A line that fits and that nothing disturbed is parsed.                       *)
LineKept == pc \in {"skip", "full"} /\ ~disturbed => dev.of.len > Size

(* When all the sentences of a list of satellites were heard one after the      *)
(* other, whatever was lost or mangled before them and whatever other sentences *)
(* came in between, the list is what they said, and as long as they announced   *)
(* (athr_gps.c:766-796).                                                        *)
ListWhole ==
  LET Tok(k, i) == nmea_tokenizer_get(heard[k], i)
      n == Tok(Len(heard), 3).n
  IN heard # <<>> /\ Len(heard) = Tok(Len(heard), 1).n
       /\ (\A k \in DOMAIN heard : Tok(k, 3).n = n) /\ n <= PerSentence * Len(heard)
       /\ n > PerSentence * (Len(heard) - 1) =>
     /\ Len(r.svs) = n
     /\ \A j \in 1..n : r.svs[j] = Tok((j - 1) \div PerSentence + 1,
                                       4 * ((j - 1) % PerSentence) + 4).n
===============================================================================
