--------------------------- MODULE NmeaReaderProofs ---------------------------
(* Theorems about NmeaReader, for every length of the buffer, every set of      *)
(* sentences and every order of the threads: the buffer is never left; between  *)
(* two disturbances every line that fits is parsed as it was sent; and          *)
(* sentences of one list heard in order make the list they announce.            *)
EXTENDS NmeaReader, TLAPS

LEMMA Assumptions ==
  /\ Size \in Nat /\ Size > 0 /\ MinLength \in Nat
  /\ \A s \in Sentences : s.len \in Nat /\ s.len > 0
  BY SentencesAssumption, LimitsAssumption

-------------------------------------------------------------------------------
(* Types.                                                                       *)

LEMMA InitTypes == Init => TypeOK
  <1> SUFFICES ASSUME Init PROVE TypeOK
    OBVIOUS
  <1>1. dev \in Char
    BY DEF Init, Places, Char
  <1>2. Empty \in [1..Size -> Char \cup {Zero}]
    BY DEF Empty
  <1>3. heard \in Seq(Sentences)
    BY DEF Init
  <1>4. in = Empty /\ pos = 0 /\ p = 0 /\ overflow = FALSE /\ pc = "take"
    BY Zenon DEF Init
  <1>5. BufferTypes
    <2>1. in \in [1..Size -> Char \cup {Zero}]
      BY Zenon, <1>2, <1>4
    <2>2. pos \in 0..Size /\ p \in 0..Size
      BY <1>4, Assumptions
    <2>3. overflow \in BOOLEAN /\ pc # "store"
      BY Zenon, <1>4
    <2> QED
      BY Zenon, <2>1, <2>2, <2>3 DEF BufferTypes
  <1>6. disturbed \in BOOLEAN /\ clearing \in BOOLEAN
    <2>1. disturbed = (dev.i > 0) /\ clearing = FALSE
      BY Zenon DEF Init
    <2>2. (dev.i > 0) \in BOOLEAN
      OBVIOUS
    <2> QED
      BY Zenon, <2>1, <2>2
  <1>7. /\ c = Zero /\ lines = 0 /\ resets = 0 /\ cuts = 0
        /\ said = Zero.of /\ torn = FALSE
    BY Zenon DEF Init
  <1> QED
    BY <1>1, <1>3, <1>4, <1>5, <1>6, <1>7 DEF TypeOK

(* What the chip sends next is a character of a sentence.                       *)
LEMMA NextTyped ==
  ASSUME dev \in Char, NEW ch \in NextChars
  PROVE  ch \in Char
  BY DEF NextChars, Char

LEMMA HeardTyped ==
  ASSUME heard \in Seq(Sentences), NEW s \in Sentences
  PROVE  Heard(s) \in Seq(Sentences)
  BY DEF Heard

LEMMA NextTypes == TypeOK /\ [Next]_vars => TypeOK'
  <1> SUFFICES ASSUME TypeOK, [Next]_vars PROVE TypeOK'
    OBVIOUS
  <1> USE Assumptions
  <1>1. ASSUME NEW ch \in NextChars, Take(ch) PROVE TypeOK'
    <2>1. ch \in Char
      BY NextTyped DEF TypeOK
    <2> QED
      BY <1>1, <2>1 DEF Take, TypeOK, BufferTypes, buffer, parsing
  <1>2. CASE Skip
    BY <1>2 DEF Skip, TypeOK, BufferTypes, parsing, bounds
  <1>3. CASE Bound
    BY <1>3 DEF Bound, TypeOK, BufferTypes, buffer, parsing, bounds
  <1>4. CASE Full
    BY <1>4 DEF Full, TypeOK, BufferTypes, parsing, bounds
  <1>5. ASSUME NEW q \in {p, pos}, Store(q) PROVE TypeOK'
    <2>1. p < Size /\ p \in Nat /\ pos \in Nat /\ pos <= p
      BY <1>5 DEF Store, TypeOK, BufferTypes
    <2>2. in' \in [1..Size -> Char \cup {Zero}]
      BY <1>5 DEF Store, TypeOK, BufferTypes
    <2>3. pos' \in 0..Size
      BY <1>5, <2>1 DEF Store
    <2>4. pc' \in {"take", "lock"} /\ UNCHANGED <<dev, c, p, overflow, r, said, torn, clearing,
                                                disturbed, heard, bounds>>
      BY <1>5 DEF Store, parsing
    <2> QED
      BY <2>1, <2>2, <2>3, <2>4 DEF TypeOK, BufferTypes, bounds
  <1>6. ASSUME NEW s \in Meanings, Lock(s) PROVE TypeOK'
    <2>1. s \in Sentences
      BY DEF Meanings
    <2>2. UNCHANGED <<dev, c, p, buffer, torn, clearing, disturbed, heard, bounds>>
      BY <1>6 DEF Lock
    <2>3. CASE pc' = "zero" /\ said' = said
      BY <2>2, <2>3 DEF TypeOK, BufferTypes, buffer, bounds
    <2>4. CASE pc' = "parse" /\ said' = s
      BY <2>1, <2>2, <2>4 DEF TypeOK, BufferTypes, buffer, bounds
    <2> QED
      BY <1>6, <2>3, <2>4 DEF Lock
  <1>13. ASSUME NEW reader, NEW list \in Seq(Sentences), ParsedTo(reader, list) PROVE TypeOK'
    BY <1>13 DEF ParsedTo, TypeOK, BufferTypes, buffer, bounds
  <1>14. CASE Parse
    <2>1. said \in Sentences /\ heard \in Seq(Sentences)
      BY <1>14 DEF Parse, TypeOK
    <2>2. Heard(said) \in Seq(Sentences)
      BY <2>1, HeardTyped
    <2> QED
      BY <1>13, <1>14, <2>2 DEF Parse
  <1>15. ASSUME NEW reader \in Torn(said), ParseTorn(reader) PROVE TypeOK'
    <2>1. <<>> \in Seq(Sentences)
      OBVIOUS
    <2> QED
      BY <1>13, <1>15, <2>1 DEF ParseTorn
  <1>7. CASE ZeroPosition
    <2>1. BufferTypes'
      BY <1>7 DEF ZeroPosition, TypeOK, BufferTypes
    <2>2. /\ disturbed' = FALSE /\ pc' = "take"
          /\ UNCHANGED <<dev, c, said, torn, clearing, heard, bounds>>
      BY Zenon, <1>7 DEF ZeroPosition, parsing
    <2> QED
      BY <2>1, <2>2, Zenon DEF TypeOK, bounds
  <1>8. CASE Clear
    <2>1. in' \in [1..Size -> Char \cup {Zero}]
      BY <1>8 DEF Clear, Empty
    <2>2. heard' \in Seq(Sentences)
      BY <1>8 DEF Clear
    <2>3. pos' \in 0..Size /\ p' \in 0..Size /\ (pc = "store" => p < Size /\ pos' <= p)
      BY <1>8 DEF Clear, TypeOK, BufferTypes
    <2>4. /\ overflow' = FALSE /\ p' = p /\ clearing' = TRUE /\ disturbed' = TRUE
          /\ UNCHANGED <<dev, pc, c, said, lines, cuts>>
      BY Zenon, <1>8 DEF Clear
    <2>7. torn' \in BOOLEAN
      BY <1>8 DEF Clear
    <2>5. resets' \in Nat
      BY <1>8 DEF Clear, TypeOK
    <2>6. BufferTypes'
      BY Zenon, <2>1, <2>3, <2>4 DEF BufferTypes
    <2> QED
      BY Zenon, <2>2, <2>4, <2>5, <2>6, <2>7 DEF TypeOK
  <1>9. CASE ClearDate
    BY <1>9 DEF ClearDate, TypeOK, BufferTypes, buffer, parsing, bounds
  <1>10. CASE Deliver
    BY <1>10 DEF Deliver, TypeOK, BufferTypes, buffer, parsing, bounds
  <1>11. CASE Cut
    <2>1. dev' \in Char
      BY <1>11 DEF Cut, Places, Char
    <2> QED
      BY <1>11, <2>1 DEF Cut, TypeOK, BufferTypes, buffer, parsing
  <1>12. CASE UNCHANGED vars
    BY <1>12 DEF vars, TypeOK, BufferTypes, buffer, parsing, bounds
  <1> QED
    BY <1>1, <1>2, <1>3, <1>4, <1>5, <1>6, <1>7, <1>8, <1>9, <1>10, <1>11, <1>12, <1>14, <1>15
    DEF Next, nmea_reader_addc

(* Also when the control thread clears it in the middle of a store, the reader  *)
(* writes no character outside its buffer (athr_gps.c:920-928, 1261).           *)
THEOREM TypeCorrect == Spec => []TypeOK
  <1>1. Init => TypeOK
    BY InitTypes
  <1>2. TypeOK /\ [Next]_vars => TypeOK'
    BY NextTypes
  <1> QED
    BY <1>1, <1>2, PTL DEF Spec

-------------------------------------------------------------------------------
(* The reader and the line of the chip.                                         *)

(* The first n places of the buffer hold the first n characters of the line.    *)
Holds(n) == \A j \in 1..n : in[j] = [of |-> dev.of, i |-> j]

(* What the thread knows of its own character, disturbed or not.                *)
Steps ==
  /\ dev.i <= dev.of.len
  /\ pc # "take" => c = dev /\ dev.i >= 1
  /\ pc \in {"lock", "parse", "zero"} => Feed(dev)
  /\ overflow => pos = 0 /\ pc \in {"take", "skip"}
  /\ pc = "skip" => pos = 0

(* Where the reader is in the line: between two lines, in one that fits so far, *)
(* or past the end of the buffer.                                               *)
Between == (dev.i = 0 \/ Feed(dev)) /\ pos = 0 /\ ~overflow
Within == dev.i > 0 /\ ~Feed(dev) /\ pos = dev.i /\ ~overflow /\ Holds(pos)
Past == dev.i > Size /\ ~Feed(dev) /\ overflow
InStep ==
  ~disturbed =>
    /\ pc = "take" => Between \/ Within \/ Past
    /\ pc \in {"bound", "store"} => pos = dev.i - 1 /\ Holds(pos)
    /\ pc = "store" => p = pos
    /\ pc = "full" => dev.i > Size
    /\ pc = "skip" => dev.i > Size
    /\ pc = "lock" => pos = dev.i /\ Holds(pos)

Inv == TypeOK /\ Steps /\ InStep

LEMMA InitSteps == Init => Steps /\ InStep
  <1> SUFFICES ASSUME Init PROVE Steps /\ InStep
    OBVIOUS
  <1>1. pc = "take" /\ pos = 0 /\ overflow = FALSE
    BY Zenon DEF Init
  <1>2. dev \in Places
    BY Zenon DEF Init
  <1>3. dev.i \in Nat /\ dev.of.len \in Nat /\ dev.i < dev.of.len
    BY <1>2, Assumptions DEF Places
  <1>4. disturbed <=> dev.i > 0
    BY Zenon DEF Init
  <1>5. ~disturbed => dev.i = 0
    BY <1>3, <1>4
  <1> QED
    BY <1>1, <1>3, <1>5 DEF Steps, InStep, Between

(* The numbers the invariant is about.                                          *)
LEMMA Numbers ==
  TypeOK => /\ dev.i \in Nat /\ dev.of.len \in Nat /\ dev.of.len > 0
            /\ pos \in Nat /\ pos <= Size /\ p \in Nat
            /\ in \in [1..Size -> Char \cup {Zero}]
            /\ overflow \in BOOLEAN /\ disturbed \in BOOLEAN
  BY Assumptions DEF TypeOK, BufferTypes, Char

LEMMA StepsKept == TypeOK /\ Steps /\ [Next]_vars => Steps'
  <1> SUFFICES ASSUME TypeOK, Steps, [Next]_vars PROVE Steps'
    OBVIOUS
  <1> USE Numbers, Assumptions DEF Feed
  <1>1. ASSUME NEW ch \in NextChars, Take(ch) PROVE Steps'
    <2>1. ch.i \in Nat /\ ch.i >= 1 /\ ch.i <= ch.of.len
      <3>1. dev.i \in Nat /\ dev.i <= dev.of.len /\ dev \in Char
        BY DEF TypeOK, Steps
      <3>2. CASE dev.i < dev.of.len /\ dev.i > 0
        <4>1. ch = [dev EXCEPT !.i = @ + 1]
          BY <3>2 DEF NextChars
        <4>2. ch.i = dev.i + 1 /\ ch.of = dev.of
          BY <3>1, <4>1 DEF Char
        <4> QED BY <3>1, <3>2, <4>2
      <3>3. CASE ~(dev.i < dev.of.len /\ dev.i > 0)
        <4>1. PICK s \in Sentences : ch = [of |-> s, i |-> 1]
          BY <3>3 DEF NextChars
        <4> QED BY <4>1
      <3> QED BY <3>2, <3>3
    <2>2. /\ pc = "take" /\ dev' = ch /\ c' = ch /\ UNCHANGED <<overflow, pos>>
          /\ pc' = IF overflow THEN "skip" ELSE "bound"
      BY <1>1, Zenon DEF Take, buffer
    <2>3. overflow => pos = 0
      BY DEF Steps
    <2> QED
      BY <2>1, <2>2, <2>3 DEF Steps
  <1>2. CASE Skip
    BY <1>2 DEF Skip, Steps
  <1>3. CASE Bound
    BY <1>3 DEF Bound, Steps, buffer
  <1>4. CASE Full
    BY <1>4 DEF Full, Steps
  <1>5. ASSUME NEW q \in {p, pos}, Store(q) PROVE Steps'
    BY <1>5 DEF Store, Steps
  <1>6. ASSUME (\E s \in Meanings : Lock(s)) \/ Parse \/ (\E reader \in Torn(said) : ParseTorn(reader))
        PROVE  Steps'
    <2>1. /\ pc \in {"lock", "parse"} /\ pc' \in {"parse", "zero"}
          /\ UNCHANGED <<dev, c, pos, overflow>>
      BY <1>6 DEF Lock, Parse, ParseTorn, ParsedTo, buffer
    <2> QED
      BY <2>1 DEF Steps
  <1>7. CASE ZeroPosition
    BY <1>7 DEF ZeroPosition, Steps
  <1>8. CASE Clear
    BY <1>8 DEF Clear, Steps
  <1>9. CASE ClearDate
    BY <1>9 DEF ClearDate, Steps, buffer
  <1>10. CASE Deliver
    BY <1>10 DEF Deliver, Steps, buffer
  <1>11. CASE Cut
    <2>1. dev'.i \in Nat /\ dev'.of.len \in Nat /\ dev'.i < dev'.of.len
      BY <1>11 DEF Cut, Places
    <2> QED
      BY <1>11, <2>1 DEF Cut, Steps, buffer
  <1>12. CASE UNCHANGED vars
    BY <1>12 DEF vars, Steps, buffer
  <1> QED
    BY <1>1, <1>2, <1>3, <1>4, <1>5, <1>6, <1>7, <1>8, <1>9, <1>10, <1>11, <1>12
    DEF Next, nmea_reader_addc

LEMMA InStepKept == Inv /\ [Next]_vars => InStep'
  <1> SUFFICES ASSUME TypeOK, Steps, InStep, [Next]_vars, ~disturbed' PROVE InStep'
    BY DEF Inv, InStep
  <1> USE Numbers, Assumptions DEF Feed
  <1>1. ASSUME NEW ch \in NextChars, Take(ch) PROVE InStep'
    <2>1. pc = "take" /\ ~disturbed /\ dev' = ch /\ UNCHANGED <<in, pos, overflow>>
          /\ pc' = (IF overflow THEN "skip" ELSE "bound")
      BY <1>1 DEF Take, buffer
    <2>2. Between \/ Within \/ Past
      BY <2>1 DEF InStep
    <2>3. CASE Between
      <3>1. ch.i = 1 /\ pos = 0 /\ pc' = "bound"
        BY <2>1, <2>3 DEF Between, NextChars
      <3>2. pos' = dev'.i - 1 /\ Holds(pos)'
        BY <2>1, <3>1 DEF Holds
      <3> QED
        BY <3>1, <3>2 DEF InStep
    <2>4. CASE Within
      <3>1. dev.i < dev.of.len /\ dev.i > 0
        BY <2>4 DEF Within, Steps
      <3>2. ch.i = dev.i + 1 /\ ch.of = dev.of
        BY <3>1 DEF NextChars, TypeOK, Char
      <3>3. pos' = dev'.i - 1 /\ pc' = "bound"
        BY <2>1, <2>4, <3>2 DEF Within
      <3>4. Holds(pos)'
        BY <2>1, <2>4, <3>2 DEF Within, Holds
      <3> QED
        BY <3>3, <3>4 DEF InStep
    <2>5. CASE Past
      <3>1. dev.i < dev.of.len /\ dev.i > 0
        BY <2>5 DEF Past, Steps
      <3>2. ch.i = dev.i + 1
        BY <3>1 DEF NextChars, TypeOK, Char
      <3>3. pc' = "skip" /\ dev'.i > Size
        BY <2>1, <2>5, <3>2 DEF Past
      <3> QED
        BY <3>3 DEF InStep
    <2> QED
      BY <2>2, <2>3, <2>4, <2>5
  <1>2. CASE Skip
    <2>1. pc = "skip" /\ pc' = "take" /\ dev' = dev /\ pos' = pos /\ c = dev /\ pos = 0
      BY <1>2 DEF Skip, Steps
    <2>2. CASE Feed(dev)
      <3>1. ~overflow'
        BY <1>2, <2>1, <2>2 DEF Skip
      <3> QED
        BY <2>1, <2>2, <3>1 DEF InStep, Between
    <2>3. CASE ~Feed(dev)
      <3>1. overflow' /\ ~disturbed
        BY <1>2, <2>1, <2>3 DEF Skip
      <3>2. dev.i > Size
        BY <2>1, <3>1 DEF InStep
      <3> QED
        BY <2>1, <2>3, <3>1, <3>2 DEF InStep, Past
    <2> QED
      BY <2>2, <2>3
  <1>3. CASE Bound
    <2>1. pc = "bound" /\ ~disturbed /\ p' = pos /\ UNCHANGED <<dev, in, pos, overflow>>
          /\ pc' = (IF pos >= Size THEN "full" ELSE "store")
      BY <1>3 DEF Bound, buffer
    <2>2. pos = dev.i - 1 /\ Holds(pos)
      BY <2>1 DEF InStep
    <2> QED
      BY <2>1, <2>2 DEF InStep, Holds
  <1>4. CASE Full
    <2>1. pc = "full" /\ ~disturbed /\ pc' = "take" /\ dev' = dev /\ overflow' /\ c = dev
          /\ ~Feed(dev)
      BY <1>4 DEF Full, Steps
    <2>2. dev.i > Size
      BY <2>1 DEF InStep
    <2> QED
      BY <2>1, <2>2 DEF InStep, Past
  <1>5. ASSUME NEW q \in {p, pos}, Store(q) PROVE InStep'
    <2>1. pc = "store" /\ ~disturbed /\ in' = [in EXCEPT ![p + 1] = c] /\ pos' = q + 1
          /\ c = dev /\ dev' = dev /\ overflow' = overflow /\ dev.i >= 1
          /\ pc' = (IF Feed(c) THEN "lock" ELSE "take")
      BY <1>5 DEF Store, Steps
    <2>2. p = pos /\ q = pos /\ pos = dev.i - 1 /\ Holds(pos) /\ p < Size
      BY <2>1 DEF InStep, TypeOK, BufferTypes
    <2>3. dev = [of |-> dev.of, i |-> dev.i]
      BY DEF TypeOK, Char
    <2>4. pos' = dev'.i
      BY <2>1, <2>2
    <2>5. Holds(pos)'
      <3> SUFFICES ASSUME NEW j \in 1..pos' PROVE in'[j] = [of |-> dev.of, i |-> j]
        BY <2>1 DEF Holds
      <3>1. CASE j = p + 1
        BY <2>1, <2>2, <2>3, <3>1
      <3>2. CASE j # p + 1
        <4>1. j \in 1..pos
          BY <2>1, <2>2, <3>2
        <4> QED
          BY <2>1, <2>2, <4>1 DEF Holds
      <3> QED
        BY <3>1, <3>2
    <2>6. ~overflow
      BY <2>1 DEF Steps
    <2> QED
      BY <2>1, <2>4, <2>5, <2>6 DEF InStep, Within
  <1>6. ASSUME (\E s \in Meanings : Lock(s)) \/ Parse \/ (\E reader \in Torn(said) : ParseTorn(reader))
        PROVE  InStep'
    <2>1. pc' \in {"parse", "zero"}
      BY <1>6 DEF Lock, Parse, ParseTorn, ParsedTo
    <2> QED
      BY <2>1 DEF InStep
  <1>7. CASE ZeroPosition
    <2>1. pc = "zero" /\ pc' = "take" /\ pos' = 0 /\ dev' = dev /\ overflow' = overflow
      BY <1>7 DEF ZeroPosition
    <2>2. Feed(dev) /\ ~overflow
      BY <2>1 DEF Steps
    <2> QED
      BY <2>1, <2>2 DEF InStep, Between
  <1>8. CASE Clear
    BY <1>8 DEF Clear
  <1>9. ASSUME ClearDate \/ Deliver \/ UNCHANGED vars PROVE InStep'
    <2>1. UNCHANGED <<dev, pc, p, in, pos, overflow, disturbed>>
      BY <1>9 DEF ClearDate, Deliver, vars, buffer
    <2> QED
      BY <2>1 DEF InStep, Between, Within, Past, Holds
  <1>10. CASE Cut
    BY <1>10 DEF Cut
  <1> QED
    BY <1>1, <1>2, <1>3, <1>4, <1>5, <1>6, <1>7, <1>8, <1>9, <1>10
    DEF Next, nmea_reader_addc

LEMMA InvHolds == Spec => []Inv
  <1>1. Init => Inv
    BY InitTypes, InitSteps DEF Inv
  <1>2. Inv /\ [Next]_vars => Inv'
    BY NextTypes, StepsKept, InStepKept DEF Inv
  <1> QED
    BY <1>1, <1>2, PTL DEF Spec

(* However long the lines are and whenever START clears the reader, the thread  *)
(* parses a line that nothing disturbed as the chip sent it, and none of        *)
(* another (athr_gps.c:913-937).                                                *)
THEOREM LinesAreWhole == Spec => []LineWhole
  <1>1. Inv => LineWhole
    <2> SUFFICES ASSUME Inv, pc = "lock", ~disturbed PROVE Line = Text(dev.of)
      BY DEF LineWhole
    <2>1. pos = dev.i /\ Holds(pos)
      BY DEF Inv, InStep
    <2>2. pos = dev.of.len
      BY <2>1 DEF Inv, Steps, Feed
    <2>3. \A i \in 1..pos : in[i] = [of |-> dev.of, i |-> i]
      BY <2>1 DEF Holds
    <2> QED
      BY <2>2, <2>3 DEF Line, Text
  <1> QED
    BY <1>1, InvHolds, PTL

(* It drops no line that fits its buffer, unless one was disturbed just before  *)
(* (athr_gps.c:913-925).                                                        *)
THEOREM LinesAreKept == Spec => []LineKept
  <1>1. Inv => LineKept
    <2> SUFFICES ASSUME Inv, pc \in {"skip", "full"}, ~disturbed PROVE dev.of.len > Size
      BY DEF LineKept
    <2>1. dev.i > Size /\ dev.i <= dev.of.len
      BY DEF Inv, InStep, Steps
    <2> QED
      BY <2>1, Numbers, Assumptions DEF Inv
  <1> QED
    BY <1>1, InvHolds, PTL

-------------------------------------------------------------------------------
(* The list of satellites.                                                      *)

(* The number that the k-th sentence of a list says in its i-th field.          *)
Said(h, k, i) == nmea_tokenizer_get(h[k], i).n

(* The sentences announce the same number of satellites, and the last of them   *)
(* begins before all of these are listed.                                       *)
Agree(h) == /\ \A k \in 1..Len(h) : Said(h, k, 3) = Said(h, 1, 3)
            /\ Said(h, 1, 3) > PerSentence * (Len(h) - 1)

(* A list holds what the sentences have said of the satellites they announce.   *)
Lists(svs, h) ==
  /\ Len(svs) = IF Said(h, 1, 3) < PerSentence * Len(h) THEN Said(h, 1, 3)
                ELSE PerSentence * Len(h)
  /\ \A k \in 1..Len(h), i \in 1..PerSentence :
       PerSentence * (k - 1) + i <= Len(svs) =>
         svs[PerSentence * (k - 1) + i] = Said(h, k, 4 * i)

(* The inductive form of ListWhole: what holds of a whole list holds of the     *)
(* part that was heard so far.                                                  *)
Listed(svs, h) == svs \in Seq(Int) /\ (h # <<>> /\ Agree(h) => Lists(svs, h))
ListKept == "svs" \in DOMAIN r /\ Listed(r.svs, heard)

(* The numbers of a sentence.                                                   *)
LEMMA SaidType ==
  ASSUME NEW s \in Sentences, NEW i \in Nat, i > 0
  PROVE  nmea_tokenizer_get(s, i).n \in Int
<1>1. s.fields \in Seq(Token) /\ \A t \in Token : t.n \in Int
  BY SentencesAssumption, TokensAssumption
<1>2. PICK f \in Seq(Token) : f = s.fields
  BY <1>1
<1>3. CASE i < MaxTokens /\ i <= TokenCount(s)
  <2>1. i <= Len(f)
    BY <1>2, <1>3 DEF TokenCount
  <2>2. nmea_tokenizer_get(s, i) = f[i] /\ f[i] \in Token
    BY <1>2, <1>3, <2>1 DEF nmea_tokenizer_get
  <2> QED BY <1>1, <2>2
<1>4. CASE ~(i < MaxTokens /\ i <= TokenCount(s))
  BY <1>4 DEF nmea_tokenizer_get, Dummy
<1> QED BY <1>3, <1>4

LEMMA Joined ==
  ASSUME NEW a \in Seq(Int), NEW b \in Seq(Int)
  PROVE  /\ Len(a \o b) = Len(a) + Len(b)
         /\ \A j \in 1..Len(a) : (a \o b)[j] = a[j]
         /\ \A i \in 1..Len(b) : (a \o b)[Len(a) + i] = b[i]
OBVIOUS

Appended(a, b) ==
  /\ Len(a \o b) = Len(a) + Len(b)
  /\ \A j \in 1..Len(a) : (a \o b)[j] = a[j]
  /\ \A i \in 1..Len(b) : (a \o b)[Len(a) + i] = b[i]

LEMMA AppendedFacts ==
  ASSUME NEW a \in Seq(Int), NEW b \in Seq(Int)
  PROVE  Appended(a, b)
BY Joined, Zenon DEF Appended

LEMMA Times ==
  ASSUME NEW p1 \in Nat, NEW a \in Nat, NEW b \in Nat, a <= b
  PROVE  /\ p1 * a \in Nat /\ p1 * b \in Nat /\ p1 * a <= p1 * b
         /\ p1 * (a + 1) = p1 * a + p1
<1>1. PICK d \in Nat : b = a + d
  <2>1. b - a \in Nat /\ b = a + (b - a)
    OBVIOUS
  <2> QED BY <2>1
<1>2. p1 * d \in Nat /\ p1 * a \in Nat
  OBVIOUS
<1>3. p1 * (a + d) = p1 * a + p1 * d
  OBVIOUS
<1>4. p1 * (a + 1) = p1 * a + p1
  OBVIOUS
<1> QED BY <1>1, <1>2, <1>3, <1>4

(* The satellites that one sentence adds.                                       *)
Added(s, n) == [i \in 1..n |-> nmea_tokenizer_get(s, 4 * i).n]
AddedCount(s, old) ==
  LET room == IF nmea_tokenizer_get(s, 3).n > Len(old)
              THEN nmea_tokenizer_get(s, 3).n - Len(old) ELSE 0
  IN IF room < PerSentence THEN room ELSE PerSentence

LEMMA AddedType ==
  ASSUME NEW s \in Sentences, NEW old \in Seq(Int)
  PROVE  /\ AddedCount(s, old) \in Nat
         /\ Added(s, AddedCount(s, old)) \in Seq(Int)
         /\ Len(Added(s, AddedCount(s, old))) = AddedCount(s, old)
<1>1. nmea_tokenizer_get(s, 3).n \in Int
  BY SaidType
<1>2. AddedCount(s, old) \in Nat
  BY <1>1, SizesAssumption DEF AddedCount
<1>3. PICK n \in Nat : n = AddedCount(s, old)
  BY <1>2
<1>4. \A i \in 1..n : nmea_tokenizer_get(s, 4 * i).n \in Int
  <2> TAKE i \in 1..n
  <2>1. 4 * i \in Nat /\ 4 * i > 0
    OBVIOUS
  <2> QED BY <2>1, SaidType
<1>5. Added(s, n) \in Seq(Int) /\ Len(Added(s, n)) = n
  BY <1>4 DEF Added
<1> QED BY <1>2, <1>3, <1>5

(* What GSV does to the list.                                                   *)
LEMMA GSVList ==
  ASSUME NEW x, "svs" \in DOMAIN x, x.svs \in Seq(Int), NEW s \in Sentences,
         NEW old, old = IF nmea_tokenizer_get(s, 2).n = 1 THEN <<>> ELSE x.svs
  PROVE  /\ "svs" \in DOMAIN GSV(x, s) /\ GSV(x, s).svs \in Seq(Int)
         /\ nmea_tokenizer_get(s, 3).n > 0 =>
              GSV(x, s).svs = old \o Added(s, AddedCount(s, old))
<1>1. old \in Seq(Int)
  <2>1. <<>> \in Seq(Int)
    OBVIOUS
  <2> QED BY <2>1
<1>2. nmea_tokenizer_get(s, 3).n \in Int
  BY SaidType
<1>3. CASE nmea_tokenizer_get(s, 3).n <= 0
  <2>1. GSV(x, s) = x
    BY <1>3, Zenon DEF GSV
  <2>2. ~(nmea_tokenizer_get(s, 3).n > 0)
    BY <1>2, <1>3
  <2> QED BY <2>1, <2>2, Zenon
<1>4. CASE ~(nmea_tokenizer_get(s, 3).n <= 0)
  <2>1. PICK new, due : /\ new = old \o Added(s, AddedCount(s, old))
                        /\ GSV(x, s) = [x EXCEPT !.svs = new, !.changed = due]
    BY <1>4, Zenon DEF GSV, Added, AddedCount
  <2>2. new \in Seq(Int)
    <3>1. \A a, b \in Seq(Int) : a \o b \in Seq(Int)
      OBVIOUS
    <3> QED BY <1>1, <2>1, <3>1, AddedType, Zenon
  <2>3. "svs" \in DOMAIN GSV(x, s) /\ GSV(x, s).svs = new
    BY <2>1
  <2> QED BY <2>1, <2>2, <2>3, Zenon
<1> QED BY <1>3, <1>4

(* The first sentence of a list.                                                *)
LEMMA FirstListed ==
  ASSUME NEW s \in Sentences, nmea_tokenizer_get(s, 3).n > 0
  PROVE  Lists(Added(s, AddedCount(s, <<>>)), <<s>>)
<1>1. PICK p1 \in Nat : p1 = PerSentence /\ p1 > 0
  BY SizesAssumption
<1>2. PICK n \in Int : n = nmea_tokenizer_get(s, 3).n
  BY SaidType
<1>3. <<>> \in Seq(Int) /\ Len(<<>>) = 0
  OBVIOUS
<1>4. PICK c1 \in Nat : c1 = AddedCount(s, <<>>)
  BY <1>3, AddedType
<1>5. c1 = IF n < p1 THEN n ELSE p1
  BY <1>1, <1>2, <1>3, <1>4 DEF AddedCount
<1>6. Len(Added(s, c1)) = c1
  BY <1>3, <1>4, AddedType
<1>7. Len(<<s>>) = 1 /\ <<s>>[1] = s /\ p1 * 1 = p1 /\ p1 * (1 - 1) = 0
  OBVIOUS
<1>8. \A i \in 1..p1 : i <= c1 => Added(s, c1)[i] = nmea_tokenizer_get(s, 4 * i).n
  BY DEF Added
<1>9. \A k \in 1..1, i \in 1..p1 :
        p1 * (k - 1) + i <= Len(Added(s, c1)) =>
          Added(s, c1)[p1 * (k - 1) + i] = Said(<<s>>, k, 4 * i)
  <2> TAKE k \in 1..1, i \in 1..p1
  <2>1. k = 1 /\ p1 * (k - 1) + i = i
    BY <1>7
  <2>2. Said(<<s>>, k, 4 * i) = nmea_tokenizer_get(s, 4 * i).n
    BY <1>7, <2>1, Zenon DEF Said
  <2> QED BY <1>6, <1>8, <2>1, <2>2
<1>10. Said(<<s>>, 1, 3) = n
  BY <1>2, <1>7, Zenon DEF Said
<1> QED BY <1>1, <1>4, <1>5, <1>6, <1>7, <1>9, <1>10 DEF Lists

(* A further sentence of a list: the ones before it have filled their share.    *)
LEMMA NextListed ==
  ASSUME NEW svs \in Seq(Int), NEW h \in Seq(Sentences), h # <<>>, Listed(svs, h),
         NEW s \in Sentences, Agree(Append(h, s))
  PROVE  /\ nmea_tokenizer_get(s, 3).n > 0
         /\ Lists(svs \o Added(s, AddedCount(s, svs)), Append(h, s))
<1> DEFINE h1 == Append(h, s)
<1>1. PICK p1 \in Nat : p1 = PerSentence /\ p1 > 0
  BY SizesAssumption
<1>2. PICK m \in Nat : m = Len(h) /\ m > 0
  BY DEF Listed
<1>3. /\ Len(h1) = m + 1 /\ h1[m + 1] = s /\ \A k \in 1..m : h1[k] = h[k] /\ h[k] \in Sentences
  BY <1>2
<1>4. /\ \A k \in 1..m : \A i \in Nat : Said(h1, k, i) = Said(h, k, i)
      /\ \A i \in Nat : Said(h1, m + 1, i) = nmea_tokenizer_get(s, i).n
  BY <1>3, Zenon DEF Said
<1> HIDE DEF h1
<1>5. PICK n \in Int : n = Said(h, 1, 3)
  BY <1>2, <1>3, SaidType DEF Said
<1>6. /\ nmea_tokenizer_get(s, 3).n = n /\ Said(h1, 1, 3) = n
      /\ \A k \in 1..m : Said(h, k, 3) = n
      /\ n > p1 * m
  <2>1. /\ \A k \in 1..m + 1 : Said(h1, k, 3) = Said(h1, 1, 3)
        /\ Said(h1, 1, 3) > p1 * ((m + 1) - 1)
    BY <1>1, <1>3 DEF Agree, h1
  <2>2. Said(h1, 1, 3) = n /\ (m + 1) - 1 = m
    BY <1>2, <1>4, <1>5
  <2>3. Said(h1, m + 1, 3) = n /\ m + 1 \in 1..m + 1
    BY <2>1, <2>2
  <2>4. \A k \in 1..m : k \in 1..m + 1 /\ Said(h1, k, 3) = Said(h, k, 3)
    BY <1>4
  <2> QED BY <1>4, <2>1, <2>2, <2>3, <2>4
<1>7. PICK pm \in Nat, pl \in Nat : pm = p1 * m /\ pl = p1 * (m - 1) /\ pl <= pm
        /\ p1 * (m + 1) = pm + p1
  <2>1. m - 1 \in Nat /\ m - 1 <= m /\ m <= m
    BY <1>2
  <2>2. p1 * (m - 1) \in Nat /\ p1 * m \in Nat /\ p1 * (m - 1) <= p1 * m
    BY <2>1, Times, Zenon
  <2>3. p1 * (m + 1) = p1 * m + p1
    BY <2>1, Times, Zenon
  <2>4. PICK pm \in Nat : pm = p1 * m
    BY <2>2, Zenon
  <2>5. PICK pl \in Nat : pl = p1 * (m - 1)
    BY <2>2, Zenon
  <2>6. pl <= pm /\ p1 * (m + 1) = pm + p1
    BY <2>2, <2>3, <2>4, <2>5, Zenon
  <2> QED BY <2>4, <2>5, <2>6, Zenon
<1>8. n > pm
  BY <1>6, <1>7
<1>9. Agree(h)
  BY <1>1, <1>2, <1>5, <1>6, <1>7, <1>8 DEF Agree
<1>10. Len(svs) = pm /\ \A k \in 1..m, i \in 1..p1 :
                          p1 * (k - 1) + i <= Len(svs) => svs[p1 * (k - 1) + i] = Said(h, k, 4 * i)
  BY <1>1, <1>2, <1>5, <1>7, <1>8, <1>9 DEF Listed, Lists
<1>11. PICK c1 \in Nat : c1 = AddedCount(s, svs)
  BY AddedType
<1>12. c1 = (IF n < pm + p1 THEN n - pm ELSE p1)
  BY <1>1, <1>6, <1>8, <1>10, <1>11 DEF AddedCount
<1>13. PICK add \in Seq(Int) : /\ add = Added(s, c1) /\ Len(add) = c1
                               /\ \A i \in 1..c1 : add[i] = nmea_tokenizer_get(s, 4 * i).n
  BY <1>11, AddedType DEF Added
<1>14. /\ Len(svs \o add) = pm + c1
       /\ \A j \in 1..pm : (svs \o add)[j] = svs[j]
       /\ \A i \in 1..c1 : (svs \o add)[pm + i] = add[i]
  <2>1. Appended(svs, add)
    BY <1>13, AppendedFacts
  <2> QED BY <1>10, <1>13, <2>1, Zenon DEF Appended
<1> DEFINE Step(k) == k \in 1..m \/ k = m + 1
<1>18. /\ \A k \in 1..m + 1 : Step(k)
       /\ \A a \in Nat, i \in 1..p1 : a + p1 <= pm => a + i \in 1..pm
  OBVIOUS
<1>15. \A k \in 1..m + 1, i \in 1..p1 :
         p1 * (k - 1) + i <= pm + c1 => (svs \o add)[p1 * (k - 1) + i] = Said(h1, k, 4 * i)
  <2> SUFFICES ASSUME NEW k \in 1..m + 1, NEW i \in 1..p1, p1 * (k - 1) + i <= pm + c1
               PROVE  (svs \o add)[p1 * (k - 1) + i] = Said(h1, k, 4 * i)
    OBVIOUS
  <2>1. CASE k \in 1..m
    <3>1. p1 * (k - 1) \in Nat /\ p1 * k \in Nat /\ p1 * k <= pm /\ p1 * k = p1 * (k - 1) + p1
      <4>1. k - 1 \in Nat /\ k \in Nat /\ k - 1 <= k /\ k <= m /\ (k - 1) + 1 = k
        BY <2>1
      <4> QED BY <1>7, <4>1, Times
    <3>0. p1 * (k - 1) + p1 <= pm
      BY <3>1, Zenon
    <3>2. p1 * (k - 1) + i \in 1..pm
      BY <1>18, <3>0, <3>1, Zenon
    <3>3. svs[p1 * (k - 1) + i] = Said(h, k, 4 * i)
      BY <1>10, <2>1, <3>2
    <3>4. Said(h1, k, 4 * i) = Said(h, k, 4 * i)
      BY <1>4, <2>1
    <3> QED BY <1>14, <3>2, <3>3, <3>4
  <2>2. CASE k = m + 1
    <3>1. p1 * (k - 1) = pm
      BY <1>7, <2>2
    <3>2. i \in 1..c1
      BY <3>1
    <3>3. Said(h1, k, 4 * i) = nmea_tokenizer_get(s, 4 * i).n
      BY <1>4, <2>2
    <3> QED BY <1>13, <1>14, <3>1, <3>2, <3>3
  <2> QED BY <1>18, <2>1, <2>2, Zenon
<1>16. n > 0
  BY <1>8
<1>17. Lists(svs \o add, h1)
  <2>1. Len(svs \o add) = IF n < p1 * (m + 1) THEN n ELSE p1 * (m + 1)
    BY <1>7, <1>12, <1>14
  <2> QED BY <1>1, <1>3, <1>6, <1>14, <1>15, <2>1 DEF Lists
<1> QED BY <1>6, <1>11, <1>13, <1>16, <1>17 DEF h1

(* No other sentence changes the list.                                          *)
Same(x, y) == "svs" \in DOMAIN y /\ y.svs = x.svs

LEMMA SameFields ==
  ASSUME NEW x, "svs" \in DOMAIN x
  PROVE  /\ Same(x, x)
         /\ \A flag : Same(x, With(x, flag))
         /\ \A tok : Same(x, athr_update_time(x, tok))
         /\ \A d, m, y : Same(x, update_cdate(x, d, m, y))
         /\ \A d, t : Same(x, athr_update_date(x, d, t))
         /\ \A a, b, c1, d : Same(x, update_latlong(x, a, b, c1, d))
         /\ \A tok, flag : Same(x, Noted(x, tok, flag))
<1>1. Same(x, x)
  BY DEF Same
<1>2. ASSUME NEW y, Same(x, y), NEW flag PROVE Same(x, With(y, flag))
  BY <1>2 DEF Same, With
<1>3. ASSUME NEW y, Same(x, y), NEW tok PROVE Same(x, athr_update_time(y, tok))
  BY <1>3 DEF Same, athr_update_time
<1>4. ASSUME NEW d, NEW m, NEW y PROVE Same(x, update_cdate(x, d, m, y))
  BY DEF Same, update_cdate
<1>5. ASSUME NEW d, NEW t PROVE Same(x, athr_update_date(x, d, t))
  <2>1. Same(x, [x EXCEPT !.date = DateOf(d)])
    BY DEF Same
  <2> QED BY <1>1, <1>3, <2>1 DEF athr_update_date
<1>6. ASSUME NEW a, NEW b, NEW c1, NEW d PROVE Same(x, update_latlong(x, a, b, c1, d))
  <2>1. Same(x, [x EXCEPT !.place = <<Signed(a, b, "S"), Signed(c1, d, "W")>>])
    BY DEF Same
  <2> QED BY <1>1, <1>2, <2>1 DEF update_latlong
<1>7. ASSUME NEW tok, NEW flag PROVE Same(x, Noted(x, tok, flag))
  BY <1>1, <1>2 DEF Noted
<1> QED BY <1>1, <1>2, <1>3, <1>4, <1>5, <1>6, <1>7

LEMMA SameTrans ==
  ASSUME NEW x, NEW y, NEW z, Same(x, y), Same(y, z)
  PROVE  Same(x, z)
BY DEF Same

LEMMA OtherSentences ==
  ASSUME NEW x, "svs" \in DOMAIN x, NEW s, s.id # "GSV"
  PROVE  Same(x, athr_reader_parse(x, s))
<1> DEFINE Tok(i) == nmea_tokenizer_get(s, i)
<1>1. \A y : Same(x, y) => /\ "svs" \in DOMAIN y
                           /\ \A z : Same(y, z) => Same(x, z)
  BY SameTrans DEF Same
<1>2. Same(x, x)
  BY SameFields
<1>3. Same(x, athr_GGA(x, s))
  <2>1. Same(x, athr_update_time(x, Tok(1)))
    BY SameFields
  <2>2. Same(x, update_latlong(athr_update_time(x, Tok(1)), Tok(2), Tok(3), Tok(4), Tok(5)))
    BY <1>1, <2>1, SameFields
  <2>3. Same(x, update_altitude(update_latlong(athr_update_time(x, Tok(1)),
                                               Tok(2), Tok(3), Tok(4), Tok(5)), Tok(9)))
    BY <1>1, <2>2, SameFields DEF update_altitude
  <2> QED BY <1>2, <2>3, Zenon DEF athr_GGA
<1>4. Same(x, athr_GLL(x, s))
  <2>1. Same(x, athr_update_time(x, Tok(5)))
    BY SameFields
  <2>2. Same(x, update_latlong(athr_update_time(x, Tok(5)), Tok(1), Tok(2), Tok(3), Tok(4)))
    BY <1>1, <2>1, SameFields
  <2> QED BY <1>2, <2>2, Zenon DEF athr_GLL
<1>5. Same(x, GSA(x, s))
  BY DEF Same, GSA
<1>6. Same(x, athr_RMC(x, s))
  <2>1. Same(x, athr_update_date(x, Tok(9), Tok(1)))
    BY SameFields
  <2>2. PICK y : y = update_latlong(athr_update_date(x, Tok(9), Tok(1)),
                                    Tok(3), Tok(4), Tok(5), Tok(6))
    OBVIOUS
  <2>3. Same(x, y)
    BY <1>1, <2>1, <2>2, SameFields
  <2>4. Same(x, update_bearing(y, Tok(8)))
    BY <1>1, <2>3, SameFields DEF update_bearing
  <2>5. Same(x, update_speed(update_bearing(y, Tok(8)), Tok(7)))
    BY <1>1, <2>4, SameFields DEF update_speed
  <2> QED BY <1>2, <2>2, <2>5, Zenon DEF athr_RMC
<1>7. Same(x, VTG(x, s))
  <2>1. Same(x, update_bearing(x, Tok(1)))
    BY SameFields DEF update_bearing
  <2>2. Same(x, update_speed(update_bearing(x, Tok(1)), Tok(5)))
    BY <1>1, <2>1, SameFields DEF update_speed
  <2> QED BY <1>2, <2>2, Zenon DEF VTG
<1>8. Same(x, athr_ZDA(x, s))
  <2>1. Same(x, update_cdate(x, Tok(2), Tok(3), Tok(4)))
    BY SameFields
  <2>2. Same(x, athr_update_time(update_cdate(x, Tok(2), Tok(3), Tok(4)), Tok(1)))
    BY <1>1, <2>1, SameFields
  <2>3. Same(x, athr_update_time(x, Tok(1)))
    BY SameFields
  <2> QED BY <1>2, <2>1, <2>2, <2>3, Zenon DEF athr_ZDA
<1>9. Same(x, athr_PUNV(x, s))
  <2>1. Same(x, athr_update_accuracy(x, Tok(10)))
    BY SameFields DEF athr_update_accuracy
  <2>2. Same(x, athr_update_timemap(x, Tok(8), Tok(2)))
    BY DEF Same, athr_update_timemap
  <2> QED BY <1>2, <2>1, <2>2 DEF athr_PUNV
<1> HIDE DEF Tok
<1> QED BY <1>2, <1>3, <1>4, <1>5, <1>6, <1>7, <1>8, <1>9 DEF athr_reader_parse

LEMMA ListInit == Init => ListKept
<1> SUFFICES ASSUME Init PROVE ListKept
  OBVIOUS
<1>1. r = athr_reader_init /\ heard = <<>>
  BY Zenon DEF Init
<1>2. "svs" \in DOMAIN r /\ r.svs = <<>>
  BY <1>1 DEF athr_reader_init, athr_cleared
<1>3. <<>> \in Seq(Int)
  OBVIOUS
<1> QED BY <1>1, <1>2, <1>3 DEF ListKept, Listed

LEMMA ParseKeepsList ==
  ASSUME TypeOK, ListKept, Parse, NEW s, s = said
  PROVE  ListKept'
<1>1. s \in Sentences
  BY DEF Parse, TypeOK
<1>2. heard \in Seq(Sentences) /\ "svs" \in DOMAIN r /\ r.svs \in Seq(Int) /\ Listed(r.svs, heard)
  BY DEF TypeOK, ListKept, Listed
<1>4. CASE s.id # "GSV"
  <2>1. r' = athr_reader_parse(r, s) /\ heard' = heard
    BY <1>4 DEF Parse, ParsedTo, Heard
  <2>2. Same(r, r')
    BY <1>2, <1>4, <2>1, OtherSentences
  <2> QED BY <1>2, <2>1, <2>2 DEF ListKept, Same
<1>5. CASE s.id = "GSV"
  <2>1. r' = GSV(r, s)
    <3>1. r' = athr_reader_parse(r, s)
      BY <1>5 DEF Parse, ParsedTo
    <3>2. athr_reader_parse(r, s) = GSV(r, s)
      BY <1>5 DEF athr_reader_parse, PUNV
    <3> QED BY <3>1, <3>2
  <2>2. PICK old : old = IF nmea_tokenizer_get(s, 2).n = 1 THEN <<>> ELSE r.svs
    OBVIOUS
  <2>3. /\ "svs" \in DOMAIN r' /\ r'.svs \in Seq(Int)
        /\ nmea_tokenizer_get(s, 3).n > 0 => r'.svs = old \o Added(s, AddedCount(s, old))
    BY <1>1, <1>2, <2>1, <2>2, GSVList
  <2>4. \/ heard' = <<>>
        \/ heard' = <<s>> /\ nmea_tokenizer_get(s, 2).n = 1
        \/ /\ heard # <<>> /\ nmea_tokenizer_get(s, 2).n = Len(heard) + 1
           /\ heard' = Append(heard, s)
    BY <1>5 DEF Parse, ParsedTo, Heard
  <2>5. CASE heard' = <<>>
    BY <2>3, <2>5 DEF ListKept, Listed
  <2>6. CASE heard' = <<s>> /\ nmea_tokenizer_get(s, 2).n = 1
    <3>1. ASSUME Agree(<<s>>) PROVE Lists(r'.svs, <<s>>)
      <4>1. nmea_tokenizer_get(s, 3).n > 0
        <5>1. <<s>>[1] = s /\ Len(<<s>>) = 1
          OBVIOUS
        <5>2. Said(<<s>>, 1, 3) = nmea_tokenizer_get(s, 3).n
          BY <5>1, Zenon DEF Said
        <5>3. \A p1 \in Nat : p1 * (1 - 1) = 0
          OBVIOUS
        <5> QED BY <3>1, <5>1, <5>2, <5>3, SizesAssumption DEF Agree
      <4>2. old = <<>>
        BY <2>2, <2>6
      <4>3. \A t \in Seq(Int) : <<>> \o t = t
        OBVIOUS
      <4>4. Added(s, AddedCount(s, <<>>)) \in Seq(Int)
        <5>1. <<>> \in Seq(Int)
          OBVIOUS
        <5> QED BY <1>1, <5>1, AddedType, Zenon
      <4>5. r'.svs = Added(s, AddedCount(s, <<>>))
        BY <2>3, <4>1, <4>2, <4>3, <4>4, Zenon
      <4> QED BY <1>1, <4>1, <4>5, FirstListed, Zenon
    <3> QED BY <2>3, <2>6, <3>1 DEF ListKept, Listed
  <2>7. CASE /\ heard # <<>> /\ nmea_tokenizer_get(s, 2).n = Len(heard) + 1
             /\ heard' = Append(heard, s)
    <3>1. ASSUME Agree(Append(heard, s)) PROVE Lists(r'.svs, Append(heard, s))
      <4>1. /\ nmea_tokenizer_get(s, 3).n > 0
            /\ Lists(r.svs \o Added(s, AddedCount(s, r.svs)), Append(heard, s))
        BY <1>1, <1>2, <2>7, <3>1, NextListed
      <4>2. Len(heard) \in Nat /\ Len(heard) # 0
        BY <1>2, <2>7
      <4>3. old = r.svs
        BY <2>2, <2>7, <4>2
      <4> QED BY <2>3, <4>1, <4>3, Zenon
    <3> QED BY <2>3, <2>7, <3>1 DEF ListKept, Listed
  <2> QED BY <2>4, <2>5, <2>6, <2>7
<1> QED BY <1>4, <1>5

LEMMA ReaderFields ==
  ASSUME NEW A, NEW B, NEW C, NEW D, NEW E, NEW F, NEW G, NEW H, NEW I,
         NEW x \in [flags : A, place : B, time : C, date : D, svs : E, mask : F,
                    changed : G, gsa_fixed : H, timemap : I]
  PROVE  "svs" \in DOMAIN x /\ x.svs \in E
OBVIOUS

LEMMA TornListsType ==
  ASSUME NEW s \in Sentences, NEW list \in TornLists(s)
  PROVE  list \in Seq(Int)
<1>1. CASE s.id # "GSV"
  <2>1. list = <<>>
    BY <1>1, Zenon DEF TornLists
  <2> QED BY <2>1
<1>2. CASE s.id = "GSV"
  <2> DEFINE Prns == {0, -1} \cup {nmea_tokenizer_get(s, 4 * i).n : i \in 1..PerSentence}
  <2>1. PICK n \in 0..nmea_tokenizer_get(s, 3).n : list \in [1..n -> Prns]
    BY <1>2, Zenon DEF TornLists
  <2>2. Prns \subseteq Int
    <3>1. \A i \in 1..PerSentence : 4 * i \in Nat /\ 4 * i > 0
      BY SizesAssumption
    <3>2. \A i \in 1..PerSentence : nmea_tokenizer_get(s, 4 * i).n \in Int
      BY <3>1, SaidType
    <3> QED BY <3>2
  <2> HIDE DEF Prns
  <2>3. n \in Nat
    <3>1. PICK m \in Int : m = nmea_tokenizer_get(s, 3).n
      BY SaidType
    <3>2. n \in 0..m
      BY <2>1, <3>1, Zenon
    <3> QED BY <3>1, <3>2
  <2>4. list \in [1..n -> Int]
    BY <2>1, <2>2
  <2>5. \A m \in Nat : [1..m -> Int] \subseteq Seq(Int)
    OBVIOUS
  <2> QED BY <2>3, <2>4, <2>5, Zenon
<1> QED BY <1>1, <1>2

(* What is left of a list that the clear fell into is a list, of whatever.      *)
LEMMA TornKeepsList ==
  ASSUME TypeOK, NEW reader \in Torn(said), ParseTorn(reader)
  PROVE  ListKept'
<1>1. said \in Sentences /\ r' = reader /\ heard' = <<>>
  BY DEF ParseTorn, ParsedTo, TypeOK
<1> DEFINE Ends == {r} \cup {athr_reader_parse(x, Blanked(said, k)) :
                                x \in {was, athr_cleared, r}, k \in 0..Len(said.fields)}
           A == SUBSET UNION {x.flags : x \in Ends}
           B == {x.place : x \in Ends}
           C == {x.time : x \in Ends}
           D == {x.date : x \in Ends}
           F == SUBSET UNION {x.mask : x \in Ends}
           G == {x.changed : x \in Ends}
           H == {x.gsa_fixed : x \in Ends}
           I == {x.timemap : x \in Ends}
<1>2. Torn(said) = [flags : A, place : B, time : C, date : D, svs : TornLists(said),
                    mask : F, changed : G, gsa_fixed : H, timemap : I]
  BY DEF Torn
<1> HIDE DEF Ends, A, B, C, D, F, G, H, I
<1>3. "svs" \in DOMAIN reader /\ reader.svs \in TornLists(said)
  BY <1>2, ReaderFields
<1>4. reader.svs \in Seq(Int)
  BY <1>1, <1>3, TornListsType
<1> QED BY <1>1, <1>3, <1>4 DEF ListKept, Listed

LEMMA ListNext == TypeOK /\ ListKept /\ [Next]_vars => ListKept'
<1> SUFFICES ASSUME TypeOK, ListKept, [Next]_vars PROVE ListKept'
  OBVIOUS
<1>1. CASE UNCHANGED <<r, heard>>
  BY <1>1 DEF ListKept
<1>2. CASE Parse
  BY <1>2, ParseKeepsList
<1>8. ASSUME NEW s \in Meanings, Lock(s) PROVE ListKept'
  BY <1>1, <1>8 DEF Lock
<1>9. ASSUME NEW reader \in Torn(said), ParseTorn(reader) PROVE ListKept'
  BY <1>9, TornKeepsList
<1>3. CASE Clear
  <2>1. r' = athr_cleared /\ heard' = <<>>
    BY <1>3 DEF Clear
  <2>2. "svs" \in DOMAIN r' /\ r'.svs = <<>> /\ <<>> \in Seq(Int)
    BY <2>1 DEF athr_cleared
  <2> QED BY <2>1, <2>2 DEF ListKept, Listed
<1>4. CASE ClearDate \/ Deliver
  <2>1. heard' = heard /\ \E d, f, g : r' = [r EXCEPT !.date = d] \/ r' = [r EXCEPT !.flags = f, !.changed = g]
    BY <1>4, Zenon DEF ClearDate, Deliver
  <2>2. Same(r, r')
    BY <2>1 DEF ListKept, Same
  <2> QED BY <2>1, <2>2 DEF ListKept, Same
<1>5. CASE Skip \/ Bound \/ Full \/ ZeroPosition \/ Cut \/ UNCHANGED vars
  <2>1. UNCHANGED <<r, heard>>
    BY <1>5 DEF Skip, Bound, Full, ZeroPosition, Cut, vars
  <2> QED BY <1>1, <2>1
<1>6. ASSUME NEW ch \in NextChars, Take(ch) PROVE ListKept'
  BY <1>1, <1>6 DEF Take
<1>7. ASSUME NEW q \in {p, pos}, Store(q) PROVE ListKept'
  BY <1>1, <1>7 DEF Store
<1> QED BY <1>2, <1>3, <1>4, <1>5, <1>6, <1>7, <1>8, <1>9 DEF Next, nmea_reader_addc

(* Every sentence of a list heard once and in order makes the list that was     *)
(* announced, for lists and sentences of any length, whatever was lost before,  *)
(* what came in between and when START or a delivery interfered                 *)
(* (athr_gps.c:766-796).                                                        *)
THEOREM ListsAreWhole == Spec => []ListWhole
<1>1. TypeOK /\ ListKept => ListWhole
  <2> DEFINE m == Len(heard)
             n == nmea_tokenizer_get(heard[m], 3).n
  <2> SUFFICES ASSUME TypeOK, ListKept, heard # <<>>,
                      \A k \in DOMAIN heard : nmea_tokenizer_get(heard[k], 3).n = n,
                      n <= PerSentence * m, n > PerSentence * (m - 1)
               PROVE  /\ Len(r.svs) = n
                      /\ \A j \in 1..n :
                           r.svs[j] = nmea_tokenizer_get(heard[(j - 1) \div PerSentence + 1],
                                                         4 * ((j - 1) % PerSentence) + 4).n
    BY Zenon DEF ListWhole
  <2>1. PICK p1 \in Nat : p1 = PerSentence /\ p1 > 0
    BY SizesAssumption
  <2>2. m \in Nat /\ m > 0 /\ DOMAIN heard = 1..m /\ heard[1] \in Sentences
    BY DEF TypeOK
  <2>3. Said(heard, 1, 3) = n /\ \A k \in 1..m : Said(heard, k, 3) = n
    BY <2>2 DEF Said
  <2>4. n \in Int
    BY <2>2, <2>3, SaidType DEF Said
  <2> HIDE DEF n
  <2>5. Agree(heard)
    BY <2>3 DEF Agree
  <2>6. Lists(r.svs, heard)
    BY <2>5 DEF ListKept, Listed
  <2> HIDE DEF m
  <2>7. PICK pm \in Nat : pm = p1 * m /\ n <= pm
    BY <2>1, <2>2
  <2>8. Len(r.svs) = n
    <3>1. Len(r.svs) = IF n < pm THEN n ELSE pm
      BY <2>1, <2>3, <2>6, <2>7 DEF Lists, m
    <3> QED BY <2>4, <2>7, <3>1
  <2>9. \A k \in 1..m, i \in 1..p1 :
          p1 * (k - 1) + i <= n => r.svs[p1 * (k - 1) + i] = Said(heard, k, 4 * i)
    BY <2>1, <2>6, <2>8 DEF Lists, m
  <2>10. ASSUME NEW j \in 1..n
         PROVE  r.svs[j] = nmea_tokenizer_get(heard[(j - 1) \div PerSentence + 1],
                                              4 * ((j - 1) % PerSentence) + 4).n
    <3>1. PICK a \in Nat : a = j - 1
      BY <2>4
    <3>2. PICK q \in Nat, rest \in Nat :
            q = a \div p1 /\ rest = a % p1 /\ rest < p1 /\ a = p1 * q + rest
      BY <2>1
    <3>3. q < m
      <4> SUFFICES ASSUME m <= q PROVE FALSE
        BY <2>2
      <4>1. pm <= p1 * q /\ p1 * q \in Nat
        BY <2>1, <2>2, <2>7, Times
      <4> QED BY <2>4, <2>7, <3>1, <3>2, <4>1
    <3>4. q + 1 \in 1..m /\ rest + 1 \in 1..p1 /\ (q + 1) - 1 = q
      BY <2>2, <3>2, <3>3
    <3>5. p1 * q \in Nat
      BY <2>1
    <3>6. p1 * ((q + 1) - 1) + (rest + 1) = j
      BY <3>1, <3>2, <3>4, <3>5
    <3>7. j <= n
      BY <2>4
    <3>8. r.svs[j] = Said(heard, q + 1, 4 * (rest + 1))
      BY <2>9, <3>4, <3>6, <3>7, Zenon
    <3>9. 4 * (rest + 1) = 4 * rest + 4
      OBVIOUS
    <3> QED BY <2>1, <3>1, <3>2, <3>8, <3>9 DEF Said
  <2> QED BY <2>8, <2>10
<1> QED BY <1>1, ListInit, ListNext, TypeCorrect, PTL DEF Spec
===============================================================================
