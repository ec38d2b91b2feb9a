----------------------------- MODULE QemuGpsProofs ----------------------------
(* Theorems about QemuGps, for any number of calls, sentences and failures and  *)
(* any set of sentences: the callbacks fall within the session, cleanup joins   *)
(* the thread it made, commands and positions are neither lost nor repeated.    *)
EXTENDS QemuGps, TLAPS

-------------------------------------------------------------------------------
(* What a sentence does to the position of the reader, and to its flag.         *)

Fields(x) == {"flags", "place"} \subseteq DOMAIN x

(* y is x after a sentence that tells a position, or does not.                  *)
Placed(x, y, tells) ==
  /\ Fields(y)
  /\ "LAT_LONG" \in y.flags <=> tells \/ "LAT_LONG" \in x.flags
  /\ ~tells => y.place = x.place

LEMMA WithPlaced ==
  ASSUME NEW x, Fields(x), NEW flag, flag # "LAT_LONG"
  PROVE  Placed(x, With(x, flag), FALSE)
  BY DEF Fields, Placed, With

LEMMA PlacedOnce ==
  ASSUME NEW x, NEW y, NEW z, NEW tells \in BOOLEAN, Placed(x, y, tells), Placed(y, z, FALSE)
  PROVE  Placed(x, z, tells)
  BY DEF Placed

LEMMA NotedPlaced ==
  ASSUME NEW x, Fields(x), NEW tok
  PROVE  /\ Placed(x, update_altitude(x, tok), FALSE)
         /\ Placed(x, update_bearing(x, tok), FALSE)
         /\ Placed(x, update_speed(x, tok), FALSE)
         /\ Placed(x, update_accuracy(x), FALSE)
  <1>1. Placed(x, x, FALSE)
    BY DEF Placed
  <1> QED
    BY <1>1, WithPlaced
    DEF update_altitude, update_bearing, update_speed, update_accuracy, Noted

LEMMA TimePlaced ==
  ASSUME NEW x, Fields(x), NEW tok
  PROVE  Placed(x, update_time(x, tok), FALSE)
  BY DEF Fields, Placed, update_time

LEMMA DatePlaced ==
  ASSUME NEW x, Fields(x), NEW day, NEW mon, NEW year, NEW time
  PROVE  /\ Placed(x, update_cdate(x, day, mon, year), FALSE)
         /\ Placed(x, update_date(x, day, time), FALSE)
  <1>1. Placed(x, x, FALSE)
    BY DEF Placed
  <1>2. Placed(x, update_cdate(x, day, mon, year), FALSE)
    BY <1>1 DEF Fields, Placed, update_cdate
  <1>3. \A d : Fields([x EXCEPT !.date = d]) /\ Placed(x, [x EXCEPT !.date = d], FALSE)
    BY DEF Fields, Placed
  <1>4. \A d : Placed(x, update_time([x EXCEPT !.date = d], time), FALSE)
    BY <1>3, TimePlaced, PlacedOnce
  <1> QED
    BY <1>1, <1>2, <1>4 DEF update_date

LEMMA LatLongPlaced ==
  ASSUME NEW x, Fields(x), NEW lat, NEW latHemi, NEW lon, NEW lonHemi
  PROVE  Placed(x, update_latlong(x, lat, latHemi, lon, lonHemi),
                ~(lat.len < 6 \/ lon.len < 6))
  BY DEF Fields, Placed, update_latlong, With

(* Only GGA, and GLL and RMC with a fix, tell a position.                       *)
LEMMA SentencePlaced ==
  ASSUME NEW x, Fields(x), NEW s
  PROVE  Placed(x, nmea_reader_parse(x, s), HasPlace(s))
  <1> DEFINE Tok(i) == nmea_tokenizer_get(s, i)
  <1>0. HasPlace(s) \in BOOLEAN /\ Placed(x, x, FALSE)
    BY DEF HasPlace, Placed
  <1>1. Placed(x, GGA(x, s), Long(s, 2, 4))
    <2> DEFINE y == update_time(x, Tok(1))
               z == update_latlong(y, Tok(2), Tok(3), Tok(4), Tok(5))
    <2>1. Placed(x, y, FALSE) /\ Fields(y)
      BY TimePlaced DEF Placed
    <2>2. Placed(y, z, Long(s, 2, 4)) /\ Fields(z)
      BY <2>1, LatLongPlaced DEF Placed, Long
    <2>3. Placed(z, update_altitude(z, Tok(9)), FALSE)
      BY <2>2, NotedPlaced
    <2> HIDE DEF y, z
    <2>4. Placed(x, update_altitude(z, Tok(9)), Long(s, 2, 4))
      BY <2>1, <2>2, <2>3 DEF Placed
    <2> QED
      BY <2>4 DEF GGA, y, z
  <1>2. Placed(x, GLL(x, s), Tok(6).c = "A" /\ Long(s, 1, 3))
    <2> DEFINE y == update_time(x, Tok(5))
               z == update_latlong(y, Tok(1), Tok(2), Tok(3), Tok(4))
    <2>1. Placed(x, y, FALSE) /\ Fields(y)
      BY TimePlaced DEF Placed
    <2>2. Placed(y, z, Long(s, 1, 3))
      BY <2>1, LatLongPlaced DEF Placed, Long
    <2>3. Long(s, 1, 3) \in BOOLEAN
      BY DEF Long
    <2>4. GLL(x, s) = IF Tok(6).c # "A" THEN x ELSE z
      BY DEF GLL
    <2> HIDE DEF y, z
    <2>5. Placed(x, z, Long(s, 1, 3))
      BY <2>1, <2>2 DEF Placed
    <2> QED
      BY <1>0, <2>3, <2>4, <2>5
  <1>3. Placed(x, RMC(x, s), Tok(2).c = "A" /\ Long(s, 3, 5))
    <2> DEFINE y == update_date(x, Tok(9), Tok(1))
               z == update_latlong(y, Tok(3), Tok(4), Tok(5), Tok(6))
               b == update_bearing(z, Tok(8))
               v == update_speed(b, Tok(7))
    <2>1. Placed(x, y, FALSE) /\ Fields(y)
      BY DatePlaced DEF Placed
    <2>2. Placed(y, z, Long(s, 3, 5)) /\ Fields(z)
      BY <2>1, LatLongPlaced DEF Placed, Long
    <2>3. Placed(z, b, FALSE) /\ Fields(b)
      BY <2>2, NotedPlaced DEF Placed
    <2>4. Placed(b, v, FALSE)
      BY <2>3, NotedPlaced
    <2>5. Long(s, 3, 5) \in BOOLEAN
      BY DEF Long
    <2>6. RMC(x, s) = IF Tok(2).c # "A" THEN x ELSE v
      BY DEF RMC
    <2> HIDE DEF y, z, b, v
    <2>7. Placed(x, v, Long(s, 3, 5))
      BY <2>1, <2>2, <2>3, <2>4 DEF Placed
    <2> QED
      BY <1>0, <2>5, <2>6, <2>7
  <1>4. Placed(x, VTG(x, s), FALSE)
    <2> DEFINE b == update_bearing(x, Tok(1))
    <2>1. Placed(x, b, FALSE) /\ Fields(b)
      BY NotedPlaced DEF Placed
    <2>2. Placed(b, update_speed(b, Tok(5)), FALSE)
      BY <2>1, NotedPlaced
    <2> HIDE DEF b
    <2>3. Placed(x, update_speed(b, Tok(5)), FALSE)
      BY <2>1, <2>2, PlacedOnce
    <2> QED
      BY <1>0, <2>3 DEF VTG, b
  <1>5. Placed(x, ZDA(x, s), FALSE)
    <2> DEFINE d == IF Tok(4).c = "NUL" THEN x ELSE update_cdate(x, Tok(2), Tok(3), Tok(4))
    <2>1. Placed(x, d, FALSE) /\ Fields(d)
      BY <1>0, DatePlaced DEF Placed
    <2>2. Placed(d, update_time(d, Tok(1)), FALSE)
      BY <2>1, TimePlaced
    <2> HIDE DEF d
    <2>3. Placed(x, update_time(d, Tok(1)), FALSE)
      BY <2>1, <2>2, PlacedOnce
    <2> QED
      BY <2>1, <2>3 DEF ZDA, d
  <1>6. Placed(x, GSA(x, s), FALSE) /\ Placed(x, GSV(x, s), FALSE)
    BY DEF GSA, GSV, Placed, Fields
  <1> DEFINE y == CASE s.id = "GGA" -> GGA(x, s) [] s.id = "GLL" -> GLL(x, s)
                    [] s.id = "GSA" -> GSA(x, s) [] s.id = "GSV" -> GSV(x, s)
                    [] s.id = "RMC" -> RMC(x, s) [] s.id = "VTG" -> VTG(x, s)
                    [] s.id = "ZDA" -> ZDA(x, s) [] OTHER -> x
  <1>7. Placed(x, y, HasPlace(s))
    <2>1. /\ s.id = "GGA" => (HasPlace(s) <=> Long(s, 2, 4))
          /\ s.id = "GLL" => (HasPlace(s) <=> Tok(6).c = "A" /\ Long(s, 1, 3))
          /\ s.id = "RMC" => (HasPlace(s) <=> Tok(2).c = "A" /\ Long(s, 3, 5))
          /\ s.id \notin {"GGA", "GLL", "RMC"} => ~HasPlace(s)
      BY DEF HasPlace
    <2>2. CASE s.id = "GGA"
      BY <2>1, <2>2, <1>1 DEF Placed
    <2>3. CASE s.id = "GLL"
      BY <2>1, <2>3, <1>2 DEF Placed
    <2>4. CASE s.id = "RMC"
      BY <2>1, <2>4, <1>3 DEF Placed
    <2>5. CASE s.id \in {"GSA", "GSV", "VTG", "ZDA"}
      BY <2>1, <2>5, <1>4, <1>5, <1>6 DEF Placed
    <2>6. CASE s.id \notin Ids \ {"other"}
      BY <2>1, <2>6, <1>0 DEF Placed, Ids
    <2> QED
      BY <2>2, <2>3, <2>4, <2>5, <2>6 DEF Ids
  <1>8. Placed(y, update_accuracy(y), FALSE)
    BY <1>7, NotedPlaced DEF Placed
  <1>9. nmea_reader_parse(x, s) = update_accuracy(y)
    BY Zenon DEF nmea_reader_parse
  <1> HIDE DEF y
  <1>10. Placed(x, update_accuracy(y), HasPlace(s))
    BY <1>7, <1>8 DEF Placed
  <1> QED
    BY <1>9, <1>10

-------------------------------------------------------------------------------
(* The life of the thread.                                                      *)

LEMMA LifetimeNext == IInv /\ Next => Lifetime'
  <1> SUFFICES ASSUME Lifetime, OrdersReach, Next PROVE Lifetime'
    BY DEF IInv
  <1> USE DEF Lifetime
  <1>1. CASE gps_state_init
    BY <1>1 DEF gps_state_init, Call
  <1>2. CASE NothingToDo
    BY <1>2 DEF NothingToDo, Call, hal, gps
  <1>3. ASSUME NEW cmd \in Commands, Send(cmd) PROVE Lifetime'
    BY <1>3 DEF Send, Call, hal, gps
  <1>4. CASE Quit
    BY <1>4 DEF Quit, Call, hal, gps
  <1>5. CASE StoreCallbacks
    BY <1>5 DEF StoreCallbacks, gps
  <1>6. CASE gps_state_done
    BY <1>6 DEF gps_state_done, JoinThread, JoinNothing, Closed, hal, gps
  <1>7. CASE Receiver
    BY <1>7 DEF Receiver, Say, HangUp, hal, gps
  <1>8. CASE gps_state_thread
    <2>1. UNCHANGED <<pc, hal>> /\ tpc \in {"new", "run"}
      BY <1>8 DEF gps_state_thread, ThreadBegins, epoll_wait, HungUp, ReadCommand, ReadTty,
                  ParseNext, NoMore, Looking
    <2> QED
      BY <2>1 DEF hal
  <1> QED
    BY <1>1, <1>2, <1>3, <1>4, <1>5, <1>6, <1>7, <1>8 DEF Next, Calls, Returns, Commands

-------------------------------------------------------------------------------
(* The commands in the pipe.                                                    *)

(* Writing a command: a START or a STOP is then the last order.                 *)
LEMMA WriteHolds ==
  ASSUME control \in Seq(Commands), NEW cmd \in Commands, NEW wish, Holds(wish),
         control' = Append(control, cmd),
         wanted' = IF cmd = "QUIT" THEN wanted ELSE cmd = "START"
  PROVE  Holds(wish)'
  BY DEF Holds, LastOrder

(* Reading one: what it asks for is the state of the thread, or is overruled.   *)
LEMMA ReadHolds ==
  ASSUME control \in Seq(Commands), control # <<>>, Head(control) # "QUIT",
         NEW wish, Holds(wish), control' = Tail(control), wanted' = wanted,
         started' = (Head(control) = "START")
  PROVE  Holds(started)'
  <1> DEFINE n == Len(control)
  <1>1. /\ n \in Nat /\ n >= 1 /\ Len(control') = n - 1
        /\ \A i \in 1..n - 1 : control'[i] = control[i + 1]
        /\ Head(control) = control[1]
    OBVIOUS
  <1>2. ASSUME \A i \in 1..n - 1 : control'[i] = "QUIT" PROVE wanted' = started'
    <2>1. \A j \in 2..n : control[j] = control'[j - 1] /\ j - 1 \in 1..n - 1
      BY <1>1
    <2>2. LastOrder(1)
      BY <1>1, <1>2, <2>1 DEF LastOrder
    <2> QED
      BY <1>1, <2>2 DEF Holds
  <1>3. ASSUME NEW i \in 1..n - 1, LastOrder(i)' PROVE wanted' = (control'[i] = "START")
    <2>1. i + 1 \in 1..n /\ control[i + 1] = control'[i] /\ control'[i] # "QUIT"
      BY <1>1, <1>3 DEF LastOrder
    <2>2. ASSUME NEW j \in i + 2..n PROVE control[j] = "QUIT"
      <3>1. j - 1 \in i + 1..n - 1 /\ control[j] = control'[j - 1]
        BY <1>1
      <3> QED
        BY <1>1, <1>3, <3>1 DEF LastOrder
    <2>3. LastOrder(i + 1)
      BY <1>1, <2>1, <2>2 DEF LastOrder
    <2> QED
      BY <2>1, <2>3 DEF Holds
  <1> QED
    BY <1>1, <1>2, <1>3 DEF Holds

(* A command lost or repeated would leave another state asked for.              *)
LEMMA OrdersNext == IInv /\ Next => OrdersReach'
  <1> SUFFICES ASSUME Lifetime, OrdersReach, Next PROVE OrdersReach'
    BY DEF IInv
  <1>1. CASE gps_state_init
    <2>1. /\ tpc' \in {tpc, "new"}
          /\ tpc \notin {"new", "run"}
          /\ wanted' = FALSE /\ started' = started
          /\ pc' = "created" => control' = <<>>
          /\ control' \in {<<>>, <<"QUIT">>}
          /\ tpc' = "new" => control' = <<>>
      BY <1>1 DEF gps_state_init, Call, Lifetime
    <2>2. "QUIT" \in Commands
      BY DEF Commands
    <2>3. control' \in Seq(Commands)
      <3>1. <<>> \in Seq(Commands)
        OBVIOUS
      <3>2. <<"QUIT">> \in Seq(Commands)
        BY <2>2
      <3> QED
        BY <2>1, <3>1, <3>2
    <2>4. control' = <<>> => Holds(FALSE)'
      BY <2>1 DEF Holds, LastOrder
    <2> QED
      BY <2>1, <2>3, <2>4 DEF OrdersReach
  <1>2. ASSUME NEW cmd \in Commands, cmd # "QUIT", Send(cmd) PROVE OrdersReach'
    <2>1. /\ pc = "idle" /\ pc' = "idle" /\ wanted' = (cmd = "START") /\ wanted' \in BOOLEAN
          /\ control' = IF paired THEN Append(control, cmd) ELSE control
          /\ UNCHANGED <<tpc, started, callback, session>>
      BY <1>2 DEF Send, Call, Write, gps, hal
    <2>2. control' \in Seq(Commands)
      BY <2>1 DEF OrdersReach
    <2>3. ASSUME NEW wish, Holds(wish), paired PROVE Holds(wish)'
      BY <1>2, <2>1, <2>3, WriteHolds DEF OrdersReach
    <2>4. CASE tpc = "new"
      BY <2>1, <2>2, <2>3, <2>4 DEF OrdersReach, Lifetime
    <2>5. CASE tpc = "run"
      <3>1. Holds(started) /\ paired
        BY <2>5 DEF OrdersReach, Lifetime
      <3>2. Holds(started)'
        BY <2>1, <3>1, <2>3 DEF Holds, LastOrder
      <3> QED
        BY <2>1, <2>2, <2>5, <3>2 DEF OrdersReach
    <2> QED
      BY <2>1, <2>2, <2>4, <2>5 DEF OrdersReach
  <1>3. CASE Quit
    <2>1. /\ pc' = "join" /\ wanted' = wanted
          /\ control' = IF paired THEN Append(control, "QUIT") ELSE control
          /\ UNCHANGED <<tpc, started, callback, session>>
      BY <1>3 DEF Quit, Write, gps, hal, history
    <2>2. control' \in Seq(Commands) /\ "QUIT" \in Commands
      BY <2>1 DEF OrdersReach, Commands
    <2>3. ASSUME NEW wish, Holds(wish), paired PROVE Holds(wish)'
      BY <2>1, <2>2, <2>3, WriteHolds DEF OrdersReach
    <2>4. CASE tpc = "new"
      BY <2>1, <2>2, <2>3, <2>4 DEF OrdersReach, Lifetime
    <2>5. CASE tpc = "run"
      <3>1. Holds(started) /\ paired
        BY <2>5 DEF OrdersReach, Lifetime
      <3>2. Holds(started)'
        BY <2>1, <3>1, <2>3 DEF Holds, LastOrder
      <3> QED
        BY <2>1, <2>2, <2>5, <3>2 DEF OrdersReach
    <2> QED
      BY <2>1, <2>2, <2>4, <2>5 DEF OrdersReach
  <1>4. CASE StoreCallbacks
    BY <1>4 DEF StoreCallbacks, gps, OrdersReach, Holds, LastOrder
  <1>5. CASE JoinThread \/ (JoinNothing /\ Closed)
    <2>1. /\ tpc \notin {"new", "run"} /\ pc' = "idle" /\ control' = <<>>
          /\ UNCHANGED <<tpc, wanted, started>>
      BY <1>5 DEF JoinThread, JoinNothing, Closed, gps, Lifetime
    <2>2. <<>> \in Seq(Commands)
      OBVIOUS
    <2>3. wanted' \in BOOLEAN /\ started' \in BOOLEAN
      BY <2>1 DEF OrdersReach
    <2> QED
      BY <2>1, <2>2, <2>3 DEF OrdersReach
  <1>6. CASE ThreadBegins
    BY <1>6 DEF ThreadBegins, hal, history, OrdersReach, Holds, LastOrder
  <1>7. CASE ReadCommand
    <2>1. control \in Seq(Commands) /\ control # <<>> /\ tpc = "run" /\ Holds(started)
      BY <1>7 DEF ReadCommand, Looking, OrdersReach
    <2>2. /\ control' = Tail(control) /\ control' \in Seq(Commands)
          /\ UNCHANGED <<pc, callbacks, session, wanted>> /\ pc # "created"
          /\ Head(control) \in Commands
      BY <1>7, <2>1 DEF ReadCommand, hal, OrdersReach
    <2>3. CASE Head(control) = "QUIT"
      <3>1. tpc' = "dead" /\ started' = started
        BY <1>7, <2>3 DEF ReadCommand
      <3> QED
        BY <2>2, <3>1 DEF OrdersReach
    <2>4. CASE Head(control) # "QUIT"
      <3>1. tpc' = "run" /\ Command(Head(control)) /\ callbacks = session
        BY <1>7, <2>1, <2>2, <2>4 DEF ReadCommand, Lifetime
      <3>2. /\ started' = (Head(control) = "START") /\ started' \in BOOLEAN
            /\ callback' = IF started' THEN session ELSE 0
        BY <2>1, <2>2, <2>4, <3>1 DEF Command, nmea_reader_set_callback, Commands, OrdersReach
      <3>3. Holds(started)'
        BY <2>1, <2>2, <2>4, <3>2, ReadHolds
      <3> QED
        BY <2>2, <3>1, <3>2, <3>3 DEF OrdersReach
    <2> QED
      BY <2>3, <2>4
  <1>8. ASSUME UNCHANGED <<control, wanted, started, callback, session>>,
               tpc' \in {tpc, "dead"}, pc' = "created" => pc = "created"
        PROVE  OrdersReach'
    BY <1>8 DEF OrdersReach, Holds, LastOrder
  <1>9. CASE NothingToDo \/ Receiver \/ epoll_wait \/ HungUp \/ ReadTty \/ ParseNext \/ NoMore
    BY <1>8, <1>9 DEF NothingToDo, Receiver, Say, HangUp, epoll_wait, HungUp, ReadTty,
                      ParseNext, NoMore, Looking, hal, gps, history, Call
  <1>10. CASE JoinNothing /\ ~Closed
    BY <1>8, <1>10 DEF JoinNothing, hal, gps, history
  <1> QED
    BY <1>1, <1>2, <1>3, <1>4, <1>5, <1>6, <1>7, <1>9, <1>10
    DEF Next, Calls, Returns, gps_state_done, gps_state_thread, Commands

-------------------------------------------------------------------------------
(* The position that is due.                                                    *)

LEMMA DeliverPosition ==
  ASSUME PositionDue, FixFresh, tpc = "run", tpc' = "run",
         NEW y, NEW tells, Placed(r, y, tells), Deliver(y, IF tells THEN y.place ELSE pending)
  PROVE  PositionDue' /\ FixFresh'
  <1> DEFINE seen == IF tells THEN y.place ELSE pending
             location == y.flags # {} /\ callback # 0
  <1>1. /\ Fields(y)
        /\ IF "LAT_LONG" \in y.flags THEN y.place = seen ELSE seen = None
    BY DEF PositionDue, Placed
  <1>2. /\ r' = [y EXCEPT !.changed = @ /\ ~(y.changed /\ callbacks # 0),
                          !.flags = IF location THEN {} ELSE @]
        /\ pending' = IF location THEN None ELSE seen
        /\ fix' = IF location THEN [flags |-> y.flags, place |-> y.place, pending |-> seen]
                  ELSE fix
    BY DEF Deliver
  <1> HIDE DEF seen
  <1>3. /\ Fields(r') /\ r'.place = y.place
        /\ r'.flags = IF location THEN {} ELSE y.flags
    BY <1>1, <1>2 DEF Fields
  <1>4. PositionDue'
    BY <1>1, <1>2, <1>3 DEF PositionDue, Fields
  <1>5. FixFresh'
    BY <1>1, <1>2 DEF FixFresh
  <1> QED
    BY <1>4, <1>5

LEMMA PositionNext == IInv /\ Next => PositionDue' /\ FixFresh'
  <1> SUFFICES ASSUME Lifetime, OrdersReach, PositionDue, FixFresh, Next
               PROVE  PositionDue' /\ FixFresh'
    BY DEF IInv
  <1>1. CASE gps_state_init
    <2>1. r' = r /\ pending' = None /\ fix' = NoFix /\ tpc' # "run"
      BY <1>1 DEF gps_state_init, Call, Lifetime
    <2> QED
      BY <2>1 DEF PositionDue, FixFresh
  <1>2. CASE ThreadBegins
    <2>1. r' = nmea_reader_init /\ pending' = pending /\ fix' = fix /\ pending = None
      BY <1>2 DEF ThreadBegins, history, PositionDue
    <2>2. Fields(r') /\ r'.flags = {}
      BY <2>1 DEF nmea_reader_init, Fields
    <2> QED
      BY <2>1, <2>2 DEF PositionDue, FixFresh, Fields
  <1>3. CASE ReadCommand
    <2>1. tpc = "run" /\ tpc' \in {"run", "dead"}
      BY <1>3 DEF ReadCommand, Looking
    <2>2. CASE UNCHANGED <<r, pending, fix>>
      BY <2>1, <2>2 DEF PositionDue, FixFresh
    <2>3. CASE ~UNCHANGED <<r, pending, fix>>
      <3>1. /\ r.flags # {} /\ r' = [r EXCEPT !.flags = {}] /\ pending' = None
            /\ fix' = [flags |-> r.flags, place |-> r.place, pending |-> pending]
        BY <1>3, <2>3 DEF ReadCommand, Command, nmea_reader_set_callback, Delivered
      <3>2. Fields(r') /\ r'.flags = {}
        BY <3>1 DEF Fields, PositionDue
      <3> QED
        BY <2>1, <3>1, <3>2 DEF PositionDue, FixFresh, Fields
    <2> QED
      BY <2>2, <2>3
  <1>4. CASE ParseNext
    <2>1. tpc = "run" /\ tpc' = "run" /\ Parse(Head(buff))
      BY <1>4 DEF ParseNext, Looking
    <2> DEFINE s == Head(buff)
               y == nmea_reader_parse(r, s)
    <2>2. CASE UNCHANGED <<r, pending, fix>>
      BY <2>1, <2>2 DEF PositionDue, FixFresh
    <2>3. CASE Deliver(y, IF HasPlace(s) THEN y.place ELSE pending)
      <3>1. Fields(r)
        BY DEF PositionDue, Fields
      <3>2. Placed(r, y, HasPlace(s))
        BY <3>1, SentencePlaced
      <3> HIDE DEF s, y
      <3> QED
        BY <2>1, <2>3, <3>2, DeliverPosition
    <2> QED
      BY <2>1, <2>2, <2>3 DEF Parse
  <1>5. CASE \/ NothingToDo \/ Send("START") \/ Send("STOP") \/ Quit \/ Returns \/ Receiver
             \/ epoll_wait \/ HungUp \/ ReadTty \/ NoMore
    <2>1. UNCHANGED <<r, pending, fix>> /\ tpc' \in {tpc, "dead"}
      BY <1>5 DEF NothingToDo, Send, Quit, Returns, StoreCallbacks, gps_state_done, JoinThread,
                  JoinNothing, Closed, Receiver, Say, HangUp, epoll_wait, HungUp, ReadTty,
                  NoMore, gps, history
    <2> QED
      BY <2>1 DEF PositionDue, FixFresh
  <1> QED
    BY <1>1, <1>2, <1>3, <1>4, <1>5 DEF Next, Calls, gps_state_thread

-------------------------------------------------------------------------------
(* The theorems.                                                                *)

(* The inductive invariant: the thread lives between init and the join, the     *)
(* pipe leads from what it does to what was asked for, and the flag of the      *)
(* reader says whether a position is due (gps_qemu.c:985-1276).                 *)
THEOREM HalInvariant == Spec => []IInv
  <1>1. Init => IInv
    <2> SUFFICES ASSUME Init PROVE IInv
      OBVIOUS
    <2>1. <<>> \in Seq(Commands)
      OBVIOUS
    <2>2. Lifetime
      <3>1. /\ pc = "idle" /\ tpc = "none" /\ thread = "zero" /\ callbacks = 0 /\ session = 0
            /\ ~init /\ init \in BOOLEAN
        BY Zenon DEF Init
      <3> QED
        BY <3>1 DEF Lifetime
    <2>3. OrdersReach
      BY <2>1 DEF Init, OrdersReach
    <2>4. PositionDue /\ FixFresh
      BY DEF Init, PositionDue, FixFresh, nmea_reader_init
    <2> QED
      BY <2>2, <2>3, <2>4 DEF IInv
  <1>2. IInv /\ [Next]_vars => IInv'
    <2>1. IInv /\ UNCHANGED vars => IInv'
      BY DEF vars, hal, gps, history, IInv, Lifetime, OrdersReach, Holds, LastOrder,
             PositionDue, FixFresh
    <2> QED
      BY <2>1, LifetimeNext, OrdersNext, PositionNext DEF IInv
  <1> QED
    BY <1>1, <1>2, PTL DEF Spec

(* cleanup waits for the thread that init made, and none is left after it       *)
(* (gps_qemu.c:985-1001).                                                       *)
THEOREM ThreadJoined == Spec => []JoinsItsThread
  <1>1. IInv => JoinsItsThread
    BY DEF IInv, Lifetime, JoinsItsThread
  <1> QED
    BY <1>1, HalInvariant, PTL

(* No start or stop is lost or taken out of order, however many are written     *)
(* before the thread reads one (gps_qemu.c:1105-1131).                          *)
THEOREM CommandsTaken == Spec => []CommandsHold
  <1>1. IInv => CommandsHold
    BY DEF IInv, OrdersReach, CommandsHold
  <1> QED
    BY <1>1, HalInvariant, PTL

(* Every position is delivered once, and it is the one received last, for every *)
(* set of sentences (gps_qemu.c:462-467, 921-951).                              *)
THEOREM PositionsFresh == Spec => []FixFresh
  <1>1. IInv => FixFresh
    BY DEF IInv
  <1> QED
    BY <1>1, HalInvariant, PTL

(* Every callback falls within a session of the framework: the HAL implements   *)
(* GpsSession (gps_qemu.c:985-1001, 1067-1161, 1192-1199).                      *)
THEOREM CallbacksWithinSession == Spec => KeepsSession
  <1>1. Init => Session!Init
    BY DEF Init, Session!Init, Session!None
  <1>2. IInv /\ [Next]_vars => [Session!Next]_(Session!vars)
    <2> SUFFICES ASSUME Lifetime, [Next]_vars PROVE Session!Next \/ UNCHANGED Session!vars
      BY DEF IInv
    <2> USE DEF Session!Next, Session!vars, Lifetime
    <2>1. CASE gps_state_init
      BY <2>1 DEF gps_state_init, Session!Open
    <2>2. CASE StoreCallbacks
      BY <2>2 DEF StoreCallbacks, Session!Deliver, Callbacks
    <2>3. CASE gps_state_done
      BY <2>3 DEF gps_state_done, JoinThread, JoinNothing, Closed, hal, history,
                  Session!Close, Session!None
    <2>4. CASE ReadCommand
      <3>1. init /\ init' = init
        BY <2>4 DEF ReadCommand, Looking, hal
      <3>2. last' \in {last, "LOCATION"}
        BY <2>4 DEF ReadCommand, Command, nmea_reader_set_callback
      <3> QED
        BY <3>1, <3>2 DEF Session!Deliver, Callbacks
    <2>5. CASE ParseNext
      <3>1. init /\ init' = init
        BY <2>5 DEF ParseNext, Looking, hal
      <3>2. last' \in {last, "NMEA", "SV", "LOCATION"}
        BY <2>5 DEF ParseNext, Parse, Deliver
      <3> QED
        BY <3>1, <3>2 DEF Session!Deliver, Callbacks
    <2>6. CASE \/ NothingToDo \/ Send("START") \/ Send("STOP") \/ Quit \/ Receiver
               \/ ThreadBegins \/ epoll_wait \/ HungUp \/ ReadTty \/ NoMore \/ UNCHANGED vars
      BY <2>6 DEF NothingToDo, Send, Quit, Receiver, Say, HangUp, ThreadBegins, epoll_wait,
                  HungUp, ReadTty, NoMore, hal, history, vars
    <2> QED
      BY <2>1, <2>2, <2>3, <2>4, <2>5, <2>6 DEF Next, Calls, Returns, gps_state_thread
  <1> QED
    BY <1>1, <1>2, HalInvariant, PTL DEF Spec, KeepsSession, Session!Spec
===============================================================================
