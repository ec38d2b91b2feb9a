-------------------------------- MODULE QemuGps -------------------------------
(* The GPS HAL of the emulator and of the NEU board, testcode/android/libgps/   *)
(* gps_qemu.c (gps_neu.c is the same text).  The framework's thread calls init, *)
(* start, stop and cleanup; gps_state_thread waits for the commands these write *)
(* and for the sentences of the receiver, and calls the framework back.         *)
(* A sentence travels on the tty as one item; the reader is NmeaSentence.       *)
EXTENDS NmeaSentence

CONSTANTS Sentences,     \* what the receiver says
          MinLength,     \* 9: a shorter line is ignored
          MaxCalls,      \* how many calls the framework makes
          MaxSentences,  \* how many sentences the receiver says
          MaxFaults,     \* how many things fail
          FaultKinds     \* which: "open", "tty", "pair", "create", "hangup"

ASSUME SentencesAssumption ==
  Sentences \subseteq [id : Ids \cup {"short"}, len : Nat, fields : Seq(Token)]
ASSUME BoundsAssumption ==
  /\ MinLength \in Nat /\ MaxCalls \in Nat /\ MaxSentences \in Nat /\ MaxFaults \in Nat
  /\ FaultKinds \subseteq {"open", "tty", "pair", "create", "hangup"}

VARIABLES
  pc,           \* the framework: "idle", in init after "created", in "join"; or
                \* "undefined" after the join of no thread
  init, fd,     \* GpsState: init # 0, fd >= 0
  thread,       \* GpsState: "zero", "alive" for a thread not joined yet, "joined"
  paired,       \* GpsState: control is a socket pair
  control,      \* the commands in it
  callbacks,    \* GpsState: whose callbacks: the number of a session, 0 for NULL
  session,      \* how many times init has set up the state
  tpc,          \* the thread: "none", "new", "run", "dead"
  events,       \* what epoll_wait has told it and it has not looked at
  buff,         \* its local buffer: sentences read and not parsed yet
  started,      \* its local variable
  callback, r,  \* the reader: its callback, a session number or 0; its other fields
  line, hup,    \* the tty: sentences not read yet; it has hung up
  last,         \* history: the callback made last in this session
  wanted,       \* history: start was called after stop
  pending,      \* history: the position received and not delivered yet
  fix,          \* history: the fix delivered last, and what was pending then
  dated,        \* history: the receiver has told the date
  calls, sent, faults   \* bounds

hal == <<init, fd, thread, paired, callbacks, session>>
gps == <<tpc, events, buff, started, callback, r>>
history == <<last, wanted, pending, fix, dated>>
vars == <<pc, hal, control, gps, line, hup, history, calls, sent, faults>>

Commands == {"QUIT", "START", "STOP"}
Callbacks == {"CAPABILITIES", "NMEA", "SV", "LOCATION"}
None == <<>>
NoFix == [flags |-> {}, place |-> None, pending |-> None]

Fails(kind) == kind \in FaultKinds /\ faults < MaxFaults /\ faults' = faults + 1

Init ==
  /\ pc = "idle" /\ init = FALSE /\ fd = FALSE /\ thread = "zero" /\ paired = FALSE
  /\ control = <<>> /\ callbacks = 0 /\ session = 0
  /\ tpc = "none" /\ events = <<>> /\ buff = <<>> /\ started = FALSE /\ callback = 0
  /\ r = nmea_reader_init
  /\ line = <<>> /\ hup = FALSE /\ last = "none" /\ wanted = FALSE /\ pending = None
  /\ fix = NoFix /\ dated = FALSE /\ calls = 0 /\ sent = 0 /\ faults = 0

-------------------------------------------------------------------------------
(* The framework.                                                               *)

Call == pc = "idle" /\ calls < MaxCalls /\ calls' = calls + 1

(* gps_set_ttymxc: the speed cannot be set, or the parity cannot be read or set.  *)
gps_set_ttymxc_fails == Fails("tty")

(* gps_state_init as far as the thread, or as the step that fails.  A tty that  *)
(* does not open or cannot be set leaves init set and no thread; a socket pair  *)
(* or a thread that cannot be made leads to gps_state_done.                     *)
gps_state_init ==
  /\ Call /\ ~init
  /\ init' = TRUE /\ session' = session + 1
  /\ \/ /\ Fails("open")
        /\ fd' = FALSE /\ UNCHANGED <<pc, thread, paired, tpc, hup>>
     \/ /\ gps_set_ttymxc_fails
        /\ fd' = TRUE /\ hup' = FALSE /\ UNCHANGED <<pc, thread, paired, tpc>>
     \/ /\ Fails("pair")
        /\ fd' = TRUE /\ hup' = FALSE /\ pc' = "join" /\ UNCHANGED <<thread, paired, tpc>>
     \/ /\ Fails("create")
        /\ fd' = TRUE /\ hup' = FALSE /\ paired' = TRUE /\ thread' = "zero"
        /\ pc' = "join" /\ UNCHANGED tpc
     \/ /\ fd' = TRUE /\ hup' = FALSE /\ paired' = TRUE /\ thread' = "alive"
        /\ tpc' = "new" /\ pc' = "created" /\ UNCHANGED faults
  /\ line' = <<>> /\ pending' = None /\ dated' = FALSE /\ wanted' = FALSE /\ fix' = NoFix
  /\ control' = IF pc' = "join" /\ paired' THEN <<"QUIT">> ELSE <<>>
  /\ UNCHANGED <<callbacks, events, buff, started, callback, r, last, sent>>

(* The thread runs already when its callbacks are stored.                       *)
StoreCallbacks ==
  /\ pc = "created"
  /\ callbacks' = session /\ last' = "CAPABILITIES" /\ pc' = "idle"
  /\ UNCHANGED <<init, fd, thread, paired, session, control, gps, line, hup, wanted, pending,
                 fix, dated, calls, sent, faults>>

(* init of a state that is set up, and all but init of one that is not.         *)
NothingToDo ==
  /\ Call
  /\ UNCHANGED <<pc, hal, control, gps, line, hup, history, sent, faults>>

Write(cmd) == control' = IF paired THEN Append(control, cmd) ELSE control

(* qemu_gps_start and qemu_gps_stop say 0 even where there is no thread.        *)
Send(cmd) ==
  /\ Call /\ init
  /\ Write(cmd) /\ wanted' = (cmd = "START")
  /\ UNCHANGED <<pc, hal, gps, line, hup, last, pending, fix, dated, sent, faults>>

(* Mutant: cleanup does not look whether there is anything to clean up.         *)
QuitAlways ==
  /\ Call
  /\ Write("QUIT") /\ pc' = "join"
  /\ UNCHANGED <<hal, gps, line, hup, history, sent, faults>>

(* Mutant: the thread is waited for, but not told.                              *)
QuitSilently ==
  /\ Call /\ init
  /\ pc' = "join"
  /\ UNCHANGED <<hal, control, gps, line, hup, history, sent, faults>>

(* gps_state_done.                                                              *)
Quit ==
  /\ Call /\ init
  /\ Write("QUIT") /\ pc' = "join"
  /\ UNCHANGED <<hal, gps, line, hup, history, sent, faults>>

Closed ==
  /\ pc' = "idle" /\ init' = FALSE /\ fd' = FALSE /\ paired' = FALSE
  /\ control' = <<>> /\ line' = <<>> /\ last' = "none"
  /\ UNCHANGED <<callbacks, session, gps, hup, wanted, pending, fix, dated, calls, sent,
                 faults>>

(* Mutant: the thread is told to quit, and not waited for.                      *)
CloseAtOnce == pc = "join" /\ thread = "alive" /\ thread' = "joined" /\ Closed
JoinThread == pc = "join" /\ thread = "alive" /\ tpc = "dead" /\ thread' = "joined" /\ Closed

(* A join of no thread, or of one joined before, is undefined.                  *)
JoinNothing ==
  /\ pc = "join" /\ thread # "alive"
  /\ \/ Closed /\ UNCHANGED thread
     \/ /\ pc' = "undefined"
        /\ UNCHANGED <<hal, control, gps, line, hup, history, calls, sent, faults>>

gps_state_done == JoinThread \/ JoinNothing

-------------------------------------------------------------------------------
(* The receiver.                                                                *)

Say(s) ==
  /\ sent < MaxSentences /\ sent' = sent + 1
  /\ fd /\ ~hup /\ line' = Append(line, s)
  /\ UNCHANGED <<pc, hal, control, gps, hup, history, calls, faults>>

HangUp ==
  /\ fd /\ ~hup /\ Fails("hangup")
  /\ hup' = TRUE
  /\ UNCHANGED <<pc, hal, control, gps, line, history, calls, sent>>

-------------------------------------------------------------------------------
(* gps_state_thread.                                                            *)

ThreadBegins ==
  /\ tpc = "new"
  /\ tpc' = "run" /\ started' = FALSE /\ callback' = 0 /\ r' = nmea_reader_init
  /\ events' = <<>> /\ buff' = <<>>
  /\ UNCHANGED <<pc, hal, control, line, hup, history, calls, sent, faults>>

Ready == (IF control = <<>> THEN {} ELSE {"control"})
           \cup (IF hup THEN {"hangup"} ELSE IF line = <<>> THEN {} ELSE {"tty"})

epoll_wait ==
  /\ tpc = "run" /\ events = <<>> /\ Ready # {}
  /\ events' \in {q \in UNION {[1..n -> Ready] : n \in 1..2} : {q[i] : i \in DOMAIN q} = Ready
                                                  /\ (Len(q) = 2 => q[1] # q[2])}
  /\ UNCHANGED <<pc, hal, control, tpc, buff, started, callback, r, line, hup, history, calls,
                 sent, faults>>

Looking(event) == tpc = "run" /\ events # <<>> /\ Head(events) = event

HungUp ==
  /\ Looking("hangup")
  /\ tpc' = "dead"
  /\ UNCHANGED <<pc, hal, control, events, buff, started, callback, r, line, hup, history,
                 calls, sent, faults>>

Delivered(reader) ==
  fix' = [flags |-> reader.flags, place |-> reader.place, pending |-> pending]

(* The latest fix goes to the new callback.                                     *)
nmea_reader_set_callback(cb) ==
  /\ callback' = cb
  /\ IF cb # 0 /\ r.flags # {}
     THEN /\ Delivered(r) /\ last' = "LOCATION" /\ pending' = None
          /\ r' = [r EXCEPT !.flags = {}]
     ELSE UNCHANGED <<fix, last, pending, r>>

(* Mutant: STOP leaves the callback.                                            *)
CommandHalf(cmd) ==
  \/ cmd = "START" /\ ~started /\ started' = TRUE /\ nmea_reader_set_callback(callbacks)
  \/ cmd = "STOP" /\ started /\ started' = FALSE
                  /\ UNCHANGED <<callback, fix, last, pending, r>>
  \/ started = (cmd = "START") /\ UNCHANGED <<started, callback, fix, last, pending, r>>
Command(cmd) ==
  \/ cmd = "START" /\ ~started /\ started' = TRUE /\ nmea_reader_set_callback(callbacks)
  \/ cmd = "STOP" /\ started /\ started' = FALSE /\ nmea_reader_set_callback(0)
  \/ started = (cmd = "START") /\ UNCHANGED <<started, callback, fix, last, pending, r>>

ReadCommand ==
  /\ Looking("control") /\ control # <<>>
  /\ control' = Tail(control)
  /\ IF Head(control) = "QUIT"
     THEN tpc' = "dead" /\ UNCHANGED <<events, started, callback, r, fix, last, pending>>
     ELSE events' = Tail(events) /\ Command(Head(control)) /\ UNCHANGED tpc
  /\ UNCHANGED <<pc, hal, buff, line, hup, wanted, dated, calls, sent, faults>>

(* What the receiver means by a sentence, for the histories.                    *)
Long(s, i, j) == ~(nmea_tokenizer_get(s, i).len < 6 \/ nmea_tokenizer_get(s, j).len < 6)
HasPlace(s) ==
  \/ s.id = "GGA" /\ Long(s, 2, 4)
  \/ s.id = "GLL" /\ nmea_tokenizer_get(s, 6).c = "A" /\ Long(s, 1, 3)
  \/ s.id = "RMC" /\ nmea_tokenizer_get(s, 2).c = "A" /\ Long(s, 3, 5)
HasDate(s) ==
  \/ s.id = "RMC" /\ nmea_tokenizer_get(s, 2).c = "A" /\ nmea_tokenizer_get(s, 9).len = 6
  \/ s.id = "ZDA" /\ nmea_tokenizer_get(s, 4).len >= 4

(* Mutant: the flags of a fix that was delivered stay.                          *)
DeliverKeepingFlags(r1, seen) ==
  LET sv == r1.changed /\ callbacks # 0
      location == r1.flags # {} /\ callback # 0
  IN /\ r' = [r1 EXCEPT !.changed = @ /\ ~sv]
     /\ pending' = IF location THEN None ELSE seen
     /\ fix' = IF location THEN [flags |-> r1.flags, place |-> r1.place, pending |-> seen]
               ELSE fix
     /\ last' = IF location THEN "LOCATION" ELSE IF sv THEN "SV"
                ELSE IF callbacks # 0 THEN "NMEA" ELSE last

(* The callbacks at the end of a sentence; a fix waits until there is one.      *)
Deliver(r1, seen) ==
  LET sv == r1.changed /\ callbacks # 0
      location == r1.flags # {} /\ callback # 0
  IN /\ r' = [r1 EXCEPT !.changed = @ /\ ~sv, !.flags = IF location THEN {} ELSE @]
     /\ pending' = IF location THEN None ELSE seen
     /\ fix' = IF location THEN [flags |-> r1.flags, place |-> r1.place, pending |-> seen]
               ELSE fix
     /\ last' = IF location THEN "LOCATION" ELSE IF sv THEN "SV"
                ELSE IF callbacks # 0 THEN "NMEA" ELSE last

Parse(s) ==
  IF s.len < MinLength THEN UNCHANGED <<r, pending, fix, last, dated>>
  ELSE IF s.id = "short"
  THEN last' = (IF callbacks # 0 THEN "NMEA" ELSE last) /\ UNCHANGED <<r, pending, fix, dated>>
  ELSE LET r1 == nmea_reader_parse(r, s) IN
       /\ Deliver(r1, IF HasPlace(s) THEN r1.place ELSE pending)
       /\ dated' = (dated \/ HasDate(s))

(* The inner loop reads and parses until the tty has nothing more; after a      *)
(* hang-up read() returns 0 and it never ends.                                  *)
ReadTty ==
  /\ Looking("tty") /\ buff = <<>> /\ line # <<>>
  /\ buff' = line /\ line' = <<>>
  /\ UNCHANGED <<pc, hal, control, tpc, events, started, callback, r, hup, history, calls,
                 sent, faults>>

ParseNext ==
  /\ Looking("tty") /\ buff # <<>>
  /\ buff' = Tail(buff) /\ Parse(Head(buff))
  /\ UNCHANGED <<pc, hal, control, tpc, events, started, callback, line, hup, wanted, calls,
                 sent, faults>>

NoMore ==
  /\ Looking("tty") /\ buff = <<>> /\ line = <<>> /\ ~hup
  /\ events' = Tail(events)
  /\ UNCHANGED <<pc, hal, control, tpc, buff, started, callback, r, line, hup, history, calls,
                 sent, faults>>

-------------------------------------------------------------------------------
(* qemu_gps_init and qemu_gps_cleanup, qemu_gps_start and qemu_gps_stop.        *)
Calls == gps_state_init \/ NothingToDo \/ Send("START") \/ Send("STOP") \/ Quit
Returns == StoreCallbacks \/ gps_state_done
Receiver == (\E s \in Sentences : Say(s)) \/ HangUp
gps_state_thread ==
  ThreadBegins \/ epoll_wait \/ HungUp \/ ReadCommand \/ ReadTty \/ ParseNext \/ NoMore

Next == pc # "undefined" /\ (Calls \/ Returns \/ Receiver \/ gps_state_thread)

Spec == Init /\ [][Next]_vars

(* A call goes on while it can, and so does the thread; the framework need not  *)
(* call and the receiver need not speak.                                        *)
FairSpec == Spec /\ WF_vars(pc # "undefined" /\ Returns)
                 /\ WF_vars(pc # "undefined" /\ gps_state_thread)
-------------------------------------------------------------------------------
(* Properties                                                                   *)

HalTypes ==
  /\ pc \in {"idle", "created", "join", "undefined"}
  /\ init \in BOOLEAN /\ fd \in BOOLEAN /\ thread \in {"zero", "alive", "joined"}
  /\ paired \in BOOLEAN /\ control \in Seq(Commands)
  /\ callbacks \in Nat /\ session \in Nat
ThreadTypes ==
  /\ tpc \in {"none", "new", "run", "dead"}
  /\ events \in Seq({"control", "tty", "hangup"})
  /\ buff \in Seq(Sentences) /\ started \in BOOLEAN /\ callback \in Nat
  /\ line \in Seq(Sentences) /\ hup \in BOOLEAN
ReaderTypes ==
  /\ r.flags \subseteq Flags /\ r.place \in Int \X Int /\ r.time \in Date \X Int
  /\ r.date \in Date /\ r.svs \in Seq(Int) /\ r.mask \subseteq 1..MaxPrn
  /\ r.changed \in BOOLEAN /\ r.gsa_fixed \in BOOLEAN
TypeOK ==
  /\ HalTypes /\ ThreadTypes /\ ReaderTypes
  /\ last \in Callbacks \cup {"none"} /\ wanted \in BOOLEAN /\ dated \in BOOLEAN

(* What the HAL owes the framework about its callbacks: none before init, and   *)
(* none once cleanup has returned, whatever the thread was doing                *)
(* (gps_qemu.c:985-1001, 1067-1161).                                            *)
Session == INSTANCE GpsSession WITH up <- init
KeepsSession == Session!Spec

(* The thread that is waited for is one that was made: only after an init that  *)
(* failed does cleanup join no thread, and none is left when it has returned    *)
(* (gps_qemu.c:992, 1172-1197).                                                 *)
JoinsItsThread ==
  /\ pc = "join" /\ callbacks = session => thread = "alive"
  /\ ~init => thread # "alive"

(* No command is lost or taken out of order: once the thread has read all that  *)
(* was written it delivers fixes just if the framework has started it last, and *)
(* to the callbacks of this session (gps_qemu.c:1105-1131).                     *)
LastOrder(i) == /\ i \in 1..Len(control) /\ control[i] # "QUIT"
                /\ \A j \in i + 1..Len(control) : control[j] = "QUIT"
Holds(wish) == /\ (\A i \in 1..Len(control) : control[i] = "QUIT") => wanted = wish
               /\ \A i \in 1..Len(control) : LastOrder(i) => wanted = (control[i] = "START")
CommandsHold ==
  tpc = "run" /\ callbacks = session =>
    Holds(started) /\ callback = IF started THEN session ELSE 0

(* A position is delivered once, and is the one received last: neither one that *)
(* came while the thread was stopped is lost, nor one delivered twice           *)
(* (gps_qemu.c:462-467, 921-951).                                               *)
FixFresh ==
  fix # NoFix => IF "LAT_LONG" \in fix.flags THEN fix.place = fix.pending
                 ELSE fix.pending = None

(* Why the safety properties hold: the thread lives between init and the join,  *)
(* what is in the control pipe leads from its state to the one asked for, and   *)
(* the flags of the reader say whether a position is due.                       *)
Lifetime ==
  /\ pc \in {"idle", "created", "join", "undefined"} /\ init \in BOOLEAN
  /\ session \in Nat /\ callbacks \in Nat /\ callbacks <= session
  /\ pc \in {"created", "join", "undefined"} => init
  /\ pc = "created" => thread = "alive"
  /\ ~init => thread # "alive"
  /\ init /\ callbacks = session => thread = "alive"
  /\ tpc \in {"new", "run"} =>
       thread = "alive" /\ paired /\ (pc = "created" \/ callbacks = session)
OrdersReach ==
  /\ control \in Seq(Commands) /\ wanted \in BOOLEAN /\ started \in BOOLEAN
  /\ pc = "created" => control = <<>> /\ ~wanted
  /\ tpc = "new" => Holds(FALSE)
  /\ tpc = "run" => Holds(started) /\ callback = IF started THEN session ELSE 0
PositionDue ==
  /\ {"flags", "place"} \subseteq DOMAIN r
  /\ tpc = "new" => pending = None
  /\ tpc = "run" => IF "LAT_LONG" \in r.flags THEN r.place = pending ELSE pending = None
IInv == Lifetime /\ OrdersReach /\ PositionDue /\ FixFresh

(* cleanup returns if the tty has not hung up under the thread                  *)
(* (gps_qemu.c:1137-1151: it would read 0 bytes for ever).                      *)
CleanupReturns == pc = "join" ~> pc # "join" \/ hup

(* The comment of nmea_reader_update_time, "no date yet, get current one": the  *)
(* date of the host is used as long as the receiver has told none               *)
(* (gps_qemu.c:482-489).                                                        *)
HostDateOnlyAtFirst == dated => r.date # Today
===============================================================================
