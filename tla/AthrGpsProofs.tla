----------------------------- MODULE AthrGpsProofs -----------------------------
(* For any number of calls and faults and any limit of the settle loop: the    *)
(* GPS HAL's types, the exclusion of its chip commands, the lifetimes of its    *)
(* threads, and that its callbacks fall within a session.                       *)
(*                                                                             *)
(* IInv is inductive.  Each action is shown to keep it in two parts: the        *)
(* Boolean variables, which an action sets or leaves alone one by one, and the  *)
(* rest.                                                                        *)
EXTENDS AthrGps, TLAPS

USE BoundsAssumption

-------------------------------------------------------------------------------
(* The Boolean variables stay Boolean. *)

LEMMA OpenKeepsFlags ==
  ASSUME IInv, NEW t, NEW open, NEW opened, Open(t, open, opened)
  PROVE  FlagsOK'
BY Zenon DEF IInv, TypeOK, FlagsOK, Fails, session, reader, flags, Open, OpenReturns

LEMMA SendKeepsFlags ==
  ASSUME IInv, NEW t, NEW here, NEW wake \in BOOLEAN, NEW sent, NEW failed,
         Send(t, here, wake, sent, failed)
  PROVE  FlagsOK'
BY Zenon DEF IInv, TypeOK, FlagsOK, Fails, session, reader, flags, Send

LEMMA NoteKeepsFlags ==
  ASSUME IInv, NEW t, NEW sent, NEW failed, NEW next, NoteSent(t, sent, failed, next)
  PROVE  FlagsOK'
<1>1. bOrionShutdown' \in BOOLEAN
  BY DEF NoteSent, At
<1> QED
  BY <1>1, Zenon DEF IInv, TypeOK, FlagsOK, session, tty, reader, NoteSent

LEMMA SleepKeepsFlags ==
  ASSUME IInv, NEW t \in {"api", "tmr"}, Sleep(t)
  PROVE  FlagsOK'
<1> USE DEF IInv, TypeOK, FlagsOK, At, Goto, Fails, session, tty, reader, flags
<1>1. CASE SleepLock(t)
  BY <1>1, Zenon DEF SleepLock, gps_opentty
<1>2. CASE Send(t, "sleep_write", FALSE, "sleep_sent", "sleep_failed")
  BY <1>2, SendKeepsFlags
<1>3. CASE NoteSent(t, "sleep_sent", "sleep_failed", "sleep_started")
  BY <1>3, NoteKeepsFlags
<1>4. CASE SleepStarted(t)
  BY <1>4, Zenon DEF SleepStarted
<1>5. CASE SleepUnlock(t)
  BY <1>5, Zenon DEF SleepUnlock
<1>6. CASE SleepClose(t)
  BY <1>6, Zenon DEF SleepClose, gps_closetty
<1>7. CASE Open(t, "sleep_open", "sleep_write")
  BY <1>7, OpenKeepsFlags
<1> QED
  BY <1>1, <1>2, <1>3, <1>4, <1>5, <1>6, <1>7 DEF Sleep

LEMMA WakeupKeepsFlags ==
  ASSUME IInv, NEW t \in {"ctrl", "nmea"}, Wakeup(t)
  PROVE  FlagsOK'
<1> USE DEF IInv, TypeOK, FlagsOK, At, Goto, Fails, session, tty, reader, flags
<1>1. CASE WakeupCheck(t)
  BY <1>1, Zenon DEF WakeupCheck, AfterWakeup
<1>2. CASE WakeupLock(t)
  BY <1>2, Zenon DEF WakeupLock, gps_opentty
<1>3. CASE WakeupTime(t)
  BY <1>3, Zenon DEF WakeupTime
<1>4. CASE Send(t, "wake_write", TRUE, "wake_sent", "wake_failed")
  BY <1>4, SendKeepsFlags
<1>5. CASE NoteSent(t, "wake_sent", "wake_failed", "wake_unlock")
  BY <1>5, NoteKeepsFlags
<1>6. CASE WakeupUnlock(t)
  BY <1>6, Zenon DEF WakeupUnlock, AfterWakeup
<1>7. CASE Open(t, "wake_open", "wake_time")
  BY <1>7, OpenKeepsFlags
<1> QED
  BY <1>1, <1>2, <1>3, <1>4, <1>5, <1>6, <1>7 DEF Wakeup

LEMMA ApiKeepsFlags ==
  ASSUME IInv, ApiCalls \/ ApiSteps
  PROVE  FlagsOK'
<1> USE DEF IInv, TypeOK, FlagsOK, At, Goto, Fails, session, tty, reader, flags
<1>1. CASE CallInit
  BY <1>1, Zenon DEF CallInit, Call
<1>2. ASSUME NEW c \in {"START", "STOP"}, CallStartStop(c)
      PROVE  FlagsOK'
  BY <1>2, Zenon DEF CallStartStop, Call
<1>3. CASE CallCleanup
  BY <1>3, Zenon DEF CallCleanup, Call
<1>4. CASE StateInit
  BY <1>4, Zenon DEF StateInit
<1>5. CASE NoteCommand
  BY <1>5, Zenon DEF NoteCommand
<1>6. CASE SendToThread
  BY <1>6, Zenon DEF SendToThread
<1>7. CASE ReportStatus
  BY <1>7, Zenon DEF ReportStatus
<1>8. CASE SendQuit
  BY <1>8, Zenon DEF SendQuit
<1>9. CASE StateDone
  BY <1>9, Zenon DEF StateDone
<1>10. CASE Sleep("api")
  BY <1>10, SleepKeepsFlags
<1> QED
  BY <1>1, <1>2, <1>3, <1>4, <1>5, <1>6, <1>7, <1>8, <1>9, <1>10 DEF
     ApiCalls, ApiSteps

LEMMA CtrlKeepsFlags ==
  ASSUME IInv, CtrlSteps
  PROVE  FlagsOK'
<1> USE DEF IInv, TypeOK, FlagsOK, At, Goto, Fails, session, tty, reader, flags
<1>1. CASE Create("tmr", "create_tmr", "create_nmea")
  BY <1>1, Zenon DEF Create
<1>2. CASE Create("nmea", "create_nmea", "ready")
  BY <1>2, Zenon DEF Create
<1>3. CASE Ready
  BY <1>3, Zenon DEF Ready
<1>4. CASE ReceiveStart
  BY <1>4, Zenon DEF ReceiveStart, Receive
<1>5. CASE EnterStart
  BY <1>5, Zenon DEF EnterStart
<1>6. CASE ReceiveStop
  BY <1>6, Zenon DEF ReceiveStop, Receive
<1>7. CASE ReceiveQuit
  BY <1>7, Zenon DEF ReceiveQuit, Receive
<1>8. CASE TellThreads
  BY <1>8, Zenon DEF TellThreads
<1>9. CASE Join("tmr", "join_tmr", "join_nmea")
  BY <1>9, Zenon DEF Join
<1>10. CASE Join("nmea", "join_nmea", "dead")
  BY <1>10, Zenon DEF Join
<1>11. CASE Wakeup("ctrl")
  BY <1>11, WakeupKeepsFlags
<1> QED
  BY <1>1, <1>2, <1>3, <1>4, <1>5, <1>6, <1>7, <1>8, <1>9, <1>10, <1>11 DEF
     CtrlSteps

LEMMA NmeaKeepsFlags ==
  ASSUME IInv, NmeaSteps
  PROVE  FlagsOK'
<1> USE DEF IInv, TypeOK, FlagsOK, At, Goto, Fails, session, tty, reader, flags
<1>1. CASE NmeaBegin
  BY <1>1, Zenon DEF NmeaBegin
<1>2. CASE NmeaWait
  BY <1>2, Zenon DEF NmeaWait
<1>3. CASE NmeaCheckFd
  BY <1>3, Zenon DEF NmeaCheckFd
<1>4. CASE NmeaOpen
  BY <1>4, Zenon DEF NmeaOpen, gps_opentty
<1>5. CASE NmeaCheckOrion
  BY <1>5, Zenon DEF NmeaCheckOrion
<1>6. CASE NmeaRetry
  BY <1>6, Zenon DEF NmeaRetry
<1>7. CASE NmeaReinit
  BY <1>7, Zenon DEF NmeaReinit
<1>8. CASE NmeaSelect
  BY <1>8, Zenon DEF NmeaSelect
<1>9. CASE NmeaRead
  BY <1>9, Zenon DEF NmeaRead
<1>10. ASSUME NEW s \in Sentences, NmeaParse(s)
      PROVE  FlagsOK'
  BY <1>10, Zenon DEF NmeaParse
<1>11. CASE NmeaError
  BY <1>11, Zenon DEF NmeaError, gps_closetty
<1>12. CASE NmeaShutdown
  BY <1>12, Zenon DEF NmeaShutdown
<1>13. CASE Wakeup("nmea")
  BY <1>13, WakeupKeepsFlags
<1>14. CASE Open("nmea", "opening", "begin")
  BY <1>14, OpenKeepsFlags
<1> QED
  BY <1>1, <1>2, <1>3, <1>4, <1>5, <1>6, <1>7, <1>8, <1>9, <1>10, <1>11,
     <1>12, <1>13, <1>14 DEF NmeaSteps

LEMMA TmrKeepsFlags ==
  ASSUME IInv, TmrSteps
  PROVE  FlagsOK'
<1> USE DEF IInv, TypeOK, FlagsOK, At, Goto, Fails, session, tty, reader, flags
<1>1. CASE TmrBegin
  BY <1>1, Zenon DEF TmrBegin
<1>2. CASE TmrDeliver
  BY <1>2, Zenon DEF TmrDeliver
<1>3. CASE TmrCheck
  BY <1>3, Zenon DEF TmrCheck
<1>4. CASE TmrSettle
  BY <1>4, Zenon DEF TmrSettle
<1>5. CASE TmrSettled
  BY <1>5, Zenon DEF TmrSettled
<1>6. CASE TmrRecheck
  BY <1>6, Zenon DEF TmrRecheck
<1>7. CASE TmrLoop
  BY <1>7, Zenon DEF TmrLoop
<1>8. CASE Sleep("tmr")
  BY <1>8, SleepKeepsFlags
<1> QED
  BY <1>1, <1>2, <1>3, <1>4, <1>5, <1>6, <1>7, <1>8 DEF TmrSteps

-------------------------------------------------------------------------------
(* The rest of the invariant. *)

Rest == PcOK /\ DataOK /\ CommandsExclusive /\ OutsideSession /\ Lifetimes /\ Locals

LEMMA SleepKeepsRest ==
  ASSUME IInv, NEW t \in {"api", "tmr"}, Sleep(t)
  PROVE  Rest'
<1> USE DEF IInv, TypeOK, Rest, PcOK, DataOK, CommandsExclusive, InCommand,
            OutsideSession, Lifetimes, Locals, CtrlWithTmr, CtrlWithNmea, Alive,
            Threads, Callbacks, At, Goto, Fails, session, tty, reader, flags,
            ApiLabels, CtrlLabels, NmeaLabels, TmrLabels, SleepLabels, WakeLabels
<1>1. CASE SleepLock(t)
  BY <1>1 DEF SleepLock, gps_opentty
<1>2. CASE Send(t, "sleep_write", FALSE, "sleep_sent", "sleep_failed")
  BY <1>2 DEF Send
<1>3. CASE NoteSent(t, "sleep_sent", "sleep_failed", "sleep_started")
  BY <1>3 DEF NoteSent
<1>4. CASE SleepStarted(t)
  BY <1>4 DEF SleepStarted
<1>5. CASE SleepUnlock(t)
  BY <1>5 DEF SleepUnlock
<1>6. CASE SleepClose(t)
  BY <1>6 DEF SleepClose, gps_closetty
<1>7. CASE Open(t, "sleep_open", "sleep_write")
  BY <1>7 DEF Open, OpenReturns
<1> QED
  BY <1>1, <1>2, <1>3, <1>4, <1>5, <1>6, <1>7 DEF Sleep

LEMMA WakeupKeepsRest ==
  ASSUME IInv, NEW t \in {"ctrl", "nmea"}, Wakeup(t)
  PROVE  Rest'
<1> USE DEF IInv, TypeOK, Rest, PcOK, DataOK, CommandsExclusive, InCommand,
            OutsideSession, Lifetimes, Locals, CtrlWithTmr, CtrlWithNmea, Alive,
            Threads, Callbacks, At, Goto, Fails, session, tty, reader, flags,
            ApiLabels, CtrlLabels, NmeaLabels, TmrLabels, SleepLabels, WakeLabels
<1>1. CASE WakeupCheck(t)
  BY <1>1 DEF WakeupCheck, AfterWakeup
<1>2. CASE WakeupLock(t)
  BY <1>2 DEF WakeupLock, gps_opentty
<1>3. CASE WakeupTime(t)
  BY <1>3 DEF WakeupTime
<1>4. CASE Send(t, "wake_write", TRUE, "wake_sent", "wake_failed")
  BY <1>4 DEF Send
<1>5. CASE NoteSent(t, "wake_sent", "wake_failed", "wake_unlock")
  BY <1>5 DEF NoteSent
<1>6. CASE WakeupUnlock(t)
  BY <1>6 DEF WakeupUnlock, AfterWakeup
<1>7. CASE Open(t, "wake_open", "wake_time")
  BY <1>7 DEF Open, OpenReturns
<1> QED
  BY <1>1, <1>2, <1>3, <1>4, <1>5, <1>6, <1>7 DEF Wakeup

LEMMA ApiKeepsRest ==
  ASSUME IInv, ApiCalls \/ ApiSteps
  PROVE  Rest'
<1> USE DEF IInv, TypeOK, Rest, PcOK, DataOK, CommandsExclusive, InCommand,
            OutsideSession, Lifetimes, Locals, CtrlWithTmr, CtrlWithNmea, Alive,
            Threads, Callbacks, At, Goto, Fails, session, tty, reader, flags,
            ApiLabels, CtrlLabels, NmeaLabels, TmrLabels, SleepLabels, WakeLabels
<1>1. CASE CallInit
  BY <1>1 DEF CallInit, Call
<1>2. ASSUME NEW c \in {"START", "STOP"}, CallStartStop(c)
      PROVE  Rest'
  BY <1>2 DEF CallStartStop, Call
<1>3. CASE CallCleanup
  BY <1>3 DEF CallCleanup, Call
<1>4. CASE StateInit
  BY <1>4 DEF StateInit
<1>5. CASE NoteCommand
  BY <1>5 DEF NoteCommand
<1>6. CASE SendToThread
  BY <1>6 DEF SendToThread
<1>7. CASE ReportStatus
  BY <1>7 DEF ReportStatus
<1>8. CASE SendQuit
  BY <1>8 DEF SendQuit
<1>9. CASE StateDone
  BY <1>9 DEF StateDone
<1>10. CASE Sleep("api")
  BY <1>10, SleepKeepsRest
<1> QED
  BY <1>1, <1>2, <1>3, <1>4, <1>5, <1>6, <1>7, <1>8, <1>9, <1>10 DEF
     ApiCalls, ApiSteps

LEMMA CtrlKeepsRest ==
  ASSUME IInv, CtrlSteps
  PROVE  Rest'
<1> USE DEF IInv, TypeOK, Rest, PcOK, DataOK, CommandsExclusive, InCommand,
            OutsideSession, Lifetimes, Locals, CtrlWithTmr, CtrlWithNmea, Alive,
            Threads, Callbacks, At, Goto, Fails, session, tty, reader, flags,
            ApiLabels, CtrlLabels, NmeaLabels, TmrLabels, SleepLabels, WakeLabels
<1>1. CASE Create("tmr", "create_tmr", "create_nmea")
  BY <1>1 DEF Create
<1>2. CASE Create("nmea", "create_nmea", "ready")
  BY <1>2 DEF Create
<1>3. CASE Ready
  BY <1>3 DEF Ready
<1>4. CASE ReceiveStart
  BY <1>4 DEF ReceiveStart, Receive
<1>5. CASE EnterStart
  BY <1>5 DEF EnterStart
<1>6. CASE ReceiveStop
  BY <1>6 DEF ReceiveStop, Receive
<1>7. CASE ReceiveQuit
  BY <1>7 DEF ReceiveQuit, Receive
<1>8. CASE TellThreads
  BY <1>8 DEF TellThreads
<1>9. CASE Join("tmr", "join_tmr", "join_nmea")
  BY <1>9 DEF Join
<1>10. CASE Join("nmea", "join_nmea", "dead")
  BY <1>10 DEF Join
<1>11. CASE Wakeup("ctrl")
  BY <1>11, WakeupKeepsRest
<1> QED
  BY <1>1, <1>2, <1>3, <1>4, <1>5, <1>6, <1>7, <1>8, <1>9, <1>10, <1>11 DEF
     CtrlSteps

LEMMA NmeaKeepsRest ==
  ASSUME IInv, NmeaSteps
  PROVE  Rest'
<1> USE DEF IInv, TypeOK, Rest, PcOK, DataOK, CommandsExclusive, InCommand,
            OutsideSession, Lifetimes, Locals, CtrlWithTmr, CtrlWithNmea, Alive,
            Threads, Callbacks, At, Goto, Fails, session, tty, reader, flags,
            ApiLabels, CtrlLabels, NmeaLabels, TmrLabels, SleepLabels, WakeLabels
<1>1. CASE NmeaBegin
  BY <1>1 DEF NmeaBegin
<1>2. CASE NmeaWait
  BY <1>2 DEF NmeaWait
<1>3. CASE NmeaCheckFd
  BY <1>3 DEF NmeaCheckFd
<1>4. CASE NmeaOpen
  BY <1>4 DEF NmeaOpen, gps_opentty
<1>5. CASE NmeaCheckOrion
  BY <1>5 DEF NmeaCheckOrion
<1>6. CASE NmeaRetry
  BY <1>6 DEF NmeaRetry
<1>7. CASE NmeaReinit
  BY <1>7 DEF NmeaReinit
<1>8. CASE NmeaSelect
  BY <1>8 DEF NmeaSelect
<1>9. CASE NmeaRead
  BY <1>9 DEF NmeaRead
<1>10. ASSUME NEW s \in Sentences, NmeaParse(s)
      PROVE  Rest'
  BY <1>10 DEF NmeaParse
<1>11. CASE NmeaError
  BY <1>11 DEF NmeaError, gps_closetty
<1>12. CASE NmeaShutdown
  BY <1>12 DEF NmeaShutdown
<1>13. CASE Wakeup("nmea")
  BY <1>13, WakeupKeepsRest
<1>14. CASE Open("nmea", "opening", "begin")
  BY <1>14 DEF Open, OpenReturns
<1> QED
  BY <1>1, <1>2, <1>3, <1>4, <1>5, <1>6, <1>7, <1>8, <1>9, <1>10, <1>11,
     <1>12, <1>13, <1>14 DEF NmeaSteps

LEMMA TmrKeepsRest ==
  ASSUME IInv, TmrSteps
  PROVE  Rest'
<1> USE DEF IInv, TypeOK, Rest, PcOK, DataOK, CommandsExclusive, InCommand,
            OutsideSession, Lifetimes, Locals, CtrlWithTmr, CtrlWithNmea, Alive,
            Threads, Callbacks, At, Goto, Fails, session, tty, reader, flags,
            ApiLabels, CtrlLabels, NmeaLabels, TmrLabels, SleepLabels, WakeLabels
<1>1. CASE TmrBegin
  BY <1>1 DEF TmrBegin
<1>2. CASE TmrDeliver
  BY <1>2 DEF TmrDeliver
<1>3. CASE TmrCheck
  BY <1>3 DEF TmrCheck
<1>4. CASE TmrSettle
  BY <1>4 DEF TmrSettle
<1>5. CASE TmrSettled
  BY <1>5 DEF TmrSettled
<1>6. CASE TmrRecheck
  BY <1>6 DEF TmrRecheck
<1>7. CASE TmrLoop
  BY <1>7 DEF TmrLoop
<1>8. CASE Sleep("tmr")
  BY <1>8, SleepKeepsRest
<1> QED
  BY <1>1, <1>2, <1>3, <1>4, <1>5, <1>6, <1>7, <1>8 DEF TmrSteps

-------------------------------------------------------------------------------
(* Types, exclusion and lifetimes, in every reachable state. *)
THEOREM SessionInvariant == Spec => []IInv
<1>1. Init => IInv
  <2> SUFFICES ASSUME Init PROVE FlagsOK /\ Rest
    BY DEF IInv, TypeOK, Rest
  <2>1. FlagsOK
    BY DEF Init, FlagsOK
  <2>2. Rest
    BY DEF Init, Rest, PcOK, DataOK, CommandsExclusive, InCommand, OutsideSession,
           Lifetimes, Locals, Alive, Threads, Callbacks,
           ApiLabels, CtrlLabels, NmeaLabels, TmrLabels, SleepLabels, WakeLabels
  <2> QED
    BY <2>1, <2>2
<1>2. IInv /\ [Next]_vars => IInv'
  <2> SUFFICES ASSUME IInv, [Next]_vars PROVE FlagsOK' /\ Rest'
    BY DEF IInv, TypeOK, Rest
  <2>1. CASE UNCHANGED vars
    BY <2>1 DEF vars, session, tty, reader, flags, IInv, TypeOK, PcOK, DataOK, FlagsOK,
                Rest, CommandsExclusive, OutsideSession, Lifetimes, Locals, Alive
  <2>2. CASE ApiCalls \/ ApiSteps
    BY <2>2, ApiKeepsFlags, ApiKeepsRest
  <2>3. CASE CtrlSteps
    BY <2>3, CtrlKeepsFlags, CtrlKeepsRest
  <2>4. CASE NmeaSteps
    BY <2>4, NmeaKeepsFlags, NmeaKeepsRest
  <2>5. CASE TmrSteps
    BY <2>5, TmrKeepsFlags, TmrKeepsRest
  <2> QED
    BY <2>1, <2>2, <2>3, <2>4, <2>5 DEF Next
<1> QED
  BY <1>1, <1>2, PTL DEF Spec

THEOREM CommandExclusion == Spec => []CommandsExclusive
<1>1. IInv => CommandsExclusive
  BY DEF IInv
<1> QED
  BY <1>1, SessionInvariant, PTL

(* A thread of the HAL is alive only while the GpsState it uses is. *)
THEOREM ThreadsOutlived == Spec => []ThreadsWithinSession
<1>1. IInv => ThreadsWithinSession
  BY DEF IInv, OutsideSession, Lifetimes, CtrlWithTmr, CtrlWithNmea, Threads, Alive,
         ThreadsWithinSession
<1> QED
  BY <1>1, SessionInvariant, PTL

-------------------------------------------------------------------------------
(* The refinement.  Every step of a HAL thread is a callback of an open session *)
(* or nothing the framework sees; so is every step of a call, but for           *)
(* gps_state_init and gps_state_done.                                           *)
InSession == init # "QUIT" /\ init' # "QUIT" /\ (last' = last \/ last' \in Callbacks)

LEMMA CtrlInSession ==
  ASSUME IInv, CtrlSteps
  PROVE  InSession
<1>1. pc["ctrl"] # "dead"
  BY DEF CtrlSteps, Create, Ready, Receive, ReceiveStart, EnterStart, ReceiveStop,
         ReceiveQuit, TellThreads, Join, Wakeup, WakeupCheck, WakeupLock, Open, WakeupTime,
         Send, NoteSent, WakeupUnlock, At
<1>2. init # "QUIT"
  BY <1>1 DEF IInv, Lifetimes, Alive
<1>3. init' # "QUIT" /\ last' = last
  BY <1>2 DEF CtrlSteps, Create, Ready, Receive, ReceiveStart, EnterStart, ReceiveStop,
         ReceiveQuit, TellThreads, Join, Wakeup, WakeupCheck, WakeupLock, Open, WakeupTime,
         Send, NoteSent, WakeupUnlock, session
<1> QED
  BY <1>2, <1>3 DEF InSession

LEMMA NmeaInSession ==
  ASSUME IInv, NmeaSteps
  PROVE  InSession
<1> USE DEF NmeaSteps, NmeaBegin, NmeaWait, NmeaCheckFd, NmeaOpen, NmeaCheckOrion,
            NmeaRetry, NmeaReinit, NmeaSelect, NmeaRead, NmeaParse, NmeaError,
            NmeaShutdown, Wakeup, WakeupCheck, WakeupLock, Open, WakeupTime, Send,
            NoteSent, WakeupUnlock
<1>1. pc["nmea"] # "dead"
  BY DEF At
<1>2. init # "QUIT"
  BY <1>1 DEF IInv, Lifetimes, CtrlWithNmea, Alive
<1>3. init' = init /\ (last' = last \/ last' \in Callbacks)
  BY DEF session, Callbacks
<1> QED
  BY <1>2, <1>3 DEF InSession

LEMMA TmrInSession ==
  ASSUME IInv, TmrSteps
  PROVE  InSession
<1> USE DEF TmrSteps, TmrBegin, TmrDeliver, TmrCheck, TmrSettle, TmrSettled, TmrRecheck,
            TmrLoop, Sleep, SleepLock, Open, Send, NoteSent, SleepStarted, SleepUnlock,
            SleepClose
<1>1. pc["tmr"] # "dead"
  BY DEF At
<1>2. init # "QUIT"
  BY <1>1 DEF IInv, Lifetimes, CtrlWithTmr, Alive
<1>3. init' = init /\ (last' = last \/ last' \in Callbacks)
  BY DEF session, Callbacks
<1> QED
  BY <1>2, <1>3 DEF InSession

LEMMA ApiInSession ==
  ASSUME IInv, ApiCalls \/ ApiSteps, ~StateInit, ~StateDone
  PROVE  InSession \/ (init' = init /\ last' = last)
<1> USE DEF ApiCalls, ApiSteps, session
<1>1. CASE CallInit
  BY <1>1 DEF CallInit
<1>2. ASSUME NEW c \in {"START", "STOP"}, CallStartStop(c)
      PROVE  init' = init /\ last' = last
  BY <1>2 DEF CallStartStop
<1>3. CASE CallCleanup
  BY <1>3 DEF CallCleanup
<1>4. CASE NoteCommand \/ SendToThread \/ SendQuit
  BY <1>4 DEF NoteCommand, SendToThread, SendQuit
<1>5. CASE ReportStatus
  <2>1. init # "QUIT"
    BY <1>5 DEF ReportStatus, At, IInv, OutsideSession
  <2> QED
    BY <1>5, <2>1 DEF ReportStatus, InSession, Callbacks
<1>6. CASE Sleep("api")
  BY <1>6 DEF Sleep, SleepLock, Open, Send, NoteSent, SleepStarted, SleepUnlock,
               SleepClose
<1> QED
  BY <1>1, <1>2, <1>3, <1>4, <1>5, <1>6

(* Callbacks fall within a session, for every order of calls, threads, faults. *)
THEOREM CallbacksWithinSession == Spec => SessionRefinement
<1>1. Init => Session!Init
  BY DEF Init, Session!Init, Session!None
<1>2. IInv /\ [Next]_vars => [Session!Next]_(Session!vars)
  <2> SUFFICES ASSUME IInv, [Next]_vars
               PROVE  Session!Next \/ UNCHANGED Session!vars
    OBVIOUS
  <2>1. CASE UNCHANGED vars
    BY <2>1 DEF vars, session, Session!vars
  <2>2. ASSUME InSession PROVE Session!Next \/ UNCHANGED Session!vars
    BY <2>2 DEF InSession, Session!Next, Session!Deliver, Session!vars
  <2>3. CASE StateInit
    <3>1. init = "QUIT"
      BY <2>3 DEF StateInit, At, IInv, OutsideSession
    <3>2. init' = "INIT" /\ last' = last
      BY <2>3 DEF StateInit
    <3> QED
      BY <3>1, <3>2 DEF Session!Next, Session!Open
  <2>4. CASE StateDone
    <3>1. init # "QUIT"
      BY <2>4 DEF StateDone, At, IInv, OutsideSession
    <3>2. init' = "QUIT" /\ last' = "none"
      BY <2>4 DEF StateDone
    <3> QED
      BY <3>1, <3>2 DEF Session!Next, Session!Close, Session!None
  <2>5. CASE (ApiCalls \/ ApiSteps) /\ ~StateInit /\ ~StateDone
    BY <2>2, <2>5, ApiInSession DEF Session!vars
  <2>6. CASE CtrlSteps \/ NmeaSteps \/ TmrSteps
    BY <2>2, <2>6, CtrlInSession, NmeaInSession, TmrInSession
  <2> QED
    BY <2>1, <2>3, <2>4, <2>5, <2>6 DEF Next
<1> QED
  BY <1>1, <1>2, SessionInvariant, PTL DEF Spec, SessionRefinement, Session!Spec
===============================================================================
