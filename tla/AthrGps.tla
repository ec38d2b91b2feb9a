-------------------------------- MODULE AthrGps -------------------------------
(* The Atheros GPS HAL, testcode/android/libgps/athr_gps.c.  Four threads share *)
(* one GpsState and seven globals:                                             *)
(*   api   the framework's thread: init, start, stop, cleanup, one at a time   *)
(*   ctrl  gps_state_thread: reads commands from a socket pair                 *)
(*   nmea  gps_nmea_thread: reads sentences from the tty, restarts a dead chip *)
(*   tmr   gps_timer_thread: delivers fixes, puts the chip to sleep after STOP *)
(* fix_sem guards some of what they share and not the rest: started, init,     *)
(* sleep_lock, bOrionShutdown and fd are also read and written outside it, and *)
(* every such access is a step of its own here.  A section that holds fix_sem  *)
(* for a single access of shared state is one step, enabled while it is free.  *)
EXTENDS Integers, Sequences

CONSTANTS MaxCalls,    \* how many calls the framework makes
          MaxFaults,   \* how many system calls fail
          MaxEvents,   \* how many of both together
          FaultKinds,  \* which: "create", "open", "write", "read"
          GapLimit     \* polls of the settle loop before it gives up (100)

ASSUME BoundsAssumption ==
  /\ MaxCalls \in Nat /\ MaxFaults \in Nat /\ MaxEvents \in Nat /\ GapLimit \in Nat
  /\ FaultKinds \subseteq {"create", "open", "write", "read"}

VARIABLES
  pc,               \* where each thread is; "dead" before it starts and after
  acmd,             \* the call the api thread is in
  init,             \* GpsState: STATE_QUIT, STATE_INIT, STATE_START
  fd,               \* GpsState: the tty is open, as far as the HAL knows
  openTty,          \* descriptors of the tty the kernel holds for the process
  control,          \* GpsState: commands in the socket pair
  fix_sem,          \* GpsState: "destroyed", "free" or the thread holding it
  first_fix, fixReady, svReady,   \* GpsState: first_fix, reader.fix.flags has
                                  \* LAT_LONG, reader.sv_status_changed
  sleep_lock,       \* non-zero: the chip was told to wake up
  lastcmd, bGetFormalNMEA, started, continue_thread, bOrionShutdown,
  g_gpscallback,    \* the framework's callbacks are remembered
  gap,              \* the timer's counter in the settle loop
  awake,            \* the chip: obeyed WAKEUP last, not SLEEP
  last,             \* the callback delivered last since init
  calls, faults     \* bounds

session == <<init, control, first_fix, g_gpscallback>>
tty     == <<fd, openTty, awake>>
reader  == <<fixReady, svReady>>
flags   == <<sleep_lock, bGetFormalNMEA, started, bOrionShutdown>>
vars == <<pc, acmd, session, tty, fix_sem, reader, flags, lastcmd,
          continue_thread, gap, last, calls, faults>>

Threads   == {"api", "ctrl", "nmea", "tmr"}
Callbacks == {"BEGIN", "END", "LOCATION", "SV", "NMEA"}

At(t, l)   == pc[t] = l
Goto(t, l) == pc' = [pc EXCEPT ![t] = l]

(* A system call of this kind fails. *)
Fails(kind) ==
  /\ kind \in FaultKinds /\ faults < MaxFaults /\ calls + faults < MaxEvents
  /\ faults' = faults + 1

Init ==
  /\ pc = [t \in Threads |-> IF t = "api" THEN "idle" ELSE "dead"]
  /\ acmd = "INIT"
  /\ init = "QUIT" /\ fd = FALSE /\ openTty = 0 /\ control = <<>>
  /\ fix_sem = "destroyed" /\ first_fix = FALSE /\ fixReady = FALSE /\ svReady = FALSE
  /\ sleep_lock = FALSE /\ lastcmd = "NONE" /\ bGetFormalNMEA = TRUE
  /\ started = FALSE /\ continue_thread = TRUE /\ bOrionShutdown = FALSE
  /\ g_gpscallback = FALSE /\ gap = 0 /\ awake = FALSE /\ last = "none"
  /\ calls = 0 /\ faults = 0

-------------------------------------------------------------------------------
(* The tty.                                                                     *)

(* gps_opentty: nothing to do when fd is set, else fd becomes what open()       *)
(* returns, whatever another thread has stored there since it was looked at.    *)
gps_opentty(t, open, opened) == Goto(t, IF fd THEN opened ELSE open)

OpenReturns ==
  \/ /\ fd' = TRUE /\ openTty' = openTty + 1
     /\ UNCHANGED faults
  \/ /\ fd' = FALSE
     /\ Fails("open")
     /\ UNCHANGED openTty

Open(t, open, opened) ==
  /\ At(t, open)
  /\ OpenReturns
  /\ Goto(t, opened)
  /\ UNCHANGED <<acmd, session, awake, fix_sem, reader, flags, lastcmd,
                 continue_thread, gap, last, calls>>

gps_closetty ==
  /\ fd' = FALSE
  /\ openTty' = IF fd THEN openTty - 1 ELSE openTty

(* write(state->fd, command): the chip obeys, or the write fails, as it always *)
(* does on fd -1.                                                              *)
Send(t, here, wake, sent, failed) ==
  /\ At(t, here)
  /\ \/ fd /\ awake' = wake /\ Goto(t, sent) /\ UNCHANGED faults
     \/ fd /\ Fails("write") /\ Goto(t, failed) /\ UNCHANGED awake
     \/ ~fd /\ Goto(t, failed) /\ UNCHANGED <<awake, faults>>
  /\ UNCHANGED <<acmd, session, fd, openTty, fix_sem, reader, flags, lastcmd,
                 continue_thread, gap, last, calls>>

(* Mutant: a failed write goes unnoticed. *)
NoteNoFailure(t, sent, failed, next) ==
  /\ pc[t] \in {sent, failed}
  /\ bOrionShutdown' = FALSE
  /\ Goto(t, next)
  /\ UNCHANGED <<acmd, session, tty, fix_sem, reader, sleep_lock, bGetFormalNMEA,
                 started, lastcmd, continue_thread, gap, last, calls, faults>>

(* bOrionShutdown notes what came of the write.                                 *)
NoteSent(t, sent, failed, next) ==
  /\ pc[t] \in {sent, failed}
  /\ bOrionShutdown' = At(t, failed)
  /\ Goto(t, next)
  /\ UNCHANGED <<acmd, session, tty, fix_sem, reader, sleep_lock, bGetFormalNMEA,
                 started, lastcmd, continue_thread, gap, last, calls, faults>>

(* Mutant: the tty is opened before fix_sem is taken. *)
SleepUnlocked(t) ==
  /\ At(t, "sleep_lock")
  /\ fix_sem' = t
  /\ gps_opentty(t, "sleep_open", "sleep_write")
  /\ UNCHANGED <<acmd, session, tty, reader, flags, lastcmd, continue_thread, gap,
                 last, calls, faults>>

(* gps_sleep: open if need be and write SLEEP under fix_sem, then close the tty *)
(* under fix_sem again.  Run by api (cleanup) and by tmr.                      *)
SleepLock(t) ==
  /\ At(t, "sleep_lock") /\ fix_sem = "free"
  /\ fix_sem' = t
  /\ gps_opentty(t, "sleep_open", "sleep_write")
  /\ UNCHANGED <<acmd, session, tty, reader, flags, lastcmd, continue_thread, gap,
                 last, calls, faults>>

(* Mutant: started is not reset. *)
SleepStillStarted(t) ==
  /\ At(t, "sleep_started")
  /\ Goto(t, "sleep_unlock")
  /\ UNCHANGED <<acmd, session, tty, fix_sem, reader, flags, lastcmd,
                 continue_thread, gap, last, calls, faults>>

(* started is reset, then sleep_lock: a START may be received in between.       *)
SleepStarted(t) ==
  /\ At(t, "sleep_started")
  /\ started' = FALSE
  /\ Goto(t, "sleep_unlock")
  /\ UNCHANGED <<acmd, session, tty, fix_sem, reader, sleep_lock, bGetFormalNMEA,
                 bOrionShutdown, lastcmd, continue_thread, gap, last, calls, faults>>

SleepUnlock(t) ==
  /\ At(t, "sleep_unlock")
  /\ sleep_lock' = FALSE
  /\ fix_sem' = "free"
  /\ Goto(t, "sleep_close")
  /\ UNCHANGED <<acmd, session, tty, reader, bGetFormalNMEA, started, bOrionShutdown,
                 lastcmd, continue_thread, gap, last, calls, faults>>

SleepClose(t) ==
  /\ At(t, "sleep_close") /\ fix_sem = "free"
  /\ gps_closetty
  /\ Goto(t, IF t = "api" THEN "join" ELSE "loop")
  /\ UNCHANGED <<acmd, session, awake, fix_sem, reader, flags, lastcmd,
                 continue_thread, gap, last, calls, faults>>

(* gps_wakeup: sleep_lock is tested before fix_sem is taken.  Run by ctrl when *)
(* it starts a session and by nmea when it restarts the chip.                  *)
AfterWakeup(t) == IF t = "ctrl" THEN "poll" ELSE "reinit"

WakeupCheck(t) ==
  /\ At(t, "wake_check")
  /\ Goto(t, IF sleep_lock THEN AfterWakeup(t) ELSE "wake_lock")
  /\ UNCHANGED <<acmd, session, tty, fix_sem, reader, flags, lastcmd,
                 continue_thread, gap, last, calls, faults>>

WakeupLock(t) ==
  /\ At(t, "wake_lock") /\ fix_sem = "free"
  /\ fix_sem' = t
  /\ gps_opentty(t, "wake_open", "wake_time")
  /\ UNCHANGED <<acmd, session, tty, reader, flags, lastcmd, continue_thread, gap,
                 last, calls, faults>>

(* sleep_lock = time(): nmea may read from here on, before the chip is told.    *)
WakeupTime(t) ==
  /\ At(t, "wake_time")
  /\ sleep_lock' = TRUE
  /\ Goto(t, "wake_write")
  /\ UNCHANGED <<acmd, session, tty, fix_sem, reader, bGetFormalNMEA, started,
                 bOrionShutdown, lastcmd, continue_thread, gap, last, calls, faults>>

WakeupUnlock(t) ==
  /\ At(t, "wake_unlock")
  /\ bGetFormalNMEA' = FALSE
  /\ fix_sem' = "free"
  /\ Goto(t, AfterWakeup(t))
  /\ UNCHANGED <<acmd, session, tty, reader, sleep_lock, started, bOrionShutdown,
                 lastcmd, continue_thread, gap, last, calls, faults>>

Sleep(t) ==
  \/ SleepLock(t) \/ Open(t, "sleep_open", "sleep_write")
  \/ Send(t, "sleep_write", FALSE, "sleep_sent", "sleep_failed")
  \/ NoteSent(t, "sleep_sent", "sleep_failed", "sleep_started")
  \/ SleepStarted(t) \/ SleepUnlock(t) \/ SleepClose(t)
Wakeup(t) ==
  \/ WakeupCheck(t) \/ WakeupLock(t) \/ Open(t, "wake_open", "wake_time") \/ WakeupTime(t)
  \/ Send(t, "wake_write", TRUE, "wake_sent", "wake_failed")
  \/ NoteSent(t, "wake_sent", "wake_failed", "wake_unlock")
  \/ WakeupUnlock(t)

-------------------------------------------------------------------------------
(* api: the framework's calls.                                                  *)

Call(c) ==
  /\ At("api", "idle") /\ calls < MaxCalls /\ calls + faults < MaxEvents
  /\ calls' = calls + 1
  /\ acmd' = c

(* athr_gps_init; a second init only replaces the callbacks.                    *)
CallInit ==
  /\ Call("INIT")
  /\ IF init = "QUIT"
       THEN Goto("api", "init") /\ UNCHANGED g_gpscallback
       ELSE g_gpscallback' = TRUE /\ UNCHANGED pc
  /\ UNCHANGED <<init, control, first_fix, tty, fix_sem, reader, flags, lastcmd,
                 continue_thread, gap, last, faults>>

(* Mutant: the status is reported before the state is checked. *)
ReportThenCheck(c) ==
  /\ Call(c)
  /\ last' = IF c = "START" THEN "BEGIN" ELSE "END"
  /\ IF init # "QUIT" THEN Goto("api", "command")
     ELSE IF g_gpscallback THEN Goto("api", "init") ELSE UNCHANGED pc
  /\ UNCHANGED <<session, tty, fix_sem, reader, flags, lastcmd, continue_thread,
                 gap, faults>>

(* athr_gps_start and athr_gps_stop: gps_checkstate initialises the HAL again   *)
(* when it can (after an init that failed), else the call returns -1.           *)
CallStartStop(c) ==
  /\ Call(c)
  /\ \/ /\ init # "QUIT"
        /\ Goto("api", "command")
     \/ /\ init = "QUIT" /\ g_gpscallback
        /\ Goto("api", "init")
     \/ /\ init = "QUIT" /\ ~g_gpscallback
        /\ UNCHANGED pc
  /\ UNCHANGED <<session, tty, fix_sem, reader, flags, lastcmd, continue_thread,
                 gap, last, faults>>

(* athr_gps_cleanup                                                             *)
CallCleanup ==
  /\ Call("CLEANUP")
  /\ IF init # "QUIT" THEN Goto("api", "quit") ELSE UNCHANGED pc
  /\ UNCHANGED <<session, tty, fix_sem, reader, flags, lastcmd, continue_thread,
                 gap, last, faults>>

(* gps_state_init.  fd is forgotten, not closed.  When the socket pair or the   *)
(* thread cannot be made, gps_state_done undoes it; athr_gps_init remembers the *)
(* callbacks and reports success either way.                                    *)
StateInit ==
  /\ At("api", "init")
  /\ init' = "INIT" /\ fd' = FALSE /\ first_fix' = FALSE /\ control' = <<>>
  /\ continue_thread' = TRUE
  /\ fix_sem' = "free"
  /\ \/ /\ pc' = [pc EXCEPT !["ctrl"] = "create_tmr",
                            !["api"] = IF acmd = "INIT" THEN "idle" ELSE "command"]
        /\ g_gpscallback' = TRUE
        /\ UNCHANGED faults
     \/ /\ Fails("create")
        /\ Goto("api", "quit")
        /\ UNCHANGED g_gpscallback
  /\ UNCHANGED <<acmd, openTty, awake, reader, flags, lastcmd, gap, last, calls>>

(* gps_state_start and gps_state_stop: the command is noted under fix_sem, then *)
(* written to the socket pair.                                                  *)
NoteCommand ==
  /\ At("api", "command") /\ fix_sem = "free"
  /\ lastcmd' = acmd
  /\ Goto("api", "send")
  /\ UNCHANGED <<acmd, session, tty, fix_sem, reader, flags, continue_thread, gap,
                 last, calls, faults>>

SendToThread ==
  /\ At("api", "send")
  /\ control' = Append(control, acmd)
  /\ Goto("api", "status")
  /\ UNCHANGED <<acmd, init, first_fix, g_gpscallback, tty, fix_sem, reader, flags,
                 lastcmd, continue_thread, gap, last, calls, faults>>

ReportStatus ==
  /\ At("api", "status")
  /\ last' = IF acmd = "START" THEN "BEGIN" ELSE "END"
  /\ Goto("api", "idle")
  /\ UNCHANGED <<acmd, session, tty, fix_sem, reader, flags, lastcmd,
                 continue_thread, gap, calls, faults>>

(* gps_state_done: QUIT to the thread, gps_sleep, join, and the GpsState is     *)
(* zeroed, fd with it.                                                          *)
SendQuit ==
  /\ At("api", "quit")
  /\ control' = Append(control, "QUIT")
  /\ Goto("api", "sleep_lock")
  /\ UNCHANGED <<acmd, init, first_fix, g_gpscallback, tty, fix_sem, reader, flags,
                 lastcmd, continue_thread, gap, last, calls, faults>>

(* Mutant: the thread is not joined. *)
DoneUnjoined ==
  /\ At("api", "join")
  /\ init' = "QUIT" /\ control' = <<>> /\ fix_sem' = "destroyed"
  /\ g_gpscallback' = (acmd # "CLEANUP")
  /\ fd' = FALSE /\ first_fix' = FALSE /\ fixReady' = FALSE /\ svReady' = FALSE
  /\ last' = "none"
  /\ Goto("api", "idle")
  /\ UNCHANGED <<acmd, openTty, awake, flags, lastcmd, continue_thread, gap, calls,
                 faults>>

StateDone ==
  /\ At("api", "join") /\ At("ctrl", "dead")
  /\ init' = "QUIT" /\ control' = <<>> /\ fix_sem' = "destroyed"
  /\ g_gpscallback' = (acmd # "CLEANUP")
  /\ fd' = FALSE /\ first_fix' = FALSE /\ fixReady' = FALSE /\ svReady' = FALSE
  /\ last' = "none"
  /\ Goto("api", "idle")
  /\ UNCHANGED <<acmd, openTty, awake, flags, lastcmd, continue_thread, gap, calls,
                 faults>>

ApiCalls == CallInit \/ (\E c \in {"START", "STOP"} : CallStartStop(c)) \/ CallCleanup
ApiSteps == StateInit \/ NoteCommand \/ SendToThread \/ ReportStatus \/ SendQuit
              \/ Sleep("api") \/ StateDone

-------------------------------------------------------------------------------
(* ctrl: gps_state_thread                                                       *)

(* The two threads are made; failing that, ctrl exits.                          *)
Create(t, here, next) ==
  /\ At("ctrl", here)
  /\ \/ /\ pc' = [pc EXCEPT !["ctrl"] = next, ![t] = "begin"]
        /\ UNCHANGED <<started, init, faults>>
     \/ /\ Fails("create")
        /\ started' = FALSE /\ init' = "INIT"
        /\ Goto("ctrl", "exit")
  /\ UNCHANGED <<acmd, control, first_fix, g_gpscallback, tty, fix_sem, reader,
                 sleep_lock, bGetFormalNMEA, bOrionShutdown, lastcmd,
                 continue_thread, gap, last, calls>>

Ready ==
  /\ At("ctrl", "ready")
  /\ started' = FALSE /\ init' = "INIT"
  /\ Goto("ctrl", "poll")
  /\ UNCHANGED <<acmd, control, first_fix, g_gpscallback, tty, fix_sem, reader,
                 sleep_lock, bGetFormalNMEA, bOrionShutdown, lastcmd,
                 continue_thread, gap, last, calls, faults>>

Receive(c) ==
  /\ At("ctrl", "poll") /\ control # <<>> /\ Head(control) = c
  /\ control' = Tail(control)

(* CMD_START, unless started ("LM already start").  started and init are set    *)
(* one after the other, and no lock is held.                                    *)
ReceiveStart ==
  /\ Receive("START")
  /\ IF started
       THEN UNCHANGED <<pc, started, reader>>
       ELSE /\ fixReady' = FALSE /\ svReady' = FALSE
            /\ started' = TRUE
            /\ Goto("ctrl", "set_init")
  /\ UNCHANGED <<acmd, init, first_fix, g_gpscallback, tty, fix_sem, sleep_lock,
                 bGetFormalNMEA, bOrionShutdown, lastcmd, continue_thread, gap,
                 last, calls, faults>>

EnterStart ==
  /\ At("ctrl", "set_init")
  /\ init' = "START"
  /\ Goto("ctrl", "wake_check")
  /\ UNCHANGED <<acmd, control, first_fix, g_gpscallback, tty, fix_sem, reader,
                 flags, lastcmd, continue_thread, gap, last, calls, faults>>

ReceiveStop ==
  /\ Receive("STOP")
  /\ init' = IF started THEN "INIT" ELSE init
  /\ UNCHANGED <<pc, acmd, first_fix, g_gpscallback, tty, fix_sem, reader, flags,
                 lastcmd, continue_thread, gap, last, calls, faults>>

ReceiveQuit ==
  /\ Receive("QUIT")
  /\ Goto("ctrl", "exit")
  /\ UNCHANGED <<acmd, init, first_fix, g_gpscallback, tty, fix_sem, reader, flags,
                 lastcmd, continue_thread, gap, last, calls, faults>>

(* Exit: the other two threads are told and joined, the timer first.            *)
TellThreads ==
  /\ At("ctrl", "exit")
  /\ continue_thread' = FALSE
  /\ Goto("ctrl", "join_tmr")
  /\ UNCHANGED <<acmd, session, tty, fix_sem, reader, flags, lastcmd, gap, last,
                 calls, faults>>

Join(t, here, next) ==
  /\ At("ctrl", here) /\ At(t, "dead")
  /\ Goto("ctrl", next)
  /\ UNCHANGED <<acmd, session, tty, fix_sem, reader, flags, lastcmd,
                 continue_thread, gap, last, calls, faults>>

CtrlSteps ==
  \/ Create("tmr", "create_tmr", "create_nmea")
  \/ Create("nmea", "create_nmea", "ready")
  \/ Ready
  \/ ReceiveStart \/ EnterStart \/ Wakeup("ctrl")
  \/ ReceiveStop
  \/ ReceiveQuit \/ TellThreads
  \/ Join("tmr", "join_tmr", "join_nmea")
  \/ Join("nmea", "join_nmea", "dead")

-------------------------------------------------------------------------------
(* nmea: gps_nmea_thread                                                        *)

NmeaBegin ==
  /\ At("nmea", "begin")
  /\ Goto("nmea", IF continue_thread THEN "wait" ELSE "dead")
  /\ UNCHANGED <<acmd, session, tty, fix_sem, reader, flags, lastcmd,
                 continue_thread, gap, last, calls, faults>>

(* Mutant: the wait does not look at continue_thread. *)
NmeaSleepsOn ==
  /\ At("nmea", "wait") /\ sleep_lock
  /\ Goto("nmea", "check_fd")
  /\ UNCHANGED <<acmd, session, tty, fix_sem, reader, flags, lastcmd,
                 continue_thread, gap, last, calls, faults>>

(* "don't read while sleep"; leaving the thread also ends the wait.             *)
NmeaWait ==
  /\ At("nmea", "wait") /\ (sleep_lock \/ ~continue_thread)
  /\ Goto("nmea", "check_fd")
  /\ UNCHANGED <<acmd, session, tty, fix_sem, reader, flags, lastcmd,
                 continue_thread, gap, last, calls, faults>>

NmeaCheckFd ==
  /\ At("nmea", "check_fd")
  /\ IF fd THEN Goto("nmea", "check_orion") /\ UNCHANGED last
           ELSE Goto("nmea", "open") /\ last' = "END"
  /\ UNCHANGED <<acmd, session, tty, fix_sem, reader, flags, lastcmd,
                 continue_thread, gap, calls, faults>>

(* gps_opentty without fix_sem: a thread that holds it may open the tty, or      *)
(* close it, between the check and the store.                                   *)
NmeaOpen ==
  /\ At("nmea", "open")
  /\ gps_opentty("nmea", "opening", "begin")
  /\ UNCHANGED <<acmd, session, tty, fix_sem, reader, flags, lastcmd,
                 continue_thread, gap, last, calls, faults>>

(* A dead chip of a started session is woken again after five seconds.          *)
NmeaCheckOrion ==
  /\ At("nmea", "check_orion")
  /\ IF bOrionShutdown /\ started
       THEN sleep_lock' = FALSE /\ Goto("nmea", "retry")
       ELSE UNCHANGED sleep_lock /\ Goto("nmea", "select")
  /\ UNCHANGED <<acmd, session, tty, fix_sem, reader, bGetFormalNMEA, started,
                 bOrionShutdown, lastcmd, continue_thread, gap, last, calls, faults>>

NmeaRetry ==
  /\ At("nmea", "retry")
  /\ last' = "BEGIN"
  /\ Goto("nmea", "wake_check")
  /\ UNCHANGED <<acmd, session, tty, fix_sem, reader, flags, lastcmd,
                 continue_thread, gap, calls, faults>>

(* After gps_wakeup, whatever came of it.                                       *)
NmeaReinit ==
  /\ At("nmea", "reinit")
  /\ fixReady' = FALSE /\ svReady' = FALSE
  /\ bOrionShutdown' = FALSE
  /\ Goto("nmea", "select")
  /\ UNCHANGED <<acmd, session, tty, fix_sem, sleep_lock, bGetFormalNMEA, started,
                 lastcmd, continue_thread, gap, last, calls, faults>>

(* select(): nothing within the timeout, or something to read.  With fd -1 the  *)
(* FD_ macros touch memory outside the set: either may come out.                *)
NmeaSelect ==
  /\ At("nmea", "select")
  /\ \/ ~continue_thread /\ Goto("nmea", "dead")
     \/ continue_thread /\ Goto("nmea", "begin")
     \/ continue_thread /\ Goto("nmea", "read")
  /\ UNCHANGED <<acmd, session, tty, fix_sem, reader, flags, lastcmd,
                 continue_thread, gap, last, calls, faults>>

NmeaRead ==
  /\ At("nmea", "read")
  /\ \/ fd /\ Goto("nmea", "parse") /\ UNCHANGED faults
     \/ fd /\ Fails("read") /\ Goto("nmea", "error")
     \/ ~fd /\ Goto("nmea", "error") /\ UNCHANGED faults
  /\ UNCHANGED <<acmd, session, tty, fix_sem, reader, flags, lastcmd,
                 continue_thread, gap, last, calls>>

(* A sentence, by what nmea_reader_parse does with it: it is from the GPG       *)
(* family, carries a position, begins or completes the list of satellites.      *)
Sentences == {{"formal", "position"}, {"position"}, {"formal", "begins"},
              {"formal", "completes"}, {}}

(* nmea_reader_addc of a sentence's last character: parsed under fix_sem and    *)
(* handed to the framework.  A first position is reported at once, in           *)
(* STATE_INIT only.                                                             *)
NmeaParse(s) ==
  LET ready == fixReady \/ "position" \in s
      first == ready /\ ~first_fix /\ init = "INIT"
  IN
  /\ At("nmea", "parse") /\ fix_sem = "free"
  /\ bGetFormalNMEA' = (bGetFormalNMEA \/ "formal" \in s)
  /\ svReady' = ("completes" \in s \/ (svReady /\ "begins" \notin s))
  /\ fixReady' = (ready /\ ~first)
  /\ first_fix' = (first_fix \/ first)
  /\ last' = IF first THEN "LOCATION" ELSE "NMEA"
  /\ Goto("nmea", "begin")
  /\ UNCHANGED <<acmd, init, control, g_gpscallback, tty, fix_sem, sleep_lock,
                 started, bOrionShutdown, lastcmd, continue_thread, gap, calls,
                 faults>>

(* A failed read: the tty is closed without fix_sem, and seconds later          *)
(* bOrionShutdown is set for the loop to find.                                  *)
NmeaError ==
  /\ At("nmea", "error")
  /\ gps_closetty
  /\ last' = "END"
  /\ Goto("nmea", "shutdown")
  /\ UNCHANGED <<acmd, session, awake, fix_sem, reader, flags, lastcmd,
                 continue_thread, gap, calls, faults>>

NmeaShutdown ==
  /\ At("nmea", "shutdown")
  /\ bOrionShutdown' = TRUE
  /\ Goto("nmea", "begin")
  /\ UNCHANGED <<acmd, session, tty, fix_sem, reader, sleep_lock, bGetFormalNMEA,
                 started, lastcmd, continue_thread, gap, last, calls, faults>>

NmeaSteps ==
  \/ NmeaBegin \/ NmeaWait \/ NmeaCheckFd \/ NmeaOpen
  \/ Open("nmea", "opening", "begin")
  \/ NmeaCheckOrion \/ NmeaRetry \/ Wakeup("nmea") \/ NmeaReinit
  \/ NmeaSelect \/ NmeaRead \/ (\E s \in Sentences : NmeaParse(s))
  \/ NmeaError \/ NmeaShutdown

-------------------------------------------------------------------------------
(* tmr: gps_timer_thread                                                        *)

TmrBegin ==
  /\ At("tmr", "begin") /\ (started \/ ~continue_thread)
  /\ Goto("tmr", "deliver")
  /\ UNCHANGED <<acmd, session, tty, fix_sem, reader, flags, lastcmd,
                 continue_thread, gap, last, calls, faults>>

(* Under fix_sem: a waiting position, then a waiting list of satellites.        *)
TmrDeliver ==
  /\ At("tmr", "deliver") /\ fix_sem = "free"
  /\ last' = IF svReady THEN "SV" ELSE IF fixReady THEN "LOCATION" ELSE last
  /\ fixReady' = FALSE /\ svReady' = FALSE
  /\ first_fix' = (first_fix \/ fixReady)
  /\ Goto("tmr", "check")
  /\ UNCHANGED <<acmd, init, control, g_gpscallback, tty, fix_sem, flags, lastcmd,
                 continue_thread, gap, calls, faults>>

(* The user asked to stop, ctrl has seen it, the chip is not yet asleep.        *)
StopPending == init = "INIT" /\ lastcmd = "STOP" /\ started

TmrCheck ==
  /\ At("tmr", "check")
  /\ Goto("tmr", IF StopPending THEN "settle" ELSE "loop")
  /\ gap' = 0
  /\ UNCHANGED <<acmd, session, tty, fix_sem, reader, flags, lastcmd,
                 continue_thread, last, calls, faults>>

(* "Wait for NMEA coming": one turn of the loop, which the limit also ends.     *)
Unsettled == init # "START" /\ ~bGetFormalNMEA /\ continue_thread /\ ~bOrionShutdown

TmrSettle ==
  /\ At("tmr", "settle") /\ Unsettled
  /\ gap' = gap + 1
  /\ Goto("tmr", IF gap + 1 > GapLimit THEN "recheck" ELSE "settle")
  /\ UNCHANGED <<acmd, session, tty, fix_sem, reader, flags, lastcmd,
                 continue_thread, last, calls, faults>>

TmrSettled ==
  /\ At("tmr", "settle") /\ ~Unsettled
  /\ Goto("tmr", "recheck")
  /\ UNCHANGED <<acmd, session, tty, fix_sem, reader, flags, lastcmd,
                 continue_thread, gap, last, calls, faults>>

TmrRecheck ==
  /\ At("tmr", "recheck")
  /\ bGetFormalNMEA' = (bGetFormalNMEA \/ gap >= GapLimit)
  /\ Goto("tmr", IF StopPending THEN "sleep_lock" ELSE "loop")
  /\ gap' = 0   \* gap goes out of scope
  /\ UNCHANGED <<acmd, session, tty, fix_sem, reader, sleep_lock, started,
                 bOrionShutdown, lastcmd, continue_thread, last, calls, faults>>

TmrLoop ==
  /\ At("tmr", "loop")
  /\ Goto("tmr", IF continue_thread THEN "begin" ELSE "dead")
  /\ UNCHANGED <<acmd, session, tty, fix_sem, reader, flags, lastcmd,
                 continue_thread, gap, last, calls, faults>>

TmrSteps ==
  TmrBegin \/ TmrDeliver \/ TmrCheck \/ TmrSettle \/ TmrSettled \/ TmrRecheck
    \/ Sleep("tmr") \/ TmrLoop

-------------------------------------------------------------------------------
Next == ApiCalls \/ ApiSteps \/ CtrlSteps \/ NmeaSteps \/ TmrSteps

Spec == Init /\ [][Next]_vars

(* Each thread keeps running; nobody makes the framework call.  The threads     *)
(* meet on fix_sem only for a few statements, so a waiter gets its turn.        *)
FairSpec == Spec /\ WF_vars(ApiSteps) /\ WF_vars(CtrlSteps)
                 /\ WF_vars(NmeaSteps) /\ WF_vars(TmrSteps)

-------------------------------------------------------------------------------
(* Properties *)

SleepLabels == {"sleep_open", "sleep_write", "sleep_sent", "sleep_failed",
                "sleep_started", "sleep_unlock"}
WakeLabels == {"wake_open", "wake_time", "wake_write", "wake_sent", "wake_failed",
               "wake_unlock"}
ApiLabels  == SleepLabels \union
              {"idle", "init", "command", "send", "status", "quit", "sleep_lock",
               "sleep_close", "join"}
CtrlLabels == WakeLabels \union
              {"dead", "create_tmr", "create_nmea", "ready", "poll", "set_init",
               "wake_check", "wake_lock", "exit", "join_tmr", "join_nmea"}
NmeaLabels == WakeLabels \union
              {"dead", "begin", "wait", "check_fd", "open", "opening", "check_orion",
               "retry", "wake_check", "wake_lock", "reinit", "select", "read", "parse",
               "error", "shutdown"}
TmrLabels  == SleepLabels \union
              {"dead", "begin", "deliver", "check", "settle", "recheck",
               "sleep_lock", "sleep_close", "loop"}

PcOK ==
  /\ pc \in [Threads -> ApiLabels \union CtrlLabels \union NmeaLabels \union TmrLabels]
  /\ pc["api"] \in ApiLabels /\ pc["ctrl"] \in CtrlLabels
  /\ pc["nmea"] \in NmeaLabels /\ pc["tmr"] \in TmrLabels

DataOK ==
  /\ acmd \in {"INIT", "START", "STOP", "CLEANUP"}
  /\ init \in {"QUIT", "INIT", "START"}
  /\ openTty \in Int
  /\ control \in Seq({"START", "STOP", "QUIT"})
  /\ fix_sem \in {"destroyed", "free"} \union Threads
  /\ lastcmd \in {"NONE", "START", "STOP"}
  /\ gap \in 0 .. (GapLimit + 1)
  /\ last \in Callbacks \union {"none"}
  /\ calls \in 0..MaxCalls /\ faults \in 0..MaxFaults

FlagsOK ==
  /\ fd \in BOOLEAN /\ first_fix \in BOOLEAN /\ fixReady \in BOOLEAN
  /\ svReady \in BOOLEAN /\ sleep_lock \in BOOLEAN /\ bGetFormalNMEA \in BOOLEAN
  /\ started \in BOOLEAN /\ continue_thread \in BOOLEAN
  /\ bOrionShutdown \in BOOLEAN /\ g_gpscallback \in BOOLEAN /\ awake \in BOOLEAN

TypeOK == PcOK /\ DataOK /\ FlagsOK

(* WAKEUP and SLEEP are written by three threads.  fix_sem is held by exactly   *)
(* the thread that is between opening the tty and noting what came of its       *)
(* command, so two commands never overlap and a command never meets the locked  *)
(* close of another thread (gps_wakeup, gps_sleep, athr_gps.c:1027-1097).       *)
InCommand == SleepLabels \union WakeLabels
CommandsExclusive ==
  \A t \in Threads : pc[t] \in InCommand <=> fix_sem = t

(* gps_state_done destroys fix_sem, closes the socket pair and zeroes the       *)
(* GpsState (athr_gps.c:984-994): by then every thread that uses them has been  *)
(* joined, ctrl by the caller and the other two by ctrl, even when one of them  *)
(* could not be created.                                                        *)
Alive(t) == pc[t] # "dead"
ThreadsWithinSession ==
  (\E t \in Threads \ {"api"} : Alive(t)) =>
    /\ init # "QUIT"
    /\ fix_sem # "destroyed"
    /\ Alive("ctrl")

(* What makes the above inductive.  Outside a session fix_sem is destroyed,     *)
(* nothing has been delivered and the framework is not inside a call; inside    *)
(* one, tmr and nmea live only while ctrl is between creating and joining them. *)
OutsideSession ==
  /\ init = "QUIT" <=> fix_sem = "destroyed"
  /\ init = "QUIT" => pc["api"] \in {"idle", "init"} /\ last = "none"
  /\ pc["api"] = "init" => init = "QUIT"

CtrlWithTmr  == CtrlLabels \ {"dead", "create_tmr", "join_nmea"}
CtrlWithNmea == CtrlLabels \ {"dead", "create_tmr", "create_nmea"}

Lifetimes ==
  /\ Alive("ctrl") => init # "QUIT"
  /\ Alive("tmr")  => pc["ctrl"] \in CtrlWithTmr
  /\ Alive("nmea") => pc["ctrl"] \in CtrlWithNmea

Locals ==
  /\ pc["api"] \in {"command", "send", "status"} => acmd \in {"START", "STOP"}
  /\ pc["api"] = "init" => acmd # "CLEANUP"
  /\ pc["tmr"] = "settle" => gap <= GapLimit

IInv == TypeOK /\ CommandsExclusive /\ OutsideSession /\ Lifetimes /\ Locals

(* Callbacks fall within a session, whatever the threads are doing when the     *)
(* framework calls cleanup.                                                     *)
Session == INSTANCE GpsSession WITH up <- init # "QUIT"
SessionRefinement == Session!Spec

(* cleanup returns: gps_state_done waits for ctrl, ctrl for the timer and the   *)
(* reader, and each of those leaves its waits, its settle loop and its retries  *)
(* once continue_thread is 0 (athr_gps.c:981, 1286-1295, 1316, 1413, 1462).     *)
CleanupReturns == (acmd = "CLEANUP" /\ ~At("api", "idle")) ~> At("api", "idle")

(* A stop that the user does not take back ends the started state for good while *)
(* the session stays open, whatever faults and retries there are on the way:    *)
(* the timer's SLEEP always comes (athr_gps.c:1457-1475).                       *)
StopEndsStarted ==
  <>[](acmd = "STOP" /\ At("api", "idle") /\ init # "QUIT") => <>[](~started)

(* A start that the user does not take back, in a session that was not stopped   *)
(* before, leaves the chip awake for good, one failed open, write or read        *)
(* notwithstanding: nmea's retry makes up for it (athr_gps.c:1328-1337).         *)
Wanted == acmd = "START" /\ At("api", "idle") /\ init # "QUIT"
FirstStartWakesChip == [](lastcmd # "STOP") /\ <>[]Wanted => <>[]awake

-------------------------------------------------------------------------------
(* What the comments and messages of the code say, and the code does not keep   *)

(* athr_gps.c:1567, gps_closetty: "close connection to the QEMU GPS daemon".    *)
(* gps_state_done calls it, so no descriptor of the tty outlives cleanup.       *)
TtyClosedByCleanup == init = "QUIT" => openTty = 0

(* athr_gps.c:1479: "User enter LM before sending sleep, so drop it".  A start   *)
(* that is not taken back leaves the chip awake, stopped before or not.          *)
StartWakesChip == <>[]Wanted => <>[]awake
===============================================================================
