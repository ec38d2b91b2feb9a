------------------------------ MODULE SensorsPoll ------------------------------
(* The poll context of the sensors HAL (testcode/android/libsensors): one       *)
(* thread of the framework sits in pollEvents(), another calls activate().  A   *)
(* driver is a sensor class with its input device and its event ring, which is  *)
(* taken here as the queue that InputEventReader implements.  A handle is one   *)
(* sensor of a driver: ID_A of accel, ID_M and ID_O of mag.                     *)
EXTENDS Integers, Sequences, FiniteSets

CONSTANTS NumDrivers,      \* numSensorDrivers; driver 1 is accel
          Handles,         \* driver -> its handles; the lowest has bit 0 of the mask
          NumEvents,       \* driver -> the size of its mInputReader
          Reports,         \* driver -> the reports its device makes, see below
          Counts,          \* the room the framework gives to pollEvents()
          MaxReports,      \* how many reports the devices make
          MaxActivations,  \* how often the framework calls activate()
          MaxFaults,       \* how many calls fail
          FaultKinds,      \* which: "read", "poll", "enable"
          Errno            \* the error number of a failed read

Drivers    == 1..NumDrivers
AllHandles == UNION {Handles[d] : d \in Drivers}
Driver(h)  == CHOOSE d \in Drivers : h \in Handles[d]

ASSUME SensorsAssumption ==
  /\ NumDrivers \in Nat \ {0} /\ MaxReports \in Nat /\ MaxActivations \in Nat
  /\ MaxFaults \in Nat /\ Errno \in Nat \ {0}
  /\ Counts \subseteq Nat \ {0}
  /\ NumEvents \in [Drivers -> Nat \ {0}]
  /\ Handles \in [Drivers -> SUBSET Nat]
  /\ \A d \in Drivers : Reports[d] \subseteq Seq(SUBSET Handles[d])
  /\ \A d \in Drivers : Handles[d] # {} /\ IsFiniteSet(Handles[d])
  /\ \A d, e \in Drivers : d # e => Handles[d] \cap Handles[e] = {}

VARIABLES
  device,        \* driver -> input events the kernel holds for it
  ring,          \* driver -> mInputReader: events read and not consumed
  mPendingMask,  \* driver -> handles with a value not yet reported
  mEnabled,      \* handle -> its enable count
  revents,       \* driver -> POLLIN is set in its mPollFds
  wakePipe,      \* wake messages in the pipe
  pc,            \* where the poll thread is
  driver,        \* i of the scan, and the driver being read
  room,          \* the framework's count
  count,         \* pollEvents: what is left of it
  nbEvents,      \* pollEvents: events returned, where data points
  got,           \* readEvents: numEventReceived
  wakeDue,       \* activate() is about to write its wake message
  out,           \* handle -> the timestamps stored into the framework's array
  reports, activations, faults   \* bounds; reports is also the device's clock

input   == <<device, ring, mPendingMask>>
locals  == <<room, count, nbEvents>>
bounds  == <<reports, activations>>
vars    == <<input, mEnabled, revents, wakePipe, pc, driver, locals, got, wakeDue,
             out, bounds, faults>>

Fails(kind) == kind \in FaultKinds /\ faults < MaxFaults /\ faults' = faults + 1

Smallest(x, S) == x \in S /\ \A y \in S : x <= y

Init ==
  /\ device = [d \in Drivers |-> <<>>] /\ ring = [d \in Drivers |-> <<>>]
  /\ mPendingMask = [d \in Drivers |-> {}]
  /\ mEnabled = [h \in AllHandles |-> 0]
  /\ revents = [d \in Drivers |-> FALSE] /\ wakePipe = 0
  /\ pc = "idle" /\ driver = 1 /\ room = 0 /\ count = 0 /\ nbEvents = 0 /\ got = 0
  /\ wakeDue = FALSE
  /\ out = [h \in AllHandles |-> <<>>]
  /\ reports = 0 /\ activations = 0 /\ faults = 0

-------------------------------------------------------------------------------
(* The devices.  A report is one or more axis events, each of which marks some  *)
(* handles (none, if its code or type is unknown), and an EV_SYN with a time.   *)
(* Reports[d] holds what each axis event of a report marks.                     *)

Axis(S) == [marks |-> S, time |-> 0]
Syn(t)  == [marks |-> {}, time |-> t]
IsSyn(e) == e.time > 0

InputEvents == [marks : SUBSET AllHandles, time : 0..MaxReports]

Report(d) ==
  /\ reports < MaxReports
  /\ reports' = reports + 1
  /\ \E r \in Reports[d] :
       device' = [device EXCEPT ![d] = @ \o [j \in 1..Len(r) |-> Axis(r[j])]
                                         \o <<Syn(reports')>>]
  /\ UNCHANGED <<ring, mPendingMask, mEnabled, revents, wakePipe, pc, driver, locals,
                 got, wakeDue, out, activations, faults>>

-------------------------------------------------------------------------------
(* activate(), one call at a time: the sensor's setEnable() counts the request  *)
(* and switches the device, which fails without taking the count back; a        *)
(* successful enable is followed by a wake message.  The count mUser of accel   *)
(* reaches only its writeEnable(), which does nothing and never fails.          *)

(* writeEnable() cannot open or write the device's switch. *)
SwitchFails(h) == h \notin Handles[1] /\ Fails("enable")

SetEnable(h, enabled) ==
  /\ ~wakeDue /\ activations < MaxActivations
  /\ activations' = activations + 1
  /\ mEnabled' = [mEnabled EXCEPT ![h] = IF enabled THEN @ + 1
                                         ELSE IF @ > 0 THEN @ - 1 ELSE 0]
  /\ \/ wakeDue' = enabled /\ UNCHANGED faults
     \/ SwitchFails(h) /\ wakeDue' = FALSE
  /\ UNCHANGED <<input, revents, wakePipe, pc, driver, locals, got, out, reports>>

SendWake ==
  /\ wakeDue
  /\ wakeDue' = FALSE
  /\ wakePipe' = wakePipe + 1
  /\ UNCHANGED <<input, mEnabled, revents, pc, driver, locals, got, out, bounds,
                 faults>>

-------------------------------------------------------------------------------
(* pollEvents()                                                                 *)

PollCall ==
  /\ pc = "idle"
  /\ \E c \in Counts : room' = c /\ count' = c
  /\ pc' = "scan" /\ driver' = 1
  /\ UNCHANGED <<input, mEnabled, revents, wakePipe, nbEvents, got, wakeDue, out,
                 bounds, faults>>

(* The locals go out of scope. *)
Return ==
  /\ pc' = "idle" /\ driver' = 1 /\ room' = 0 /\ count' = 0 /\ nbEvents' = 0

(* The next driver of the scan that poll() has marked.                          *)
Marked == {d \in driver..NumDrivers : revents[d]}

ScanNext ==
  /\ pc = "scan" /\ count # 0
  /\ \E d \in Marked : Smallest(d, Marked) /\ driver' = d
  /\ pc' = "fill"
  /\ UNCHANGED <<input, mEnabled, revents, wakePipe, locals, got, wakeDue, out,
                 bounds, faults>>

ScanEnd ==
  /\ pc = "scan"
  /\ \/ count = 0 /\ Return
     \/ /\ count # 0 /\ Marked = {}
        /\ pc' = "poll" /\ UNCHANGED <<driver, locals>>
  /\ UNCHANGED <<input, mEnabled, revents, wakePipe, got, wakeDue, out, bounds,
                 faults>>

(* readEvents() begins with fill(): the read blocks while the device has        *)
(* nothing, and is left out when the ring is full.                              *)
Fill ==
  /\ pc = "fill"
  /\ \/ /\ Len(ring[driver]) = NumEvents[driver]
        /\ UNCHANGED <<ring, device>>
     \/ \E k \in 1..Len(device[driver]) :
          /\ Len(ring[driver]) + k <= NumEvents[driver]
          /\ ring' = [ring EXCEPT ![driver] = @ \o SubSeq(device[driver], 1, k)]
          /\ device' = [device EXCEPT ![driver] = SubSeq(@, k + 1, Len(@))]
  /\ pc' = "process"
  /\ UNCHANGED <<mPendingMask, mEnabled, revents, wakePipe, driver, locals, got,
                 wakeDue, out, bounds, faults>>

(* Mutant: POLLIN is reset although the room was used up. *)
AlwaysReset(nb) ==
  /\ revents' = [revents EXCEPT ![driver] = FALSE]
  /\ count' = count - nb
  /\ nbEvents' = nbEvents + nb
  /\ driver' = driver + 1
  /\ pc' = "scan"

(* Mutant: POLLIN is never reset. *)
NeverReset(nb) ==
  /\ count' = count - nb
  /\ nbEvents' = nbEvents + nb
  /\ driver' = driver + 1
  /\ pc' = "scan"
  /\ UNCHANGED revents

(* What pollEvents() does with the result of readEvents().                      *)
Account(nb) ==
  /\ revents' = [revents EXCEPT ![driver] = @ /\ nb >= count]
  /\ count' = count - nb
  /\ nbEvents' = nbEvents + nb
  /\ driver' = driver + 1
  /\ pc' = "scan"

(* A failed read: readEvents() returns the negated error number.                *)
FillFails ==
  /\ pc = "fill" /\ Len(ring[driver]) < NumEvents[driver]
  /\ Fails("read")
  /\ Account(-Errno)
  /\ UNCHANGED <<input, mEnabled, wakePipe, room, got, wakeDue, out, bounds>>

(* The loop of readEvents(), an event at a time. *)
Processing == pc = "process" /\ got < count /\ ring[driver] # <<>>
Event      == Head(ring[driver])

(* processEvent() and next() *)
ProcessAxis ==
  /\ Processing /\ ~IsSyn(Event)
  /\ mPendingMask' = [mPendingMask EXCEPT ![driver] = @ \union Event.marks]
  /\ ring' = [ring EXCEPT ![driver] = Tail(@)]
  /\ UNCHANGED <<device, mEnabled, revents, wakePipe, pc, driver, locals, got, wakeDue,
                 out, bounds, faults>>

SynWithoutValue ==
  /\ Processing /\ IsSyn(Event) /\ mPendingMask[driver] = {}
  /\ ring' = [ring EXCEPT ![driver] = Tail(@)]
  /\ UNCHANGED <<device, mPendingMask, mEnabled, revents, wakePipe, pc, driver, locals,
                 got, wakeDue, out, bounds, faults>>

(* Mutant: the EV_SYN is consumed whatever is still pending. *)
ReportAndNext(h) ==
  /\ Processing /\ IsSyn(Event) /\ Smallest(h, mPendingMask[driver])
  /\ mPendingMask' = [mPendingMask EXCEPT ![driver] = @ \ {h}]
  /\ IF mEnabled[h] > 0
       THEN out' = [out EXCEPT ![h] = Append(@, Event.time)] /\ got' = got + 1
       ELSE UNCHANGED <<out, got>>
  /\ ring' = [ring EXCEPT ![driver] = Tail(@)]
  /\ UNCHANGED <<device, mEnabled, revents, wakePipe, pc, driver, locals, wakeDue,
                 bounds, faults>>

(* Mutant: the room is not looked at. *)
ReportBeyond(h) ==
  /\ pc = "process" /\ ring[driver] # <<>>
  /\ IsSyn(Event) /\ Smallest(h, mPendingMask[driver])
  /\ mPendingMask' = [mPendingMask EXCEPT ![driver] = @ \ {h}]
  /\ IF mEnabled[h] > 0
       THEN out' = [out EXCEPT ![h] = Append(@, Event.time)] /\ got' = got + 1
       ELSE UNCHANGED <<out, got>>
  /\ ring' = IF mPendingMask'[driver] = {} THEN [ring EXCEPT ![driver] = Tail(@)]
                                           ELSE ring
  /\ UNCHANGED <<device, mEnabled, revents, wakePipe, pc, driver, locals, wakeDue,
                 bounds, faults>>

(* An EV_SYN reports one pending handle after the other, those that are enabled *)
(* when their turn comes, and is consumed with the last; when the room is used  *)
(* up before, it stays for the next call.                                       *)
ReportPending(h) ==
  /\ Processing /\ IsSyn(Event) /\ Smallest(h, mPendingMask[driver])
  /\ mPendingMask' = [mPendingMask EXCEPT ![driver] = @ \ {h}]
  /\ IF mEnabled[h] > 0
       THEN out' = [out EXCEPT ![h] = Append(@, Event.time)] /\ got' = got + 1
       ELSE UNCHANGED <<out, got>>
  /\ ring' = IF mPendingMask'[driver] = {} THEN [ring EXCEPT ![driver] = Tail(@)]
                                           ELSE ring
  /\ UNCHANGED <<device, mEnabled, revents, wakePipe, pc, driver, locals, wakeDue,
                 bounds, faults>>

ReadDone ==
  /\ pc = "process" /\ (got >= count \/ ring[driver] = <<>>)
  /\ Account(got)
  /\ got' = 0
  /\ UNCHANGED <<input, mEnabled, wakePipe, room, wakeDue, out, bounds, faults>>

(* poll(): waits only when there is nothing to return yet.  After a wake        *)
(* message, or with a device ready, the scan starts again.                      *)
Poll ==
  LET ready == {d \in Drivers : device[d] # <<>>} IN
  /\ pc = "poll"
  /\ \/ /\ ready # {} \/ wakePipe > 0
        /\ revents' = [d \in Drivers |-> d \in ready]
        /\ wakePipe' = IF wakePipe > 0 THEN wakePipe - 1 ELSE 0
        /\ pc' = "scan" /\ driver' = 1
        /\ UNCHANGED <<locals, faults>>
     \/ /\ ready = {} /\ wakePipe = 0 /\ nbEvents # 0
        /\ revents' = [d \in Drivers |-> FALSE]
        /\ Return
        /\ UNCHANGED <<wakePipe, faults>>
     \/ /\ Fails("poll")
        /\ Return
        /\ UNCHANGED <<revents, wakePipe>>
  /\ UNCHANGED <<input, mEnabled, got, wakeDue, out, bounds>>

PollThread ==
  PollCall \/ ScanNext \/ ScanEnd \/ Fill \/ FillFails \/ ProcessAxis
    \/ SynWithoutValue \/ (\E h \in AllHandles : ReportPending(h)) \/ ReadDone \/ Poll

Next ==
  \/ \E d \in Drivers : Report(d)
  \/ \E h \in AllHandles, enabled \in BOOLEAN : SetEnable(h, enabled)
  \/ SendWake
  \/ PollThread

Spec == Init /\ [][Next]_vars

(* The framework's thread calls pollEvents() again whenever it returns.  No     *)
(* device has to report and nobody has to call activate().                      *)
FairSpec == Spec /\ WF_vars(PollThread)

-------------------------------------------------------------------------------
(* Properties *)

QueuesOK ==
  /\ device \in [Drivers -> Seq(InputEvents)]
  /\ ring \in [Drivers -> Seq(InputEvents)]
  /\ \A d \in Drivers : Len(ring[d]) <= NumEvents[d]
  /\ mPendingMask \in [Drivers -> SUBSET AllHandles]
  /\ out \in [AllHandles -> Seq(1..MaxReports)]

ScalarsOK ==
  /\ mEnabled \in [AllHandles -> Nat]
  /\ revents \in [Drivers -> BOOLEAN]
  /\ wakePipe \in Nat /\ wakeDue \in BOOLEAN
  /\ pc \in {"idle", "scan", "fill", "process", "poll"}
  /\ driver \in 1 .. (NumDrivers + 1)
  /\ pc \in {"fill", "process"} => driver \in Drivers
  /\ room \in Nat /\ count \in Nat /\ nbEvents \in Int /\ got \in Nat
  /\ reports \in 0..MaxReports /\ activations \in 0..MaxActivations
  /\ faults \in 0..MaxFaults

TypeOK == QueuesOK /\ ScalarsOK

(* pollEvents() stores no event past the end of the framework's array: data,    *)
(* count and nbEvents move together over drivers, rounds of poll(), interrupted *)
(* reports and failed reads (sensors.cpp:250-257).                              *)
WithinRoom ==
  pc # "idle" => count = room - nbEvents /\ nbEvents + got <= room

(* When pollEvents() turns to poll(), which looks at the devices only, no event *)
(* is left in a ring: what an earlier call had no room for is found again       *)
(* through revents, as long as no call failed (sensors.cpp:246-258).            *)
PollsOnlyWhenDrained ==
  pc = "poll" /\ faults = 0 => \A d \in Drivers : ring[d] = <<>>

(* What makes these inductive.  pollEvents() begins with nothing returned, and   *)
(* readEvents() stays within what is left.  A ring is left with events only     *)
(* while its POLLIN stays set, and drivers the scan has passed have none unless  *)
(* the room is used up.                                                         *)
Locals ==
  /\ pc = "idle" => nbEvents = 0
  /\ pc # "process" => got = 0
  /\ pc # "idle" => got <= count
  /\ pc \in {"fill", "process", "poll"} => count # 0

Passed == IF (pc = "scan" /\ count # 0) \/ pc \in {"fill", "process"}
            THEN 1 .. (driver - 1) ELSE {}

Leftovers ==
  faults = 0 =>
    /\ \A d \in Drivers : ring[d] # <<>> => revents[d]
    /\ \A d \in Passed : ring[d] = <<>>
    /\ pc \in {"fill", "process"} => revents[driver]

IInv == TypeOK /\ Locals /\ WithinRoom /\ Leftovers /\ PollsOnlyWhenDrained

(* The input events of a driver on their way, first those in its ring.           *)
Stream(d) == ring[d] \o device[d]

(* Event p of the stream s is the EV_SYN of a report that marks h; mask is what *)
(* was marked before the stream.                                                *)
Carries(s, mask, h, p) ==
  /\ IsSyn(s[p])
  /\ \E j \in 0 .. (p - 1) :
       /\ h \in IF j = 0 THEN mask ELSE s[j].marks
       /\ \A k \in (j + 1) .. (p - 1) : ~IsSyn(s[k])

TimesOf(s, mask, h) == {s[p].time : p \in {p \in 1..Len(s) : Carries(s, mask, h, p)}}

(* The reports of h on their way, by their times.                               *)
InFlight(h) == TimesOf(Stream(Driver(h)), mPendingMask[Driver(h)], h)

(* Why the refinement holds: a stream has the reports of its driver's handles   *)
(* only, in the order they were made.                                           *)
Ordered(s, own) ==
  \A p \in 1..Len(s) :
    /\ s[p].marks \subseteq own
    /\ IsSyn(s[p]) =>
         /\ s[p].marks = {} /\ s[p].time <= reports
         /\ \A q \in 1 .. (p - 1) : IsSyn(s[q]) => s[q].time < s[p].time

StreamsOrdered ==
  /\ \A d \in Drivers : mPendingMask[d] \subseteq Handles[d] /\ Ordered(Stream(d), Handles[d])
  /\ \A h \in AllHandles : \A i \in 1..Len(out[h]) : out[h][i] <= reports

(* Every handle's reports come out in order and once each, and one is left out  *)
(* only if the handle is disabled at its turn, whatever the room, the splitting *)
(* of reports over reads and calls, and the activations of the other thread.    *)
Channel(h) == INSTANCE SensorChannel
                WITH queue <- InFlight(h), out <- out[h], on <- mEnabled[h] > 0,
                     Times <- 1..MaxReports
ChannelRefinement ==
  /\ \A h \in AllHandles : Channel(h)!Init
  /\ [][\A h \in AllHandles : [Channel(h)!Next]_(Channel(h)!vars)]_vars

(* While pollEvents() never uses up its room, no report stays behind: each is   *)
(* handed over or dropped, with no help from later reports or from activate()   *)
(* (sensors.cpp:244-284).                                                       *)
RoomLeft == [](pc = "scan" => count > 0)
Handled(h) == InFlight(h) # {} ~> InFlight(h) = {}
ReportsHandled == RoomLeft => \A h \in AllHandles : Handled(h)

-------------------------------------------------------------------------------
(* What the comments of the code say, and the code does not keep                *)

(* sensors.cpp:245 and 281: "see if we have some leftover from the last poll()", *)
(* "if we have events and space, go read them".  Every report is handled,        *)
(* whatever room pollEvents() is given.                                          *)
LeftoversHandled == \A h \in AllHandles : Handled(h)

(* sensors.cpp:262: "we still have some room".  What is left of the framework's *)
(* array is never more than the array: data does not point before it.           *)
NeverBeforeArray == count <= room
===============================================================================
