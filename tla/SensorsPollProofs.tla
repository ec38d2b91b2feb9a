--------------------------- MODULE SensorsPollProofs ---------------------------
(* pollEvents() stays within the room it is given and turns to poll() with      *)
(* empty rings, for every number of drivers, handles, ring sizes, reports and   *)
(* bounds.  IInv is inductive; there is one lemma per action.                   *)
(* The last part proves the ring itself (InputEventReader), for every number    *)
(* of slots.                                                                    *)
EXTENDS SensorsPoll, InputEventReader, SequenceTheorems, TLAPS

(* The parts of a step that are the same for most actions: what the counters    *)
(* and the scan know of the rings does not change.                              *)
LEMMA SameScan ==
  ASSUME Locals, WithinRoom, Leftovers, PollsOnlyWhenDrained,
         UNCHANGED <<ring, revents, pc, driver, locals, got>>,
         faults' = 0 => faults = 0
  PROVE  Locals' /\ WithinRoom' /\ Leftovers' /\ PollsOnlyWhenDrained'
<1>1. /\ ring' = ring /\ revents' = revents /\ pc' = pc /\ driver' = driver
      /\ room' = room /\ count' = count /\ nbEvents' = nbEvents /\ got' = got
  BY DEF locals
<1>2. Locals'
  BY <1>1 DEF Locals
<1>3. WithinRoom'
  BY <1>1 DEF WithinRoom
<1>4. Passed' = Passed
  BY <1>1 DEF Passed
<1>5. Leftovers'
  BY <1>1, <1>4 DEF Leftovers
<1>6. PollsOnlyWhenDrained'
  BY <1>1 DEF PollsOnlyWhenDrained
<1> QED
  BY <1>2, <1>3, <1>5, <1>6

(* A fault in a step only makes the later claims weaker.                        *)
LEMMA FailsFacts ==
  ASSUME ScalarsOK, NEW kind, Fails(kind)
  PROVE  faults' \in 0..MaxFaults /\ faults' # 0
BY SensorsAssumption DEF ScalarsOK, Fails

LEMMA InitIInv == Init => IInv
<1> SUFFICES ASSUME Init PROVE IInv
  OBVIOUS
<1> USE SensorsAssumption DEF Init
<1>1. QueuesOK
  <2>1. <<>> \in Seq(InputEvents) /\ <<>> \in Seq(1..MaxReports) /\ Len(<<>>) = 0
    BY EmptySeq
  <2>2. \A d \in Drivers : ring[d] = <<>> /\ NumEvents[d] \in Nat
    OBVIOUS
  <2> QED
    BY <2>1, <2>2 DEF QueuesOK
<1>2. ScalarsOK
  <2>1. revents \in [Drivers -> BOOLEAN] /\ mEnabled \in [AllHandles -> Nat]
    OBVIOUS
  <2>2. driver \in 1 .. (NumDrivers + 1)
    OBVIOUS
  <2>3. reports \in 0..MaxReports /\ activations \in 0..MaxActivations
        /\ faults \in 0..MaxFaults
    OBVIOUS
  <2>4. wakeDue \in BOOLEAN
    OBVIOUS
  <2> QED
    BY <2>1, <2>2, <2>3, <2>4 DEF ScalarsOK
<1>3. Locals /\ WithinRoom /\ PollsOnlyWhenDrained
  BY DEF Locals, WithinRoom, PollsOnlyWhenDrained
<1>4. Leftovers
  <2>1. \A d \in Drivers : ring[d] = <<>>
    OBVIOUS
  <2>2. Passed = {}
    BY DEF Passed
  <2> QED
    BY <2>1, <2>2 DEF Leftovers
<1> QED
  BY <1>1, <1>2, <1>3, <1>4 DEF IInv, TypeOK

(* The kernel's queue grows by the axis events of a report and its EV_SYN.      *)
LEMMA ReportKeepsIInv ==
  ASSUME IInv, NEW d \in Drivers, Report(d)
  PROVE  IInv'
<1>1. QueuesOK /\ ScalarsOK
  BY DEF IInv, TypeOK
<1>2. reports' \in 0..MaxReports /\ reports' = reports + 1
  BY <1>1, SensorsAssumption DEF Report, ScalarsOK
<1>3. PICK r \in Reports[d] :
        device' = [device EXCEPT ![d] = @ \o [j \in 1..Len(r) |-> Axis(r[j])]
                                          \o <<Syn(reports')>>]
  BY DEF Report
<1> DEFINE axes == [j \in 1..Len(r) |-> Axis(r[j])]
<1>4. axes \in Seq(InputEvents)
  <2>1. r \in Seq(SUBSET Handles[d])
    BY SensorsAssumption
  <2>2. Len(r) \in Nat
    BY <2>1, LenProperties
  <2>3. \A j \in 1..Len(r) : r[j] \in SUBSET Handles[d]
    BY <2>1, ElementOfSeq
  <2>4. Handles[d] \subseteq AllHandles
    BY DEF AllHandles
  <2>5. \A j \in 1..Len(r) : Axis(r[j]) \in InputEvents
    BY <2>3, <2>4, SensorsAssumption DEF Axis, InputEvents
  <2> QED
    BY <2>2, <2>5
<1>5. <<Syn(reports')>> \in Seq(InputEvents)
  <2>1. Syn(reports') \in InputEvents
    BY <1>2 DEF Syn, InputEvents
  <2> QED
    BY <2>1
<1>6. device' \in [Drivers -> Seq(InputEvents)]
  <2>1. device[d] \in Seq(InputEvents)
    BY <1>1 DEF QueuesOK
  <2> HIDE DEF axes
  <2>2. device[d] \o axes \in Seq(InputEvents)
    BY <2>1, <1>4, ConcatProperties
  <2>3. (device[d] \o axes) \o <<Syn(reports')>> \in Seq(InputEvents)
    BY <2>2, <1>5, ConcatProperties
  <2>4. device[d] \o axes \o <<Syn(reports')>> \in Seq(InputEvents)
    BY <2>3, <2>1, <1>4, <1>5, ConcatAssociative
  <2>5. device' = [device EXCEPT ![d] = device[d] \o axes \o <<Syn(reports')>>]
    BY <1>3 DEF axes
  <2> QED
    BY <2>4, <2>5, <1>1 DEF QueuesOK
<1>7. QueuesOK'
  BY <1>1, <1>6 DEF QueuesOK, Report
<1>8. ScalarsOK'
  BY <1>1, <1>2 DEF ScalarsOK, Report, locals
<1>9. Locals' /\ WithinRoom' /\ Leftovers' /\ PollsOnlyWhenDrained'
  BY SameScan DEF IInv, Report
<1> QED
  BY <1>7, <1>8, <1>9 DEF IInv, TypeOK

(* activate() touches neither the rings nor the poll thread.                    *)
LEMMA ActivateKeepsIInv ==
  ASSUME IInv,
         \/ \E h \in AllHandles, enabled \in BOOLEAN : SetEnable(h, enabled)
         \/ SendWake
  PROVE  IInv'
<1>1. QueuesOK /\ ScalarsOK
  BY DEF IInv, TypeOK
<1>2. CASE \E h \in AllHandles, enabled \in BOOLEAN : SetEnable(h, enabled)
  <2> PICK h \in AllHandles, enabled \in BOOLEAN : SetEnable(h, enabled)
    BY <1>2
  <2>1. QueuesOK'
    BY <1>1 DEF QueuesOK, SetEnable, input
  <2>2. faults' \in 0..MaxFaults /\ (faults' = 0 => faults = 0)
    BY <1>1, FailsFacts DEF ScalarsOK, SetEnable, SwitchFails
  <2>3. wakeDue' \in BOOLEAN
    BY DEF SetEnable
  <2>4. mEnabled' \in [AllHandles -> Nat]
    BY <1>1 DEF ScalarsOK, SetEnable
  <2>5. activations' \in 0..MaxActivations
    BY <1>1, SensorsAssumption DEF ScalarsOK, SetEnable
  <2>6. ScalarsOK'
    BY <1>1, <2>2, <2>3, <2>4, <2>5 DEF ScalarsOK, SetEnable, locals
  <2>7. Locals' /\ WithinRoom' /\ Leftovers' /\ PollsOnlyWhenDrained'
    BY <2>2, SameScan DEF IInv, SetEnable, input
  <2> QED
    BY <2>1, <2>6, <2>7 DEF IInv, TypeOK
<1>3. CASE SendWake
  <2>1. QueuesOK'
    BY <1>1, <1>3 DEF QueuesOK, SendWake, input
  <2>2. ScalarsOK'
    <3>1. wakeDue' \in BOOLEAN
      BY <1>3 DEF SendWake
    <3> QED
      BY <1>1, <1>3, <3>1 DEF ScalarsOK, SendWake, locals, bounds
  <2>3. Locals' /\ WithinRoom' /\ Leftovers' /\ PollsOnlyWhenDrained'
    BY <1>3, SameScan DEF IInv, SendWake, input
  <2> QED
    BY <2>1, <2>2, <2>3 DEF IInv, TypeOK
<1> QED
  BY <1>2, <1>3

(* The scan: a driver that is passed over has no POLLIN, so its ring is empty.  *)
LEMMA ScanKeepsIInv ==
  ASSUME IInv, PollCall \/ ScanNext \/ ScanEnd
  PROVE  IInv'
<1>1. /\ QueuesOK /\ ScalarsOK
      /\ Locals /\ WithinRoom /\ Leftovers /\ PollsOnlyWhenDrained
  BY DEF IInv, TypeOK
<1>2. QueuesOK'
  BY <1>1 DEF QueuesOK, PollCall, ScanNext, ScanEnd, Return, input
<1>3. ring' = ring /\ revents' = revents /\ got' = got /\ faults' = faults
  BY DEF PollCall, ScanNext, ScanEnd, input
<1>4. CASE PollCall
  <2>1. pc = "idle" /\ nbEvents' = 0 /\ got = 0 /\ pc' = "scan" /\ driver' = 1
    BY <1>1, <1>4 DEF PollCall, Locals
  <2>2. room' \in Nat \ {0} /\ count' = room'
    BY <1>4, SensorsAssumption DEF PollCall
  <2>3. ScalarsOK'
    BY <1>1, <1>4, <2>1, <2>2, SensorsAssumption DEF ScalarsOK, PollCall, bounds
  <2>4. Locals' /\ WithinRoom' /\ PollsOnlyWhenDrained'
    <3>1. PICK c \in Counts : room' = c /\ count' = c
      BY <1>4 DEF PollCall
    <3>2. c \in Int /\ c > 0
      BY SensorsAssumption
    <3>3. nbEvents' = 0 /\ got' = 0
      BY <2>1, <1>3
    <3>4. Locals' /\ PollsOnlyWhenDrained'
      BY <2>1, <3>1, <3>2, <3>3 DEF Locals, PollsOnlyWhenDrained
    <3>5. WithinRoom'
      BY <3>1, <3>2, <3>3 DEF WithinRoom
    <3> QED
      BY <3>4, <3>5
  <2>5. Passed' = {}
    BY <2>1 DEF Passed
  <2>6. Leftovers'
    BY <1>1, <1>3, <2>1, <2>5 DEF Leftovers
  <2> QED
    BY <1>2, <2>3, <2>4, <2>6 DEF IInv, TypeOK
<1>5. CASE ScanNext
  <2>1. /\ pc = "scan" /\ count # 0 /\ pc' = "fill"
        /\ room' = room /\ count' = count /\ nbEvents' = nbEvents
    BY <1>5 DEF ScanNext, locals
  <2>2. PICK d \in Marked : Smallest(d, Marked) /\ driver' = d
    BY <1>5 DEF ScanNext
  <2>3. driver \in Int /\ driver >= 1
    BY <1>1 DEF ScalarsOK
  <2>4. d \in Drivers /\ d \in Int /\ d >= driver /\ revents[d]
    BY <2>2, <2>3, SensorsAssumption DEF Marked, Drivers
  <2>5. ScalarsOK'
    <3>1. driver' \in Drivers /\ driver' \in 1 .. (NumDrivers + 1)
      BY <2>2, <2>4, SensorsAssumption DEF Drivers
    <3> QED
      BY <1>1, <1>5, <2>1, <3>1 DEF ScalarsOK, ScanNext, bounds
  <2>6. Locals' /\ WithinRoom' /\ PollsOnlyWhenDrained'
    BY <1>1, <1>3, <2>1 DEF Locals, WithinRoom, PollsOnlyWhenDrained
  <2>7. Leftovers'
    <3> SUFFICES ASSUME faults = 0
                 PROVE  /\ \A e \in Drivers : ring[e] # <<>> => revents[e]
                        /\ \A e \in 1 .. (d - 1) : ring[e] = <<>>
                        /\ revents[d]
      BY <1>3, <2>1, <2>2 DEF Leftovers, Passed
    <3>1. \A e \in 1 .. (d - 1) : ring[e] = <<>>
      <4> TAKE e \in 1 .. (d - 1)
      <4>1. CASE e < driver
        BY <4>1, <1>1, <2>1, <2>3 DEF Leftovers, Passed
      <4>2. CASE ~(e < driver)
        <5>1. e \in driver..NumDrivers /\ e \in Drivers
          BY <4>2, <2>3, <2>4, SensorsAssumption DEF Drivers
        <5>2. ~revents[e]
          BY <5>1, <2>2, <2>4 DEF Marked, Smallest
        <5> QED
          BY <5>1, <5>2, <1>1 DEF Leftovers
      <4> QED
        BY <4>1, <4>2
    <3> QED
      BY <3>1, <2>4, <1>1 DEF Leftovers
  <2> QED
    BY <1>2, <2>5, <2>6, <2>7 DEF IInv, TypeOK
<1>6. CASE ScanEnd
  <2>1. pc = "scan" /\ got = 0
    BY <1>1, <1>6 DEF ScanEnd, Locals
  <2>2. CASE count = 0 /\ Return
    <3>1. ScalarsOK'
      BY <1>1, <1>6, <2>2, SensorsAssumption DEF ScalarsOK, ScanEnd, Return, bounds
    <3>2. Locals' /\ WithinRoom' /\ PollsOnlyWhenDrained'
      BY <1>3, <2>1, <2>2 DEF Return, Locals, WithinRoom, PollsOnlyWhenDrained
    <3>3. Leftovers'
      BY <1>1, <1>3, <2>2 DEF Return, Leftovers, Passed
    <3> QED
      BY <1>2, <3>1, <3>2, <3>3 DEF IInv, TypeOK
  <2>3. CASE /\ count # 0 /\ Marked = {}
             /\ pc' = "poll" /\ UNCHANGED <<driver, locals>>
    <3>1. /\ driver' = driver /\ room' = room
          /\ count' = count /\ nbEvents' = nbEvents
      BY <2>3 DEF locals
    <3>2. ScalarsOK'
      BY <1>1, <1>6, <2>3, <3>1 DEF ScalarsOK, ScanEnd, bounds
    <3>3. Locals' /\ WithinRoom'
      BY <1>1, <1>3, <2>1, <2>3, <3>1 DEF Locals, WithinRoom
    <3>4. ASSUME faults = 0, NEW d \in Drivers PROVE ring[d] = <<>>
      <4>1. driver \in Int
        BY <1>1 DEF ScalarsOK
      <4>2. CASE d < driver
        BY <4>1, <4>2, <1>1, <2>1, <2>3, <3>4 DEF Leftovers, Passed, Drivers
      <4>3. CASE ~(d < driver)
        <5>1. d \in driver..NumDrivers
          BY <4>1, <4>3, SensorsAssumption DEF Drivers
        <5>2. ~revents[d]
          BY <5>1, <2>3 DEF Marked
        <5> QED
          BY <5>2, <1>1, <3>4 DEF Leftovers
      <4> QED
        BY <4>2, <4>3
    <3>5. PollsOnlyWhenDrained'
      BY <3>4, <1>3 DEF PollsOnlyWhenDrained
    <3>6. Leftovers'
      BY <3>4, <1>3, <2>3 DEF Leftovers, Passed
    <3> QED
      BY <1>2, <3>2, <3>3, <3>5, <3>6 DEF IInv, TypeOK
  <2> QED
    BY <1>6, <2>2, <2>3 DEF ScanEnd
<1> QED
  BY <1>4, <1>5, <1>6

(* A ring that changes while its driver is read keeps the rest: its POLLIN is   *)
(* set, and it is none of those the scan has passed.                            *)
LEMMA ReadingKeepsLeftovers ==
  ASSUME ScalarsOK, Leftovers, pc \in {"fill", "process"}, pc' = "process",
         QueuesOK, QueuesOK', \A d \in Drivers \ {driver} : ring'[d] = ring[d],
         UNCHANGED <<revents, driver, faults>>
  PROVE  Leftovers'
<1>1. /\ Passed = 1 .. (driver - 1) /\ Passed' = 1 .. (driver - 1)
      /\ driver \in Drivers
  BY DEF Passed, ScalarsOK
<1>2. driver \in Int /\ driver <= NumDrivers
  BY <1>1, SensorsAssumption DEF Drivers
<1>3. ASSUME faults = 0
      PROVE  /\ \A d \in Drivers : ring'[d] # <<>> => revents[d]
             /\ \A d \in 1 .. (driver - 1) : ring'[d] = <<>>
             /\ revents[driver]
  <2>1. /\ \A d \in Drivers : ring[d] # <<>> => revents[d]
        /\ \A d \in 1 .. (driver - 1) : ring[d] = <<>>
        /\ revents[driver]
    BY <1>1, <1>3 DEF Leftovers
  <2>2. \A d \in Drivers : ring'[d] # <<>> => revents[d]
    BY <2>1
  <2>3. \A d \in 1 .. (driver - 1) : d \in Drivers \ {driver}
    BY <1>2, SensorsAssumption DEF Drivers
  <2> QED
    BY <2>1, <2>2, <2>3
<1> QED
  BY <1>1, <1>3 DEF Leftovers

(* fill() stores no more than the ring has room for.                            *)
LEMMA FillKeepsIInv ==
  ASSUME IInv, Fill
  PROVE  IInv'
<1>1. /\ QueuesOK /\ ScalarsOK
      /\ Locals /\ WithinRoom /\ Leftovers /\ PollsOnlyWhenDrained
  BY DEF IInv, TypeOK
<1>2. /\ pc = "fill" /\ pc' = "process" /\ driver' = driver /\ got' = got
      /\ room' = room /\ count' = count /\ nbEvents' = nbEvents
      /\ revents' = revents /\ faults' = faults
      /\ mPendingMask' = mPendingMask /\ out' = out
  BY DEF Fill, locals
<1>3. driver \in Drivers
  BY <1>1, <1>2 DEF ScalarsOK
<1>4. /\ ring[driver] \in Seq(InputEvents) /\ device[driver] \in Seq(InputEvents)
      /\ NumEvents[driver] \in Nat
  BY <1>1, <1>3, SensorsAssumption DEF QueuesOK
<1>5. ASSUME Len(ring[driver]) = NumEvents[driver], UNCHANGED <<ring, device>>
      PROVE  QueuesOK' /\ \A d \in Drivers \ {driver} : ring'[d] = ring[d]
  <2>1. QueuesOK' /\ ring' = ring
    BY <1>1, <1>2, <1>5 DEF QueuesOK
  <2> QED
    BY <2>1
<1>6. ASSUME NEW k \in 1..Len(device[driver]),
             Len(ring[driver]) + k <= NumEvents[driver],
             ring' = [ring EXCEPT ![driver] = @ \o SubSeq(device[driver], 1, k)],
             device' = [device EXCEPT ![driver] = SubSeq(@, k + 1, Len(@))]
      PROVE  QueuesOK' /\ \A d \in Drivers \ {driver} : ring'[d] = ring[d]
  <2> DEFINE head == SubSeq(device[driver], 1, k)
             rest == SubSeq(device[driver], k + 1, Len(device[driver]))
  <2>1. Len(device[driver]) \in Nat /\ k \in Nat /\ k <= Len(device[driver])
    BY <1>4, LenProperties
  <2>2. \A i \in 1..Len(device[driver]) : device[driver][i] \in InputEvents
    BY <1>4, ElementOfSeq
  <2>3. head \in Seq(InputEvents) /\ Len(head) = k
    <3>1. \A i \in 1..k : device[driver][i] \in InputEvents
      BY <2>1, <2>2
    <3> QED
      BY <3>1, <2>1, SubSeqProperties
  <2>4. rest \in Seq(InputEvents)
    <3>1. \A i \in (k + 1) .. Len(device[driver]) : device[driver][i] \in InputEvents
      BY <2>1, <2>2
    <3> QED
      BY <3>1, <2>1, SubSeqProperties
  <2> HIDE DEF head, rest
  <2>5. /\ ring[driver] \o head \in Seq(InputEvents)
        /\ Len(ring[driver] \o head) = Len(ring[driver]) + k
    BY <1>4, <2>3, ConcatProperties
  <2>6. /\ ring' = [ring EXCEPT ![driver] = ring[driver] \o head]
        /\ device' = [device EXCEPT ![driver] = rest]
    BY <1>6 DEF head, rest
  <2>7. /\ ring' \in [Drivers -> Seq(InputEvents)]
        /\ device' \in [Drivers -> Seq(InputEvents)]
        /\ \A d \in Drivers : Len(ring'[d]) <= NumEvents[d]
    BY <1>1, <1>3, <1>6, <2>4, <2>5, <2>6 DEF QueuesOK
  <2> QED
    BY <2>6, <2>7, <1>1, <1>2 DEF QueuesOK
<1>7. QueuesOK' /\ \A d \in Drivers \ {driver} : ring'[d] = ring[d]
  BY <1>5, <1>6 DEF Fill
<1>8. ScalarsOK'
  BY <1>1, <1>2, <1>3 DEF ScalarsOK, Fill, bounds
<1>9. Locals' /\ WithinRoom' /\ PollsOnlyWhenDrained'
  <2>1. Locals'
    BY <1>1, <1>2 DEF Locals, ScalarsOK
  <2>2. WithinRoom'
    BY <1>1, <1>2 DEF WithinRoom
  <2>3. PollsOnlyWhenDrained'
    BY <1>2 DEF PollsOnlyWhenDrained
  <2> QED
    BY <2>1, <2>2, <2>3
<1>10. Leftovers'
  BY <1>1, <1>2, <1>7, ReadingKeepsLeftovers
<1> QED
  BY <1>7, <1>8, <1>9, <1>10 DEF IInv, TypeOK

(* What the actions of the loop of readEvents() leave of the ring.              *)
LEMMA ConsumedFacts ==
  ASSUME QueuesOK, driver \in Drivers, ring[driver] # <<>>,
         \/ ring' = ring
         \/ ring' = [ring EXCEPT ![driver] = Tail(@)]
  PROVE  /\ ring' \in [Drivers -> Seq(InputEvents)]
         /\ \A d \in Drivers : Len(ring'[d]) <= NumEvents[d]
         /\ \A d \in Drivers \ {driver} : ring'[d] = ring[d]
         /\ Event \in InputEvents
<1>1. ring[driver] \in Seq(InputEvents) /\ Len(ring[driver]) <= NumEvents[driver]
  BY DEF QueuesOK
<1>2. Len(ring[driver]) \in Nat /\ NumEvents[driver] \in Nat
  BY <1>1, LenProperties, SensorsAssumption
<1>3. /\ Event \in InputEvents /\ Tail(ring[driver]) \in Seq(InputEvents)
      /\ Len(Tail(ring[driver])) = Len(ring[driver]) - 1
  BY <1>1, HeadTailProperties DEF Event
<1>4. CASE ring' = ring
  BY <1>3, <1>4 DEF QueuesOK
<1>5. CASE ring' = [ring EXCEPT ![driver] = Tail(@)]
  <2>1. Len(Tail(ring[driver])) <= NumEvents[driver]
    BY <1>1, <1>2, <1>3
  <2> QED
    BY <1>3, <1>5, <2>1 DEF QueuesOK
<1> QED
  BY <1>4, <1>5

(* The loop of readEvents() stores one event at a time, while there is room.    *)
LEMMA ProcessKeepsIInv ==
  ASSUME IInv,
         ProcessAxis \/ SynWithoutValue \/ \E h \in AllHandles : ReportPending(h)
  PROVE  IInv'
<1>1. /\ QueuesOK /\ ScalarsOK
      /\ Locals /\ WithinRoom /\ Leftovers /\ PollsOnlyWhenDrained
  BY DEF IInv, TypeOK
<1>2. /\ pc = "process" /\ got < count /\ ring[driver] # <<>>
      /\ pc' = pc /\ driver' = driver
      /\ room' = room /\ count' = count /\ nbEvents' = nbEvents
      /\ revents' = revents /\ faults' = faults
      /\ device' = device
  BY DEF ProcessAxis, SynWithoutValue, ReportPending, Processing, locals
<1>3. driver \in Drivers
  BY <1>1, <1>2 DEF ScalarsOK
<1>4. \/ ring' = ring
      \/ ring' = [ring EXCEPT ![driver] = Tail(@)]
  BY DEF ProcessAxis, SynWithoutValue, ReportPending
<1>5. /\ ring' \in [Drivers -> Seq(InputEvents)]
      /\ \A d \in Drivers : Len(ring'[d]) <= NumEvents[d]
      /\ \A d \in Drivers \ {driver} : ring'[d] = ring[d]
      /\ Event \in InputEvents
  BY <1>1, <1>2, <1>3, <1>4, ConsumedFacts
<1>6. /\ mPendingMask' \in [Drivers -> SUBSET AllHandles]
      /\ out' \in [AllHandles -> Seq(1..MaxReports)]
      /\ got' \in {got, got + 1}
  <2>1. CASE ProcessAxis
    <3>1. Event.marks \in SUBSET AllHandles
      BY <1>5 DEF InputEvents
    <3> QED
      BY <2>1, <3>1, <1>1, <1>3 DEF ProcessAxis, QueuesOK
  <2>2. CASE SynWithoutValue
    BY <2>2, <1>1 DEF SynWithoutValue, QueuesOK
  <2>3. CASE \E h \in AllHandles : ReportPending(h)
    <3> PICK h \in AllHandles : ReportPending(h)
      BY <2>3
    <3>1. Event.time \in 1..MaxReports
      <4>1. Event.time > 0
        BY DEF ReportPending, IsSyn
      <4>2. Event.time \in 0..MaxReports
        BY <1>5 DEF InputEvents
      <4> QED BY <4>1, <4>2, SensorsAssumption
    <3>2. Append(out[h], Event.time) \in Seq(1..MaxReports)
      BY <3>1, <1>1, AppendProperties DEF QueuesOK
    <3>3. mPendingMask' = [mPendingMask EXCEPT ![driver] = @ \ {h}]
      BY DEF ReportPending
    <3>4. mPendingMask' \in [Drivers -> SUBSET AllHandles]
      BY <3>3, <1>1, <1>3 DEF QueuesOK
    <3>5. \/ out' = [out EXCEPT ![h] = Append(@, Event.time)] /\ got' = got + 1
          \/ UNCHANGED <<out, got>>
      BY DEF ReportPending
    <3>6. out' \in [AllHandles -> Seq(1..MaxReports)]
      BY <3>2, <3>5, <1>1 DEF QueuesOK
    <3> QED
      BY <3>4, <3>5, <3>6
  <2> QED
    BY <2>1, <2>2, <2>3
<1>7. QueuesOK'
  BY <1>1, <1>2, <1>5, <1>6 DEF QueuesOK
<1>8. /\ mEnabled' = mEnabled /\ wakePipe' = wakePipe /\ wakeDue' = wakeDue
      /\ reports' = reports /\ activations' = activations
  BY DEF ProcessAxis, SynWithoutValue, ReportPending, bounds
<1>9. got \in Nat /\ got' \in Nat /\ count \in Nat /\ got' <= count
  BY <1>1, <1>2, <1>6 DEF ScalarsOK
<1>10. ScalarsOK'
  BY <1>1, <1>2, <1>8, <1>9 DEF ScalarsOK
<1>11. Locals'
  BY <1>1, <1>2, <1>9 DEF Locals
<1>12. WithinRoom'
  <2>1. room \in Nat /\ nbEvents \in Int /\ count = room - nbEvents
    BY <1>1, <1>2 DEF ScalarsOK, WithinRoom
  <2>2. nbEvents + got <= room /\ nbEvents + (got + 1) <= room
    BY <2>1, <1>2, <1>9
  <2>3. nbEvents + got' <= room
    BY <2>2, <1>6
  <2> QED
    BY <2>1, <2>3, <1>2 DEF WithinRoom
<1>13. Leftovers'
  BY <1>1, <1>2, <1>5, <1>7, ReadingKeepsLeftovers
<1>14. PollsOnlyWhenDrained'
  BY <1>2 DEF PollsOnlyWhenDrained
<1> QED
  BY <1>7, <1>10, <1>11, <1>12, <1>13, <1>14 DEF IInv, TypeOK

(* The accounts of pollEvents() after a read: a driver whose POLLIN is reset    *)
(* left room, so its ring is empty.  A failed read voids only the claims that   *)
(* are made for runs without faults.                                            *)
LEMMA AccountKeepsIInv ==
  ASSUME IInv, ReadDone \/ FillFails
  PROVE  IInv'
<1>1. /\ QueuesOK /\ ScalarsOK
      /\ Locals /\ WithinRoom /\ Leftovers /\ PollsOnlyWhenDrained
  BY DEF IInv, TypeOK
<1>2. PICK nb \in Int : /\ ReadDone => nb = got /\ got' = 0 /\ faults' = faults
                        /\ ~ReadDone => nb = -Errno /\ got' = got /\ pc = "fill"
                                        /\ faults' # 0
                        /\ faults' \in 0..MaxFaults
                        /\ Account(nb)
  <2>1. CASE ReadDone
    BY <2>1, <1>1 DEF ReadDone, ScalarsOK
  <2>2. CASE ~ReadDone
    <3>1. -Errno \in Int
      BY SensorsAssumption
    <3> QED
      BY <2>2, <3>1, <1>1, FailsFacts DEF FillFails
  <2> QED
    BY <2>1, <2>2
<1>3. /\ pc \in {"fill", "process"} /\ pc' = "scan" /\ driver' = driver + 1
      /\ room' = room /\ count' = count - nb /\ nbEvents' = nbEvents + nb
      /\ ring' = ring /\ device' = device /\ mPendingMask' = mPendingMask
      /\ out' = out /\ mEnabled' = mEnabled /\ wakePipe' = wakePipe
      /\ wakeDue' = wakeDue /\ reports' = reports /\ activations' = activations
  BY <1>2 DEF ReadDone, FillFails, Account, input, bounds
<1>4. driver \in Drivers /\ driver \in Int /\ driver' \in 1 .. (NumDrivers + 1)
  BY <1>1, <1>3, SensorsAssumption DEF ScalarsOK, Drivers
<1>5. /\ got \in Nat /\ got' = 0 /\ room \in Nat /\ count \in Nat /\ nbEvents \in Int
      /\ count = room - nbEvents /\ nb <= count
  <2>1. /\ got \in Nat /\ room \in Nat /\ count \in Nat /\ nbEvents \in Int
        /\ count = room - nbEvents /\ nbEvents + got <= room
        /\ pc # "process" => got = 0
    BY <1>1, <1>3 DEF ScalarsOK, WithinRoom, Locals
  <2>2. Errno \in Nat /\ Errno > 0
    BY SensorsAssumption
  <2>3. got' = 0
    BY <1>2, <2>1
  <2> QED
    BY <1>2, <2>1, <2>2, <2>3
<1>6. revents' = [revents EXCEPT ![driver] = @ /\ nb >= count]
  BY <1>2 DEF Account
<1>7. QueuesOK'
  BY <1>1, <1>3 DEF QueuesOK
<1>8. ScalarsOK'
  <2>1. revents' \in [Drivers -> BOOLEAN]
    BY <1>1, <1>6 DEF ScalarsOK
  <2>2. count' \in Nat /\ nbEvents' \in Int
    BY <1>2, <1>3, <1>5
  <2> QED
    BY <1>1, <1>2, <1>3, <1>4, <1>5, <2>1, <2>2 DEF ScalarsOK
<1>9. Locals' /\ WithinRoom' /\ PollsOnlyWhenDrained'
  <2>1. 0 <= count - nb /\ count - nb = room - (nbEvents + nb)
        /\ nbEvents + nb + 0 <= room
    BY <1>2, <1>5
  <2> QED
    BY <2>1, <1>3, <1>5 DEF Locals, WithinRoom, PollsOnlyWhenDrained
<1>10. Leftovers'
  <2> SUFFICES ASSUME faults' = 0
               PROVE  /\ \A d \in Drivers : ring[d] # <<>> => revents'[d]
                      /\ \A d \in Passed' : ring[d] = <<>>
    BY <1>3 DEF Leftovers
  <2>1. ReadDone /\ faults = 0 /\ nb = got
    BY <1>2
  <2>2. pc = "process" /\ (got >= count \/ ring[driver] = <<>>)
    BY <2>1 DEF ReadDone
  <2>3. /\ \A d \in Drivers : ring[d] # <<>> => revents[d]
        /\ \A d \in 1 .. (driver - 1) : ring[d] = <<>>
        /\ revents[driver]
    BY <2>1, <2>2, <1>1 DEF Leftovers, Passed
  <2>4. \A d \in Drivers : ring[d] # <<>> => revents'[d]
    <3> TAKE d \in Drivers
    <3>1. CASE d = driver
      <4>1. revents'[driver] = (revents[driver] /\ got >= count)
        BY <1>1, <1>4, <1>6, <2>1 DEF ScalarsOK
      <4> QED
        BY <3>1, <4>1, <2>2, <2>3
    <3>2. CASE d # driver
      BY <3>2, <1>1, <1>6, <2>3 DEF ScalarsOK
    <3> QED
      BY <3>1, <3>2
  <2>5. \A d \in Passed' : ring[d] = <<>>
    <3>1. CASE count' = 0
      BY <3>1, <1>3 DEF Passed
    <3>2. CASE count' # 0
      <4>1. ring[driver] = <<>>
        BY <3>2, <1>3, <1>5, <2>1, <2>2
      <4>2. Passed' = 1 .. ((driver + 1) - 1)
        BY <3>2, <1>3 DEF Passed
      <4>3. \A d \in Passed' : d = driver \/ d \in 1 .. (driver - 1)
        BY <4>2, <1>4
      <4> QED
        BY <4>1, <4>3, <2>3
    <3> QED
      BY <3>1, <3>2
  <2> QED
    BY <2>4, <2>5
<1> QED
  BY <1>7, <1>8, <1>9, <1>10 DEF IInv, TypeOK

(* poll() sets POLLIN by the devices alone: it loses sight of no ring because   *)
(* all of them are empty.                                                       *)
LEMMA PollKeepsIInv ==
  ASSUME IInv, Poll
  PROVE  IInv'
<1>1. /\ QueuesOK /\ ScalarsOK
      /\ Locals /\ WithinRoom /\ Leftovers /\ PollsOnlyWhenDrained
  BY DEF IInv, TypeOK
<1>2. /\ pc = "poll" /\ ring' = ring /\ device' = device
      /\ mPendingMask' = mPendingMask /\ out' = out /\ mEnabled' = mEnabled
      /\ got' = got /\ wakeDue' = wakeDue
      /\ reports' = reports /\ activations' = activations
      /\ driver' = 1
  BY DEF Poll, input, bounds, Return
<1>3. got = 0
  BY <1>1, <1>2 DEF Locals
<1>4. QueuesOK'
  BY <1>1, <1>2 DEF QueuesOK
<1>5. faults' \in 0..MaxFaults /\ (faults' = 0 => faults = 0)
  BY <1>1, FailsFacts DEF Poll, ScalarsOK
<1>6. revents' \in [Drivers -> BOOLEAN] /\ wakePipe' \in Nat
  <2>1. revents' \in [Drivers -> BOOLEAN]
    <3>1. revents \in [Drivers -> BOOLEAN]
      BY <1>1 DEF ScalarsOK
    <3> DEFINE marked == [d \in Drivers |-> d \in {e \in Drivers : device[e] # <<>>}]
    <3>2. marked \in [Drivers -> BOOLEAN]
      OBVIOUS
    <3>3. [d \in Drivers |-> FALSE] \in [Drivers -> BOOLEAN]
      OBVIOUS
    <3>4. \/ revents' = revents \/ revents' = [d \in Drivers |-> FALSE]
          \/ revents' = marked
      BY DEF Poll
    <3> HIDE DEF marked
    <3> QED
      BY <3>1, <3>2, <3>3, <3>4
  <2>2. wakePipe' \in Nat
    BY <1>1 DEF Poll, ScalarsOK
  <2> QED
    BY <2>1, <2>2
<1>7. \/ pc' = "scan" /\ UNCHANGED locals
      \/ pc' = "idle" /\ room' = 0 /\ count' = 0 /\ nbEvents' = 0
  BY DEF Poll, Return
<1>8. ScalarsOK'
  BY <1>1, <1>2, <1>5, <1>6, <1>7, SensorsAssumption DEF ScalarsOK, locals
<1>9. Locals' /\ WithinRoom' /\ PollsOnlyWhenDrained'
  BY <1>1, <1>2, <1>3, <1>7 DEF Locals, WithinRoom, PollsOnlyWhenDrained, locals
<1>10. Leftovers'
  <2>1. faults' = 0 => \A d \in Drivers : ring'[d] = <<>>
    BY <1>1, <1>2, <1>5 DEF PollsOnlyWhenDrained
  <2>2. Passed' \subseteq {}
    BY <1>2, <1>7 DEF Passed
  <2>3. pc' \notin {"fill", "process"}
    BY <1>7
  <2> QED
    BY <2>1, <2>2, <2>3 DEF Leftovers
<1> QED
  BY <1>4, <1>8, <1>9, <1>10 DEF IInv, TypeOK

(* IInv is an invariant: the types, the accounts of pollEvents() and what the   *)
(* rings may hold at each point of a call.                                      *)
THEOREM PollInvariant == Spec => []IInv
<1>1. IInv /\ [Next]_vars => IInv'
  <2> SUFFICES ASSUME IInv, [Next]_vars PROVE IInv'
    OBVIOUS
  <2>1. CASE \E d \in Drivers : Report(d)
    BY <2>1, ReportKeepsIInv
  <2>2. CASE \/ \E h \in AllHandles, enabled \in BOOLEAN : SetEnable(h, enabled)
             \/ SendWake
    BY <2>2, ActivateKeepsIInv
  <2>3. CASE PollThread
    BY <2>3, ScanKeepsIInv, FillKeepsIInv, ProcessKeepsIInv, AccountKeepsIInv,
       PollKeepsIInv DEF PollThread
  <2>4. CASE UNCHANGED vars
    <3>1. QueuesOK' /\ ScalarsOK'
      BY <2>4 DEF IInv, TypeOK, QueuesOK, ScalarsOK, vars, input, locals, bounds
    <3>2. Locals' /\ WithinRoom' /\ Leftovers' /\ PollsOnlyWhenDrained'
      BY <2>4, SameScan DEF IInv, vars, input
    <3> QED
      BY <3>1, <3>2 DEF IInv, TypeOK
  <2> QED
    BY <2>1, <2>2, <2>3, <2>4 DEF Next
<1> QED
  BY InitIInv, <1>1, PTL DEF Spec

(* Every variable keeps its type and every ring its capacity, with any number   *)
(* of drivers and reports.                                                      *)
THEOREM PollTypes == Spec => []TypeOK
<1>1. IInv => TypeOK
  BY DEF IInv
<1> QED
  BY PollInvariant, <1>1, PTL

(* pollEvents() never stores past the end of the framework's array, whatever    *)
(* the room, the drivers and the reads that fail (sensors.cpp:250-257).         *)
THEOREM PollWithinRoom == Spec => []WithinRoom
<1>1. IInv => WithinRoom
  BY DEF IInv
<1> QED
  BY PollInvariant, <1>1, PTL

(* Without failed calls, pollEvents() turns to poll() only with empty rings     *)
(* (sensors.cpp:246-258).                                                       *)
THEOREM PollDrained == Spec => []PollsOnlyWhenDrained
<1>1. IInv => PollsOnlyWhenDrained
  BY DEF IInv
<1> QED
  BY PollInvariant, <1>1, PTL

-------------------------------------------------------------------------------
(* The streams of input events, for the refinement.  The lemmas are about any   *)
(* stream s, any mask and what a step makes of them.                            *)

LEMMA TimesMember ==
  ASSUME NEW s, NEW mask, NEW h, NEW t
  PROVE  t \in TimesOf(s, mask, h) <=>
           \E p \in 1..Len(s) : Carries(s, mask, h, p) /\ t = s[p].time
BY DEF TimesOf

(* Event p is the EV_SYN of a report that marks h behind the first EV_SYN.      *)
Behind(s, h, p) ==
  /\ IsSyn(s[p])
  /\ \E j \in 2 .. (p - 1) : /\ h \in s[j].marks
                             /\ \A k \in (j + 1) .. (p - 1) : ~IsSyn(s[k])

(* The first event of a stream is an EV_SYN of h if h is marked before it, and  *)
(* the events behind an EV_SYN do not see what was marked before it.            *)
LEMMA CarriesFirst ==
  ASSUME NEW s, NEW mask, NEW h, IsSyn(s[1])
  PROVE  Carries(s, mask, h, 1) <=> h \in mask
BY DEF Carries

LEMMA CarriesBehind ==
  ASSUME NEW s, NEW mask, NEW h, NEW p \in Nat, p > 1, IsSyn(s[1]), s[1].marks = {}
  PROVE  Carries(s, mask, h, p) <=> Behind(s, h, p)
<1>1. ASSUME Carries(s, mask, h, p) PROVE Behind(s, h, p)
  <2>1. PICK j \in 0 .. (p - 1) : /\ h \in IF j = 0 THEN mask ELSE s[j].marks
                                  /\ \A k \in (j + 1) .. (p - 1) : ~IsSyn(s[k])
    BY <1>1 DEF Carries
  <2>2. j # 0
    BY <2>1
  <2>3. j # 1
    BY <2>1
  <2> QED
    BY <1>1, <2>1, <2>2, <2>3 DEF Carries, Behind
<1>2. ASSUME Behind(s, h, p) PROVE Carries(s, mask, h, p)
  BY <1>2 DEF Carries, Behind
<1> QED
  BY <1>1, <1>2

(* A report is added at the end: it is on its way to h, or is not for h, and    *)
(* nothing else changes.                                                        *)
LEMMA TimesGrow ==
  ASSUME NEW s, NEW ns, NEW mask, NEW h, NEW n \in Nat, NEW m \in Nat,
         Len(s) = n, Len(ns) = n + m + 1,
         \A p \in 1..n : ns[p] = s[p],
         \A p \in (n + 1) .. (n + m) : ~IsSyn(ns[p]),
         IsSyn(ns[n + m + 1])
  PROVE  TimesOf(ns, mask, h) \in {TimesOf(s, mask, h),
                                   TimesOf(s, mask, h) \cup {ns[n + m + 1].time}}
<1>1. ASSUME NEW p \in 1..n
      PROVE  Carries(ns, mask, h, p) <=> Carries(s, mask, h, p)
  <2>1. /\ ns[p] = s[p]
        /\ \A j \in 1 .. (p - 1) : ns[j] = s[j]
    OBVIOUS
  <2> QED
    BY <2>1 DEF Carries
<1>2. \A p \in 1..Len(ns) : p \in 1..n \/ p \in (n + 1) .. (n + m) \/ p = n + m + 1
  OBVIOUS
<1>3. \A p \in (n + 1) .. (n + m) : ~Carries(ns, mask, h, p)
  BY DEF Carries
<1>4. \A p \in 1..n : p \in 1..Len(ns)
  OBVIOUS
<1>5. n + m + 1 \in 1..Len(ns)
  OBVIOUS
<1>6. ASSUME NEW t
      PROVE  t \in TimesOf(ns, mask, h) <=>
               \/ t \in TimesOf(s, mask, h)
               \/ Carries(ns, mask, h, n + m + 1) /\ t = ns[n + m + 1].time
  BY <1>1, <1>2, <1>3, <1>4, <1>5, TimesMember
<1>7. CASE Carries(ns, mask, h, n + m + 1)
  <2>1. TimesOf(ns, mask, h) = TimesOf(s, mask, h) \cup {ns[n + m + 1].time}
    BY <1>6, <1>7
  <2> QED
    BY <2>1
<1>8. CASE ~Carries(ns, mask, h, n + m + 1)
  <2>1. TimesOf(ns, mask, h) = TimesOf(s, mask, h)
    BY <1>6, <1>8
  <2> QED
    BY <2>1
<1> QED
  BY <1>7, <1>8

(* An axis event is consumed: what it marks is marked before the rest.          *)
LEMMA TimesAfterAxis ==
  ASSUME NEW s, NEW ns, NEW mask, NEW h, NEW n \in Nat,
         Len(s) = n + 1, Len(ns) = n, \A p \in 1..n : ns[p] = s[p + 1], ~IsSyn(s[1])
  PROVE  TimesOf(ns, mask \cup s[1].marks, h) = TimesOf(s, mask, h)
<1> DEFINE nmask == mask \cup s[1].marks
<1>1. ASSUME NEW p \in 1..n, Carries(ns, nmask, h, p) PROVE Carries(s, mask, h, p + 1)
  <2>1. PICK j \in 0 .. (p - 1) : /\ h \in IF j = 0 THEN nmask ELSE ns[j].marks
                                  /\ \A k \in (j + 1) .. (p - 1) : ~IsSyn(ns[k])
    BY <1>1 DEF Carries
  <2>2. \A k \in (j + 2) .. p : ~IsSyn(s[k])
    <3>1. \A k \in (j + 2) .. p : k - 1 \in (j + 1) .. (p - 1) /\ ns[k - 1] = s[k]
      OBVIOUS
    <3> QED
      BY <2>1, <3>1
  <2>3. IsSyn(s[p + 1])
    BY <1>1 DEF Carries
  <2>4. CASE j = 0 /\ h \in mask
    <3>1. \A k \in 1..p : ~IsSyn(s[k])
      BY <2>2, <2>4
    <3> QED
      BY <2>3, <2>4, <3>1 DEF Carries
  <2>5. CASE h \in s[j + 1].marks
    <3>1. j + 1 \in 0..p /\ j + 1 # 0
      OBVIOUS
    <3> QED
      BY <2>2, <2>3, <2>5, <3>1 DEF Carries
  <2>6. j # 0 => ns[j] = s[j + 1]
    OBVIOUS
  <2> QED
    BY <2>1, <2>4, <2>5, <2>6
<1>2. ASSUME NEW p \in 1..n, Carries(s, mask, h, p + 1) PROVE Carries(ns, nmask, h, p)
  <2>1. PICK j \in 0..p : /\ h \in IF j = 0 THEN mask ELSE s[j].marks
                          /\ \A k \in (j + 1) .. p : ~IsSyn(s[k])
    BY <1>2 DEF Carries
  <2>2. IsSyn(ns[p])
    BY <1>2 DEF Carries
  <2>3. \A k \in 1 .. (p - 1) : k + 1 \in 2..p /\ ns[k] = s[k + 1]
    OBVIOUS
  <2>4. CASE j \in {0, 1}
    <3>1. h \in nmask
      BY <2>1, <2>4
    <3>2. \A k \in 1 .. (p - 1) : ~IsSyn(ns[k])
      BY <2>1, <2>3, <2>4
    <3> QED
      BY <2>2, <3>1, <3>2 DEF Carries
  <2>5. CASE j > 1
    <3>1. j - 1 \in 1 .. (p - 1) /\ h \in ns[j - 1].marks
      BY <2>1, <2>3, <2>5
    <3>2. \A k \in j .. (p - 1) : ~IsSyn(ns[k])
      BY <2>1, <2>3, <2>5
    <3> QED
      BY <2>2, <3>1, <3>2 DEF Carries
  <2> QED
    BY <2>4, <2>5
<1>3. ~Carries(s, mask, h, 1)
  BY DEF Carries
<1>4. \A p \in 1..n + 1 : p # 1 => p - 1 \in 1..n /\ (p - 1) + 1 = p
  OBVIOUS
<1>5. \A p \in 1..n : p + 1 \in 1..n + 1 /\ ns[p] = s[p + 1]
  OBVIOUS
<1> HIDE DEF nmask
<1>6. ASSUME NEW t PROVE t \in TimesOf(ns, nmask, h) <=> t \in TimesOf(s, mask, h)
  <2>1. ASSUME t \in TimesOf(ns, nmask, h) PROVE t \in TimesOf(s, mask, h)
    BY <1>1, <1>5, <2>1, TimesMember
  <2>2. ASSUME t \in TimesOf(s, mask, h) PROVE t \in TimesOf(ns, nmask, h)
    <3>1. PICK p \in 1..n + 1 : Carries(s, mask, h, p) /\ t = s[p].time
      BY <2>2, TimesMember
    <3>2. p - 1 \in 1..n /\ Carries(s, mask, h, (p - 1) + 1) /\ ns[p - 1] = s[p]
      BY <1>3, <1>4, <3>1
    <3> QED
      BY <1>2, <3>1, <3>2, TimesMember
  <2> QED
    BY <2>1, <2>2
<1>7. TimesOf(ns, nmask, h) = TimesOf(s, mask, h)
  BY <1>6
<1> QED
  BY <1>7 DEF nmask

(* The stream ns is s without its first event.                                  *)
TailOf(ns, s, n) == Len(s) = n + 1 /\ Len(ns) = n /\ \A p \in 1..n : ns[p] = s[p + 1]

(* s begins with an EV_SYN, and no later one has its time.                      *)
SynFirst(s, n) ==
  /\ IsSyn(s[1]) /\ s[1].marks = {}
  /\ \A p \in 2 .. (n + 1) : IsSyn(s[p]) => s[p].time # s[1].time

(* An EV_SYN is consumed, and with it what is marked for it.                    *)
LEMMA TimesAfterSyn ==
  ASSUME NEW s, NEW ns, NEW mask, NEW h, NEW n \in Nat, TailOf(ns, s, n), SynFirst(s, n)
  PROVE  TimesOf(ns, {}, h) = TimesOf(s, mask, h) \ {s[1].time}
<1> USE DEF TailOf, SynFirst
<1>1. ASSUME NEW p \in 1..n, Carries(ns, {}, h, p) PROVE Carries(s, mask, h, p + 1)
  <2>1. PICK j \in 0 .. (p - 1) : /\ h \in IF j = 0 THEN {} ELSE ns[j].marks
                                  /\ \A k \in (j + 1) .. (p - 1) : ~IsSyn(ns[k])
    BY <1>1 DEF Carries
  <2>2. j # 0 /\ h \in ns[j].marks /\ ns[j] = s[j + 1] /\ j + 1 \in 0..p /\ j + 1 # 0
    BY <2>1
  <2>3. \A k \in (j + 2) .. p : k - 1 \in (j + 1) .. (p - 1) /\ ns[k - 1] = s[k]
    OBVIOUS
  <2>4. \A k \in (j + 2) .. p : ~IsSyn(s[k])
    BY <2>1, <2>3
  <2>5. IsSyn(s[p + 1])
    BY <1>1 DEF Carries
  <2> QED
    BY <2>2, <2>4, <2>5 DEF Carries
<1>2. ASSUME NEW p \in 1..n, Carries(s, mask, h, p + 1) PROVE Carries(ns, {}, h, p)
  <2>0. p + 1 \in Nat /\ p + 1 > 1
    OBVIOUS
  <2>1. PICK j \in 2..p : h \in s[j].marks /\ \A k \in (j + 1) .. p : ~IsSyn(s[k])
    <3>0. IsSyn(s[1]) /\ s[1].marks = {}
      OBVIOUS
    <3> HIDE DEF TailOf, SynFirst
    <3>1. Behind(s, h, p + 1)
      BY <1>2, <2>0, <3>0, CarriesBehind
    <3> QED
      BY <3>1 DEF Behind
  <2>2. j - 1 \in 0 .. (p - 1) /\ j - 1 # 0 /\ ns[j - 1] = s[j] /\ IsSyn(ns[p])
    BY <1>2 DEF Carries
  <2>3. \A k \in j .. (p - 1) : k + 1 \in (j + 1) .. p /\ ns[k] = s[k + 1]
    OBVIOUS
  <2>4. \A k \in j .. (p - 1) : ~IsSyn(ns[k])
    BY <2>1, <2>3
  <2> QED
    BY <2>1, <2>2, <2>4 DEF Carries
<1>3. \A p \in 1..n + 1 : p # 1 => p - 1 \in 1..n /\ (p - 1) + 1 = p /\ p \in 2 .. (n + 1)
  OBVIOUS
<1>4. \A p \in 1..n : p + 1 \in 1..n + 1 /\ p + 1 \in 2 .. (n + 1) /\ ns[p] = s[p + 1]
  OBVIOUS
<1>5. ASSUME NEW t \in TimesOf(ns, {}, h) PROVE t \in TimesOf(s, mask, h) \ {s[1].time}
  <2>1. PICK p \in 1..n : Carries(ns, {}, h, p) /\ t = ns[p].time
    BY <1>5, TimesMember
  <2>2. Carries(s, mask, h, p + 1) /\ t = s[p + 1].time /\ IsSyn(s[p + 1])
    BY <1>1, <1>4, <2>1 DEF Carries
  <2> QED
    BY <1>4, <2>2, TimesMember
<1>6. ASSUME NEW t \in TimesOf(s, mask, h), t # s[1].time PROVE t \in TimesOf(ns, {}, h)
  <2>1. PICK p \in 1..n + 1 : Carries(s, mask, h, p) /\ t = s[p].time
    BY TimesMember
  <2>2. p # 1
    BY <1>6, <2>1
  <2>3. p - 1 \in 1..n /\ Carries(s, mask, h, (p - 1) + 1) /\ ns[p - 1] = s[p]
    BY <1>3, <2>1, <2>2
  <2> QED
    BY <1>2, <2>1, <2>3, TimesMember
<1> QED
  BY <1>5, <1>6

(* An EV_SYN stays, and one handle is no longer marked for it.                  *)
LEMMA TimesUnmarked ==
  ASSUME NEW s, NEW mask, NEW nmask, NEW h, NEW n \in Nat, Len(s) = n + 1,
         IsSyn(s[1]), s[1].marks = {}, nmask \subseteq mask,
         \A p \in 2 .. (n + 1) : IsSyn(s[p]) => s[p].time # s[1].time
  PROVE  TimesOf(s, nmask, h) = IF h \in mask \ nmask THEN TimesOf(s, mask, h) \ {s[1].time}
                                ELSE TimesOf(s, mask, h)
<1>1. \A p \in 1..n + 1 : p # 1 => p \in Nat /\ p > 1 /\ p \in 2 .. (n + 1)
  OBVIOUS
<1>2. 1 \in 1..n + 1
  OBVIOUS
<1>3. \A p \in 1..n + 1 : p # 1 => (Carries(s, nmask, h, p) <=> Carries(s, mask, h, p))
  <2>1. ASSUME NEW p \in Nat, p > 1
        PROVE  Carries(s, nmask, h, p) <=> Carries(s, mask, h, p)
    <3>1. Carries(s, nmask, h, p) <=> Behind(s, h, p)
      BY <2>1, CarriesBehind
    <3>2. Carries(s, mask, h, p) <=> Behind(s, h, p)
      BY <2>1, CarriesBehind
    <3> QED
      BY <3>1, <3>2
  <2> QED
    BY <1>1, <2>1
<1>4. /\ Carries(s, nmask, h, 1) <=> h \in nmask
      /\ Carries(s, mask, h, 1) <=> h \in mask
  BY CarriesFirst
<1>5. \A p \in 1..n + 1 : p # 1 /\ Carries(s, mask, h, p) => s[p].time # s[1].time
  BY <1>1 DEF Carries
<1>6. CASE h \in mask \ nmask
  <2>1. ASSUME NEW t PROVE t \in TimesOf(s, nmask, h) <=>
                             t \in TimesOf(s, mask, h) /\ t # s[1].time
    BY <1>2, <1>3, <1>4, <1>5, <1>6, TimesMember
  <2> QED
    BY <1>6, <2>1
<1>7. CASE h \notin mask \ nmask
  <2>1. ASSUME NEW t PROVE t \in TimesOf(s, nmask, h) <=> t \in TimesOf(s, mask, h)
    BY <1>2, <1>3, <1>4, <1>7, TimesMember
  <2> QED
    BY <1>7, <2>1
<1> QED
  BY <1>6, <1>7

(* The EV_SYN at the head of a stream is the oldest report of it.               *)
LEMMA HeadIsOldest ==
  ASSUME NEW s, NEW mask, NEW h, NEW n \in Nat, Len(s) = n + 1,
         IsSyn(s[1]), s[1].marks = {}, s[1].time \in Nat,
         \A p \in 2 .. (n + 1) : IsSyn(s[p]) => s[p].time \in Nat /\ s[1].time < s[p].time
  PROVE  /\ s[1].time \in TimesOf(s, mask, h) <=> h \in mask
         /\ \A t \in TimesOf(s, mask, h) : s[1].time <= t
<1>1. \A p \in 1..n + 1 : p # 1 => p \in 2 .. (n + 1)
  OBVIOUS
<1>2. 1 \in 1..n + 1
  OBVIOUS
<1>3. Carries(s, mask, h, 1) <=> h \in mask
  BY CarriesFirst
<1>4. \A p \in 1..n + 1 : Carries(s, mask, h, p) => p = 1 \/ s[1].time < s[p].time
  BY <1>1 DEF Carries
<1>5. \A p \in 1..n + 1 : Carries(s, mask, h, p) => p = 1 \/ s[p].time # s[1].time
  BY <1>1 DEF Carries
<1>6. s[1].time \in TimesOf(s, mask, h) <=> h \in mask
  BY <1>2, <1>3, <1>5, TimesMember
<1>7. ASSUME NEW t \in TimesOf(s, mask, h) PROVE s[1].time <= t
  <2>1. PICK p \in 1..n + 1 : Carries(s, mask, h, p) /\ t = s[p].time
    BY TimesMember
  <2>2. CASE p = 1
    BY <2>1, <2>2
  <2>3. CASE p # 1
    <3>1. IsSyn(s[p]) /\ p \in 2 .. (n + 1)
      BY <1>1, <2>1, <2>3 DEF Carries
    <3> QED
      BY <2>1, <3>1
  <2> QED
    BY <2>2, <2>3
<1> QED
  BY <1>6, <1>7

-------------------------------------------------------------------------------
(* The streams of the drivers.                                                  *)

LEMMA Owner ==
  /\ \A h \in AllHandles : Driver(h) \in Drivers /\ h \in Handles[Driver(h)]
  /\ \A d \in Drivers : \A h \in Handles[d] : h \in AllHandles /\ Driver(h) = d
<1>1. ASSUME NEW h \in AllHandles PROVE Driver(h) \in Drivers /\ h \in Handles[Driver(h)]
  <2>1. \E d \in Drivers : h \in Handles[d]
    BY DEF AllHandles
  <2> QED
    BY <2>1 DEF Driver
<1>2. ASSUME NEW d \in Drivers, NEW h \in Handles[d] PROVE h \in AllHandles /\ Driver(h) = d
  <2>1. h \in AllHandles
    BY DEF AllHandles
  <2>2. Driver(h) \in Drivers /\ h \in Handles[Driver(h)]
    BY <1>1, <2>1
  <2> QED
    BY <2>1, <2>2, SensorsAssumption
<1> QED
  BY <1>1, <1>2

LEMMA InFlightPrimed ==
  ASSUME NEW h \in AllHandles, NEW d, d = Driver(h),
         NEW s, NEW mask, s = Stream(d)', mask = mPendingMask'[d]
  PROVE  InFlight(h)' = TimesOf(s, mask, h)
BY DEF InFlight, Stream, Driver

LEMMA StreamTyped ==
  ASSUME IInv, NEW d \in Drivers
  PROVE  /\ ring[d] \in Seq(InputEvents) /\ device[d] \in Seq(InputEvents)
         /\ Stream(d) \in Seq(InputEvents)
         /\ Len(Stream(d)) = Len(ring[d]) + Len(device[d])
         /\ Len(ring[d]) \in Nat /\ Len(device[d]) \in Nat
         /\ \A p \in 1..Len(ring[d]) : Stream(d)[p] = ring[d][p]
         /\ \A p \in 1..Len(device[d]) : Stream(d)[Len(ring[d]) + p] = device[d][p]
<1>1. ring[d] \in Seq(InputEvents) /\ device[d] \in Seq(InputEvents)
  BY DEF IInv, TypeOK, QueuesOK
<1>2. PICK a \in Seq(InputEvents), b \in Seq(InputEvents) : a = ring[d] /\ b = device[d]
  BY <1>1
<1>3. Len(a) \in Nat /\ Len(b) \in Nat
  OBVIOUS
<1>4. /\ a \o b \in Seq(InputEvents) /\ Len(a \o b) = Len(a) + Len(b)
      /\ \A i \in 1..Len(a) + Len(b) : (a \o b)[i] = IF i <= Len(a) THEN a[i] ELSE b[i - Len(a)]
  BY ConcatProperties
<1>5. \A p \in 1..Len(a) : (a \o b)[p] = a[p]
  BY <1>3, <1>4
<1>6. \A p \in 1..Len(b) : (a \o b)[Len(a) + p] = b[p]
  <2>1. \A p \in 1..Len(b) : /\ Len(a) + p \in 1..Len(a) + Len(b)
                              /\ ~(Len(a) + p <= Len(a)) /\ (Len(a) + p) - Len(a) = p
    BY <1>3
  <2> QED
    BY <1>4, <2>1
<1> QED
  BY <1>2, <1>3, <1>4, <1>5, <1>6 DEF Stream

(* A step that moves no event changes nothing.                                  *)
LEMMA QuietKeeps ==
  ASSUME StreamsOrdered, \A d \in Drivers : Stream(d)' = Stream(d),
         UNCHANGED <<mPendingMask, out, reports>>
  PROVE  StreamsOrdered' /\ \A h \in AllHandles : InFlight(h)' = InFlight(h)
<1>1. StreamsOrdered'
  BY DEF StreamsOrdered, Ordered
<1>2. ASSUME NEW h \in AllHandles PROVE InFlight(h)' = InFlight(h)
  BY Owner, InFlightPrimed DEF InFlight
<1> QED
  BY <1>1, <1>2

(* read() moves events from the device to the ring: the stream stays.           *)
LEMMA FillKeepsStreams ==
  ASSUME IInv, Fill
  PROVE  \A d \in Drivers : Stream(d)' = Stream(d)
<1> SUFFICES ASSUME NEW d \in Drivers PROVE Stream(d)' = Stream(d)
  OBVIOUS
<1>0. driver \in Drivers
  BY DEF Fill, IInv, TypeOK, ScalarsOK
<1>1. CASE UNCHANGED <<ring, device>>
  BY <1>1 DEF Stream
<1>2. CASE \E k \in 1..Len(device[driver]) :
             /\ ring' = [ring EXCEPT ![driver] = @ \o SubSeq(device[driver], 1, k)]
             /\ device' = [device EXCEPT ![driver] = SubSeq(@, k + 1, Len(@))]
  <2>1. PICK k \in 1..Len(device[driver]) :
             /\ ring' = [ring EXCEPT ![driver] = @ \o SubSeq(device[driver], 1, k)]
             /\ device' = [device EXCEPT ![driver] = SubSeq(@, k + 1, Len(@))]
    BY <1>2
  <2>2. ring \in [Drivers -> Seq(InputEvents)] /\ device \in [Drivers -> Seq(InputEvents)]
    BY DEF IInv, TypeOK, QueuesOK
  <2>3. CASE d # driver
    BY <2>1, <2>2, <2>3 DEF Stream
  <2>4. CASE d = driver
    <3>1. PICK a \in Seq(InputEvents), b \in Seq(InputEvents) : a = ring[d] /\ b = device[d]
      BY <2>2
    <3>2. Stream(d)' = (a \o SubSeq(b, 1, k)) \o SubSeq(b, k + 1, Len(b))
      BY <2>1, <2>2, <2>4, <3>1 DEF Stream
    <3>3. k \in 1..Len(b)
      BY <2>4, <3>1
    <3>4. (a \o SubSeq(b, 1, k)) \o SubSeq(b, k + 1, Len(b)) = a \o b
      <4>1. Len(b) \in Nat
        OBVIOUS
      <4>2. /\ 1 \in 1..Len(b) + 1 /\ k \in 1 - 1..Len(b) /\ Len(b) \in k..Len(b)
            /\ k \in Int /\ k + 1 \in Int /\ Len(b) \in Int
            /\ \A i \in 1..k : b[i] \in InputEvents
            /\ \A i \in k + 1..Len(b) : b[i] \in InputEvents
        BY <3>3, <4>1
      <4>3. SubSeq(b, 1, k) \in Seq(InputEvents)
        BY <4>2, SubSeqProperties
      <4>4. SubSeq(b, k + 1, Len(b)) \in Seq(InputEvents)
        BY <4>2, SubSeqProperties
      <4>5. SubSeq(b, 1, k) \o SubSeq(b, k + 1, Len(b)) = SubSeq(b, 1, Len(b))
        BY <4>2, ConcatAdjacentSubSeq
      <4>6. SubSeq(b, 1, Len(b)) = b
        BY SubSeqFull
      <4>7. (a \o SubSeq(b, 1, k)) \o SubSeq(b, k + 1, Len(b))
              = a \o (SubSeq(b, 1, k) \o SubSeq(b, k + 1, Len(b)))
        <5>1. ASSUME NEW x \in Seq(InputEvents), NEW y \in Seq(InputEvents)
              PROVE  (a \o x) \o y = a \o (x \o y)
          OBVIOUS
        <5> QED
          BY <4>3, <4>4, <5>1
      <4> QED
        BY <4>5, <4>6, <4>7
    <3> QED
      BY <3>1, <3>2, <3>4 DEF Stream
  <2> QED
    BY <2>3, <2>4
<1> QED
  BY <1>1, <1>2 DEF Fill

(* The events of a report come behind those there are.                          *)
Grows(d, ns, n, m) ==
  /\ n = Len(Stream(d)) /\ Len(ns) = n + m + 1
  /\ \A p \in 1..n : ns[p] = Stream(d)[p]
  /\ \A p \in (n + 1) .. (n + m) : ~IsSyn(ns[p]) /\ ns[p].marks \subseteq Handles[d]
  /\ ns[n + m + 1] = Syn(reports + 1)

(* c is a followed by b.                                                        *)
Join(c, a, b) ==
  /\ c \in Seq(InputEvents) /\ Len(a) \in Nat /\ Len(b) \in Nat
  /\ Len(c) = Len(a) + Len(b)
  /\ \A p \in 1..Len(a) + Len(b) : c[p] = IF p <= Len(a) THEN a[p] ELSE b[p - Len(a)]

LEMMA Joined ==
  ASSUME NEW a \in Seq(InputEvents), NEW b \in Seq(InputEvents)
  PROVE  Join(a \o b, a, b)
<1>1. Len(a) \in Nat /\ Len(b) \in Nat
  OBVIOUS
<1> QED
  BY <1>1, ConcatProperties DEF Join

LEMMA Regrouped ==
  ASSUME NEW a \in Seq(InputEvents), NEW b \in Seq(InputEvents), NEW c \in Seq(InputEvents)
  PROVE  (a \o b) \o c = a \o (b \o c)
OBVIOUS

Rebracketed(a, b, c) == (a \o b) \o c = a \o (b \o c)

LEMMA Rebracket ==
  ASSUME NEW a \in Seq(InputEvents), NEW b \in Seq(InputEvents), NEW c \in Seq(InputEvents)
  PROVE  Rebracketed(a, b, c)
BY Regrouped, Zenon DEF Rebracketed

LEMMA AppendedEvents ==
  ASSUME NEW s, NEW x, NEW w, Len(w) = 1, NEW y, Join(y, s, x), NEW z, Join(z, y, w)
  PROVE  /\ Len(z) = Len(s) + Len(x) + 1
         /\ \A p \in 1..Len(s) : z[p] = s[p]
         /\ \A p \in 1..Len(x) : z[Len(s) + p] = x[p]
         /\ z[Len(s) + Len(x) + 1] = w[1]
<1>1. /\ Len(s) \in Nat /\ Len(x) \in Nat /\ Len(y) = Len(s) + Len(x)
      /\ \A p \in 1..Len(s) + Len(x) : y[p] = IF p <= Len(s) THEN s[p] ELSE x[p - Len(s)]
  BY DEF Join
<1>2. /\ Len(z) = Len(y) + Len(w)
      /\ \A p \in 1..Len(y) + Len(w) : z[p] = IF p <= Len(y) THEN y[p] ELSE w[p - Len(y)]
  BY DEF Join
<1>3. \A p \in 1..Len(y) : p \in 1..Len(y) + Len(w) /\ p <= Len(y)
  BY <1>1
<1>4. /\ Len(y) + 1 \in 1..Len(y) + Len(w)
      /\ ~(Len(y) + 1 <= Len(y)) /\ (Len(y) + 1) - Len(y) = 1
  BY <1>1
<1>5. Len(z) = Len(y) + 1 /\ z[Len(y) + 1] = w[1] /\ \A p \in 1..Len(y) : z[p] = y[p]
  BY <1>2, <1>3, <1>4
<1>6. ASSUME NEW p \in 1..Len(s) PROVE z[p] = s[p]
  <2>1. p \in 1..Len(s) + Len(x) /\ p \in 1..Len(y) /\ p <= Len(s)
    BY <1>1
  <2> QED
    BY <1>1, <1>5, <2>1
<1>7. ASSUME NEW p \in 1..Len(x) PROVE z[Len(s) + p] = x[p]
  <2>1. /\ Len(s) + p \in 1..Len(s) + Len(x) /\ ~(Len(s) + p <= Len(s))
        /\ (Len(s) + p) - Len(s) = p /\ Len(s) + p \in 1..Len(y)
    BY <1>1
  <2> QED
    BY <1>1, <1>5, <2>1
<1> QED
  BY <1>1, <1>5, <1>6, <1>7

LEMMA ReportStream ==
  ASSUME IInv, NEW d \in Drivers, Report(d)
  PROVE  /\ \A e \in Drivers \ {d} : Stream(e)' = Stream(e)
         /\ \E n \in Nat, m \in Nat : Grows(d, Stream(d)', n, m)
<1>1. QueuesOK
  BY DEF IInv, TypeOK
<1>2. reports + 1 \in 0..MaxReports /\ reports' = reports + 1
  BY SensorsAssumption DEF Report, IInv, TypeOK, ScalarsOK
<1>3. PICK r \in Reports[d] :
        device' = [device EXCEPT ![d] = @ \o [j \in 1..Len(r) |-> Axis(r[j])]
                                          \o <<Syn(reports')>>]
  BY DEF Report
<1>4. PICK x : x = [j \in 1..Len(r) |-> Axis(r[j])]
  OBVIOUS
<1>5. /\ r \in Seq(SUBSET Handles[d]) /\ Len(r) \in Nat
      /\ \A j \in 1..Len(r) : r[j] \in SUBSET Handles[d]
  <2>1. r \in Seq(SUBSET Handles[d])
    BY SensorsAssumption
  <2> QED
    BY <2>1, LenProperties, ElementOfSeq
<1>6. /\ x \in Seq(InputEvents) /\ Len(x) = Len(r)
      /\ \A p \in 1..Len(x) : ~IsSyn(x[p]) /\ x[p].marks \subseteq Handles[d]
  <2>1. \A j \in 1..Len(r) : /\ Axis(r[j]) \in InputEvents
                             /\ ~IsSyn(Axis(r[j])) /\ Axis(r[j]).marks \subseteq Handles[d]
    BY <1>5, SensorsAssumption DEF Axis, InputEvents, AllHandles, IsSyn
  <2>2. x \in Seq(InputEvents) /\ Len(x) = Len(r)
    BY <1>4, <1>5, <2>1
  <2> QED
    BY <1>4, <2>1, <2>2
<1>7. PICK w \in Seq(InputEvents) : /\ w = <<Syn(reports + 1)>> /\ Len(w) = 1
                                    /\ w[1] = Syn(reports + 1)
  <2>1. Syn(reports + 1) \in InputEvents
    BY <1>2 DEF Syn, InputEvents
  <2>2. <<Syn(reports + 1)>> \in Seq(InputEvents)
    BY <2>1
  <2>3. Len(<<Syn(reports + 1)>>) = 1 /\ <<Syn(reports + 1)>>[1] = Syn(reports + 1)
    OBVIOUS
  <2> QED
    BY <2>2, <2>3
<1>8. PICK a \in Seq(InputEvents), b \in Seq(InputEvents) : a = ring[d] /\ b = device[d]
  BY <1>1 DEF QueuesOK
<1>9. /\ ring' = ring
      /\ device' = [device EXCEPT ![d] = (b \o x) \o w]
  BY <1>2, <1>3, <1>4, <1>7, <1>8 DEF Report
<1>10. PICK st \in Seq(InputEvents), y \in Seq(InputEvents), z \in Seq(InputEvents) :
          /\ st = a \o b /\ y = a \o (b \o x) /\ z = a \o ((b \o x) \o w)
          /\ Join(y, st, x) /\ Join(z, y, w)
  <2>1. /\ a \o b \in Seq(InputEvents) /\ b \o x \in Seq(InputEvents)
        /\ (a \o b) \o x \in Seq(InputEvents)
    BY <1>6, <1>8, Joined DEF Join
  <2>2. (a \o b) \o x = a \o (b \o x)
    BY <1>6, <1>8, Regrouped
  <2>3. (a \o (b \o x)) \o w = a \o ((b \o x) \o w)
    <3>1. Rebracketed(a, b \o x, w)
      BY <1>7, <1>8, <2>1, Rebracket
    <3> QED
      BY <3>1, Zenon DEF Rebracketed
  <2>4. Join(a \o (b \o x), a \o b, x)
    BY <1>6, <2>1, <2>2, Joined
  <2>5. a \o (b \o x) \in Seq(InputEvents)
    BY <2>1, <2>2
  <2>6. Join(a \o ((b \o x) \o w), a \o (b \o x), w)
    BY <1>7, <2>3, <2>5, Joined
  <2>7. a \o ((b \o x) \o w) \in Seq(InputEvents)
    BY <2>6 DEF Join
  <2> QED
    BY <2>1, <2>4, <2>5, <2>6, <2>7
<1>11. Stream(d)' = z
  BY <1>1, <1>8, <1>9, <1>10 DEF QueuesOK, Stream
<1>12. Grows(d, z, Len(st), Len(x)) /\ Len(st) \in Nat /\ Len(x) \in Nat
  <2>0. Stream(d) = st /\ Len(st) \in Nat /\ Len(x) \in Nat
    BY <1>8, <1>10 DEF Stream, Join
  <2>1. /\ Len(z) = Len(st) + Len(x) + 1
        /\ \A p \in 1..Len(st) : z[p] = st[p]
        /\ \A p \in 1..Len(x) : z[Len(st) + p] = x[p]
        /\ z[Len(st) + Len(x) + 1] = w[1]
    BY <1>7, <1>10, AppendedEvents
  <2>2. ASSUME NEW p \in (Len(st) + 1) .. (Len(st) + Len(x))
        PROVE  ~IsSyn(z[p]) /\ z[p].marks \subseteq Handles[d]
    <3>1. p - Len(st) \in 1..Len(x) /\ Len(st) + (p - Len(st)) = p
      BY <2>0
    <3>2. PICK q \in 1..Len(x) : Len(st) + q = p
      BY <3>1
    <3>3. z[p] = x[q]
      BY <2>1, <3>2
    <3> QED
      BY <1>6, <3>3
  <2> QED
    BY <1>7, <2>0, <2>1, <2>2 DEF Grows
<1>13. \A q \in Drivers \ {d} : Stream(q)' = Stream(q)
  BY <1>1, <1>9 DEF QueuesOK, Stream
<1> QED
  BY <1>11, <1>12, <1>13

(* next() takes the head of the stream.                                         *)
LEMMA TailStream ==
  ASSUME IInv, NEW d \in Drivers, ring[d] # <<>>, device' = device,
         ring' = [ring EXCEPT ![d] = Tail(@)]
  PROVE  /\ \A e \in Drivers \ {d} : Stream(e)' = Stream(e)
         /\ \E n \in Nat : /\ Len(Stream(d)) = n + 1 /\ Len(Stream(d)') = n
                           /\ \A p \in 1..n : Stream(d)'[p] = Stream(d)[p + 1]
<1>1. ring \in [Drivers -> Seq(InputEvents)] /\ device \in [Drivers -> Seq(InputEvents)]
  BY DEF IInv, TypeOK, QueuesOK
<1>2. PICK a \in Seq(InputEvents), b \in Seq(InputEvents) : a = ring[d] /\ b = device[d]
  BY <1>1
<1>3. PICK t \in Seq(InputEvents) : t = Tail(a)
  BY <1>2, HeadTailProperties
<1>4. /\ Len(a) \in Nat /\ Len(b) \in Nat /\ Len(t) = Len(a) - 1 /\ Len(t) \in Nat
      /\ \A p \in 1..Len(t) : t[p] = a[p + 1]
  BY <1>2, <1>3, HeadTailProperties, LenProperties
<1>5. Stream(d)' = t \o b /\ Stream(d) = a \o b
  <2>1. ring'[d] = t /\ device'[d] = b
    BY <1>1, <1>2, <1>3
  <2> QED
    BY <1>2, <2>1 DEF Stream
<1>6. PICK s, ns : s = a \o b /\ ns = t \o b
  OBVIOUS
<1>7. /\ Len(s) = Len(a) + Len(b)
      /\ \A i \in 1..Len(a) + Len(b) : s[i] = IF i <= Len(a) THEN a[i] ELSE b[i - Len(a)]
  BY <1>6, ConcatProperties
<1>8. /\ Len(ns) = Len(t) + Len(b)
      /\ \A i \in 1..Len(t) + Len(b) : ns[i] = IF i <= Len(t) THEN t[i] ELSE b[i - Len(t)]
  BY <1>6, ConcatProperties
<1>9. ASSUME NEW p \in 1..Len(t) + Len(b) PROVE ns[p] = s[p + 1]
  <2>1. p + 1 \in 1..Len(a) + Len(b) /\ (p <= Len(t) <=> p + 1 <= Len(a))
        /\ (p + 1) - Len(a) = p - Len(t)
    BY <1>4
  <2>2. CASE p <= Len(t)
    BY <1>4, <1>7, <1>8, <2>1, <2>2
  <2>3. CASE ~(p <= Len(t))
    BY <1>7, <1>8, <2>1, <2>3
  <2> QED
    BY <2>2, <2>3
<1>10. \A e \in Drivers \ {d} : Stream(e)' = Stream(e)
  BY <1>1 DEF Stream
<1>11. Len(s) = (Len(t) + Len(b)) + 1 /\ Len(t) + Len(b) \in Nat
  BY <1>4, <1>7
<1> QED
  BY <1>5, <1>6, <1>8, <1>9, <1>10, <1>11


-------------------------------------------------------------------------------
(* The order of a stream, with the clock as a parameter.                        *)
Order(s, own, r) ==
  \A p \in 1..Len(s) :
    /\ s[p].marks \subseteq own
    /\ IsSyn(s[p]) =>
         /\ s[p].marks = {} /\ s[p].time <= r
         /\ \A q \in 1 .. (p - 1) : IsSyn(s[q]) => s[q].time < s[p].time

LEMMA OrderedIsOrder ==
  /\ \A d \in Drivers : Ordered(Stream(d), Handles[d]) <=> Order(Stream(d), Handles[d], reports)
  /\ \A d \in Drivers : Ordered(Stream(d), Handles[d])' <=> Order(Stream(d)', Handles[d], reports')
BY DEF Ordered, Order

(* A report is younger than every report before it.                             *)
LEMMA OrderGrows ==
  ASSUME NEW s \in Seq(InputEvents), NEW ns, NEW own, NEW n \in Nat, NEW m \in Nat, NEW r \in Nat,
         Order(s, own, r), n = Len(s), Len(ns) = n + m + 1,
         \A p \in 1..n : ns[p] = s[p],
         \A p \in (n + 1) .. (n + m) : ~IsSyn(ns[p]) /\ ns[p].marks \subseteq own,
         ns[n + m + 1] = Syn(r + 1)
  PROVE  Order(ns, own, r + 1)
<1> SUFFICES ASSUME NEW p \in 1..Len(ns)
             PROVE  /\ ns[p].marks \subseteq own
                    /\ IsSyn(ns[p]) =>
                         /\ ns[p].marks = {} /\ ns[p].time <= r + 1
                         /\ \A q \in 1 .. (p - 1) : IsSyn(ns[q]) => ns[q].time < ns[p].time
  BY DEF Order
<1>0. \A q \in 1..n : s[q].time \in Nat
  <2>1. \A q \in 1..n : s[q] \in InputEvents
    BY ElementOfSeq
  <2> QED
    BY <2>1 DEF InputEvents
<1>1. CASE p \in 1..n
  <2>1. ns[p] = s[p] /\ \A q \in 1 .. (p - 1) : q \in 1..n /\ ns[q] = s[q]
    BY <1>1
  <2> QED
    BY <1>0, <1>1, <2>1 DEF Order
<1>2. CASE p \in (n + 1) .. (n + m)
  BY <1>2
<1>3. CASE p = n + m + 1
  <2>1. ns[p].marks = {} /\ ns[p].time = r + 1
    BY <1>3 DEF Syn
  <2>2. ASSUME NEW q \in 1 .. (p - 1), IsSyn(ns[q]) PROVE ns[q].time < ns[p].time
    <3>1. q \in 1..n
      BY <1>3, <2>2
    <3>2. ns[q] = s[q] /\ s[q].time <= r
      BY <2>2, <3>1 DEF Order
    <3> QED
      BY <1>0, <2>1, <3>1, <3>2
  <2> QED
    BY <2>1, <2>2
<1>4. p \in 1..n \/ p \in (n + 1) .. (n + m) \/ p = n + m + 1
  OBVIOUS
<1> QED
  BY <1>1, <1>2, <1>3, <1>4

LEMMA OrderOfTail ==
  ASSUME NEW s, NEW ns, NEW own, NEW n \in Nat, NEW r,
         Order(s, own, r), Len(s) = n + 1, Len(ns) = n, \A p \in 1..n : ns[p] = s[p + 1]
  PROVE  Order(ns, own, r)
<1> SUFFICES ASSUME NEW p \in 1..n
             PROVE  /\ ns[p].marks \subseteq own
                    /\ IsSyn(ns[p]) =>
                         /\ ns[p].marks = {} /\ ns[p].time <= r
                         /\ \A q \in 1 .. (p - 1) : IsSyn(ns[q]) => ns[q].time < ns[p].time
  BY DEF Order
<1>1. p + 1 \in 1..Len(s) /\ ns[p] = s[p + 1]
  OBVIOUS
<1>2. \A q \in 1 .. (p - 1) : q + 1 \in 1 .. ((p + 1) - 1) /\ ns[q] = s[q + 1]
  OBVIOUS
<1> QED
  BY <1>1, <1>2 DEF Order

(* The head of an ordered stream, in the terms of the lemmas on times.          *)
LEMMA OrderHead ==
  ASSUME NEW s \in Seq(InputEvents), NEW own, NEW n \in Nat, NEW r \in Nat,
         Order(s, own, r), Len(s) = n + 1
  PROVE  /\ s[1] \in InputEvents /\ s[1].time \in Nat
         /\ s[1].marks \subseteq own
         /\ IsSyn(s[1]) =>
              /\ s[1].marks = {} /\ s[1].time <= r
              /\ \A p \in 2 .. (n + 1) : IsSyn(s[p]) => /\ s[p].time \in Nat
                                                       /\ s[1].time < s[p].time
                                                       /\ s[p].time # s[1].time
<1>1. \A p \in 1..n + 1 : s[p] \in InputEvents
  BY ElementOfSeq
<1>2. \A p \in 1..n + 1 : s[p].time \in Nat
  BY <1>1 DEF InputEvents
<1>3. 1 \in 1..n + 1 /\ \A p \in 2 .. (n + 1) : p \in 1..n + 1 /\ 1 \in 1 .. (p - 1)
  OBVIOUS
<1>4. s[1].marks \subseteq own /\ (IsSyn(s[1]) => s[1].marks = {} /\ s[1].time <= r)
  BY <1>3 DEF Order
<1>5. ASSUME IsSyn(s[1]), NEW p \in 2 .. (n + 1), IsSyn(s[p])
      PROVE  s[p].time \in Nat /\ s[1].time < s[p].time /\ s[p].time # s[1].time
  <2>1. s[1].time < s[p].time
    BY <1>3, <1>5 DEF Order
  <2> QED
    BY <1>2, <1>3, <2>1
<1> QED
  BY <1>1, <1>2, <1>3, <1>4, <1>5

-------------------------------------------------------------------------------
(* The steps of a channel, by what happens to its queue, output and switch.     *)

ChannelStep(h) == [Channel(h)!Next]_(Channel(h)!vars)

On(h) == mEnabled[h] > 0

LEMMA ChannelRests ==
  ASSUME NEW h \in AllHandles, InFlight(h)' = InFlight(h), out'[h] = out[h], On(h)' = On(h)
  PROVE  ChannelStep(h)
BY DEF ChannelStep, On, Channel!vars

LEMMA ChannelSwitches ==
  ASSUME NEW h \in AllHandles, InFlight(h)' = InFlight(h), out'[h] = out[h], On(h)' <=> ~On(h)
  PROVE  ChannelStep(h)
BY DEF ChannelStep, On, Channel!Next, Channel!Switch

LEMMA ChannelPosts ==
  ASSUME NEW h \in AllHandles, NEW t \in 1..MaxReports, t \notin InFlight(h),
         \A q \in InFlight(h) : q < t, \A i \in 1..Len(out[h]) : out[h][i] < t,
         InFlight(h)' = InFlight(h) \cup {t}, out'[h] = out[h], On(h)' = On(h)
  PROVE  ChannelStep(h)
BY DEF ChannelStep, On, Channel!Next, Channel!Post

LEMMA ChannelDelivers ==
  ASSUME NEW h \in AllHandles, NEW t \in InFlight(h), \A q \in InFlight(h) : t <= q, On(h),
         InFlight(h)' = InFlight(h) \ {t}, out'[h] = Append(out[h], t), On(h)' = On(h)
  PROVE  ChannelStep(h)
BY DEF ChannelStep, On, Channel!Next, Channel!Deliver, Channel!Oldest

LEMMA ChannelDrops ==
  ASSUME NEW h \in AllHandles, NEW t \in InFlight(h), \A q \in InFlight(h) : t <= q, ~On(h),
         InFlight(h)' = InFlight(h) \ {t}, out'[h] = out[h], On(h)' = On(h)
  PROVE  ChannelStep(h)
BY DEF ChannelStep, On, Channel!Next, Channel!Drop, Channel!Oldest

LEMMA TimesUpTo ==
  ASSUME NEW s \in Seq(InputEvents), NEW own, NEW r \in Nat, Order(s, own, r), NEW mask, NEW h,
         NEW t \in TimesOf(s, mask, h)
  PROVE  t \in Nat /\ t <= r
<1>1. PICK p \in 1..Len(s) : Carries(s, mask, h, p) /\ t = s[p].time
  BY TimesMember
<1>2. s[p] \in InputEvents
  BY ElementOfSeq
<1>3. t <= r
  BY <1>1 DEF Carries, Order
<1> QED
  BY <1>1, <1>2, <1>3 DEF InputEvents

-------------------------------------------------------------------------------
(* Every step keeps the streams ordered and is a step of every channel.         *)

LEMMA ReportChannels ==
  ASSUME IInv, StreamsOrdered, NEW d \in Drivers, Report(d)
  PROVE  StreamsOrdered' /\ \A h \in AllHandles : ChannelStep(h)
<1>1. /\ reports' = reports + 1 /\ reports \in Nat /\ reports + 1 \in 1..MaxReports
      /\ UNCHANGED <<mPendingMask, out, mEnabled>>
  BY SensorsAssumption DEF Report, IInv, TypeOK, ScalarsOK, bounds
<1>2. \A e \in Drivers \ {d} : Stream(e)' = Stream(e)
  BY ReportStream
<1>3. PICK n \in Nat, m \in Nat : Grows(d, Stream(d)', n, m)
  BY ReportStream
<1>4. \A e \in Drivers : Stream(e) \in Seq(InputEvents) /\ Order(Stream(e), Handles[e], reports)
  BY StreamTyped, OrderedIsOrder DEF StreamsOrdered
<1>5. PICK s, ns : s \in Seq(InputEvents) /\ s = Stream(d) /\ ns = Stream(d)'
  BY <1>4
<1>6. /\ n = Len(s) /\ Len(ns) = n + m + 1
      /\ \A p \in 1..n : ns[p] = s[p]
      /\ \A p \in (n + 1) .. (n + m) : ~IsSyn(ns[p]) /\ ns[p].marks \subseteq Handles[d]
      /\ ns[n + m + 1] = Syn(reports + 1)
  BY <1>3, <1>5 DEF Grows
<1>7. StreamsOrdered'
  <2>1. Order(Stream(d)', Handles[d], reports')
    BY <1>1, <1>4, <1>5, <1>6, OrderGrows
  <2>2. ASSUME NEW e \in Drivers \ {d} PROVE Order(Stream(e)', Handles[e], reports')
    <3>1. PICK u \in Seq(InputEvents) : u = Stream(e) /\ u = Stream(e)'
      BY <1>2, <1>4
    <3>2. \A p \in 1..Len(u) : u[p].time \in Nat
      <4>1. \A p \in 1..Len(u) : u[p] \in InputEvents
        BY ElementOfSeq
      <4> QED
        BY <4>1 DEF InputEvents
    <3>3. Order(u, Handles[e], reports)
      BY <1>4, <3>1
    <3>4. Order(u, Handles[e], reports + 1)
      BY <1>1, <3>2, <3>3 DEF Order
    <3> QED
      BY <1>1, <3>1, <3>4
  <2>3. \A e \in Drivers : Ordered(Stream(e), Handles[e])'
    BY <2>1, <2>2, OrderedIsOrder
  <2>4. ASSUME NEW h \in AllHandles, NEW i \in 1..Len(out'[h]) PROVE out'[h][i] <= reports'
    <3>1. out[h] \in Seq(1..MaxReports) /\ out'[h] = out[h]
      BY <1>1 DEF IInv, TypeOK, QueuesOK
    <3>2. out[h][i] \in 1..MaxReports
      BY <3>1, ElementOfSeq
    <3>3. out[h][i] <= reports
      BY <3>1 DEF StreamsOrdered
    <3> QED
      BY <1>1, <3>1, <3>2, <3>3
  <2> QED
    BY <1>1, <2>3, <2>4 DEF StreamsOrdered
<1>8. ASSUME NEW h \in AllHandles PROVE ChannelStep(h)
  <2>0. Driver(h) \in Drivers
    BY Owner
  <2>1. out'[h] = out[h] /\ On(h)' = On(h)
    BY <1>1 DEF On
  <2>2. CASE Driver(h) # d
    <3>1. InFlight(h)' = InFlight(h)
      BY <1>1, <1>2, <2>0, <2>2 DEF InFlight, Driver
    <3> QED
      BY <2>1, <3>1, ChannelRests
  <2>3. CASE Driver(h) = d
    <3>1. PICK mask : mask = mPendingMask[d] /\ mask = mPendingMask'[d]
      BY <1>1
    <3>2. InFlight(h) = TimesOf(s, mask, h) /\ InFlight(h)' = TimesOf(ns, mask, h)
      BY <1>5, <2>3, <3>1, InFlightPrimed DEF InFlight
    <3>3. ns[n + m + 1].time = reports + 1 /\ IsSyn(ns[n + m + 1])
      BY <1>1, <1>6 DEF Syn, IsSyn
    <3>4. TimesOf(ns, mask, h) \in {TimesOf(s, mask, h),
                                    TimesOf(s, mask, h) \cup {reports + 1}}
      <4>1. \A p \in (n + 1) .. (n + m) : ~IsSyn(ns[p])
        BY <1>6
      <4>2. Len(s) = n
        BY <1>6
      <4>3. TimesOf(ns, mask, h) \in {TimesOf(s, mask, h),
                                      TimesOf(s, mask, h) \cup {ns[n + m + 1].time}}
        BY <1>6, <3>3, <4>1, <4>2, TimesGrow
      <4> QED
        BY <3>3, <4>3
    <3>5. \A q \in InFlight(h) : q < reports + 1 /\ q # reports + 1
      <4>1. \A q \in TimesOf(s, mask, h) : q \in Nat /\ q <= reports
        BY <1>1, <1>4, <1>5, TimesUpTo
      <4> QED
        BY <1>1, <3>2, <4>1
    <3>6. \A i \in 1..Len(out[h]) : out[h][i] < reports + 1
      <4>1. \A i \in 1..Len(out[h]) : out[h][i] \in 1..MaxReports
        BY ElementOfSeq DEF IInv, TypeOK, QueuesOK
      <4> QED
        BY <1>1, <4>1 DEF StreamsOrdered
    <3>7. CASE InFlight(h)' = InFlight(h)
      BY <2>1, <3>7, ChannelRests
    <3>8. CASE InFlight(h)' = InFlight(h) \cup {reports + 1}
      BY <1>1, <2>1, <3>5, <3>6, <3>8, ChannelPosts
    <3> QED
      BY <3>2, <3>4, <3>7, <3>8
  <2> QED
    BY <2>2, <2>3
<1> QED
  BY <1>7, <1>8

LEMMA QuietChannels ==
  ASSUME StreamsOrdered, \A d \in Drivers : Stream(d)' = Stream(d),
         UNCHANGED <<mPendingMask, out, reports>>
  PROVE  StreamsOrdered' /\ \A h \in AllHandles : ChannelStep(h)
<1>1. StreamsOrdered' /\ \A h \in AllHandles : InFlight(h)' = InFlight(h)
  BY QuietKeeps
<1>2. ASSUME NEW h \in AllHandles PROVE ChannelStep(h)
  <2>1. On(h)' \in BOOLEAN /\ On(h) \in BOOLEAN
    BY DEF On
  <2>2. CASE On(h)' = On(h)
    BY <1>1, <2>2, ChannelRests
  <2>3. CASE On(h)' <=> ~On(h)
    BY <1>1, <2>3, ChannelSwitches
  <2> QED
    BY <2>1, <2>2, <2>3
<1> QED
  BY <1>1, <1>2

(* The event that readEvents() looks at is the head of its driver's stream.     *)
LEMMA StreamHead ==
  ASSUME IInv, StreamsOrdered, Processing, NEW d \in Drivers, d = driver
  PROVE  /\ ring[d] # <<>>
         /\ Stream(d) \in Seq(InputEvents) /\ reports \in Nat
         /\ Order(Stream(d), Handles[d], reports)
         /\ Len(Stream(d)) > 0
         /\ Event = Stream(d)[1]
<1>1. reports \in Nat /\ ring[d] # <<>>
  BY DEF IInv, TypeOK, ScalarsOK, Processing
<1>2. PICK a \in Seq(InputEvents) : a = ring[d]
  BY <1>1 DEF IInv, TypeOK, QueuesOK
<1>3. Len(a) \in Nat /\ Len(a) > 0 /\ Head(a) = a[1]
  BY <1>1, <1>2
<1>4. Event = a[1]
  BY <1>2, <1>3 DEF Event
<1>5. /\ Stream(d) \in Seq(InputEvents)
      /\ Len(Stream(d)) = Len(a) + Len(device[d]) /\ Len(device[d]) \in Nat
      /\ \A p \in 1..Len(a) : Stream(d)[p] = a[p]
  BY <1>1, <1>2, StreamTyped
<1>6. Len(Stream(d)) > 0 /\ Stream(d)[1] = a[1]
  BY <1>3, <1>5
<1> QED
  BY <1>1, <1>4, <1>5, <1>6, OrderedIsOrder DEF StreamsOrdered

LEMMA TailOrdered ==
  ASSUME IInv, StreamsOrdered, NEW d \in Drivers, ring[d] # <<>>, device' = device,
         ring' = [ring EXCEPT ![d] = Tail(@)], reports' = reports
  PROVE  \A e \in Drivers : Ordered(Stream(e), Handles[e])'
<1>1. \A e \in Drivers : Order(Stream(e), Handles[e], reports)
  BY OrderedIsOrder DEF StreamsOrdered
<1>2. Order(Stream(d)', Handles[d], reports)
  <2>1. PICK n \in Nat : /\ Len(Stream(d)) = n + 1 /\ Len(Stream(d)') = n
                         /\ \A p \in 1..n : Stream(d)'[p] = Stream(d)[p + 1]
    BY TailStream
  <2>2. PICK s, ns : s = Stream(d) /\ ns = Stream(d)'
    OBVIOUS
  <2> QED
    BY <1>1, <2>1, <2>2, OrderOfTail
<1>3. ASSUME NEW e \in Drivers \ {d} PROVE Order(Stream(e)', Handles[e], reports)
  BY <1>1, TailStream
<1> QED
  BY <1>2, <1>3, OrderedIsOrder

LEMMA AxisChannels ==
  ASSUME IInv, StreamsOrdered, ProcessAxis
  PROVE  StreamsOrdered' /\ \A h \in AllHandles : ChannelStep(h)
<1>0. PICK d \in Drivers : d = driver
  BY DEF ProcessAxis, Processing, IInv, TypeOK, ScalarsOK
<1>1. /\ Processing /\ ~IsSyn(Event)
      /\ mPendingMask' = [mPendingMask EXCEPT ![d] = @ \union Event.marks]
      /\ ring' = [ring EXCEPT ![d] = Tail(@)]
      /\ UNCHANGED <<device, mEnabled, out, reports>>
  BY <1>0 DEF ProcessAxis, bounds
<1>2. /\ ring[d] # <<>>
      /\ Stream(d) \in Seq(InputEvents) /\ reports \in Nat
      /\ Order(Stream(d), Handles[d], reports)
      /\ Event = Stream(d)[1]
  BY <1>1, <1>0, StreamHead
<1>3. PICK n \in Nat : /\ Len(Stream(d)) = n + 1 /\ Len(Stream(d)') = n
                       /\ \A p \in 1..n : Stream(d)'[p] = Stream(d)[p + 1]
  BY <1>1, <1>2, TailStream
<1>4. PICK s, ns : s \in Seq(InputEvents) /\ s = Stream(d) /\ ns = Stream(d)'
  BY <1>2
<1>5. mPendingMask \in [Drivers -> SUBSET AllHandles]
  BY DEF IInv, TypeOK, QueuesOK
<1>6. StreamsOrdered'
  <2>1. \A e \in Drivers : Ordered(Stream(e), Handles[e])'
    BY <1>1, <1>2, TailOrdered
  <2>2. Event.marks \subseteq Handles[d]
    BY <1>2, <1>3, <1>4, OrderHead
  <2>3. \A e \in Drivers : mPendingMask'[e] \subseteq Handles[e]
    BY <1>1, <1>2, <1>5, <2>2 DEF StreamsOrdered
  <2> QED
    BY <1>1, <2>1, <2>3 DEF StreamsOrdered
<1>7. ASSUME NEW h \in AllHandles PROVE InFlight(h)' = InFlight(h)
  <2>0. Driver(h) \in Drivers
    BY Owner
  <2>1. CASE Driver(h) # d
    <3>1. mPendingMask'[Driver(h)] = mPendingMask[Driver(h)]
      BY <1>1, <1>5, <2>0, <2>1
    <3>2. Stream(Driver(h))' = Stream(Driver(h))
      BY <1>1, <1>2, <2>0, <2>1, TailStream
    <3> QED
      BY <3>1, <3>2 DEF InFlight, Driver
  <2>2. CASE Driver(h) = d
    <3>1. PICK mask : mask = mPendingMask[d]
      OBVIOUS
    <3>2. mPendingMask'[d] = mask \cup s[1].marks
      BY <1>1, <1>2, <1>4, <1>5, <3>1
    <3>3. TimesOf(ns, mask \cup s[1].marks, h) = TimesOf(s, mask, h)
      <4>1. Len(s) = n + 1 /\ Len(ns) = n /\ (\A p \in 1..n : ns[p] = s[p + 1]) /\ ~IsSyn(s[1])
        BY <1>1, <1>2, <1>3, <1>4
      <4> QED
        BY <4>1, TimesAfterAxis
    <3>4. InFlight(h) = TimesOf(s, mask, h)
      BY <1>4, <2>2, <3>1 DEF InFlight
    <3>5. InFlight(h)' = TimesOf(ns, mask \cup s[1].marks, h)
      BY <2>2, <1>4, <3>2, InFlightPrimed
    <3> QED
      BY <3>3, <3>4, <3>5
  <2> QED
    BY <2>1, <2>2
<1>8. ASSUME NEW h \in AllHandles PROVE ChannelStep(h)
  <2>1. out'[h] = out[h] /\ On(h)' = On(h)
    BY <1>1 DEF On
  <2> QED
    BY <1>7, <2>1, ChannelRests
<1> QED
  BY <1>6, <1>8

LEMMA SynChannels ==
  ASSUME IInv, StreamsOrdered, SynWithoutValue
  PROVE  StreamsOrdered' /\ \A h \in AllHandles : ChannelStep(h)
<1>0. PICK d \in Drivers : d = driver
  BY DEF SynWithoutValue, Processing, IInv, TypeOK, ScalarsOK
<1>1. /\ Processing /\ IsSyn(Event) /\ mPendingMask[d] = {}
      /\ ring' = [ring EXCEPT ![d] = Tail(@)]
      /\ UNCHANGED <<device, mPendingMask, mEnabled, out, reports>>
  BY <1>0 DEF SynWithoutValue, bounds
<1>2. /\ ring[d] # <<>>
      /\ Stream(d) \in Seq(InputEvents) /\ reports \in Nat
      /\ Order(Stream(d), Handles[d], reports)
      /\ Event = Stream(d)[1]
  BY <1>0, <1>1, StreamHead
<1>3. PICK n \in Nat : /\ Len(Stream(d)) = n + 1 /\ Len(Stream(d)') = n
                       /\ \A p \in 1..n : Stream(d)'[p] = Stream(d)[p + 1]
  BY <1>1, <1>2, TailStream
<1>4. PICK s, ns : s \in Seq(InputEvents) /\ s = Stream(d) /\ ns = Stream(d)'
  BY <1>2
<1>5. StreamsOrdered'
  <2>1. \A e \in Drivers : Ordered(Stream(e), Handles[e])'
    BY <1>1, <1>2, TailOrdered
  <2> QED
    BY <1>1, <2>1 DEF StreamsOrdered
<1>6. ASSUME NEW h \in AllHandles PROVE InFlight(h)' = InFlight(h)
  <2>0. Driver(h) \in Drivers
    BY Owner
  <2>1. CASE Driver(h) # d
    <3>1. Stream(Driver(h))' = Stream(Driver(h))
      BY <1>1, <1>2, <2>0, <2>1, TailStream
    <3> QED
      BY <1>1, <3>1 DEF InFlight, Driver
  <2>2. CASE Driver(h) = d
    <3>1. /\ Len(s) = n + 1 /\ Len(ns) = n /\ \A p \in 1..n : ns[p] = s[p + 1]
          /\ Order(s, Handles[d], reports)
      BY <1>2, <1>3, <1>4
    <3>2. /\ IsSyn(s[1]) /\ s[1].marks = {} /\ s[1].time \in Nat
          /\ \A p \in 2 .. (n + 1) : IsSyn(s[p]) => /\ s[p].time \in Nat
                                                   /\ s[1].time < s[p].time
                                                   /\ s[p].time # s[1].time
      BY <1>1, <1>2, <1>4, <3>1, OrderHead
    <3>3. s[1].time \notin TimesOf(s, {}, h)
      BY <3>1, <3>2, HeadIsOldest
    <3>4. TimesOf(ns, {}, h) = TimesOf(s, {}, h) \ {s[1].time}
      <4>1. TailOf(ns, s, n)
        BY <3>1 DEF TailOf
      <4>2. SynFirst(s, n)
        BY <3>2 DEF SynFirst
      <4> QED
        BY <4>1, <4>2, TimesAfterSyn
    <3>5. InFlight(h) = TimesOf(s, {}, h)
      BY <1>1, <1>4, <2>2 DEF InFlight
    <3>6. InFlight(h)' = TimesOf(ns, {}, h)
      BY <1>1, <1>4, <2>2, InFlightPrimed
    <3> QED
      BY <3>3, <3>4, <3>5, <3>6
  <2> QED
    BY <2>1, <2>2
<1>7. ASSUME NEW h \in AllHandles PROVE ChannelStep(h)
  <2>1. out'[h] = out[h] /\ On(h)' = On(h)
    BY <1>1 DEF On
  <2> QED
    BY <1>6, <2>1, ChannelRests
<1> QED
  BY <1>5, <1>7

(* The report at the head is handed over to, or dropped for, one handle.        *)
LEMMA PendingChannels ==
  ASSUME IInv, StreamsOrdered, NEW g \in AllHandles, ReportPending(g)
  PROVE  StreamsOrdered' /\ \A h \in AllHandles : ChannelStep(h)
<1>0. PICK d \in Drivers : d = driver
  BY DEF ReportPending, Processing, IInv, TypeOK, ScalarsOK
<1>1. /\ Processing /\ IsSyn(Event) /\ g \in mPendingMask[d]
      /\ mPendingMask' = [mPendingMask EXCEPT ![d] = @ \ {g}]
      /\ ring' = IF mPendingMask'[d] = {} THEN [ring EXCEPT ![d] = Tail(@)] ELSE ring
      /\ IF mEnabled[g] > 0 THEN out' = [out EXCEPT ![g] = Append(@, Event.time)]
                            ELSE out' = out
      /\ UNCHANGED <<device, mEnabled, reports>>
  BY <1>0 DEF ReportPending, bounds, Smallest
<1>2. /\ ring[d] # <<>>
      /\ Stream(d) \in Seq(InputEvents) /\ reports \in Nat
      /\ Order(Stream(d), Handles[d], reports)
      /\ Len(Stream(d)) > 0
      /\ Event = Stream(d)[1]
  BY <1>0, <1>1, StreamHead
<1>3. /\ mPendingMask \in [Drivers -> SUBSET AllHandles]
      /\ out \in [AllHandles -> Seq(1..MaxReports)]
  BY DEF IInv, TypeOK, QueuesOK
<1>4. PICK s \in Seq(InputEvents), n \in Nat : /\ s = Stream(d) /\ Len(s) = n + 1
                                               /\ Order(s, Handles[d], reports)
  <2>1. Len(Stream(d)) \in Nat
    BY <1>2, LenProperties
  <2>2. Len(Stream(d)) - 1 \in Nat /\ Len(Stream(d)) = (Len(Stream(d)) - 1) + 1
    BY <1>2, <2>1
  <2> QED
    BY <1>2, <2>2
<1>5. /\ IsSyn(s[1]) /\ s[1].marks = {} /\ s[1].time \in Nat /\ s[1].time <= reports
      /\ \A p \in 2 .. (n + 1) : IsSyn(s[p]) => /\ s[p].time \in Nat
                                               /\ s[1].time < s[p].time
                                               /\ s[p].time # s[1].time
  BY <1>1, <1>2, <1>4, OrderHead
<1>6. PICK mask, nmask : mask = mPendingMask[d] /\ nmask = mask \ {g}
  OBVIOUS
<1>7. g \in mask /\ nmask \subseteq mask /\ mPendingMask'[d] = nmask
  BY <1>1, <1>3, <1>6
<1>8. Driver(g) = d
  BY <1>1, Owner DEF StreamsOrdered
<1>9. \A p \in 2 .. (n + 1) : IsSyn(s[p]) => s[p].time # s[1].time
  BY <1>5
<1>10. ASSUME NEW h \in AllHandles
       PROVE  /\ s[1].time \in TimesOf(s, mask, h) <=> h \in mask
              /\ \A t \in TimesOf(s, mask, h) : s[1].time <= t
  <2>1. \A p \in 2 .. (n + 1) : IsSyn(s[p]) => s[p].time \in Nat /\ s[1].time < s[p].time
    BY <1>5
  <2> QED
    BY <1>4, <1>5, <2>1, HeadIsOldest
<1>11. ASSUME NEW h \in AllHandles, Driver(h) = d
       PROVE  InFlight(h) = TimesOf(s, mask, h)
  BY <1>4, <1>6, <1>11 DEF InFlight
(* The streams, and what the step leaves of each channel's queue. *)
<1>12. /\ \A e \in Drivers : Ordered(Stream(e), Handles[e])'
       /\ \A e \in Drivers \ {d} : Stream(e)' = Stream(e)
       /\ \A h \in AllHandles : Driver(h) = d =>
            InFlight(h)' = IF h = g THEN InFlight(h) \ {s[1].time} ELSE InFlight(h)
  <2>1. CASE nmask = {}
    <3>1. ring' = [ring EXCEPT ![d] = Tail(@)] /\ device' = device /\ reports' = reports
      BY <1>1, <1>7, <2>1
    <3>2. PICK k \in Nat : /\ Len(Stream(d)) = k + 1 /\ Len(Stream(d)') = k
                           /\ \A p \in 1..k : Stream(d)'[p] = Stream(d)[p + 1]
      BY <1>2, <3>1, TailStream
    <3>3. PICK ns : ns = Stream(d)'
      OBVIOUS
    <3>4. Len(ns) = n /\ \A p \in 1..n : ns[p] = s[p + 1]
      <4>1. k = n
        BY <1>4, <3>2
      <4> QED
        BY <1>4, <3>2, <3>3, <4>1
    <3>5. ASSUME NEW h \in AllHandles, Driver(h) = d
          PROVE  InFlight(h)' = IF h = g THEN InFlight(h) \ {s[1].time} ELSE InFlight(h)
      <4>1. TimesOf(ns, {}, h) = TimesOf(s, mask, h) \ {s[1].time}
        <5>1. TailOf(ns, s, n)
          BY <1>4, <3>4 DEF TailOf
        <5>2. SynFirst(s, n)
          BY <1>5 DEF SynFirst
        <5> QED
          BY <5>1, <5>2, TimesAfterSyn
      <4>2. InFlight(h)' = TimesOf(ns, {}, h)
        BY <1>7, <2>1, <3>3, <3>5, InFlightPrimed
      <4>3. h = g \/ h \notin mask
        BY <1>6, <2>1
      <4> QED
        BY <1>10, <1>11, <3>5, <4>1, <4>2, <4>3
    <3> QED
      BY <1>2, <3>1, <3>5, TailOrdered, TailStream
  <2>2. CASE nmask # {}
    <3>1. \A e \in Drivers : Stream(e)' = Stream(e)
      BY <1>1, <1>7, <2>2 DEF Stream
    <3>2. \A e \in Drivers : Ordered(Stream(e), Handles[e])'
      BY <1>1, <3>1 DEF StreamsOrdered, Ordered
    <3>3. ASSUME NEW h \in AllHandles, Driver(h) = d
          PROVE  InFlight(h)' = IF h = g THEN InFlight(h) \ {s[1].time} ELSE InFlight(h)
      <4>1. TimesOf(s, nmask, h) = IF h \in mask \ nmask
                                     THEN TimesOf(s, mask, h) \ {s[1].time}
                                     ELSE TimesOf(s, mask, h)
        BY <1>4, <1>5, <1>7, <1>9, TimesUnmarked
      <4>2. s = Stream(d)'
        BY <1>4, <3>1
      <4>3. InFlight(h)' = TimesOf(s, nmask, h)
        BY <1>7, <3>3, <4>2, InFlightPrimed
      <4>4. h \in mask \ nmask <=> h = g
        BY <1>6, <1>7
      <4> QED
        BY <1>11, <3>3, <4>1, <4>3, <4>4
    <3> QED
      BY <3>1, <3>2, <3>3
  <2> QED
    BY <2>1, <2>2
<1>13. s[1].time \in InFlight(g) /\ \A t \in InFlight(g) : s[1].time <= t
  BY <1>7, <1>8, <1>10, <1>11
<1>14. /\ \A h \in AllHandles \ {g} : out'[h] = out[h]
       /\ mEnabled[g] > 0 => out'[g] = Append(out[g], s[1].time)
       /\ ~(mEnabled[g] > 0) => out'[g] = out[g]
  <2>1. Event.time = s[1].time
    BY <1>2, <1>4
  <2> QED
    BY <1>1, <1>3, <2>1
<1>15. StreamsOrdered'
  <2>1. \A e \in Drivers : mPendingMask'[e] \subseteq Handles[e]
    BY <1>1, <1>3 DEF StreamsOrdered
  <2>2. ASSUME NEW h \in AllHandles, NEW i \in 1..Len(out'[h]) PROVE out'[h][i] <= reports'
    <3>1. CASE out'[h] = out[h]
      BY <1>1, <3>1 DEF StreamsOrdered
    <3>2. CASE out'[h] = Append(out[h], s[1].time)
      <4>1. PICK o \in Seq(1..MaxReports) : o = out[h]
        BY <1>3
      <4>2. \A j \in 1..Len(o) : o[j] <= reports
        BY <4>1 DEF StreamsOrdered
      <4>3. i \in 1..Len(o) + 1 /\ Len(o) \in Nat
        BY <3>2, <4>1
      <4>4. CASE i \in 1..Len(o)
        BY <1>1, <3>2, <4>1, <4>2, <4>4
      <4>5. CASE i = Len(o) + 1
        BY <1>1, <1>5, <3>2, <4>1, <4>5
      <4> QED
        BY <4>3, <4>4, <4>5
    <3> QED
      BY <1>14, <3>1, <3>2
  <2> QED
    BY <1>12, <2>1, <2>2 DEF StreamsOrdered
<1>16. ASSUME NEW h \in AllHandles PROVE ChannelStep(h)
  <2>0. Driver(h) \in Drivers /\ On(h)' = On(h)
    BY <1>1, Owner DEF On
  <2>1. CASE Driver(h) # d
    <3>1. mPendingMask'[Driver(h)] = mPendingMask[Driver(h)]
      BY <1>1, <1>3, <2>0, <2>1
    <3>2. InFlight(h)' = InFlight(h)
      BY <1>12, <2>0, <2>1, <3>1 DEF InFlight, Driver
    <3> QED
      BY <1>8, <1>14, <2>0, <2>1, <3>2, ChannelRests
  <2>2. CASE Driver(h) = d /\ h # g
    BY <1>12, <1>14, <2>0, <2>2, ChannelRests
  <2>3. CASE h = g /\ mEnabled[g] > 0
    <3>1. InFlight(g)' = InFlight(g) \ {s[1].time} /\ out'[g] = Append(out[g], s[1].time) /\ On(g)
      BY <1>8, <1>12, <1>14, <2>3 DEF On
    <3> QED
      BY <1>13, <2>0, <2>3, <3>1, ChannelDelivers
  <2>4. CASE h = g /\ ~(mEnabled[g] > 0)
    <3>1. InFlight(g)' = InFlight(g) \ {s[1].time} /\ out'[g] = out[g] /\ ~On(g)
      BY <1>8, <1>12, <1>14, <2>4 DEF On
    <3> QED
      BY <1>13, <2>0, <2>4, <3>1, ChannelDrops
  <2> QED
    BY <2>1, <2>2, <2>3, <2>4
<1> QED
  BY <1>15, <1>16

LEMMA InitChannels ==
  ASSUME Init
  PROVE  StreamsOrdered /\ \A h \in AllHandles : Channel(h)!Init
<1>1. ASSUME NEW d \in Drivers
      PROVE  Stream(d) = <<>> /\ Len(Stream(d)) = 0
  BY DEF Init, Stream
<1>2. StreamsOrdered
  BY <1>1 DEF Init, StreamsOrdered, Ordered
<1>3. ASSUME NEW h \in AllHandles PROVE Channel(h)!Init
  <2>1. Driver(h) \in Drivers
    BY Owner
  <2>2. ASSUME NEW t \in InFlight(h) PROVE FALSE
    <3>1. PICK p \in 1..Len(Stream(Driver(h))) : t = Stream(Driver(h))[p].time
      BY TimesMember DEF InFlight
    <3> QED
      BY <1>1, <2>1, <3>1
  <2>3. out[h] = <<>> /\ ~(mEnabled[h] > 0)
    BY DEF Init
  <2> QED
    BY <2>2, <2>3 DEF Channel!Init
<1> QED
  BY <1>2, <1>3

LEMMA StepChannels ==
  ASSUME IInv, StreamsOrdered, [Next]_vars
  PROVE  StreamsOrdered' /\ \A h \in AllHandles : ChannelStep(h)
<1>1. CASE \E d \in Drivers : Report(d)
  BY <1>1, ReportChannels
<1>2. CASE \/ \E h \in AllHandles, enabled \in BOOLEAN : SetEnable(h, enabled)
           \/ SendWake \/ PollCall \/ ScanNext \/ ScanEnd \/ FillFails \/ ReadDone \/ Poll
           \/ UNCHANGED vars
  <2>1. UNCHANGED <<ring, device, mPendingMask, out, reports>>
    BY <1>2 DEF SetEnable, SendWake, PollCall, ScanNext, ScanEnd, FillFails, ReadDone, Poll,
                vars, input, bounds
  <2>2. \A d \in Drivers : Stream(d)' = Stream(d)
    BY <2>1 DEF Stream
  <2> QED
    BY <2>1, <2>2, QuietChannels
<1>3. CASE Fill
  <2>1. UNCHANGED <<mPendingMask, out, reports>>
    BY <1>3 DEF Fill, bounds
  <2> QED
    BY <1>3, <2>1, FillKeepsStreams, QuietChannels
<1>4. CASE ProcessAxis
  BY <1>4, AxisChannels
<1>5. CASE SynWithoutValue
  BY <1>5, SynChannels
<1>6. CASE \E h \in AllHandles : ReportPending(h)
  BY <1>6, PendingChannels
<1> QED
  BY <1>1, <1>2, <1>3, <1>4, <1>5, <1>6 DEF Next, PollThread

(* The poll context implements the channel of every handle (sensors.cpp:240-306 *)
(* and the readEvents() of the sensors): with any drivers, rooms and faults the  *)
(* reports of a handle are handed over in order and once each, and one is left  *)
(* out only while the handle is disabled.                                       *)
THEOREM PollImplementsChannel == Spec => ChannelRefinement
<1>1. Init => StreamsOrdered /\ \A h \in AllHandles : Channel(h)!Init
  BY InitChannels
<1>2. IInv /\ StreamsOrdered /\ [Next]_vars => StreamsOrdered'
  BY StepChannels
<1>3. IInv /\ StreamsOrdered /\ [Next]_vars =>
        [\A h \in AllHandles : [Channel(h)!Next]_(Channel(h)!vars)]_vars
  BY StepChannels DEF ChannelStep
<1>4. Spec => []StreamsOrdered
  BY <1>1, <1>2, PollInvariant, PTL DEF Spec
<1>5. Spec => [][\A h \in AllHandles : [Channel(h)!Next]_(Channel(h)!vars)]_vars
  BY <1>3, <1>4, PollInvariant, PTL DEF Spec
<1>6. Spec => \A h \in AllHandles : Channel(h)!Init
  BY <1>1, PTL DEF Spec
<1> QED
  BY <1>5, <1>6 DEF ChannelRefinement

-------------------------------------------------------------------------------
(* The ring that a sensor class reads its device through, for every capacity    *)
(* and every set of events: a FIFO queue.  RingInv is inductive; the refinement *)
(* follows from it.                                                             *)
USE SizeAssumption, NoEventAssumption

(* Facts about one batch: how long it is and what it holds. *)
LEMMA BatchFacts ==
  ASSUME NEW n \in Nat, NEW evs \in Batches(n)
  PROVE  /\ Len(evs) \in 1..n
         /\ evs \in Seq(Events)
         /\ \A j \in 1..Len(evs) : evs[j] \in Events
<1>1. PICK k \in 1..n : evs \in [1..k -> Events]
  BY DEF Batches
<1>2. evs \in Seq(Events) /\ Len(evs) = k
  BY <1>1
<1> QED
  BY <1>1, <1>2

(* What the array holds after a fill.  Slots of the ring below the copied part *)
(* hold what lay past the end; the others hold the batch where it was stored   *)
(* and the old contents elsewhere.                                             *)
LEMMA StoredFacts ==
  ASSUME RingTypes, NEW evs \in Batches(mFreeSpace), NEW i \in Slots
  PROVE  /\ i \in mHead .. (mHead + Len(evs) - 1) =>
               /\ Stored(evs)[i] = evs[i - mHead + 1]
               /\ Stored(evs)[i] \in Events
         /\ i \notin mHead .. (mHead + Len(evs) - 1) => Stored(evs)[i] = mBuffer[i]
<1>1. mFreeSpace \in Nat /\ mHead \in Int
  BY DEF RingTypes
<1>2. Len(evs) \in Int /\ \A j \in 1..Len(evs) : evs[j] \in Events
  BY <1>1, BatchFacts
<1>3. Stored(evs)[i] = IF i \in mHead .. (mHead + Len(evs) - 1)
                         THEN evs[i - mHead + 1] ELSE mBuffer[i]
  BY DEF Stored
<1>4. ASSUME i \in mHead .. (mHead + Len(evs) - 1)
      PROVE  i - mHead + 1 \in 1..Len(evs)
  BY <1>1, <1>2, <1>4 DEF Slots
<1> QED
  BY <1>2, <1>3, <1>4

(* A fill keeps the invariant: the new events are stored behind the unread     *)
(* ones, past the end of the ring if need be, and the copy down moves only     *)
(* slots that hold no unread event.                                            *)
LEMMA FillKeepsRing ==
  ASSUME RingInv, NEW evs \in Batches(mFreeSpace), fill(evs)
  PROVE  /\ RingInv'
         /\ Live' = Live + Len(evs)
         /\ \A i \in 0 .. (Live' - 1) :
              mBuffer'[LiveSlot(i)'] = IF i < Live THEN mBuffer[LiveSlot(i)]
                                                  ELSE evs[i - Live + 1]
<1> DEFINE k == Len(evs)
           wraps == mHead + k > numEvents
<1>1. /\ mHead \in 0..numEvents /\ mCurr \in 0..(numEvents - 1)
      /\ mFreeSpace \in 0..numEvents
      /\ mBuffer \in [Slots -> Events \union {NoEvent}]
  BY DEF RingInv, RingTypes
<1>2. k \in 1..mFreeSpace /\ \A j \in 1..k : evs[j] \in Events
  BY <1>1, BatchFacts
<1>3. Stored(evs) \in [Slots -> Events \union {NoEvent}]
  BY <1>1, <1>2 DEF Stored, Slots
<1>4. /\ mFreeSpace' = mFreeSpace - k
      /\ mCurr' = mCurr
      /\ mHead' = IF wraps THEN (mHead + k) - numEvents ELSE mHead + k
      /\ mBuffer' = IF wraps THEN CopiedDown(Stored(evs), (mHead + k) - numEvents)
                             ELSE Stored(evs)
  BY DEF fill
<1>5. \A i \in Slots :
        /\ i \in mHead .. (mHead + k - 1) => Stored(evs)[i] = evs[i - mHead + 1]
        /\ i \notin mHead .. (mHead + k - 1) => Stored(evs)[i] = mBuffer[i]
  BY StoredFacts DEF RingInv
<1>6. ASSUME wraps, NEW i \in Slots
      PROVE  mBuffer'[i] = IF i < (mHead + k) - numEvents
                             THEN Stored(evs)[numEvents + i] ELSE Stored(evs)[i]
  BY <1>4, <1>6 DEF CopiedDown
<1> HIDE DEF k
<1>7. RingTypes'
  <2>1. mFreeSpace' \in 0..numEvents /\ mCurr' \in 0..(numEvents - 1)
        /\ mHead' \in 0..numEvents
    BY <1>1, <1>2, <1>4
  <2>3. delivered' \in Seq(Events)
    BY <1>1, BatchFacts DEF fill
  <2>2. mBuffer' \in [Slots -> Events \union {NoEvent}]
    <3>1. CASE wraps
      BY <3>1, <1>1, <1>2, <1>3, <1>4 DEF CopiedDown, Slots
    <3>2. CASE ~wraps
      BY <3>2, <1>3, <1>4
    <3> QED
      BY <3>1, <3>2
  <2> QED
    BY <2>1, <2>2, <2>3 DEF RingTypes
<1>8. HeadFollowsLive'
  <2>1. HeadFollowsLive
    BY DEF RingInv
  <2>2. mHead' - mHead \in {k, k - numEvents} /\ Live' = Live + k /\ mCurr' = mCurr
    BY <1>1, <1>2, <1>4 DEF Live
  <2>3. mHead \in {mCurr + Live, (mCurr + Live) - numEvents, mCurr + Live + numEvents}
    BY <2>1, <1>1 DEF HeadFollowsLive, Live
  <2>4. /\ wraps => mHead > numEvents - k /\ mHead' = (mHead + k) - numEvents
        /\ ~wraps => mHead <= numEvents - k /\ mHead' = mHead + k
        /\ Live + k <= numEvents /\ Live \in Nat /\ k \in Nat
    BY <1>1, <1>2, <1>4 DEF Live
  <2>5. CASE wraps
    <3>1. mHead # (mCurr + Live) - numEvents
      BY <2>4, <2>5, <1>1
    <3>2. mHead' \in {(mCurr + Live + k) - numEvents, mCurr + Live + k}
      BY <2>3, <2>4, <2>5, <3>1, <1>1
    <3> QED
      BY <3>2, <2>2, <2>4, <1>1 DEF HeadFollowsLive
  <2>6. CASE ~wraps
    <3>1. mHead' \in {mCurr + Live + k, (mCurr + Live + k) - numEvents,
                      mCurr + Live + k + numEvents}
      BY <2>3, <2>4, <2>6, <1>1
    <3> QED
      BY <3>1, <2>2, <2>4, <1>1 DEF HeadFollowsLive
  <2> QED
    BY <2>5, <2>6
<1>9. Live' = Live + k /\ Live \in 0..numEvents /\ Live + k <= numEvents
  BY <1>1, <1>2, <1>4 DEF Live
<1>10. ASSUME NEW i \in 0 .. (Live' - 1)
       PROVE  mBuffer'[LiveSlot(i)'] = IF i < Live THEN mBuffer[LiveSlot(i)]
                                                   ELSE evs[i - Live + 1]
  <2> DEFINE s == LiveSlot(i)
  <2>1. LiveSlot(i)' = s
    BY <1>4 DEF LiveSlot
  <2>2. s \in 0..(numEvents - 1) /\ s \in Slots /\ numEvents + s \in Slots
    BY <1>1, <1>9 DEF LiveSlot, Slots
  <2>3. CASE i < Live
    <3>1. s \notin mHead .. (mHead + k - 1)
      BY <2>3, <1>1, <1>2, <1>9 DEF RingInv, HeadFollowsLive, LiveSlot, Live
    <3>2. wraps => s >= (mHead + k) - numEvents
      BY <2>3, <1>1, <1>2, <1>9 DEF RingInv, HeadFollowsLive, LiveSlot, Live
    <3>3. mBuffer'[s] = Stored(evs)[s]
      BY <3>2, <2>2, <1>1, <1>2, <1>4, <1>6
    <3> QED
      BY <3>1, <3>3, <2>1, <2>2, <2>3, <1>5
  <2>4. CASE i >= Live
    <3> DEFINE t == mHead + (i - Live)   \* where read() put the event
    <3>1. t \in mHead .. (mHead + k - 1) /\ t \in Slots /\ t - mHead + 1 = i - Live + 1
      BY <2>4, <1>1, <1>2, <1>9 DEF Slots
    <3>2. wraps => \/ s < (mHead + k) - numEvents /\ t = numEvents + s
                   \/ s >= (mHead + k) - numEvents /\ t = s
      BY <2>4, <1>1, <1>2, <1>9 DEF RingInv, HeadFollowsLive, LiveSlot, Live
    <3>3. ~wraps => t = s
      BY <2>4, <1>1, <1>2, <1>9 DEF RingInv, HeadFollowsLive, LiveSlot, Live
    <3>4. Stored(evs)[t] = evs[i - Live + 1]
      BY <3>1, <1>5
    <3>5. mBuffer'[s] = Stored(evs)[t]
      <4>1. CASE wraps
        BY <4>1, <3>2, <2>2, <1>1, <1>2, <1>6
      <4>2. CASE ~wraps
        BY <4>2, <3>3, <1>4
      <4> QED
        BY <4>1, <4>2
    <3> QED
      BY <3>4, <3>5, <2>1, <2>4, <1>9
  <2> QED
    BY <1>9, <2>3, <2>4
<1>11. LiveEventsWhole'
  <2> SUFFICES ASSUME NEW i \in 0 .. (Live' - 1)
               PROVE  mBuffer'[LiveSlot(i)'] \in Events
    BY DEF LiveEventsWhole
  <2>1. CASE i < Live
    BY <2>1, <1>9, <1>10 DEF RingInv, LiveEventsWhole
  <2>2. CASE i >= Live
    BY <2>2, <1>2, <1>9, <1>10
  <2> QED
    BY <1>9, <2>1, <2>2
<1> QED
  BY <1>7, <1>8, <1>9, <1>10, <1>11 DEF RingInv, k

(* A rejected partial read writes only slots that hold no unread event. *)
LEMMA FillPartialKeepsRing ==
  ASSUME RingInv, NEW evs \in Batches(mFreeSpace), fillPartial(evs)
  PROVE  RingInv' /\ \A i \in 0 .. (Live - 1) : mBuffer'[LiveSlot(i)] = mBuffer[LiveSlot(i)]
<1> DEFINE k == Len(evs)
<1>1. /\ mHead \in 0..numEvents /\ mCurr \in 0..(numEvents - 1)
      /\ mFreeSpace \in 0..numEvents
      /\ mBuffer \in [Slots -> Events \union {NoEvent}]
  BY DEF RingInv, RingTypes
<1>2. k \in 1..mFreeSpace /\ \A j \in 1..k : evs[j] \in Events
  BY <1>1, BatchFacts
<1>3. mBuffer' = [Stored(evs) EXCEPT ![mHead + k - 1] = NoEvent]
      /\ UNCHANGED <<mHead, mCurr, mFreeSpace, delivered>>
  BY DEF fillPartial
<1>4. Stored(evs) \in [Slots -> Events \union {NoEvent}]
  BY <1>1, <1>2 DEF Stored, Slots
<1>5. \A i \in Slots : i \notin mHead .. (mHead + k - 1) => Stored(evs)[i] = mBuffer[i]
  BY StoredFacts DEF RingInv
<1> HIDE DEF k
<1>6. RingTypes'
  BY <1>1, <1>3, <1>4 DEF RingInv, RingTypes, Slots
<1>7. HeadFollowsLive'
  BY <1>3 DEF RingInv, HeadFollowsLive, Live
<1>8. ASSUME NEW i \in 0 .. (Live - 1)
      PROVE  mBuffer'[LiveSlot(i)] = mBuffer[LiveSlot(i)]
  <2>1. LiveSlot(i) \in Slots /\ LiveSlot(i) \notin mHead .. (mHead + k - 1)
    BY <1>1, <1>2 DEF RingInv, HeadFollowsLive, LiveSlot, Live, Slots
  <2>2. LiveSlot(i) # mHead + k - 1
    BY <2>1, <1>1, <1>2
  <2> QED
    BY <2>1, <2>2, <1>3, <1>4, <1>5
<1>9. LiveEventsWhole'
  <2>1. Live' = Live /\ \A i \in 0 .. (Live - 1) : LiveSlot(i)' = LiveSlot(i)
    BY <1>3 DEF Live, LiveSlot
  <2> QED
    BY <2>1, <1>8 DEF RingInv, LiveEventsWhole
<1> QED
  BY <1>6, <1>7, <1>8, <1>9 DEF RingInv

(* next() drops the oldest event and moves every other one place forward. *)
LEMMA NextKeepsRing ==
  ASSUME RingInv, next
  PROVE  /\ RingInv'
         /\ Live >= 1 /\ Live' = Live - 1
         /\ \A i \in 0 .. (Live' - 1) : LiveSlot(i)' = LiveSlot(i + 1)
         /\ mBuffer' = mBuffer
<1>1. /\ mHead \in 0..numEvents /\ mCurr \in 0..(numEvents - 1)
      /\ mFreeSpace \in 0..numEvents
  BY DEF RingInv, RingTypes
<1>2. /\ mFreeSpace < numEvents
      /\ mCurr' = IF mCurr + 1 >= numEvents THEN 0 ELSE mCurr + 1
      /\ mFreeSpace' = mFreeSpace + 1
      /\ UNCHANGED <<mBuffer, mHead, delivered>>
  BY <1>1 DEF next, Available
<1>3. Live >= 1 /\ Live' = Live - 1
  BY <1>1, <1>2 DEF Live
<1>4. \A i \in 0 .. (Live' - 1) : LiveSlot(i)' = LiveSlot(i + 1)
  BY <1>1, <1>2 DEF Live, LiveSlot
<1>5. RingTypes'
  BY <1>1, <1>2 DEF RingInv, RingTypes, Slots
<1>6. HeadFollowsLive'
  BY <1>1, <1>2 DEF RingInv, HeadFollowsLive, Live
<1>7. LiveEventsWhole'
  <2> SUFFICES ASSUME NEW i \in 0 .. (Live' - 1)
               PROVE  mBuffer'[LiveSlot(i)'] \in Events
    BY DEF LiveEventsWhole
  <2>1. i + 1 \in 0 .. (Live - 1)
    BY <1>1, <1>3 DEF Live
  <2> QED
    BY <2>1, <1>2, <1>4 DEF RingInv, LiveEventsWhole
<1> QED
  BY <1>2, <1>3, <1>4, <1>5, <1>6, <1>7 DEF RingInv

(* Type correctness and the shape of the ring, in every reachable state. *)
THEOREM RingInvariant == RingSpec => []RingInv
<1>1. RingInit => RingInv
  BY DEF RingInit, RingInv, RingTypes, HeadFollowsLive, LiveEventsWhole, Live, Slots
<1>2. RingInv /\ [RingNext]_ringVars => RingInv'
  <2> SUFFICES ASSUME RingInv, [RingNext]_ringVars PROVE RingInv'
    OBVIOUS
  <2>1. CASE UNCHANGED ringVars
    BY <2>1 DEF ringVars, RingInv, RingTypes, HeadFollowsLive, LiveEventsWhole, Live, LiveSlot
  <2>2. ASSUME NEW evs \in Batches(mFreeSpace), fill(evs) PROVE RingInv'
    BY <2>2, FillKeepsRing
  <2>3. ASSUME NEW evs \in Batches(mFreeSpace), fillPartial(evs) PROVE RingInv'
    BY <2>3, FillPartialKeepsRing
  <2>4. CASE next
    BY <2>4, NextKeepsRing
  <2> QED
    BY <2>1, <2>2, <2>3, <2>4 DEF RingNext
<1> QED
  BY <1>1, <1>2, PTL DEF RingSpec

-------------------------------------------------------------------------------
(* The refinement: Unread is the queue the ring stands for. *)
Unread == [i \in 1..Live |-> mBuffer[LiveSlot(i - 1)]]

LEMMA UnreadIsSeq ==
  ASSUME RingInv
  PROVE  Unread \in Seq(Events) /\ Len(Unread) = Live /\ Live \in 0..numEvents
<1>1. Live \in 0..numEvents
  BY DEF RingInv, RingTypes, Live
<1>2. \A i \in 1..Live : mBuffer[LiveSlot(i - 1)] \in Events
  BY <1>1 DEF RingInv, LiveEventsWhole
<1>3. Unread \in [1..Live -> Events]
  BY <1>2 DEF Unread
<1> QED
  BY <1>1, <1>3 DEF Unread

(* A fill appends the batch to the queue. *)
LEMMA FillAppends ==
  ASSUME RingInv, NEW evs \in Batches(mFreeSpace), fill(evs)
  PROVE  Unread' = Unread \o evs
<1>1. /\ Live' = Live + Len(evs)
      /\ \A i \in 0 .. (Live' - 1) :
           mBuffer'[LiveSlot(i)'] = IF i < Live THEN mBuffer[LiveSlot(i)]
                                               ELSE evs[i - Live + 1]
  BY FillKeepsRing
<1>2. Len(evs) \in Nat /\ evs \in Seq(Events)
  BY BatchFacts DEF RingInv, RingTypes
<1>3. Unread \in Seq(Events) /\ Len(Unread) = Live /\ Live \in Nat
  BY UnreadIsSeq
<1>4. Unread' = [i \in 1..Live' |-> mBuffer'[LiveSlot(i - 1)']]
  BY DEF Unread
<1>5. Unread' \in Seq(Events) /\ Len(Unread') = Live'
  <2>1. Live' \in Nat
    BY <1>1, <1>2, <1>3
  <2>2. \A i \in 0 .. (Live' - 1) : mBuffer'[LiveSlot(i)'] \in Events
    BY FillKeepsRing DEF RingInv, LiveEventsWhole
  <2>3. ASSUME NEW i \in 1..Live'
        PROVE  mBuffer'[LiveSlot(i - 1)'] \in Events
    <3>1. i - 1 \in 0 .. (Live' - 1)
      BY <1>1, <1>2, <1>3
    <3> QED
      BY <3>1, <2>2
  <2>4. Unread' \in [1..Live' -> Events]
    BY <2>3, <1>4
  <2> QED
    BY <2>1, <2>4, <1>4
<1>6. /\ Unread \o evs \in Seq(Events)
      /\ Len(Unread \o evs) = Live'
      /\ \A i \in 1..Live' : (Unread \o evs)[i] = IF i <= Live THEN Unread[i]
                                                           ELSE evs[i - Live]
  BY <1>1, <1>2, <1>3, ConcatProperties
<1>7. ASSUME NEW i \in 1..Live'
      PROVE  Unread'[i] = (Unread \o evs)[i]
  <2>1. i - 1 \in 0 .. (Live' - 1) /\ (i - 1 < Live <=> i <= Live)
        /\ (i - 1) - Live + 1 = i - Live
    BY <1>1, <1>2, <1>3
  <2>2. i <= Live => Unread[i] = mBuffer[LiveSlot(i - 1)]
    BY <1>1, <1>2, <1>3 DEF Unread
  <2>3. Unread'[i] = mBuffer'[LiveSlot(i - 1)']
    BY <1>4
  <2> QED
    BY <2>1, <2>2, <2>3, <1>1, <1>6
<1> QED
  BY <1>5, <1>6, <1>7, SeqEqual

(* next() takes the oldest event off the queue. *)
LEMMA NextPops ==
  ASSUME RingInv, next
  PROVE  Unread # <<>> /\ Unread' = Tail(Unread)
<1>1. /\ Live >= 1 /\ Live' = Live - 1
      /\ \A i \in 0 .. (Live' - 1) : LiveSlot(i)' = LiveSlot(i + 1)
      /\ mBuffer' = mBuffer
  BY NextKeepsRing
<1>2. Unread \in Seq(Events) /\ Len(Unread) = Live /\ Live \in Nat
  BY UnreadIsSeq
<1>3. Unread' = [i \in 1..Live' |-> mBuffer[LiveSlot(i - 1)']]
  BY <1>1 DEF Unread
<1>4. ASSUME NEW i \in 1..Live'
      PROVE  mBuffer[LiveSlot(i - 1)'] = Unread[i + 1]
  <2>1. i - 1 \in 0 .. (Live' - 1) /\ (i - 1) + 1 = i /\ (i + 1) - 1 = i /\ i + 1 \in 1..Live
    BY <1>1, <1>2
  <2>2. LiveSlot(i - 1)' = LiveSlot(i)
    BY <2>1, <1>1
  <2> QED
    BY <2>1, <2>2 DEF Unread
<1>5. Unread # <<>>
  BY <1>1, <1>2
<1>6. /\ Tail(Unread) \in Seq(Events)
      /\ Len(Tail(Unread)) = Live'
      /\ \A i \in 1..Live' : Tail(Unread)[i] = Unread[i + 1]
  BY <1>1, <1>2, <1>5, HeadTailProperties
<1>7. Unread' \in Seq(Events) /\ Len(Unread') = Live'
  <2>1. \A i \in 1..Live' : mBuffer[LiveSlot(i - 1)'] \in Events
    BY <1>1, <1>2, <1>4
  <2>2. Live' \in Nat
    BY <1>1, <1>2
  <2>3. Unread' \in [1..Live' -> Events]
    BY <2>1, <1>3
  <2> QED
    BY <2>2, <2>3, <1>3
<1>8. \A i \in 1..Live' : Unread'[i] = Tail(Unread)[i]
  BY <1>3, <1>4, <1>6
<1> QED
  BY <1>5, <1>6, <1>7, <1>8, SeqEqual

(* fill() writes next where the unread events end, however the two pointers     *)
(* have wrapped (InputEventReader.cpp:59-61, 81-86).                            *)
THEOREM HeadFollows == RingSpec => []HeadFollowsLive
<1>1. RingInv => HeadFollowsLive
  BY DEF RingInv
<1> QED
  BY <1>1, RingInvariant, PTL

(* Nothing but whole events is ever handed to a sensor class, partial reads and *)
(* the copy down included (InputEventReader.cpp:49-72).                         *)
THEOREM UnreadWhole == RingSpec => []LiveEventsWhole
<1>1. RingInv => LiveEventsWhole
  BY DEF RingInv
<1> QED
  BY <1>1, RingInvariant, PTL

(* The ring implements the queue, whatever its capacity and its events. *)
THEOREM RingImplementsQueue == RingSpec => QueueRefinement
<1>1. RingInit => Queue!Init
  <2> SUFFICES ASSUME RingInit PROVE Unread = <<>> /\ delivered = <<>>
    BY DEF Queue!Init, Unread
  <2>1. Live = 0
    BY DEF RingInit, Live
  <2> QED
    BY <2>1 DEF Unread, RingInit
<1>2. RingInv /\ [RingNext]_ringVars => [Queue!Next]_(Queue!vars)
  <2> SUFFICES ASSUME RingInv, [RingNext]_ringVars
               PROVE  Queue!Next \/ (Unread' = Unread /\ delivered' = delivered)
    BY DEF Queue!vars, Unread
  <2>1. CASE UNCHANGED ringVars
    BY <2>1 DEF ringVars, Unread, Live, LiveSlot
  <2>2. ASSUME NEW evs \in Batches(mFreeSpace), fill(evs) PROVE Queue!Next
    <3>1. Unread' = Unread \o evs
      BY <2>2, FillAppends
    <3>2. numEvents - Len(Unread) = mFreeSpace
      BY UnreadIsSeq DEF RingInv, RingTypes, Live
    <3>3. evs \in Queue!Batches(numEvents - Len(Unread))
      BY <3>2 DEF Queue!Batches, Batches
    <3>4. delivered' = evs
      BY <2>2 DEF fill
    <3> QED
      BY <3>1, <3>3, <3>4 DEF Queue!Next, Queue!Deliver, Unread
  <2>3. ASSUME NEW evs \in Batches(mFreeSpace), fillPartial(evs)
        PROVE  Unread' = Unread /\ delivered' = delivered
    <3>1. \A i \in 0 .. (Live - 1) : mBuffer'[LiveSlot(i)] = mBuffer[LiveSlot(i)]
      BY <2>3, FillPartialKeepsRing
    <3>2. Live' = Live /\ \A i \in 0 .. (Live - 1) : LiveSlot(i)' = LiveSlot(i)
      BY <2>3 DEF fillPartial, Live, LiveSlot
    <3>3. \A i \in 1..Live : i - 1 \in 0 .. (Live - 1)
      BY UnreadIsSeq
    <3> QED
      BY <3>1, <3>2, <3>3, <2>3 DEF Unread, fillPartial
  <2>4. CASE next
    BY <2>4, NextPops DEF next, Queue!Next, Queue!Consume, Unread
  <2> QED
    BY <2>1, <2>2, <2>3, <2>4 DEF RingNext
<1> QED
  BY <1>1, <1>2, RingInvariant, PTL DEF RingSpec, QueueRefinement, Queue!Spec, Unread
===============================================================================
