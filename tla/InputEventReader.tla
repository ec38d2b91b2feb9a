--------------------------- MODULE InputEventReader ---------------------------
(* InputEventCircularReader (testcode/android/libsensors/InputEventReader.cpp) *)
(* the ring that every sensor class of the sensors HAL reads its event device  *)
(* through.  The array has twice numEvents slots: one read() may run past the  *)
(* end of the ring (slot numEvents), and what lies beyond it is then copied    *)
(* down to slot 0.  Pointers are slot numbers; mBufferEnd is numEvents.        *)
EXTENDS Integers, Sequences

CONSTANTS Events,     \* the input events a device can report
          numEvents,  \* the constructor's argument
          NoEvent     \* what a slot holds before it is first written

ASSUME SizeAssumption == numEvents \in Nat \ {0}
ASSUME NoEventAssumption == NoEvent \notin Events

VARIABLES
  mBuffer, mHead, mCurr, mFreeSpace,
  delivered   \* the device's side: the events of the last whole read()

ringVars == <<mBuffer, mHead, mCurr, mFreeSpace, delivered>>

Slots == 0 .. (2 * numEvents - 1)

RingInit ==
  /\ mBuffer = [i \in Slots |-> NoEvent]
  /\ mHead = 0
  /\ mCurr = 0
  /\ mFreeSpace = numEvents
  /\ delivered = <<>>

-------------------------------------------------------------------------------
Batches(n) == UNION {[1..k -> Events] : k \in 1..n}

(* read(fd, mHead, ...) stores evs from slot mHead on. *)
Stored(evs) ==
  [i \in Slots |-> IF i \in mHead .. (mHead + Len(evs) - 1)
                     THEN evs[i - mHead + 1] ELSE mBuffer[i]]

(* Mutant: the memcpy is missing. *)
NothingCopied(buf, s) == buf

(* memcpy(mBuffer, mBufferEnd, s): the first s slots get what lies past the end *)
CopiedDown(buf, s) ==
  [i \in Slots |-> IF i < s THEN buf[numEvents + i] ELSE buf[i]]

(* Mutant: the free space is not taken. *)
fillForFree(evs) ==
  /\ mHead' = IF mHead + Len(evs) > numEvents THEN mHead + Len(evs) - numEvents
                                              ELSE mHead + Len(evs)
  /\ mBuffer' = Stored(evs)
  /\ delivered' = evs
  /\ UNCHANGED <<mCurr, mFreeSpace>>

(* fill() when read() returns Len(evs) whole events. *)
fill(evs) ==
  LET end == mHead + Len(evs) IN
  /\ mFreeSpace' = mFreeSpace - Len(evs)
  /\ mHead' = IF end > numEvents THEN end - numEvents ELSE end
  /\ mBuffer' = IF end > numEvents THEN CopiedDown(Stored(evs), end - numEvents)
                                   ELSE Stored(evs)
  /\ delivered' = evs
  /\ UNCHANGED mCurr

(* Mutant: a read of part of an event is taken for a whole one. *)
fillRounded(evs) ==
  /\ mHead + Len(evs) <= numEvents
  /\ mBuffer' = [Stored(evs) EXCEPT ![mHead + Len(evs) - 1] = NoEvent]
  /\ mHead' = mHead + Len(evs)
  /\ mFreeSpace' = mFreeSpace - Len(evs)
  /\ UNCHANGED <<mCurr, delivered>>

(* fill() when read() returns a size that is no multiple of an event's: the    *)
(* bytes are in the array, and fill() gives up with -EINVAL before it moves    *)
(* mHead.  The last slot written holds part of an event.                       *)
fillPartial(evs) ==
  /\ mBuffer' = [Stored(evs) EXCEPT ![mHead + Len(evs) - 1] = NoEvent]
  /\ UNCHANGED <<mHead, mCurr, mFreeSpace, delivered>>

(* readEvent() returns 1: the event at mCurr may be looked at. *)
Available == numEvents - mFreeSpace # 0

(* next(), which the sensor classes call only after readEvent() returned 1. *)
next ==
  /\ Available
  /\ mCurr' = IF mCurr + 1 >= numEvents THEN 0 ELSE mCurr + 1
  /\ mFreeSpace' = mFreeSpace + 1
  /\ UNCHANGED <<mBuffer, mHead, delivered>>

RingNext ==
  \/ \E evs \in Batches(mFreeSpace) : fill(evs)
  \/ \E evs \in Batches(mFreeSpace) : fillPartial(evs)
  \/ next

RingSpec == RingInit /\ [][RingNext]_ringVars

-------------------------------------------------------------------------------
RingTypes ==
  /\ mBuffer \in [Slots -> Events \union {NoEvent}]
  /\ mHead \in 0 .. numEvents
  /\ mCurr \in 0 .. (numEvents - 1)
  /\ mFreeSpace \in 0 .. numEvents
  /\ delivered \in Seq(Events)

Live == numEvents - mFreeSpace

(* The slot of the i-th unread event, counted from 0. *)
LiveSlot(i) == IF mCurr + i < numEvents THEN mCurr + i ELSE mCurr + i - numEvents

(* Where fill() writes next is where the unread events end, up to one turn of  *)
(* the ring.  mHead rests at numEvents, unwrapped, while mCurr is taken back   *)
(* to 0 by next(): the two pointers wrap under different conditions.           *)
HeadFollowsLive ==
  mHead \in {mCurr + Live, mCurr + Live - numEvents, mCurr + Live + numEvents}

(* No unread slot is one that was never written or only written in part: the   *)
(* copy down of fill() and the rejected partial reads leave every unread event *)
(* whole (InputEventReader.cpp:49-72).                                         *)
LiveEventsWhole == \A i \in 0 .. (Live - 1) : mBuffer[LiveSlot(i)] \in Events

RingInv == RingTypes /\ HeadFollowsLive /\ LiveEventsWhole

(* The reader implements the queue: events come out once each, in the order    *)
(* read() delivered them, whatever the interleaving of fill() and next() and   *)
(* wherever the ring wraps.                                                    *)
Queue == INSTANCE EventQueue
           WITH q <- [i \in 1..Live |-> mBuffer[LiveSlot(i - 1)]]
QueueRefinement == Queue!Spec
===============================================================================
