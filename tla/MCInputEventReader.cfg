SPECIFICATION RingSpec
CONSTANTS
  Events = {e1, e2}
  numEvents = 4
  NoEvent = NoEvent
SYMMETRY EventSymmetry
INVARIANTS
  HeadFollowsLive
  LiveEventsWhole
PROPERTY QueueRefinement
