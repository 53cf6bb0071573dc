\* Two handlers and three messages, so that a callback has messages ahead of it and behind it, of
\* its own handler and of the other.
SPECIFICATION FairSpec
CONSTANTS
  NULL = NULL
  Handler = {h1, h2}
  Message = {m1, m2, m3}
  Delays = {1, 2}
  MaxTime = 3
  PassPosts = 2
INVARIANTS
  QueuesAgree
  PassComplete
  WakeupScheduled
PROPERTIES
  EventuallyDelivered
