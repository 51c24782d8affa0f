\* Two processes, a live delivery and a replay of it.
CONSTANTS
  Events = {e1}
  Consumers = {c1, c2}
  Matches <- MCMatches
  Owners = {p1, p2}
  NoOwner = NoOwner
  Live = Live
  Replays = {r1}
  None = None
  EventAttempts = 2
  DeliveryAttempts = 2
  EventLease = 1
  DeliveryLease = 1
  RetryDelay = 1
SPECIFICATION FairSpec
INVARIANTS
  TypeOK
  PublishedToAll
PROPERTIES
  KeepsPromise
  EverythingIsSettled
