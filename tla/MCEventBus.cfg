\* Two processing threads, a handler that may hold a subscription to one event
\* class and to BaseEvent, stale events, an overflow at one event, restarts.
SPECIFICATION FairSpec
CONSTANTS
  Publishers = {p1}
  Threads = {t1, t2}
  Handlers = {h1}
  Base = base
  Types = {base, order}
  NoThread = noThread
  NoEvent = noEvent
  MaxQueue = 1
  StaleAfter = 0
  MaxEvents = 2
  MaxTime = 1
CHECK_DEADLOCK FALSE
INVARIANTS TypeOK AtMostOnce SingleDispatcher DeliveryOrder QuietAfterStop NoSilentLoss DeliveredToStanding
PROPERTY EventuallySettled
