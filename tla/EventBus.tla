------------------------------ MODULE EventBus ------------------------------
(***************************************************************************)
(* core/event_bus.py: the in-process bus every TESTRADE service publishes  *)
(* to and subscribes on.  Publishers append to one bounded deque; a        *)
(* processing thread takes the whole deque as a batch and calls the        *)
(* handlers of each event outside the lock.  start() and stop() are called *)
(* by the application's main thread; stop() joins with a timeout, so a     *)
(* thread stuck in a handler outlives it and may be joined by a second one *)
(* after the next start().                                                 *)
(*                                                                         *)
(* An event is named by its position in `log`, the order of the appends.   *)
(***************************************************************************)
EXTENDS Naturals, Sequences, FiniteSets

CONSTANTS Publishers,   \* threads that publish from outside the handlers
          Threads,      \* processing threads, one per effective start()
          Handlers,     \* the handler callables
          Types,        \* event classes
          Base,         \* BaseEvent, whose handlers receive every event
          MaxQueue,     \* max_queue_size
          NoThread,     \* _processing_thread is None
          NoEvent,      \* no publish() call in progress
          StaleAfter,   \* STALE_EVENT_THRESHOLD_SECONDS, in ticks
          MaxEvents,    \* bound of the model: events ever appended
          MaxTime       \* bound of the model: ticks of the clock

ASSUME BusAssumption ==
    /\ Base \in Types
    /\ MaxQueue \in Nat \ {0}
    /\ StaleAfter \in Nat /\ MaxEvents \in Nat /\ MaxTime \in Nat
    /\ Publishers \cap Threads = {}
    /\ NoThread \notin Threads
    /\ NoEvent \notin [type : Types, ts : Nat]

VARIABLES queue,     \* _queue
          stopped,   \* _stop_event.is_set()
          current,   \* _processing_thread
          pc,        \* where each processing thread is
          batch,     \* the events of its batch not yet finished
          clock,     \* current_time of its batch
          todo,      \* current_handlers not yet called for Head(batch)
          pub,       \* the event a publish() call is about to append
          subs,      \* _subscribers: pairs <<event class, handler>>
          app,       \* where the main thread is in stop()
          now,       \* time.time()
          log,       \* history: every appended event
          fate,      \* history: how each appended event left the bus
          got,       \* history: the calls made for each subscription
          since,     \* history: Len(log) when a subscription was made, 0
                     \* where there is none
          late       \* history: a join of stop() timed out

vars == <<queue, stopped, current, pc, batch, clock, todo, pub, subs, app,
          now, log, fate, got, since, late>>
dispatchVars == <<pc, batch, clock, todo>>
historyVars == <<log, fate, got, since, late>>

Actors == Publishers \cup Threads
Subscriptions == Types \X Handlers
Events == [type : Types, ts : Nat]
Fates == {"live", "overflow", "stale", "cleared", "done"}

Alive(t) == pc[t] \notin {"new", "done"}

Stale(t, e) == clock[t] > log[e].ts + StaleAfter

(* The subscriptions an event of class ty is dispatched to: those of its   *)
(* class and those of BaseEvent.                                           *)
Matches(ty) == {s \in Subscriptions : s[1] = ty \/ s[1] = Base}

(* Handlers of the event's own class are called before those of BaseEvent; *)
(* within a class the order is that of a WeakSet, any order.               *)
Callable(t) ==
    LET own == {s \in todo[t] : s[1] # Base}
    IN  IF own # {} THEN own ELSE todo[t]

Init ==
    /\ queue = <<>>
    /\ stopped = FALSE
    /\ current = NoThread
    /\ pc = [t \in Threads |-> "new"]
    /\ batch = [t \in Threads |-> <<>>]
    /\ clock = [t \in Threads |-> 0]
    /\ todo = [t \in Threads |-> {}]
    /\ pub = [a \in Actors |-> NoEvent]
    /\ subs = {}
    /\ app = "idle"
    /\ now = 0
    /\ log = <<>>
    /\ fate = <<>>
    /\ got = [s \in Subscriptions |-> <<>>]
    /\ since = [s \in Subscriptions |-> 0]
    /\ late = FALSE

-----------------------------------------------------------------------------
(* subscribe, unsubscribe, and the collection of a handler nobody else     *)
(* references: _subscribers holds weak references only.                    *)

Subscribe(s) ==
    /\ s \notin subs
    /\ subs' = subs \cup {s}
    /\ since' = [since EXCEPT ![s] = Len(log)]
    /\ UNCHANGED <<queue, stopped, current, dispatchVars, pub, app, now,
                   log, fate, got, late>>

Unsubscribe(s) ==
    /\ s \in subs
    /\ subs' = subs \ {s}
    /\ since' = [since EXCEPT ![s] = 0]
    /\ UNCHANGED <<queue, stopped, current, dispatchVars, pub, app, now,
                   log, fate, got, late>>

Collect(h) ==
    /\ \E s \in subs : s[2] = h
    /\ subs' = {s \in subs : s[2] # h}
    /\ since' = [s \in Subscriptions |-> IF s[2] = h THEN 0 ELSE since[s]]
    /\ UNCHANGED <<queue, stopped, current, dispatchVars, pub, app, now,
                   log, fate, got, late>>

-----------------------------------------------------------------------------
(* publish: the stop flag is read without the lock, the append is under    *)
(* it.  A handler may publish, so a processing thread is an actor too.     *)

MayPublish(a) == a \in Threads => pc[a] = "run"

PublishCheck(a, ty) ==
    /\ MayPublish(a)
    /\ pub[a] = NoEvent
    /\ ~stopped
    /\ Len(log) + Cardinality({b \in Actors : pub[b] # NoEvent}) < MaxEvents
    /\ pub' = [pub EXCEPT ![a] = [type |-> ty, ts |-> now]]
    /\ UNCHANGED <<queue, stopped, current, dispatchVars, subs, app, now,
                   historyVars>>

(* The deque of maxlen MaxQueue drops its oldest event when it is full.    *)
Room(q) == IF Len(q) = MaxQueue THEN Tail(q) ELSE q

FateOfOverflow(q, f) ==
    IF Len(q) = MaxQueue THEN [f EXCEPT ![Head(q)] = "overflow"] ELSE f

(* Mutant: no event is checked for before the append.                      *)
PublishAppendNothing(a) ==
    /\ Len(log) < MaxEvents
    /\ log' = Append(log, pub[a])
    /\ queue' = Append(Room(queue), Len(log) + 1)
    /\ fate' = Append(FateOfOverflow(queue, fate), "live")
    /\ pub' = [pub EXCEPT ![a] = NoEvent]
    /\ UNCHANGED <<stopped, current, dispatchVars, subs, app, now, got,
                   since, late>>

PublishAppend(a) ==
    /\ pub[a] # NoEvent
    /\ log' = Append(log, pub[a])
    /\ queue' = Append(Room(queue), Len(log) + 1)
    /\ fate' = Append(FateOfOverflow(queue, fate), "live")
    /\ pub' = [pub EXCEPT ![a] = NoEvent]
    /\ UNCHANGED <<stopped, current, dispatchVars, subs, app, now, got,
                   since, late>>

-----------------------------------------------------------------------------
(* _process_events, run by processing thread t.                            *)

(* Mutant: the batch is a copy of the deque, which is not emptied.         *)
TakeCopy(t) ==
    /\ pc[t] = "wait"
    /\ ~stopped
    /\ queue # <<>>
    /\ batch' = [batch EXCEPT ![t] = queue]
    /\ pc' = [pc EXCEPT ![t] = "taken"]
    /\ UNCHANGED <<queue, stopped, current, clock, todo, pub, subs, app, now,
                   historyVars>>

(* Under the lock: the whole deque becomes the batch.                      *)
Take(t) ==
    /\ pc[t] = "wait"
    /\ ~stopped
    /\ queue # <<>>
    /\ batch' = [batch EXCEPT ![t] = queue]
    /\ queue' = <<>>
    /\ pc' = [pc EXCEPT ![t] = "taken"]
    /\ UNCHANGED <<stopped, current, clock, todo, pub, subs, app, now,
                   historyVars>>

(* Once for the batch, after the lock is released.                         *)
ReadClock(t) ==
    /\ pc[t] = "taken"
    /\ clock' = [clock EXCEPT ![t] = now]
    /\ pc' = [pc EXCEPT ![t] = "next"]
    /\ UNCHANGED <<queue, stopped, current, batch, todo, pub, subs, app, now,
                   historyVars>>

Exit(t) ==
    /\ pc[t] = "wait"
    /\ stopped
    /\ pc' = [pc EXCEPT ![t] = "done"]
    /\ UNCHANGED <<queue, stopped, current, batch, clock, todo, pub, subs,
                   app, now, historyVars>>

DropStale(t) ==
    /\ pc[t] = "next"
    /\ batch[t] # <<>>
    /\ Stale(t, Head(batch[t]))
    /\ batch' = [batch EXCEPT ![t] = Tail(@)]
    /\ fate' = [fate EXCEPT ![Head(batch[t])] = "stale"]
    /\ UNCHANGED <<queue, stopped, current, pc, clock, todo, pub, subs, app,
                   now, log, got, since, late>>

(* Mutant: the handlers of BaseEvent are forgotten.                        *)
CopyOwnHandlers(t) ==
    /\ pc[t] = "next"
    /\ batch[t] # <<>>
    /\ ~Stale(t, Head(batch[t]))
    /\ todo' = [todo EXCEPT ![t] =
                   {s \in subs : s[1] = log[Head(batch[t])].type}]
    /\ pc' = [pc EXCEPT ![t] = "call"]
    /\ UNCHANGED <<queue, stopped, current, batch, clock, pub, subs, app,
                   now, historyVars>>

(* The handlers are copied under the lock, then called without it.  The    *)
(* stop flag is not consulted until the batch is exhausted.                *)
CopyHandlers(t) ==
    /\ pc[t] = "next"
    /\ batch[t] # <<>>
    /\ ~Stale(t, Head(batch[t]))
    /\ todo' = [todo EXCEPT ![t] = subs \cap Matches(log[Head(batch[t])].type)]
    /\ pc' = [pc EXCEPT ![t] = "call"]
    /\ UNCHANGED <<queue, stopped, current, batch, clock, pub, subs, app,
                   now, historyVars>>

CallHandler(t) ==
    /\ pc[t] = "call"
    /\ \E s \in Callable(t) :
          /\ todo' = [todo EXCEPT ![t] = @ \ {s}]
          /\ got' = [got EXCEPT ![s] =
                        Append(@, [th |-> t, ev |-> Head(batch[t])])]
    /\ pc' = [pc EXCEPT ![t] = "run"]
    /\ UNCHANGED <<queue, stopped, current, batch, clock, pub, subs, app,
                   now, log, fate, since, late>>

(* Mutant: an exception of a handler ends the processing thread.           *)
HandlerKillsThread(t) ==
    /\ pc[t] = "run"
    /\ pub[t] = NoEvent
    /\ pc' = [pc EXCEPT ![t] = "done"]
    /\ UNCHANGED <<queue, stopped, current, batch, clock, todo, pub, subs,
                   app, now, historyVars>>

(* A handler that raises is logged: the loop goes on as if it returned.    *)
HandlerReturns(t) ==
    /\ pc[t] = "run"
    /\ pub[t] = NoEvent
    /\ pc' = [pc EXCEPT ![t] = "call"]
    /\ UNCHANGED <<queue, stopped, current, batch, clock, todo, pub, subs,
                   app, now, historyVars>>

FinishEvent(t) ==
    /\ pc[t] = "call"
    /\ todo[t] = {}
    /\ batch' = [batch EXCEPT ![t] = Tail(@)]
    /\ fate' = [fate EXCEPT ![Head(batch[t])] = "done"]
    /\ pc' = [pc EXCEPT ![t] = "next"]
    /\ UNCHANGED <<queue, stopped, current, clock, todo, pub, subs, app,
                   now, log, got, since, late>>

(* Mutant: the stop flag is consulted within the batch.                    *)
FinishBatchStopped(t) ==
    /\ pc[t] = "next"
    /\ batch[t] = <<>> \/ stopped
    /\ batch' = [batch EXCEPT ![t] = <<>>]
    /\ clock' = [clock EXCEPT ![t] = 0]
    /\ pc' = [pc EXCEPT ![t] = "wait"]
    /\ UNCHANGED <<queue, stopped, current, todo, pub, subs, app, now,
                   historyVars>>

(* The time read for a batch ends with it.                                 *)
FinishBatch(t) ==
    /\ pc[t] = "next"
    /\ batch[t] = <<>>
    /\ clock' = [clock EXCEPT ![t] = 0]
    /\ pc' = [pc EXCEPT ![t] = "wait"]
    /\ UNCHANGED <<queue, stopped, current, batch, todo, pub, subs, app, now,
                   historyVars>>

ThreadStep(t) ==
    \/ Take(t) \/ ReadClock(t) \/ Exit(t) \/ DropStale(t)
    \/ CopyHandlers(t) \/ CallHandler(t) \/ HandlerReturns(t)
    \/ FinishEvent(t) \/ FinishBatch(t)

-----------------------------------------------------------------------------
(* start and stop, called by the main thread.                              *)

(* Of the threads not yet started any one stands for all.                  *)
NextThread(t) == pc[t] = "new" /\ t = CHOOSE u \in Threads : pc[u] = "new"

(* Mutant: start() does not look for a running thread.                     *)
StartAgain(t) ==
    /\ app = "idle"
    /\ NextThread(t)
    /\ stopped' = FALSE
    /\ current' = t
    /\ pc' = [pc EXCEPT ![t] = "wait"]
    /\ UNCHANGED <<queue, batch, clock, todo, pub, subs, app, now,
                   historyVars>>

Start(t) ==
    /\ app = "idle"
    /\ current \in Threads => ~Alive(current)
    /\ NextThread(t)
    /\ stopped' = FALSE
    /\ current' = t
    /\ pc' = [pc EXCEPT ![t] = "wait"]
    /\ UNCHANGED <<queue, batch, clock, todo, pub, subs, app, now,
                   historyVars>>

StopRequest ==
    /\ app = "idle"
    /\ ~stopped
    /\ stopped' = TRUE
    /\ app' = "joining"
    /\ UNCHANGED <<queue, current, dispatchVars, pub, subs, now, historyVars>>

(* Mutant: stop() does not join.                                           *)
NoJoin ==
    /\ app = "joining"
    /\ app' = "clearing"
    /\ UNCHANGED <<queue, stopped, current, dispatchVars, pub, subs, now,
                   historyVars>>

JoinReturns ==
    /\ app = "joining"
    /\ current \in Threads => ~Alive(current)
    /\ app' = "clearing"
    /\ UNCHANGED <<queue, stopped, current, dispatchVars, pub, subs, now,
                   historyVars>>

JoinTimesOut ==
    /\ app = "joining"
    /\ current \in Threads
    /\ Alive(current)
    /\ late' = TRUE
    /\ app' = "clearing"
    /\ UNCHANGED <<queue, stopped, current, dispatchVars, pub, subs, now,
                   log, fate, got, since>>

StopClear ==
    /\ app = "clearing"
    /\ current' = NoThread
    /\ queue' = <<>>
    /\ fate' = [e \in DOMAIN fate |->
                  IF \E i \in DOMAIN queue : queue[i] = e
                  THEN "cleared" ELSE fate[e]]
    /\ app' = "idle"
    /\ UNCHANGED <<stopped, dispatchVars, pub, subs, now, log, got, since,
                   late>>

AppStep ==
    \/ \E t \in Threads : Start(t)
    \/ StopRequest \/ JoinReturns \/ JoinTimesOut \/ StopClear

-----------------------------------------------------------------------------
Tick ==
    /\ now < MaxTime
    /\ now' = now + 1
    /\ UNCHANGED <<queue, stopped, current, dispatchVars, pub, subs, app,
                   historyVars>>

Next ==
    \/ \E s \in Subscriptions : Subscribe(s) \/ Unsubscribe(s)
    \/ \E h \in Handlers : Collect(h)
    \/ \E a \in Actors, ty \in Types : PublishCheck(a, ty)
    \/ \E a \in Actors : PublishAppend(a)
    \/ \E t \in Threads : ThreadStep(t)
    \/ AppStep
    \/ Tick

Spec == Init /\ [][Next]_vars

(* Fairness: the interpreter schedules every live processing thread, and   *)
(* handlers return.  Nothing makes the application publish or stop.        *)
FairSpec ==
    /\ Spec
    /\ \A t \in Threads : WF_vars(ThreadStep(t))
    /\ \A t \in Threads : WF_vars(PublishAppend(t))

-----------------------------------------------------------------------------
TypeOK ==
    /\ queue \in Seq(Nat \ {0})
    /\ stopped \in BOOLEAN
    /\ current \in Threads \cup {NoThread}
    /\ pc \in [Threads -> {"new", "wait", "taken", "next", "call", "run",
                            "done"}]
    /\ batch \in [Threads -> Seq(Nat \ {0})]
    /\ clock \in [Threads -> Nat]
    /\ todo \in [Threads -> SUBSET Subscriptions]
    /\ pub \in [Actors -> Events \cup {NoEvent}]
    /\ subs \subseteq Subscriptions
    /\ app \in {"idle", "joining", "clearing"}
    /\ now \in Nat
    /\ log \in Seq(Events)
    /\ fate \in Seq(Fates)
    /\ got \in [Subscriptions -> Seq([th : Threads, ev : Nat \ {0}])]
    /\ since \in [Subscriptions -> Nat]
    /\ late \in BOOLEAN

(* No subscription is handed the same event twice, however many processing *)
(* threads a timed-out stop() followed by start() has left running.        *)
AtMostOnce ==
    \A s \in Subscriptions : \A i, j \in DOMAIN got[s] :
        got[s][i].ev = got[s][j].ev => i = j

(* As long as no stop() gave up on its join, at most one processing thread *)
(* is alive: start() after a complete stop() never makes a second one.     *)
SingleDispatcher ==
    ~late => \A t, u \in Threads : Alive(t) /\ Alive(u) => t = u

(* One processing thread hands its events to a subscription in the order   *)
(* they were published; as long as no stop() gave up on its join the       *)
(* subscription sees them in that order across every restart of the bus.   *)
DeliveryOrder ==
    \A s \in Subscriptions : \A i, j \in DOMAIN got[s] :
        (i < j /\ (~late \/ got[s][i].th = got[s][j].th))
            => got[s][i].ev < got[s][j].ev

(* Every appended event is accounted for: it is live exactly as long as it *)
(* is in the queue or in the unfinished part of a batch.                   *)
Waiting(e) ==
    \/ \E i \in DOMAIN queue : queue[i] = e
    \/ \E t \in Threads : \E i \in DOMAIN batch[t] : batch[t][i] = e

NoSilentLoss ==
    /\ Len(fate) = Len(log)
    /\ \A e \in DOMAIN fate : fate[e] = "live" <=> Waiting(e)

(* A subscription that has stood since before an event was appended has    *)
(* been called for it once its dispatch is over, unless the event was      *)
(* discarded as stale, by overflow or by stop().                           *)
DeliveredToStanding ==
    \A s \in subs : \A e \in DOMAIN fate :
        (fate[e] = "done" /\ e > since[s] /\ s \in Matches(log[e].type))
           => \E i \in DOMAIN got[s] : got[s][i].ev = e

(* Once a stop() whose join succeeded has returned, no handler is running  *)
(* and none will be called before the next start().                        *)
QuietAfterStop ==
    (stopped /\ app = "idle" /\ ~late) => \A t \in Threads : ~Alive(t)

(* An event waiting on a bus that keeps running is eventually dispatched   *)
(* or discarded.                                                           *)
Pending(e) == e \in DOMAIN fate /\ fate[e] = "live"

EventuallySettled ==
    \A e \in 1 .. MaxEvents :
        (Pending(e) /\ current # NoThread) ~> (stopped \/ ~Pending(e))
=============================================================================
