--------------------------- MODULE EventBus_proofs ---------------------------
(* Proofs about EventBus for any number of publishers, threads, handlers   *)
(* and events.  The invariants are proved in layers, each inductive under  *)
(* the ones before it: the types, the lifecycle of the threads, the order  *)
(* of the queue and the batches, the calls made, the fates of the events,  *)
(* and the calls still owed.                                               *)
EXTENDS EventBus, SequenceTheorems, TLAPS

USE DEF Subscriptions, Events, Actors, Fates, Alive

-----------------------------------------------------------------------------
(* Types.  A batch is empty exactly when its thread has none to work on.   *)

BatchHeld ==
    \A t \in Threads :
        /\ pc[t] \in {"call", "run"} => batch[t] # <<>>
        /\ pc[t] \in {"new", "wait", "done"} => batch[t] = <<>>

TypeInv == TypeOK /\ BatchHeld

(* Positions in the log are positive numbers.                              *)
LEMMA NatMember == \A n \in Nat : n + 1 \in Nat \ {0}
OBVIOUS

(* Overwriting a sequence's element leaves a sequence of the same length,  *)
(* whether or not the index is one of its own.                             *)
LEMMA ExceptKeepsSeq ==
    ASSUME NEW S, NEW f \in Seq(S), NEW v \in S, NEW x
    PROVE  [f EXCEPT ![x] = v] \in Seq(S) /\ Len([f EXCEPT ![x] = v]) = Len(f)
<1>1. CASE x \in 1 .. Len(f)
  BY <1>1, ExceptSeq
<1>2. CASE x \notin 1 .. Len(f)
  <2>1. DOMAIN f = 1 .. Len(f) /\ Len(f) \in Nat
    BY LenProperties
  <2>2. [f EXCEPT ![x] = v] = f
    BY <1>2, <2>1
  <2> QED
    BY <2>2
<1> QED
  BY <1>1, <1>2

(* A function on 1 .. n is a sequence of length n.                         *)
LEMMA FunctionIsSeq ==
    ASSUME NEW S, NEW n \in Nat, NEW f \in [1 .. n -> S]
    PROVE  f \in Seq(S) /\ Len(f) = n
BY SeqDef

(* Making room in the deque leaves a sequence of log positions.            *)
LEMMA RoomType ==
    ASSUME NEW q \in Seq(Nat \ {0})
    PROVE  Room(q) \in Seq(Nat \ {0})
<1>1. CASE Len(q) = MaxQueue
  <2>1. q # <<>>
    BY <1>1, BusAssumption
  <2> QED
    BY <2>1, HeadTailProperties DEF Room
<1>2. CASE Len(q) # MaxQueue
  BY <1>2 DEF Room
<1> QED
  BY <1>1, <1>2

(* Recording an overflow leaves a sequence of fates.                       *)
LEMMA OverflowType ==
    ASSUME NEW q, NEW f \in Seq(Fates)
    PROVE  FateOfOverflow(q, f) \in Seq(Fates) /\ Len(FateOfOverflow(q, f)) = Len(f)
<1>1. [f EXCEPT ![Head(q)] = "overflow"] \in Seq(Fates)
      /\ Len([f EXCEPT ![Head(q)] = "overflow"]) = Len(f)
  BY ExceptKeepsSeq
<1> QED
  BY <1>1 DEF FateOfOverflow

(* The bus as constructed has its type.                                    *)
LEMMA InitType == Init => TypeInv
<1> SUFFICES ASSUME Init PROVE TypeInv
  OBVIOUS
<1>1. <<>> \in Seq(Nat \ {0}) /\ <<>> \in Seq(Events) /\ <<>> \in Seq(Fates)
      /\ <<>> \in Seq([th : Threads, ev : Nat \ {0}])
  BY EmptySeq
<1> QED
  BY <1>1 DEF Init, TypeInv, TypeOK, BatchHeld

(* Every step of the bus, its threads and its callers keeps the types and  *)
(* the link between a thread's position and its batch.                     *)
LEMMA TypeStep == TypeInv /\ [Next]_vars => TypeInv'
<1> SUFFICES ASSUME TypeInv, [Next]_vars PROVE TypeInv'
  OBVIOUS
<1> USE DEF TypeInv, TypeOK, BatchHeld, dispatchVars, historyVars
<1>1. ASSUME NEW s \in Subscriptions, Subscribe(s) PROVE TypeInv'
  <2>1. Len(log) \in Nat
    BY LenProperties
  <2> QED
    BY <1>1, <2>1 DEF Subscribe
<1>2. ASSUME NEW s \in Subscriptions, Unsubscribe(s) PROVE TypeInv'
  BY <1>2 DEF Unsubscribe
<1>3. ASSUME NEW h \in Handlers, Collect(h) PROVE TypeInv'
  BY <1>3 DEF Collect
<1>4. ASSUME NEW a \in Actors, NEW ty \in Types, PublishCheck(a, ty) PROVE TypeInv'
  BY <1>4 DEF PublishCheck
<1>5. ASSUME NEW a \in Actors, PublishAppend(a) PROVE TypeInv'
  <2>1. pub[a] \in Events
    BY <1>5 DEF PublishAppend
  <2>2. Append(log, pub[a]) \in Seq(Events) /\ Len(log) \in Nat
    BY <2>1, AppendProperties, LenProperties
  <2>3. Append(Room(queue), Len(log) + 1) \in Seq(Nat \ {0})
    BY <2>2, RoomType, NatMember, AppendProperties
  <2>4. Append(FateOfOverflow(queue, fate), "live") \in Seq(Fates)
    BY OverflowType, AppendProperties
  <2> QED
    BY <1>5, <2>2, <2>3, <2>4 DEF PublishAppend
<1>6. ASSUME NEW t \in Threads, ThreadStep(t) PROVE TypeInv'
  <2>0. batch[t] # <<>> =>
            /\ Head(batch[t]) \in Nat \ {0}
            /\ Tail(batch[t]) \in Seq(Nat \ {0})
    BY HeadTailProperties
  <2>1. CASE Take(t)
    <3>1. queue' = <<>> /\ queue' \in Seq(Nat \ {0})
      BY <2>1, EmptySeq DEF Take
    <3> QED
      BY <2>1, <3>1 DEF Take
  <2>2. CASE Exit(t)
    BY <2>2 DEF Exit
  <2>3. CASE DropStale(t)
    <3>1. fate' \in Seq(Fates)
      BY <2>3, ExceptKeepsSeq DEF DropStale
    <3> QED
      BY <2>0, <2>3, <3>1 DEF DropStale
  <2>4. CASE CopyHandlers(t)
    BY <2>4 DEF CopyHandlers
  <2>5. CASE CallHandler(t)
    <3>1. PICK s \in Callable(t) :
              /\ todo' = [todo EXCEPT ![t] = @ \ {s}]
              /\ got' = [got EXCEPT ![s] =
                            Append(@, [th |-> t, ev |-> Head(batch[t])])]
      BY <2>5 DEF CallHandler
    <3>2. s \in Subscriptions
      BY <3>1 DEF Callable
    <3>3. [th |-> t, ev |-> Head(batch[t])] \in [th : Threads, ev : Nat \ {0}]
      BY <2>0, <2>5 DEF CallHandler
    <3>4. got' \in [Subscriptions -> Seq([th : Threads, ev : Nat \ {0}])]
      BY <3>1, <3>2, <3>3, AppendProperties
    <3>5. todo' \in [Threads -> SUBSET Subscriptions]
      BY <3>1
    <3> QED
      BY <2>5, <3>4, <3>5 DEF CallHandler
  <2>6. CASE HandlerReturns(t)
    BY <2>6 DEF HandlerReturns
  <2>7. CASE FinishEvent(t)
    <3>1. fate' \in Seq(Fates)
      BY <2>7, ExceptKeepsSeq DEF FinishEvent
    <3> QED
      BY <2>0, <2>7, <3>1 DEF FinishEvent
  <2>8. CASE FinishBatch(t)
    BY <2>8 DEF FinishBatch
  <2>9. CASE ReadClock(t)
    BY <2>9 DEF ReadClock
  <2> QED
    BY <1>6, <2>1, <2>2, <2>3, <2>4, <2>5, <2>6, <2>7, <2>8, <2>9 DEF ThreadStep
<1>7. ASSUME AppStep PROVE TypeInv'
  <2>1. ASSUME NEW t \in Threads, Start(t) PROVE TypeInv'
    BY <2>1 DEF Start, NextThread
  <2>2. CASE StopRequest
    BY <2>2 DEF StopRequest
  <2>3. CASE JoinReturns
    BY <2>3 DEF JoinReturns
  <2>4. CASE JoinTimesOut
    BY <2>4 DEF JoinTimesOut
  <2>5. CASE StopClear
    <3>1. DOMAIN fate = 1 .. Len(fate) /\ Len(fate) \in Nat
      BY LenProperties
    <3>2. \A e \in 1 .. Len(fate) : fate[e] \in Fates
      BY <3>1, ElementOfSeq
    <3>3. fate' \in [1 .. Len(fate) -> Fates]
      BY <2>5, <3>1, <3>2 DEF StopClear
    <3>4. fate' \in Seq(Fates)
      BY <3>1, <3>3, FunctionIsSeq
    <3>5. queue' \in Seq(Nat \ {0})
      BY <2>5, EmptySeq DEF StopClear
    <3> QED
      BY <2>5, <3>4, <3>5 DEF StopClear
  <2> HIDE DEF TypeInv, TypeOK, BatchHeld, dispatchVars, historyVars,
              Subscriptions, Events, Actors, Fates, Alive
  <2> QED
    BY <1>7, <2>1, <2>2, <2>3, <2>4, <2>5 DEF AppStep
<1>8. CASE Tick
  <2>1. now' \in Nat
    BY <1>8 DEF Tick
  <2> QED
    BY <1>8, <2>1 DEF Tick
<1>9. CASE UNCHANGED vars
  BY <1>9 DEF vars
<1> HIDE DEF TypeInv, TypeOK, BatchHeld, dispatchVars, historyVars,
            Subscriptions, Events, Actors, Fates, Alive
<1> QED
  BY <1>1, <1>2, <1>3, <1>4, <1>5, <1>6, <1>7, <1>8, <1>9 DEF Next

(* The variables have their types in every reachable state.                *)
THEOREM Typing == Spec => []TypeOK
<1>1. TypeInv => TypeOK
  BY DEF TypeInv
<1> QED
  BY <1>1, InitType, TypeStep, PTL DEF Spec

-----------------------------------------------------------------------------
(* The lifecycle of the processing threads.                                *)

LifeInv ==
    /\ app # "idle" => stopped
    /\ ~late => \A t \in Threads : Alive(t) => t = current
    /\ ~late /\ (app = "clearing" \/ (stopped /\ app = "idle"))
          => \A t \in Threads : ~Alive(t)

(* Starting, stopping and joining keep the account of who is alive.        *)
LEMMA LifeStep == TypeInv /\ LifeInv /\ [Next]_vars => LifeInv'
<1> SUFFICES ASSUME TypeInv, LifeInv, [Next]_vars PROVE LifeInv'
  OBVIOUS
<1>0. pc \in [Threads -> {"new", "wait", "taken", "next", "call", "run", "done"}]
      /\ current \in Threads \cup {NoThread} /\ NoThread \notin Threads
  BY BusAssumption DEF TypeInv, TypeOK
<1> USE DEF LifeInv, dispatchVars, historyVars
<1>1. ASSUME NEW s \in Subscriptions, Subscribe(s) \/ Unsubscribe(s) PROVE LifeInv'
  BY <1>1 DEF Subscribe, Unsubscribe
<1>2. ASSUME NEW h \in Handlers, Collect(h) PROVE LifeInv'
  BY <1>2 DEF Collect
<1>3. ASSUME NEW a \in Actors, NEW ty \in Types, PublishCheck(a, ty) PROVE LifeInv'
  BY <1>3 DEF PublishCheck
<1>4. ASSUME NEW a \in Actors, PublishAppend(a) PROVE LifeInv'
  BY <1>4 DEF PublishAppend
<1>5. ASSUME NEW t \in Threads, ThreadStep(t) PROVE LifeInv'
  <2>1. pc[t] \in {"wait", "taken", "next", "call", "run"}
    BY <1>5 DEF ThreadStep, Take, ReadClock, Exit, DropStale, CopyHandlers,
                CallHandler, HandlerReturns, FinishEvent, FinishBatch
  <2>2. /\ UNCHANGED <<stopped, current, app, late>>
        /\ \A u \in Threads \ {t} : pc'[u] = pc[u]
    BY <1>0, <1>5 DEF ThreadStep, Take, ReadClock, Exit, DropStale, CopyHandlers,
                CallHandler, HandlerReturns, FinishEvent, FinishBatch
  <2> QED
    BY <1>0, <2>1, <2>2
<1>6. ASSUME AppStep PROVE LifeInv'
  <2>1. ASSUME NEW t \in Threads, Start(t) PROVE LifeInv'
    BY <1>0, <2>1 DEF Start, NextThread
  <2>2. CASE StopRequest
    BY <2>2 DEF StopRequest
  <2>3. CASE JoinReturns
    BY <1>0, <2>3 DEF JoinReturns
  <2>4. CASE JoinTimesOut
    BY <2>4 DEF JoinTimesOut
  <2>5. CASE StopClear
    BY <2>5 DEF StopClear
  <2> HIDE DEF LifeInv
  <2> QED
    BY <1>6, <2>1, <2>2, <2>3, <2>4, <2>5 DEF AppStep
<1>7. CASE Tick
  BY <1>7 DEF Tick
<1>8. CASE UNCHANGED vars
  BY <1>8 DEF vars
<1> HIDE DEF LifeInv
<1> QED
  BY <1>1, <1>2, <1>3, <1>4, <1>5, <1>6, <1>7, <1>8 DEF Next

(* The account of live threads holds in every reachable state.             *)
LEMMA LifeInvariant == Spec => [](TypeInv /\ LifeInv)
<1>1. Init => LifeInv
  BY DEF Init, LifeInv
<1> QED
  BY <1>1, InitType, TypeStep, LifeStep, PTL DEF Spec

(* A start() that follows a stop() whose join succeeded never makes a      *)
(* second processing thread.                                               *)
THEOREM OneThread == Spec => []SingleDispatcher
<1>1. LifeInv => SingleDispatcher
  BY DEF LifeInv, SingleDispatcher
<1> QED
  BY <1>1, LifeInvariant, PTL

(* When a stop() whose join succeeded has returned, every thread has ended *)
(* until the next start().                                                 *)
THEOREM QuietOnceStopped == Spec => []QuietAfterStop
<1>1. LifeInv => QuietAfterStop
  BY DEF LifeInv, QuietAfterStop
<1> QED
  BY <1>1, LifeInvariant, PTL

-----------------------------------------------------------------------------
(* The queue and the batches: events appear in the order of the log, those *)
(* of a batch are older than those of the queue, and no event is in two    *)
(* batches, since a batch is the whole queue at the time it is taken.      *)

Sorted(q) == \A i, j \in 1 .. Len(q) : i < j => q[i] < q[j]

OrderInv ==
    /\ Sorted(queue)
    /\ \A i \in 1 .. Len(queue) : queue[i] <= Len(log)
    /\ \A t \in Threads :
          /\ Sorted(batch[t])
          /\ \A i \in 1 .. Len(batch[t]) : batch[t][i] <= Len(log)
          /\ \A i \in 1 .. Len(batch[t]), j \in 1 .. Len(queue) :
                batch[t][i] < queue[j]
    /\ \A t, u \in Threads : t # u =>
          \A i \in 1 .. Len(batch[t]), j \in 1 .. Len(batch[u]) :
                batch[t][i] # batch[u][j]

(* What publish() leaves in the deque: the old events, without the first   *)
(* if the deque was full, then the new one.                                *)
LEMMA AppendedQueue ==
    ASSUME NEW q \in Seq(Nat \ {0}), NEW n \in Nat \ {0}
    PROVE  \E d \in {0, 1} :
              /\ d <= Len(q)
              /\ Len(Append(Room(q), n)) = Len(q) - d + 1
              /\ \A i \in 1 .. Len(q) - d : Append(Room(q), n)[i] = q[i + d]
              /\ Append(Room(q), n)[Len(q) - d + 1] = n
<1>0. Len(q) \in Nat
  BY LenProperties
<1>1. CASE Len(q) = MaxQueue
  <2>1. q # <<>> /\ Len(q) >= 1
    BY <1>0, <1>1, BusAssumption
  <2>2. /\ Room(q) \in Seq(Nat \ {0}) /\ Len(Room(q)) = Len(q) - 1
        /\ \A i \in 1 .. Len(q) - 1 : Room(q)[i] = q[i + 1]
    BY <1>1, <2>1, HeadTailProperties DEF Room
  <2> QED
    BY <1>0, <2>1, <2>2, AppendProperties
<1>2. CASE Len(q) # MaxQueue
  <2>1. Room(q) = q
    BY <1>2 DEF Room
  <2> QED
    BY <1>0, <2>1, AppendProperties
<1> QED
  BY <1>1, <1>2

(* Publishing, taking and finishing keep the queue and the batches sorted  *)
(* and disjoint.                                                           *)
LEMMA OrderStep == TypeInv /\ OrderInv /\ [Next]_vars => OrderInv'
<1> SUFFICES ASSUME TypeInv, OrderInv, [Next]_vars PROVE OrderInv'
  OBVIOUS
<1>0. /\ queue \in Seq(Nat \ {0}) /\ Len(queue) \in Nat
      /\ batch \in [Threads -> Seq(Nat \ {0})]
      /\ \A t \in Threads : Len(batch[t]) \in Nat
      /\ log \in Seq(Events) /\ Len(log) \in Nat
      /\ \A i \in 1 .. Len(queue) : queue[i] \in Nat
      /\ \A t \in Threads : \A i \in 1 .. Len(batch[t]) : batch[t][i] \in Nat
  BY LenProperties, ElementOfSeq DEF TypeInv, TypeOK
<1> USE DEF OrderInv, dispatchVars, historyVars
(* A thread that only drops the head of its own batch keeps the order.     *)
<1>1. ASSUME NEW t \in Threads, batch[t] # <<>>,
             batch' = [batch EXCEPT ![t] = Tail(@)],
             queue' = queue, log' = log
      PROVE  OrderInv'
  <2>1. /\ Len(batch'[t]) = Len(batch[t]) - 1
        /\ \A i \in 1 .. Len(batch'[t]) : batch'[t][i] = batch[t][i + 1]
        /\ \A u \in Threads : u # t => batch'[u] = batch[u]
    BY <1>0, <1>1, HeadTailProperties
  <2>2. \A u \in Threads : \E d \in {0, 1} :
            /\ Len(batch'[u]) = Len(batch[u]) - d
            /\ \A i \in 1 .. Len(batch'[u]) :
                  i + d \in 1 .. Len(batch[u]) /\ batch'[u][i] = batch[u][i + d]
    <3> SUFFICES ASSUME NEW u \in Threads
                 PROVE \E d \in {0, 1} :
                    /\ Len(batch'[u]) = Len(batch[u]) - d
                    /\ \A i \in 1 .. Len(batch'[u]) :
                          i + d \in 1 .. Len(batch[u]) /\ batch'[u][i] = batch[u][i + d]
      OBVIOUS
    <3>1. CASE u = t
      BY <1>0, <2>1, <3>1
    <3>2. CASE u # t
      BY <1>0, <2>1, <3>2
    <3> QED
      BY <3>1, <3>2
  <2>3. ASSUME NEW u \in Threads PROVE Sorted(batch'[u])
    <3>1. PICK d \in {0, 1} :
              /\ Len(batch'[u]) = Len(batch[u]) - d
              /\ \A i \in 1 .. Len(batch'[u]) :
                    i + d \in 1 .. Len(batch[u]) /\ batch'[u][i] = batch[u][i + d]
      BY <2>2
    <3>2. Len(batch'[u]) \in Nat /\ Sorted(batch[u])
      BY <1>0, <2>1
    <3> QED
      BY <3>1, <3>2 DEF Sorted
  <2>4. \A u \in Threads : \A i \in 1 .. Len(batch'[u]) :
            \E k \in 1 .. Len(batch[u]) : batch'[u][i] = batch[u][k]
    BY <1>0, <2>2
  <2>5. ASSUME NEW u \in Threads, NEW v \in Threads, u # v,
               NEW i \in 1 .. Len(batch'[u]), NEW j \in 1 .. Len(batch'[v])
        PROVE  batch'[u][i] # batch'[v][j]
    <3>1. PICK k \in 1 .. Len(batch[u]) : batch'[u][i] = batch[u][k]
      BY <2>4
    <3>2. PICK m \in 1 .. Len(batch[v]) : batch'[v][j] = batch[v][m]
      BY <2>4
    <3> QED
      BY <2>5, <3>1, <3>2
  <2>6. ASSUME NEW u \in Threads, NEW i \in 1 .. Len(batch'[u])
        PROVE  /\ batch'[u][i] <= Len(log)
               /\ \A j \in 1 .. Len(queue) : batch'[u][i] < queue[j]
    <3>1. PICK k \in 1 .. Len(batch[u]) : batch'[u][i] = batch[u][k]
      BY <2>4
    <3> QED
      BY <3>1
  <2> QED
    BY <1>1, <2>3, <2>5, <2>6
<1>2. ASSUME NEW s \in Subscriptions, Subscribe(s) \/ Unsubscribe(s) PROVE OrderInv'
  BY <1>2 DEF Subscribe, Unsubscribe
<1>3. ASSUME NEW h \in Handlers, Collect(h) PROVE OrderInv'
  BY <1>3 DEF Collect
<1>4. ASSUME NEW a \in Actors, NEW ty \in Types, PublishCheck(a, ty) PROVE OrderInv'
  BY <1>4 DEF PublishCheck
<1>5. ASSUME NEW a \in Actors, PublishAppend(a) PROVE OrderInv'
  <2>1. Len(log') = Len(log) + 1 /\ batch' = batch
    <3>1. pub[a] \in Events
      BY <1>5 DEF PublishAppend, TypeInv, TypeOK
    <3> QED
      BY <1>0, <1>5, <3>1, AppendProperties DEF PublishAppend
  <2>2. PICK d \in {0, 1} :
            /\ d <= Len(queue)
            /\ Len(queue') = Len(queue) - d + 1
            /\ \A i \in 1 .. Len(queue) - d : queue'[i] = queue[i + d]
            /\ queue'[Len(queue) - d + 1] = Len(log) + 1
    BY <1>0, <1>5, NatMember, AppendedQueue DEF PublishAppend
  <2>3. \A i \in 1 .. Len(queue') :
            \/ i < Len(queue') /\ i + d \in 1 .. Len(queue) /\ queue'[i] = queue[i + d]
            \/ i = Len(queue') /\ queue'[i] = Len(log) + 1
    <3> SUFFICES ASSUME NEW i \in 1 .. Len(queue'), i # Len(queue')
                 PROVE  i < Len(queue') /\ i + d \in 1 .. Len(queue) /\ queue'[i] = queue[i + d]
      BY <1>0, <2>2
    <3>1. i \in 1 .. Len(queue) - d
      BY <1>0, <2>2
    <3> QED
      BY <1>0, <2>2, <3>1
  <2>4. Sorted(queue')
    <3> SUFFICES ASSUME NEW i \in 1 .. Len(queue'), NEW j \in 1 .. Len(queue'), i < j
                 PROVE  queue'[i] < queue'[j]
      BY DEF Sorted
    <3>0. i # Len(queue') /\ j \in Nat
      BY <1>0, <2>2
    <3>1. i + d \in 1 .. Len(queue) /\ queue'[i] = queue[i + d]
      BY <2>3, <3>0
    <3>2. CASE j = Len(queue') /\ queue'[j] = Len(log) + 1
      <4>1. queue[i + d] <= Len(log) /\ queue[i + d] \in Nat
        BY <1>0, <3>1
      <4> QED
        BY <1>0, <3>1, <3>2, <4>1
    <3>3. CASE j < Len(queue') /\ j + d \in 1 .. Len(queue) /\ queue'[j] = queue[j + d]
      BY <1>0, <3>1, <3>3 DEF Sorted
    <3> QED
      BY <2>3, <3>2, <3>3
  <2>5. \A i \in 1 .. Len(queue') : queue'[i] <= Len(log')
    BY <1>0, <2>1, <2>3
  <2>6. ASSUME NEW t \in Threads, NEW i \in 1 .. Len(batch[t]), NEW j \in 1 .. Len(queue')
        PROVE  batch[t][i] < queue'[j]
    <3>1. CASE j + d \in 1 .. Len(queue) /\ queue'[j] = queue[j + d]
      BY <3>1
    <3>2. CASE queue'[j] = Len(log) + 1
      <4>1. batch[t][i] <= Len(log) /\ batch[t][i] \in Nat
        BY <1>0
      <4> QED
        BY <1>0, <3>2, <4>1
    <3> QED
      BY <2>3, <3>1, <3>2
  <2>7. \A t \in Threads : \A i \in 1 .. Len(batch[t]) : batch[t][i] <= Len(log')
    BY <1>0, <2>1
  <2> QED
    BY <2>1, <2>4, <2>5, <2>6, <2>7
<1>6. ASSUME NEW t \in Threads, ThreadStep(t) PROVE OrderInv'
  <2>1. CASE Take(t)
    <3>1. /\ batch' = [batch EXCEPT ![t] = queue] /\ queue' = <<>> /\ log' = log
          /\ Len(queue') = 0
      BY <2>1 DEF Take
    <3>2. \A u \in Threads : batch'[u] = IF u = t THEN queue ELSE batch[u]
      BY <1>0, <3>1
    <3>3. Sorted(queue')
      BY <3>1 DEF Sorted
    <3>4. \A u \in Threads : /\ Sorted(batch'[u])
                            /\ \A i \in 1 .. Len(batch'[u]) : batch'[u][i] <= Len(log')
      BY <3>1, <3>2
    <3>5. ASSUME NEW u \in Threads, NEW v \in Threads, u # v,
                 NEW i \in 1 .. Len(batch'[u]), NEW j \in 1 .. Len(batch'[v])
          PROVE  batch'[u][i] # batch'[v][j]
      <4>1. CASE u = t
        <5>1. batch[v][j] < queue[i] /\ batch[v][j] \in Nat /\ queue[i] \in Nat
          BY <1>0, <3>2, <3>5, <4>1
        <5> QED
          BY <3>2, <3>5, <4>1, <5>1
      <4>2. CASE v = t
        <5>1. batch[u][i] < queue[j] /\ batch[u][i] \in Nat /\ queue[j] \in Nat
          BY <1>0, <3>2, <3>5, <4>2
        <5> QED
          BY <3>2, <3>5, <4>2, <5>1
      <4>3. CASE u # t /\ v # t
        BY <3>2, <3>5, <4>3
      <4> QED
        BY <4>1, <4>2, <4>3
    <3> QED
      BY <3>1, <3>3, <3>4, <3>5
  <2>2. CASE Exit(t)
    BY <2>2 DEF Exit
  <2>3. CASE DropStale(t)
    BY <1>1, <2>3 DEF DropStale
  <2>4. CASE CopyHandlers(t)
    BY <2>4 DEF CopyHandlers
  <2>5. CASE CallHandler(t)
    BY <2>5 DEF CallHandler
  <2>6. CASE HandlerReturns(t)
    BY <2>6 DEF HandlerReturns
  <2>7. CASE FinishEvent(t)
    <3>1. batch[t] # <<>>
      BY <2>7 DEF FinishEvent, TypeInv, BatchHeld
    <3> QED
      BY <1>1, <2>7, <3>1 DEF FinishEvent
  <2>8. CASE FinishBatch(t)
    BY <2>8 DEF FinishBatch
  <2>9. CASE ReadClock(t)
    BY <2>9 DEF ReadClock
  <2> QED
    BY <1>6, <2>1, <2>2, <2>3, <2>4, <2>5, <2>6, <2>7, <2>8, <2>9 DEF ThreadStep
<1>7. ASSUME AppStep PROVE OrderInv'
  <2>1. ASSUME NEW t \in Threads, Start(t) PROVE OrderInv'
    BY <2>1 DEF Start, NextThread
  <2>2. CASE StopRequest
    BY <2>2 DEF StopRequest
  <2>3. CASE JoinReturns
    BY <2>3 DEF JoinReturns
  <2>4. CASE JoinTimesOut
    BY <2>4 DEF JoinTimesOut
  <2>5. CASE StopClear
    BY <2>5 DEF StopClear, Sorted
  <2> HIDE DEF OrderInv
  <2> QED
    BY <1>7, <2>1, <2>2, <2>3, <2>4, <2>5 DEF AppStep
<1>8. CASE Tick
  BY <1>8 DEF Tick
<1>9. CASE UNCHANGED vars
  BY <1>9 DEF vars
<1> HIDE DEF OrderInv
<1> QED
  BY <1>2, <1>3, <1>4, <1>5, <1>6, <1>7, <1>8, <1>9 DEF Next

-----------------------------------------------------------------------------
(* The calls.  Every event a subscription was handed is older than the     *)
(* queue; it is in a batch only as the head being dispatched, once its     *)
(* subscription is no longer to be called; and it is not newer than what   *)
(* its own thread, or the only thread, still holds.                        *)

CallInv ==
    \A s \in Subscriptions : \A i \in 1 .. Len(got[s]) :
        /\ got[s][i].ev <= Len(log)
        /\ \A j \in 1 .. Len(queue) : got[s][i].ev < queue[j]
        /\ \A t \in Threads : \A j \in 1 .. Len(batch[t]) :
              /\ got[s][i].ev = batch[t][j] =>
                    j = 1 /\ pc[t] \in {"call", "run"} /\ s \notin todo[t]
              /\ (got[s][i].th = t \/ ~late) => got[s][i].ev <= batch[t][j]

GotInv == CallInv /\ AtMostOnce /\ DeliveryOrder

(* What the type invariant says of the elements of each sequence.          *)
LEMMA SeqValues ==
    ASSUME TypeInv
    PROVE  /\ queue \in Seq(Nat \ {0}) /\ Len(queue) \in Nat
           /\ batch \in [Threads -> Seq(Nat \ {0})]
           /\ \A t \in Threads : Len(batch[t]) \in Nat
           /\ log \in Seq(Events) /\ Len(log) \in Nat
           /\ \A i \in 1 .. Len(queue) : queue[i] \in Nat
           /\ \A t \in Threads : \A i \in 1 .. Len(batch[t]) : batch[t][i] \in Nat
           /\ pc \in [Threads -> {"new", "wait", "taken", "next", "call", "run", "done"}]
           /\ todo \in [Threads -> SUBSET Subscriptions]
           /\ got \in [Subscriptions -> Seq([th : Threads, ev : Nat \ {0}])]
           /\ \A s \in Subscriptions :
                 /\ Len(got[s]) \in Nat /\ DOMAIN got[s] = 1 .. Len(got[s])
                 /\ \A i \in 1 .. Len(got[s]) :
                       got[s][i].ev \in Nat /\ got[s][i].th \in Threads
<1>1. ASSUME NEW s \in Subscriptions
      PROVE  /\ Len(got[s]) \in Nat /\ DOMAIN got[s] = 1 .. Len(got[s])
             /\ \A i \in 1 .. Len(got[s]) :
                   got[s][i].ev \in Nat /\ got[s][i].th \in Threads
  <2>1. got[s] \in Seq([th : Threads, ev : Nat \ {0}])
    BY DEF TypeInv, TypeOK
  <2>2. \A i \in 1 .. Len(got[s]) : got[s][i] \in [th : Threads, ev : Nat \ {0}]
    BY <2>1, ElementOfSeq
  <2> QED
    BY <2>1, <2>2, LenProperties
<1>2. \A t \in Threads : Len(batch[t]) \in Nat
          /\ \A i \in 1 .. Len(batch[t]) : batch[t][i] \in Nat
  BY LenProperties, ElementOfSeq DEF TypeInv, TypeOK
<1>3. /\ Len(queue) \in Nat /\ Len(log) \in Nat
      /\ \A i \in 1 .. Len(queue) : queue[i] \in Nat
  BY LenProperties, ElementOfSeq DEF TypeInv, TypeOK
<1> QED
  BY <1>1, <1>2, <1>3 DEF TypeInv, TypeOK

(* Steps that make no call and leave the queue, the batches, the threads   *)
(* and the log alone.                                                      *)
LEMMA CallInvFrame ==
    ASSUME CallInv, UNCHANGED <<queue, batch, pc, todo, log, got>>, late => late'
    PROVE  CallInv'
BY DEF CallInv

(* Steps that make no call keep what is said of the calls made.            *)
LEMMA CallsFrame ==
    ASSUME AtMostOnce, DeliveryOrder, got' = got, late => late'
    PROVE  AtMostOnce' /\ DeliveryOrder'
BY DEF AtMostOnce, DeliveryOrder

(* Every step keeps the account of the calls made: only CallHandler adds   *)
(* one, and it adds the newest of its subscription.                        *)
LEMMA GotStep ==
    TypeInv /\ LifeInv /\ OrderInv /\ GotInv /\ TypeInv' /\ [Next]_vars => GotInv'
<1> SUFFICES ASSUME TypeInv, LifeInv, OrderInv, GotInv, TypeInv', [Next]_vars
             PROVE  GotInv'
  OBVIOUS
<1> USE DEF GotInv, dispatchVars, historyVars
<1>0. /\ queue \in Seq(Nat \ {0}) /\ Len(queue) \in Nat
      /\ batch \in [Threads -> Seq(Nat \ {0})]
      /\ \A t \in Threads : Len(batch[t]) \in Nat
      /\ log \in Seq(Events) /\ Len(log) \in Nat
      /\ \A i \in 1 .. Len(queue) : queue[i] \in Nat
      /\ \A t \in Threads : \A i \in 1 .. Len(batch[t]) : batch[t][i] \in Nat
      /\ pc \in [Threads -> {"new", "wait", "taken", "next", "call", "run", "done"}]
      /\ todo \in [Threads -> SUBSET Subscriptions]
  BY SeqValues
<1>1. ASSUME NEW s \in Subscriptions, Subscribe(s) \/ Unsubscribe(s) PROVE GotInv'
  BY <1>1, CallInvFrame, CallsFrame DEF Subscribe, Unsubscribe
<1>2. ASSUME NEW h \in Handlers, Collect(h) PROVE GotInv'
  BY <1>2, CallInvFrame, CallsFrame DEF Collect
<1>3. ASSUME NEW a \in Actors, NEW ty \in Types, PublishCheck(a, ty) PROVE GotInv'
  BY <1>3, CallInvFrame, CallsFrame DEF PublishCheck
<1>4. ASSUME NEW a \in Actors, PublishAppend(a) PROVE GotInv'
  <2>1. Len(log') = Len(log) + 1
    <3>1. pub[a] \in Events
      BY <1>4 DEF PublishAppend, TypeInv, TypeOK
    <3> QED
      BY <1>0, <1>4, <3>1, AppendProperties DEF PublishAppend
  <2>2. \A j \in 1 .. Len(queue') :
            \/ queue'[j] = Len(log) + 1
            \/ \E k \in 1 .. Len(queue) : queue'[j] = queue[k]
    <3>1. PICK d \in {0, 1} :
              /\ d <= Len(queue)
              /\ Len(queue') = Len(queue) - d + 1
              /\ \A i \in 1 .. Len(queue) - d : queue'[i] = queue[i + d]
              /\ queue'[Len(queue) - d + 1] = Len(log) + 1
      BY <1>0, <1>4, NatMember, AppendedQueue DEF PublishAppend
    <3> SUFFICES ASSUME NEW j \in 1 .. Len(queue'), j # Len(queue')
                 PROVE  \E k \in 1 .. Len(queue) : queue'[j] = queue[k]
      BY <1>0, <3>1
    <3>2. j \in 1 .. Len(queue) - d
      BY <1>0, <3>1
    <3>3. j + d \in 1 .. Len(queue) /\ queue'[j] = queue[j + d]
      BY <1>0, <3>1, <3>2
    <3> QED
      BY <3>3
  <2>3. ASSUME NEW s \in Subscriptions, NEW i \in 1 .. Len(got[s])
        PROVE  /\ got[s][i].ev <= Len(log')
               /\ \A j \in 1 .. Len(queue') : got[s][i].ev < queue'[j]
    <3>1. got[s][i].ev \in Nat /\ got[s][i].ev <= Len(log)
      BY SeqValues DEF CallInv
    <3>2. \A k \in 1 .. Len(queue) : got[s][i].ev < queue[k]
      BY DEF CallInv
    <3>3. ASSUME NEW j \in 1 .. Len(queue') PROVE got[s][i].ev < queue'[j]
      <4>1. CASE queue'[j] = Len(log) + 1
        BY <1>0, <3>1, <4>1
      <4>2. CASE \E k \in 1 .. Len(queue) : queue'[j] = queue[k]
        BY <3>2, <4>2
      <4> QED
        BY <2>2, <4>1, <4>2
    <3> QED
      BY <1>0, <2>1, <3>1, <3>3
  <2>4. CallInv'
    BY <1>4, <2>3 DEF CallInv, PublishAppend
  <2> QED
    BY <1>4, <2>4, CallsFrame DEF PublishAppend
<1>5. ASSUME NEW t \in Threads, ThreadStep(t) PROVE GotInv'
  <2>1. CASE Take(t)
    <3>1. /\ batch' = [batch EXCEPT ![t] = queue] /\ queue' = <<>> /\ Len(queue') = 0
          /\ UNCHANGED <<log, got, late, todo>> /\ pc' = [pc EXCEPT ![t] = "taken"]
      BY <2>1 DEF Take
    <3>2. \A u \in Threads : u # t => batch'[u] = batch[u] /\ pc'[u] = pc[u]
      BY <1>0, <3>1
    <3>3. ASSUME NEW s \in Subscriptions, NEW i \in 1 .. Len(got[s]),
                 NEW u \in Threads, NEW j \in 1 .. Len(batch'[u])
          PROVE  /\ got[s][i].ev = batch'[u][j] =>
                       j = 1 /\ pc'[u] \in {"call", "run"} /\ s \notin todo[u]
                 /\ (got[s][i].th = u \/ ~late) => got[s][i].ev <= batch'[u][j]
      <4>1. CASE u = t
        <5>1. batch'[t] = queue
          BY <1>0, <3>1
        <5>2. got[s][i].ev < queue[j] /\ got[s][i].ev \in Nat /\ queue[j] \in Nat
          BY <1>0, <3>3, <4>1, <5>1, SeqValues DEF CallInv
        <5> QED
          BY <4>1, <5>1, <5>2
      <4>2. CASE u # t
        <5>1. batch'[u] = batch[u] /\ pc'[u] = pc[u]
          BY <3>2, <4>2
        <5>2. j \in 1 .. Len(batch[u])
          BY <5>1
        <5>3. /\ got[s][i].ev = batch[u][j] =>
                    j = 1 /\ pc[u] \in {"call", "run"} /\ s \notin todo[u]
              /\ (got[s][i].th = u \/ ~late) => got[s][i].ev <= batch[u][j]
          BY <5>2 DEF CallInv
        <5> QED
          BY <5>1, <5>3
      <4> QED
        BY <4>1, <4>2
    <3>4. CallInv'
      BY <3>1, <3>3 DEF CallInv
    <3> QED
      BY <3>1, <3>4, CallsFrame
  <2>2. CASE Exit(t)
    <3>1. UNCHANGED <<queue, batch, todo, log, got, late>> /\ pc[t] = "wait"
          /\ \A u \in Threads : u # t => pc'[u] = pc[u]
      BY <1>0, <2>2 DEF Exit
    <3>2. CallInv'
      BY <3>1 DEF CallInv
    <3> QED
      BY <3>1, <3>2, CallsFrame
  <2>3. CASE DropStale(t) \/ FinishEvent(t)
    <3>1. /\ batch[t] # <<>> /\ batch' = [batch EXCEPT ![t] = Tail(@)]
          /\ UNCHANGED <<queue, todo, log, got, late>>
          /\ \A u \in Threads : u # t => pc'[u] = pc[u]
      BY <1>0, <2>3 DEF DropStale, FinishEvent, TypeInv, BatchHeld
    <3>2. /\ Len(batch'[t]) = Len(batch[t]) - 1
          /\ \A i \in 1 .. Len(batch'[t]) : batch'[t][i] = batch[t][i + 1]
          /\ \A u \in Threads : u # t => batch'[u] = batch[u]
      BY <1>0, <3>1, HeadTailProperties
    <3>3. ASSUME NEW s \in Subscriptions, NEW i \in 1 .. Len(got[s]),
                 NEW u \in Threads, NEW j \in 1 .. Len(batch'[u])
          PROVE  /\ got[s][i].ev = batch'[u][j] =>
                       j = 1 /\ pc'[u] \in {"call", "run"} /\ s \notin todo[u]
                 /\ (got[s][i].th = u \/ ~late) => got[s][i].ev <= batch'[u][j]
      <4>1. CASE u = t
        <5>0. j \in 1 .. Len(batch'[t]) /\ Len(batch[t]) \in Nat
          BY <1>0, <3>3, <4>1
        <5>1. j + 1 \in 1 .. Len(batch[t]) /\ batch'[t][j] = batch[t][j + 1] /\ j + 1 # 1
          BY <3>2, <5>0
        <5> QED
          BY <4>1, <5>1 DEF CallInv
      <4>2. CASE u # t
        <5>1. batch'[u] = batch[u] /\ pc'[u] = pc[u]
          BY <3>1, <3>2, <4>2
        <5>2. j \in 1 .. Len(batch[u])
          BY <5>1
        <5>3. /\ got[s][i].ev = batch[u][j] =>
                    j = 1 /\ pc[u] \in {"call", "run"} /\ s \notin todo[u]
              /\ (got[s][i].th = u \/ ~late) => got[s][i].ev <= batch[u][j]
          BY <5>2 DEF CallInv
        <5> QED
          BY <5>1, <5>3
      <4> QED
        BY <4>1, <4>2
    <3>4. CallInv'
      BY <3>1, <3>3 DEF CallInv
    <3> QED
      BY <3>1, <3>4, CallsFrame
  <2>4. CASE CopyHandlers(t)
    <3>1. UNCHANGED <<queue, batch, log, got, late>> /\ pc[t] = "next"
          /\ \A u \in Threads : u # t => pc'[u] = pc[u] /\ todo'[u] = todo[u]
      BY <1>0, <2>4 DEF CopyHandlers
    <3>2. CallInv'
      BY <3>1 DEF CallInv
    <3> QED
      BY <3>1, <3>2, CallsFrame
  <2>5. CASE CallHandler(t)
    <3> DEFINE x == Head(batch[t])
    <3>0. pc[t] = "call" /\ batch[t] # <<>> /\ x = batch[t][1] /\ 1 \in 1 .. Len(batch[t])
      BY <1>0, <2>5 DEF CallHandler, TypeInv, BatchHeld
    <3>1. PICK s \in Callable(t) :
              /\ todo' = [todo EXCEPT ![t] = @ \ {s}]
              /\ got' = [got EXCEPT ![s] = Append(@, [th |-> t, ev |-> x])]
      BY <2>5 DEF CallHandler
    <3>2. /\ UNCHANGED <<queue, batch, log, late>> /\ pc' = [pc EXCEPT ![t] = "run"]
          /\ s \in Subscriptions /\ s \in todo[t]
      <4>1. s \in todo[t]
        BY <3>1 DEF Callable
      <4> QED
        BY <1>0, <2>5, <4>1 DEF CallHandler
    <3>3. x \in Nat \ {0} /\ x <= Len(log)
      BY <1>0, <3>0, HeadTailProperties DEF OrderInv
    <3>4. /\ Len(got'[s]) = Len(got[s]) + 1
          /\ \A i \in 1 .. Len(got[s]) : got'[s][i] = got[s][i]
          /\ got'[s][Len(got[s]) + 1] = [th |-> t, ev |-> x]
          /\ \A r \in Subscriptions : r # s => got'[r] = got[r]
      <4>1. got[s] \in Seq([th : Threads, ev : Nat \ {0}])
            /\ got'[s] = Append(got[s], [th |-> t, ev |-> x])
        BY <3>1, <3>2, SeqValues
      <4> QED
        BY <3>1, <3>2, <3>3, <4>1, AppendProperties, SeqValues
    (* The calls already made for s were for older events of this thread.  *)
    <3>5. ASSUME NEW i \in 1 .. Len(got[s])
          PROVE  /\ got[s][i].ev # x
                 /\ (got[s][i].th = t \/ ~late) => got[s][i].ev < x
      <4>1. got[s][i].ev # x
        BY <3>0, <3>2 DEF CallInv
      <4>2. (got[s][i].th = t \/ ~late) => got[s][i].ev <= x
        BY <3>0, <3>2 DEF CallInv
      <4> QED
        BY SMTT(30), <3>2, <3>3, <4>1, <4>2, SeqValues
    <3>6. ASSUME NEW u \in Threads, NEW j \in 1 .. Len(batch[u])
          PROVE  /\ x = batch[u][j] => u = t /\ j = 1
                 /\ (u = t \/ ~late) => x <= batch[u][j]
      <4>1. CASE u = t
        BY <1>0, <3>0, <3>3, <4>1 DEF OrderInv, Sorted
      <4>2. CASE u # t
        <5>1. x # batch[u][j]
          BY <3>0, <4>2 DEF OrderInv
        <5>2. Alive(t) /\ Alive(u)
          BY <1>0, <3>0, <3>6 DEF TypeInv, BatchHeld
        <5> QED
          BY <4>2, <5>1, <5>2 DEF LifeInv
      <4> QED
        BY <4>1, <4>2
    <3>7. ASSUME NEW r \in Subscriptions, NEW i \in 1 .. Len(got'[r])
          PROVE  \/ i \in 1 .. Len(got[r]) /\ got'[r][i] = got[r][i]
                 \/ r = s /\ i = Len(got[s]) + 1 /\ got'[r][i] = [th |-> t, ev |-> x]
      <4>1. CASE r = s
        <5>1. Len(got[s]) \in Nat /\ i \in 1 .. Len(got[s]) + 1
          BY <3>2, <3>4, <3>7, <4>1, SeqValues
        <5>2. CASE i = Len(got[s]) + 1
          BY <3>4, <4>1, <5>2
        <5>3. CASE i \in 1 .. Len(got[s])
          BY <3>4, <4>1, <5>3
        <5> QED
          BY <5>1, <5>2, <5>3
      <4>2. CASE r # s
        BY <3>4, <3>7, <4>2
      <4> QED
        BY <4>1, <4>2
    <3>8. CallInv'
      <4> SUFFICES ASSUME NEW r \in Subscriptions, NEW i \in 1 .. Len(got'[r])
                   PROVE  /\ got'[r][i].ev <= Len(log)
                          /\ \A j \in 1 .. Len(queue) : got'[r][i].ev < queue[j]
                          /\ \A u \in Threads : \A j \in 1 .. Len(batch[u]) :
                                /\ got'[r][i].ev = batch[u][j] =>
                                      j = 1 /\ pc'[u] \in {"call", "run"} /\ r \notin todo'[u]
                                /\ (got'[r][i].th = u \/ ~late) => got'[r][i].ev <= batch[u][j]
        BY <3>2 DEF CallInv
      <4>1. \A u \in Threads : todo'[u] \subseteq todo[u]
                /\ (pc[u] \in {"call", "run"} => pc'[u] \in {"call", "run"})
        BY <1>0, <3>0, <3>1, <3>2
      <4>2. pc'[t] = "run" /\ s \notin todo'[t]
        BY <1>0, <3>1, <3>2
      <4>3. CASE i \in 1 .. Len(got[r]) /\ got'[r][i] = got[r][i]
        <5>1. /\ got[r][i].ev <= Len(log)
              /\ \A j \in 1 .. Len(queue) : got[r][i].ev < queue[j]
              /\ \A u \in Threads : \A j \in 1 .. Len(batch[u]) :
                    /\ got[r][i].ev = batch[u][j] =>
                          j = 1 /\ pc[u] \in {"call", "run"} /\ r \notin todo[u]
                    /\ (got[r][i].th = u \/ ~late) => got[r][i].ev <= batch[u][j]
          BY <4>3 DEF CallInv
        <5> QED
          BY <4>1, <4>3, <5>1
      <4>4. CASE r = s /\ got'[r][i] = [th |-> t, ev |-> x]
        <5>1. \A j \in 1 .. Len(queue) : x < queue[j]
          BY <3>0 DEF OrderInv
        <5> QED
          BY <3>3, <3>6, <4>2, <4>4, <5>1
      <4> QED
        BY <3>7, <4>3, <4>4
    <3>9. AtMostOnce' /\ DeliveryOrder'
      <4> SUFFICES ASSUME NEW r \in Subscriptions,
                          NEW i \in 1 .. Len(got'[r]), NEW j \in 1 .. Len(got'[r]), i < j
                   PROVE  /\ got'[r][i].ev # got'[r][j].ev
                          /\ (~late \/ got'[r][i].th = got'[r][j].th)
                                => got'[r][i].ev < got'[r][j].ev
        <5>1. \A r \in Subscriptions : DOMAIN got'[r] = 1 .. Len(got'[r]) /\ Len(got'[r]) \in Nat
          BY <3>2, <3>4, SeqValues, LenProperties DEF TypeInv, TypeOK
        <5>2. AtMostOnce'
          <6> SUFFICES ASSUME NEW r \in Subscriptions,
                              NEW i \in 1 .. Len(got'[r]), NEW j \in 1 .. Len(got'[r]), i # j
                       PROVE  got'[r][i].ev # got'[r][j].ev
            BY <5>1 DEF AtMostOnce
          <6>1. i < j \/ j < i
            BY <5>1
          <6> QED
            BY <3>2, <6>1
        <5>3. DeliveryOrder'
          BY <3>2, <5>1 DEF DeliveryOrder
        <5> QED
          BY <5>2, <5>3
      <4>1. Len(got[r]) \in Nat /\ DOMAIN got[r] = 1 .. Len(got[r])
        BY SeqValues
      <4>2. CASE j \in 1 .. Len(got[r]) /\ got'[r][j] = got[r][j]
        <5>1. i \in 1 .. Len(got[r]) /\ got'[r][i] = got[r][i]
          BY <3>4, <4>1, <4>2
        <5>2. i # j /\ i \in Nat /\ j \in Nat
          BY <4>1, <4>2, <5>1
        <5> QED
          BY <4>1, <4>2, <5>1, <5>2 DEF AtMostOnce, DeliveryOrder
      <4>3. CASE r = s /\ j = Len(got[s]) + 1 /\ got'[r][j] = [th |-> t, ev |-> x]
        <5>1. i \in 1 .. Len(got[s]) /\ got'[r][i] = got[s][i]
          BY <3>4, <4>1, <4>3
        <5> QED
          BY <3>5, <4>3, <5>1
      <4> QED
        BY <3>7, <4>2, <4>3
    <3> QED
      BY <3>8, <3>9
  <2>6. CASE HandlerReturns(t) \/ FinishBatch(t)
    <3>1. /\ UNCHANGED <<queue, batch, todo, log, got, late>>
          /\ \A u \in Threads : u # t => pc'[u] = pc[u]
          /\ (pc[t] = "run" /\ pc'[t] = "call") \/ Len(batch[t]) = 0
      BY <1>0, <2>6 DEF HandlerReturns, FinishBatch
    <3>2. ASSUME NEW u \in Threads, NEW j \in 1 .. Len(batch[u]), pc[u] \in {"call", "run"}
          PROVE  pc'[u] \in {"call", "run"}
      <4>1. CASE u = t
        <5>1. Len(batch[t]) # 0
          BY <1>0, <3>2, <4>1
        <5> QED
          BY <3>1, <4>1, <5>1
      <4>2. CASE u # t
        BY <3>1, <3>2, <4>2
      <4> QED
        BY <4>1, <4>2
    <3>3. ASSUME NEW s \in Subscriptions, NEW i \in 1 .. Len(got[s]),
                 NEW u \in Threads, NEW j \in 1 .. Len(batch[u])
          PROVE  /\ got[s][i].ev = batch[u][j] =>
                       j = 1 /\ pc'[u] \in {"call", "run"} /\ s \notin todo[u]
                 /\ (got[s][i].th = u \/ ~late) => got[s][i].ev <= batch[u][j]
      BY <3>2 DEF CallInv
    <3>4. CallInv'
      BY <3>1, <3>3 DEF CallInv
    <3> QED
      BY <3>1, <3>4, CallsFrame
  <2>7. CASE ReadClock(t)
    <3>1. UNCHANGED <<queue, batch, todo, log, got, late>> /\ pc[t] = "taken"
          /\ \A u \in Threads : u # t => pc'[u] = pc[u]
      BY <1>0, <2>7 DEF ReadClock
    <3>2. CallInv'
      BY <3>1 DEF CallInv
    <3> QED
      BY <3>1, <3>2, CallsFrame
  <2> HIDE DEF GotInv
  <2> QED
    BY <1>5, <2>1, <2>2, <2>3, <2>4, <2>5, <2>6, <2>7 DEF ThreadStep
<1>6. ASSUME AppStep PROVE GotInv'
  <2>1. ASSUME NEW t \in Threads, Start(t) PROVE GotInv'
    <3>1. UNCHANGED <<queue, batch, todo, log, got, late>> /\ pc[t] = "new"
          /\ \A u \in Threads : u # t => pc'[u] = pc[u]
      BY <1>0, <2>1 DEF Start, NextThread
    <3>2. CallInv'
      BY <3>1 DEF CallInv
    <3> QED
      BY <3>1, <3>2, CallsFrame
  <2>2. CASE StopRequest
    BY <2>2, CallInvFrame, CallsFrame DEF StopRequest
  <2>3. CASE JoinReturns
    BY <2>3, CallInvFrame, CallsFrame DEF JoinReturns
  <2>4. CASE JoinTimesOut
    BY <2>4, CallInvFrame, CallsFrame DEF JoinTimesOut
  <2>5. CASE StopClear
    <3>1. UNCHANGED <<batch, pc, todo, log, got, late>> /\ Len(queue') = 0
      BY <2>5 DEF StopClear
    <3>2. CallInv'
      BY <3>1 DEF CallInv
    <3> QED
      BY <3>1, <3>2, CallsFrame
  <2> HIDE DEF GotInv
  <2> QED
    BY <1>6, <2>1, <2>2, <2>3, <2>4, <2>5 DEF AppStep
<1>7. CASE Tick
  BY <1>7, CallInvFrame, CallsFrame DEF Tick
<1>8. CASE UNCHANGED vars
  BY <1>8, CallInvFrame, CallsFrame DEF vars
<1> HIDE DEF GotInv
<1> QED
  BY <1>1, <1>2, <1>3, <1>4, <1>5, <1>6, <1>7, <1>8 DEF Next

(* The inductive invariant holds in every reachable state.                 *)
LEMMA GotInvariant == Spec => [](TypeInv /\ LifeInv /\ OrderInv /\ GotInv)
<1>1. Init => OrderInv
  BY DEF Init, OrderInv, Sorted
<1>2. Init => GotInv
  BY DEF Init, GotInv, CallInv, AtMostOnce, DeliveryOrder
<1>3. TypeInv /\ LifeInv /\ OrderInv /\ GotInv /\ [Next]_vars
        => (TypeInv /\ LifeInv /\ OrderInv /\ GotInv)'
  BY TypeStep, LifeStep, OrderStep, GotStep
<1>4. Init => LifeInv
  BY DEF Init, LifeInv
<1> QED
  BY <1>1, <1>2, <1>3, <1>4, InitType, PTL DEF Spec

(* No subscription is ever handed the same event twice, with any number of *)
(* processing threads left running by stop() calls that gave up.           *)
THEOREM HandedOnce == Spec => []AtMostOnce
<1>1. GotInv => AtMostOnce
  BY DEF GotInv
<1> QED
  BY <1>1, GotInvariant, PTL

(* A subscription sees the events of one processing thread in publish      *)
(* order, and all events in that order while no stop() has given up.       *)
THEOREM HandedInOrder == Spec => []DeliveryOrder
<1>1. GotInv => DeliveryOrder
  BY DEF GotInv
<1> QED
  BY <1>1, GotInvariant, PTL

-----------------------------------------------------------------------------
(* The fate of an event.  It is live while it waits in the queue or in a   *)
(* batch; by the order of the two it waits in one place only, so the step  *)
(* that takes it out of there settles it.                                  *)

Has(q, e) == \E i \in DOMAIN q : q[i] = e

(* What a sequence has after an append, and what is left when its head is  *)
(* taken off, which does not occur again in a sorted one.                  *)
LEMMA HasKept ==
    /\ \A e : ~Has(<<>>, e)
    /\ \A q \in Seq(Nat \ {0}), y \in Nat \ {0} : \A e :
          Has(Append(q, y), e) <=> Has(q, e) \/ e = y
    /\ \A q \in Seq(Nat \ {0}) : q # <<>> /\ Sorted(q) =>
          /\ Has(q, Head(q))
          /\ \A e : Has(Tail(q), e) <=> Has(q, e) /\ e # Head(q)
<1>1. \A e : ~Has(<<>>, e)
  BY DEF Has
<1>2. ASSUME NEW q \in Seq(Nat \ {0}), NEW y \in Nat \ {0}, NEW e
      PROVE  Has(Append(q, y), e) <=> Has(q, e) \/ e = y
  <2>1. /\ Len(q) \in Nat /\ DOMAIN q = 1 .. Len(q)
        /\ DOMAIN Append(q, y) = 1 .. Len(q) + 1
        /\ \A i \in 1 .. Len(q) : Append(q, y)[i] = q[i]
        /\ Append(q, y)[Len(q) + 1] = y
    BY AppendProperties, LenProperties
  <2> QED
    BY <2>1 DEF Has
<1>3. ASSUME NEW q \in Seq(Nat \ {0}), q # <<>>, Sorted(q)
      PROVE  /\ Has(q, Head(q))
             /\ \A e : Has(Tail(q), e) <=> Has(q, e) /\ e # Head(q)
  <2>1. Tail(q) \in Seq(Nat \ {0}) /\ Len(Tail(q)) = Len(q) - 1
        /\ \A i \in 1 .. Len(Tail(q)) : Tail(q)[i] = q[i + 1]
    BY <1>3, HeadTailProperties
  <2>2. Len(q) \in Nat /\ Len(q) > 0 /\ DOMAIN q = 1 .. Len(q) /\ Head(q) = q[1]
        /\ \A i \in 1 .. Len(q) : q[i] \in Nat
    BY <1>3, LenProperties, EmptySeq, ElementOfSeq
  <2>3. DOMAIN Tail(q) = 1 .. Len(q) - 1
        /\ \A i \in 1 .. Len(q) - 1 : i + 1 \in 1 .. Len(q) /\ Tail(q)[i] = q[i + 1]
    BY <2>1, <2>2, LenProperties
  <2>4. ASSUME NEW k \in 1 .. Len(q), k # 1 PROVE q[k] # Head(q)
    <3>1. 1 \in 1 .. Len(q) /\ 1 < k
      BY <2>2, <2>4
    <3>2. q[1] < q[k] /\ q[1] \in Nat /\ q[k] \in Nat
      BY <1>3, <2>2, <3>1 DEF Sorted
    <3> QED
      BY <2>2, <3>2
  <2>5. ASSUME NEW e, Has(q, e), e # Head(q) PROVE Has(Tail(q), e)
    <3>1. PICK k \in 1 .. Len(q) : q[k] = e
      BY <2>2, <2>5 DEF Has
    <3>2. k - 1 \in 1 .. Len(q) - 1 /\ k - 1 + 1 = k
      BY <2>2, <2>5, <3>1
    <3>3. Tail(q)[k - 1] = e
      BY <2>3, <3>1, <3>2
    <3> QED
      BY <2>3, <3>2, <3>3 DEF Has
  <2>6. ASSUME NEW e, Has(Tail(q), e) PROVE Has(q, e) /\ e # Head(q)
    <3>1. PICK i \in 1 .. Len(q) - 1 : Tail(q)[i] = e
      BY <2>3, <2>6 DEF Has
    <3>2. i + 1 \in 1 .. Len(q) /\ i + 1 # 1 /\ q[i + 1] = e
      BY <2>2, <2>3, <3>1
    <3> QED
      BY <2>2, <2>4, <3>2 DEF Has
  <2>7. Has(q, Head(q))
    BY <2>2 DEF Has
  <2> QED
    BY <2>5, <2>6, <2>7
<1> QED
  BY <1>1, <1>2, <1>3

(* An event waits in one place, and was appended.                          *)
LEMMA OnePlace ==
    ASSUME TypeInv, OrderInv
    PROVE  /\ \A e : Waiting(e) <=> Has(queue, e) \/ \E t \in Threads : Has(batch[t], e)
           /\ \A e : Has(queue, e) => e \in 1 .. Len(log)
           /\ \A t \in Threads : \A e : Has(batch[t], e) =>
                 /\ e \in 1 .. Len(log)
                 /\ ~Has(queue, e)
                 /\ \A u \in Threads : u # t => ~Has(batch[u], e)
<1>0. /\ Len(queue) \in Nat /\ DOMAIN queue = 1 .. Len(queue) /\ Len(log) \in Nat
      /\ \A i \in 1 .. Len(queue) : queue[i] \in Nat \ {0}
      /\ \A t \in Threads :
            /\ Len(batch[t]) \in Nat /\ DOMAIN batch[t] = 1 .. Len(batch[t])
            /\ \A i \in 1 .. Len(batch[t]) : batch[t][i] \in Nat \ {0}
  <2>1. queue \in Seq(Nat \ {0}) /\ log \in Seq(Events)
        /\ \A t \in Threads : batch[t] \in Seq(Nat \ {0})
    BY SeqValues
  <2> QED
    BY <2>1, LenProperties, ElementOfSeq
<1>1. \A e : Waiting(e) <=> Has(queue, e) \/ \E t \in Threads : Has(batch[t], e)
  BY DEF Waiting, Has
<1>2. ASSUME NEW e, Has(queue, e) PROVE e \in 1 .. Len(log)
  BY <1>0, <1>2 DEF Has, OrderInv
<1>3. ASSUME NEW t \in Threads, NEW e, Has(batch[t], e)
      PROVE  e \in 1 .. Len(log) /\ ~Has(queue, e)
  <2>1. PICK i \in 1 .. Len(batch[t]) : batch[t][i] = e
    BY <1>0, <1>3 DEF Has
  <2>2. e \in 1 .. Len(log)
    BY <1>0, <2>1 DEF OrderInv
  <2>3. \A j \in 1 .. Len(queue) : e < queue[j]
    BY <2>1 DEF OrderInv
  <2> QED
    BY <1>0, <2>2, <2>3 DEF Has
<1>4. ASSUME NEW t \in Threads, NEW u \in Threads, u # t, NEW e, Has(batch[t], e)
      PROVE  ~Has(batch[u], e)
  BY <1>0, <1>4 DEF Has, OrderInv
<1> QED
  BY <1>1, <1>2, <1>3, <1>4

(* Overwriting one fate leaves the others.                                 *)
LEMMA FateChanged ==
    ASSUME TypeInv, NEW x \in 1 .. Len(fate), NEW v \in Fates,
           fate' = [fate EXCEPT ![x] = v]
    PROVE  /\ DOMAIN fate' = DOMAIN fate /\ Len(fate') = Len(fate)
           /\ DOMAIN fate = 1 .. Len(fate)
           /\ \A e \in 1 .. Len(fate) : fate'[e] = IF e = x THEN v ELSE fate[e]
<1>1. fate \in Seq(Fates)
  BY DEF TypeInv, TypeOK
<1>2. fate' \in Seq(Fates) /\ Len(fate') = Len(fate)
  BY <1>1, ExceptKeepsSeq
<1>3. DOMAIN fate = 1 .. Len(fate)
  BY <1>1, LenProperties
<1> QED
  BY <1>2, <1>3

(* What publish() does to the fates: the event it appends is live, the one *)
(* the full deque drops is settled, the others keep theirs.                *)
LEMMA AppendFates ==
    ASSUME TypeInv, OrderInv, NEW a \in Actors, PublishAppend(a), Len(fate) = Len(log)
    PROVE  /\ Len(log') = Len(log) + 1 /\ Len(fate') = Len(log')
           /\ DOMAIN fate' = 1 .. Len(log) + 1
           /\ fate'[Len(log) + 1] = "live"
           /\ \A e \in 1 .. Len(log) :
                 /\ log'[e] = log[e]
                 /\ \/ fate'[e] = fate[e] /\ (Has(queue', e) <=> Has(queue, e))
                    \/ fate'[e] = "overflow" /\ Has(queue, e) /\ ~Has(queue', e)
           /\ Has(queue', Len(log) + 1) /\ batch' = batch
<1> DEFINE n == Len(log) + 1
           f == FateOfOverflow(queue, fate)
<1>0. /\ queue \in Seq(Nat \ {0}) /\ log \in Seq(Events) /\ fate \in Seq(Fates)
      /\ Len(log) \in Nat /\ n \in Nat \ {0} /\ n \notin 1 .. Len(log)
      /\ Sorted(queue) /\ Room(queue) \in Seq(Nat \ {0})
  <2>1. queue \in Seq(Nat \ {0}) /\ log \in Seq(Events) /\ fate \in Seq(Fates)
    BY DEF TypeInv, TypeOK
  <2>2. Len(log) \in Nat
    BY <2>1, LenProperties
  <2> QED
    BY <2>1, <2>2, RoomType DEF OrderInv
<1>1. /\ log' = Append(log, pub[a]) /\ pub[a] \in Events
      /\ queue' = Append(Room(queue), n)
      /\ fate' = Append(f, "live") /\ batch' = batch
  BY DEF PublishAppend, TypeInv, TypeOK, dispatchVars
<1>2. Len(log') = n /\ \A e \in 1 .. Len(log) : log'[e] = log[e]
  BY <1>0, <1>1, AppendProperties
<1>3. f \in Seq(Fates) /\ Len(f) = Len(log)
  BY <1>0, OverflowType
<1>4. /\ Len(fate') = n /\ DOMAIN fate' = 1 .. n /\ fate'[n] = "live"
      /\ \A e \in 1 .. Len(log) : fate'[e] = f[e]
  <2> HIDE DEF f
  <2>1. "live" \in Fates
    OBVIOUS
  <2>2. /\ fate' \in Seq(Fates) /\ Len(fate') = Len(f) + 1
        /\ \A e \in 1 .. Len(f) : fate'[e] = f[e]
        /\ fate'[Len(f) + 1] = "live"
    BY <1>1, <1>3, <2>1, AppendProperties
  <2> QED
    BY <1>3, <2>2, LenProperties
<1>5. \A e : Has(queue', e) <=> Has(Room(queue), e) \/ e = n
  BY <1>0, <1>1, HasKept
<1>6. ASSUME NEW e \in 1 .. Len(log)
      PROVE  \/ fate'[e] = fate[e] /\ (Has(queue', e) <=> Has(queue, e))
             \/ fate'[e] = "overflow" /\ Has(queue, e) /\ ~Has(queue', e)
  <2>1. CASE Len(queue) # MaxQueue
    BY <1>0, <1>4, <1>5, <2>1 DEF Room, FateOfOverflow
  <2>2. CASE Len(queue) = MaxQueue
    <3>1. queue # <<>>
      BY <2>2, BusAssumption
    <3>2. /\ Has(queue, Head(queue))
          /\ \A x : Has(Room(queue), x) <=> Has(queue, x) /\ x # Head(queue)
      BY <1>0, <2>2, <3>1, HasKept DEF Room
    <3>3. f[e] = IF e = Head(queue) THEN "overflow" ELSE fate[e]
      <4>1. DOMAIN fate = 1 .. Len(log)
        BY <1>0, LenProperties
      <4> QED
        BY <2>2, <4>1 DEF FateOfOverflow
    <3> QED
      BY <1>0, <1>4, <1>5, <3>2, <3>3
  <2> QED
    BY <2>1, <2>2
<1> QED
  BY <1>1, <1>2, <1>4, <1>5, <1>6

(* Every step keeps the account of the events: what is live is waiting.    *)
LEMMA FateStep == TypeInv /\ OrderInv /\ NoSilentLoss /\ [Next]_vars => NoSilentLoss'
<1> SUFFICES ASSUME TypeInv, OrderInv, NoSilentLoss, [Next]_vars PROVE NoSilentLoss'
  OBVIOUS
<1>0. /\ queue \in Seq(Nat \ {0}) /\ batch \in [Threads -> Seq(Nat \ {0})]
      /\ pc \in [Threads -> {"new", "wait", "taken", "next", "call", "run", "done"}]
      /\ Len(fate) = Len(log) /\ DOMAIN fate = 1 .. Len(log) /\ Len(log) \in Nat
  <2>1. fate \in Seq(Fates) /\ log \in Seq(Events) /\ Len(fate) = Len(log)
    BY DEF TypeInv, TypeOK, NoSilentLoss
  <2> QED
    BY <2>1, SeqValues, LenProperties
<1>l. \A e \in 1 .. Len(log) :
          fate[e] = "live" <=> Has(queue, e) \/ \E t \in Threads : Has(batch[t], e)
  BY <1>0, OnePlace DEF NoSilentLoss
<1>w. \A e : Waiting(e)' <=> Has(queue', e) \/ \E t \in Threads : Has(batch'[t], e)
  BY DEF Waiting, Has
<1> USE DEF dispatchVars, historyVars
<1>h. ASSUME UNCHANGED <<queue, batch, log, fate>> PROVE NoSilentLoss'
  BY <1>h DEF NoSilentLoss, Waiting
<1>1. ASSUME NEW a \in Actors, PublishAppend(a) PROVE NoSilentLoss'
  <2>1. /\ Len(fate') = Len(log') /\ DOMAIN fate' = 1 .. Len(log) + 1
        /\ fate'[Len(log) + 1] = "live"
        /\ \A e \in 1 .. Len(log) :
              \/ fate'[e] = fate[e] /\ (Has(queue', e) <=> Has(queue, e))
              \/ fate'[e] = "overflow" /\ Has(queue, e) /\ ~Has(queue', e)
        /\ Has(queue', Len(log) + 1) /\ batch' = batch
    BY <1>0, <1>1, AppendFates
  <2>2. ASSUME NEW e \in 1 .. Len(log) PROVE fate'[e] = "live" <=> Waiting(e)'
    BY <1>l, <1>w, <2>1, OnePlace
  <2>3. \A e \in 1 .. Len(log) + 1 : e \in 1 .. Len(log) \/ e = Len(log) + 1
    BY <1>0
  <2> QED
    BY <1>w, <2>1, <2>2, <2>3 DEF NoSilentLoss
<1>2. ASSUME NEW t \in Threads, Take(t) PROVE NoSilentLoss'
  <2>1. /\ batch' = [batch EXCEPT ![t] = queue] /\ queue' = <<>>
        /\ UNCHANGED <<log, fate>> /\ batch[t] = <<>>
    BY <1>2 DEF Take, TypeInv, BatchHeld
  <2>2. \A e : Waiting(e)' <=> Waiting(e)
    <3>1. /\ batch'[t] = queue
          /\ \A u \in Threads : u # t => batch'[u] = batch[u]
      BY <1>0, <2>1
    <3>2. \A e : ~Has(queue', e) /\ ~Has(batch[t], e)
      BY <2>1, HasKept
    <3> QED
      BY <1>w, <3>1, <3>2, OnePlace
  <2> QED
    BY <2>1, <2>2 DEF NoSilentLoss
<1>3. ASSUME NEW t \in Threads, DropStale(t) \/ FinishEvent(t) PROVE NoSilentLoss'
  <2>1. PICK v \in Fates \ {"live"} :
            /\ fate' = [fate EXCEPT ![Head(batch[t])] = v]
            /\ batch' = [batch EXCEPT ![t] = Tail(@)] /\ batch[t] # <<>>
            /\ UNCHANGED <<queue, log>>
    BY <1>3 DEF DropStale, FinishEvent, TypeInv, BatchHeld
  <2>2. PICK x : x = Head(batch[t])
    OBVIOUS
  <2>3. Has(batch[t], x) /\ \A e : Has(batch'[t], e) <=> Has(batch[t], e) /\ e # x
    <3>1. batch[t] \in Seq(Nat \ {0}) /\ Sorted(batch[t]) /\ batch'[t] = Tail(batch[t])
      BY <1>0, <2>1 DEF OrderInv
    <3> QED
      BY <2>1, <2>2, <3>1, HasKept
  <2>4. /\ x \in 1 .. Len(log) /\ ~Has(queue, x)
        /\ \A u \in Threads : u # t => ~Has(batch[u], x) /\ batch'[u] = batch[u]
    BY <1>0, <2>1, <2>3, OnePlace
  <2>5. /\ DOMAIN fate' = DOMAIN fate /\ Len(fate') = Len(fate)
        /\ \A e \in 1 .. Len(log) : fate'[e] = IF e = x THEN v ELSE fate[e]
    BY <1>0, <2>1, <2>2, <2>4, FateChanged
  <2>6. ASSUME NEW e \in 1 .. Len(log) PROVE fate'[e] = "live" <=> Waiting(e)'
    <3>1. CASE e = x
      BY <1>w, <2>1, <2>3, <2>4, <2>5, <3>1
    <3>2. CASE e # x
      BY <1>l, <1>w, <2>1, <2>3, <2>4, <2>5, <3>2
    <3> QED
      BY <3>1, <3>2
  <2> QED
    BY <1>0, <2>1, <2>5, <2>6 DEF NoSilentLoss
<1>4. ASSUME StopClear PROVE NoSilentLoss'
  <2>1. /\ fate' = [e \in DOMAIN fate |-> IF Has(queue, e) THEN "cleared" ELSE fate[e]]
        /\ queue' = <<>> /\ UNCHANGED <<batch, log>>
    BY <1>4 DEF StopClear, Has
  <2>2. DOMAIN fate' = DOMAIN fate /\ Len(fate') = Len(fate)
    <3>1. DOMAIN fate' = 1 .. Len(log)
      BY <1>0, <2>1
    <3>2. fate' \in Seq(Fates)
      BY TypeStep DEF TypeInv, TypeOK
    <3> QED
      BY <1>0, <3>1, <3>2, LenProperties
  <2>3. \A e : ~Has(queue', e)
    BY <2>1, HasKept
  <2>4. ASSUME NEW e \in 1 .. Len(log) PROVE fate'[e] = "live" <=> Waiting(e)'
    <3>1. fate'[e] = IF Has(queue, e) THEN "cleared" ELSE fate[e]
      BY <1>0, <2>1
    <3> QED
      BY <1>l, <1>w, <2>1, <2>3, <3>1, OnePlace
  <2> QED
    BY <1>0, <2>1, <2>2, <2>4 DEF NoSilentLoss
<1>5. ASSUME \/ \E s \in Subscriptions : Subscribe(s) \/ Unsubscribe(s)
             \/ \E h \in Handlers : Collect(h)
             \/ \E a \in Actors, ty \in Types : PublishCheck(a, ty)
             \/ \E t \in Threads : \/ ReadClock(t) \/ Exit(t) \/ CopyHandlers(t)
                                   \/ CallHandler(t) \/ HandlerReturns(t)
                                   \/ FinishBatch(t) \/ Start(t)
             \/ StopRequest \/ JoinReturns \/ JoinTimesOut \/ Tick \/ UNCHANGED vars
      PROVE  NoSilentLoss'
  <2>1. UNCHANGED <<queue, batch, log, fate>>
    BY <1>5 DEF Subscribe, Unsubscribe, Collect, PublishCheck, ReadClock, Exit,
                CopyHandlers, CallHandler, HandlerReturns, FinishBatch, Start,
                StopRequest, JoinReturns, JoinTimesOut, Tick, vars
  <2> QED
    BY <1>h, <2>1
<1> QED
  BY <1>1, <1>2, <1>3, <1>4, <1>5 DEF Next, ThreadStep, AppStep

(* The account of the events in every reachable state.                     *)
LEMMA FateInvariant == Spec => [](TypeInv /\ OrderInv /\ NoSilentLoss)
<1>1. Init => NoSilentLoss
  <2> SUFFICES ASSUME Init PROVE NoSilentLoss
    OBVIOUS
  <2>1. fate = <<>> /\ log = <<>>
    BY DEF Init
  <2> QED
    BY <2>1 DEF NoSilentLoss
<1>2. Init => OrderInv
  BY DEF Init, OrderInv, Sorted
<1>3. TypeInv /\ OrderInv /\ NoSilentLoss /\ [Next]_vars
        => (TypeInv /\ OrderInv /\ NoSilentLoss)'
  BY TypeStep, OrderStep, FateStep
<1> QED
  BY <1>1, <1>2, <1>3, InitType, PTL DEF Spec

(* An appended event waits until it is dispatched, found stale, dropped by *)
(* the full deque or cleared by stop(): none disappears unrecorded.        *)
THEOREM NothingLostSilently == Spec => []NoSilentLoss
BY FateInvariant, PTL

-----------------------------------------------------------------------------
(* The subscriptions that an event is owed to.  While a thread works on an *)
(* event, a subscription older than the event is among the handlers it     *)
(* copied and has yet to call, or has been called.                         *)

Called(s, e) == \E i \in DOMAIN got[s] : got[s][i].ev = e
Owed(s, e) == e > since[s] /\ s \in Matches(log[e].type)

OwedInv ==
    \A t \in Threads : \A s \in subs :
        (pc[t] \in {"call", "run"} /\ Owed(s, Head(batch[t])))
            => s \in todo[t] \/ Called(s, Head(batch[t]))

(* Every step keeps what a subscription is owed: it is copied with the     *)
(* handlers, stays until its call, and nothing is owed to one that was     *)
(* made after the event.                                                   *)
LEMMA OwedStep ==
    ASSUME TypeInv, OrderInv, NoSilentLoss, OwedInv, DeliveredToStanding, [Next]_vars
    PROVE  OwedInv' /\ DeliveredToStanding'
<1>0. /\ subs \subseteq Subscriptions /\ since \in [Subscriptions -> Nat]
      /\ batch \in [Threads -> Seq(Nat \ {0})]
      /\ pc \in [Threads -> {"new", "wait", "taken", "next", "call", "run", "done"}]
      /\ todo \in [Threads -> SUBSET Subscriptions]
      /\ got \in [Subscriptions -> Seq([th : Threads, ev : Nat \ {0}])]
      /\ Len(log) \in Nat /\ Len(fate) = Len(log) /\ DOMAIN fate = 1 .. Len(log)
  <2>1. fate \in Seq(Fates) /\ log \in Seq(Events) /\ Len(fate) = Len(log)
        /\ subs \subseteq Subscriptions /\ since \in [Subscriptions -> Nat]
    BY DEF TypeInv, TypeOK, NoSilentLoss
  <2> QED
    BY <2>1, SeqValues, LenProperties
(* The event a thread works on was appended.                               *)
<1>b. ASSUME NEW t \in Threads, batch[t] # <<>>
      PROVE  Head(batch[t]) \in 1 .. Len(log)
  <2>1. Has(batch[t], Head(batch[t]))
    BY <1>0, <1>b, HasKept DEF OrderInv
  <2> QED
    BY <2>1, OnePlace
<1>d. ASSUME \A s \in subs', e \in DOMAIN fate' :
                fate'[e] = "done" /\ e > since'[s] =>
                    /\ s \in subs /\ since'[s] = since[s]
                    /\ e \in DOMAIN fate /\ fate[e] = "done" /\ log'[e] = log[e],
             \A s \in subs, e \in DOMAIN fate : Called(s, e) => Called(s, e)'
      PROVE  DeliveredToStanding'
  <2> SUFFICES ASSUME NEW s \in subs', NEW e \in DOMAIN fate',
                      fate'[e] = "done", e > since'[s], s \in Matches(log'[e].type)
               PROVE  Called(s, e)'
    BY DEF DeliveredToStanding, Called, Matches
  <2>1. /\ s \in subs /\ since'[s] = since[s]
        /\ e \in DOMAIN fate /\ fate[e] = "done" /\ log'[e] = log[e]
    BY <1>d
  <2>2. Called(s, e)
    BY <2>1 DEF DeliveredToStanding, Called, Matches
  <2> QED
    BY <1>d, <2>1, <2>2
<1>o. ASSUME NEW t \in Threads, NEW s \in subs, s \in subs',
             since'[s] = since[s], batch'[t] = batch[t], todo'[t] = todo[t],
             pc'[t] \in {"call", "run"} => pc[t] \in {"call", "run"},
             got' = got, batch[t] # <<>> => log'[Head(batch[t])] = log[Head(batch[t])]
      PROVE  (pc[t] \in {"call", "run"} /\ Owed(s, Head(batch[t])))'
                => (s \in todo[t] \/ Called(s, Head(batch[t])))'
  <2> SUFFICES ASSUME pc'[t] \in {"call", "run"}, Owed(s, Head(batch[t]))'
               PROVE  (s \in todo[t] \/ Called(s, Head(batch[t])))'
    OBVIOUS
  <2>1. pc[t] \in {"call", "run"} /\ batch[t] # <<>>
    BY <1>o DEF TypeInv, BatchHeld
  <2>2. Owed(s, Head(batch[t]))
    BY <1>o, <2>1 DEF Owed, Matches
  <2> QED
    BY <1>o, <2>1, <2>2 DEF OwedInv, Called
<1> USE DEF dispatchVars, historyVars
<1>1. ASSUME NEW s \in Subscriptions, Subscribe(s) PROVE OwedInv' /\ DeliveredToStanding'
  <2>1. /\ subs' = subs \cup {s} /\ since' = [since EXCEPT ![s] = Len(log)]
        /\ UNCHANGED <<batch, pc, todo, got, log, fate>>
    BY <1>1 DEF Subscribe
  <2>2. since'[s] = Len(log) /\ \A r \in Subscriptions : r # s => since'[r] = since[r]
    BY <1>0, <2>1
  <2>3. DeliveredToStanding'
    <3>1. \A r \in subs', e \in DOMAIN fate' : e > since'[r] => r \in subs /\ since'[r] = since[r]
      BY <1>0, <2>1, <2>2
    <3> QED
      BY <1>d, <2>1, <3>1 DEF Called
  <2>4. OwedInv'
    <3> SUFFICES ASSUME NEW t \in Threads, NEW r \in subs',
                        (pc[t] \in {"call", "run"} /\ Owed(r, Head(batch[t])))'
                 PROVE  (r \in todo[t] \/ Called(r, Head(batch[t])))'
      BY DEF OwedInv
    <3>1. batch[t] # <<>>
      BY <2>1 DEF TypeInv, BatchHeld
    <3>2. r # s
      BY <1>0, <1>b, <2>1, <2>2, <3>1 DEF Owed
    <3>3. r \in subs /\ since'[r] = since[r]
      BY <1>0, <2>1, <2>2, <3>2
    <3> QED
      BY <1>o, <2>1, <3>3
  <2> QED
    BY <2>3, <2>4
<1>2. ASSUME \/ \E s \in Subscriptions : Unsubscribe(s)
             \/ \E h \in Handlers : Collect(h)
             \/ \E a \in Actors, ty \in Types : PublishCheck(a, ty)
             \/ StopRequest \/ JoinReturns \/ JoinTimesOut \/ Tick \/ UNCHANGED vars
      PROVE  OwedInv' /\ DeliveredToStanding'
  <2>1. /\ subs' \subseteq subs /\ UNCHANGED <<batch, pc, todo, got, log, fate>>
        /\ \A r \in subs' : since'[r] = since[r]
    <3>1. ASSUME NEW s \in Subscriptions, Unsubscribe(s)
          PROVE  /\ subs' \subseteq subs /\ UNCHANGED <<batch, pc, todo, got, log, fate>>
                 /\ \A r \in subs' : since'[r] = since[r]
      BY <1>0, <3>1 DEF Unsubscribe
    <3>2. ASSUME NEW h \in Handlers, Collect(h)
          PROVE  /\ subs' \subseteq subs /\ UNCHANGED <<batch, pc, todo, got, log, fate>>
                 /\ \A r \in subs' : since'[r] = since[r]
      BY <1>0, <3>2 DEF Collect
    <3> QED
      BY <1>2, <3>1, <3>2 DEF PublishCheck, StopRequest, JoinReturns,
                JoinTimesOut, Tick, vars
  <2>2. DeliveredToStanding'
    BY <1>d, <2>1 DEF Called
  <2>3. OwedInv'
    BY <1>o, <2>1 DEF OwedInv, Owed, Called
  <2> QED
    BY <2>2, <2>3
<1>3. ASSUME NEW a \in Actors, PublishAppend(a) PROVE OwedInv' /\ DeliveredToStanding'
  <2>1. UNCHANGED <<subs, since, batch, pc, todo, got>>
    BY <1>3 DEF PublishAppend
  <2>2. /\ DOMAIN fate' = 1 .. Len(log) + 1 /\ fate'[Len(log) + 1] = "live"
        /\ \A e \in 1 .. Len(log) :
              log'[e] = log[e] /\ (fate'[e] = fate[e] \/ fate'[e] = "overflow")
    BY <1>0, <1>3, AppendFates
  <2>3. DeliveredToStanding'
    <3>1. \A e \in DOMAIN fate' : fate'[e] = "done" =>
              e \in DOMAIN fate /\ fate[e] = "done" /\ log'[e] = log[e]
      BY <1>0, <2>2
    <3> QED
      BY <1>d, <2>1, <3>1 DEF Called
  <2>4. \A t \in Threads : batch[t] # <<>> => log'[Head(batch[t])] = log[Head(batch[t])]
    BY <1>b, <2>2
  <2> QED
    BY <1>o, <2>1, <2>3, <2>4 DEF OwedInv
<1>4. ASSUME NEW t \in Threads, ThreadStep(t) PROVE OwedInv' /\ DeliveredToStanding'
  <2>0. /\ UNCHANGED <<subs, since, log>>
        /\ \A u \in Threads \ {t} :
              pc'[u] = pc[u] /\ todo'[u] = todo[u] /\ batch'[u] = batch[u]
    BY <1>0, <1>4 DEF ThreadStep, Take, ReadClock, Exit, DropStale, CopyHandlers,
                      CallHandler, HandlerReturns, FinishEvent, FinishBatch
  (* A step of t that calls nobody concerns what t works on only.          *)
  <2>o. ASSUME got' = got,
               \A s \in subs : (pc[t] \in {"call", "run"} /\ Owed(s, Head(batch[t])))'
                                 => (s \in todo[t] \/ Called(s, Head(batch[t])))'
        PROVE  OwedInv'
    <3> SUFFICES ASSUME NEW u \in Threads, NEW s \in subs'
                 PROVE  (pc[u] \in {"call", "run"} /\ Owed(s, Head(batch[u])))'
                          => (s \in todo[u] \/ Called(s, Head(batch[u])))'
      BY DEF OwedInv
    <3>1. CASE u = t
      BY <2>0, <2>o, <3>1
    <3>2. CASE u # t
      BY <1>o, <2>0, <2>o, <3>2
    <3> QED
      BY <3>1, <3>2
  <2>1. ASSUME Take(t) \/ ReadClock(t) \/ Exit(t) \/ FinishBatch(t)
        PROVE  OwedInv' /\ DeliveredToStanding'
    <3>1. pc'[t] \notin {"call", "run"} /\ UNCHANGED <<got, fate>>
      BY <1>0, <2>1 DEF Take, ReadClock, Exit, FinishBatch
    <3> QED
      BY <1>d, <2>0, <2>o, <3>1 DEF Called
  <2>2. ASSUME DropStale(t) PROVE OwedInv' /\ DeliveredToStanding'
    <3>1. /\ pc'[t] \notin {"call", "run"} /\ got' = got /\ batch[t] # <<>>
          /\ fate' = [fate EXCEPT ![Head(batch[t])] = "stale"]
      BY <2>2 DEF DropStale
    <3>2. DeliveredToStanding'
      BY <1>0, <1>b, <1>d, <2>0, <3>1 DEF Called
    <3> QED
      BY <2>o, <3>1, <3>2
  <2>3. ASSUME CopyHandlers(t) PROVE OwedInv' /\ DeliveredToStanding'
    <3>1. /\ UNCHANGED <<batch, got, fate>>
          /\ todo'[t] = subs \cap Matches(log[Head(batch[t])].type)
      BY <1>0, <2>3 DEF CopyHandlers
    <3>2. DeliveredToStanding'
      BY <1>d, <2>0, <3>1 DEF Called
    <3>3. \A s \in subs : Owed(s, Head(batch[t]))' => s \in todo'[t]
      BY <2>0, <3>1 DEF Owed, Matches
    <3> QED
      BY <2>o, <3>1, <3>2, <3>3
  <2>4. ASSUME CallHandler(t) PROVE OwedInv' /\ DeliveredToStanding'
    <3>0. pc[t] = "call" /\ batch[t] # <<>> /\ UNCHANGED <<batch, fate>>
      BY <2>4 DEF CallHandler, TypeInv, BatchHeld
    <3>1. PICK c \in Callable(t) :
              /\ todo' = [todo EXCEPT ![t] = @ \ {c}]
              /\ got' = [got EXCEPT ![c] = Append(@, [th |-> t, ev |-> Head(batch[t])])]
      BY <2>4 DEF CallHandler
    <3>2. c \in Subscriptions
      <4>1. c \in todo[t]
        BY <3>1 DEF Callable
      <4> QED
        BY <1>0, <4>1
    <3>3. /\ \A s \in Subscriptions : \A e : Called(s, e) => Called(s, e)'
          /\ Called(c, Head(batch[t]))'
      <4> DEFINE r == [th |-> t, ev |-> Head(batch[t])]
      <4>1. r \in [th : Threads, ev : Nat \ {0}]
        BY <1>0, <3>0, HeadTailProperties
      <4>2. got[c] \in Seq([th : Threads, ev : Nat \ {0}]) /\ got'[c] = Append(got[c], r)
            /\ \A s \in Subscriptions : s # c => got'[s] = got[s]
        BY <1>0, <3>1, <3>2
      <4>3. /\ Len(got[c]) \in Nat /\ DOMAIN got[c] = 1 .. Len(got[c])
            /\ DOMAIN got'[c] = 1 .. Len(got[c]) + 1
            /\ \A i \in 1 .. Len(got[c]) : got'[c][i] = got[c][i]
            /\ got'[c][Len(got[c]) + 1] = r
        BY <4>1, <4>2, AppendProperties, LenProperties
      <4>4. Called(c, Head(batch[t]))'
        <5>1. r.ev = Head(batch[t])
          OBVIOUS
        <5> HIDE DEF r
        <5>2. got'[c][Len(got[c]) + 1].ev = Head(batch'[t])
              /\ Len(got[c]) + 1 \in DOMAIN got'[c]
          BY <3>0, <4>3, <5>1
        <5> QED
          BY <5>2 DEF Called
      <4>5. \A s \in Subscriptions : \A e : Called(s, e) => Called(s, e)'
        <5>1. \A i \in DOMAIN got[c] : i \in DOMAIN got'[c] /\ got'[c][i] = got[c][i]
          BY <4>3
        <5>2. \A e : Called(c, e) => Called(c, e)'
          BY <5>1 DEF Called
        <5>3. \A s \in Subscriptions : s # c => \A e : Called(s, e) => Called(s, e)'
          BY <4>2 DEF Called
        <5> QED
          BY <5>2, <5>3
      <4> QED
        BY <4>4, <4>5
    <3>4. DeliveredToStanding'
      BY <1>0, <1>d, <2>0, <3>0, <3>3
    <3>5. ASSUME NEW u \in Threads, NEW s \in subs',
                 pc'[u] \in {"call", "run"}, Owed(s, Head(batch[u]))'
          PROVE  s \in todo'[u] \/ Called(s, Head(batch[u]))'
      <4>1. s \in subs /\ s \in Subscriptions /\ pc[u] \in {"call", "run"}
        BY <1>0, <2>0, <3>0, <3>5
      <4>2. Owed(s, Head(batch[u]))
        BY <2>0, <3>0, <3>5 DEF Owed, Matches
      <4>3. s \in todo[u] \/ Called(s, Head(batch[u]))
        BY <4>1, <4>2 DEF OwedInv
      <4>4. CASE Called(s, Head(batch[u]))
        <5>1. PICK e : e = Head(batch[u])
          OBVIOUS
        <5>2. Called(s, e)'
          BY <3>3, <4>1, <4>4, <5>1
        <5> QED
          BY <3>0, <5>1, <5>2 DEF Called
      <4>5. CASE s \in todo[u] /\ (u # t \/ s # c)
        BY <1>0, <2>0, <3>1, <4>5
      <4>6. CASE u = t /\ s = c
        BY <3>3, <4>6
      <4> QED
        BY <4>3, <4>4, <4>5, <4>6
    <3> QED
      BY <3>4, <3>5 DEF OwedInv
  <2>5. ASSUME HandlerReturns(t) PROVE OwedInv' /\ DeliveredToStanding'
    <3>1. pc[t] = "run" /\ UNCHANGED <<batch, todo, got, fate>>
      BY <2>5 DEF HandlerReturns
    <3>2. DeliveredToStanding'
      BY <1>d, <2>0, <3>1 DEF Called
    <3> QED
      BY <1>o, <2>0, <2>o, <3>1, <3>2
  <2>6. ASSUME FinishEvent(t) PROVE OwedInv' /\ DeliveredToStanding'
    <3>1. /\ pc[t] = "call" /\ pc'[t] = "next" /\ todo[t] = {} /\ got' = got
          /\ batch[t] # <<>> /\ fate' = [fate EXCEPT ![Head(batch[t])] = "done"]
      BY <1>0, <2>6 DEF FinishEvent, TypeInv, BatchHeld
    <3>2. OwedInv'
      BY <2>o, <3>1
    (* Whoever was owed the event that is finished has been called.        *)
    <3>3. ASSUME NEW s \in subs, Owed(s, Head(batch[t]))
          PROVE  Called(s, Head(batch[t]))
      BY <3>1, <3>3 DEF OwedInv
    <3>4. DeliveredToStanding'
      <4> SUFFICES ASSUME NEW s \in subs', NEW e \in DOMAIN fate', fate'[e] = "done",
                          e > since'[s], s \in Matches(log'[e].type)
                   PROVE  Called(s, e)'
        BY DEF DeliveredToStanding, Called, Matches
      <4>1. s \in subs /\ e > since[s] /\ s \in Matches(log[e].type)
            /\ e \in DOMAIN fate
        BY <2>0, <3>1
      <4>2. CASE e = Head(batch[t])
        BY <3>1, <3>3, <4>1, <4>2 DEF Owed, Called
      <4>3. CASE e # Head(batch[t])
        BY <3>1, <4>1, <4>3 DEF DeliveredToStanding, Called
      <4> QED
        BY <4>2, <4>3
    <3> QED
      BY <3>2, <3>4
  <2> QED
    BY <1>4, <2>1, <2>2, <2>3, <2>4, <2>5, <2>6 DEF ThreadStep
<1>5. ASSUME NEW t \in Threads, Start(t) PROVE OwedInv' /\ DeliveredToStanding'
  <2>1. /\ UNCHANGED <<subs, since, batch, todo, got, log, fate>>
        /\ \A u \in Threads : pc'[u] \in {"call", "run"} => pc[u] \in {"call", "run"}
    BY <1>0, <1>5 DEF Start, NextThread
  <2>2. DeliveredToStanding'
    BY <1>d, <2>1 DEF Called
  <2> QED
    BY <1>o, <2>1, <2>2 DEF OwedInv
<1>6. ASSUME StopClear PROVE OwedInv' /\ DeliveredToStanding'
  <2>1. /\ UNCHANGED <<subs, since, batch, pc, todo, got, log>>
        /\ DOMAIN fate' = DOMAIN fate
        /\ \A e \in DOMAIN fate : fate'[e] = "done" => fate[e] = "done"
    BY <1>6 DEF StopClear
  <2>2. DeliveredToStanding'
    BY <1>d, <2>1 DEF Called
  <2> QED
    BY <1>o, <2>1, <2>2 DEF OwedInv
<1> QED
  BY <1>1, <1>2, <1>3, <1>4, <1>5, <1>6 DEF Next, AppStep

(* Whoever subscribed before an event was published and still subscribes   *)
(* has been called for it when it was dispatched, through any number of    *)
(* restarts, subscriptions and publications in between.                    *)
THEOREM StandingServed == Spec => []DeliveredToStanding
<1>1. Init => OwedInv /\ DeliveredToStanding
  BY DEF Init, OwedInv, DeliveredToStanding
<1>2. TypeInv /\ OrderInv /\ NoSilentLoss /\ OwedInv /\ DeliveredToStanding /\ [Next]_vars
        => OwedInv' /\ DeliveredToStanding'
  BY OwedStep
<1> QED
  BY <1>1, <1>2, FateInvariant, PTL DEF Spec
=============================================================================
