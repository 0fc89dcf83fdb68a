------------------------- MODULE TradingPath_proofs -------------------------
(* Proofs about TradingPath for any number of workers, any snapshots and   *)
(* any thresholds: the types and the lock of the workers, the spacing of   *)
(* the orders, the trades that failed to open, the refinement of           *)
(* TradeLife, and the sales that may leave the account short.              *)
EXTENDS TradingPath, SequenceTheorems, FiniteSetTheorems, WellFoundedInduction, TLAPS

-----------------------------------------------------------------------------
(* What the operators on trades return.                                    *)

(* A set of numbers that is not empty has its Min as a member.             *)
LEMMA MinIsMember ==
    ASSUME NEW S \in SUBSET Nat, S # {}
    PROVE  Min(S) \in S /\ \A y \in S : Min(S) <= y
<1> DEFINE R == {ss \in Nat \X Nat : ss[1] < ss[2]}
<1>1. IsWellFoundedOn(R, Nat)
  BY NatLessThanWellFounded, Zenon DEF OpToRel
<1> HIDE DEF R
<1>2. \E x \in S : \A y \in S : ~(<<y, x>> \in R)
  BY <1>1, WFMin, Zenon
<1>3. \A x, y \in Nat : y < x => <<y, x>> \in R
  BY DEF R
<1>4. PICK x \in S : \A y \in S : ~(<<y, x>> \in R)
  BY <1>2
<1>5. \A y \in S : x <= y
  <2> SUFFICES ASSUME NEW y \in S PROVE x <= y
    OBVIOUS
  <2>1. x \in Nat /\ y \in Nat
    OBVIOUS
  <2>2. ~(y < x)
    BY <1>3, <1>4, <2>1
  <2> QED
    BY <2>1, <2>2
<1> QED
  BY <1>5 DEF Min

(* The active trade is one of the trades and is not closed, or 0.          *)
LEMMA FindActiveFound ==
    ASSUME NEW ts \in Seq(Trade)
    PROVE  /\ FindActive(ts) \in 0 .. Len(ts)
           /\ FindActive(ts) # 0 => FindActive(ts) \in Unclosed(ts)
<1>1. DOMAIN ts = 1 .. Len(ts) /\ Len(ts) \in Nat
  OBVIOUS
<1>2. CASE Unclosed(ts) = {}
  BY <1>1, <1>2 DEF FindActive
<1>3. CASE Unclosed(ts) # {}
  <2>1. Unclosed(ts) \in SUBSET Nat
    BY <1>1 DEF Unclosed
  <2>2. Min(Unclosed(ts)) \in Unclosed(ts)
    BY <1>3, <2>1, MinIsMember
  <2> QED
    BY <1>1, <1>3, <2>2 DEF FindActive, Unclosed
<1> QED
  BY <1>2, <1>3

(* The later trades are the earlier ones, in the same states, and at most  *)
(* one more.                                                               *)
Grown(ts, us) ==
    /\ us \in Seq(Trade)
    /\ Len(us) \in Len(ts) .. Len(ts) + 1
    /\ \A t \in 1 .. Len(ts) : us[t].state = ts[t].state

(* A new trade leaves the others as they are.                              *)
LEMMA CreatedGrows ==
    ASSUME NEW ts \in Seq(Trade), NEW s \in {"OPEN_PENDING", "OPEN_ACTIVE", "CLOSED"}
    PROVE  /\ Grown(ts, Created(ts, s))
           /\ Len(Created(ts, s)) = Len(ts) + 1
           /\ Created(ts, s)[Len(ts) + 1].state = s
<1> DEFINE new == [state |-> s, orders |-> {}]
<1>1. new \in Trade
  BY DEF Trade
<1>2. /\ Append(ts, new) \in Seq(Trade)
      /\ Len(Append(ts, new)) = Len(ts) + 1
      /\ \A i \in 1 .. Len(ts) : Append(ts, new)[i] = ts[i]
      /\ Append(ts, new)[Len(ts) + 1] = new
  BY <1>1, AppendProperties
<1>3. Len(ts) \in Nat /\ new.state = s
  OBVIOUS
<1> HIDE DEF new
<1>4. Created(ts, s) = Append(ts, new)
  BY DEF Created, new
<1> QED
  BY <1>2, <1>3, <1>4 DEF Grown

(* Adopting what the broker holds adds a trade or leaves them all alone.   *)
LEMMA SyncedGrows ==
    ASSUME NEW ts \in Seq(Trade), NEW n
    PROVE  Grown(ts, CreatedOrSynced(ts, n))
<1>1. CASE FindActive(ts) # 0
  BY <1>1 DEF CreatedOrSynced, Grown
<1>2. CASE FindActive(ts) = 0
  <2>1. PICK s \in {"OPEN_PENDING", "OPEN_ACTIVE", "CLOSED"} : CreatedOrSynced(ts, n) = Created(ts, s)
    BY <1>2 DEF CreatedOrSynced
  <2> QED
    BY <2>1, CreatedGrows
<1> QED
  BY <1>1, <1>2

(* A trade whose state is set is the only one that differs.                *)
WithState(ts, t, s) == [ts EXCEPT ![t].state = s]

LEMMA StateSet ==
    ASSUME NEW ts \in Seq(Trade), NEW t \in 1 .. Len(ts),
           NEW s \in {"OPEN_PENDING", "OPEN_ACTIVE", "CLOSED"}
    PROVE  /\ WithState(ts, t, s) \in Seq(Trade)
           /\ Len(WithState(ts, t, s)) = Len(ts)
           /\ WithState(ts, t, s)[t].state = s
           /\ \A v \in 1 .. Len(ts) : v # t => WithState(ts, t, s)[v] = ts[v]
<1>1. ts[t] \in Trade
  BY ElementOfSeq
<1>2. [ts[t] EXCEPT !.state = s] \in Trade /\ [ts[t] EXCEPT !.state = s].state = s
  BY <1>1 DEF Trade
<1> DEFINE new == [ts[t] EXCEPT !.state = s]
<1> HIDE DEF new
<1>3. LET us == [ts EXCEPT ![t] = new] IN
      /\ us \in Seq(Trade)
      /\ Len(us) = Len(ts)
      /\ us[t] = new
      /\ \A v \in 1 .. Len(ts) : v # t => us[v] = ts[v]
  BY <1>2, ExceptSeq DEF new
<1>4. WithState(ts, t, s) = [ts EXCEPT ![t] = new]
  BY DEF new, WithState
<1> QED
  BY <1>2, <1>3, <1>4 DEF new

(* Submission changes no state.                                            *)
LEMMA SubmittedGrows ==
    ASSUME NEW ts \in Seq(Trade), NEW t \in 1 .. Len(ts), NEW id \in Nat
    PROVE  Grown(ts, Submitted(ts, t, id)) /\ Len(Submitted(ts, t, id)) = Len(ts)
<1>1. ts[t] \in Trade
  BY ElementOfSeq
<1> DEFINE new == [ts[t] EXCEPT !.orders = @ \cup {id}]
<1>2. new \in Trade /\ new.state = ts[t].state
  BY <1>1 DEF Trade
<1> HIDE DEF new
<1>3. LET us == [ts EXCEPT ![t] = new] IN
      /\ us \in Seq(Trade)
      /\ Len(us) = Len(ts)
      /\ us[t] = new
      /\ \A v \in 1 .. Len(ts) : v # t => us[v] = ts[v]
  BY <1>2, ExceptSeq
<1>4. Submitted(ts, t, id) = [ts EXCEPT ![t] = new]
  BY DEF new, Submitted
<1> QED
  BY <1>2, <1>3, <1>4, LenProperties DEF Grown

-----------------------------------------------------------------------------
(* Types, by what they are about.                                          *)

OcrTypes ==
    /\ FilterTypeOK
    /\ seen \in Snapshots \cup {NoSnapshot}
    /\ lastSent \in [snap : Snapshots, at : Nat] \cup {None}
    /\ work \in [Workers -> Working \cup {Idle}]
    /\ taken \in Nat
    /\ lastAdd \in Sent \cup {None} /\ lastReduce \in Sent \cup {None}

OnePastLock ==
    \A v, w \in Workers :
        v # w => At(v, "waiting") \/ At(w, "waiting") \/ Idle \in {work[v], work[w]}

BusTypes == bus \in Seq(Event) /\ upsets \in Nat

TradeTypes ==
    /\ handling \in [req : Requests, forced : BOOLEAN, trade : 0 .. Len(trades)] \cup {Idle}
    /\ trades \in Seq(Trade)
    /\ orders \in Seq(Order)
    /\ \A o \in DOMAIN orders : orders[o].trade \in DOMAIN trades

BrokerTypes ==
    /\ live \in [DOMAIN live -> Nat \ {0}]
    /\ \A o \in DOMAIN live : o \in DOMAIN orders /\ orders[o].sent
    /\ account \in Int

BookTypes ==
    /\ pos \in Position /\ pos.strategy = StrategyOf(pos.shares)
    /\ poll \in [shares : Int, syncing : BOOLEAN, ahead : Int] \cup {Idle, Off}
    /\ exact \in BOOLEAN /\ overlap \in BOOLEAN

LEMMA TypeGroups ==
    TypeOK <=> OcrTypes /\ OnePastLock /\ BusTypes /\ TradeTypes /\ BrokerTypes /\ BookTypes
BY DEF TypeOK, OcrTypes, OnePastLock, BusTypes, TradeTypes, BrokerTypes, BookTypes

(* Costs and P&L are numbers.                                              *)
LEMMA SnapshotFacts ==
    ASSUME NEW s \in Snapshots
    PROVE  s.cost \in Int /\ s.pnl \in Int
BY PathAssumption

(* A quantity is a natural number.                                         *)
LEMMA QuantityIsNat ==
    ASSUME NEW act, NEW r \in Reading
    PROVE  Quantity(act, r) \in Nat
<1>1. Abs(r.shares) \in Nat
  BY DEF Reading, Abs
<1>2. \A n \in Nat : HalfOf(n) \in Nat
  BY DEF HalfOf
<1> QED
  BY <1>1, <1>2, PathAssumption DEF Quantity

(* A signal is one of the four actions, or none.                           *)
LEMMA SignalIsAction ==
    ASSUME NEW r
    PROVE  SignalOf(r) \in Actions \cup {"NONE"}
<1> DEFINE moved == Abs(r.snap.cost - OldCost) >= AddDelta
           from(strategy, hint) == r.strategy = strategy /\ r.snap.hint = hint
<1> HIDE DEF moved, from
<1> QED
  BY Zenon DEF SignalOf, Actions, Exits, moved, from

(* The fill of an order is signed by its side.                             *)
LEMMA SideFacts ==
    /\ \A act : Side(act) \in {-1, 1}
    /\ \A side \in {-1, 1}, n \in Nat : side * n \in Int
BY DEF Side

(* The filter's state keeps its type whatever the signal.                  *)
LEMMA FilterTyped ==
    ASSUME FilterTypeOK, clock' = clock, NEW s \in Snapshots, NEW act,
           NEW passed \in BOOLEAN, FilterSignal(act, s, passed)
    PROVE  FilterTypeOK'
BY DEF FilterSignal, FilterAdd, FilterReduce, ResetSymbol, FilterTypeOK, Period

LEMMA RecordTyped ==
    ASSUME FilterTypeOK, clock' = clock, NEW s \in Snapshots,
           RecordAdd(s.cost) \/ RecordReduce(s.pnl) \/ UNCHANGED filterVars
    PROVE  FilterTypeOK'
BY SnapshotFacts, FilterAssumption
DEF RecordAdd, RecordReduce, filterVars, FilterTypeOK, Period

(* What a worker has in hand past the lock.                                *)
LEMMA AtFacts ==
    ASSUME OcrTypes, NEW w \in Workers
    PROVE  /\ At(w, "waiting") => work[w].snap \in Snapshots
           /\ At(w, "reading") => work[w] \in Reading /\ work[w].snap \in Snapshots
           /\ At(w, "sending") => work[w] \in Sending /\ work[w].snap \in Snapshots
BY DEF OcrTypes, At, Working, Reading, Sending

(* Forgetting leaves the last requests what they are, or none.             *)
LEMMA ForgetTyped ==
    ASSUME OcrTypes, NEW acts, NEW act, Forget(acts, act)
    PROVE  lastAdd' \in Sent \cup {None} /\ lastReduce' \in Sent \cup {None}
BY DEF OcrTypes, Forget

(* What a decision gives a worker to send.                                 *)
LEMMA DecidedTyped ==
    ASSUME OcrTypes, NEW w \in Workers, Decide(w)
    PROVE  [stage |-> "sending", snap |-> work[w].snap, act |-> SignalOf(work[w]),
            qty |-> Quantity(SignalOf(work[w]), work[w])] \in Sending
<1> DEFINE act == SignalOf(work[w])
           qty == Quantity(act, work[w])
<1>1. work[w] \in Reading /\ work[w].snap \in Snapshots
  BY AtFacts DEF Decide
<1>2. act \in Actions /\ qty > 0
  BY DEF Decide, FilterSignal, Actions, Exits
<1>3. qty \in Nat
  BY <1>1, QuantityIsNat
<1> HIDE DEF act, qty
<1>4. [stage |-> "sending", snap |-> work[w].snap, act |-> act, qty |-> qty] \in Sending
  BY <1>1, <1>2, <1>3 DEF Sending
<1> QED
  BY <1>4 DEF act, qty

(* Each action of a worker.                                                *)
LEMMA OcrTyped ==
    ASSUME OcrTypes, OnePastLock, BookTypes, NEW w \in Workers, Ocr(w)
    PROVE  OcrTypes' /\ OnePastLock'
<1> USE DEF OcrTypes
<1> DEFINE Rest == /\ FilterTypeOK'
                   /\ seen' \in Snapshots \cup {NoSnapshot}
                   /\ lastSent' \in [snap : Snapshots, at : Nat] \cup {None}
                   /\ taken' \in Nat
                   /\ lastAdd' \in Sent \cup {None} /\ lastReduce' \in Sent \cup {None}
<1>1. ASSUME NEW new \in Working \cup {Idle}, work' = [work EXCEPT ![w] = new],
             \/ new = Idle
             \/ new.stage = "waiting"
             \/ ~Locked
             \/ work[w] # Idle /\ work[w].stage # "waiting"
      PROVE  work' \in [Workers -> Working \cup {Idle}] /\ OnePastLock'
  BY <1>1 DEF OnePastLock, At, Locked
<1>2. ASSUME NEW s \in Snapshots, TakeSnapshot(w, s)
      PROVE  OcrTypes' /\ OnePastLock'
  <2>1. Rest
    BY <1>2 DEF TakeSnapshot, spacing, filterVars, FilterTypeOK
  <2>2. [stage |-> "waiting", snap |-> s] \in Working
    BY DEF Working
  <2>3. work' \in [Workers -> Working \cup {Idle}] /\ OnePastLock'
    BY <1>1, <1>2, <2>2 DEF TakeSnapshot
  <2> QED
    BY <2>1, <2>3
<1>3. CASE Unchanged(w) \/ NoSignal(w)
  <2>1. Rest
    BY <1>3, AtFacts DEF Unchanged, NoSignal, Release, spacing, filterVars, FilterTypeOK
  <2>2. work' \in [Workers -> Working \cup {Idle}] /\ OnePastLock'
    BY <1>1, <1>3 DEF Unchanged, NoSignal, Release
  <2> QED
    BY <2>1, <2>2
<1>4. CASE ReadPosition(w)
  <2>1. Rest
    BY <1>4 DEF ReadPosition, spacing, filterVars, FilterTypeOK
  <2> DEFINE new == [stage |-> "reading", snap |-> work[w].snap,
                     shares |-> pos.shares, strategy |-> pos.strategy]
  <2>2. new \in Working
    BY <1>4, AtFacts DEF ReadPosition, Working, Reading, BookTypes, Position
  <2> HIDE DEF new
  <2>3. work' = [work EXCEPT ![w] = new] /\ ~Locked
    BY <1>4 DEF ReadPosition, new
  <2>4. work' \in [Workers -> Working \cup {Idle}] /\ OnePastLock'
    BY <1>1, <2>2, <2>3
  <2> QED
    BY <2>1, <2>4
<1>5. CASE Suppress(w)
  <2>1. work[w].snap \in Snapshots
    BY <1>5, AtFacts DEF Suppress
  <2>2. PICK passed \in BOOLEAN :
          /\ FilterSignal(SignalOf(work[w]), work[w].snap, passed)
          /\ Forget(IF passed THEN Actions ELSE {}, SignalOf(work[w]))
    BY <1>5, Zenon DEF Suppress
  <2>3. Rest
    BY <1>5, <2>1, <2>2, FilterTyped, ForgetTyped DEF Suppress, Release
  <2>4. work' \in [Workers -> Working \cup {Idle}] /\ OnePastLock'
    BY <1>1, <1>5 DEF Suppress, Release
  <2> QED
    BY <2>3, <2>4
<1>6. CASE Decide(w)
  <2> DEFINE act == SignalOf(work[w])
             qty == Quantity(act, work[w])
             new == [stage |-> "sending", snap |-> work[w].snap, act |-> act, qty |-> qty]
  <2>1. work[w] \in Reading /\ work[w].snap \in Snapshots /\ At(w, "reading")
    BY <1>6, AtFacts DEF Decide
  <2>2. /\ FilterSignal(act, work[w].snap, TRUE)
        /\ qty > 0
        /\ work' = [work EXCEPT ![w] = new]
        /\ Forget({"OPEN_LONG", "CLOSE_POSITION"}, act)
        /\ UNCHANGED <<clock, taken, seen, lastSent>>
    BY <1>6 DEF Decide
  <2>5. new \in Working
    BY <1>6, DecidedTyped DEF Working
  <2>6. Rest
    <3> HIDE DEF act
    <3> QED
      BY <2>1, <2>2, FilterTyped, ForgetTyped
  <2>7. work' \in [Workers -> Working \cup {Idle}] /\ OnePastLock'
    <3> HIDE DEF new
    <3> QED
      BY <1>1, <2>1, <2>2, <2>5 DEF At
  <2> QED
    BY <2>6, <2>7
<1>7. CASE NoPrice(w)
  <2>1. work[w].snap \in Snapshots
    BY <1>7, AtFacts DEF NoPrice
  <2>2. Rest
    BY <1>7, <2>1, ForgetTyped DEF NoPrice, Release, filterVars, FilterTypeOK
  <2>3. work' \in [Workers -> Working \cup {Idle}] /\ OnePastLock'
    BY <1>1, <1>7 DEF NoPrice, Release
  <2> QED
    BY <2>2, <2>3
<1>8. CASE Publish(w)
  <2>1. work[w].snap \in Snapshots
    BY <1>8, AtFacts DEF Publish
  <2>2. \/ RecordAdd(work[w].snap.cost)
        \/ RecordReduce(work[w].snap.pnl)
        \/ UNCHANGED filterVars
    BY <1>8 DEF Publish
  <2>3. FilterTypeOK'
    BY <1>8, <2>1, <2>2, RecordTyped DEF Publish
  <2>4. clock \in Nat
    BY DEF FilterTypeOK
  <2>5. /\ [at |-> clock, base |-> work[w].snap.cost] \in Sent
        /\ [at |-> clock, base |-> work[w].snap.pnl] \in Sent
    BY <2>1, <2>4, SnapshotFacts DEF Sent
  <2>6. lastAdd' \in Sent \cup {None} /\ lastReduce' \in Sent \cup {None}
    BY <1>8, <2>5 DEF Publish
  <2>7. /\ seen' \in Snapshots \cup {NoSnapshot}
        /\ lastSent' \in [snap : Snapshots, at : Nat] \cup {None}
        /\ taken' \in Nat
    BY <1>8, <2>1, <2>4 DEF Publish, Release
  <2>8. work' \in [Workers -> Working \cup {Idle}] /\ OnePastLock'
    BY <1>1, <1>8 DEF Publish, Release
  <2> QED
    BY <2>3, <2>6, <2>7, <2>8
<1> QED
  BY <1>2, <1>3, <1>4, <1>5, <1>6, <1>7, <1>8 DEF Ocr

(* The oldest event, once there is one.                                    *)
LEMMA HeadFacts ==
    ASSUME BusTypes, bus # <<>>
    PROVE  /\ Head(bus) \in Event /\ Tail(bus) \in Seq(Event)
           /\ Len(Tail(bus)) = Len(bus) - 1
           /\ Head(bus).type \in {"OrderRequest", "ValidatedOrderRequest"}
                => Head(bus) \in Requests
           /\ Head(bus).type = "OrderFilled" => Head(bus).change \in Int
           /\ Head(bus).type \in {"PositionQuantity", "FullPosition"}
                => Head(bus).shares \in Int
<1>1. Head(bus) \in Event /\ Tail(bus) \in Seq(Event) /\ Len(Tail(bus)) = Len(bus) - 1
  BY HeadTailProperties DEF BusTypes
<1> QED
  BY <1>1 DEF Event, Requests

(* A worker's request is one.                                              *)
LEMMA RequestTyped ==
    ASSUME OcrTypes, NEW w \in Workers, At(w, "sending")
    PROVE  Request(work[w]) \in Requests /\ Request(work[w]).type = "OrderRequest"
<1>1. work[w] \in Sending /\ work[w].snap \in Snapshots
  BY AtFacts
<1>2. work[w].snap.cost \in Int /\ clock \in Nat
  BY <1>1, SnapshotFacts DEF OcrTypes, FilterTypeOK
<1>3. work[w].act \in Actions /\ work[w].qty \in Nat \ {0}
  BY <1>1 DEF Sending
<1> QED
  BY <1>2, <1>3 DEF Request, Requests

(* The events on the bus stay of their types.                              *)
LEMMA BusTyped ==
    ASSUME TypeOK, Step
    PROVE  BusTypes'
<1> USE TypeGroups
<1>1. /\ bus \in Seq(Event) /\ upsets \in Nat /\ OcrTypes /\ BrokerTypes
      /\ account \in Int /\ BusTypes /\ orders \in Seq(Order)
  BY DEF BusTypes, BrokerTypes, TradeTypes
<1>2. ASSUME NEW w \in Workers, Ocr(w)
      PROVE  BusTypes'
  <2>1. CASE Publish(w)
    <3>1. Request(work[w]) \in Event
      BY <1>1, <2>1, RequestTyped DEF Publish, Event
    <3> QED
      BY <1>1, <2>1, <3>1, AppendProperties DEF Publish, BusTypes
  <2>2. CASE ~Publish(w)
    <3>1. bus' = bus /\ upsets' = upsets
      BY <1>2, <2>2 DEF Ocr, TakeSnapshot, Unchanged, ReadPosition, NoSignal, Suppress,
                        Decide, NoPrice
    <3> QED
      BY <1>1, <3>1 DEF BusTypes
  <2> QED
    BY <2>1, <2>2
<1>3. CASE RiskCheck
  <2>1. Head(bus) \in Requests /\ Tail(bus) \in Seq(Event)
    BY <1>1, <1>3, HeadFacts DEF RiskCheck, NextIs
  <2> DEFINE new == [Head(bus) EXCEPT !.type = "ValidatedOrderRequest"]
  <2>2. new \in Event
    BY <2>1 DEF Requests, Event
  <2>3. /\ bus' = Append(Tail(bus), new) \/ bus' = Tail(bus)
        /\ upsets' = upsets
    BY <1>3 DEF RiskCheck
  <2> HIDE DEF new
  <2>4. Append(Tail(bus), new) \in Seq(Event)
    BY <2>1, <2>2, AppendProperties
  <2> QED
    BY <1>1, <2>1, <2>3, <2>4 DEF BusTypes
<1>4. CASE BusThread /\ ~RiskCheck
  <2>1. bus' = bus \/ (bus # <<>> /\ bus' = Tail(bus))
    BY <1>4, Zenon
    DEF BusThread, Drop, SkipRequest, Admit, ForceTrade, ForceActive, Refuse,
        RefuseTwin, SendFails, Send, HandleFill, HandleQuantity, HandleFull, NextIs
  <2>2. upsets' = upsets \/ upsets' = upsets + 1
    BY <1>4
    DEF BusThread, Drop, SkipRequest, Admit, ForceTrade, ForceActive, Refuse,
        RefuseTwin, SendFails, Send, HandleFill, HandleQuantity, HandleFull
  <2>3. bus # <<>> => Tail(bus) \in Seq(Event)
    BY <1>1, HeadFacts
  <2>4. bus' \in Seq(Event)
    BY <1>1, <2>1, <2>3
  <2>5. upsets' \in Nat
    BY <1>1, <2>2
  <2> QED
    BY <2>4, <2>5 DEF BusTypes
<1>5. CASE PollThread \/ Tick
  <2>1. bus' = bus /\ upsets' = upsets
    BY <1>5 DEF PollThread, PollFetch, PollCompare, PollAgrees, PollSync, Tick
  <2> QED
    BY <1>1, <2>1 DEF BusTypes
<1>6. ASSUME NEW o \in DOMAIN live, NEW n \in 1 .. live[o], BrokerFills(o, n)
      PROVE  BusTypes'
  <2>1. orders[o] \in Order /\ n \in Nat
    BY <1>1, <1>6 DEF BrokerTypes
  <2>2. orders[o].side * n \in Int
    BY <2>1, SideFacts DEF Order
  <2>3. [type |-> "OrderFilled", change |-> orders[o].side * n] \in Event
    BY <2>2 DEF Event
  <2> QED
    BY <1>1, <1>6, <2>3, AppendProperties DEF BrokerFills, BusTypes
<1>9. ASSUME NEW o \in DOMAIN live, NEW n \in 1 .. live[o], BrokerFillsAsBuy(o, n)
      PROVE  BusTypes'
  <2>1. n \in Int
    OBVIOUS
  <2>2. [type |-> "OrderFilled", change |-> n] \in Event
    BY <2>1 DEF Event
  <2> QED
    BY <1>1, <1>9, <2>2, AppendProperties DEF BrokerFillsAsBuy, BusTypes
<1>7. ASSUME NEW type \in {"PositionQuantity", "FullPosition"}, BrokerPushes(type)
      PROVE  BusTypes'
  <2>1. [type |-> type, shares |-> account] \in Event
    BY <1>1 DEF Event
  <2> QED
    BY <1>1, <1>7, <2>1, AppendProperties DEF BrokerPushes, BusTypes
<1>8. ASSUME NEW o \in DOMAIN live,
             BrokerEnds(o) \/ \E n \in 1 .. live[o] : BrokerFillsUnpriced(o, n)
      PROVE  BusTypes'
  BY <1>1, <1>8 DEF BrokerEnds, BrokerFillsUnpriced, BusTypes
<1> QED
  BY <1>2, <1>3, <1>4, <1>5, <1>6, <1>7, <1>8, <1>9 DEF Step, Broker

(* Failing to open closes a pending trade and no other.                    *)
LEMMA FailedFacts ==
    ASSUME NEW ts \in Seq(Trade), NEW t \in 1 .. Len(ts)
    PROVE  /\ FailedToOpen(ts, t) \in Seq(Trade)
           /\ Len(FailedToOpen(ts, t)) = Len(ts)
           /\ ts[t].state = "OPEN_PENDING" => FailedToOpen(ts, t)[t].state = "CLOSED"
           /\ ts[t].state # "OPEN_PENDING" => FailedToOpen(ts, t) = ts
           /\ \A v \in 1 .. Len(ts) : v # t => FailedToOpen(ts, t)[v] = ts[v]
<1>1. CASE ts[t].state = "OPEN_PENDING"
  <2>1. FailedToOpen(ts, t) = WithState(ts, t, "CLOSED")
    BY <1>1 DEF FailedToOpen, WithState
  <2>2. /\ WithState(ts, t, "CLOSED") \in Seq(Trade)
        /\ Len(WithState(ts, t, "CLOSED")) = Len(ts)
        /\ WithState(ts, t, "CLOSED")[t].state = "CLOSED"
        /\ \A v \in 1 .. Len(ts) : v # t => WithState(ts, t, "CLOSED")[v] = ts[v]
    BY StateSet
  <2> QED
    BY <1>1, <2>1, <2>2, Zenon
<1>2. CASE ts[t].state # "OPEN_PENDING"
  BY <1>2 DEF FailedToOpen
<1> QED
  BY <1>1, <1>2

(* Setting a trade active.                                                 *)
LEMMA ActivatedFacts ==
    ASSUME NEW ts \in Seq(Trade), NEW t \in 1 .. Len(ts)
    PROVE  /\ Activated(ts, t) \in Seq(Trade)
           /\ Len(Activated(ts, t)) = Len(ts)
           /\ Activated(ts, t)[t].state = "OPEN_ACTIVE"
           /\ \A v \in 1 .. Len(ts) : v # t => Activated(ts, t)[v] = ts[v]
<1>1. Activated(ts, t) = WithState(ts, t, "OPEN_ACTIVE")
  BY DEF Activated, WithState
<1> QED
  BY <1>1, StateSet

(* What the bus thread has in hand while it executes.                      *)
LEMMA ExecutingFacts ==
    ASSUME TradeTypes, Executing
    PROVE  /\ handling.trade \in 1 .. Len(trades) /\ handling.req \in Requests
           /\ Fingerprint(handling.req) \in Actions \X Nat \X Int \X Nat
           /\ handling.req.qty \in Nat \ {0}
<1>1. handling.trade \in 1 .. Len(trades) /\ handling.req \in Requests
  BY DEF TradeTypes, Executing
<1> QED
  BY <1>1 DEF Requests, Fingerprint

(* An order recorded is added to the others.                               *)
LEMMA RecordedFacts ==
    ASSUME TradeTypes, Executing,
           NEW status \in {"PENDING_SUBMISSION", "CANCEL_REQUESTED"}, NEW sent \in BOOLEAN
    PROVE  /\ Recorded(status, sent) \in Seq(Order)
           /\ Len(Recorded(status, sent)) = Len(orders) + 1
           /\ DOMAIN Recorded(status, sent) = 1 .. Len(orders) + 1
           /\ \A o \in 1 .. Len(orders) : Recorded(status, sent)[o] = orders[o]
           /\ Recorded(status, sent)[Len(orders) + 1].trade = handling.trade
           /\ Recorded(status, sent)[Len(orders) + 1].sent = sent
<1> DEFINE new == [trade |-> handling.trade, side |-> Side(handling.req.act),
                   status |-> status, sent |-> sent]
<1>1. new \in Order /\ new.trade = handling.trade /\ new.sent = sent
  <2>1. handling.trade \in Nat \ {0}
    BY ExecutingFacts
  <2> QED
    BY <2>1, SideFacts DEF Order
<1>2. Recorded(status, sent) = Append(orders, new) /\ orders \in Seq(Order)
  BY DEF Recorded, TradeTypes
<1> HIDE DEF new
<1>3. /\ Recorded(status, sent) \in Seq(Order)
      /\ Len(Recorded(status, sent)) = Len(orders) + 1
      /\ \A o \in 1 .. Len(orders) : Recorded(status, sent)[o] = orders[o]
      /\ Recorded(status, sent)[Len(orders) + 1] = new
  BY <1>1, <1>2, AppendProperties
<1> QED
  BY <1>1, <1>3, LenProperties

LEMMA RecordedSide ==
    ASSUME TradeTypes, NEW status, NEW sent
    PROVE  Recorded(status, sent)[Len(orders) + 1].side = Side(handling.req.act)
<1> DEFINE new == [trade |-> handling.trade, side |-> Side(handling.req.act),
                   status |-> status, sent |-> sent]
<1>1. Recorded(status, sent) = Append(orders, new) /\ orders \in Seq(Order)
  BY DEF Recorded, TradeTypes
<1>2. new.side = Side(handling.req.act)
  OBVIOUS
<1> HIDE DEF new
<1>3. Append(orders, new)[Len(orders) + 1] = new
  BY <1>1
<1> QED
  BY <1>1, <1>2, <1>3

(* The trades after the executor has returned None.                        *)
LEMMA AfterNoneFacts ==
    ASSUME TradeTypes, Executing
    PROVE  /\ AfterNone \in Seq(Trade)
           /\ Len(AfterNone) = Len(trades)
           /\ \A v \in 1 .. Len(trades) :
                \/ AfterNone[v] = trades[v]
                \/ /\ v = handling.trade /\ handling.req.act = "OPEN_LONG"
                   /\ trades[v].state = "OPEN_PENDING" /\ AfterNone[v].state = "CLOSED"
<1>1. handling.trade \in 1 .. Len(trades) /\ trades \in Seq(Trade)
  BY ExecutingFacts DEF TradeTypes
<1>2. CASE handling.req.act = "OPEN_LONG"
  <2> DEFINE us == FailedToOpen(trades, handling.trade)
  <2>1. AfterNone = us
    BY <1>2 DEF AfterNone
  <2>2. /\ us \in Seq(Trade)
        /\ Len(us) = Len(trades)
        /\ trades[handling.trade].state = "OPEN_PENDING" => us[handling.trade].state = "CLOSED"
        /\ trades[handling.trade].state # "OPEN_PENDING" => us = trades
        /\ \A v \in 1 .. Len(trades) : v # handling.trade => us[v] = trades[v]
    BY <1>1, FailedFacts
  <2> HIDE DEF us
  <2> QED
    BY <1>2, <2>1, <2>2
<1>3. CASE handling.req.act # "OPEN_LONG"
  BY <1>1, <1>3 DEF AfterNone
<1> QED
  BY <1>2, <1>3

(* The steps that concern trades, or leave them, the orders and the        *)
(* request in hand alone.                                                  *)
TradeStep ==
    \/ Admit \/ ForceTrade \/ ForceActive \/ Refuse \/ RefuseTwin \/ SendFails \/ Send
    \/ HandleFull \/ PollCompare \/ PollSync

LEMMA OtherSteps ==
    ASSUME Step, ~TradeStep
    PROVE  UNCHANGED tradeVars
<1>1. ASSUME NEW w \in Workers, Ocr(w) PROVE UNCHANGED tradeVars
  BY <1>1 DEF Ocr, TakeSnapshot, Unchanged, ReadPosition, NoSignal, Suppress, Decide,
              NoPrice, Publish
<1>2. CASE BusThread
  BY <1>2, Zenon
  DEF BusThread, TradeStep, Drop, RiskCheck, SkipRequest, HandleFill, HandleQuantity, tradeVars
<1>3. CASE PollThread
  BY <1>3 DEF PollThread, TradeStep, PollFetch, PollAgrees
<1>4. CASE Broker \/ Tick
  BY <1>4
  DEF Broker, BrokerFills, BrokerFillsUnpriced, BrokerFillsAsBuy, BrokerEnds, BrokerPushes, Tick
<1> QED
  BY <1>1, <1>2, <1>3, <1>4 DEF Step

(* Adding a trade keeps the types.                                         *)
LEMMA GrownTyped ==
    ASSUME TradeTypes, Grown(trades, trades'), UNCHANGED <<handling, orders>>
    PROVE  TradeTypes'
BY LenProperties DEF TradeTypes, Grown

(* The request in hand: its trade is not closed, is pending while it is    *)
(* being forced, and if it opens one nothing has been sent for it.         *)
InHand ==
    handling # Idle =>
        /\ handling.forced => handling.trade # 0 /\ trades[handling.trade].state = "OPEN_PENDING"
        /\ handling.trade # 0 => trades[handling.trade].state # "CLOSED"
        /\ handling.req.act = "OPEN_LONG" =>
             /\ handling.trade # 0
             /\ \A o \in DOMAIN orders : orders[o].sent => orders[o].trade # handling.trade

LEMMA TradeTypesNext ==
    ASSUME handling' \in [req : Requests, forced : BOOLEAN, trade : 0 .. Len(trades')] \cup {Idle},
           trades' \in Seq(Trade), orders' \in Seq(Order),
           \A o \in 1 .. Len(orders') : orders'[o].trade \in 1 .. Len(trades')
    PROVE  TradeTypes'
BY LenProperties DEF TradeTypes

(* Trades, orders and the request in hand keep their types.                *)
LEMMA TradesTyped ==
    ASSUME TypeOK, InHand, Step
    PROVE  TradeTypes'
<1>1. TradeTypes /\ BusTypes /\ BookTypes
  BY TypeGroups
<1>2. /\ trades \in Seq(Trade) /\ orders \in Seq(Order)
      /\ DOMAIN trades = 1 .. Len(trades) /\ DOMAIN orders = 1 .. Len(orders)
      /\ Len(trades) \in Nat /\ Len(orders) \in Nat
      /\ \A o \in 1 .. Len(orders) : orders[o].trade \in 1 .. Len(trades)
  BY <1>1 DEF TradeTypes
<1>3. CASE HandleFull \/ PollCompare \/ PollSync
  <2>1. PICK n : trades' = CreatedOrSynced(trades, n)
    BY <1>3, Zenon DEF HandleFull, PollCompare, PollSync
  <2>2. UNCHANGED <<handling, orders>>
    BY <1>3 DEF HandleFull, PollCompare, PollSync, tradeVars
  <2>3. Grown(trades, trades')
    BY <1>2, <2>1, SyncedGrows
  <2> QED
    BY <1>1, <2>2, <2>3, GrownTyped
<1>4. CASE Admit
  <2>1. Head(bus) \in Requests
    BY <1>1, <1>4, HeadFacts DEF Admit, NextIs
  <2>2. FindActive(trades) \in 0 .. Len(trades)
    BY <1>2, FindActiveFound
  <2>3. /\ trades' \in Seq(Trade)
        /\ \/ Len(trades') = Len(trades) + 1 /\ handling'.trade = Len(trades) + 1
           \/ Len(trades') = Len(trades) /\ handling'.trade = FindActive(trades)
        /\ handling' = [req |-> Head(bus), forced |-> FALSE, trade |-> handling'.trade]
    <3>1. CASE Head(bus).act = "OPEN_LONG"
      <4>1. /\ trades' = Created(trades, "OPEN_PENDING")
            /\ handling' = [req |-> Head(bus), forced |-> FALSE, trade |-> Len(trades) + 1]
        BY <1>4, <3>1 DEF Admit
      <4> QED
        BY <1>2, <4>1, CreatedGrows DEF Grown
    <3>2. CASE Head(bus).act # "OPEN_LONG"
      <4>1. /\ trades' = trades
            /\ handling' = [req |-> Head(bus), forced |-> FALSE, trade |-> FindActive(trades)]
        BY <1>4, <3>2 DEF Admit
      <4> QED
        BY <1>2, <4>1
    <3> QED
      BY <3>1, <3>2
  <2>4. orders' = orders
    BY <1>4 DEF Admit
  <2>5. handling'.trade \in 0 .. Len(trades') /\ 1 .. Len(trades) \subseteq 1 .. Len(trades')
    BY <1>2, <2>2, <2>3
  <2>6. handling' \in [req : Requests, forced : BOOLEAN, trade : 0 .. Len(trades')]
    <3> DEFINE t == handling'.trade
    <3>1. handling' = [req |-> Head(bus), forced |-> FALSE, trade |-> t] /\ t \in 0 .. Len(trades')
      BY <2>3, <2>5
    <3> HIDE DEF t
    <3> QED
      BY <2>1, <3>1
  <2>7. \A o \in 1 .. Len(orders') : orders'[o].trade \in 1 .. Len(trades')
    BY <1>2, <2>4, <2>5
  <2> QED
    BY <1>2, <2>3, <2>4, <2>6, <2>7, TradeTypesNext
<1>5. CASE ForceTrade
  <2>1. /\ trades' = Created(trades, "OPEN_PENDING")
        /\ handling \in [req : Requests, forced : BOOLEAN, trade : 0 .. Len(trades)]
        /\ handling' = [handling EXCEPT !.trade = Len(trades) + 1, !.forced = TRUE]
        /\ orders' = orders
    BY <1>1, <1>5 DEF ForceTrade, TradeTypes
  <2>2. trades' \in Seq(Trade) /\ Len(trades') = Len(trades) + 1
    BY <1>2, <2>1, CreatedGrows DEF Grown
  <2>3. Len(trades) + 1 \in 0 .. Len(trades') /\ 1 .. Len(trades) \subseteq 1 .. Len(trades')
    BY <1>2, <2>2
  <2>4. handling' \in [req : Requests, forced : BOOLEAN, trade : 0 .. Len(trades')]
    BY <2>1, <2>3
  <2>5. \A o \in 1 .. Len(orders') : orders'[o].trade \in 1 .. Len(trades')
    BY <1>2, <2>1, <2>3
  <2> QED
    BY <1>2, <2>1, <2>2, <2>4, <2>5, TradeTypesNext
<1>6. CASE ForceActive
  <2>1. /\ trades' = Activated(trades, handling.trade)
        /\ handling \in [req : Requests, forced : BOOLEAN, trade : 0 .. Len(trades)]
        /\ handling' = [handling EXCEPT !.forced = FALSE]
        /\ orders' = orders
        /\ handling.trade # 0
    BY <1>1, <1>6 DEF ForceActive, TradeTypes, InHand
  <2>2. trades' \in Seq(Trade) /\ Len(trades') = Len(trades)
    BY <1>2, <2>1, ActivatedFacts
  <2>3. /\ handling' \in [req : Requests, forced : BOOLEAN, trade : 0 .. Len(trades')]
        /\ \A o \in 1 .. Len(orders') : orders'[o].trade \in 1 .. Len(trades')
    BY <1>2, <2>1, <2>2
  <2> QED
    BY <1>2, <2>1, <2>2, <2>3, TradeTypesNext
<1>7. CASE Refuse \/ RefuseTwin \/ SendFails
  <2>1. /\ Executing /\ trades' = AfterNone /\ handling' = Idle
        /\ \/ orders' = orders
           \/ \E status \in {"PENDING_SUBMISSION", "CANCEL_REQUESTED"} :
                orders' = Recorded(status, FALSE)
    BY <1>7 DEF Refuse, RefuseTwin, SendFails
  <2>2. trades' \in Seq(Trade) /\ Len(trades') = Len(trades)
    BY <1>1, <2>1, AfterNoneFacts
  <2>3. /\ handling.trade \in 1 .. Len(trades)
        /\ orders' \in Seq(Order)
        /\ \/ orders' = orders
           \/ /\ Len(orders') = Len(orders) + 1
              /\ \A o \in 1 .. Len(orders) : orders'[o] = orders[o]
              /\ orders'[Len(orders) + 1].trade = handling.trade
    BY <1>1, <1>2, <2>1, ExecutingFacts, RecordedFacts
  <2>4. \A o \in 1 .. Len(orders') : orders'[o].trade \in 1 .. Len(trades')
    BY <1>2, <2>2, <2>3
  <2> QED
    BY <2>1, <2>2, <2>3, <2>4, TradeTypesNext
<1>8. CASE Send
  <2>1. /\ Executing /\ handling' = Idle
        /\ trades' = Submitted(trades, handling.trade, Len(orders) + 1)
        /\ orders' = Recorded("PENDING_SUBMISSION", TRUE)
    BY <1>8 DEF Send
  <2>2. handling.trade \in 1 .. Len(trades)
    BY <1>1, <2>1, ExecutingFacts
  <2>3. trades' \in Seq(Trade) /\ Len(trades') = Len(trades)
    BY <1>2, <2>1, <2>2, SubmittedGrows DEF Grown
  <2>4. /\ orders' \in Seq(Order)
        /\ Len(orders') = Len(orders) + 1
        /\ \A o \in 1 .. Len(orders) : orders'[o] = orders[o]
        /\ orders'[Len(orders) + 1].trade = handling.trade
    BY <1>1, <2>1, RecordedFacts
  <2>5. \A o \in 1 .. Len(orders') : orders'[o].trade \in 1 .. Len(trades')
    BY <1>2, <2>2, <2>3, <2>4
  <2> QED
    BY <2>1, <2>3, <2>4, <2>5, TradeTypesNext
<1>9. CASE ~TradeStep
  BY <1>1, <1>9, OtherSteps DEF tradeVars, TradeTypes
<1> QED
  BY <1>3, <1>4, <1>5, <1>6, <1>7, <1>8, <1>9 DEF TradeStep

(* Orders are only ever added.                                             *)
LEMMA OrdersStay ==
    ASSUME TypeOK, Step
    PROVE  \A o \in DOMAIN orders : o \in DOMAIN orders' /\ orders'[o] = orders[o]
<1>1. TradeTypes /\ orders \in Seq(Order) /\ DOMAIN orders = 1 .. Len(orders) /\ Len(orders) \in Nat
  BY TypeGroups DEF TradeTypes
<1>2. CASE orders' = orders
  BY <1>2
<1>3. CASE orders' # orders
  <2>1. /\ Executing
        /\ \E status \in {"PENDING_SUBMISSION", "CANCEL_REQUESTED"}, sent \in BOOLEAN :
             orders' = Recorded(status, sent)
    <3>1. RefuseTwin \/ SendFails \/ Send
      BY <1>3, OtherSteps DEF TradeStep, tradeVars, Admit, ForceTrade, ForceActive, Refuse,
                              HandleFull, PollCompare, PollSync
    <3> QED
      BY <3>1 DEF RefuseTwin, SendFails, Send
  <2> QED
    BY <1>1, <2>1, RecordedFacts, LenProperties
<1> QED
  BY <1>2, <1>3

(* What an execution leaves of the order.                                  *)
LEMMA ExecutedTyped ==
    ASSUME BrokerTypes, TradeTypes, UNCHANGED orders, NEW o \in DOMAIN live,
           NEW n \in 1 .. live[o], Executed(o, n)
    PROVE  BrokerTypes'
<1>1. /\ live[o] \in Nat /\ n \in Nat /\ orders[o].side \in {-1, 1}
      /\ account \in Int
  <2>1. o \in DOMAIN orders /\ orders \in Seq(Order) /\ live[o] \in Nat
    BY DEF BrokerTypes, TradeTypes
  <2>2. orders[o] \in Order
    BY <2>1
  <2> QED
    BY <2>1, <2>2 DEF BrokerTypes, Order
<1>2. account' \in Int
  BY <1>1, SideFacts DEF Executed
<1>3. live' \in [DOMAIN live' -> Nat \ {0}] /\ DOMAIN live' \subseteq DOMAIN live
  <2>1. CASE n = live[o]
    <3>1. live' = Without(o)
      BY <2>1 DEF Executed
    <3> QED
      BY <3>1 DEF Without, BrokerTypes
  <2>2. CASE n # live[o]
    <3>1. live' = [live EXCEPT ![o] = live[o] - n] /\ live[o] - n \in Nat \ {0}
      BY <1>1, <2>2 DEF Executed
    <3> QED
      BY <3>1 DEF BrokerTypes
  <2> QED
    BY <2>1, <2>2
<1> QED
  BY <1>2, <1>3 DEF BrokerTypes

(* The orders at the broker, and the account, keep their types.            *)
LEMMA BrokerTyped ==
    ASSUME TypeOK, Step
    PROVE  BrokerTypes'
<1>1. BrokerTypes /\ TradeTypes
  BY TypeGroups
<1>2. CASE UNCHANGED brokerVars
  BY <1>1, <1>2, OrdersStay DEF BrokerTypes, brokerVars
<1>3. CASE Send
  <2> DEFINE id == Len(orders) + 1
             q == handling.req.qty
  <2>1. /\ live' = [o \in DOMAIN live \cup {id} |-> IF o = id THEN q ELSE live[o]]
        /\ account' = account
        /\ Executing
        /\ orders' = Recorded("PENDING_SUBMISSION", TRUE)
    BY <1>3 DEF Send
  <2>2. /\ q \in Nat \ {0}
        /\ orders' \in Seq(Order) /\ Len(orders') = id
        /\ orders'[id].sent = TRUE
    BY <1>1, <2>1, ExecutingFacts, RecordedFacts
  <2>3. id \in DOMAIN orders'
    BY <1>1, <2>2, LenProperties DEF TradeTypes
  <2> HIDE DEF id, q
  <2>4. live' \in [DOMAIN live' -> Nat \ {0}] /\ DOMAIN live' = DOMAIN live \cup {id}
    BY <1>1, <2>1, <2>2 DEF BrokerTypes
  <2> QED
    BY <1>1, <2>1, <2>2, <2>3, <2>4, OrdersStay DEF BrokerTypes
<1>4. ASSUME NEW o \in DOMAIN live, NEW n \in 1 .. live[o],
             BrokerFills(o, n) \/ BrokerFillsUnpriced(o, n) \/ BrokerFillsAsBuy(o, n)
      PROVE  BrokerTypes'
  <2>1. Executed(o, n) /\ UNCHANGED orders
    BY <1>4 DEF BrokerFills, BrokerFillsUnpriced, BrokerFillsAsBuy, tradeVars
  <2> QED
    BY <1>1, <2>1, ExecutedTyped
<1>5. ASSUME NEW o \in DOMAIN live, BrokerEnds(o)
      PROVE  BrokerTypes'
  <2>1. live' = [p \in DOMAIN live \ {o} |-> live[p]] /\ account' = account /\ orders' = orders
    BY <1>5 DEF BrokerEnds, Without, tradeVars
  <2> QED
    BY <1>1, <2>1 DEF BrokerTypes
<1>6. ASSUME NEW type \in {"PositionQuantity", "FullPosition"}, BrokerPushes(type)
      PROVE  UNCHANGED brokerVars
  BY <1>6 DEF BrokerPushes
<1>7. ASSUME NEW w \in Workers, Ocr(w) PROVE UNCHANGED brokerVars
  BY <1>7 DEF Ocr, TakeSnapshot, Unchanged, ReadPosition, NoSignal, Suppress, Decide,
              NoPrice, Publish
<1>8. ASSUME BusThread, ~Send PROVE UNCHANGED brokerVars
  BY <1>8, Zenon
  DEF BusThread, Drop, RiskCheck, SkipRequest, Admit, ForceTrade, ForceActive, Refuse,
      RefuseTwin, SendFails, HandleFill, HandleQuantity, HandleFull, brokerVars
<1>9. ASSUME PollThread \/ Tick PROVE UNCHANGED brokerVars
  BY <1>9 DEF PollThread, PollFetch, PollCompare, PollAgrees, PollSync, Tick
<1> QED
  BY <1>2, <1>3, <1>4, <1>5, <1>6, <1>7, <1>8, <1>9 DEF Step, Broker

(* The operations on a position, and the strategy that goes with it.       *)
Right(p) == p \in Position /\ p.strategy = StrategyOf(p.shares)

LEMMA PositionFacts ==
    ASSUME NEW p, Right(p), NEW n \in Int
    PROVE  /\ Right(Filled(p, n)) /\ Right(Pushed(p, n)) /\ Right(Synced(p, n))
           /\ \A fp \in Actions \X Nat \X Int \X Nat : Right(Fingerprinted(p, fp))
<1>1. \A m \in Int : StrategyOf(m) \in Strategies
  BY DEF StrategyOf, Strategies
<1>2. ASSUME NEW m \in Int
      PROVE  Right(Holding(p, m)) /\ [Holding(p, m) EXCEPT !.fingerprint = NoFingerprint] \in Position
             /\ Right([Holding(p, m) EXCEPT !.fingerprint = NoFingerprint])
  <2>1. StrategyOf(m) \in Strategies
    BY <1>1
  <2> DEFINE s == StrategyOf(m)
  <2>2. [p EXCEPT !.shares = m, !.strategy = s] \in Position
    BY <2>1 DEF Right, Position
  <2>3. Holding(p, m) = [p EXCEPT !.shares = m, !.strategy = s]
    BY DEF Holding
  <2> HIDE DEF s
  <2>4. Holding(p, m).shares = m /\ Holding(p, m).strategy = s /\ Holding(p, m) \in Position
    BY <2>2, <2>3 DEF Right, Position
  <2> QED
    BY <2>4 DEF Right, Position, s
<1>3. p.shares + n \in Int
  BY DEF Right, Position
<1>4. \A fp \in Actions \X Nat \X Int \X Nat : Right(Fingerprinted(p, fp))
  BY DEF Right, Position, Fingerprinted
<1>5. Right(Filled(p, n))
  BY <1>2, <1>3 DEF Filled
<1>6. Right(Pushed(p, n))
  BY <1>2 DEF Pushed
<1>7. Right(Synced(p, n))
  BY <1>2 DEF Synced
<1> QED
  BY <1>4, <1>5, <1>6, <1>7

(* The position and the poll thread keep their types.                      *)
LEMMA BookTyped ==
    ASSUME TypeOK, Step
    PROVE  BookTypes'
<1>1. /\ BookTypes /\ BusTypes /\ TradeTypes /\ account \in Int /\ OcrTypes
      /\ Right(pos)
  BY TypeGroups DEF BookTypes, BrokerTypes, Right
<1>2. FillsOn(bus) \in Int
  <2>1. bus \in Seq(Event) /\ DOMAIN bus = 1 .. Len(bus) /\ Len(bus) \in Int
    BY <1>1 DEF BusTypes
  <2>2. IsFiniteSet(1 .. Len(bus))
    BY <2>1, FS_Interval
  <2>3. IsFiniteSet({i \in DOMAIN bus : bus[i].type = "OrderFilled"})
    BY <2>1, <2>2, FS_Subset
  <2> QED
    BY <2>3, FS_CardinalityType DEF FillsOn
<1> DEFINE Polls == [shares : Int, syncing : BOOLEAN, ahead : Int] \cup {Idle, Off}
<1>3. PollSeesFill \in Polls /\ PollMissesFill \in Polls /\ poll \in Polls
  BY <1>1 DEF BookTypes, PollSeesFill, PollMissesFill, Polling
<1>4. ASSUME Right(pos'), poll' \in Polls, exact' \in BOOLEAN, overlap' \in BOOLEAN
      PROVE  BookTypes'
  BY <1>4 DEF BookTypes, Right
<1>5. exact \in BOOLEAN /\ overlap \in BOOLEAN
  BY <1>1 DEF BookTypes
<1> HIDE DEF Polls
<1>6. ASSUME UNCHANGED <<bookVars, exact>>, overlap' \in BOOLEAN
      PROVE  BookTypes'
  BY <1>1, <1>3, <1>4, <1>5, <1>6 DEF bookVars
<1>7. ASSUME NEW w \in Workers, Ocr(w) PROVE BookTypes'
  <2>1. UNCHANGED <<bookVars, exact>>
    BY <1>7 DEF Ocr, TakeSnapshot, Unchanged, ReadPosition, NoSignal, Suppress, Decide,
                NoPrice, Publish, history
  <2>2. overlap' \in BOOLEAN
    <3>1. CASE Decide(w)
      BY <3>1, <1>5 DEF Decide, SaleUnderWay
    <3>2. CASE ~Decide(w)
      BY <1>5, <1>7, <3>2
      DEF Ocr, TakeSnapshot, Unchanged, ReadPosition, NoSignal, Suppress, NoPrice, Publish,
          history
    <3> QED
      BY <3>1, <3>2
  <2> QED
    BY <1>6, <2>1, <2>2
<1>8. CASE Drop
  BY <1>1, <1>3, <1>4, <1>5, <1>8 DEF Drop
<1>9. CASE Send
  <2>1. Fingerprint(handling.req) \in Actions \X Nat \X Int \X Nat
    BY <1>1, <1>9, ExecutingFacts DEF Send
  <2>2. Right(pos')
    BY <1>1, <1>9, <2>1, PositionFacts DEF Send
  <2> QED
    BY <1>3, <1>4, <1>5, <1>9, <2>2 DEF Send, history
<1>10. CASE HandleFill
  <2>1. Head(bus).change \in Int
    BY <1>1, <1>10, HeadFacts DEF HandleFill, NextIs
  <2>2. Right(pos')
    BY <1>1, <1>10, <2>1, PositionFacts DEF HandleFill
  <2> QED
    BY <1>3, <1>4, <1>5, <1>10, <2>2 DEF HandleFill, history
<1>11. CASE HandleQuantity \/ HandleFull
  <2>1. Head(bus).shares \in Int
    BY <1>1, <1>11, HeadFacts DEF HandleQuantity, HandleFull, NextIs
  <2>2. Right(pos')
    BY <1>1, <1>11, <2>1, PositionFacts DEF HandleQuantity, HandleFull
  <2> QED
    BY <1>3, <1>4, <1>5, <1>11, <2>2 DEF HandleQuantity, HandleFull, history
<1>12. ASSUME BusThread, ~Drop, ~Send, ~HandleFill, ~HandleQuantity, ~HandleFull
       PROVE  BookTypes'
  <2>1. UNCHANGED <<bookVars, exact, overlap>>
    BY <1>12, Zenon
    DEF BusThread, RiskCheck, SkipRequest, Admit, ForceTrade, ForceActive, Refuse,
        RefuseTwin, SendFails, bookVars, history
  <2> QED
    BY <1>5, <1>6, <2>1
<1>13. CASE PollFetch
  <2>1. poll' \in Polls
    BY <1>1, <1>2, <1>13 DEF PollFetch, Polls
  <2> QED
    BY <1>1, <1>4, <1>5, <1>13, <2>1 DEF PollFetch, history
<1>14. CASE PollCompare
  <2>1. poll' \in Polls
    BY <1>3, <1>14 DEF PollCompare, Polling, Polls
  <2> QED
    BY <1>1, <1>4, <1>5, <1>14, <2>1 DEF PollCompare, history
<1>15. CASE PollAgrees
  BY <1>1, <1>4, <1>5, <1>15 DEF PollAgrees, PushesOn, Polls
<1>16. CASE PollSync
  <2>1. poll.shares \in Int
    BY <1>3, <1>16 DEF PollSync, Polling, Polls
  <2>2. Right(pos')
    BY <1>1, <1>16, <2>1, PositionFacts DEF PollSync
  <2> QED
    BY <1>4, <1>5, <1>16, <2>2 DEF PollSync, PushesOn, Polls
<1>17. ASSUME NEW o \in DOMAIN live, NEW n \in 1 .. live[o],
              BrokerFillsUnpriced(o, n) \/ BrokerFillsAsBuy(o, n)
       PROVE  BookTypes'
  BY <1>1, <1>3, <1>4, <1>5, <1>17 DEF BrokerFillsUnpriced, BrokerFillsAsBuy
<1>18. ASSUME NEW o \in DOMAIN live,
              BrokerEnds(o) \/ \E n \in 1 .. live[o] : BrokerFills(o, n)
       PROVE  BookTypes'
  <2>1. UNCHANGED <<bookVars, exact, overlap>>
    BY <1>18 DEF BrokerEnds, BrokerFills, history
  <2> QED
    BY <1>5, <1>6, <2>1
<1>19. ASSUME NEW type, BrokerPushes(type) \/ Tick
       PROVE  BookTypes'
  <2>1. UNCHANGED <<bookVars, exact, overlap>>
    BY <1>19 DEF BrokerPushes, Tick, history
  <2> QED
    BY <1>5, <1>6, <2>1
<1> QED
  BY <1>7, <1>8, <1>9, <1>10, <1>11, <1>12, <1>13, <1>14, <1>15, <1>16, <1>17, <1>18, <1>19
  DEF Step, BusThread, PollThread, Broker

(* The other steps leave what the workers have in hand.                    *)
LEMMA OcrStays ==
    ASSUME TypeOK, Step, \A w \in Workers : ~Ocr(w)
    PROVE  UNCHANGED ocrVars /\ clock' \in Nat /\ clock <= clock'
<1>1. clock \in Nat
  BY TypeGroups DEF OcrTypes, FilterTypeOK
<1>2. ASSUME BusThread PROVE UNCHANGED <<clock, ocrVars>>
  BY <1>2, Zenon
  DEF BusThread, Drop, RiskCheck, SkipRequest, Admit, ForceTrade, ForceActive, Refuse,
      RefuseTwin, SendFails, Send, HandleFill, HandleQuantity, HandleFull
<1>3. ASSUME PollThread PROVE UNCHANGED <<clock, ocrVars>>
  BY <1>3, Zenon DEF PollThread, PollFetch, PollCompare, PollAgrees, PollSync
<1>4. ASSUME Broker PROVE UNCHANGED <<clock, ocrVars>>
  BY <1>4, Zenon
  DEF Broker, BrokerFills, BrokerFillsUnpriced, BrokerFillsAsBuy, BrokerEnds, BrokerPushes
<1>5. ASSUME Tick PROVE UNCHANGED ocrVars /\ clock' = clock + 1
  BY <1>5 DEF Tick
<1>6. UNCHANGED ocrVars /\ clock' \in {clock, clock + 1}
  BY <1>2, <1>3, <1>4, <1>5 DEF Step
<1> QED
  BY <1>1, <1>6

-----------------------------------------------------------------------------
(* The trades behind the orders sent.                                      *)

LEMMA TradeFacts ==
    ASSUME TypeOK
    PROVE  /\ TradeTypes /\ BusTypes
           /\ trades \in Seq(Trade) /\ orders \in Seq(Order)
           /\ DOMAIN trades = 1 .. Len(trades) /\ DOMAIN orders = 1 .. Len(orders)
           /\ Len(trades) \in Nat /\ Len(orders) \in Nat
           /\ \A o \in 1 .. Len(orders) : orders[o].trade \in 1 .. Len(trades)
           /\ handling # Idle => handling.trade \in 0 .. Len(trades)
BY TypeGroups DEF TradeTypes

(* Adding a trade disturbs neither.                                        *)
LEMMA GrownKeeps ==
    ASSUME TypeOK, InHand, FailedNeverSent, Grown(trades, trades'),
           UNCHANGED <<handling, orders>>
    PROVE  InHand' /\ FailedNeverSent'
<1>1. \A t \in 1 .. Len(trades) : trades'[t].state = trades[t].state
  BY DEF Grown
<1>2. \A o \in DOMAIN orders : orders[o].trade \in 1 .. Len(trades)
  BY TradeFacts
<1>3. FailedNeverSent'
  BY <1>1, <1>2 DEF FailedNeverSent
<1>4. handling # Idle /\ handling.trade # 0 => handling.trade \in 1 .. Len(trades)
  BY TradeFacts
<1>5. InHand'
  BY <1>1, <1>4 DEF InHand
<1> QED
  BY <1>3, <1>5

(* A step keeps the trade in hand as it must be, and no order that was     *)
(* sent belongs to a closed trade after it.                                *)
LEMMA TradesKept ==
    ASSUME TypeOK, InHand, FailedNeverSent, Step
    PROVE  InHand' /\ FailedNeverSent'
<1>1. /\ TradeTypes /\ BusTypes
      /\ trades \in Seq(Trade) /\ orders \in Seq(Order)
      /\ DOMAIN orders = 1 .. Len(orders)
      /\ Len(trades) \in Nat /\ Len(orders) \in Nat
      /\ \A o \in 1 .. Len(orders) : orders[o].trade \in 1 .. Len(trades)
      /\ handling # Idle => handling.trade \in 0 .. Len(trades)
  BY TradeFacts
<1>2. CASE HandleFull \/ PollCompare \/ PollSync
  <2>1. PICK n : trades' = CreatedOrSynced(trades, n)
    BY <1>2, Zenon DEF HandleFull, PollCompare, PollSync
  <2>2. UNCHANGED <<handling, orders>>
    BY <1>2 DEF HandleFull, PollCompare, PollSync, tradeVars
  <2>3. Grown(trades, trades')
    BY <1>1, <2>1, SyncedGrows
  <2> QED
    BY <2>2, <2>3, GrownKeeps
<1>3. CASE Admit
  <2>1. CASE Head(bus).act = "OPEN_LONG"
    <3>1. /\ trades' = Created(trades, "OPEN_PENDING") /\ orders' = orders
          /\ handling' = [req |-> Head(bus), forced |-> FALSE, trade |-> Len(trades) + 1]
      BY <1>3, <2>1 DEF Admit
    <3>2. /\ \A t \in 1 .. Len(trades) : trades'[t].state = trades[t].state
          /\ trades'[Len(trades) + 1].state = "OPEN_PENDING"
      BY <1>1, <3>1, CreatedGrows DEF Grown
    <3>3. FailedNeverSent'
      BY <1>1, <3>1, <3>2 DEF FailedNeverSent
    <3>4. InHand'
      BY <1>1, <3>1, <3>2 DEF InHand
    <3> QED
      BY <3>3, <3>4
  <2>2. CASE Head(bus).act # "OPEN_LONG"
    <3>1. /\ trades' = trades /\ orders' = orders
          /\ handling' = [req |-> Head(bus), forced |-> FALSE, trade |-> FindActive(trades)]
      BY <1>3, <2>2 DEF Admit
    <3>2. FindActive(trades) # 0 => trades[FindActive(trades)].state # "CLOSED"
      BY <1>1, FindActiveFound DEF Unclosed
    <3> QED
      BY <2>2, <3>1, <3>2 DEF InHand, FailedNeverSent
  <2> QED
    BY <2>1, <2>2
<1>4. CASE ForceTrade
  <2>1. /\ trades' = Created(trades, "OPEN_PENDING") /\ orders' = orders
        /\ handling # Idle /\ handling.trade = 0
        /\ handling' = [handling EXCEPT !.trade = Len(trades) + 1, !.forced = TRUE]
        /\ handling \in [req : Requests, forced : BOOLEAN, trade : 0 .. Len(trades)]
    BY <1>1, <1>4 DEF ForceTrade, TradeTypes
  <2>2. /\ \A t \in 1 .. Len(trades) : trades'[t].state = trades[t].state
        /\ trades'[Len(trades) + 1].state = "OPEN_PENDING"
    BY <1>1, <2>1, CreatedGrows DEF Grown
  <2>3. FailedNeverSent'
    BY <1>1, <2>1, <2>2 DEF FailedNeverSent
  <2>4. /\ handling'.trade = Len(trades) + 1 /\ handling'.req = handling.req
        /\ handling.req.act # "OPEN_LONG"
    BY <2>1 DEF InHand
  <2> QED
    BY <1>1, <2>2, <2>3, <2>4 DEF InHand
<1>5. CASE ForceActive
  <2>1. /\ trades' = Activated(trades, handling.trade) /\ orders' = orders
        /\ handling # Idle /\ handling.forced
        /\ handling' = [handling EXCEPT !.forced = FALSE]
        /\ handling \in [req : Requests, forced : BOOLEAN, trade : 0 .. Len(trades)]
    BY <1>1, <1>5 DEF ForceActive, TradeTypes
  <2>2. handling.trade \in 1 .. Len(trades)
    BY <1>1, <2>1 DEF InHand
  <2>3. \A t \in 1 .. Len(trades) : trades'[t].state = "CLOSED" => trades[t].state = "CLOSED"
    BY <1>1, <2>1, <2>2, ActivatedFacts
  <2>4. FailedNeverSent'
    BY <1>1, <2>1, <2>3 DEF FailedNeverSent
  <2>5. handling'.trade = handling.trade /\ handling'.req = handling.req /\ ~handling'.forced
    BY <2>1
  <2> QED
    BY <2>1, <2>2, <2>3, <2>4, <2>5 DEF InHand
<1>6. CASE Refuse \/ RefuseTwin \/ SendFails
  <2>1. /\ Executing /\ trades' = AfterNone /\ handling' = Idle
        /\ \/ orders' = orders
           \/ \E status \in {"PENDING_SUBMISSION", "CANCEL_REQUESTED"} :
                orders' = Recorded(status, FALSE)
    BY <1>6 DEF Refuse, RefuseTwin, SendFails
  <2>2. \A t \in 1 .. Len(trades) :
          \/ trades'[t] = trades[t]
          \/ t = handling.trade /\ handling.req.act = "OPEN_LONG"
    BY <1>1, <2>1, AfterNoneFacts
  <2>3. \A o \in DOMAIN orders' :
          orders'[o].sent => o \in DOMAIN orders /\ orders'[o] = orders[o]
    <3>1. CASE orders' = orders
      BY <3>1
    <3>2. ASSUME NEW status \in {"PENDING_SUBMISSION", "CANCEL_REQUESTED"},
                 orders' = Recorded(status, FALSE)
          PROVE  \A o \in 1 .. Len(orders) + 1 :
                   orders'[o].sent => o \in DOMAIN orders /\ orders'[o] = orders[o]
      <4>1. /\ \A o \in 1 .. Len(orders) : orders'[o] = orders[o]
            /\ orders'[Len(orders) + 1].sent = FALSE
        BY <1>1, <2>1, <3>2, RecordedFacts
      <4> QED
        BY <1>1, <4>1
    <3>3. \A status \in {"PENDING_SUBMISSION", "CANCEL_REQUESTED"} :
            orders' = Recorded(status, FALSE) => DOMAIN orders' = 1 .. Len(orders) + 1
      BY <1>1, <2>1, RecordedFacts
    <3> QED
      BY <2>1, <3>1, <3>2, <3>3
  <2>4. \A o \in DOMAIN orders :
          orders[o].sent => trades'[orders[o].trade] = trades[orders[o].trade]
    BY <1>1, <2>1, <2>2 DEF InHand, Executing
  <2> QED
    BY <2>1, <2>3, <2>4 DEF InHand, FailedNeverSent
<1>7. CASE Send
  <2>1. /\ Executing /\ handling' = Idle
        /\ trades' = Submitted(trades, handling.trade, Len(orders) + 1)
        /\ orders' = Recorded("PENDING_SUBMISSION", TRUE)
    BY <1>7 DEF Send
  <2>2. handling.trade \in 1 .. Len(trades) /\ trades[handling.trade].state # "CLOSED"
    BY <1>1, <2>1, ExecutingFacts DEF InHand, Executing
  <2>3. \A t \in 1 .. Len(trades) : trades'[t].state = trades[t].state
    BY <1>1, <2>1, <2>2, SubmittedGrows DEF Grown
  <2>4. \A o \in DOMAIN orders' :
          \/ o \in DOMAIN orders /\ orders'[o] = orders[o]
          \/ orders'[o].trade = handling.trade
    <3>1. /\ DOMAIN orders' = 1 .. Len(orders) + 1
          /\ \A o \in 1 .. Len(orders) : orders'[o] = orders[o]
          /\ orders'[Len(orders) + 1].trade = handling.trade
      BY <1>1, <2>1, RecordedFacts
    <3>2. SUFFICES ASSUME NEW o \in 1 .. Len(orders) + 1
                   PROVE  \/ o \in DOMAIN orders /\ orders'[o] = orders[o]
                          \/ orders'[o].trade = handling.trade
      BY <3>1
    <3>3. Len(orders) \in Nat /\ DOMAIN orders = 1 .. Len(orders)
      BY <1>1
    <3>4. CASE o = Len(orders) + 1
      BY <3>1, <3>4
    <3>5. CASE o \in 1 .. Len(orders)
      BY <3>1, <3>3, <3>5
    <3> QED
      BY <3>2, <3>3, <3>4, <3>5
  <2>5. InHand'
    BY <2>1 DEF InHand
  <2>6. FailedNeverSent'
    BY <1>1, <2>2, <2>3, <2>4 DEF FailedNeverSent
  <2> QED
    BY <2>5, <2>6
<1>8. CASE ~TradeStep
  BY <1>8, OtherSteps DEF tradeVars, InHand, FailedNeverSent
<1> QED
  BY <1>2, <1>3, <1>4, <1>5, <1>6, <1>7, <1>8 DEF TradeStep

-----------------------------------------------------------------------------
(* The spacing of the orders.  As long as no ADD is being sent, the ADD the *)
(* next one is spaced from is the one the symbol settles after; the one     *)
(* being sent has passed the filter, and is far enough from it.  REDUCEs    *)
(* likewise.                                                                *)

Sends(w, act) == At(w, "sending") /\ work[w].act = act

AddApart(cost) ==
    \/ lastAdd = None
    \/ clock - lastAdd.at >= CostSettle
    \/ Abs(cost - lastAdd.base) >= CostOverride

AddRemembered ==
    lastAdd = None \/ addSettling = [end |-> lastAdd.at + CostSettle, base |-> lastAdd.base]

AddSpacing ==
    /\ (\A w \in Workers : ~Sends(w, "ADD_LONG")) => AddRemembered
    /\ \A w \in Workers : Sends(w, "ADD_LONG") => AddApart(work[w].snap.cost)

ReduceApart(pnl) ==
    \/ lastReduce = None
    \/ clock - lastReduce.at >= PnlSettle
    \/ pnl - lastReduce.base >= PnlOverride
    \/ pnl - lastReduce.base >= ReduceDelta

ReduceRemembered ==
    \/ lastReduce = None
    \/ reduceSettling = [end |-> lastReduce.at + PnlSettle, base |-> lastReduce.base]

ReduceSpacing ==
    /\ (\A w \in Workers : ~Sends(w, "REDUCE_PARTIAL")) => ReduceRemembered
    /\ \A w \in Workers : Sends(w, "REDUCE_PARTIAL") => ReduceApart(work[w].snap.pnl)

(* Who is past the lock is alone there.                                    *)
LEMMA Alone ==
    ASSUME OnePastLock, NEW w \in Workers, At(w, "reading") \/ At(w, "sending"),
           NEW v \in Workers, v # w, NEW act
    PROVE  ~Sends(v, act)
BY DEF OnePastLock, At, Sends

(* A signal that passes the filter is far enough from the last request.    *)
LEMMA PassedApart ==
    ASSUME OcrTypes, NEW s \in Snapshots
    PROVE  /\ AddRemembered /\ AddPasses(s.cost) => AddApart(s.cost)
           /\ \A unfavourable \in BOOLEAN :
                ReduceRemembered /\ ReducePasses(s.pnl, unfavourable) => ReduceApart(s.pnl)
<1>1. clock \in Nat /\ CostSettle \in Nat /\ PnlSettle \in Nat
  BY FilterAssumption DEF OcrTypes, FilterTypeOK
<1>2. AddRemembered /\ AddPasses(s.cost) => AddApart(s.cost)
  <2> SUFFICES ASSUME lastAdd # None, AddRemembered, AddPasses(s.cost)
               PROVE  AddApart(s.cost)
    BY DEF AddApart
  <2>1. lastAdd \in Sent
    BY DEF OcrTypes
  <2>2. /\ addSettling = [end |-> lastAdd.at + CostSettle, base |-> lastAdd.base]
        /\ addSettling # NotSettling
    BY <1>1, <2>1, FilterAssumption DEF AddRemembered, Sent
  <2>3. lastAdd.at \in Nat /\ addSettling.end = lastAdd.at + CostSettle
        /\ addSettling.base = lastAdd.base
    BY <2>1, <2>2 DEF Sent
  <2>4. clock >= addSettling.end \/ Abs(s.cost - lastAdd.base) >= CostOverride
    BY <2>2, <2>3 DEF AddPasses
  <2> QED
    BY <1>1, <2>3, <2>4 DEF AddApart
<1>3. ASSUME NEW unfavourable \in BOOLEAN
      PROVE  ReduceRemembered /\ ReducePasses(s.pnl, unfavourable) => ReduceApart(s.pnl)
  <2> SUFFICES ASSUME lastReduce # None, ReduceRemembered, ReducePasses(s.pnl, unfavourable)
               PROVE  ReduceApart(s.pnl)
    BY DEF ReduceApart
  <2>1. lastReduce \in Sent
    BY DEF OcrTypes
  <2>2. /\ reduceSettling = [end |-> lastReduce.at + PnlSettle, base |-> lastReduce.base]
        /\ reduceSettling # NotSettling
    BY <1>1, <2>1, FilterAssumption DEF ReduceRemembered, Sent
  <2>3. lastReduce.at \in Nat /\ reduceSettling.end = lastReduce.at + PnlSettle
        /\ reduceSettling.base = lastReduce.base
    BY <2>1, <2>2 DEF Sent
  <2>4. \/ clock >= reduceSettling.end
        \/ s.pnl - lastReduce.base >= PnlOverride
        \/ s.pnl - lastReduce.base >= ReduceDelta
    BY <2>2, <2>3 DEF ReducePasses
  <2> QED
    BY <1>1, <2>3, <2>4 DEF ReduceApart
<1> QED
  BY <1>2, <1>3

(* A worker that neither sends an order nor begins to leaves the others'.  *)
LEMMA OthersSend ==
    ASSUME OcrTypes, NEW w \in Workers, NEW new, work' = [work EXCEPT ![w] = new],
           NEW v \in Workers, v # w, NEW act
    PROVE  Sends(v, act)' <=> Sends(v, act)
BY DEF OcrTypes, Sends, At

(* Time that passes keeps requests apart.                                  *)
LEMMA ApartLater ==
    ASSUME OcrTypes, UNCHANGED <<lastAdd, lastReduce>>, clock' \in Nat, clock <= clock',
           NEW x
    PROVE  (AddApart(x) => AddApart(x)') /\ (ReduceApart(x) => ReduceApart(x)')
<1>1. /\ clock \in Nat /\ CostSettle \in Nat /\ PnlSettle \in Nat
      /\ lastAdd # None => lastAdd.at \in Nat
      /\ lastReduce # None => lastReduce.at \in Nat
  BY FilterAssumption DEF OcrTypes, FilterTypeOK, Sent
<1>2. AddApart(x) => AddApart(x)'
  BY <1>1 DEF AddApart
<1>3. ReduceApart(x) => ReduceApart(x)'
  BY <1>1 DEF ReduceApart
<1> QED
  BY <1>2, <1>3

LEMMA AddSpaced ==
    ASSUME TypeOK, AddSpacing, Step
    PROVE  AddSpacing'
<1>1. OcrTypes /\ OnePastLock
  BY TypeGroups
<1>2. ASSUME \A w \in Workers : ~Ocr(w)
      PROVE  AddSpacing'
  <2>1. UNCHANGED <<work, lastAdd, lastReduce, addSettling>> /\ clock' \in Nat /\ clock <= clock'
    BY <1>2, OcrStays DEF ocrVars, spacing, filterVars
  <2>2. \A x : AddApart(x) => AddApart(x)'
    BY <1>1, <2>1, ApartLater
  <2>3. \A w \in Workers : Sends(w, "ADD_LONG")' <=> Sends(w, "ADD_LONG")
    BY <2>1 DEF Sends, At
  <2>4. AddRemembered' <=> AddRemembered
    BY <2>1 DEF AddRemembered
  <2> QED
    BY <2>1, <2>2, <2>3, <2>4 DEF AddSpacing
<1>3. ASSUME NEW w \in Workers, Ocr(w)
      PROVE  AddSpacing'
  <2>1. /\ clock' = clock
        /\ \A v \in Workers : v # w => /\ work'[v] = work[v]
                                       /\ Sends(v, "ADD_LONG")' <=> Sends(v, "ADD_LONG")
    <3>1. clock' = clock /\ \E new : work' = [work EXCEPT ![w] = new]
      BY <1>3, Zenon
      DEF Ocr, TakeSnapshot, Unchanged, ReadPosition, NoSignal, Suppress, Decide, NoPrice,
          Publish, Release
    <3> QED
      BY <1>1, <3>1, OthersSend DEF OcrTypes
  <2>2. CASE (\E s \in Snapshots : TakeSnapshot(w, s)) \/ Unchanged(w) \/ ReadPosition(w)
             \/ NoSignal(w)
    <3>1. UNCHANGED <<lastAdd, addSettling>> /\ ~Sends(w, "ADD_LONG") /\ ~Sends(w, "ADD_LONG")'
      BY <1>1, <2>2
      DEF TakeSnapshot, Unchanged, ReadPosition, NoSignal, Release, spacing, filterVars,
          Sends, At, OcrTypes
    <3>2. AddRemembered' <=> AddRemembered
      BY <3>1 DEF AddRemembered
    <3>3. \A x : AddApart(x) => AddApart(x)'
      BY <2>1, <3>1 DEF AddApart
    <3> QED
      BY <2>1, <3>1, <3>2, <3>3 DEF AddSpacing
  <2>3. ASSUME At(w, "reading") \/ At(w, "sending"), ~Sends(w, "ADD_LONG")', AddRemembered'
        PROVE  AddSpacing'
    BY <1>1, <2>1, <2>3, Alone DEF AddSpacing
  <2>4. At(w, "reading") => AddRemembered
    BY <1>1, Alone DEF AddSpacing, Sends, At
  <2>5. CASE Suppress(w)
    <3>1. ~Sends(w, "ADD_LONG")' /\ At(w, "reading")
      BY <1>1, <2>5 DEF Suppress, Release, Sends, At, OcrTypes
    <3>2. PICK passed \in BOOLEAN :
            /\ FilterSignal(SignalOf(work[w]), work[w].snap, passed)
            /\ Forget(IF passed THEN Actions ELSE {}, SignalOf(work[w]))
      BY <2>5, Zenon DEF Suppress
    <3>3. lastAdd' = None \/ (lastAdd' = lastAdd /\ addSettling' = addSettling)
      BY <3>2 DEF FilterSignal, FilterAdd, FilterReduce, Forget, Actions, Exits
    <3> QED
      BY <2>3, <2>4, <3>1, <3>3 DEF AddRemembered
  <2>6. CASE Decide(w)
    <3> DEFINE act == SignalOf(work[w])
    <3>1. /\ FilterSignal(act, work[w].snap, TRUE)
          /\ Forget({"OPEN_LONG", "CLOSE_POSITION"}, act)
          /\ At(w, "reading") /\ work[w].snap \in Snapshots
          /\ work' = [work EXCEPT ![w] = [stage |-> "sending", snap |-> work[w].snap,
                                          act |-> act, qty |-> Quantity(act, work[w])]]
      BY <1>1, <2>6, AtFacts DEF Decide
    <3> HIDE DEF act
    <3>2. work'[w].act = act /\ work'[w].snap = work[w].snap
      BY <1>1, <3>1 DEF OcrTypes
    <3>3. CASE act = "ADD_LONG"
      <4>1. AddPasses(work[w].snap.cost)
        BY <3>1, <3>3 DEF FilterSignal, FilterAdd
      <4>2. AddApart(work[w].snap.cost)
        BY <1>1, <2>4, <3>1, <4>1, PassedApart
      <4>3. lastAdd' = lastAdd
        BY <3>1, <3>3 DEF Forget
      <4>4. AddApart(work[w].snap.cost)'
        BY <2>1, <3>2, <4>2, <4>3 DEF AddApart
      <4>5. \A v \in Workers : v # w => ~Sends(v, "ADD_LONG")'
        BY <1>1, <2>1, <3>1, Alone
      <4>6. Sends(w, "ADD_LONG")'
        <5>1. work'[w] \in Working /\ work'[w].stage = "sending"
          <6>1. work'[w] \in Sending
            BY <1>1, <2>6, <3>1, DecidedTyped DEF OcrTypes, act
          <6> QED
            BY <6>1 DEF Working, Sending
        <5> QED
          BY <3>2, <3>3, <5>1, IdleAssumption DEF Sends, At
      <4> QED
        BY <3>2, <4>4, <4>5, <4>6 DEF AddSpacing
    <3>4. CASE act # "ADD_LONG"
      <4>1. ~Sends(w, "ADD_LONG")'
        BY <3>2, <3>4 DEF Sends
      <4>2. lastAdd' = None \/ (lastAdd' = lastAdd /\ addSettling' = addSettling)
        BY <3>1, <3>4 DEF FilterSignal, FilterReduce, Forget, Actions, Exits
      <4> QED
        BY <2>3, <2>4, <3>1, <4>1, <4>2 DEF AddRemembered
    <3> QED
      BY <3>3, <3>4
  <2>7. CASE NoPrice(w) \/ Publish(w)
    <3>1. ~Sends(w, "ADD_LONG")' /\ At(w, "sending") /\ work[w].act \in Actions
      BY <1>1, <2>7, AtFacts DEF NoPrice, Publish, Release, Sends, Sending, At, OcrTypes
    <3>2. work[w].act # "ADD_LONG" => AddRemembered
      BY <1>1, <3>1, Alone DEF AddSpacing, Sends
    <3>3. AddRemembered'
      <4>1. CASE NoPrice(w)
        <5>1. /\ addSettling' = addSettling
              /\ lastAdd' = lastAdd \/ lastAdd' = None
              /\ work[w].act = "ADD_LONG" => lastAdd' = None
          BY <4>1 DEF NoPrice, Forget, Actions, filterVars
        <5> QED
          BY <3>2, <5>1 DEF AddRemembered
      <4>2. CASE Publish(w) /\ work[w].act = "ADD_LONG"
        <5>1. /\ addSettling' = [end |-> clock + CostSettle, base |-> work[w].snap.cost]
              /\ lastAdd' = [at |-> clock, base |-> work[w].snap.cost]
          BY <4>2 DEF Publish, RecordAdd
        <5> QED
          BY <5>1 DEF AddRemembered
      <4>3. CASE Publish(w) /\ work[w].act # "ADD_LONG"
        <5>1. lastAdd' = None \/ (lastAdd' = lastAdd /\ addSettling' = addSettling)
          BY <4>3 DEF Publish, RecordReduce, filterVars
        <5> QED
          BY <3>2, <4>3, <5>1 DEF AddRemembered
      <4> QED
        BY <2>7, <4>1, <4>2, <4>3
    <3> QED
      BY <2>3, <3>1, <3>3
  <2> QED
    BY <1>3, <2>2, <2>5, <2>6, <2>7 DEF Ocr
<1> QED
  BY <1>2, <1>3

LEMMA ReduceSpaced ==
    ASSUME TypeOK, ReduceSpacing, Step
    PROVE  ReduceSpacing'
<1>1. OcrTypes /\ OnePastLock
  BY TypeGroups
<1>2. ASSUME \A w \in Workers : ~Ocr(w)
      PROVE  ReduceSpacing'
  <2>1. UNCHANGED <<work, lastAdd, lastReduce, reduceSettling>> /\ clock' \in Nat /\ clock <= clock'
    BY <1>2, OcrStays DEF ocrVars, spacing, filterVars
  <2>2. \A x : ReduceApart(x) => ReduceApart(x)'
    BY <1>1, <2>1, ApartLater
  <2>3. \A w \in Workers : Sends(w, "REDUCE_PARTIAL")' <=> Sends(w, "REDUCE_PARTIAL")
    BY <2>1 DEF Sends, At
  <2>4. ReduceRemembered' <=> ReduceRemembered
    BY <2>1 DEF ReduceRemembered
  <2> QED
    BY <2>1, <2>2, <2>3, <2>4 DEF ReduceSpacing
<1>3. ASSUME NEW w \in Workers, Ocr(w)
      PROVE  ReduceSpacing'
  <2>1. /\ clock' = clock
        /\ \A v \in Workers : v # w => /\ work'[v] = work[v]
                                       /\ Sends(v, "REDUCE_PARTIAL")' <=> Sends(v, "REDUCE_PARTIAL")
    <3>1. clock' = clock /\ \E new : work' = [work EXCEPT ![w] = new]
      BY <1>3, Zenon
      DEF Ocr, TakeSnapshot, Unchanged, ReadPosition, NoSignal, Suppress, Decide, NoPrice,
          Publish, Release
    <3> QED
      BY <1>1, <3>1, OthersSend DEF OcrTypes
  <2>2. CASE (\E s \in Snapshots : TakeSnapshot(w, s)) \/ Unchanged(w) \/ ReadPosition(w)
             \/ NoSignal(w)
    <3>1. UNCHANGED <<lastReduce, reduceSettling>> /\ ~Sends(w, "REDUCE_PARTIAL") /\ ~Sends(w, "REDUCE_PARTIAL")'
      BY <1>1, <2>2
      DEF TakeSnapshot, Unchanged, ReadPosition, NoSignal, Release, spacing, filterVars,
          Sends, At, OcrTypes
    <3>2. ReduceRemembered' <=> ReduceRemembered
      BY <3>1 DEF ReduceRemembered
    <3>3. \A x : ReduceApart(x) => ReduceApart(x)'
      BY <2>1, <3>1 DEF ReduceApart
    <3> QED
      BY <2>1, <3>1, <3>2, <3>3 DEF ReduceSpacing
  <2>3. ASSUME At(w, "reading") \/ At(w, "sending"), ~Sends(w, "REDUCE_PARTIAL")', ReduceRemembered'
        PROVE  ReduceSpacing'
    BY <1>1, <2>1, <2>3, Alone DEF ReduceSpacing
  <2>4. At(w, "reading") => ReduceRemembered
    BY <1>1, Alone DEF ReduceSpacing, Sends, At
  <2>5. CASE Suppress(w)
    <3>1. ~Sends(w, "REDUCE_PARTIAL")' /\ At(w, "reading")
      BY <1>1, <2>5 DEF Suppress, Release, Sends, At, OcrTypes
    <3>2. PICK passed \in BOOLEAN :
            /\ FilterSignal(SignalOf(work[w]), work[w].snap, passed)
            /\ Forget(IF passed THEN Actions ELSE {}, SignalOf(work[w]))
      BY <2>5, Zenon DEF Suppress
    <3>3. lastReduce' = None \/ (lastReduce' = lastReduce /\ reduceSettling' = reduceSettling)
      BY <3>2 DEF FilterSignal, FilterReduce, FilterAdd, Forget, Actions, Exits
    <3> QED
      BY <2>3, <2>4, <3>1, <3>3 DEF ReduceRemembered
  <2>6. CASE Decide(w)
    <3> DEFINE act == SignalOf(work[w])
    <3>1. /\ FilterSignal(act, work[w].snap, TRUE)
          /\ Forget({"OPEN_LONG", "CLOSE_POSITION"}, act)
          /\ At(w, "reading") /\ work[w].snap \in Snapshots
          /\ work' = [work EXCEPT ![w] = [stage |-> "sending", snap |-> work[w].snap,
                                          act |-> act, qty |-> Quantity(act, work[w])]]
      BY <1>1, <2>6, AtFacts DEF Decide
    <3> HIDE DEF act
    <3>2. work'[w].act = act /\ work'[w].snap = work[w].snap
      BY <1>1, <3>1 DEF OcrTypes
    <3>3. CASE act = "REDUCE_PARTIAL"
      <4>1. \E unfavourable \in BOOLEAN : ReducePasses(work[w].snap.pnl, unfavourable)
        BY <3>1, <3>3 DEF FilterSignal, FilterReduce
      <4>2. ReduceApart(work[w].snap.pnl)
        BY <1>1, <2>4, <3>1, <4>1, PassedApart
      <4>3. lastReduce' = lastReduce
        BY <3>1, <3>3 DEF Forget
      <4>4. ReduceApart(work[w].snap.pnl)'
        BY <2>1, <3>2, <4>2, <4>3 DEF ReduceApart
      <4>5. \A v \in Workers : v # w => ~Sends(v, "REDUCE_PARTIAL")'
        BY <1>1, <2>1, <3>1, Alone
      <4>6. Sends(w, "REDUCE_PARTIAL")'
        <5>1. work'[w] \in Working /\ work'[w].stage = "sending"
          <6>1. work'[w] \in Sending
            BY <1>1, <2>6, <3>1, DecidedTyped DEF OcrTypes, act
          <6> QED
            BY <6>1 DEF Working, Sending
        <5> QED
          BY <3>2, <3>3, <5>1, IdleAssumption DEF Sends, At
      <4> QED
        BY <3>2, <4>4, <4>5, <4>6 DEF ReduceSpacing
    <3>4. CASE act # "REDUCE_PARTIAL"
      <4>1. ~Sends(w, "REDUCE_PARTIAL")'
        BY <3>2, <3>4 DEF Sends
      <4>2. lastReduce' = None \/ (lastReduce' = lastReduce /\ reduceSettling' = reduceSettling)
        BY <3>1, <3>4 DEF FilterSignal, FilterAdd, Forget, Actions, Exits
      <4> QED
        BY <2>3, <2>4, <3>1, <4>1, <4>2 DEF ReduceRemembered
    <3> QED
      BY <3>3, <3>4
  <2>7. CASE NoPrice(w) \/ Publish(w)
    <3>1. ~Sends(w, "REDUCE_PARTIAL")' /\ At(w, "sending") /\ work[w].act \in Actions
      BY <1>1, <2>7, AtFacts DEF NoPrice, Publish, Release, Sends, Sending, At, OcrTypes
    <3>2. work[w].act # "REDUCE_PARTIAL" => ReduceRemembered
      BY <1>1, <3>1, Alone DEF ReduceSpacing, Sends
    <3>3. ReduceRemembered'
      <4>1. CASE NoPrice(w)
        <5>1. /\ reduceSettling' = reduceSettling
              /\ lastReduce' = lastReduce \/ lastReduce' = None
              /\ work[w].act = "REDUCE_PARTIAL" => lastReduce' = None
          BY <4>1 DEF NoPrice, Forget, Actions, Exits, filterVars
        <5> QED
          BY <3>2, <5>1 DEF ReduceRemembered
      <4>2. CASE Publish(w) /\ work[w].act = "REDUCE_PARTIAL"
        <5>1. /\ reduceSettling' = [end |-> clock + PnlSettle, base |-> work[w].snap.pnl]
              /\ lastReduce' = [at |-> clock, base |-> work[w].snap.pnl]
          BY <4>2 DEF Publish, RecordReduce
        <5> QED
          BY <5>1 DEF ReduceRemembered
      <4>3. CASE Publish(w) /\ work[w].act # "REDUCE_PARTIAL"
        <5>1. lastReduce' = None \/ (lastReduce' = lastReduce /\ reduceSettling' = reduceSettling)
          BY <4>3 DEF Publish, RecordAdd, filterVars
        <5> QED
          BY <3>2, <4>3, <5>1 DEF ReduceRemembered
      <4> QED
        BY <2>7, <4>1, <4>2, <4>3
    <3> QED
      BY <2>3, <3>1, <3>3
  <2> QED
    BY <1>3, <2>2, <2>5, <2>6, <2>7 DEF Ocr
<1> QED
  BY <1>2, <1>3

-----------------------------------------------------------------------------
(* One period settles at a time.                                           *)
LEMMA SettlingKept ==
    ASSUME OneSettling, Step
    PROVE  OneSettling'
<1>1. ASSUME NEW w \in Workers, Ocr(w)
      PROVE  OneSettling'
  <2>1. CASE Suppress(w) \/ Decide(w)
    <3>1. PICK act, s, passed : FilterSignal(act, s, passed)
      BY <2>1, Zenon DEF Suppress, Decide
    <3> QED
      BY <3>1 DEF FilterSignal, FilterAdd, FilterReduce, ResetSymbol, OneSettling
  <2>2. CASE Publish(w)
    BY <2>2 DEF Publish, RecordAdd, RecordReduce, filterVars, OneSettling
  <2>3. CASE ~(Suppress(w) \/ Decide(w) \/ Publish(w))
    BY <1>1, <2>3
    DEF Ocr, TakeSnapshot, Unchanged, ReadPosition, NoSignal, NoPrice, filterVars, OneSettling
  <2> QED
    BY <2>1, <2>2, <2>3
<1>2. ASSUME \A w \in Workers : ~Ocr(w)
      PROVE  UNCHANGED filterVars
  BY <1>2, Zenon
  DEF Step, BusThread, Drop, RiskCheck, SkipRequest, Admit, ForceTrade, ForceActive, Refuse,
      RefuseTwin, SendFails, Send, HandleFill, HandleQuantity, HandleFull, PollThread,
      PollFetch, PollCompare, PollAgrees, PollSync, Broker, BrokerFills,
      BrokerFillsUnpriced, BrokerFillsAsBuy, BrokerEnds, BrokerPushes, Tick, ocrVars
<1> QED
  BY <1>1, <1>2 DEF filterVars, OneSettling

-----------------------------------------------------------------------------
(* The inductive invariant.                                                *)

IInv ==
    /\ TypeOK /\ InHand /\ FailedNeverSent
    /\ AddSpacing /\ ReduceSpacing /\ OneSettling

LEMMA InitIInv == Init => IInv
<1> SUFFICES ASSUME Init PROVE IInv
  OBVIOUS
<1>1. account \in Int
  BY PathAssumption DEF Init
<1>2. /\ <<>> \in Seq(Trade) /\ <<>> \in Seq(Event) /\ <<>> \in Seq(Order)
      /\ DOMAIN <<>> = {} /\ Len(<<>>) = 0
  OBVIOUS
<1>3. trades \in Seq(Trade)
  <2>1. CreatedOrSynced(<<>>, account) \in Seq(Trade)
    BY <1>2, SyncedGrows DEF Grown
  <2> QED
    BY <1>2, <2>1 DEF Init, StartUp
<1>4. Right(pos)
  <2>1. Right(Unknown)
    BY DEF Unknown, Right, Position, Strategies, StrategyOf
  <2>2. Right(Synced(Unknown, account))
    BY <1>1, <2>1, PositionFacts
  <2> QED
    BY <2>1, <2>2 DEF Init, StartUp
<1>5. OcrTypes /\ OnePastLock
  <2>1. FilterTypeOK
    BY DEF Init, FilterInit, FilterTypeOK
  <2> QED
    BY <2>1 DEF Init, OcrTypes, OnePastLock
<1>6. BusTypes /\ TradeTypes
  BY <1>2, <1>3 DEF Init, BusTypes, TradeTypes
<1>7. BrokerTypes
  <2>1. live = <<>>
    BY DEF Init
  <2> QED
    BY <1>1, <1>2, <2>1 DEF BrokerTypes
<1>8. BookTypes
  BY <1>4 DEF Init, StartUp, BookTypes, Right
<1>9. InHand /\ FailedNeverSent
  BY <1>2 DEF Init, InHand, FailedNeverSent
<1>10. AddSpacing /\ ReduceSpacing
  BY DEF Init, AddSpacing, AddRemembered, ReduceSpacing, ReduceRemembered, Sends, At
<1>11. OneSettling
  BY DEF Init, FilterInit, OneSettling
<1> QED
  BY <1>5, <1>6, <1>7, <1>8, <1>9, <1>10, <1>11, TypeGroups DEF IInv

LEMMA StepIInv == IInv /\ [Step]_vars => IInv'
<1>1. ASSUME IInv, Step
      PROVE  IInv'
  <2>1. OcrTypes' /\ OnePastLock'
    <3>1. OcrTypes /\ OnePastLock /\ BookTypes
      BY <1>1, TypeGroups DEF IInv
    <3>2. CASE \E w \in Workers : Ocr(w)
      BY <3>1, <3>2, OcrTyped
    <3>3. CASE \A w \in Workers : ~Ocr(w)
      <4>1. UNCHANGED ocrVars /\ clock' \in Nat
        BY <1>1, <3>3, OcrStays DEF IInv
      <4> QED
        BY <3>1, <4>1
        DEF ocrVars, spacing, filterVars, OcrTypes, OnePastLock, FilterTypeOK, At
    <3> QED
      BY <3>2, <3>3
  <2>2. BusTypes' /\ TradeTypes' /\ BrokerTypes' /\ BookTypes'
    BY <1>1, BusTyped, TradesTyped, BrokerTyped, BookTyped DEF IInv
  <2>3. TypeOK'
    <3>1. (OcrTypes /\ OnePastLock /\ BusTypes /\ TradeTypes /\ BrokerTypes /\ BookTypes)'
           => TypeOK'
      BY TypeGroups, PTL
    <3> QED
      BY <2>1, <2>2, <3>1
  <2> QED
    BY <1>1, <2>3, TradesKept, AddSpaced, ReduceSpaced, SettlingKept DEF IInv
<1>2. ASSUME IInv, UNCHANGED vars
      PROVE  IInv'
  BY <1>2
  DEF IInv, vars, ocrVars, tradeVars, brokerVars, bookVars, history, spacing, filterVars,
      TypeOK, FilterTypeOK, At, InHand, FailedNeverSent, AddSpacing, AddRemembered, AddApart,
      ReduceSpacing, ReduceRemembered, ReduceApart, Sends, OneSettling
<1> QED
  BY <1>1, <1>2

LEMMA Inductive == Spec => []IInv
BY InitIInv, StepIInv, PTL DEF Spec

(* In every reachable state the queue, the trades, the orders and the book *)
(* hold what they should, at most one worker is past the lock, and what is *)
(* live at the broker was sent: TypeOK, for any instance.                  *)
THEOREM Typing == Spec => []TypeOK
<1>1. IInv => TypeOK
  BY DEF IInv
<1> QED
  BY <1>1, Inductive, PTL

(* An ADD and a REDUCE never settle at the same time.                      *)
THEOREM Settling == Spec => []OneSettling
<1>1. IInv => OneSettling
  BY DEF IInv
<1> QED
  BY <1>1, Inductive, PTL

(* No order that reached the broker belongs to a trade that has failed to  *)
(* open, however the poll thread and the bus thread interleave.            *)
THEOREM SentTradesOpen == Spec => []FailedNeverSent
<1>1. IInv => FailedNeverSent
  BY DEF IInv
<1> QED
  BY <1>1, Inductive, PTL

-----------------------------------------------------------------------------
(* Only a worker publishes an order request.                               *)
LEMMA PublishedBy ==
    ASSUME TypeOK, Step, NEW act, Publishes(act)
    PROVE  \E w \in Workers :
             /\ Publish(w) /\ work[w].act = act
             /\ bus'[Len(bus')] = Request(work[w])
<1>1. /\ BusTypes /\ OcrTypes /\ bus \in Seq(Event) /\ Len(bus) \in Nat
      /\ bus' # bus
  BY TypeGroups DEF BusTypes, Publishes
<1>2. ASSUME NEW w \in Workers, Publish(w)
      PROVE  work[w].act = act /\ bus'[Len(bus')] = Request(work[w])
  <2>1. Request(work[w]) \in Event
    BY <1>1, <1>2, RequestTyped DEF Publish, Event
  <2>2. bus' = Append(bus, Request(work[w]))
    BY <1>2 DEF Publish
  <2>3. bus'[Len(bus')] = Request(work[w])
    BY <1>1, <2>1, <2>2, AppendProperties
  <2>4. bus'[Len(bus')].act = act
    BY DEF Publishes
  <2> QED
    BY <2>3, <2>4 DEF Request
<1>3. ASSUME bus # <<>>, bus' = Tail(bus)
      PROVE  FALSE
  <2>1. Len(bus') = Len(bus) - 1
    BY <1>1, <1>3, HeadFacts
  <2>2. Len(bus') > Len(bus)
    BY DEF Publishes
  <2> QED
    BY SMTT(30), <1>1, <2>1, <2>2
<1>4. ASSUME RiskCheck
      PROVE  FALSE
  <2>1. Head(bus) \in Requests /\ Tail(bus) \in Seq(Event) /\ Len(Tail(bus)) = Len(bus) - 1
        /\ bus # <<>>
    BY <1>1, <1>4, HeadFacts DEF RiskCheck, NextIs
  <2> DEFINE new == [Head(bus) EXCEPT !.type = "ValidatedOrderRequest"]
  <2>2. new \in Event
    BY <2>1 DEF Requests, Event
  <2>3. bus' = Append(Tail(bus), new) \/ bus' = Tail(bus)
    BY <1>4 DEF RiskCheck
  <2> HIDE DEF new
  <2>4. Len(Append(Tail(bus), new)) = Len(bus)
    BY <1>1, <2>1, <2>2, AppendProperties
  <2> QED
    BY <1>1, <1>3, <2>1, <2>3, <2>4 DEF Publishes
<1>5. ASSUME NEW e \in Event, e.type # "OrderRequest", bus' = Append(bus, e)
      PROVE  FALSE
  <2>1. bus'[Len(bus')] = e
    BY <1>1, <1>5, AppendProperties
  <2> QED
    BY <1>5, <2>1 DEF Publishes
<1>6. ASSUME BusThread
      PROVE  FALSE
  <2>1. RiskCheck \/ bus' = bus \/ (bus # <<>> /\ bus' = Tail(bus))
    BY <1>6, Zenon
    DEF BusThread, Drop, SkipRequest, Admit, ForceTrade, ForceActive, Refuse,
        RefuseTwin, SendFails, Send, HandleFill, HandleQuantity, HandleFull, NextIs
  <2> QED
    BY <1>1, <1>3, <1>4, <2>1
<1>7. ASSUME PollThread \/ Tick
      PROVE  FALSE
  BY <1>1, <1>7 DEF PollThread, PollFetch, PollCompare, PollAgrees, PollSync, Tick
<1>8. ASSUME Broker
      PROVE  FALSE
  <2>1. \/ bus' = bus
        \/ \E change : bus' = Append(bus, [type |-> "OrderFilled", change |-> change])
        \/ \E type \in {"PositionQuantity", "FullPosition"} :
             bus' = Append(bus, [type |-> type, shares |-> account])
    BY <1>8
    DEF Broker, BrokerFills, BrokerFillsUnpriced, BrokerFillsAsBuy, BrokerEnds, BrokerPushes
  <2>2. bus' \in Seq(Event)
    BY BusTyped DEF BusTypes
  <2>3. CASE \E change : bus' = Append(bus, [type |-> "OrderFilled", change |-> change])
    <3>1. PICK change : bus' = Append(bus, [type |-> "OrderFilled", change |-> change])
      BY <2>3
    <3>2. bus'[Len(bus')] = [type |-> "OrderFilled", change |-> change]
      BY <1>1, <3>1
    <3> QED
      BY <3>2 DEF Publishes
  <2>4. ASSUME NEW type \in {"PositionQuantity", "FullPosition"},
               bus' = Append(bus, [type |-> type, shares |-> account])
        PROVE  FALSE
    <3>1. [type |-> type, shares |-> account] \in Event
      BY TypeGroups DEF BrokerTypes, Event
    <3> QED
      BY <1>5, <2>4, <3>1
  <2> QED
    BY <1>1, <2>1, <2>3, <2>4
<1>9. PICK w \in Workers : Ocr(w)
  BY <1>6, <1>7, <1>8, Zenon DEF Step
<1>10. Publish(w)
  BY <1>1, <1>9, Zenon DEF Ocr, TakeSnapshot, Unchanged, ReadPosition, NoSignal, Suppress, Decide,
                    NoPrice
<1> QED
  BY <1>2, <1>10

(* A request is apart from the last one it is spaced from.                 *)
LEMMA StepSpaced ==
    ASSUME IInv, Step
    PROVE  /\ Publishes("ADD_LONG") /\ lastAdd # None =>
                \/ clock - lastAdd.at >= CostSettle
                \/ Abs(bus'[Len(bus')].cost - lastAdd.base) >= CostOverride
           /\ Publishes("REDUCE_PARTIAL") /\ lastReduce # None =>
                \/ clock - lastReduce.at >= PnlSettle
                \/ lastReduce'.base - lastReduce.base >= PnlOverride
                \/ lastReduce'.base - lastReduce.base >= ReduceDelta
<1>1. TypeOK /\ AddSpacing /\ ReduceSpacing
  BY DEF IInv
<1>2. ASSUME Publishes("ADD_LONG"), lastAdd # None
      PROVE  \/ clock - lastAdd.at >= CostSettle
             \/ Abs(bus'[Len(bus')].cost - lastAdd.base) >= CostOverride
  <2>1. PICK w \in Workers : /\ Publish(w) /\ work[w].act = "ADD_LONG"
                             /\ bus'[Len(bus')] = Request(work[w])
    BY <1>1, <1>2, PublishedBy
  <2>2. bus'[Len(bus')].cost = work[w].snap.cost
    BY <2>1 DEF Request
  <2>3. AddApart(work[w].snap.cost)
    BY <1>1, <2>1 DEF Publish, Sends, AddSpacing
  <2> QED
    BY <1>2, <2>2, <2>3 DEF AddApart
<1>3. ASSUME Publishes("REDUCE_PARTIAL"), lastReduce # None
      PROVE  \/ clock - lastReduce.at >= PnlSettle
             \/ lastReduce'.base - lastReduce.base >= PnlOverride
             \/ lastReduce'.base - lastReduce.base >= ReduceDelta
  <2>1. PICK w \in Workers : Publish(w) /\ work[w].act = "REDUCE_PARTIAL"
    BY <1>1, <1>3, PublishedBy
  <2>2. lastReduce'.base = work[w].snap.pnl
    BY <2>1 DEF Publish
  <2>3. ReduceApart(work[w].snap.pnl)
    BY <1>1, <2>1 DEF Publish, Sends, ReduceSpacing
  <2> QED
    BY <1>3, <2>2, <2>3 DEF ReduceApart
<1> QED
  BY <1>2, <1>3

(* Two ADDs, or two REDUCEs, with nothing but suppressed signals between   *)
(* them are never closer than the filter's thresholds, whatever the number *)
(* of workers that interpret snapshots.                                    *)
THEOREM Spacing == Spec => OrdersSpaced
<1> DEFINE Apart ==
      /\ Publishes("ADD_LONG") /\ lastAdd # None =>
           \/ clock - lastAdd.at >= CostSettle
           \/ Abs(bus'[Len(bus')].cost - lastAdd.base) >= CostOverride
      /\ Publishes("REDUCE_PARTIAL") /\ lastReduce # None =>
           \/ clock - lastReduce.at >= PnlSettle
           \/ lastReduce'.base - lastReduce.base >= PnlOverride
           \/ lastReduce'.base - lastReduce.base >= ReduceDelta
<1>1. IInv /\ [Step]_vars => [Apart]_vars
  BY StepSpaced
<1>2. Spec => [][Apart]_vars
  <2> HIDE DEF Apart
  <2> QED
    BY <1>1, Inductive, PTL DEF Spec
<1> QED
  BY <1>2 DEF OrdersSpaced

-----------------------------------------------------------------------------
(* The trades implement TradeLife.                                         *)

LifeOf(ts) == [t \in DOMAIN ts |-> ts[t].state]

LEMMA LifeFacts ==
    ASSUME NEW ts \in Seq(Trade)
    PROVE  /\ LifeOf(ts) \in Seq(Life!States)
           /\ Len(LifeOf(ts)) = Len(ts) /\ Len(ts) \in Nat
           /\ DOMAIN LifeOf(ts) = 1 .. Len(ts)
           /\ \A t \in 1 .. Len(ts) : LifeOf(ts)[t] = ts[t].state /\ ts[t].state \in Life!States
<1>1. DOMAIN ts = 1 .. Len(ts) /\ Len(ts) \in Nat
  OBVIOUS
<1>2. \A t \in 1 .. Len(ts) : ts[t].state \in Life!States
  <2>1. \A x \in Trade : x.state \in Life!States
    BY DEF Trade, Life!States
  <2>2. \A t \in 1 .. Len(ts) : ts[t] \in Trade
    BY ElementOfSeq
  <2> QED
    BY <2>1, <2>2
<1>3. LifeOf(ts) \in [1 .. Len(ts) -> Life!States]
  BY <1>1, <1>2 DEF LifeOf
<1>4. LifeOf(ts) \in Seq(Life!States) /\ Len(LifeOf(ts)) = Len(ts)
  BY <1>1, <1>3, SeqDef
<1> QED
  BY <1>1, <1>2, <1>3, <1>4 DEF LifeOf

(* Trades that keep their states have the same lives.                      *)
LEMMA LifeKept ==
    ASSUME NEW ts \in Seq(Trade), NEW us \in Seq(Trade), Len(us) = Len(ts),
           \A t \in 1 .. Len(ts) : us[t].state = ts[t].state
    PROVE  LifeOf(us) = LifeOf(ts)
BY LifeFacts, SeqEqual

(* A new trade is a new life.                                              *)
LEMMA LifeBegins ==
    ASSUME NEW ts \in Seq(Trade), NEW us \in Seq(Trade), Len(us) = Len(ts) + 1,
           \A t \in 1 .. Len(ts) : us[t].state = ts[t].state
    PROVE  \E s \in Life!States : LifeOf(us) = Append(LifeOf(ts), s)
<1> DEFINE s == us[Len(ts) + 1].state
<1>1. /\ LifeOf(ts) \in Seq(Life!States) /\ LifeOf(us) \in Seq(Life!States)
      /\ Len(LifeOf(ts)) = Len(ts) /\ Len(LifeOf(us)) = Len(ts) + 1 /\ Len(ts) \in Nat
      /\ \A t \in 1 .. Len(ts) : LifeOf(us)[t] = LifeOf(ts)[t]
      /\ LifeOf(us)[Len(ts) + 1] = s /\ s \in Life!States
  <2>1. \A t \in 1 .. Len(ts) : t \in 1 .. Len(ts) + 1
    BY LifeFacts
  <2>2. Len(ts) + 1 \in 1 .. Len(us)
    BY LifeFacts
  <2> QED
    BY <2>1, <2>2, LifeFacts
<1> HIDE DEF s
<1>2. /\ Append(LifeOf(ts), s) \in Seq(Life!States)
      /\ Len(Append(LifeOf(ts), s)) = Len(ts) + 1
      /\ \A t \in 1 .. Len(ts) : Append(LifeOf(ts), s)[t] = LifeOf(ts)[t]
      /\ Append(LifeOf(ts), s)[Len(ts) + 1] = s
  BY <1>1, AppendProperties
<1>3. \A t \in 1 .. Len(ts) + 1 : LifeOf(us)[t] = Append(LifeOf(ts), s)[t]
  BY <1>1, <1>2
<1>4. LifeOf(us) = Append(LifeOf(ts), s)
  BY <1>1, <1>2, <1>3, SeqEqual
<1> QED
  BY <1>1, <1>4

(* A trade whose state changes is the only life that changes.              *)
LEMMA LifeChanges ==
    ASSUME NEW ts \in Seq(Trade), NEW us \in Seq(Trade), Len(us) = Len(ts),
           NEW t \in 1 .. Len(ts), NEW s, us[t].state = s,
           \A v \in 1 .. Len(ts) : v # t => us[v].state = ts[v].state
    PROVE  /\ LifeOf(us) = [LifeOf(ts) EXCEPT ![t] = s]
           /\ t \in DOMAIN LifeOf(ts) /\ LifeOf(ts)[t] = ts[t].state
<1>1. /\ LifeOf(ts) \in Seq(Life!States) /\ LifeOf(us) \in Seq(Life!States)
      /\ Len(LifeOf(us)) = Len(LifeOf(ts)) /\ Len(LifeOf(ts)) = Len(ts)
      /\ LifeOf(us)[t] = s /\ s \in Life!States
      /\ \A v \in 1 .. Len(ts) : v # t => LifeOf(us)[v] = LifeOf(ts)[v]
      /\ t \in DOMAIN LifeOf(ts) /\ LifeOf(ts)[t] = ts[t].state
  BY LifeFacts
<1>2. /\ [LifeOf(ts) EXCEPT ![t] = s] \in Seq(Life!States)
      /\ Len([LifeOf(ts) EXCEPT ![t] = s]) = Len(ts)
      /\ \A v \in 1 .. Len(ts) : [LifeOf(ts) EXCEPT ![t] = s][v] = LifeOf(us)[v]
  BY <1>1, ExceptSeq
<1> QED
  BY <1>1, <1>2, SeqEqual

(* A step that adds a trade or none begins a life or none.                 *)
LEMMA GrownLives ==
    ASSUME NEW ts \in Seq(Trade), NEW us, Grown(ts, us)
    PROVE  LifeOf(us) = LifeOf(ts) \/ \E s \in Life!States : LifeOf(us) = Append(LifeOf(ts), s)
<1>1. us \in Seq(Trade) /\ \A t \in 1 .. Len(ts) : us[t].state = ts[t].state
  BY DEF Grown
<1>2. Len(us) = Len(ts) \/ Len(us) = Len(ts) + 1
  BY LenProperties DEF Grown
<1> QED
  BY <1>1, <1>2, LifeKept, LifeBegins

(* What TradeLife says of a step, in terms of the lives.                   *)
LifeStep(a, b) ==
    \/ b = a
    \/ \E s \in Life!States : b = Append(a, s)
    \/ \E t \in DOMAIN a : /\ a[t] = "OPEN_PENDING"
                           /\ \/ b = [a EXCEPT ![t] = "OPEN_ACTIVE"]
                              \/ b = [a EXCEPT ![t] = "CLOSED"]

LEMMA StepLives ==
    ASSUME IInv, Step
    PROVE  LifeStep(LifeOf(trades), LifeOf(trades'))
<1>1. /\ TypeOK /\ InHand /\ TradeTypes /\ trades \in Seq(Trade) /\ Len(trades) \in Nat
      /\ Len(orders) \in Nat
      /\ handling # Idle => handling.trade \in 0 .. Len(trades)
  BY TradeFacts DEF IInv
<1>2. CASE UNCHANGED trades
  BY <1>2 DEF LifeStep
<1>3. CASE Grown(trades, trades')
  BY <1>1, <1>3, GrownLives DEF LifeStep
<1>4. CASE Admit \/ ForceTrade
  <2>1. UNCHANGED trades \/ trades' = Created(trades, "OPEN_PENDING")
    BY <1>4 DEF Admit, ForceTrade
  <2> QED
    BY <1>1, <1>2, <1>3, <2>1, CreatedGrows
<1>5. CASE HandleFull \/ PollCompare \/ PollSync
  <2>1. PICK n : trades' = CreatedOrSynced(trades, n)
    BY <1>5, Zenon DEF HandleFull, PollCompare, PollSync
  <2> QED
    BY <1>1, <1>3, <2>1, SyncedGrows
<1>6. CASE ForceActive
  <2> DEFINE t == handling.trade
  <2>1. /\ trades' = Activated(trades, t)
        /\ t \in 1 .. Len(trades) /\ trades[t].state = "OPEN_PENDING"
    BY <1>1, <1>6 DEF ForceActive, InHand
  <2> HIDE DEF t
  <2>2. /\ trades' \in Seq(Trade) /\ Len(trades') = Len(trades)
        /\ trades'[t].state = "OPEN_ACTIVE"
        /\ \A v \in 1 .. Len(trades) : v # t => trades'[v].state = trades[v].state
    BY <1>1, <2>1, ActivatedFacts
  <2>3. /\ LifeOf(trades') = [LifeOf(trades) EXCEPT ![t] = "OPEN_ACTIVE"]
        /\ t \in DOMAIN LifeOf(trades) /\ LifeOf(trades)[t] = "OPEN_PENDING"
    BY <1>1, <2>1, <2>2, LifeChanges
  <2> QED
    BY <2>3 DEF LifeStep
<1>7. CASE Refuse \/ RefuseTwin \/ SendFails
  <2>1. Executing /\ trades' = AfterNone
    BY <1>7 DEF Refuse, RefuseTwin, SendFails
  <2> DEFINE t == handling.trade
  <2>2. /\ t \in 1 .. Len(trades)
        /\ trades' \in Seq(Trade) /\ Len(trades') = Len(trades)
        /\ \A v \in 1 .. Len(trades) :
             \/ trades'[v] = trades[v]
             \/ v = t /\ trades[v].state = "OPEN_PENDING" /\ trades'[v].state = "CLOSED"
    BY <1>1, <2>1, ExecutingFacts, AfterNoneFacts
  <2> HIDE DEF t
  <2>3. CASE trades'[t] = trades[t]
    <3>1. LifeOf(trades') = LifeOf(trades)
      BY <1>1, <2>2, <2>3, LifeKept
    <3> QED
      BY <3>1 DEF LifeStep
  <2>4. CASE trades'[t] # trades[t]
    <3>1. /\ trades[t].state = "OPEN_PENDING" /\ trades'[t].state = "CLOSED"
          /\ \A v \in 1 .. Len(trades) : v # t => trades'[v].state = trades[v].state
      BY <2>2, <2>4
    <3>2. /\ LifeOf(trades') = [LifeOf(trades) EXCEPT ![t] = "CLOSED"]
          /\ t \in DOMAIN LifeOf(trades) /\ LifeOf(trades)[t] = "OPEN_PENDING"
      BY <1>1, <2>2, <3>1, LifeChanges
    <3> QED
      BY <3>2 DEF LifeStep
  <2> QED
    BY <2>3, <2>4
<1>8. CASE Send
  <2>1. Executing /\ trades' = Submitted(trades, handling.trade, Len(orders) + 1)
    BY <1>8 DEF Send
  <2>2. handling.trade \in 1 .. Len(trades) /\ Len(orders) + 1 \in Nat
    BY <1>1, <2>1, ExecutingFacts
  <2> QED
    BY <1>1, <1>3, <2>1, <2>2, SubmittedGrows
<1>9. CASE ~TradeStep
  BY <1>2, <1>9, OtherSteps DEF tradeVars
<1> QED
  BY <1>4, <1>5, <1>6, <1>7, <1>8, <1>9 DEF TradeStep

(* The trades of the core are born, activated and failed as TradeLife      *)
(* says, through every interleaving of its threads: the refinement.        *)
THEOREM TradesLive == Spec => LifeSpec
<1>1. Init => Life!Init
  <2> SUFFICES ASSUME Init PROVE Life!Init
    OBVIOUS
  <2>1. CASE trades = <<>>
    <3>1. [t \in DOMAIN trades |-> trades[t].state] = <<>>
      BY <2>1
    <3> QED
      BY <3>1 DEF Life!Init
  <2>2. CASE account # 0 /\ trades = CreatedOrSynced(<<>>, account)
    <3>1. FindActive(<<>>) = 0
      BY DEF FindActive, Unclosed
    <3> DEFINE new == [state |-> "OPEN_ACTIVE", orders |-> {}]
    <3>2. trades = Append(<<>>, new)
      BY <2>2, <3>1, Zenon DEF CreatedOrSynced, Created
    <3>3. new.state = "OPEN_ACTIVE"
      OBVIOUS
    <3> HIDE DEF new
    <3>4. trades = <<new>>
      BY <3>2
    <3>5. [t \in DOMAIN trades |-> trades[t].state] = <<"OPEN_ACTIVE">>
      BY <3>3, <3>4
    <3> QED
      BY <3>5 DEF Life!Init
  <2> QED
    BY <2>1, <2>2 DEF Init, StartUp
<1>2. ASSUME IInv, [Step]_vars
      PROVE  [Life!Next]_([t \in DOMAIN trades |-> trades[t].state])
  <2>1. CASE Step
    <3>1. LifeStep(LifeOf(trades), LifeOf(trades'))
      BY <1>2, <2>1, StepLives
    <3> QED
      BY <3>1, Zenon DEF LifeStep, LifeOf, Life!Next, Life!Begin, Life!Activate, Life!FailToOpen
  <2>2. CASE UNCHANGED vars
    BY <2>2 DEF vars, tradeVars
  <2> QED
    BY <1>2, <2>1, <2>2
<1> QED
  BY <1>1, <1>2, Inductive, PTL DEF Spec, LifeSpec, Life!Spec

-----------------------------------------------------------------------------
(* Sales.  Until a sale is sized while another is under way, or from a book *)
(* that is not the broker's, there is at most one on its way, in the hands  *)
(* of a worker, on the bus, in the hands of the bus thread or at the        *)
(* broker, and the account covers it.                                       *)

IsSale(e) == e.type \in {"OrderRequest", "ValidatedOrderRequest"} /\ e.act \in Exits

NoSale(b) == \A i \in DOMAIN b : ~IsSale(b[i])

OneSale(b, n) ==
    /\ \A i \in DOMAIN b : IsSale(b[i]) => b[i].qty <= n
    /\ \A i, j \in DOMAIN b : IsSale(b[i]) /\ IsSale(b[j]) => i = j

SendsSale(w) == At(w, "sending") /\ work[w].act \in Exits

HandSale == handling # Idle /\ handling.req.act \in Exits

LiveSale(o) == o \in DOMAIN live /\ orders[o].side = -1

NoLiveSale == \A o \in DOMAIN live : ~LiveSale(o)

OneSaleCovered ==
    /\ account >= 0
    /\ \A w \in Workers :
         SendsSale(w) => work[w].qty <= account /\ NoSale(bus) /\ ~HandSale /\ NoLiveSale
    /\ OneSale(bus, account)
    /\ ~NoSale(bus) => ~HandSale /\ NoLiveSale
    /\ HandSale => handling.req.qty <= account /\ NoLiveSale
    /\ \A o \in DOMAIN live : LiveSale(o) => live[o] <= account
    /\ \A o, p \in DOMAIN live : LiveSale(o) /\ LiveSale(p) => o = p

SaleInv == ~overlap => OneSaleCovered

(* The sales on the bus after its oldest event is taken.                   *)
LEMMA TailSales ==
    ASSUME NEW b \in Seq(Event), b # <<>>, NEW n \in Int, OneSale(b, n)
    PROVE  /\ OneSale(Tail(b), n)
           /\ NoSale(b) => NoSale(Tail(b)) /\ ~IsSale(Head(b))
           /\ IsSale(Head(b)) => NoSale(Tail(b)) /\ Head(b).qty <= n
<1>1. /\ Len(b) \in Nat \ {0} /\ DOMAIN b = 1 .. Len(b) /\ Head(b) = b[1]
      /\ DOMAIN Tail(b) = 1 .. Len(b) - 1
      /\ \A i \in 1 .. Len(b) - 1 : Tail(b)[i] = b[i + 1]
  BY HeadTailProperties, EmptySeq
<1>2. \A i \in 1 .. Len(b) - 1 : i + 1 \in 1 .. Len(b) /\ i + 1 # 1
  BY <1>1
<1>3. 1 \in 1 .. Len(b)
  BY <1>1
<1>4. \A i, j \in 1 .. Len(b) - 1 : i + 1 = j + 1 => i = j
  OBVIOUS
<1>5. OneSale(Tail(b), n)
  BY <1>1, <1>2, <1>4 DEF OneSale
<1>6. NoSale(b) => NoSale(Tail(b)) /\ ~IsSale(Head(b))
  BY <1>1, <1>2, <1>3 DEF NoSale
<1>7. IsSale(Head(b)) => NoSale(Tail(b)) /\ Head(b).qty <= n
  BY <1>1, <1>2, <1>3 DEF NoSale, OneSale
<1> QED
  BY <1>5, <1>6, <1>7

(* The sales on the bus after an event is published.                       *)
LEMMA AppendSales ==
    ASSUME NEW b \in Seq(Event), NEW e \in Event, NEW n \in Int
    PROVE  /\ ~IsSale(e) => /\ OneSale(b, n) => OneSale(Append(b, e), n)
                            /\ NoSale(b) => NoSale(Append(b, e))
                            /\ ~NoSale(b) => ~NoSale(Append(b, e))
           /\ IsSale(e) /\ NoSale(b) /\ e.qty <= n => OneSale(Append(b, e), n)
<1>1. /\ Len(b) \in Nat /\ DOMAIN b = 1 .. Len(b)
      /\ DOMAIN Append(b, e) = 1 .. Len(b) + 1
      /\ \A i \in 1 .. Len(b) : Append(b, e)[i] = b[i]
      /\ Append(b, e)[Len(b) + 1] = e
  BY AppendProperties
<1>2. \A i \in 1 .. Len(b) + 1 : i \in 1 .. Len(b) \/ i = Len(b) + 1
  BY <1>1
<1>3. 1 .. Len(b) \subseteq 1 .. Len(b) + 1
  BY <1>1
<1>4. ~IsSale(e) /\ OneSale(b, n) => OneSale(Append(b, e), n)
  BY <1>1, <1>2 DEF OneSale
<1>5. ~IsSale(e) /\ NoSale(b) => NoSale(Append(b, e))
  BY <1>1, <1>2 DEF NoSale
<1>6. ~NoSale(b) => ~NoSale(Append(b, e))
  BY <1>1, <1>3 DEF NoSale
<1>7. IsSale(e) /\ NoSale(b) /\ e.qty <= n => OneSale(Append(b, e), n)
  BY <1>1, <1>2 DEF OneSale, NoSale
<1> QED
  BY <1>4, <1>5, <1>6, <1>7

(* An account that grows still covers them.                                *)
LEMMA SaleCovered ==
    ASSUME NEW b \in Seq(Event), NEW n \in Int, NEW m \in Int, n <= m, OneSale(b, n)
    PROVE  OneSale(b, m)
<1>1. ASSUME NEW i \in DOMAIN b, IsSale(b[i])
      PROVE  b[i].qty <= m
  <2>1. b[i] \in Requests
    BY <1>1, ElementOfSeq DEF Event, IsSale
  <2>2. b[i].qty \in Int /\ b[i].qty <= n
    BY <1>1, <2>1 DEF Requests, OneSale
  <2> QED
    BY <2>2
<1> QED
  BY <1>1 DEF OneSale

(* What was sent keeps its side.                                           *)
LEMMA LiveSalesStay ==
    ASSUME TypeOK, Step, UNCHANGED live
    PROVE  \A o \in DOMAIN live : LiveSale(o)' <=> LiveSale(o)
BY OrdersStay, TypeGroups DEF BrokerTypes, LiveSale

(* The number of a sale sized from the account is within it.               *)
LEMMA SizedWithin ==
    ASSUME NEW r \in Reading, account \in Int, account >= 0, r.shares = account,
           NEW act \in Exits
    PROVE  Quantity(act, r) <= account
<1>1. Abs(r.shares) = account
  BY DEF Abs
<1>2. HalfOf(account) <= account
  BY DEF HalfOf
<1> QED
  BY <1>1, <1>2 DEF Quantity, Exits

(* A worker's step.                                                        *)
LEMMA OcrSales ==
    ASSUME TypeOK, OneSaleCovered, NEW w \in Workers, Ocr(w), overlap' = FALSE, Step
    PROVE  OneSaleCovered'
<1>1. /\ OcrTypes /\ OnePastLock /\ account \in Int /\ bus \in Seq(Event)
      /\ work \in [Workers -> Working \cup {Idle}]
  BY TypeGroups DEF BrokerTypes, OcrTypes, BusTypes
<1>2. UNCHANGED <<handling, orders, live, account>>
  BY Zenon
  DEF Ocr, TakeSnapshot, Unchanged, ReadPosition, NoSignal, Suppress, Decide, NoPrice,
      Publish, tradeVars, brokerVars
<1>3. /\ HandSale' <=> HandSale
      /\ NoLiveSale' <=> NoLiveSale
      /\ \A o \in DOMAIN live : LiveSale(o)' <=> LiveSale(o)
  BY <1>2 DEF HandSale, NoLiveSale, LiveSale
<1>4. ASSUME NEW v \in Workers, v # w
      PROVE  SendsSale(v)' <=> SendsSale(v) /\ work'[v] = work[v]
  <2>1. \E new : work' = [work EXCEPT ![w] = new]
    BY Zenon
    DEF Ocr, TakeSnapshot, Unchanged, ReadPosition, NoSignal, Suppress, Decide, NoPrice,
        Publish, Release
  <2>2. work'[v] = work[v]
    BY <1>1, <1>4, <2>1
  <2> QED
    BY <2>2 DEF SendsSale, At
<1>5. CASE Decide(w)
  <2>1. /\ At(w, "reading") /\ work[w] \in Reading
        /\ work' = [work EXCEPT ![w] = work'[w]]
        /\ work'[w].act = SignalOf(work[w])
        /\ work'[w].qty = Quantity(SignalOf(work[w]), work[w])
        /\ bus' = bus
    BY <1>1, <1>5, AtFacts DEF Decide
  <2>2. \A v \in Workers : v # w => ~SendsSale(v)'
    BY <1>1, <1>4, <2>1, Alone DEF Sends, SendsSale
  <2>3. ASSUME SendsSale(w)'
        PROVE  work'[w].qty <= account /\ NoSale(bus) /\ ~HandSale /\ NoLiveSale
    <3>1. SignalOf(work[w]) \in Exits
      BY <2>1, <2>3 DEF SendsSale
    <3>2. ~SaleUnderWay /\ work[w].shares = account
      BY <1>5, <3>1 DEF Decide
    <3>3. NoSale(bus) /\ ~HandSale /\ NoLiveSale
      BY <3>2 DEF SaleUnderWay, NoSale, IsSale, HandSale, NoLiveSale, LiveSale
    <3>4. work'[w].qty <= account
      BY <1>1, <2>1, <3>1, <3>2, SizedWithin DEF OneSaleCovered
    <3> QED
      BY <3>3, <3>4
  <2> QED
    BY <1>2, <1>3, <2>1, <2>2, <2>3 DEF OneSaleCovered, OneSale, NoSale
<1>6. CASE Publish(w)
  <2>1. At(w, "sending") /\ work[w] \in Sending /\ Request(work[w]) \in Event
        /\ Request(work[w]).type = "OrderRequest"
        /\ bus' = Append(bus, Request(work[w]))
    BY <1>1, <1>6, AtFacts, RequestTyped DEF Publish, Event
  <2>2. \A v \in Workers : ~SendsSale(v)'
    <3>1. work'[w] = Idle
      BY <1>1, <1>6 DEF Publish, Release
    <3>2. ~SendsSale(w)'
      BY <3>1 DEF SendsSale, At
    <3> QED
      BY <1>1, <1>4, <2>1, <3>2, Alone DEF Sends, SendsSale
  <2>3. /\ IsSale(Request(work[w])) <=> SendsSale(w)
        /\ Request(work[w]).qty = work[w].qty
    BY <2>1 DEF Request, IsSale, SendsSale
  <2>4. CASE SendsSale(w)
    <3>1. work[w].qty <= account /\ NoSale(bus) /\ ~HandSale /\ NoLiveSale
      BY <2>4 DEF OneSaleCovered
    <3>2. OneSale(bus', account)
      BY <1>1, <2>1, <2>3, <2>4, <3>1, AppendSales
    <3> QED
      BY <1>2, <1>3, <2>2, <3>1, <3>2 DEF OneSaleCovered, OneSale
  <2>5. CASE ~SendsSale(w)
    <3>1. OneSale(bus', account) /\ (NoSale(bus) => NoSale(bus'))
      BY <1>1, <2>1, <2>3, <2>5, AppendSales DEF OneSaleCovered
    <3> QED
      BY <1>2, <1>3, <2>2, <3>1 DEF OneSaleCovered, OneSale, NoSale
  <2> QED
    BY <2>4, <2>5
<1>7. CASE ~Decide(w) /\ ~Publish(w)
  <2>1. bus' = bus
    BY <1>7, Zenon
    DEF Ocr, TakeSnapshot, Unchanged, ReadPosition, NoSignal, Suppress, NoPrice
  <2>2. ~SendsSale(w)'
    <3>1. work'[w] = Idle \/ work'[w].stage \in {"waiting", "reading"}
      BY <1>1, <1>7
      DEF Ocr, TakeSnapshot, Unchanged, ReadPosition, NoSignal, Suppress, NoPrice, Release
    <3> QED
      BY <3>1 DEF SendsSale, At
  <2> QED
    BY <1>2, <1>3, <1>4, <2>1, <2>2 DEF OneSaleCovered, OneSale, NoSale
<1> QED
  BY <1>5, <1>6, <1>7

(* A step of the bus thread.                                               *)
LEMMA BusSales ==
    ASSUME TypeOK, OneSaleCovered, BusThread, Step
    PROVE  OneSaleCovered'
<1>1. /\ TradeTypes /\ BusTypes /\ account \in Int /\ bus \in Seq(Event)
      /\ orders \in Seq(Order) /\ DOMAIN orders = 1 .. Len(orders) /\ Len(orders) \in Nat
      /\ \A o \in DOMAIN live : o \in DOMAIN orders
  BY TradeFacts, TypeGroups DEF BrokerTypes, BusTypes
<1>2. UNCHANGED <<work, account>>
  BY Zenon
  DEF BusThread, Drop, RiskCheck, SkipRequest, Admit, ForceTrade, ForceActive, Refuse,
      RefuseTwin, SendFails, Send, HandleFill, HandleQuantity, HandleFull, ocrVars, brokerVars
<1>3. \A w \in Workers : SendsSale(w)' <=> SendsSale(w)
  BY <1>2 DEF SendsSale, At
<1>4. OneSale(bus, account)
  BY DEF OneSaleCovered
<1>5. ASSUME ~Send
      PROVE  /\ UNCHANGED live
             /\ \A o \in DOMAIN live : LiveSale(o)' <=> LiveSale(o)
             /\ NoLiveSale' <=> NoLiveSale
  <2>1. UNCHANGED live
    BY <1>5, Zenon
    DEF BusThread, Drop, RiskCheck, SkipRequest, Admit, ForceTrade, ForceActive, Refuse,
        RefuseTwin, SendFails, HandleFill, HandleQuantity, HandleFull, brokerVars
  <2>2. \A o \in DOMAIN live : LiveSale(o)' <=> LiveSale(o)
    BY <2>1, LiveSalesStay
  <2> QED
    BY <2>1, <2>2 DEF NoLiveSale
<1>6. ASSUME ~Send, HandSale' => HandSale /\ handling'.req = handling.req,
             OneSale(bus', account), NoSale(bus) => NoSale(bus')
      PROVE  OneSaleCovered'
  BY <1>2, <1>3, <1>5, <1>6 DEF OneSaleCovered, OneSale, NoSale
<1>7. CASE bus # <<>> /\ bus' = Tail(bus) /\ handling' = handling /\ ~Send
  <2>1. OneSale(bus', account) /\ (NoSale(bus) => NoSale(bus'))
    BY <1>1, <1>4, <1>7, TailSales
  <2>2. HandSale' <=> HandSale
    BY <1>7 DEF HandSale
  <2> QED
    BY <1>6, <1>7, <2>1, <2>2
<1>8. CASE bus' = bus /\ ~Send /\ (handling' = Idle \/ ForceTrade \/ ForceActive)
  <2>1. HandSale' => HandSale /\ handling'.req = handling.req
    <3>1. CASE handling' = Idle
      BY <3>1 DEF HandSale
    <3>2. CASE ForceTrade \/ ForceActive
      <4>1. handling # Idle /\ handling \in [req : Requests, forced : BOOLEAN, trade : 0 .. Len(trades)]
        BY <1>1, <3>2 DEF ForceTrade, ForceActive, TradeTypes
      <4>2. handling'.req = handling.req
        BY <3>2, <4>1 DEF ForceTrade, ForceActive
      <4> QED
        BY <4>1, <4>2 DEF HandSale
    <3> QED
      BY <1>8, <3>1, <3>2
  <2> QED
    BY <1>4, <1>6, <1>8, <2>1 DEF OneSale, NoSale
<1>9. CASE RiskCheck
  <2>1. /\ Head(bus) \in Requests /\ Tail(bus) \in Seq(Event) /\ bus # <<>>
        /\ UNCHANGED <<handling, live>>
    BY <1>1, <1>9, HeadFacts DEF RiskCheck, NextIs, tradeVars, brokerVars
  <2> DEFINE new == [Head(bus) EXCEPT !.type = "ValidatedOrderRequest"]
  <2>2. new \in Event /\ new.qty = Head(bus).qty /\ (IsSale(new) <=> IsSale(Head(bus)))
    BY <2>1 DEF Requests, Event, IsSale
  <2>3. bus' = Append(Tail(bus), new) \/ bus' = Tail(bus)
    BY <1>9 DEF RiskCheck
  <2> HIDE DEF new
  <2>4. /\ OneSale(Tail(bus), account)
        /\ NoSale(bus) => NoSale(Tail(bus)) /\ ~IsSale(Head(bus))
        /\ IsSale(Head(bus)) => NoSale(Tail(bus)) /\ Head(bus).qty <= account
    BY <1>1, <1>4, <2>1, TailSales
  <2>5. OneSale(bus', account) /\ (NoSale(bus) => NoSale(bus'))
    BY <1>1, <2>1, <2>2, <2>3, <2>4, AppendSales
  <2>6. HandSale' <=> HandSale
    BY <2>1 DEF HandSale
  <2>7. CASE Send
    BY <1>9, <2>7 DEF RiskCheck, Send, NextIs, Executing
  <2> QED
    BY <1>6, <2>1, <2>5, <2>6, <2>7
<1>10. CASE Admit
  <2>1. /\ bus # <<>> /\ bus' = Tail(bus) /\ handling = Idle /\ handling'.req = Head(bus)
        /\ Head(bus).type = "ValidatedOrderRequest"
    BY <1>10 DEF Admit, NextIs
  <2>2. /\ OneSale(bus', account)
        /\ NoSale(bus) => NoSale(bus') /\ ~IsSale(Head(bus))
        /\ IsSale(Head(bus)) => NoSale(bus') /\ Head(bus).qty <= account
    BY <1>1, <1>4, <2>1, TailSales
  <2>3. HandSale' => /\ IsSale(Head(bus)) /\ NoSale(bus') /\ handling'.req.qty <= account
                     /\ ~NoSale(bus)
    BY <2>1, <2>2 DEF HandSale, IsSale
  <2>4. ~Send
    BY <2>1 DEF Send, Executing
  <2> QED
    BY <1>2, <1>3, <1>5, <2>2, <2>3, <2>4 DEF OneSaleCovered
<1>11. CASE Send
  <2> DEFINE id == Len(orders) + 1
  <2>1. /\ live' = [o \in DOMAIN live \cup {id} |-> IF o = id THEN handling.req.qty ELSE live[o]]
        /\ Executing /\ bus' = bus /\ handling' = Idle
        /\ orders' = Recorded("PENDING_SUBMISSION", TRUE)
    BY <1>11 DEF Send
  <2>2. id \notin DOMAIN live
    BY <1>1
  <2>3. orders'[id].side = Side(handling.req.act)
    BY <1>1, <2>1, RecordedSide
  <2>4. ~HandSale'
    BY <2>1 DEF HandSale
  <2> HIDE DEF id
  <2>7. /\ DOMAIN live' = DOMAIN live \cup {id} /\ live'[id] = handling.req.qty
        /\ \A o \in DOMAIN live : live'[o] = live[o]
    BY <2>1, <2>2
  <2>8. \A o \in DOMAIN live : LiveSale(o)' <=> LiveSale(o)
    BY <1>1, <2>7, OrdersStay DEF LiveSale
  <2>9. orders'[id].side = -1 => HandSale
    <3>1. handling.req.act \notin Exits => Side(handling.req.act) = 1
      BY DEF Side
    <3>2. handling # Idle
      BY <2>1 DEF Executing
    <3>3. handling.req.act \notin Exits => orders'[id].side = 1
      BY <2>3, <3>1
    <3> QED
      BY <3>2, <3>3 DEF HandSale
  <2>5. CASE HandSale
    <3>1. handling.req.qty <= account /\ NoLiveSale /\ NoSale(bus)
          /\ \A w \in Workers : ~SendsSale(w)
      BY <2>5 DEF OneSaleCovered
    <3>2. \A o \in DOMAIN live' : LiveSale(o)' => o = id
      BY <2>7, <2>8, <3>1 DEF NoLiveSale
    <3>3. OneSale(bus', account') /\ NoSale(bus')
      BY <1>2, <1>4, <2>1, <3>1 DEF OneSale, NoSale
    <3>4. \A o \in DOMAIN live' : LiveSale(o)' => live'[o] <= account'
      BY <1>2, <2>7, <3>1, <3>2
    <3> QED
      BY <1>2, <1>3, <2>4, <3>1, <3>2, <3>3, <3>4 DEF OneSaleCovered
  <2>6. CASE ~HandSale
    <3>1. \A o \in DOMAIN live' : LiveSale(o)' => o \in DOMAIN live /\ LiveSale(o)
      BY <2>6, <2>7, <2>8, <2>9 DEF LiveSale
    <3>2. OneSale(bus', account') /\ (NoSale(bus') <=> NoSale(bus))
      BY <1>2, <1>4, <2>1 DEF OneSale, NoSale
    <3>3. /\ NoLiveSale => NoLiveSale'
          /\ \A o \in DOMAIN live' : LiveSale(o)' => live'[o] = live[o]
      BY <2>7, <3>1 DEF NoLiveSale
    <3>4. /\ \A o \in DOMAIN live' : LiveSale(o)' => live'[o] <= account'
          /\ \A o, p \in DOMAIN live' : LiveSale(o)' /\ LiveSale(p)' => o = p
      BY <1>2, <3>1, <3>3 DEF OneSaleCovered
    <3> QED
      BY <1>2, <1>3, <2>4, <3>2, <3>3, <3>4 DEF OneSaleCovered
  <2> QED
    BY <2>5, <2>6
<1>12. CASE Drop \/ SkipRequest \/ HandleFill \/ HandleQuantity \/ HandleFull
  <2>1. bus # <<>> /\ bus' = Tail(bus) /\ handling' = handling /\ handling = Idle
    BY <1>12 DEF Drop, SkipRequest, HandleFill, HandleQuantity, HandleFull, NextIs, tradeVars
  <2>2. ~Send
    BY <2>1 DEF Send, Executing
  <2> QED
    BY <1>7, <2>1, <2>2
<1>13. CASE ~Send /\ (ForceTrade \/ ForceActive \/ Refuse \/ RefuseTwin \/ SendFails)
  <2>1. bus' = bus /\ (handling' = Idle \/ ForceTrade \/ ForceActive)
    BY <1>13 DEF ForceTrade, ForceActive, Refuse, RefuseTwin, SendFails
  <2> QED
    BY <1>8, <1>13, <2>1
<1> QED
  BY <1>9, <1>10, <1>11, <1>12, <1>13, Zenon DEF BusThread

(* A step of the broker, or of what publishes what it sends.               *)
LEMMA BrokerSales ==
    ASSUME TypeOK, OneSaleCovered, Broker, Step
    PROVE  OneSaleCovered'
<1>1. /\ account \in Int /\ account >= 0 /\ bus \in Seq(Event) /\ OneSale(bus, account)
      /\ orders \in Seq(Order)
      /\ \A o \in DOMAIN live : o \in DOMAIN orders /\ live[o] \in Nat
  BY TypeGroups DEF BrokerTypes, BusTypes, TradeTypes, OneSaleCovered
<1>2. UNCHANGED <<work, handling, orders>>
  BY Zenon
  DEF Broker, BrokerFills, BrokerFillsUnpriced, BrokerFillsAsBuy, BrokerEnds, BrokerPushes,
      ocrVars, tradeVars
<1>3. /\ \A w \in Workers : SendsSale(w)' <=> SendsSale(w)
      /\ HandSale' <=> HandSale
  BY <1>2 DEF SendsSale, At, HandSale
<1>4. ASSUME NEW e \in Event, ~IsSale(e), bus' = bus \/ bus' = Append(bus, e)
      PROVE  bus' \in Seq(Event) /\ OneSale(bus', account) /\ (NoSale(bus') <=> NoSale(bus))
  <2>1. CASE bus' = bus
    <3>1. OneSale(bus', account) /\ (NoSale(bus') <=> NoSale(bus))
      BY <1>1, <2>1, Zenon DEF OneSale, NoSale
    <3> QED
      BY <1>1, <2>1, <3>1
  <2>2. CASE bus' = Append(bus, e)
    <3>1. bus' \in Seq(Event)
      BY <1>1, <1>4, <2>2
    <3>2. /\ OneSale(Append(bus, e), account)
          /\ NoSale(bus) => NoSale(Append(bus, e))
          /\ ~NoSale(bus) => ~NoSale(Append(bus, e))
      BY <1>1, <1>4, AppendSales
    <3>3. OneSale(bus', account) /\ (NoSale(bus') <=> NoSale(bus))
      BY <2>2, <3>2 DEF OneSale, NoSale
    <3> QED
      BY <3>1, <3>3
  <2> QED
    BY <1>4, <2>1, <2>2
<1>5. ASSUME NEW o \in DOMAIN live, NEW n \in 1 .. live[o], Executed(o, n),
             bus' \in Seq(Event), OneSale(bus', account), NoSale(bus') <=> NoSale(bus)
      PROVE  OneSaleCovered'
  <2>1. orders[o] \in Order /\ n \in Nat /\ n <= live[o] /\ live[o] \in Nat
    BY <1>1
  <2>2. /\ DOMAIN live' \subseteq DOMAIN live
        /\ \A p \in DOMAIN live' : live'[p] = IF p = o THEN live[o] - n ELSE live[p]
    <3>1. CASE n = live[o]
      <4>1. live' = Without(o)
        BY <1>5, <3>1 DEF Executed
      <4> QED
        BY <4>1 DEF Without
    <3>2. CASE n # live[o]
      <4>1. live' = [live EXCEPT ![o] = live[o] - n]
        BY <1>5, <3>2 DEF Executed
      <4>2. live \in [DOMAIN live -> Nat \ {0}]
        BY TypeGroups DEF BrokerTypes
      <4> QED
        BY <4>1, <4>2
    <3> QED
      BY <3>1, <3>2
  <2>3. \A p \in DOMAIN live' : LiveSale(p)' => LiveSale(p)
    BY <1>2, <2>2 DEF LiveSale
  <2>4. NoLiveSale => NoLiveSale'
    BY <2>2, <2>3 DEF NoLiveSale
  <2>5. CASE orders[o].side = 1
    <3>1. account' = account + n /\ account <= account' /\ account' \in Int
      BY <1>1, <1>5, <2>1, <2>5 DEF Executed
    <3>2. OneSale(bus', account')
      BY <1>1, <1>5, <3>1, SaleCovered
    <3>3. \A p \in DOMAIN live' : LiveSale(p)' => live'[p] = live[p] /\ live[p] <= account'
      <4>1. \A p \in DOMAIN live' : LiveSale(p)' => p # o
        BY <1>2, <2>5 DEF LiveSale
      <4>2. \A p \in DOMAIN live' : LiveSale(p)' => live[p] <= account /\ live[p] \in Nat
        BY <1>1, <2>2, <2>3 DEF OneSaleCovered
      <4> QED
        BY <1>1, <2>2, <3>1, <4>1, <4>2
    <3>4. \A w \in Workers : SendsSale(w) => work[w].qty <= account'
      <4>1. \A w \in Workers : SendsSale(w) => work[w].qty \in Nat
        BY TypeGroups, AtFacts DEF SendsSale, Sending
      <4> QED
        BY <1>1, <3>1, <4>1 DEF OneSaleCovered
    <3>5. HandSale => handling.req.qty <= account'
      <4>1. HandSale => handling.req.qty \in Nat
        BY TypeGroups DEF TradeTypes, HandSale, Requests
      <4> QED
        BY <1>1, <3>1, <4>1 DEF OneSaleCovered
    <3>6. account' >= 0 /\ (~NoSale(bus') => ~HandSale' /\ NoLiveSale')
      BY <1>1, <1>3, <1>5, <2>4, <3>1 DEF OneSaleCovered
    <3>7. \A p, q \in DOMAIN live' : LiveSale(p)' /\ LiveSale(q)' => p = q
      BY <2>2, <2>3 DEF OneSaleCovered
    <3>8. \A w \in Workers : SendsSale(w)' =>
            work'[w].qty <= account' /\ NoSale(bus') /\ ~HandSale' /\ NoLiveSale'
      BY <1>2, <1>3, <1>5, <2>4, <3>4 DEF OneSaleCovered
    <3>9. HandSale' => handling'.req.qty <= account' /\ NoLiveSale'
      BY <1>2, <1>3, <2>4, <3>5 DEF OneSaleCovered
    <3>10. \A p \in DOMAIN live' : LiveSale(p)' => live'[p] <= account'
      BY <3>3
    <3> QED
      BY <3>2, <3>6, <3>7, <3>8, <3>9, <3>10 DEF OneSaleCovered
  <2>6. CASE orders[o].side = -1
    <3>1. LiveSale(o) /\ account' = account - n /\ live[o] <= account
      BY <1>1, <1>5, <2>1, <2>6 DEF Executed, LiveSale, OneSaleCovered
    <3>2. /\ \A w \in Workers : ~SendsSale(w)
          /\ NoSale(bus) /\ ~HandSale
          /\ \A p \in DOMAIN live' : LiveSale(p)' => p = o
      BY <2>2, <2>3, <3>1 DEF OneSaleCovered, NoLiveSale
    <3>3. account' >= 0
      BY <1>1, <2>1, <3>1
    <3>4. \A p \in DOMAIN live' : LiveSale(p)' => live'[p] <= account'
      BY <1>1, <2>1, <2>2, <3>1, <3>2
    <3>5. OneSale(bus', account')
      BY <1>5, <3>2 DEF OneSale, NoSale
    <3> QED
      BY <1>3, <1>5, <3>2, <3>3, <3>4, <3>5 DEF OneSaleCovered
  <2> QED
    BY <2>1, <2>5, <2>6 DEF Order
<1>6. ASSUME NEW o \in DOMAIN live, NEW n \in 1 .. live[o],
             BrokerFills(o, n) \/ BrokerFillsUnpriced(o, n) \/ BrokerFillsAsBuy(o, n)
      PROVE  OneSaleCovered'
  <2>1. orders[o] \in Order /\ n \in Nat
    BY <1>1
  <2>2. orders[o].side * n \in Int
    BY <2>1, SideFacts DEF Order
  <2> DEFINE e(k) == [type |-> "OrderFilled", change |-> k]
  <2>3. \A k \in Int : e(k) \in Event /\ ~IsSale(e(k))
    BY DEF Event, IsSale
  <2>4. Executed(o, n) /\ \E k \in {orders[o].side * n, n} : bus' = bus \/ bus' = Append(bus, e(k))
    BY <1>6 DEF BrokerFills, BrokerFillsUnpriced, BrokerFillsAsBuy
  <2> HIDE DEF e
  <2>5. PICK k \in Int : bus' = bus \/ bus' = Append(bus, e(k))
    BY <2>1, <2>2, <2>4
  <2> QED
    BY <1>4, <1>5, <2>3, <2>4, <2>5
<1>7. ASSUME NEW o \in DOMAIN live, BrokerEnds(o)
      PROVE  OneSaleCovered'
  <2>1. live' = [p \in DOMAIN live \ {o} |-> live[p]] /\ UNCHANGED <<account, bus>>
    BY <1>7 DEF BrokerEnds, Without
  <2>2. /\ \A p \in DOMAIN live' : p \in DOMAIN live /\ live'[p] = live[p]
        /\ \A p \in DOMAIN live' : LiveSale(p)' => LiveSale(p)
    BY <1>2, <2>1 DEF LiveSale
  <2>3. NoLiveSale => NoLiveSale'
    BY <2>2 DEF NoLiveSale
  <2> QED
    BY <1>1, <1>2, <1>3, <2>1, <2>2, <2>3 DEF OneSaleCovered, OneSale, NoSale
<1>8. ASSUME NEW type \in {"PositionQuantity", "FullPosition"}, BrokerPushes(type)
      PROVE  OneSaleCovered'
  <2> DEFINE e == [type |-> type, shares |-> account]
  <2>1. e \in Event /\ ~IsSale(e)
    BY <1>1 DEF Event, IsSale
  <2>2. bus' = Append(bus, e) /\ UNCHANGED <<live, account>>
    BY <1>8 DEF BrokerPushes, brokerVars
  <2> HIDE DEF e
  <2>3. OneSale(bus', account) /\ (NoSale(bus') <=> NoSale(bus))
    BY <1>4, <2>1, <2>2
  <2>4. /\ NoLiveSale' <=> NoLiveSale
        /\ \A o \in DOMAIN live : LiveSale(o)' <=> LiveSale(o)
    BY <1>2, <2>2 DEF NoLiveSale, LiveSale
  <2> QED
    BY <1>2, <1>3, <2>2, <2>3, <2>4 DEF OneSaleCovered
<1> QED
  BY <1>6, <1>7, <1>8 DEF Broker

LEMMA SalesKept ==
    ASSUME TypeOK, SaleInv, Step
    PROVE  SaleInv'
<1> SUFFICES ASSUME overlap' = FALSE
             PROVE  OneSaleCovered'
  <2>1. overlap' \in BOOLEAN
    BY BookTyped DEF BookTypes
  <2> QED
    BY <2>1 DEF SaleInv
<1>1. ~overlap
  <2>1. CASE \E w \in Workers : Decide(w)
    BY <2>1 DEF Decide
  <2>2. CASE ~\E w \in Workers : Decide(w)
    <3>1. overlap' = overlap
      BY <2>2, Zenon
      DEF Step, Ocr, TakeSnapshot, Unchanged, ReadPosition, NoSignal, Suppress, NoPrice,
          Publish, BusThread, Drop, RiskCheck, SkipRequest, Admit, ForceTrade, ForceActive,
          Refuse, RefuseTwin, SendFails, Send, HandleFill, HandleQuantity, HandleFull,
          PollThread, PollFetch, PollCompare, PollAgrees, PollSync, Broker, BrokerFills,
          BrokerFillsUnpriced, BrokerFillsAsBuy, BrokerEnds, BrokerPushes, Tick, history
    <3> QED
      BY <3>1
  <2> QED
    BY <2>1, <2>2
<1>2. OneSaleCovered
  BY <1>1 DEF SaleInv
<1>3. CASE PollThread \/ Tick
  <2>1. UNCHANGED <<work, bus, handling, live, orders, account>>
    BY <1>3, Zenon
    DEF PollThread, PollFetch, PollCompare, PollAgrees, PollSync, Tick, ocrVars, tradeVars,
        brokerVars
  <2> QED
    BY <1>2, <2>1
    DEF OneSaleCovered, OneSale, NoSale, SendsSale, At, HandSale, LiveSale, NoLiveSale
<1> QED
  BY <1>2, <1>3, OcrSales, BusSales, BrokerSales DEF Step

(* The account is never sold short as long as each sale is sized from what *)
(* the broker holds and while no other is under way: partial fills, polls  *)
(* and pushes cannot do it.  Needs that it is not short at the start.      *)
THEOREM ShortOnlyFromOverlaps ==
    ASSUME StartShares \subseteq Nat
    PROVE  Spec => []ShortOnlyFromOverlap
<1>1. Init => SaleInv
  <2> SUFFICES ASSUME Init
               PROVE  OneSaleCovered
    BY DEF SaleInv
  <2>1. account \in StartShares /\ work = [w \in Workers |-> Idle] /\ bus = <<>>
        /\ handling = Idle /\ live = <<>>
    BY DEF Init
  <2>2. DOMAIN bus = {} /\ DOMAIN live = {}
    BY <2>1
  <2>3. account >= 0
    BY <2>1
  <2>4. (\A w \in Workers : ~SendsSale(w)) /\ ~HandSale
    BY <2>1 DEF SendsSale, At, HandSale
  <2>5. NoSale(bus) /\ OneSale(bus, account) /\ NoLiveSale
    BY <2>2 DEF NoSale, OneSale, NoLiveSale
  <2> QED
    BY <2>2, <2>3, <2>4, <2>5 DEF OneSaleCovered
<1>2. IInv /\ SaleInv /\ [Step]_vars => SaleInv'
  <2>1. ASSUME IInv, SaleInv, Step PROVE SaleInv'
    BY <2>1, SalesKept DEF IInv
  <2>2. ASSUME SaleInv, UNCHANGED vars PROVE SaleInv'
    BY <2>2
    DEF vars, ocrVars, tradeVars, brokerVars, history, SaleInv, OneSaleCovered, OneSale,
        NoSale, SendsSale, At, HandSale, LiveSale, NoLiveSale
  <2> QED
    BY <2>1, <2>2
<1>3. IInv /\ SaleInv => ShortOnlyFromOverlap
  BY TypeGroups DEF IInv, BrokerTypes, SaleInv, OneSaleCovered, ShortOnlyFromOverlap
<1> QED
  BY <1>1, <1>2, <1>3, Inductive, PTL DEF Spec

=============================================================================
