----------------------------- MODULE TradingPath -----------------------------
(***************************************************************************)
(* The trading path of the core for one symbol, from what the screen shows *)
(* to the position and back:                                               *)
(*                                                                         *)
(*  - the OCR workers (ocr_scalping_signal_orchestrator_service.py) turn   *)
(*    snapshots into signals, send them through the master action filter   *)
(*    and publish order requests;                                          *)
(*  - the thread of the event bus runs the handlers: risk check            *)
(*    (risk_service.py), trade manager and executor                        *)
(*    (trade_manager_service.py, trade_executor.py) and the position       *)
(*    manager's;                                                           *)
(*  - the poll thread of the trade manager compares the positions with     *)
(*    those it asks the broker for, and corrects them;                     *)
(*  - the reader thread of lightspeed_broker.py publishes what the broker  *)
(*    sends.                                                               *)
(*                                                                         *)
(* The bus is a queue that may lose its oldest event (see EventBus: stale  *)
(* and overflowing events).  What the broker sends is published in order,  *)
(* so the socket and the bus are one queue.  Events that only inform, and  *)
(* order statuses and rejections, are left out: their one handler in the   *)
(* trading path is OrderEventProcessor, whose bound methods are collected  *)
(* as soon as they are subscribed (order_event_processor.py:147).          *)
(***************************************************************************)
EXTENDS MasterActionFilter, TradeLifecycle, PositionManager, SequencesExt

CONSTANTS
  Workers,            \* threads of the OCR signal pool
  Snapshots,          \* what the screen may show: [hint, cost, pnl]
  NoSnapshot,
  AddDelta,           \* cost_basis_initial_add_abs_delta_threshold
  InitialSize,        \* initial_share_size
  AddSize,            \* manual_shares
  FingerprintExpiry,  \* FINGERPRINT_STALE_ORDER_EXPIRY_SEC
  StartShares,        \* what the broker may hold when the program starts
  Idle,               \* a thread that does nothing
  None,               \* no order of the kind yet
  Off,                \* there is no poll thread
  MaxSnapshots, MaxTime, MaxUpsets, MaxTrades  \* bounds

ASSUME PathAssumption ==
  /\ Snapshots \subseteq [hint : {"closed", "long"}, cost : Int, pnl : Int]
  /\ InitialSize \in Nat /\ AddSize \in Nat
  /\ StartShares \subseteq Int

VARIABLES
  seen,       \* _previous_ocr_states[symbol]
  lastSent,   \* FingerprintService._last_sent_action_cache[symbol]
  work,       \* what each OCR worker is about
  taken,      \* snapshots taken so far
  bus,        \* events published and not yet handled
  handling,   \* the validated request the bus thread is executing
  orders,     \* OrderRepository._copy_orders, by local id
  live,       \* orders at the broker: local id -> shares not filled
  account,    \* shares the broker holds for us
  poll,       \* the poll thread
  upsets,     \* pushes sent, events lost and fills with a wrong side so far
  \* history
  exact,      \* the position and the fills on their way make up the account
  overlap,    \* a sale was sized while another was under way or from a wrong book
  lastAdd, lastReduce  \* the order requests the next one is spaced from

spacing == <<lastAdd, lastReduce>>
ocrVars == <<work, taken, seen, lastSent, spacing, filterVars>>
tradeVars == <<handling, trades, orders>>
brokerVars == <<live, account>>
bookVars == <<pos, poll>>
history == <<exact, overlap>>
vars == <<clock, ocrVars, bus, tradeVars, brokerVars, bookVars, upsets, history>>
-----------------------------------------------------------------------------
Exits == {"REDUCE_PARTIAL", "CLOSE_POSITION"}
Actions == {"OPEN_LONG", "ADD_LONG"} \cup Exits

Side(act) == IF act \in Exits THEN -1 ELSE 1

\* TradeManagerService.initialize takes over what the broker holds, if it
\* answers, and starts the poll thread.  Nothing in the repository calls it:
\* without it there is no poll thread and the position starts as unknown.
StartUp ==
  \/ poll = Off /\ pos = Unknown /\ trades = <<>>
  \/ poll = Idle /\ pos = Unknown /\ trades = <<>>
  \/ /\ account # 0 /\ poll = Idle
     /\ pos = Synced(Unknown, account)
     /\ trades = CreatedOrSynced(<<>>, account)

Init ==
  /\ clock = 0
  /\ FilterInit
  /\ seen = NoSnapshot /\ lastSent = None /\ work = [w \in Workers |-> Idle] /\ taken = 0
  /\ bus = <<>> /\ handling = Idle
  /\ orders = <<>>
  /\ account \in StartShares
  /\ StartUp
  /\ live = <<>> /\ upsets = 0
  /\ exact = (pos.shares = account) /\ overlap = FALSE
  /\ lastAdd = None /\ lastReduce = None
-----------------------------------------------------------------------------
(* The OCR workers.  work[w] is Idle or what worker w is about: a snapshot  *)
(* that passed the duplicate check and "waits" for _state_lock; "reading",  *)
(* with the position it has read; "sending", with the order to be sent.     *)
(* The lock is held from the reading on.                                    *)

\* Mutant: the workers interpret their snapshots side by side.
NeverLocked == FALSE

Locked == \E w \in Workers : work[w] # Idle /\ work[w].stage # "waiting"

At(w, stage) == work[w] # Idle /\ work[w].stage = stage

\* FingerprintService.is_duplicate.  Nothing clears the entry: the handlers
\* that would are bound methods, collected as soon as they are subscribed.
Duplicate(s) ==
  /\ lastSent # None
  /\ s = lastSent.snap
  /\ clock - lastSent.at <= FingerprintExpiry

\* A snapshot is dequeued; the duplicate check is made before the lock is
\* taken, and a duplicate is forgotten at once.
TakeSnapshot(w, s) ==
  /\ work[w] = Idle
  /\ taken < MaxSnapshots
  /\ ~Duplicate(s)
  /\ taken' = taken + 1
  /\ work' = [work EXCEPT ![w] = [stage |-> "waiting", snap |-> s]]
  /\ UNCHANGED <<clock, seen, lastSent, spacing, filterVars, bus, tradeVars,
                 brokerVars, bookVars, upsets, history>>

\* The lock is free.  A snapshot that repeats the previous one ends here; one
\* with the same fields may still differ in pnl_per_share, and goes on.
Unchanged(w) ==
  /\ At(w, "waiting") /\ ~Locked
  /\ work[w].snap = seen
  /\ work' = [work EXCEPT ![w] = Idle]
  /\ UNCHANGED <<clock, taken, seen, lastSent, spacing, filterVars, bus,
                 tradeVars, brokerVars, bookVars, upsets, history>>

ReadPosition(w) ==
  /\ At(w, "waiting") /\ ~Locked
  /\ work' = [work EXCEPT ![w] =
                [stage |-> "reading", snap |-> work[w].snap,
                 shares |-> pos.shares, strategy |-> pos.strategy]]
  /\ UNCHANGED <<clock, taken, seen, lastSent, spacing, filterVars, bus,
                 tradeVars, brokerVars, bookVars, upsets, history>>

OldCost == IF seen = NoSnapshot THEN 0 ELSE seen.cost
OldPnl == IF seen = NoSnapshot THEN 0 ELSE seen.pnl

\* interpret_single_snapshot, given the position read before.  An OPEN reads
\* the position once more.
SignalOf(r) ==
  LET moved == Abs(r.snap.cost - OldCost) >= AddDelta
      from(strategy, hint) == r.strategy = strategy /\ r.snap.hint = hint
  IN CASE from("closed", "long") /\ pos.shares = 0 -> "OPEN_LONG"
       [] from("long", "closed") -> "CLOSE_POSITION"
       [] from("long", "long") /\ moved -> "ADD_LONG"
       [] /\ from("long", "long") /\ ~moved
          /\ r.snap.pnl - OldPnl >= ReduceDelta -> "REDUCE_PARTIAL"
       [] OTHER -> "NONE"

\* half of n, rounded as Python's round() does: to even
HalfOf(n) == IF n % 4 = 3 THEN n \div 2 + 1 ELSE n \div 2

\* Mutant: a CLOSE sells what an OPEN and an ADD have bought.
QuantityOfPlan(act, r) ==
  CASE act = "OPEN_LONG" -> InitialSize
    [] act = "ADD_LONG" -> AddSize
    [] act = "REDUCE_PARTIAL" -> HalfOf(Abs(r.shares))
    [] OTHER -> InitialSize + AddSize

\* _calculate_quantity_for_signal, reduce_percentage at its default of 50
Quantity(act, r) ==
  CASE act = "OPEN_LONG" -> InitialSize
    [] act = "ADD_LONG" -> AddSize
    [] act = "REDUCE_PARTIAL" -> HalfOf(Abs(r.shares))
    [] OTHER -> Abs(r.shares)

\* filter_signal
FilterSignal(act, s, passed) ==
  \/ act = "ADD_LONG" /\ FilterAdd(s.cost, passed)
  \/ act = "REDUCE_PARTIAL" /\ FilterReduce(s.pnl, passed)
  \/ act \in {"OPEN_LONG", "CLOSE_POSITION"} /\ passed = TRUE /\ ResetSymbol

\* The snapshot is remembered and the lock released.
Release(w) ==
  /\ seen' = work[w].snap
  /\ work' = [work EXCEPT ![w] = Idle]

\* An OPEN or CLOSE that passes, and an ADD or REDUCE that passes and comes to
\* nothing, leave no order for the next one to be spaced from.
Forget(acts, act) ==
  /\ lastAdd' = IF act \in acts \cap {"OPEN_LONG", "CLOSE_POSITION", "ADD_LONG"}
                THEN None ELSE lastAdd
  /\ lastReduce' = IF act \in acts \cap {"OPEN_LONG", "CLOSE_POSITION", "REDUCE_PARTIAL"}
                   THEN None ELSE lastReduce

NoSignal(w) ==
  /\ At(w, "reading")
  /\ SignalOf(work[w]) = "NONE"
  /\ Release(w)
  /\ UNCHANGED <<clock, taken, lastSent, spacing, filterVars, bus, tradeVars,
                 brokerVars, bookVars, upsets, history>>

\* The filter suppresses the signal, or its quantity comes to 0.
Suppress(w) ==
  /\ At(w, "reading")
  /\ LET act == SignalOf(work[w]) IN
     \E passed \in BOOLEAN :
       /\ FilterSignal(act, work[w].snap, passed)
       /\ passed => Quantity(act, work[w]) = 0
       /\ Forget(IF passed THEN Actions ELSE {}, act)
  /\ Release(w)
  /\ UNCHANGED <<clock, taken, lastSent, bus, tradeVars, brokerVars, bookVars,
                 upsets, history>>

\* a sale somewhere between its decision and its last fill
SaleUnderWay ==
  \/ \E i \in DOMAIN bus :
       /\ bus[i].type \in {"OrderRequest", "ValidatedOrderRequest"}
       /\ bus[i].act \in Exits
  \/ handling # Idle /\ handling.req.act \in Exits
  \/ \E o \in DOMAIN live : orders[o].side = -1

\* The filter lets the signal pass and the order is sized by the position read
\* before.
Decide(w) ==
  /\ At(w, "reading")
  /\ LET act == SignalOf(work[w])
         qty == Quantity(act, work[w])
     IN /\ FilterSignal(act, work[w].snap, TRUE)
        /\ qty > 0
        /\ work' = [work EXCEPT ![w] =
                      [stage |-> "sending", snap |-> work[w].snap, act |-> act, qty |-> qty]]
        /\ Forget({"OPEN_LONG", "CLOSE_POSITION"}, act)
        /\ overlap' = \/ overlap
                      \/ act \in Exits /\ (SaleUnderWay \/ work[w].shares # account)
  /\ UNCHANGED <<clock, taken, seen, lastSent, bus, tradeVars, brokerVars,
                 bookVars, upsets, exact>>

\* No price for the order: the filter stays as its pass has left it, and
\* nothing is published.
NoPrice(w) ==
  /\ At(w, "sending")
  /\ Forget(Actions, work[w].act)
  /\ Release(w)
  /\ UNCHANGED <<clock, taken, lastSent, filterVars, bus, tradeVars,
                 brokerVars, bookVars, upsets, history>>

\* request_id names the action and the second
Request(r) ==
  [type |-> "OrderRequest", act |-> r.act, qty |-> r.qty, cost |-> r.snap.cost,
   at |-> clock]

\* The request is published, then the action recorded with the filter and the
\* fingerprint remembered.
Publish(w) ==
  LET r == work[w] IN
  /\ At(w, "sending")
  /\ bus' = Append(bus, Request(r))
  /\ CASE r.act = "ADD_LONG" -> RecordAdd(r.snap.cost)
       [] r.act = "REDUCE_PARTIAL" -> RecordReduce(r.snap.pnl)
       [] OTHER -> UNCHANGED filterVars
  /\ lastAdd' = CASE r.act = "ADD_LONG" -> [at |-> clock, base |-> r.snap.cost]
                  [] r.act = "REDUCE_PARTIAL" -> None
                  [] OTHER -> lastAdd
  /\ lastReduce' = CASE r.act = "REDUCE_PARTIAL" -> [at |-> clock, base |-> r.snap.pnl]
                     [] r.act = "ADD_LONG" -> None
                     [] OTHER -> lastReduce
  /\ lastSent' = [snap |-> r.snap, at |-> clock]
  /\ Release(w)
  /\ UNCHANGED <<clock, taken, tradeVars, brokerVars, bookVars, upsets,
                 history>>

Ocr(w) ==
  \/ \E s \in Snapshots : TakeSnapshot(w, s)
  \/ Unchanged(w) \/ ReadPosition(w) \/ NoSignal(w) \/ Suppress(w)
  \/ Decide(w) \/ NoPrice(w) \/ Publish(w)
-----------------------------------------------------------------------------
(* The thread of the event bus.                                            *)

NextIs(type) ==
  /\ handling = Idle
  /\ bus # <<>>
  /\ Head(bus).type = type

Polling == poll \notin {Off, Idle}

\* poll.ahead: how many of the fills made before the broker answered the poll
\* are not handled; not 0 again once another is handled, or one is lost or on
\* the wrong side
PollSeesFill == IF Polling THEN [poll EXCEPT !.ahead = @ - 1] ELSE poll
PollMissesFill == IF Polling THEN [poll EXCEPT !.ahead = -1] ELSE poll

\* The oldest event is dropped: stale, pushed out of a full queue, or a fill
\* whose price or quantity the position manager refuses.
Drop ==
  /\ handling = Idle /\ bus # <<>>
  /\ upsets < MaxUpsets
  /\ upsets' = upsets + 1
  /\ bus' = Tail(bus)
  /\ exact' = (exact /\ Head(bus).type # "OrderFilled")
  /\ poll' = IF Head(bus).type = "OrderFilled" THEN PollMissesFill ELSE poll
  /\ UNCHANGED <<clock, ocrVars, tradeVars, brokerVars, pos, overlap>>

\* RiskManagementService.handle_order_request: the request goes to the end of
\* the queue once more, or is rejected.
RiskCheck ==
  /\ NextIs("OrderRequest")
  /\ \/ bus' = Append(Tail(bus), [Head(bus) EXCEPT !.type = "ValidatedOrderRequest"])
     \/ bus' = Tail(bus)
  /\ UNCHANGED <<clock, ocrVars, tradeVars, brokerVars, bookVars, upsets,
                 history>>

\* Trading is disabled, as the GUI or the risk service may do at any time.
SkipRequest ==
  /\ NextIs("ValidatedOrderRequest")
  /\ bus' = Tail(bus)
  /\ UNCHANGED <<clock, ocrVars, tradeVars, brokerVars, bookVars, upsets,
                 history>>

\* _handle_validated_order_request: an OPEN gets a trade of its own, any other
\* action the active one.
Admit ==
  /\ NextIs("ValidatedOrderRequest")
  /\ LET opens == Head(bus).act = "OPEN_LONG" IN
     /\ trades' = IF opens THEN Created(trades, "OPEN_PENDING") ELSE trades
     /\ handling' = [req |-> Head(bus), forced |-> FALSE,
                     trade |-> IF opens THEN Len(trades) + 1 ELSE FindActive(trades)]
  /\ bus' = Tail(bus)
  /\ UNCHANGED <<clock, ocrVars, orders, brokerVars, bookVars, upsets,
                 history>>

\* There is no active trade: one is created ...
ForceTrade ==
  /\ handling # Idle /\ handling.trade = 0
  /\ trades' = Created(trades, "OPEN_PENDING")
  /\ handling' = [handling EXCEPT !.trade = Len(trades) + 1, !.forced = TRUE]
  /\ UNCHANGED <<clock, ocrVars, bus, orders, brokerVars, bookVars, upsets,
                 history>>

\* ... and marked active, under the lock a second time.
ForceActive ==
  /\ handling # Idle /\ handling.forced
  /\ trades' = Activated(trades, handling.trade)
  /\ handling' = [handling EXCEPT !.forced = FALSE]
  /\ UNCHANGED <<clock, ocrVars, bus, orders, brokerVars, bookVars, upsets,
                 history>>

Executing == handling # Idle /\ handling.trade # 0 /\ ~handling.forced

\* what the handler does with the trade if the executor returns None
AfterNone ==
  IF handling.req.act = "OPEN_LONG" THEN FailedToOpen(trades, handling.trade)
  ELSE trades

\* No order parameters, or a check of the executor or the order repository
\* refuses: no order is recorded.
Refuse ==
  /\ Executing
  /\ trades' = AfterNone
  /\ handling' = Idle
  /\ UNCHANGED <<clock, ocrVars, bus, orders, brokerVars, bookVars, upsets,
                 history>>

\* create_copy_order
Recorded(status, sent) ==
  Append(orders, [trade |-> handling.trade, side |-> Side(handling.req.act),
                  status |-> status, sent |-> sent])

\* _make_fingerprint: the action, the quantity, the cost basis of the
\* snapshot, and the request's identifier.  It takes the realised P&L too, but
\* reads it under a name positions do not have, and gets 0.
Fingerprint(r) == <<r.act, r.qty, r.cost, r.at>>

Twin == pos.fingerprint = Fingerprint(handling.req)

\* The order has the fingerprint of the last one sent: it stays recorded, for
\* ever pending, and is not sent.
RefuseTwin ==
  /\ Executing
  /\ Twin
  /\ orders' = Recorded("PENDING_SUBMISSION", FALSE)
  /\ trades' = AfterNone
  /\ handling' = Idle
  /\ UNCHANGED <<clock, ocrVars, bus, brokerVars, bookVars, upsets, history>>

\* The broker bridge raises.
SendFails ==
  /\ Executing
  /\ ~Twin
  /\ orders' = Recorded("CANCEL_REQUESTED", FALSE)
  /\ trades' = AfterNone
  /\ handling' = Idle
  /\ UNCHANGED <<clock, ocrVars, bus, brokerVars, bookVars, upsets, history>>

\* execute_trade sends the order.  An order the bridge cannot send, being
\* disconnected, counts as sent and then rejected.
Send ==
  /\ Executing
  /\ ~Twin
  /\ LET id == Len(orders) + 1 IN
     /\ orders' = Recorded("PENDING_SUBMISSION", TRUE)
     /\ live' = [o \in DOMAIN live \cup {id} |->
                   IF o = id THEN handling.req.qty ELSE live[o]]
     /\ trades' = Submitted(trades, handling.trade, id)
  /\ pos' = Fingerprinted(pos, Fingerprint(handling.req))
  /\ handling' = Idle
  /\ UNCHANGED <<clock, ocrVars, bus, account, poll, upsets, history>>

HandleFill ==
  /\ NextIs("OrderFilled")
  /\ pos' = Filled(pos, Head(bus).change)
  /\ poll' = PollSeesFill
  /\ bus' = Tail(bus)
  /\ UNCHANGED <<clock, ocrVars, tradeVars, brokerVars, upsets, history>>

HandleQuantity ==
  /\ NextIs("PositionQuantity")
  /\ pos' = Pushed(pos, Head(bus).shares)
  /\ bus' = Tail(bus)
  /\ UNCHANGED <<clock, ocrVars, tradeVars, brokerVars, poll, upsets, history>>

\* _handle_broker_full_position_push: sync_broker_position
HandleFull ==
  /\ NextIs("FullPosition")
  /\ trades' = CreatedOrSynced(trades, Head(bus).shares)
  /\ pos' = Synced(pos, Head(bus).shares)
  /\ bus' = Tail(bus)
  /\ UNCHANGED <<clock, ocrVars, handling, orders, brokerVars, poll, upsets,
                 history>>

BusThread ==
  \/ Drop \/ RiskCheck \/ SkipRequest \/ Admit \/ ForceTrade \/ ForceActive
  \/ Refuse \/ RefuseTwin \/ SendFails \/ Send
  \/ HandleFill \/ HandleQuantity \/ HandleFull
-----------------------------------------------------------------------------
(* The poll thread.                                                        *)

FillsOn(b) == Cardinality({i \in DOMAIN b : b[i].type = "OrderFilled"})

PushesOn(b) == \E i \in DOMAIN b : b[i].type \in {"PositionQuantity", "FullPosition"}

\* get_all_positions: the answer comes behind the fills sent before it
PollFetch ==
  /\ poll = Idle
  /\ poll' = [shares |-> account, syncing |-> FALSE, ahead |-> FillsOn(bus)]
  /\ UNCHANGED <<clock, ocrVars, bus, tradeVars, brokerVars, pos, upsets,
                 history>>

\* _compare_positions_with_broker finds the shares different, or the price or
\* P&L, and creates or finds a trade ...
PollCompare ==
  /\ Polling /\ ~poll.syncing
  /\ \/ poll.shares # pos.shares
     \/ Len(trades) < MaxTrades
  /\ trades' = CreatedOrSynced(trades, poll.shares)
  /\ poll' = [poll EXCEPT !.syncing = TRUE]
  /\ UNCHANGED <<clock, ocrVars, bus, handling, orders, brokerVars, pos,
                 upsets, history>>

PollAgrees ==
  /\ Polling /\ ~poll.syncing
  /\ poll.shares = pos.shares
  /\ poll' = Idle
  /\ exact' = (exact \/ (poll.ahead = 0 /\ ~PushesOn(bus)))
  /\ UNCHANGED <<clock, ocrVars, bus, tradeVars, brokerVars, pos, upsets,
                 overlap>>

\* ... then sync_broker_position does so again and overwrites the position.
PollSync ==
  /\ Polling /\ poll.syncing
  /\ trades' = CreatedOrSynced(trades, poll.shares)
  /\ pos' = Synced(pos, poll.shares)
  /\ exact' = (poll.ahead = 0 /\ (exact \/ ~PushesOn(bus)))
  /\ poll' = Idle
  /\ UNCHANGED <<clock, ocrVars, bus, handling, orders, brokerVars, upsets,
                 overlap>>

PollThread == PollFetch \/ PollCompare \/ PollAgrees \/ PollSync
-----------------------------------------------------------------------------
(* The broker, and the thread that publishes what it sends.                *)

Without(o) == [p \in DOMAIN live \ {o} |-> live[p]]

Executed(o, n) ==
  /\ account' = account + orders[o].side * n
  /\ live' = IF n = live[o] THEN Without(o) ELSE [live EXCEPT ![o] = @ - n]

\* An order is filled, wholly or in part, and the fill published.
BrokerFills(o, n) ==
  /\ Executed(o, n)
  /\ bus' = Append(bus, [type |-> "OrderFilled", change |-> orders[o].side * n])
  /\ UNCHANGED <<clock, ocrVars, tradeVars, bookVars, upsets, history>>

\* The fill comes without a price: its status is published and it is not.
BrokerFillsUnpriced(o, n) ==
  /\ upsets < MaxUpsets
  /\ upsets' = upsets + 1
  /\ Executed(o, n)
  /\ exact' = FALSE
  /\ poll' = PollMissesFill
  /\ UNCHANGED <<clock, ocrVars, bus, tradeVars, pos, overlap>>

\* The fill of a sale comes without a side, or with one that is neither BUY nor
\* SELL, and is published as one of a purchase.  That of a purchase is so too,
\* and rightly (BrokerFills).
BrokerFillsAsBuy(o, n) ==
  /\ orders[o].side = -1
  /\ upsets < MaxUpsets
  /\ upsets' = upsets + 1
  /\ Executed(o, n)
  /\ bus' = Append(bus, [type |-> "OrderFilled", change |-> n])
  /\ exact' = FALSE
  /\ poll' = PollMissesFill
  /\ UNCHANGED <<clock, ocrVars, tradeVars, pos, overlap>>

\* Rejected, cancelled or expired: nothing in the trading path hears of it.
BrokerEnds(o) ==
  /\ live' = Without(o)
  /\ UNCHANGED <<clock, ocrVars, bus, tradeVars, account, bookVars, upsets,
                 history>>

BrokerPushes(type) ==
  /\ upsets < MaxUpsets
  /\ upsets' = upsets + 1
  /\ bus' = Append(bus, [type |-> type, shares |-> account])
  /\ UNCHANGED <<clock, ocrVars, tradeVars, brokerVars, bookVars, history>>

Broker ==
  \/ \E o \in DOMAIN live :
       \/ \E n \in 1..live[o] :
            BrokerFills(o, n) \/ BrokerFillsUnpriced(o, n) \/ BrokerFillsAsBuy(o, n)
       \/ BrokerEnds(o)
  \/ \E type \in {"PositionQuantity", "FullPosition"} : BrokerPushes(type)

Tick ==
  /\ clock < MaxTime
  /\ clock' = clock + 1
  /\ UNCHANGED <<ocrVars, bus, tradeVars, brokerVars, bookVars, upsets,
                 history>>
-----------------------------------------------------------------------------
Step == (\E w \in Workers : Ocr(w)) \/ BusThread \/ PollThread \/ Broker \/ Tick

Spec == Init /\ [][Step]_vars
-----------------------------------------------------------------------------
(* Properties                                                              *)

Sent == [at : Nat, base : Int]

Requests ==
  [type : {"OrderRequest", "ValidatedOrderRequest"}, act : Actions, qty : Nat \ {0},
   cost : Int, at : Nat]

Event ==
  Requests
    \cup [type : {"OrderFilled"}, change : Int]
    \cup [type : {"PositionQuantity", "FullPosition"}, shares : Int]

Strategies == {"long", "short", "closed"}

Reading ==
  [stage : {"reading"}, snap : Snapshots, shares : Int, strategy : Strategies]

Sending == [stage : {"sending"}, snap : Snapshots, act : Actions, qty : Nat \ {0}]

Working == [stage : {"waiting"}, snap : Snapshots] \cup Reading \cup Sending

ASSUME IdleAssumption == Idle \notin Working

Order ==
  [trade : Nat \ {0}, side : {-1, 1}, sent : BOOLEAN,
   status : {"PENDING_SUBMISSION", "CANCEL_REQUESTED"}]

Position ==
  [shares : Int, strategy : Strategies,
   fingerprint : (Actions \X Nat \X Int \X Nat) \cup {NoFingerprint}]

\* Types: at most one worker is past the lock, every order belongs to a trade,
\* what is live at the broker was sent, and the strategy tells the side of the
\* position.
TypeOK ==
  /\ FilterTypeOK
  /\ seen \in Snapshots \cup {NoSnapshot}
  /\ lastSent \in [snap : Snapshots, at : Nat] \cup {None}
  /\ work \in [Workers -> Working \cup {Idle}]
  /\ \A v, w \in Workers :
       v # w => At(v, "waiting") \/ At(w, "waiting") \/ Idle \in {work[v], work[w]}
  /\ taken \in Nat /\ upsets \in Nat
  /\ bus \in Seq(Event)
  /\ handling \in [req : Requests, forced : BOOLEAN, trade : 0..Len(trades)] \cup {Idle}
  /\ trades \in Seq(Trade)
  /\ orders \in Seq(Order)
  /\ \A o \in DOMAIN orders : orders[o].trade \in DOMAIN trades
  /\ live \in [DOMAIN live -> Nat \ {0}]
  /\ \A o \in DOMAIN live : o \in DOMAIN orders /\ orders[o].sent
  /\ account \in Int
  /\ pos \in Position /\ pos.strategy = StrategyOf(pos.shares)
  /\ poll \in [shares : Int, syncing : BOOLEAN, ahead : Int] \cup {Idle, Off}
  /\ exact \in BOOLEAN /\ overlap \in BOOLEAN
  /\ lastAdd \in Sent \cup {None} /\ lastReduce \in Sent \cup {None}

\* the position once an event is handled, ...
Replayed(shares, e) ==
  CASE e.type = "OrderFilled" -> shares + e.change
    [] e.type \in {"PositionQuantity", "FullPosition"} -> e.shares
    [] OTHER -> shares

\* ... once the first i events of b are, ...
Run(shares, b) ==
  LET after[i \in 0 .. Len(b)] == IF i = 0 THEN shares ELSE Replayed(after[i - 1], b[i])
  IN after

\* ... and once all of them are
Drained(shares, b) == Run(shares, b)[Len(b)]

\* The book is right: as long as no fill is lost, none is booked on the wrong
\* side, and no poll answer is applied over fills it does not count or counts
\* twice, the position together with what is on its way over the bus is what
\* the broker holds.
BookFollowsAccount == exact => Drained(pos.shares, bus) = account

\* The account is sold short only after a sale was sized while another was
\* under way, or from a position that was not the broker's.
ShortOnlyFromOverlap == account < 0 => overlap

\* An order that was sent belongs to a trade that is not closed: a trade that
\* failed to open is not found again by the orders that follow.
FailedNeverSent ==
  \A o \in DOMAIN orders : orders[o].sent => trades[orders[o].trade].state # "CLOSED"

\* The two settling periods never run together.
OneSettling == addSettling = NotSettling \/ reduceSettling = NotSettling

\* the requests a step publishes
Publishes(act) ==
  /\ Len(bus') > Len(bus)
  /\ bus'[Len(bus')].type = "OrderRequest" /\ bus'[Len(bus')].act = act

\* Two ADDs with nothing but suppressed signals between them are apart by the
\* settling time or by the cost override, two REDUCEs by the settling time or
\* by the smaller of the P&L thresholds.
OrdersSpaced ==
  [][/\ Publishes("ADD_LONG") /\ lastAdd # None =>
          \/ clock - lastAdd.at >= CostSettle
          \/ Abs(bus'[Len(bus')].cost - lastAdd.base) >= CostOverride
     /\ Publishes("REDUCE_PARTIAL") /\ lastReduce # None =>
          \/ clock - lastReduce.at >= PnlSettle
          \/ lastReduce'.base - lastReduce.base >= PnlOverride
          \/ lastReduce'.base - lastReduce.base >= ReduceDelta]_vars

\* Trades are born, activated and failed as TradeLife allows.
Life == INSTANCE TradeLife WITH life <- [t \in DOMAIN trades |-> trades[t].state]
LifeSpec == Life!Spec
=============================================================================
