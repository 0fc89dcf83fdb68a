--------------------------- MODULE TradeLifecycle ---------------------------
(***************************************************************************)
(* The trade lifecycle manager (modules/trade_management/                  *)
(* trade_lifecycle_manager_service.py) for one symbol: what its callers    *)
(* make of its trades.  A trade is [state, orders], its lifecycle state    *)
(* and the local ids of its orders; its identifier is its place in the     *)
(* sequence.  Shares, prices and comments of a trade decide nothing and    *)
(* are left out.  Each operation is one critical section of _trades_lock,  *)
(* given as a function of the trades, since some callers apply two.        *)
(***************************************************************************)
EXTENDS Sequences, Integers, FiniteSetsExt

VARIABLE trades

Trade == [state : {"OPEN_PENDING", "OPEN_ACTIVE", "CLOSED"}, orders : SUBSET Nat]

\* create_new_trade, with what the caller makes of the state at once
Created(ts, state) == Append(ts, [state |-> state, orders |-> {}])

\* Mutant: closed trades count.
AnyTrade(ts) == DOMAIN ts

Unclosed(ts) == {t \in DOMAIN ts : ts[t].state # "CLOSED"}

\* find_active_trade_for_symbol: the oldest trade that is not closed, or 0
FindActive(ts) == IF Unclosed(ts) = {} THEN 0 ELSE Min(Unclosed(ts))

\* update_trade_state(t, OPEN_ACTIVE)
Activated(ts, t) == [ts EXCEPT ![t].state = "OPEN_ACTIVE"]

\* update_on_order_submission
Submitted(ts, t, id) == [ts EXCEPT ![t].orders = @ \cup {id}]

\* mark_trade_failed_to_open
FailedToOpen(ts, t) ==
  IF ts[t].state = "OPEN_PENDING" THEN [ts EXCEPT ![t].state = "CLOSED"] ELSE ts

\* Mutant: the last trade is taken up again, closed or not.
Resynced(ts, shares) ==
  IF ts # <<>>
  THEN [ts EXCEPT ![Len(ts)].state = IF shares # 0 THEN "OPEN_ACTIVE" ELSE "CLOSED"]
  ELSE Created(ts, IF shares # 0 THEN "OPEN_ACTIVE" ELSE "CLOSED")

\* create_or_sync_trade: an unclosed trade is kept in the state it is in
CreatedOrSynced(ts, shares) ==
  IF FindActive(ts) # 0 THEN ts
  ELSE Created(ts, IF shares # 0 THEN "OPEN_ACTIVE" ELSE "CLOSED")
=============================================================================
