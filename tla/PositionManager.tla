--------------------------- MODULE PositionManager ---------------------------
(***************************************************************************)
(* The position manager (modules/trade_management/position_manager.py) for *)
(* one symbol: the signed number of shares it believes are held, the       *)
(* strategy the snapshot interpreter reads, and the fingerprint of the     *)
(* last order sent.  "open" is written with the shares and says that they  *)
(* are not 0.  Prices, P&L, the session ledger and the retry counter of    *)
(* opens decide nothing in the operations modelled.  Each operation is one *)
(* critical section of _positions_lock, given as a function of the         *)
(* position.                                                               *)
(***************************************************************************)
EXTENDS Integers

CONSTANT NoFingerprint

VARIABLE pos

StrategyOf(shares) ==
  CASE shares > 0 -> "long" [] shares < 0 -> "short" [] OTHER -> "closed"

\* _get_position_no_lock: a symbol is created when it is met.  At the start
\* _load_initial_broker_positions takes nothing over: the positions the broker
\* sends have their number under "shares", and it looks for "quantity".
Unknown == [shares |-> 0, strategy |-> "closed", fingerprint |-> NoFingerprint]

Holding(p, shares) ==
  [p EXCEPT !.shares = shares, !.strategy = StrategyOf(shares)]

\* handle_order_fill: a change, negative for a sale
Filled(p, change) == Holding(p, p.shares + change)

\* Mutant: the strategy is left as it was.
PushedShares(p, shares) == [p EXCEPT !.shares = shares]

\* _handle_broker_quantity_only_push: nothing happens if it is known already
Pushed(p, shares) == IF p.shares = shares THEN p ELSE Holding(p, shares)

\* Mutant: what the broker holds is taken for a change.
SyncedAsFill(p, shares) == [Filled(p, shares) EXCEPT !.fingerprint = NoFingerprint]

\* the critical section of sync_broker_position
Synced(p, shares) == [Holding(p, shares) EXCEPT !.fingerprint = NoFingerprint]

\* update_fingerprint
Fingerprinted(p, fp) == [p EXCEPT !.fingerprint = fp]
=============================================================================
