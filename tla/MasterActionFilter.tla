------------------------- MODULE MasterActionFilter -------------------------
(***************************************************************************)
(* The master action filter (modules/trade_management/                     *)
(* master_action_filter_service.py) for one symbol.  After an ADD the      *)
(* symbol settles: another ADD is suppressed until a deadline, unless the  *)
(* cost basis has moved by an override threshold.  REDUCEs settle in the   *)
(* same way on the realised P&L.  Symbols do not interact: the service     *)
(* keeps a dictionary of states under one lock.                            *)
(*                                                                         *)
(* A settling period is [end, base], the deadline and the cost or P&L of   *)
(* the action it follows.  An absent key and a False flag both read as     *)
(* "not settling", and nothing reads the rest of a cleared period.         *)
(***************************************************************************)
EXTENDS Integers

CONSTANTS
  CostSettle,      \* cost_basis_settling_duration_seconds
  PnlSettle,       \* rPnL_settling_duration_seconds
  CostOverride,    \* cost_basis_settling_override_abs_delta_threshold
  PnlOverride,     \* rPnL_settling_override_increase_threshold
  ReduceDelta,     \* rPnL_initial_reduce_increase_threshold
  NotSettling

VARIABLES
  clock,           \* time.time()
  addSettling,     \* is_cost_add_settling and its keys
  reduceSettling   \* is_rPnL_reduce_settling and its keys

filterVars == <<addSettling, reduceSettling>>

ASSUME FilterAssumption ==
  /\ CostSettle \in Nat /\ PnlSettle \in Nat
  /\ CostOverride \in Int /\ PnlOverride \in Int /\ ReduceDelta \in Int
  /\ NotSettling \notin [end : Nat, base : Int]

Period == [end : Nat, base : Int]

FilterTypeOK ==
  /\ clock \in Nat
  /\ addSettling \in Period \cup {NotSettling}
  /\ reduceSettling \in Period \cup {NotSettling}

FilterInit == addSettling = NotSettling /\ reduceSettling = NotSettling

Abs(n) == IF n < 0 THEN -n ELSE n

\* Mutant: an ADD leaves the settling of the REDUCEs.
RecordAddOnly(cost) ==
  /\ addSettling' = [end |-> clock + CostSettle, base |-> cost]
  /\ UNCHANGED reduceSettling

\* record_system_add_action
RecordAdd(cost) ==
  /\ addSettling' = [end |-> clock + CostSettle, base |-> cost]
  /\ reduceSettling' = NotSettling

\* record_system_reduce_action
RecordReduce(pnl) ==
  /\ reduceSettling' = [end |-> clock + PnlSettle, base |-> pnl]
  /\ addSettling' = NotSettling

\* reset_symbol_state, called for every OPEN and every CLOSE
ResetSymbol == addSettling' = NotSettling /\ reduceSettling' = NotSettling

\* _filter_cost_add_signal_internal: does an ADD at this cost pass?
AddPasses(cost) ==
  \/ addSettling = NotSettling
  \/ clock >= addSettling.end
  \/ Abs(cost - addSettling.base) >= CostOverride

\* _filter_rPnL_reduce_signal_internal.  unfavourable: the bid has fallen
\* from its value at the last REDUCE by the configured share or amount.
ReducePasses(pnl, unfavourable) ==
  \/ reduceSettling = NotSettling
  \/ clock >= reduceSettling.end
  \/ pnl - reduceSettling.base >= PnlOverride
  \/ unfavourable /\ pnl - reduceSettling.base >= ReduceDelta

\* A signal that passes ends its own settling period, for good or until the
\* order that follows is recorded; one that does not changes nothing.
FilterAdd(cost, passed) ==
  /\ passed = AddPasses(cost)
  /\ addSettling' = IF passed THEN NotSettling ELSE addSettling
  /\ UNCHANGED reduceSettling

FilterReduce(pnl, passed) ==
  \E unfavourable \in BOOLEAN :
    /\ passed = ReducePasses(pnl, unfavourable)
    /\ reduceSettling' = IF passed THEN NotSettling ELSE reduceSettling
    /\ UNCHANGED addSettling
=============================================================================
