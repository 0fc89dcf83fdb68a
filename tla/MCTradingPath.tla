---------------------------- MODULE MCTradingPath ----------------------------
(* A small instance of TradingPath: one symbol, two OCR workers.            *)
EXTENDS TradingPath

MCSnapshots ==
  {[hint |-> "closed", cost |-> 0, pnl |-> 0]} \cup
  {[hint |-> "long", cost |-> 0, pnl |-> p] : p \in {1, 2}} \cup
  {[hint |-> "long", cost |-> c, pnl |-> 0] : c \in {1, 2}}
=============================================================================
