------------------------------ MODULE TradeLife ------------------------------
(***************************************************************************)
(* What becomes of a trade, whoever asks: it is born pending, open or      *)
(* closed; a pending one becomes open or fails to open; a closed one stays *)
(* closed, and an open one open.  Trades are numbered in the order of      *)
(* their creation and none is forgotten.                                   *)
(***************************************************************************)
EXTENDS Sequences, Naturals

VARIABLE life   \* life[t]: the lifecycle state of trade t

States == {"OPEN_PENDING", "OPEN_ACTIVE", "CLOSED"}

\* at the start there may be an open one, for shares held from before
Init == life \in {<<>>, <<"OPEN_ACTIVE">>}

Begin(s) == life' = Append(life, s)

Activate(t) ==
  /\ life[t] = "OPEN_PENDING"
  /\ life' = [life EXCEPT ![t] = "OPEN_ACTIVE"]

FailToOpen(t) ==
  /\ life[t] = "OPEN_PENDING"
  /\ life' = [life EXCEPT ![t] = "CLOSED"]

Next ==
  \/ \E s \in States : Begin(s)
  \/ \E t \in DOMAIN life : Activate(t) \/ FailToOpen(t)

Spec == Init /\ [][Next]_life
=============================================================================
