------------------------ MODULE MarketDataDisruptor ------------------------
(***************************************************************************)
(* core/services/market_data_disruptor.py: two ring buffers, of trades and *)
(* of quotes, between the thread of the price feed, which writes without a *)
(* lock, and one dispatcher thread, which hands every tick to each         *)
(* consumer in turn.  A consumer has a read cursor per ring; the producer  *)
(* looks at the slowest to count overflows, and writes all the same.       *)
(*                                                                         *)
(* A tick is named by its sequence number; a slot holds the number of the  *)
(* tick last written to it, Never before the first.  The dispatcher reads  *)
(* the fields of a slot one after the other through a view of it: the      *)
(* symbol stands for the first, the price for all the others.  Receivers   *)
(* take both kinds of tick, as IMarketDataReceiver has it.                 *)
(***************************************************************************)
EXTENDS Integers, FiniteSets

CONSTANTS Consumers,    \* how many receivers there are
          BufferSize,   \* buffer_size, a power of 2
          MaxTicks      \* bound of the model: ticks written to both rings

ASSUME DisruptorAssumption ==
    /\ Consumers \in Nat \ {0}
    /\ BufferSize \in Nat \ {0}
    /\ MaxTicks \in Nat

Rings == {"trade", "quote"}
Receivers == 1 .. Consumers
Never == -1

VARIABLES write_cursor,  \* _trade_write_cursor, _quote_write_cursor
          read_cursors,  \* _trade_read_cursors, _quote_read_cursors
          buffer,        \* trade_buffer, quote_buffer
          overflow,      \* _overflow_count
          ring, step,    \* the producer: its call, and where it is in it
          pc,            \* where the dispatcher is
          dring, cons,   \* the ring and the consumer it serves
          last_read,     \* its local variable
          symbol, price, \* the fields it read of the tick it hands over
          stopped,       \* _stop_event
          handed,        \* history: how many ticks each consumer was handed
          overrun        \* history: of each ring, the ticks whose turn came
                         \* for some consumer when they were overwritten

producerVars == <<write_cursor, buffer, overflow, ring, step>>
tickVars == <<symbol, price>>
historyVars == <<handed, overrun>>
dispatcherVars == <<read_cursors, pc, dring, cons, last_read, tickVars,
                    historyVars>>
vars == <<producerVars, dispatcherVars, stopped>>

(* The slot of a sequence number: & _buffer_mask, for a power of 2.        *)
Idx(n) == n % BufferSize

Init ==
    /\ write_cursor = [r \in Rings |-> -1]
    /\ read_cursors = [r \in Rings |-> [c \in Receivers |-> -1]]
    /\ buffer = [r \in Rings |-> [i \in 0 .. BufferSize - 1 |-> Never]]
    /\ overflow = 0
    /\ ring = "trade"
    /\ step = "idle"
    /\ pc = "new"
    /\ dring = "trade"
    /\ cons = 1
    /\ last_read = -1
    /\ symbol = Never /\ price = Never
    /\ stopped = FALSE
    /\ handed = [r \in Rings |-> [c \in Receivers |-> 0]]
    /\ overrun = [r \in Rings |-> {}]

-----------------------------------------------------------------------------
(* on_trade and on_quote, called by the thread of the feed.                *)

(* The slowest consumer is BufferSize - 1 or more behind.                  *)
Behind(r, d) == \E c \in Receivers : write_cursor[r] - read_cursors[r][c] >= d

(* Mutant: the check is late by two.                                       *)
CheckLate(r) ==
    /\ step = "idle"
    /\ write_cursor["trade"] + write_cursor["quote"] + 2 < MaxTicks
    /\ overflow' = IF Behind(r, BufferSize + 1) THEN overflow + 1 ELSE overflow
    /\ ring' = r
    /\ step' = "checked"
    /\ UNCHANGED <<write_cursor, buffer, dispatcherVars, stopped>>

Check(r) ==
    /\ step = "idle"
    /\ write_cursor["trade"] + write_cursor["quote"] + 2 < MaxTicks
    /\ overflow' = IF Behind(r, BufferSize - 1) THEN overflow + 1 ELSE overflow
    /\ ring' = r
    /\ step' = "checked"
    /\ UNCHANGED <<write_cursor, buffer, dispatcherVars, stopped>>

(* The cursor moves first, then the slot is written, in one step of the    *)
(* interpreter: between the two the dispatcher may read the slot.          *)
Claim ==
    /\ step = "checked"
    /\ write_cursor' = [write_cursor EXCEPT ![ring] = @ + 1]
    /\ step' = "claimed"
    /\ UNCHANGED <<buffer, overflow, ring, dispatcherVars, stopped>>

(* Mutant: the slot after the claimed one is written.                      *)
WriteNextSlot ==
    /\ step = "claimed"
    /\ buffer' = [buffer EXCEPT
                     ![ring][Idx(write_cursor[ring] + 1)] = write_cursor[ring]]
    /\ step' = "idle"
    /\ UNCHANGED <<write_cursor, overflow, ring, dispatcherVars, stopped>>

Write ==
    /\ step = "claimed"
    /\ buffer' = [buffer EXCEPT
                     ![ring][Idx(write_cursor[ring])] = write_cursor[ring]]
    /\ step' = "idle"
    /\ UNCHANGED <<write_cursor, overflow, ring, dispatcherVars, stopped>>

Produce == (\E r \in Rings : Check(r)) \/ Claim \/ Write

-----------------------------------------------------------------------------
(* start and stop, called by the main thread.  A thread can be started     *)
(* once: after a stop there is no second dispatcher.                       *)

Start ==
    /\ pc = "new"
    /\ pc' = "pass"
    /\ UNCHANGED <<producerVars, read_cursors, dring, cons, last_read,
                   tickVars, historyVars, stopped>>

Stop ==
    /\ ~stopped
    /\ stopped' = TRUE
    /\ UNCHANGED <<producerVars, dispatcherVars>>

-----------------------------------------------------------------------------
(* _dispatch_loop.                                                         *)

Serve(r, c) ==
    /\ dring' = r
    /\ cons' = c
    /\ last_read' = read_cursors'[r][c]
    /\ pc' = "drain"

(* A pass serves the trades of every consumer, then the quotes.            *)
BeginPass ==
    /\ pc = "pass"
    /\ UNCHANGED read_cursors
    /\ IF stopped
       THEN pc' = "done" /\ UNCHANGED <<dring, cons, last_read>>
       ELSE Serve("trade", 1)
    /\ UNCHANGED <<producerVars, tickVars, historyVars, stopped>>

Available == last_read < write_cursor[dring]
Slot == buffer[dring][Idx(last_read + 1)]

ReadSymbol ==
    /\ pc = "drain"
    /\ Available
    /\ symbol' = Slot
    /\ pc' = "rest"
    /\ UNCHANGED <<producerVars, read_cursors, dring, cons, last_read,
                   price, historyVars, stopped>>

(* The other fields are read, then the consumer is called.  A symbol that  *)
(* cannot be decoded, in a slot never written, raises in the same try: the *)
(* turn of the tick is over as if the consumer had raised.                 *)
HandOver ==
    /\ pc = "rest"
    /\ price' = Slot
    /\ handed' = [handed EXCEPT ![dring][cons] = @ + 1]
    /\ overrun' = [overrun EXCEPT ![dring] =
                      IF Slot > last_read + 1 THEN @ \cup {last_read + 1}
                                              ELSE @]
    /\ pc' = "call"
    /\ UNCHANGED <<producerVars, read_cursors, dring, cons, last_read,
                   symbol, stopped>>

(* Mutant: an exception of a consumer ends the thread.                     *)
ConsumerKillsThread ==
    /\ pc = "call"
    /\ symbol' = Never /\ price' = Never
    /\ pc' = "done"
    /\ UNCHANGED <<producerVars, read_cursors, dring, cons, last_read,
                   historyVars, stopped>>

(* Mutant: a tick is skipped after each.                                   *)
ConsumerReturnsSkipping ==
    /\ pc = "call"
    /\ last_read' = last_read + 2
    /\ symbol' = Never /\ price' = Never
    /\ pc' = "drain"
    /\ UNCHANGED <<producerVars, read_cursors, dring, cons, historyVars,
                   stopped>>

(* A consumer that raises is logged.                                       *)
ConsumerReturns ==
    /\ pc = "call"
    /\ last_read' = last_read + 1
    /\ symbol' = Never /\ price' = Never
    /\ pc' = "drain"
    /\ UNCHANGED <<producerVars, read_cursors, dring, cons, historyVars,
                   stopped>>

(* Mutant: the write cursor is taken for what was read.                    *)
FinishAtWriteCursor ==
    /\ pc = "drain"
    /\ ~Available
    /\ read_cursors' = [read_cursors EXCEPT ![dring] =
                           [c \in Receivers |-> write_cursor[dring]]]
    /\ \/ cons < Consumers /\ Serve(dring, cons + 1)
       \/ cons = Consumers /\ dring = "trade" /\ Serve("quote", 1)
       \/ /\ cons = Consumers /\ dring = "quote"
          /\ pc' = "pass"
          /\ UNCHANGED <<dring, cons, last_read>>
    /\ UNCHANGED <<producerVars, tickVars, historyVars, stopped>>

(* The read cursor is published when the consumer has no more to read.     *)
FinishConsumer ==
    /\ pc = "drain"
    /\ ~Available
    /\ read_cursors' = [read_cursors EXCEPT ![dring][cons] = last_read]
    /\ \/ cons < Consumers /\ Serve(dring, cons + 1)
       \/ cons = Consumers /\ dring = "trade" /\ Serve("quote", 1)
       \/ /\ cons = Consumers /\ dring = "quote"
          /\ pc' = "pass"
          /\ UNCHANGED <<dring, cons, last_read>>
    /\ UNCHANGED <<producerVars, tickVars, historyVars, stopped>>

Dispatch ==
    BeginPass \/ ReadSymbol \/ HandOver \/ ConsumerReturns \/ FinishConsumer

Next == Produce \/ Start \/ Stop \/ Dispatch

Spec == Init /\ [][Next]_vars

(* Fairness: the dispatcher thread is scheduled and consumers return; a    *)
(* call of the feed that has begun ends.                                   *)
FairSpec ==
    /\ Spec
    /\ WF_vars(Dispatch)
    /\ WF_vars(Claim \/ Write)

-----------------------------------------------------------------------------
Cursor == -1 .. MaxTicks - 1

TypeOK ==
    /\ write_cursor \in [Rings -> Cursor]
    /\ read_cursors \in [Rings -> [Receivers -> Cursor]]
    /\ buffer \in [Rings -> [0 .. BufferSize - 1 -> Cursor]]
    /\ overflow \in Nat
    /\ ring \in Rings
    /\ step \in {"idle", "checked", "claimed"}
    /\ pc \in {"new", "pass", "drain", "rest", "call", "done"}
    /\ dring \in Rings
    /\ cons \in Receivers
    /\ last_read \in Cursor
    /\ symbol \in Cursor /\ price \in Cursor
    /\ stopped \in BOOLEAN
    /\ handed \in [Rings -> [Receivers -> 0 .. MaxTicks]]
    /\ overrun \in [Rings -> SUBSET (0 .. MaxTicks - 1)]

(* Every tick that some consumer lost, in full or in part, because it was  *)
(* overwritten before its turn was counted as an overflow.                 *)
LossIsCounted ==
    Cardinality(overrun["trade"]) + Cardinality(overrun["quote"]) <= overflow

(* What a consumer is handed belongs to the slot whose turn it is: the     *)
(* tick itself; a later one that overwrote it; or, when the dispatcher     *)
(* overtakes a write, the one before it in the slot.  The fields of two    *)
(* ticks may be mixed, the price then being the later.                     *)
InSlot(n, x) ==
    \/ x >= n /\ Idx(x) = Idx(n)
    \/ x = IF n < BufferSize THEN Never ELSE n - BufferSize

HandedFromSlot ==
    pc = "call" =>
        /\ InSlot(last_read + 1, symbol) /\ InSlot(last_read + 1, price)
        /\ symbol <= price

(* A consumer is handed every tick once, in its turn: what it was handed   *)
(* is what its cursor says, or, while it is served, what the dispatcher    *)
(* has read for it; and it is never handed what was not claimed.           *)
Serving(r, c) == pc \in {"drain", "rest", "call"} /\ dring = r /\ cons = c

Taken(r, c) ==
    IF ~Serving(r, c) THEN read_cursors[r][c] + 1
    ELSE IF pc = "call" THEN last_read + 2 ELSE last_read + 1

HandedInTurn ==
    \A r \in Rings : \A c \in Receivers :
        /\ handed[r][c] = Taken(r, c)
        /\ handed[r][c] <= write_cursor[r] + 1

(* A consumer that is behind catches up, unless the disruptor is stopped,  *)
(* when the feed pauses, as it does here after MaxTicks: every tick is     *)
(* handed to it in its turn, in some form.  A feed that never lets the     *)
(* dispatcher drain one ring would hold up all the others.                 *)
Lags(r, c) ==
    /\ handed[r][c] <= write_cursor[r]
    /\ pc # "new" /\ ~stopped

ConsumersCatchUp ==
    \A r \in Rings, c \in Receivers : Lags(r, c) ~> ~Lags(r, c)
=============================================================================
