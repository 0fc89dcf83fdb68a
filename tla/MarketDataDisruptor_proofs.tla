-------------------- MODULE MarketDataDisruptor_proofs ---------------------
(* Proofs about MarketDataDisruptor for any number of consumers, any ring  *)
(* size and any number of ticks.  The invariants come in layers, each      *)
(* inductive under the ones before it: where the cursors are, what the     *)
(* slots hold, what is being handed over, and what was lost.               *)
EXTENDS MarketDataDisruptor, FiniteSetTheorems, TLAPS

USE DEF Never, Cursor

-----------------------------------------------------------------------------
(* Arithmetic of the slots.                                                *)

(* Every number has a slot in the ring.                                    *)
LEMMA SlotRange ==
    ASSUME NEW n \in Int
    PROVE  Idx(n) \in 0 .. BufferSize - 1
BY DisruptorAssumption DEF Idx

(* A number is its slot and a multiple of the ring's size.                 *)
LEMMA Division ==
    ASSUME NEW n \in Int
    PROVE  \E k \in Int : n = BufferSize * k + Idx(n)
<1>1. n = BufferSize * (n \div BufferSize) + Idx(n) /\ n \div BufferSize \in Int
  BY DisruptorAssumption DEF Idx
<1> QED
  BY <1>1

(* A multiple of the ring's size is no smaller than that size, unless it   *)
(* is zero.                                                                *)
LEMMA Multiple ==
    ASSUME NEW k \in Int
    PROVE  /\ BufferSize * k \in Int
           /\ k > 0 => BufferSize * k >= BufferSize
           /\ k < 0 => BufferSize * k <= -BufferSize
BY DisruptorAssumption

(* Two numbers in the same slot are whole rounds apart.                    *)
LEMMA Rounds ==
    ASSUME NEW n \in Int, NEW x \in Int, Idx(x) = Idx(n)
    PROVE  \E k \in Int : x - n = BufferSize * k
<1>1. PICK a \in Int : x = BufferSize * a + Idx(x)
  BY Division
<1>2. PICK b \in Int : n = BufferSize * b + Idx(n)
  BY Division
<1>3. BufferSize \in Int /\ Idx(n) \in Int
  BY SlotRange, DisruptorAssumption
<1>4. x - n = BufferSize * a - BufferSize * b
  BY <1>1, <1>2, <1>3
<1>5. BufferSize * a - BufferSize * b = BufferSize * (a - b)
  BY <1>3
<1> QED
  BY <1>4, <1>5

(* Of two numbers in a slot the later is a round or more later.            *)
LEMMA NextRound ==
    ASSUME NEW n \in Int, NEW x \in Int, x > n, Idx(x) = Idx(n)
    PROVE  x >= n + BufferSize
<1>1. BufferSize \in Int /\ BufferSize > 0
  BY DisruptorAssumption
<1>2. PICK k \in Int : x - n = BufferSize * k
  BY Rounds
<1>3. k # 0
  BY <1>1, <1>2
<1>4. ~(k < 0)
  BY <1>1, <1>2, Multiple
<1> QED
  BY <1>1, <1>2, <1>3, <1>4, Multiple

(* A number and the one a round before it have the same slot.              *)
LEMMA RoundBefore ==
    ASSUME NEW n \in Int
    PROVE  Idx(n - BufferSize) = Idx(n)
<1>1. BufferSize \in Int /\ n - BufferSize \in Int
  BY DisruptorAssumption
<1>2. PICK a \in Int : n - BufferSize = BufferSize * a + Idx(n - BufferSize)
  BY <1>1, Division
<1>3. PICK b \in Int : n = BufferSize * b + Idx(n)
  BY Division
<1>4. /\ Idx(n - BufferSize) \in Int /\ Idx(n) \in Int
      /\ 0 <= Idx(n - BufferSize) /\ Idx(n - BufferSize) < BufferSize
      /\ 0 <= Idx(n) /\ Idx(n) < BufferSize
  BY <1>1, SlotRange
<1>5. BufferSize * (b - a - 1) = BufferSize * b - BufferSize * a - BufferSize
  BY <1>1
<1>6. BufferSize * (b - a - 1) = Idx(n - BufferSize) - Idx(n)
  <2> DEFINE p == BufferSize * a
             q == BufferSize * b
  <2>1. p \in Int /\ q \in Int
    BY Multiple
  <2>2. n - BufferSize = p + Idx(n - BufferSize) /\ n = q + Idx(n)
    BY <1>2, <1>3
  <2>3. BufferSize * (b - a - 1) = q - p - BufferSize
    BY <1>5
  <2> HIDE DEF p, q
  <2>4. q - p - BufferSize = Idx(n - BufferSize) - Idx(n)
    BY <1>1, <1>4, <2>1, <2>2
  <2> QED
    BY <2>3, <2>4
<1>7. b - a - 1 = 0
  <2>1. b - a - 1 \in Int
    OBVIOUS
  <2> QED
    BY <1>1, <1>4, <1>6, <2>1, Multiple
<1> QED
  BY <1>1, <1>4, <1>6, <1>7

-----------------------------------------------------------------------------
(* The cursors: the dispatcher never passes the producer.                  *)

ReadInv ==
    /\ step = "checked" =>
           write_cursor["trade"] + write_cursor["quote"] + 2 < MaxTicks
    /\ pc \in {"drain", "rest", "call"} =>
           /\ read_cursors[dring][cons] <= last_read
           /\ last_read <= write_cursor[dring]
    /\ pc \in {"rest", "call"} => last_read < write_cursor[dring]

PlaceInv == TypeOK /\ ReadInv /\ HandedInTurn

(* What the types say of the numbers compared below.                       *)
LEMMA Numbers ==
    ASSUME TypeOK
    PROVE  /\ MaxTicks \in Int /\ ring \in Rings
           /\ \A r \in Rings :
                  /\ write_cursor[r] \in Int
                  /\ -1 <= write_cursor[r] /\ write_cursor[r] < MaxTicks
<1>1. write_cursor \in [Rings -> Cursor] /\ ring \in Rings
  BY DEF TypeOK
<1> QED
  BY <1>1, DisruptorAssumption

(* The same of the numbers of the dispatcher.                              *)
LEMMA ReadNumbers ==
    ASSUME TypeOK
    PROVE  /\ dring \in Rings /\ cons \in Receivers
           /\ last_read \in Int /\ -1 <= last_read /\ last_read < MaxTicks
           /\ \A r \in Rings, c \in Receivers :
                  /\ read_cursors[r][c] \in Int /\ -1 <= read_cursors[r][c]
                  /\ handed[r][c] \in Int /\ 0 <= handed[r][c]
<1>1. /\ dring \in Rings /\ cons \in Receivers /\ last_read \in Cursor
      /\ read_cursors \in [Rings -> [Receivers -> Cursor]]
      /\ handed \in [Rings -> [Receivers -> 0 .. MaxTicks]]
  BY DEF TypeOK
<1> QED
  BY <1>1, DisruptorAssumption

(* The same of what a slot holds.                                          *)
LEMMA SlotNumbers ==
    ASSUME TypeOK, NEW r \in Rings, NEW i \in 0 .. BufferSize - 1
    PROVE  buffer[r][i] \in Int /\ -1 <= buffer[r][i] /\ buffer[r][i] \in Cursor
<1>1. buffer \in [Rings -> [0 .. BufferSize - 1 -> Cursor]]
  BY DEF TypeOK
<1>2. buffer[r][i] \in Cursor
  BY <1>1
<1> QED
  BY <1>2, DisruptorAssumption

(* At first no tick is written, read or handed over.                       *)
LEMMA InitPlace == Init => PlaceInv
<1> SUFFICES ASSUME Init PROVE PlaceInv
  OBVIOUS
<1>1. -1 \in Cursor /\ 0 \in 0 .. MaxTicks
  BY DisruptorAssumption
<1>2. "trade" \in Rings /\ 1 \in Receivers
  BY DisruptorAssumption DEF Rings, Receivers
<1>3. TypeOK
  BY <1>1, <1>2 DEF Init, TypeOK
<1>4. ReadInv
  BY DEF Init, ReadInv
<1>5. HandedInTurn
  BY DEF Init, HandedInTurn, Taken, Serving
<1> QED
  BY <1>3, <1>4, <1>5 DEF PlaceInv

(* The turns of the consumers are not disturbed by a step that leaves them *)
(* alone and does not move a write cursor back.                            *)
LEMMA TurnsKept ==
    ASSUME HandedInTurn,
           \A r \in Rings, c \in Receivers :
               /\ handed'[r][c] = handed[r][c]
               /\ Taken(r, c)' = Taken(r, c)
               /\ handed[r][c] <= write_cursor[r] + 1
                      => handed[r][c] <= write_cursor'[r] + 1
    PROVE  HandedInTurn'
BY DEF HandedInTurn

(* The steps of the feed, of start() and of stop() leave the turns of the  *)
(* consumers alone, and the write cursor only grows.                       *)
LEMMA CallerPlace ==
    ASSUME PlaceInv, Produce \/ Start \/ Stop
    PROVE  PlaceInv'
<1>0. TypeOK /\ ReadInv /\ HandedInTurn
  BY DEF PlaceInv
<1>1. CASE \E r \in Rings : Check(r)
  <2>0. overflow' \in Nat /\ ring' \in Rings
    BY <1>0, <1>1 DEF Check, TypeOK
  <2>1. TypeOK'
    BY <1>0, <1>1, <2>0 DEF Check, TypeOK, dispatcherVars, tickVars, historyVars
  <2>2. ReadInv'
    BY <1>0, <1>1 DEF Check, ReadInv, dispatcherVars
  <2>3. HandedInTurn'
    BY <1>0, <1>1, TurnsKept
    DEF Check, dispatcherVars, historyVars, Taken, Serving
  <2> QED
    BY <2>1, <2>2, <2>3 DEF PlaceInv
<1>2. CASE Claim
  <2>1. /\ write_cursor' = [write_cursor EXCEPT ![ring] = @ + 1]
        /\ write_cursor \in [Rings -> Cursor]
        /\ step = "checked" /\ step' = "claimed"
    BY <1>0, <1>2 DEF Claim, TypeOK
  <2>2. write_cursor[ring] + 1 < MaxTicks
    BY <1>0, <2>1, Numbers DEF Rings, ReadInv
  <2>3. write_cursor[ring] + 1 \in Cursor
    BY <1>0, <2>2, Numbers
  <2>4. \A r \in Rings : write_cursor[r] <= write_cursor'[r]
    BY <1>0, <2>1, Numbers
  <2>5. TypeOK'
    BY <1>0, <1>2, <2>3 DEF Claim, TypeOK, dispatcherVars, tickVars, historyVars
  <2>6. ReadInv'
    <3>1. /\ dring' = dring /\ dring \in Rings /\ last_read' = last_read
          /\ pc' = pc /\ read_cursors' = read_cursors /\ cons' = cons
      BY <1>0, <1>2 DEF Claim, dispatcherVars, TypeOK
    <3>2. write_cursor[dring] \in Int /\ write_cursor'[dring] \in Int /\ last_read \in Int
      BY <1>0, <2>5, <3>1, Numbers, ReadNumbers DEF TypeOK
    <3> QED
      BY <1>0, <2>1, <2>4, <3>1, <3>2 DEF ReadInv
  <2>7. HandedInTurn'
    <3>1. ASSUME NEW r \in Rings, NEW c \in Receivers,
                 handed[r][c] <= write_cursor[r] + 1
          PROVE  handed[r][c] <= write_cursor'[r] + 1
      <4>1. write_cursor[r] \in Int /\ handed[r][c] \in Int
        BY <1>0, Numbers, ReadNumbers
      <4>2. write_cursor'[r] \in Int
        BY <2>5, DisruptorAssumption DEF TypeOK
      <4> QED
        BY <2>4, <3>1, <4>1, <4>2
    <3> QED
      BY <1>0, <1>2, <3>1, TurnsKept
      DEF Claim, dispatcherVars, historyVars, Taken, Serving
  <2> QED
    BY <2>5, <2>6, <2>7 DEF PlaceInv
<1>3. CASE Write
  <2>1. Idx(write_cursor[ring]) \in 0 .. BufferSize - 1
    BY <1>0, Numbers, SlotRange
  <2>2. write_cursor[ring] \in Cursor
    BY <1>0 DEF TypeOK
  <2>3. TypeOK'
    BY <1>0, <1>3, <2>1, <2>2
    DEF Write, TypeOK, dispatcherVars, tickVars, historyVars
  <2>4. ReadInv'
    BY <1>0, <1>3 DEF Write, ReadInv, dispatcherVars
  <2>5. HandedInTurn'
    BY <1>0, <1>3, TurnsKept
    DEF Write, dispatcherVars, historyVars, Taken, Serving
  <2> QED
    BY <2>3, <2>4, <2>5 DEF PlaceInv
<1>4. CASE Start \/ Stop
  <2>1. TypeOK'
    BY <1>0, <1>4
    DEF Start, Stop, TypeOK, producerVars, dispatcherVars, tickVars, historyVars
  <2>2. ReadInv'
    BY <1>0, <1>4 DEF Start, Stop, ReadInv, producerVars, dispatcherVars
  <2>3. HandedInTurn'
    BY <1>0, <1>4, TurnsKept
    DEF Start, Stop, producerVars, dispatcherVars, historyVars, Taken, Serving
  <2> QED
    BY <2>1, <2>2, <2>3 DEF PlaceInv
<1> QED
  BY <1>1, <1>2, <1>3, <1>4 DEF Produce

(* Serving a consumer begins at the cursor it published.                   *)
LEMMA ServePlace ==
    ASSUME PlaceInv, NEW r \in Rings, NEW c \in Receivers, Serve(r, c),
           read_cursors' \in [Rings -> [Receivers -> Cursor]],
           UNCHANGED <<producerVars, tickVars, historyVars, stopped>>,
           \A q \in Rings, d \in Receivers :
               handed[q][d] = read_cursors'[q][d] + 1
    PROVE  PlaceInv'
<1>1. /\ last_read' = read_cursors'[r][c] /\ last_read' \in Cursor
      /\ pc' = "drain" /\ dring' = r /\ cons' = c
      /\ step' = step /\ write_cursor' = write_cursor /\ handed' = handed
  BY DEF Serve, producerVars, historyVars
<1>2. TypeOK'
  BY <1>1 DEF PlaceInv, TypeOK, producerVars, tickVars, historyVars
<1>3. last_read' <= write_cursor[r] /\ last_read' \in Int
  <2>1. handed[r][c] <= write_cursor[r] + 1 /\ handed[r][c] = last_read' + 1
    BY <1>1 DEF PlaceInv, HandedInTurn
  <2>2. write_cursor[r] \in Int /\ last_read' \in Int
    BY <1>2, <1>1, Numbers, DisruptorAssumption DEF PlaceInv
  <2> QED
    BY <2>1, <2>2
<1>4. ReadInv'
  BY <1>1, <1>3 DEF PlaceInv, ReadInv
<1>5. HandedInTurn'
  <2>1. \A q \in Rings, d \in Receivers : Taken(q, d)' = read_cursors'[q][d] + 1
    BY <1>1 DEF Taken, Serving
  <2> QED
    BY <1>1, <2>1 DEF PlaceInv, HandedInTurn
<1> QED
  BY <1>2, <1>4, <1>5 DEF PlaceInv

(* When no consumer is being served their cursors say what they were       *)
(* handed.                                                                 *)
LEMMA IdlePlace ==
    ASSUME PlaceInv, pc' \in {"pass", "done"},
           UNCHANGED <<dring, cons, last_read>>,
           read_cursors' \in [Rings -> [Receivers -> Cursor]],
           UNCHANGED <<producerVars, tickVars, historyVars, stopped>>,
           \A q \in Rings, d \in Receivers :
               handed[q][d] = read_cursors'[q][d] + 1
    PROVE  PlaceInv'
<1>1. TypeOK'
  BY DEF PlaceInv, TypeOK, producerVars, tickVars, historyVars
<1>2. ReadInv'
  BY DEF PlaceInv, ReadInv, producerVars
<1>3. HandedInTurn'
  BY DEF PlaceInv, HandedInTurn, Taken, Serving, producerVars, historyVars
<1> QED
  BY <1>1, <1>2, <1>3 DEF PlaceInv

(* A pass begins with the first consumer, or the thread ends.              *)
LEMMA PassPlace ==
    ASSUME PlaceInv, BeginPass
    PROVE  PlaceInv'
<1>1. \A q \in Rings, d \in Receivers :
          handed[q][d] = read_cursors'[q][d] + 1
  BY DEF PlaceInv, HandedInTurn, Taken, Serving, BeginPass
<1>2. read_cursors' \in [Rings -> [Receivers -> Cursor]]
  BY DEF PlaceInv, TypeOK, BeginPass
<1>3. UNCHANGED <<producerVars, tickVars, historyVars, stopped>>
  BY DEF BeginPass
<1>4. CASE stopped
  <2>1. pc' \in {"pass", "done"} /\ UNCHANGED <<dring, cons, last_read>>
    BY <1>4 DEF BeginPass
  <2> QED
    BY <1>1, <1>2, <1>3, <2>1, IdlePlace
<1>5. CASE ~stopped
  <2>1. Serve("trade", 1) /\ "trade" \in Rings /\ 1 \in Receivers
    BY <1>5, DisruptorAssumption DEF BeginPass, Rings, Receivers
  <2> QED
    BY <1>1, <1>2, <1>3, <2>1, ServePlace
<1> QED
  BY <1>4, <1>5

(* The consumer that was served publishes its cursor; the next one's turn  *)
(* comes, or the pass is over.                                             *)
LEMMA FinishPlace ==
    ASSUME PlaceInv, FinishConsumer
    PROVE  PlaceInv'
<1>1. /\ read_cursors \in [Rings -> [Receivers -> Cursor]]
      /\ last_read \in Cursor /\ dring \in Rings /\ cons \in Receivers
      /\ read_cursors' = [read_cursors EXCEPT ![dring][cons] = last_read]
  BY DEF PlaceInv, TypeOK, FinishConsumer
<1>2. read_cursors' \in [Rings -> [Receivers -> Cursor]]
  BY <1>1
<1>3. ASSUME NEW q \in Rings, NEW d \in Receivers
      PROVE  handed[q][d] = read_cursors'[q][d] + 1
  <2>1. CASE q = dring /\ d = cons
    BY <1>1, <2>1 DEF PlaceInv, HandedInTurn, Taken, Serving, FinishConsumer
  <2>2. CASE ~(q = dring /\ d = cons)
    <3>1. read_cursors'[q][d] = read_cursors[q][d]
      BY <1>1, <2>2
    <3> QED
      BY <2>2, <3>1 DEF PlaceInv, HandedInTurn, Taken, Serving
  <2> QED
    BY <2>1, <2>2
<1>4. UNCHANGED <<producerVars, tickVars, historyVars, stopped>>
  BY DEF FinishConsumer
<1>5. CASE cons < Consumers /\ Serve(dring, cons + 1)
  <2>1. cons + 1 \in Receivers
    BY <1>1, <1>5, DisruptorAssumption DEF Receivers
  <2> QED
    BY <1>1, <1>2, <1>3, <1>4, <1>5, <2>1, ServePlace
<1>6. CASE Serve("quote", 1)
  <2>1. "quote" \in Rings /\ 1 \in Receivers
    BY DisruptorAssumption DEF Rings, Receivers
  <2> QED
    BY <1>2, <1>3, <1>4, <1>6, <2>1, ServePlace
<1>7. CASE pc' = "pass" /\ UNCHANGED <<dring, cons, last_read>>
  BY <1>2, <1>3, <1>4, <1>7, IdlePlace
<1> QED
  BY <1>5, <1>6, <1>7 DEF FinishConsumer

(* Handing a tick over moves one turn on, within what was claimed.         *)
LEMMA TickPlace ==
    ASSUME PlaceInv, ReadSymbol \/ HandOver \/ ConsumerReturns
    PROVE  PlaceInv'
<1>0. TypeOK /\ ReadInv /\ HandedInTurn
  BY DEF PlaceInv
<1>1. Slot \in Cursor
  <2>1. Idx(last_read + 1) \in 0 .. BufferSize - 1 /\ dring \in Rings
    BY <1>0, ReadNumbers, SlotRange
  <2> QED
    BY <1>0, <2>1, SlotNumbers DEF Slot
<1>2. /\ write_cursor[dring] \in Int /\ write_cursor[dring] < MaxTicks
      /\ last_read \in Int /\ -1 <= last_read /\ MaxTicks \in Nat
  BY <1>0, Numbers, ReadNumbers, DisruptorAssumption
<1>3. CASE ReadSymbol
  <2>1. TypeOK'
    BY <1>0, <1>1, <1>3 DEF ReadSymbol, TypeOK, producerVars, historyVars
  <2>2. ReadInv'
    BY <1>0, <1>3 DEF ReadSymbol, Available, ReadInv, producerVars
  <2>3. HandedInTurn'
    BY <1>0, <1>3, TurnsKept
    DEF ReadSymbol, producerVars, historyVars, Taken, Serving
  <2> QED
    BY <2>1, <2>2, <2>3 DEF PlaceInv
<1>4. CASE HandOver
  <2>1. /\ handed[dring][cons] = last_read + 1
        /\ last_read < write_cursor[dring]
        /\ dring \in Rings /\ cons \in Receivers
    BY <1>0, <1>4, ReadNumbers
    DEF HandOver, HandedInTurn, ReadInv, Taken, Serving
  <2>2. last_read + 1 \in 0 .. MaxTicks - 1 /\ last_read + 2 \in 0 .. MaxTicks
    BY <1>2, <2>1
  <2>3. /\ handed' = [handed EXCEPT ![dring][cons] = @ + 1]
        /\ handed \in [Rings -> [Receivers -> 0 .. MaxTicks]]
        /\ UNCHANGED <<producerVars, read_cursors, dring, cons, last_read>>
        /\ pc = "rest" /\ pc' = "call"
    BY <1>0, <1>4 DEF HandOver, TypeOK
  <2>4. \A r \in Rings, c \in Receivers :
            handed'[r][c] = IF r = dring /\ c = cons THEN last_read + 2
                                                     ELSE handed[r][c]
    BY <1>2, <2>1, <2>3
  <2>5. handed' \in [Rings -> [Receivers -> 0 .. MaxTicks]]
    BY <2>1, <2>2, <2>3, <1>2
  <2>6. overrun' \in [Rings -> SUBSET (0 .. MaxTicks - 1)]
    BY <1>0, <1>4, <2>2 DEF HandOver, TypeOK
  <2>7. TypeOK'
    BY <1>0, <1>1, <1>4, <2>5, <2>6 DEF HandOver, TypeOK, producerVars
  <2>8. ReadInv'
    BY <1>0, <2>1, <2>3 DEF ReadInv, producerVars
  <2>9. HandedInTurn'
    <3> SUFFICES ASSUME NEW r \in Rings, NEW c \in Receivers
                 PROVE  /\ handed'[r][c] = Taken(r, c)'
                        /\ handed'[r][c] <= write_cursor[r] + 1
      BY <2>3 DEF HandedInTurn, producerVars
    <3>1. CASE r = dring /\ c = cons
      <4>1. Taken(r, c)' = last_read + 2
        BY <2>3, <3>1 DEF Taken, Serving
      <4> QED
        BY <1>2, <2>1, <2>4, <3>1, <4>1
    <3>2. CASE ~(r = dring /\ c = cons)
      <4>1. Taken(r, c)' = Taken(r, c)
        BY <2>3, <3>2 DEF Taken, Serving
      <4> QED
        BY <1>0, <2>4, <3>2, <4>1 DEF HandedInTurn
    <3> QED
      BY <3>1, <3>2
  <2> QED
    BY <2>7, <2>8, <2>9 DEF PlaceInv
<1>5. CASE ConsumerReturns
  <2>1. /\ last_read < write_cursor[dring] /\ last_read' = last_read + 1
        /\ read_cursors[dring][cons] <= last_read
        /\ pc = "call" /\ pc' = "drain"
        /\ UNCHANGED <<step, write_cursor, dring, cons, read_cursors, handed>>
    BY <1>0, <1>5 DEF ConsumerReturns, ReadInv, producerVars, historyVars
  <2>2. last_read' \in Cursor /\ -1 \in Cursor
    BY <1>2, <2>1
  <2>3. TypeOK'
    BY <1>0, <1>5, <2>2 DEF ConsumerReturns, TypeOK, producerVars, historyVars
  <2>4. /\ last_read' <= write_cursor[dring]
        /\ read_cursors[dring][cons] <= last_read'
    BY <1>0, <1>2, <2>1, ReadNumbers
  <2>5. ReadInv'
    BY <1>0, <2>1, <2>4 DEF ReadInv
  <2>6. \A r \in Rings, c \in Receivers : Taken(r, c)' = Taken(r, c)
    BY <1>2, <2>1 DEF Taken, Serving
  <2>7. HandedInTurn'
    BY <1>0, <2>1, <2>6, TurnsKept
  <2> QED
    BY <2>3, <2>5, <2>7 DEF PlaceInv
<1> QED
  BY <1>3, <1>4, <1>5

(* Every step keeps the types and the places of the cursors.               *)
LEMMA PlaceStep == PlaceInv /\ [Next]_vars => PlaceInv'
<1> SUFFICES ASSUME PlaceInv, [Next]_vars PROVE PlaceInv'
  OBVIOUS
<1>1. CASE UNCHANGED vars
  BY <1>1 DEF vars, PlaceInv, TypeOK, ReadInv, HandedInTurn, Taken, Serving,
              dispatcherVars, producerVars, tickVars, historyVars
<1> QED
  BY <1>1, CallerPlace, PassPlace, FinishPlace, TickPlace DEF Next, Dispatch

(* The types and the places of the cursors are invariant.                  *)
THEOREM Places == Spec => []PlaceInv
BY InitPlace, PlaceStep, PTL DEF Spec

(* Variables keep their types; in particular the dispatcher reads no slot  *)
(* outside the ring.                                                       *)
THEOREM Typing == Spec => []TypeOK
<1>1. PlaceInv => TypeOK
  BY DEF PlaceInv
<1> QED
  BY <1>1, Places, PTL

(* Every consumer is handed every tick once, in its turn, whatever the     *)
(* feed, start() and stop() do meanwhile.                                  *)
THEOREM TurnByTurn == Spec => []HandedInTurn
<1>1. PlaceInv => HandedInTurn
  BY DEF PlaceInv
<1> QED
  BY <1>1, Places, PTL

-----------------------------------------------------------------------------
(* The slots: a slot holds the last tick written to it, so one no older    *)
(* than any that was claimed, unless the write of that one is still to     *)
(* come.                                                                   *)

Before(n) == IF n < BufferSize THEN Never ELSE n - BufferSize

Pending(r, n) == step = "claimed" /\ ring = r /\ n = write_cursor[r]

SlotInv ==
    \A r \in Rings :
        /\ \A i \in 0 .. BufferSize - 1 :
               /\ buffer[r][i] <= write_cursor[r]
               /\ buffer[r][i] # Never => Idx(buffer[r][i]) = i
        /\ \A n \in 0 .. write_cursor[r] :
               \/ n <= buffer[r][Idx(n)]
               \/ Pending(r, n) /\ buffer[r][Idx(n)] = Before(n)

(* At first no slot was written and none claimed.                          *)
LEMMA InitSlot == Init => SlotInv
BY DisruptorAssumption DEF Init, SlotInv

(* The slot claimed next holds the tick of the round before, if any.       *)
LEMMA ClaimedSlot ==
    ASSUME PlaceInv, SlotInv, step = "checked", NEW r \in Rings
    PROVE  LET n == write_cursor[r] + 1 IN buffer[r][Idx(n)] = Before(n)
<1> DEFINE n == write_cursor[r] + 1
           x == buffer[r][Idx(n)]
           m == n - BufferSize
<1> USE DisruptorAssumption
<1>1. /\ n \in Nat /\ m \in Int /\ x \in Int /\ -1 <= x
      /\ Idx(n) \in 0 .. BufferSize - 1 /\ x < n
      /\ x # Never => Idx(x) = Idx(n)
  <2>1. n \in Nat /\ m \in Int
    BY Numbers, ReadNumbers DEF PlaceInv
  <2>2. Idx(n) \in 0 .. BufferSize - 1
    BY <2>1, SlotRange
  <2>3. x \in Int /\ -1 <= x
    BY <2>2, SlotNumbers DEF PlaceInv
  <2>4. x <= write_cursor[r] /\ (x # Never => Idx(x) = Idx(n))
    BY <2>2 DEF SlotInv
  <2> QED
    BY <2>1, <2>2, <2>3, <2>4, Numbers, ReadNumbers DEF PlaceInv
<1>2. x # Never => x <= m
  <2>1. x # Never => x + BufferSize <= n
    BY <1>1, NextRound
  <2> QED
    BY <1>1, <2>1
<1>3. CASE n < BufferSize
  BY <1>1, <1>2, <1>3 DEF Before
<1>4. CASE n >= BufferSize
  <2>1. m \in 0 .. write_cursor[r]
    BY <1>1, <1>4, Numbers, ReadNumbers DEF PlaceInv
  <2>2. Idx(m) = Idx(n)
    BY <1>1, RoundBefore
  <2>3. m <= x
    BY <2>1, <2>2 DEF SlotInv, Pending
  <2> QED
    BY <1>1, <1>2, <1>4, <2>3 DEF Before
<1> QED
  BY <1>1, <1>3, <1>4

(* Every step keeps what the slots hold.                                   *)
LEMMA SlotStep == PlaceInv /\ SlotInv /\ [Next]_vars => SlotInv'
<1> SUFFICES ASSUME PlaceInv, SlotInv, [Next]_vars PROVE SlotInv'
  OBVIOUS
<1> USE DisruptorAssumption
<1>1. CASE UNCHANGED <<write_cursor, buffer>> /\ step # "claimed"
  BY <1>1 DEF SlotInv, Pending
<1>2. CASE UNCHANGED <<write_cursor, buffer, step, ring>>
  BY <1>2 DEF SlotInv, Pending
<1>3. CASE Claim
  <2> SUFFICES ASSUME NEW r \in Rings PROVE
        /\ \A i \in 0 .. BufferSize - 1 :
               /\ buffer[r][i] <= write_cursor'[r]
               /\ buffer[r][i] # Never => Idx(buffer[r][i]) = i
        /\ \A n \in 0 .. write_cursor'[r] :
               \/ n <= buffer[r][Idx(n)]
               \/ Pending(r, n)' /\ buffer[r][Idx(n)] = Before(n)
    BY <1>3 DEF SlotInv, Claim, Before
  <2>1. /\ write_cursor[r] \in Int
        /\ write_cursor'[r] = IF r = ring THEN write_cursor[r] + 1
                                          ELSE write_cursor[r]
    <3>1. /\ write_cursor \in [Rings -> Cursor]
          /\ write_cursor' = [write_cursor EXCEPT ![ring] = @ + 1]
      BY <1>3 DEF PlaceInv, TypeOK, Claim
    <3> QED
      BY <3>1, Numbers DEF PlaceInv
  <2>2. \A n \in 0 .. write_cursor[r] : n <= buffer[r][Idx(n)]
    BY <1>3 DEF SlotInv, Pending, Claim
  <2>3. CASE r = ring
    <3> DEFINE n == write_cursor[r] + 1
    <3>1. buffer[r][Idx(n)] = Before(n)
      BY <1>3, ClaimedSlot DEF Claim
    <3>2. \A m \in Int : m = n => Pending(r, m)'
      BY <1>3, <2>1, <2>3 DEF Pending, Claim
    <3>3. \A m \in 0 .. write_cursor'[r] : m \in 0 .. write_cursor[r] \/ m = n
      BY <2>1, <2>3
    <3>4. ASSUME NEW m \in 0 .. write_cursor'[r]
          PROVE  \/ m <= buffer[r][Idx(m)]
                 \/ Pending(r, m)' /\ buffer[r][Idx(m)] = Before(m)
      <4>1. CASE m \in 0 .. write_cursor[r]
        BY <2>2, <4>1
      <4>2. CASE m = n
        BY <3>1, <3>2, <4>2
      <4> QED
        BY <3>3, <4>1, <4>2
    <3>5. ASSUME NEW i \in 0 .. BufferSize - 1
          PROVE  /\ buffer[r][i] <= write_cursor'[r]
                 /\ buffer[r][i] # Never => Idx(buffer[r][i]) = i
      <4>1. buffer[r][i] \in Int
        BY SlotNumbers DEF PlaceInv
      <4> QED
        BY <2>1, <2>3, <4>1 DEF SlotInv
    <3> QED
      BY <3>4, <3>5
  <2>4. CASE r # ring
    BY <2>1, <2>2, <2>4 DEF SlotInv
  <2> QED
    BY <2>3, <2>4
<1>4. CASE Write
  <2> DEFINE w == write_cursor[ring]
  <2>1. /\ ring \in Rings /\ w \in Cursor /\ Idx(w) \in 0 .. BufferSize - 1
        /\ write_cursor' = write_cursor /\ step' = "idle"
        /\ buffer' = [buffer EXCEPT ![ring][Idx(w)] = w]
        /\ buffer \in [Rings -> [0 .. BufferSize - 1 -> Cursor]]
        /\ \A r \in Rings : write_cursor[r] \in Cursor
    BY <1>4, Numbers, ReadNumbers, SlotRange DEF Write, PlaceInv, TypeOK
  <2> SUFFICES ASSUME NEW r \in Rings PROVE
        /\ \A i \in 0 .. BufferSize - 1 :
               /\ buffer'[r][i] <= write_cursor[r]
               /\ buffer'[r][i] # Never => Idx(buffer'[r][i]) = i
        /\ \A n \in 0 .. write_cursor[r] : n <= buffer'[r][Idx(n)]
    BY <2>1 DEF SlotInv
  <2>2. CASE r # ring
    <3>1. buffer'[r] = buffer[r]
      BY <2>1, <2>2
    <3> QED
      BY <2>2, <3>1 DEF SlotInv, Pending
  <2>3. CASE r = ring
    <3>1. \A i \in 0 .. BufferSize - 1 :
              buffer'[r][i] = IF i = Idx(w) THEN w ELSE buffer[r][i]
      BY <2>1, <2>3
    <3>2. ASSUME NEW i \in 0 .. BufferSize - 1
          PROVE  /\ buffer'[r][i] <= write_cursor[r]
                 /\ buffer'[r][i] # Never => Idx(buffer'[r][i]) = i
      BY <2>1, <2>3, <3>1 DEF SlotInv
    <3>3. ASSUME NEW n \in 0 .. write_cursor[r]
          PROVE  n <= buffer'[r][Idx(n)]
      <4>1. Idx(n) \in 0 .. BufferSize - 1
        BY SlotRange
      <4>2. CASE Idx(n) = Idx(w)
        BY <2>1, <2>3, <3>1, <4>1, <4>2
      <4>3. CASE Idx(n) # Idx(w)
        BY <2>1, <2>3, <3>1, <4>1, <4>3 DEF SlotInv, Pending
      <4> QED
        BY <4>2, <4>3
    <3> QED
      BY <3>2, <3>3
  <2> QED
    BY <2>2, <2>3
<1>5. CASE \E r \in Rings : Check(r)
  BY <1>1, <1>5 DEF Check
<1>6. CASE Start \/ Stop \/ Dispatch
  <2>1. UNCHANGED producerVars
    BY <1>6 DEF Start, Stop, Dispatch, BeginPass, ReadSymbol, HandOver,
                ConsumerReturns, FinishConsumer
  <2> QED
    BY <1>2, <2>1 DEF producerVars
<1>7. CASE UNCHANGED vars
  BY <1>2, <1>7 DEF vars, producerVars
<1> QED
  BY <1>3, <1>4, <1>5, <1>6, <1>7 DEF Next, Produce

(* What the slots hold is invariant.                                       *)
THEOREM Slots == Spec => [](PlaceInv /\ SlotInv)
<1>1. Init => PlaceInv /\ SlotInv
  BY InitPlace, InitSlot
<1>2. PlaceInv /\ SlotInv /\ [Next]_vars => (PlaceInv /\ SlotInv)'
  BY PlaceStep, SlotStep
<1> QED
  BY <1>1, <1>2, PTL DEF Spec

-----------------------------------------------------------------------------
(* What is handed over: the fields are read from the slot one after the    *)
(* other, and what a slot holds only gets newer.                           *)

HandInv ==
    /\ pc = "rest" =>
           InSlot(last_read + 1, symbol) /\ symbol <= Slot
    /\ HandedFromSlot

(* A slot that is read holds its tick, a later one, or the one before.     *)
LEMMA SlotRead ==
    ASSUME PlaceInv, SlotInv, pc \in {"drain", "rest"}, Available
    PROVE  InSlot(last_read + 1, Slot)
<1> DEFINE n == last_read + 1
           i == Idx(n)
<1>1. /\ dring \in Rings /\ n \in Int /\ n \in 0 .. write_cursor[dring]
      /\ i \in 0 .. BufferSize - 1
  <2>1. /\ dring \in Rings /\ last_read \in Int /\ -1 <= last_read
        /\ write_cursor[dring] \in Int /\ last_read < write_cursor[dring]
    BY Numbers, ReadNumbers DEF PlaceInv, Available
  <2> QED
    BY <2>1, SlotRange
<1>2. Slot = buffer[dring][i] /\ Slot \in Int
  BY <1>1, SlotNumbers DEF Slot, PlaceInv
<1>3. Slot # Never => Idx(Slot) = i
  BY <1>1, <1>2 DEF SlotInv
<1>4. n <= Slot \/ Slot = Before(n)
  BY <1>1, <1>2 DEF SlotInv
<1>5. n <= Slot => Slot # Never
  BY <1>1, <1>2
<1> QED
  BY <1>3, <1>4, <1>5, <1>2, <1>1 DEF InSlot, Before

(* No step makes a slot older.                                             *)
LEMMA SlotsAge ==
    ASSUME PlaceInv, SlotInv, [Next]_vars,
           NEW r \in Rings, NEW i \in 0 .. BufferSize - 1
    PROVE  buffer[r][i] <= buffer'[r][i]
<1>1. buffer[r][i] \in Int /\ buffer[r][i] <= write_cursor[r]
  BY SlotNumbers DEF PlaceInv, SlotInv
<1>2. CASE Write
  <2>1. /\ buffer' = [buffer EXCEPT ![ring][Idx(write_cursor[ring])] =
                                       write_cursor[ring]]
        /\ buffer \in [Rings -> [0 .. BufferSize - 1 -> Cursor]]
    BY <1>2 DEF Write, PlaceInv, TypeOK
  <2>2. buffer'[r][i] \in {buffer[r][i], write_cursor[r]}
    BY <2>1
  <2> QED
    BY <1>1, <2>2
<1>3. CASE buffer' = buffer
  BY <1>1, <1>3
<1>4. Write \/ buffer' = buffer
  BY DEF Next, Produce, Check, Claim, Start, Stop, Dispatch, BeginPass,
         ReadSymbol, HandOver, ConsumerReturns, FinishConsumer, vars,
         producerVars
<1> QED
  BY <1>2, <1>3, <1>4

(* At first nothing is handed over.                                        *)
LEMMA InitHand == Init => HandInv
BY DEF Init, HandInv, HandedFromSlot

(* Every step keeps what is handed over to the slot it was read from.      *)
LEMMA HandStep == PlaceInv /\ SlotInv /\ HandInv /\ [Next]_vars => HandInv'
<1> SUFFICES ASSUME PlaceInv, SlotInv, HandInv, [Next]_vars PROVE HandInv'
  OBVIOUS
<1>0. TypeOK /\ TypeOK'
  BY PlaceStep DEF PlaceInv
<1>1. /\ last_read \in Int /\ dring \in Rings
      /\ Idx(last_read + 1) \in 0 .. BufferSize - 1 /\ symbol \in Cursor
      /\ Slot \in Int /\ symbol \in Int
  <2>1. last_read \in Int /\ dring \in Rings /\ symbol \in Cursor
    BY <1>0, ReadNumbers DEF TypeOK
  <2>2. Idx(last_read + 1) \in 0 .. BufferSize - 1
    BY <2>1, SlotRange
  <2>3. Slot \in Int /\ symbol \in Int
    BY <1>0, <2>1, <2>2, SlotNumbers, DisruptorAssumption DEF Slot
  <2> QED
    BY <2>1, <2>2, <2>3
<1>2. CASE ReadSymbol
  <2>1. InSlot(last_read + 1, Slot)
    BY <1>2, SlotRead DEF ReadSymbol
  <2>2. /\ pc' = "rest" /\ symbol' = Slot
        /\ UNCHANGED <<buffer, dring, last_read>>
    BY <1>2 DEF ReadSymbol, producerVars
  <2> QED
    BY <1>1, <2>1, <2>2 DEF HandInv, HandedFromSlot, InSlot, Slot
<1>3. CASE HandOver
  <2>1. Available
    BY <1>3 DEF HandOver, Available, PlaceInv, ReadInv
  <2>2. InSlot(last_read + 1, Slot)
    BY <1>3, <2>1, SlotRead DEF HandOver
  <2>3. InSlot(last_read + 1, symbol) /\ symbol <= Slot
    BY <1>3 DEF HandOver, HandInv
  <2>4. /\ pc' = "call" /\ price' = Slot
        /\ UNCHANGED <<symbol, last_read>>
    BY <1>3 DEF HandOver
  <2> QED
    BY <2>2, <2>3, <2>4 DEF HandInv, HandedFromSlot, InSlot
<1>4. CASE pc' \notin {"rest", "call"}
  BY <1>4 DEF HandInv, HandedFromSlot
<1>5. CASE UNCHANGED <<pc, dring, last_read, symbol, price>>
  <2>1. Slot <= Slot'
    BY <1>1, <1>5, SlotsAge DEF Slot
  <2>2. Slot' \in Int
    <3>1. buffer' \in [Rings -> [0 .. BufferSize - 1 -> Cursor]]
      BY <1>0 DEF TypeOK
    <3>2. Slot' = buffer'[dring][Idx(last_read + 1)]
      BY <1>5 DEF Slot
    <3>3. Slot' \in Cursor
      BY <1>1, <3>1, <3>2
    <3> QED
      BY <3>3, DisruptorAssumption
  <2>3. pc = "rest" => symbol <= Slot'
    BY <1>1, <2>1, <2>2 DEF HandInv
  <2> QED
    BY <1>5, <2>3 DEF HandInv, HandedFromSlot, InSlot
<1>6. CASE Produce \/ Start \/ Stop \/ UNCHANGED vars
  <2>1. \/ pc' \notin {"rest", "call"}
        \/ UNCHANGED <<pc, dring, last_read, symbol, price>>
    BY <1>6 DEF Produce, Check, Claim, Write, Start, Stop, vars,
                dispatcherVars, tickVars
  <2> QED
    BY <1>4, <1>5, <2>1
<1>7. CASE BeginPass \/ ConsumerReturns \/ FinishConsumer
  <2>1. pc' \notin {"rest", "call"}
    BY <1>7 DEF BeginPass, ConsumerReturns, FinishConsumer, Serve
  <2> QED
    BY <1>4, <2>1
<1> QED
  BY <1>2, <1>3, <1>6, <1>7 DEF Next, Dispatch

(* What a consumer is handed is the tick whose turn it is, a later one     *)
(* that overwrote it, or the one before it in its slot when the dispatcher *)
(* is ahead of the write; never one of another slot, and the fields read   *)
(* last are not the older.                                                 *)
THEOREM FromItsSlot == Spec => []HandedFromSlot
<1>1. Init => PlaceInv /\ SlotInv /\ HandInv
  BY InitPlace, InitSlot, InitHand
<1>2. PlaceInv /\ SlotInv /\ HandInv /\ [Next]_vars
          => (PlaceInv /\ SlotInv /\ HandInv)'
  BY PlaceStep, SlotStep, HandStep
<1>3. HandInv => HandedFromSlot
  BY DEF HandInv
<1> QED
  BY <1>1, <1>2, <1>3, PTL DEF Spec

-----------------------------------------------------------------------------
(* What is lost.  A tick a round or more behind the write cursor is in no  *)
(* slot: it is lost to the consumers it was not handed to.  The producer   *)
(* counts the overflow before the claim that dooms the tick.               *)

Doomed(r) ==
    {n \in 0 .. write_cursor[r] - BufferSize :
        \E c \in Receivers : handed[r][c] <= n}

Gone(r) == overrun[r] \cup Doomed(r)

Oldest == write_cursor[ring] + 1 - BufferSize

Dooming ==
    /\ step = "checked"
    /\ Oldest >= 0
    /\ \E c \in Receivers : handed[ring][c] <= Oldest

LossInv ==
    Cardinality(Gone("trade")) + Cardinality(Gone("quote"))
        + (IF Dooming THEN 1 ELSE 0) <= overflow

(* The sets counted are finite.                                            *)
LEMMA GoneFinite ==
    ASSUME TypeOK, NEW r \in Rings
    PROVE  IsFiniteSet(Gone(r)) /\ Cardinality(Gone(r)) \in Nat
<1>1. Gone(r) \subseteq (0 .. MaxTicks - 1) \cup (0 .. write_cursor[r] - BufferSize)
  <2>1. overrun[r] \subseteq 0 .. MaxTicks - 1
    BY DEF TypeOK
  <2> QED
    BY <2>1 DEF Gone, Doomed
<1>2. IsFiniteSet(0 .. MaxTicks - 1)
      /\ IsFiniteSet(0 .. write_cursor[r] - BufferSize)
  <2>1. MaxTicks - 1 \in Int /\ write_cursor[r] - BufferSize \in Int /\ 0 \in Int
    BY Numbers, DisruptorAssumption
  <2> QED
    BY <2>1, FS_Interval
<1>3. IsFiniteSet((0 .. MaxTicks - 1) \cup (0 .. write_cursor[r] - BufferSize))
  BY <1>2, FS_Union
<1>4. IsFiniteSet(Gone(r))
  BY <1>1, <1>3, FS_Subset
<1> QED
  BY <1>4, FS_CardinalityType

(* So they have a size in every state.                                     *)
LEMMA GoneCounted ==
    TypeOK => Cardinality(Gone("trade")) \in Nat /\ Cardinality(Gone("quote")) \in Nat
BY GoneFinite DEF Rings

(* A tick found overwritten in its turn was a round behind the cursor.     *)
LEMMA OverrunWasDoomed ==
    ASSUME PlaceInv, SlotInv, HandOver
    PROVE  overrun'[dring] \subseteq Gone(dring)
<1> DEFINE n == last_read + 1
<1>1. /\ n \in Int /\ 0 <= n /\ dring \in Rings /\ cons \in Receivers
      /\ Idx(n) \in 0 .. BufferSize - 1 /\ handed[dring][cons] = n
      /\ write_cursor[dring] \in Int /\ BufferSize \in Int
  <2>1. /\ last_read \in Int /\ -1 <= last_read
        /\ dring \in Rings /\ cons \in Receivers
        /\ write_cursor[dring] \in Int /\ BufferSize \in Int
    BY Numbers, ReadNumbers, DisruptorAssumption DEF PlaceInv
  <2>2. Idx(n) \in 0 .. BufferSize - 1
    BY <2>1, SlotRange
  <2>3. handed[dring][cons] = n
    BY <2>1 DEF PlaceInv, HandedInTurn, Taken, Serving, HandOver
  <2> QED
    BY <2>1, <2>2, <2>3
<1>2. overrun[dring] \subseteq Gone(dring)
  BY DEF Gone
<1>3. CASE Slot > n
  <2>1. /\ Slot = buffer[dring][Idx(n)] /\ Slot \in Int
        /\ Slot <= write_cursor[dring]
    BY <1>1, SlotNumbers DEF Slot, SlotInv, PlaceInv
  <2>2. Idx(Slot) = Idx(n)
    BY <1>1, <1>3, <2>1 DEF SlotInv
  <2>3. Slot >= n + BufferSize
    BY <1>1, <1>3, <2>1, <2>2, NextRound
  <2>4. n \in 0 .. write_cursor[dring] - BufferSize
    BY <1>1, <2>1, <2>3
  <2>5. n \in Doomed(dring)
    BY <1>1, <2>4 DEF Doomed
  <2>6. overrun'[dring] \subseteq overrun[dring] \cup {n}
    BY <1>1, <1>3 DEF HandOver, PlaceInv, TypeOK
  <2> QED
    BY <1>2, <2>5, <2>6 DEF Gone
<1>4. CASE ~(Slot > n)
  <2>1. overrun'[dring] = overrun[dring]
    BY <1>1, <1>4 DEF HandOver, PlaceInv, TypeOK
  <2> QED
    BY <1>2, <2>1
<1> QED
  BY <1>3, <1>4

(* What a consumer was handed only grows, and overruns are of what was     *)
(* lost already.                                                           *)
LEMMA HistoryGrows ==
    ASSUME PlaceInv, SlotInv, [Next]_vars, NEW r \in Rings
    PROVE  /\ overrun'[r] \subseteq Gone(r)
           /\ \A c \in Receivers : handed[r][c] <= handed'[r][c]
<1>1. \A c \in Receivers : handed[r][c] \in Int
  BY ReadNumbers DEF PlaceInv
<1>2. CASE HandOver
  <2>1. overrun'[r] \subseteq Gone(r)
    <3>1. CASE r = dring
      BY <1>2, <3>1, OverrunWasDoomed
    <3>2. CASE r # dring
      BY <1>2, <3>2 DEF HandOver, PlaceInv, TypeOK, Gone
    <3> QED
      BY <3>1, <3>2
  <2>2. \A c \in Receivers : handed[r][c] <= handed'[r][c]
    <3>1. /\ handed' = [handed EXCEPT ![dring][cons] = @ + 1]
          /\ handed \in [Rings -> [Receivers -> 0 .. MaxTicks]]
      BY <1>2 DEF HandOver, PlaceInv, TypeOK
    <3>2. \A c \in Receivers : handed'[r][c] \in {handed[r][c], handed[r][c] + 1}
      BY <3>1
    <3> QED
      BY <1>1, <3>2
  <2> QED
    BY <2>1, <2>2
<1>3. CASE UNCHANGED <<handed, overrun>>
  BY <1>1, <1>3 DEF Gone
<1>4. HandOver \/ UNCHANGED <<handed, overrun>>
  BY DEF Next, Produce, Check, Claim, Write, Start, Stop, Dispatch, BeginPass,
         ReadSymbol, HandOver, ConsumerReturns, FinishConsumer, vars,
         dispatcherVars, historyVars
<1> QED
  BY <1>2, <1>3, <1>4

(* Where the write cursor stays, nothing more is lost.                     *)
LEMMA NothingLost ==
    ASSUME PlaceInv, SlotInv, [Next]_vars, NEW r \in Rings,
           write_cursor'[r] = write_cursor[r]
    PROVE  Cardinality(Gone(r)') <= Cardinality(Gone(r))
<1>1. TypeOK' /\ TypeOK
  BY PlaceStep DEF PlaceInv
<1>2. \A c \in Receivers :
          handed[r][c] \in Int /\ handed'[r][c] \in Int
          /\ handed[r][c] <= handed'[r][c]
  <2>1. handed' \in [Rings -> [Receivers -> 0 .. MaxTicks]]
    BY <1>1 DEF TypeOK
  <2> QED
    BY <1>1, <2>1, HistoryGrows, ReadNumbers
<1>3. Doomed(r)' \subseteq Doomed(r)
  <2> SUFFICES ASSUME NEW n \in Doomed(r)' PROVE n \in Doomed(r)
    OBVIOUS
  <2>1. /\ n \in 0 .. write_cursor[r] - BufferSize
        /\ \E c \in Receivers : handed'[r][c] <= n
    BY DEF Doomed
  <2>2. \E c \in Receivers : handed[r][c] <= n
    BY <1>2, <2>1
  <2> QED
    BY <2>1, <2>2 DEF Doomed
<1>4. Gone(r)' \subseteq Gone(r)
  BY <1>3, HistoryGrows DEF Gone
<1> QED
  BY <1>1, <1>4, GoneFinite, FS_Subset

(* A claim loses at most the one tick it dooms.                            *)
LEMMA ClaimLoses ==
    ASSUME PlaceInv, SlotInv, Claim
    PROVE  Cardinality(Gone(ring)') <=
               Cardinality(Gone(ring)) + (IF Dooming THEN 1 ELSE 0)
<1>0. /\ ring \in Rings /\ ring' = ring /\ write_cursor[ring] \in Int
      /\ write_cursor'[ring] = write_cursor[ring] + 1
      /\ step = "checked" /\ UNCHANGED <<handed, overrun>>
      /\ BufferSize \in Int /\ Oldest \in Int
  BY Numbers, DisruptorAssumption
  DEF PlaceInv, TypeOK, Claim, dispatcherVars, historyVars, Oldest
<1>1. IsFiniteSet(Gone(ring)) /\ Cardinality(Gone(ring)) \in Nat
  BY <1>0, GoneFinite DEF PlaceInv
<1>2. Doomed(ring)' \subseteq Doomed(ring) \cup {Oldest}
  BY <1>0 DEF Doomed, Oldest
<1>3. Oldest \in Doomed(ring)' => Dooming
  BY <1>0 DEF Doomed, Dooming
<1>4. CASE Dooming
  <2>1. Gone(ring)' \subseteq Gone(ring) \cup {Oldest}
    BY <1>0, <1>2 DEF Gone
  <2>2. /\ IsFiniteSet(Gone(ring) \cup {Oldest})
        /\ Cardinality(Gone(ring) \cup {Oldest}) <= Cardinality(Gone(ring)) + 1
        /\ Cardinality(Gone(ring) \cup {Oldest}) \in Nat
    BY <1>1, FS_AddElement, FS_CardinalityType
  <2>3. Cardinality(Gone(ring)') <= Cardinality(Gone(ring) \cup {Oldest})
    BY <2>1, <2>2, FS_Subset
  <2>4. Cardinality(Gone(ring)') \in Nat
    BY <2>1, <2>2, FS_Subset, FS_CardinalityType
  <2> QED
    BY <1>1, <1>4, <2>2, <2>3, <2>4
<1>5. CASE ~Dooming
  <2>1. Gone(ring)' \subseteq Gone(ring)
    BY <1>0, <1>2, <1>3, <1>5 DEF Gone
  <2>2. Cardinality(Gone(ring)') <= Cardinality(Gone(ring))
    BY <1>1, <2>1, FS_Subset
  <2> QED
    BY <1>1, <1>5, <2>2
<1> QED
  BY <1>4, <1>5

(* The producer counts an overflow before every claim that dooms a tick.   *)
LEMMA CheckCounts ==
    ASSUME PlaceInv, NEW r \in Rings, Check(r), Dooming'
    PROVE  overflow' = overflow + 1
<1>1. /\ ring' = r /\ write_cursor' = write_cursor /\ handed' = handed
      /\ write_cursor[r] \in Int /\ BufferSize \in Int
  BY Numbers, DisruptorAssumption
  DEF PlaceInv, Check, dispatcherVars, historyVars
<1>2. PICK c \in Receivers : handed[r][c] <= write_cursor[r] + 1 - BufferSize
  BY <1>1 DEF Dooming, Oldest
<1>3. read_cursors[r][c] + 1 <= handed[r][c]
  <2>1. handed[r][c] = Taken(r, c)
    BY DEF PlaceInv, HandedInTurn
  <2>2. read_cursors[r][c] \in Int /\ last_read \in Int
    BY ReadNumbers DEF PlaceInv
  <2>3. Serving(r, c) => read_cursors[r][c] <= last_read
    BY DEF PlaceInv, ReadInv, Serving
  <2> QED
    BY <2>1, <2>2, <2>3 DEF Taken
<1>4. read_cursors[r][c] \in Int /\ handed[r][c] \in Int
  BY ReadNumbers DEF PlaceInv
<1>5. write_cursor[r] - read_cursors[r][c] >= BufferSize - 1
  BY <1>1, <1>2, <1>3, <1>4
<1>6. Behind(r, BufferSize - 1)
  BY <1>5 DEF Behind
<1> QED
  BY <1>6 DEF Check

(* At first nothing is lost.                                               *)
LEMMA InitLoss == Init => LossInv
<1> SUFFICES ASSUME Init PROVE LossInv
  OBVIOUS
<1>1. Gone("trade") = {} /\ Gone("quote") = {}
  <2>1. write_cursor["trade"] = -1 /\ write_cursor["quote"] = -1
    BY DEF Init, Rings
  <2>2. Doomed("trade") = {} /\ Doomed("quote") = {}
    BY <2>1, DisruptorAssumption DEF Doomed
  <2>3. overrun["trade"] = {} /\ overrun["quote"] = {}
    BY DEF Init, Rings
  <2> QED
    BY <2>2, <2>3 DEF Gone
<1>2. ~Dooming /\ overflow = 0
  BY DEF Init, Dooming
<1> QED
  BY <1>1, <1>2, FS_EmptySet DEF LossInv

(* Every step counts what it loses.                                        *)
LEMMA LossStep == PlaceInv /\ SlotInv /\ LossInv /\ [Next]_vars => LossInv'
<1> SUFFICES ASSUME PlaceInv, SlotInv, LossInv, [Next]_vars PROVE LossInv'
  OBVIOUS
<1> DEFINE T == Cardinality(Gone("trade"))
           Q == Cardinality(Gone("quote"))
           D == IF Dooming THEN 1 ELSE 0
<1>1. "trade" \in Rings /\ "quote" \in Rings /\ \A r \in Rings : r \in {"trade", "quote"}
  BY DEF Rings
<1>2. T \in Nat /\ Q \in Nat /\ overflow \in Nat /\ D \in {0, 1} /\ T + Q + D <= overflow
  BY <1>1, GoneFinite DEF PlaceInv, TypeOK, LossInv
<1>3. T' \in Nat /\ Q' \in Nat /\ D' \in {0, 1} /\ overflow' \in Nat
  <2>1. TypeOK'
    BY PlaceStep DEF PlaceInv
  <2>2. T' \in Nat /\ Q' \in Nat
    <3>1. (Cardinality(Gone("trade")) \in Nat /\ Cardinality(Gone("quote")) \in Nat)'
      BY <2>1, GoneCounted, PTL
    <3> QED
      BY <3>1
  <2> QED
    BY <2>1, <2>2 DEF TypeOK
<1>4. CASE Claim
  <2>1. /\ ring \in Rings /\ write_cursor' = [write_cursor EXCEPT ![ring] = @ + 1]
        /\ step' = "claimed" /\ overflow' = overflow
        /\ write_cursor \in [Rings -> Cursor]
    BY <1>4 DEF Claim, PlaceInv, TypeOK
  <2>2. D' = 0
    BY <2>1 DEF Dooming
  <2>3. CASE ring = "trade"
    <3>1. T' <= T + D
      BY <1>4, <2>3, ClaimLoses DEF Claim
    <3>2. Q' <= Q
      BY <1>1, <2>1, <2>3, NothingLost
    <3> QED
      BY <1>2, <1>3, <2>1, <2>2, <3>1, <3>2 DEF LossInv
  <2>4. CASE ring = "quote"
    <3>1. Q' <= Q + D
      BY <1>4, <2>4, ClaimLoses DEF Claim
    <3>2. T' <= T
      BY <1>1, <2>1, <2>4, NothingLost
    <3> QED
      BY <1>2, <1>3, <2>1, <2>2, <3>1, <3>2 DEF LossInv
  <2> QED
    BY <1>1, <2>1, <2>3, <2>4
<1>5. ASSUME write_cursor' = write_cursor, D' <= D, overflow' = overflow
      PROVE  LossInv'
  <2>1. T' <= T /\ Q' <= Q
    BY <1>1, <1>5, NothingLost
  <2> QED
    BY <1>2, <1>3, <1>5, <2>1 DEF LossInv
<1>6. ASSUME NEW r \in Rings, Check(r)
      PROVE  LossInv'
  <2>1. /\ write_cursor' = write_cursor
        /\ overflow' = overflow \/ overflow' = overflow + 1
    BY <1>6 DEF Check
  <2>2. T' <= T /\ Q' <= Q
    BY <1>1, <2>1, NothingLost
  <2>3. D' = 1 => overflow' = overflow + 1
    BY <1>6, CheckCounts
  <2>4. D = 0
    BY <1>6 DEF Check, Dooming
  <2> QED
    BY <1>2, <1>3, <2>1, <2>2, <2>3, <2>4 DEF LossInv
<1>7. CASE ~Claim /\ ~(\E r \in Rings : Check(r))
  <2>1. /\ write_cursor' = write_cursor /\ overflow' = overflow
        /\ step' = "checked" => UNCHANGED <<step, ring>>
    BY <1>7 DEF Next, Produce, Write, Start, Stop, Dispatch, BeginPass,
                ReadSymbol, HandOver, ConsumerReturns, FinishConsumer, vars,
                producerVars
  <2>2. Dooming' => Dooming
    <3> SUFFICES ASSUME Dooming' PROVE Dooming
      OBVIOUS
    <3>1. /\ UNCHANGED <<step, ring>> /\ step = "checked" /\ Oldest' = Oldest
          /\ ring \in Rings /\ Oldest \in Int
      BY <2>1, Numbers, DisruptorAssumption DEF Dooming, Oldest, PlaceInv
    <3>2. PICK c \in Receivers : handed'[ring][c] <= Oldest
      BY <3>1 DEF Dooming
    <3>3. handed[ring][c] <= handed'[ring][c] /\ handed[ring][c] \in Int
      BY <3>1, HistoryGrows, ReadNumbers DEF PlaceInv
    <3>4. handed'[ring][c] \in Int
      <4>1. handed' \in [Rings -> [Receivers -> 0 .. MaxTicks]]
        BY PlaceStep DEF PlaceInv, TypeOK
      <4> QED
        BY <3>1, <4>1
    <3>5. handed[ring][c] <= Oldest
      BY <3>1, <3>2, <3>3, <3>4
    <3> QED
      BY <3>1, <3>5 DEF Dooming
  <2>3. D' <= D
    BY <2>2
  <2> QED
    BY <1>5, <2>1, <2>3
<1> QED
  BY <1>4, <1>6, <1>7

(* However the feed and the dispatcher interleave, a tick that some        *)
(* consumer lost, in full or in part, to a later one was counted by the    *)
(* producer as an overflow.                                                *)
THEOREM EveryLossCounted == Spec => []LossIsCounted
<1>1. Init => PlaceInv /\ SlotInv /\ LossInv
  BY InitPlace, InitSlot, InitLoss
<1>2. PlaceInv /\ SlotInv /\ LossInv /\ [Next]_vars
          => (PlaceInv /\ SlotInv /\ LossInv)'
  BY PlaceStep, SlotStep, LossStep
<1>3. PlaceInv /\ LossInv => LossIsCounted
  <2> SUFFICES ASSUME PlaceInv, LossInv PROVE LossIsCounted
    OBVIOUS
  <2>1. ASSUME NEW r \in Rings
        PROVE  /\ Cardinality(overrun[r]) <= Cardinality(Gone(r))
               /\ Cardinality(overrun[r]) \in Nat
               /\ Cardinality(Gone(r)) \in Nat
    <3>1. IsFiniteSet(Gone(r)) /\ Cardinality(Gone(r)) \in Nat
      BY GoneFinite DEF PlaceInv
    <3>2. overrun[r] \subseteq Gone(r)
      BY DEF Gone
    <3> QED
      BY <3>1, <3>2, FS_Subset, FS_CardinalityType
  <2>2. "trade" \in Rings /\ "quote" \in Rings /\ overflow \in Nat
    BY DEF Rings, PlaceInv, TypeOK
  <2> QED
    BY <2>1, <2>2 DEF LossInv, LossIsCounted
<1> QED
  BY <1>1, <1>2, <1>3, PTL DEF Spec

=============================================================================
