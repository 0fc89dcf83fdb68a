-------------------------- MODULE TradingBook_proofs --------------------------
(* The proof that the position and what is on its way make up the account  *)
(* (BookFollowsAccount of TradingPath), for any number of workers, any     *)
(* snapshots and any bounds.  The position once events are handled is a    *)
(* recursive function; what is needed of it is proved by induction over    *)
(* sets of indices.                                                        *)
EXTENDS TradingPath_proofs, SetInduction

-----------------------------------------------------------------------------
(* The run of the position over events, among which may be some that are   *)
(* left out of account.                                                    *)

Nothing == [type |-> "Nothing"]
Ev == Event \cup {Nothing}
IsFill(e) == e.type = "OrderFilled"
IsPush(e) == e.type \in {"PositionQuantity", "FullPosition"}

LEMMA ReplayedFacts ==
    ASSUME NEW s \in Int, NEW e \in Ev
    PROVE  /\ Replayed(s, e) \in Int
           /\ IsFill(e) => e.change \in Int /\ Replayed(s, e) = s + e.change
           /\ IsPush(e) => e.shares \in Int /\ Replayed(s, e) = e.shares
           /\ ~IsFill(e) /\ ~IsPush(e) => Replayed(s, e) = s
<1>1. CASE IsFill(e)
  <2>1. e.change \in Int
    BY <1>1 DEF Ev, Event, Requests, Nothing, IsFill
  <2> QED
    BY <1>1, <2>1 DEF Replayed, IsFill, IsPush
<1>2. CASE IsPush(e)
  <2>1. e.shares \in Int
    BY <1>2 DEF Ev, Event, Requests, Nothing, IsPush
  <2> QED
    BY <1>2, <2>1 DEF Replayed, IsFill, IsPush
<1>3. CASE ~IsFill(e) /\ ~IsPush(e)
  BY <1>3 DEF Replayed, IsFill, IsPush
<1> QED
  BY <1>1, <1>2, <1>3

LEMMA RunExists ==
    ASSUME NEW s \in Int, NEW b \in Seq(Ev)
    PROVE  \E r : r = [i \in 0 .. Len(b) |-> IF i = 0 THEN s ELSE Replayed(r[i - 1], b[i])]
<1> DEFINE Good(r, m) == /\ r \in [0 .. m -> Int] /\ r[0] = s
                         /\ \A i \in 1 .. m : r[i] = Replayed(r[i - 1], b[i])
           S == {m \in 0 .. Len(b) : \E r : Good(r, m)}
<1>0. Len(b) \in Nat /\ DOMAIN b = 1 .. Len(b)
  BY LenProperties
<1>1. 0 \in S
  <2> DEFINE z == [i \in 0 .. 0 |-> s]
  <2>1. z \in [0 .. 0 -> Int] /\ z[0] = s
    OBVIOUS
  <2>2. 1 .. 0 = {} /\ 0 \in 0 .. Len(b)
    BY <1>0
  <2> HIDE DEF z
  <2>3. Good(z, 0)
    BY <2>1, <2>2
  <2> QED
    BY <2>2, <2>3
<1>2. ASSUME NEW m \in 0 .. Len(b) - 1, m \in S PROVE m + 1 \in S
  <2>1. PICK r : Good(r, m)
    BY <1>2
  <2>2. m \in Nat /\ m + 1 \in 0 .. Len(b) /\ m + 1 \in 1 .. Len(b)
    BY <1>0
  <2> DEFINE q == [i \in 0 .. m + 1 |-> IF i = m + 1 THEN Replayed(r[m], b[m + 1]) ELSE r[i]]
  <2>3. Replayed(r[m], b[m + 1]) \in Int
    <3>1. b[m + 1] \in Ev
      BY <1>0, <2>2, ElementOfSeq
    <3>2. r[m] \in Int
      BY <2>1, <2>2
    <3> QED
      BY <3>1, <3>2, ReplayedFacts
  <2>4. ASSUME NEW i \in 0 .. m + 1, i # m + 1 PROVE i \in 0 .. m /\ r[i] \in Int
    <3>1. i \in 0 .. m
      BY <2>2, <2>4
    <3> QED
      BY <2>1, <3>1
  <2>5. q \in [0 .. m + 1 -> Int]
    BY <2>3, <2>4
  <2>6. \A i \in 0 .. m : i \in 0 .. m + 1 /\ i # m + 1 /\ q[i] = r[i]
    BY <2>2
  <2>7. q[m + 1] = Replayed(r[m], b[m + 1])
    BY <2>2
  <2> HIDE DEF q
  <2>8. q[0] = s
    BY <2>1, <2>2, <2>6
  <2>9. ASSUME NEW i \in 1 .. m + 1 PROVE q[i] = Replayed(q[i - 1], b[i])
    <3>1. CASE i = m + 1
      <4>1. i - 1 = m /\ m \in 0 .. m
        BY <2>2, <3>1
      <4> QED
        BY <2>6, <2>7, <3>1, <4>1
    <3>2. CASE i # m + 1
      <4>1. i \in 1 .. m /\ i \in 0 .. m /\ i - 1 \in 0 .. m
        BY <2>2, <3>2
      <4> QED
        BY <2>1, <2>6, <4>1
    <3> QED
      BY <3>1, <3>2
  <2>10. Good(q, m + 1)
    BY <2>5, <2>8, <2>9
  <2> QED
    BY <2>2, <2>10
<1>3. PICK r : Good(r, Len(b))
  <2> HIDE DEF Good
  <2>1. \A n \in 0 .. Len(b) - 1 : n \in S => n + 1 \in S
    BY <1>2
  <2> HIDE DEF S
  <2>2. 0 .. Len(b) \subseteq S
    BY <1>0, <1>1, <2>1, UpToInSet
  <2>3. Len(b) \in S
    BY <1>0, <2>2
  <2> QED
    BY <2>3 DEF S
<1>4. ASSUME NEW i \in 0 .. Len(b)
      PROVE  r[i] = IF i = 0 THEN s ELSE Replayed(r[i - 1], b[i])
  <2>1. i # 0 => i \in 1 .. Len(b)
    BY <1>0
  <2> QED
    BY <1>3, <2>1
<1>5. r = [i \in 0 .. Len(b) |-> IF i = 0 THEN s ELSE Replayed(r[i - 1], b[i])]
  BY <1>3, <1>4
<1> QED
  BY <1>5

(* The run begins with the position and is moved by one event after the    *)
(* other.                                                                  *)
LEMMA RunFacts ==
    ASSUME NEW s \in Int, NEW b \in Seq(Ev)
    PROVE  /\ Run(s, b)[0] = s
           /\ \A i \in 1 .. Len(b) : Run(s, b)[i] = Replayed(Run(s, b)[i - 1], b[i])
           /\ \A i \in 0 .. Len(b) : Run(s, b)[i] \in Int
<1> DEFINE r == Run(s, b)
<1>0. Len(b) \in Nat /\ DOMAIN b = 1 .. Len(b)
  BY LenProperties
<1>1. r = [i \in 0 .. Len(b) |-> IF i = 0 THEN s ELSE Replayed(r[i - 1], b[i])]
  BY RunExists, Zenon DEF Run
<1> HIDE DEF r
<1>2. ASSUME NEW i \in 0 .. Len(b)
      PROVE  r[i] = IF i = 0 THEN s ELSE Replayed(r[i - 1], b[i])
  BY <1>1, Zenon
<1>3. r[0] = s
  BY <1>0, <1>2
<1>4. ASSUME NEW i \in 1 .. Len(b) PROVE r[i] = Replayed(r[i - 1], b[i])
  BY <1>0, <1>2
<1> DEFINE S == {i \in 0 .. Len(b) : r[i] \in Int}
<1>5. 0 \in S
  BY <1>0, <1>3
<1>6. ASSUME NEW n \in 0 .. Len(b) - 1, n \in S PROVE n + 1 \in S
  <2>1. n + 1 \in 1 .. Len(b) /\ n + 1 \in 0 .. Len(b) /\ (n + 1) - 1 = n
    BY <1>0
  <2>2. b[n + 1] \in Ev
    BY <1>0, <2>1, ElementOfSeq
  <2>3. r[n + 1] = Replayed(r[n], b[n + 1])
    BY <1>4, <2>1
  <2>4. Replayed(r[n], b[n + 1]) \in Int
    BY <1>6, <2>2, ReplayedFacts
  <2> QED
    BY <2>1, <2>3, <2>4
<1>7. 0 .. Len(b) \subseteq S
  <2> HIDE DEF S
  <2> QED
    BY <1>0, <1>5, <1>6, UpToInSet
<1> QED
  BY <1>3, <1>4, <1>7 DEF r

(* Two runs are the same from where they meet as long as the events that   *)
(* follow move the first one alike.                                        *)
AlikeFrom(s, b, d, c, L) ==
    \A i \in 1 .. L : Replayed(Run(s, b)[d + i - 1], b[d + i])
                      = Replayed(Run(s, b)[d + i - 1], c[i])
SameFrom(s, b, d, t, c, L) == \A i \in 0 .. L : Run(s, b)[d + i] = Run(t, c)[i]

LEMMA RunShift ==
    ASSUME NEW s \in Int, NEW b \in Seq(Ev), NEW t \in Int, NEW c \in Seq(Ev),
           NEW d \in Nat, NEW L \in Nat, d + L <= Len(b), L <= Len(c),
           Run(s, b)[d] = t, AlikeFrom(s, b, d, c, L)
    PROVE  SameFrom(s, b, d, t, c, L)
<1> DEFINE r == Run(s, b)
           q == Run(t, c)
           S == {i \in 0 .. L : r[d + i] = q[i]}
<1>0. Len(b) \in Nat /\ Len(c) \in Nat
  BY LenProperties
<1>1. /\ \A i \in 1 .. Len(b) : r[i] = Replayed(r[i - 1], b[i])
      /\ q[0] = t
      /\ \A i \in 1 .. Len(c) : q[i] = Replayed(q[i - 1], c[i])
      /\ r[d] = t
      /\ \A i \in 1 .. L : Replayed(r[d + i - 1], b[d + i]) = Replayed(r[d + i - 1], c[i])
  BY RunFacts DEF AlikeFrom
<1> HIDE DEF r, q
<1>2. 0 \in S
  BY <1>1
<1>3. ASSUME NEW n \in 0 .. L - 1, n \in S PROVE n + 1 \in S
  <2>1. /\ n + 1 \in 1 .. L /\ n + 1 \in 1 .. Len(c) /\ d + (n + 1) \in 1 .. Len(b)
        /\ (n + 1) - 1 = n /\ d + (n + 1) - 1 = d + n /\ n + 1 \in 0 .. L
    BY <1>0
  <2>2. r[d + (n + 1)] = Replayed(r[d + n], b[d + (n + 1)])
    BY <1>1, <2>1
  <2>3. Replayed(r[d + n], b[d + (n + 1)]) = Replayed(r[d + n], c[n + 1])
    BY <1>1, <2>1
  <2>4. q[n + 1] = Replayed(q[n], c[n + 1])
    BY <1>1, <2>1
  <2>5. r[d + n] = q[n]
    BY <1>3
  <2> QED
    BY <2>1, <2>2, <2>3, <2>4, <2>5
<1>4. 0 .. L \subseteq S
  <2> HIDE DEF S
  <2> QED
    BY <1>2, <1>3, UpToInSet
<1> QED
  BY <1>4 DEF r, q, SameFrom

(* Without pushes a run is as far from another as it began.                *)
LEMMA RunApart ==
    ASSUME NEW s \in Int, NEW t \in Int, NEW c \in Seq(Ev),
           \A i \in 1 .. Len(c) : ~IsPush(c[i])
    PROVE  Drained(s, c) - s = Drained(t, c) - t
<1> DEFINE r == Run(s, c)
           q == Run(t, c)
           S == {i \in 0 .. Len(c) : r[i] - s = q[i] - t}
<1>0. Len(c) \in Nat /\ DOMAIN c = 1 .. Len(c)
  BY LenProperties
<1>1. /\ r[0] = s /\ q[0] = t
      /\ \A i \in 1 .. Len(c) : r[i] = Replayed(r[i - 1], c[i])
      /\ \A i \in 1 .. Len(c) : q[i] = Replayed(q[i - 1], c[i])
      /\ \A i \in 0 .. Len(c) : r[i] \in Int /\ q[i] \in Int
  BY RunFacts
<1> HIDE DEF r, q
<1>2. 0 \in S
  BY <1>0, <1>1
<1>3. ASSUME NEW n \in 0 .. Len(c) - 1, n \in S PROVE n + 1 \in S
  <2>1. /\ n + 1 \in 1 .. Len(c) /\ (n + 1) - 1 = n /\ n + 1 \in 0 .. Len(c)
        /\ n \in 0 .. Len(c)
    BY <1>0
  <2>2. c[n + 1] \in Ev
    BY <1>0, <2>1, ElementOfSeq
  <2>3. r[n] \in Int /\ q[n] \in Int /\ r[n] - s = q[n] - t
    BY <1>1, <1>3, <2>1
  <2>4. r[n + 1] = Replayed(r[n], c[n + 1]) /\ q[n + 1] = Replayed(q[n], c[n + 1])
    BY <1>1, <2>1
  <2>5. \/ /\ c[n + 1].change \in Int
           /\ r[n + 1] = r[n] + c[n + 1].change /\ q[n + 1] = q[n] + c[n + 1].change
        \/ r[n + 1] = r[n] /\ q[n + 1] = q[n]
    <3>1. CASE IsFill(c[n + 1])
      BY <2>2, <2>3, <2>4, <3>1, ReplayedFacts
    <3>2. CASE ~IsFill(c[n + 1])
      <4>1. ~IsPush(c[n + 1])
        BY <2>1
      <4> QED
        BY <2>2, <2>3, <2>4, <3>2, <4>1, ReplayedFacts
    <3> QED
      BY <3>1, <3>2
  <2>6. r[n + 1] - s = q[n + 1] - t
    <3>1. PICK x \in Int : r[n + 1] = r[n] + x /\ q[n + 1] = q[n] + x
      <4>1. r[n] + 0 = r[n] /\ q[n] + 0 = q[n] /\ 0 \in Int
        BY <2>3
      <4> QED
        BY <2>5, <4>1
    <3>2. \A k, m \in Int : k - s = m - t => (k + x) - s = (m + x) - t
      OBVIOUS
    <3>3. (r[n] + x) - s = (q[n] + x) - t
      BY <2>3, <3>2
    <3> QED
      BY <3>1, <3>3
  <2> QED
    BY <2>1, <2>6
<1>4. 0 .. Len(c) \subseteq S
  <2> HIDE DEF S
  <2> QED
    BY <1>0, <1>2, <1>3, UpToInSet
<1> QED
  BY <1>0, <1>4 DEF r, q, Drained

-----------------------------------------------------------------------------
(* What the position and the bus make of the account, and what a poll's    *)
(* answer and the fills the broker made after it do.                       *)

Book(s, b, a) ==
    /\ Drained(s, b) = a
    /\ \A i \in 1 .. Len(b) : IsPush(b[i]) => b[i].shares = Run(s, b)[i - 1]

(* The fills behind the first k events.                                    *)
Later(b, k) ==
    [i \in 1 .. Len(b) |-> IF i > k /\ IsFill(b[i]) THEN b[i] ELSE Nothing]
FillsTo(b, k) == Cardinality({i \in 1 .. k : IsFill(b[i])})

Owed(s, b, n, a) ==
    \E k \in 0 .. Len(b) : FillsTo(b, k) = n /\ a = Drained(s, Later(b, k))

LEMMA BusFacts ==
    ASSUME NEW b \in Seq(Event)
    PROVE  /\ b \in Seq(Ev) /\ Len(b) \in Nat /\ DOMAIN b = 1 .. Len(b)
           /\ \A i \in 1 .. Len(b) : b[i] \in Event /\ b[i] \in Ev
<1>1. Len(b) \in Nat /\ DOMAIN b = 1 .. Len(b)
  BY LenProperties
<1>2. \A i \in 1 .. Len(b) : b[i] \in Event
  BY <1>1, ElementOfSeq
<1>3. b \in Seq(Ev)
  BY DEF Ev
<1> QED
  BY <1>1, <1>2, <1>3 DEF Ev

LEMMA NothingFacts == Nothing \in Ev /\ ~IsFill(Nothing) /\ ~IsPush(Nothing)
BY DEF Ev, Nothing, IsFill, IsPush

LEMMA LaterFacts ==
    ASSUME NEW b \in Seq(Event), NEW k
    PROVE  /\ Later(b, k) \in Seq(Ev) /\ Len(Later(b, k)) = Len(b)
           /\ \A i \in 1 .. Len(b) :
                 /\ Later(b, k)[i] = IF i > k /\ IsFill(b[i]) THEN b[i] ELSE Nothing
                 /\ ~IsPush(Later(b, k)[i])
<1>1. /\ Len(b) \in Nat
      /\ \A i \in 1 .. Len(b) : b[i] \in Ev
  BY BusFacts
<1> DEFINE e(i) == IF i > k /\ IsFill(b[i]) THEN b[i] ELSE Nothing
<1>2. \A i \in 1 .. Len(b) : e(i) \in Ev /\ ~IsPush(e(i))
  BY <1>1, NothingFacts DEF IsFill, IsPush
<1>3. Later(b, k) = [i \in 1 .. Len(b) |-> e(i)]
  BY DEF Later
<1> HIDE DEF e
<1>4. Later(b, k) \in Seq(Ev) /\ Len(Later(b, k)) = Len(b)
  BY <1>1, <1>2, <1>3
<1>5. \A i \in 1 .. Len(b) : Later(b, k)[i] = e(i)
  BY <1>3
<1> QED
  BY <1>2, <1>4, <1>5 DEF e

LEMMA TailFacts ==
    ASSUME NEW S, NEW b \in Seq(S), b # <<>>
    PROVE  /\ Head(b) = b[1] /\ Head(b) \in S /\ Tail(b) \in Seq(S)
           /\ Len(b) \in Nat /\ Len(b) >= 1 /\ Len(Tail(b)) = Len(b) - 1
           /\ \A i \in 1 .. Len(b) - 1 : Tail(b)[i] = b[i + 1]
<1>1. Len(b) \in Nat /\ Len(b) # 0
  BY EmptySeq, LenProperties
<1>2. /\ Head(b) = b[1] /\ Head(b) \in S /\ Tail(b) \in Seq(S)
      /\ Len(Tail(b)) = Len(b) - 1
      /\ \A i \in 1 .. Len(Tail(b)) : Tail(b)[i] = b[i + 1]
  BY HeadTailProperties
<1> QED
  BY <1>1, <1>2

LEMMA AddedFacts ==
    ASSUME NEW S, NEW b \in Seq(S), NEW e \in S
    PROVE  /\ Append(b, e) \in Seq(S) /\ Len(Append(b, e)) = Len(b) + 1
           /\ Len(b) \in Nat
           /\ Append(b, e)[Len(b) + 1] = e
           /\ \A i \in 1 .. Len(b) : Append(b, e)[i] = b[i]
BY AppendProperties, LenProperties

(* One more event moves the end of the run.                                *)
LEMMA RunAppend ==
    ASSUME NEW s \in Int, NEW b \in Seq(Ev), NEW e \in Ev
    PROVE  /\ Drained(s, Append(b, e)) = Replayed(Drained(s, b), e)
           /\ \A i \in 0 .. Len(b) : Run(s, Append(b, e))[i] = Run(s, b)[i]
<1> DEFINE c == Append(b, e)
           L == Len(b)
<1>1. /\ c \in Seq(Ev) /\ Len(c) = L + 1 /\ L \in Nat
      /\ c[L + 1] = e /\ \A i \in 1 .. L : c[i] = b[i]
  BY AddedFacts
<1> HIDE DEF c, L
<1>2. AlikeFrom(s, b, 0, c, L)
  <2>1. \A i \in 1 .. L : 0 + i = i
    BY <1>1
  <2> QED
    BY <1>1, <2>1 DEF AlikeFrom
<1>3. Run(s, b)[0] = s /\ 0 + L <= Len(b) /\ L <= Len(c)
  <2>1. Run(s, b)[0] = s
    BY RunFacts
  <2>2. 0 + L = Len(b) /\ L <= Len(b) /\ L <= Len(c)
    BY <1>1 DEF L
  <2> QED
    BY <2>1, <2>2
<1>4. SameFrom(s, b, 0, s, c, L)
  BY <1>1, <1>2, <1>3, RunShift
<1>5. \A i \in 0 .. L : Run(s, b)[i] = Run(s, c)[i]
  BY <1>1, <1>4 DEF SameFrom
<1>6. Run(s, c)[L + 1] = Replayed(Run(s, c)[L], e)
  <2>1. \A i \in 1 .. Len(c) : Run(s, c)[i] = Replayed(Run(s, c)[i - 1], c[i])
    BY <1>1, RunFacts
  <2>2. L + 1 \in 1 .. Len(c) /\ (L + 1) - 1 = L
    BY <1>1
  <2> QED
    BY <1>1, <2>1, <2>2
<1>7. Run(s, c)[L + 1] = Replayed(Run(s, b)[L], e)
  BY <1>1, <1>5, <1>6
<1>8. Drained(s, c) = Replayed(Drained(s, b), e)
  BY <1>1, <1>7 DEF Drained, L
<1> QED
  BY <1>5, <1>8 DEF c, L

(* Once the first event is handled the run goes on as it would have.       *)
LEMMA RunTail ==
    ASSUME NEW s \in Int, NEW b \in Seq(Ev), b # <<>>
    PROVE  /\ Replayed(s, Head(b)) \in Int
           /\ Drained(Replayed(s, Head(b)), Tail(b)) = Drained(s, b)
           /\ \A i \in 0 .. Len(b) - 1 :
                 Run(Replayed(s, Head(b)), Tail(b))[i] = Run(s, b)[i + 1]
<1> DEFINE c == Tail(b)
           L == Len(b) - 1
           t == Replayed(s, Head(b))
<1>1. /\ c \in Seq(Ev) /\ Len(c) = L /\ L \in Nat /\ Len(b) = L + 1
      /\ Head(b) = b[1] /\ Head(b) \in Ev /\ \A i \in 1 .. L : c[i] = b[i + 1]
  BY TailFacts
<1>2. t \in Int
  BY <1>1, ReplayedFacts
<1>3. Run(s, b)[1] = t
  <2>1. Run(s, b)[0] = s /\ \A i \in 1 .. Len(b) : Run(s, b)[i] = Replayed(Run(s, b)[i - 1], b[i])
    BY RunFacts
  <2>2. 1 \in 1 .. Len(b) /\ 1 - 1 = 0
    BY <1>1
  <2> QED
    BY <1>1, <2>1, <2>2
<1> HIDE DEF c, L, t
<1>4. AlikeFrom(s, b, 1, c, L)
  <2>1. \A i \in 1 .. L : 1 + i = i + 1
    BY <1>1
  <2> QED
    BY <1>1, <2>1 DEF AlikeFrom
<1>5. SameFrom(s, b, 1, t, c, L)
  <2>1. 1 + L <= Len(b) /\ L <= Len(c) /\ 1 \in Nat
    BY <1>1
  <2> QED
    BY <1>1, <1>2, <1>3, <1>4, <2>1, RunShift
<1>6. \A i \in 0 .. L : Run(t, c)[i] = Run(s, b)[i + 1]
  <2>1. \A i \in 0 .. L : 1 + i = i + 1
    BY <1>1
  <2> QED
    BY <1>5, <2>1 DEF SameFrom
<1>7. Drained(t, c) = Drained(s, b)
  BY <1>1, <1>6 DEF Drained
<1> QED
  BY <1>2, <1>6, <1>7 DEF c, L, t

-----------------------------------------------------------------------------
(* What happens to the book when an event is published or handled.         *)

LEMMA BookAppend ==
    ASSUME NEW s \in Int, NEW b \in Seq(Event), NEW a \in Int, Book(s, b, a),
           NEW e \in Event, IsPush(e) => e.shares = a
    PROVE  Book(s, Append(b, e), Replayed(a, e))
<1> DEFINE c == Append(b, e)
           L == Len(b)
<1>1. /\ b \in Seq(Ev) /\ e \in Ev /\ L \in Nat /\ Len(c) = L + 1
      /\ c[L + 1] = e /\ \A i \in 1 .. L : c[i] = b[i]
  BY BusFacts, AddedFacts DEF Ev
<1>2. /\ Drained(s, c) = Replayed(Drained(s, b), e)
      /\ \A i \in 0 .. L : Run(s, c)[i] = Run(s, b)[i]
  BY <1>1, RunAppend
<1>3. /\ Drained(s, b) = a /\ Run(s, b)[L] = a
      /\ \A i \in 1 .. L : IsPush(b[i]) => b[i].shares = Run(s, b)[i - 1]
  BY DEF Book, Drained
<1> HIDE DEF c, L
<1>4. Drained(s, c) = Replayed(a, e)
  BY <1>2, <1>3
<1>5. ASSUME NEW i \in 1 .. Len(c), IsPush(c[i]) PROVE c[i].shares = Run(s, c)[i - 1]
  <2>1. CASE i = L + 1
    <3>1. i - 1 = L /\ L \in 0 .. L
      BY <1>1, <2>1
    <3> QED
      BY <1>1, <1>2, <1>3, <1>5, <2>1, <3>1
  <2>2. CASE i # L + 1
    <3>1. i \in 1 .. L /\ i - 1 \in 0 .. L
      BY <1>1, <2>2
    <3> QED
      BY <1>1, <1>2, <1>3, <1>5, <3>1
  <2> QED
    BY <2>1, <2>2
<1> QED
  BY <1>4, <1>5 DEF Book, c

LEMMA BookTail ==
    ASSUME NEW s \in Int, NEW b \in Seq(Event), b # <<>>, NEW a, Book(s, b, a)
    PROVE  /\ Replayed(s, Head(b)) \in Int
           /\ Book(Replayed(s, Head(b)), Tail(b), a)
<1> DEFINE c == Tail(b)
           L == Len(b) - 1
           t == Replayed(s, Head(b))
<1>1. /\ b \in Seq(Ev) /\ Len(c) = L /\ L \in Nat /\ Len(b) = L + 1
      /\ \A i \in 1 .. L : c[i] = b[i + 1]
  BY BusFacts, TailFacts
<1>2. /\ t \in Int /\ Drained(t, c) = Drained(s, b)
      /\ \A i \in 0 .. L : Run(t, c)[i] = Run(s, b)[i + 1]
  BY <1>1, RunTail
<1>3. /\ Drained(s, b) = a
      /\ \A i \in 1 .. Len(b) : IsPush(b[i]) => b[i].shares = Run(s, b)[i - 1]
  BY DEF Book
<1> HIDE DEF c, L, t
<1>4. ASSUME NEW i \in 1 .. Len(c), IsPush(c[i]) PROVE c[i].shares = Run(t, c)[i - 1]
  <2>1. /\ i \in 1 .. L /\ i + 1 \in 1 .. Len(b) /\ (i + 1) - 1 = i
        /\ i - 1 \in 0 .. L /\ (i - 1) + 1 = i
    BY <1>1
  <2>2. c[i] = b[i + 1] /\ Run(t, c)[i - 1] = Run(s, b)[i]
    BY <1>1, <1>2, <2>1
  <2>3. IsPush(b[i + 1]) => b[i + 1].shares = Run(s, b)[i]
    BY <1>3, <2>1
  <2> QED
    BY <1>4, <2>2, <2>3
<1>5. Drained(t, c) = a
  BY <1>2, <1>3
<1> QED
  BY <1>2, <1>4, <1>5 DEF Book, c, t

(* An event that is no fill can be lost: a push would have told the        *)
(* position what it is.                                                    *)
LEMMA BookHead ==
    ASSUME NEW s \in Int, NEW b \in Seq(Event), b # <<>>, NEW a, Book(s, b, a)
    PROVE  ~IsFill(Head(b)) => Replayed(s, Head(b)) = s
<1>1. /\ b \in Seq(Ev) /\ Head(b) = b[1] /\ Head(b) \in Ev /\ 1 \in 1 .. Len(b)
  BY BusFacts, TailFacts DEF Ev
<1>2. Run(s, b)[0] = s
  BY <1>1, RunFacts
<1>3. IsPush(b[1]) => b[1].shares = Run(s, b)[1 - 1]
  BY <1>1 DEF Book
<1>4. IsPush(Head(b)) => Head(b).shares = s
  BY <1>1, <1>2, <1>3
<1> QED
  BY <1>1, <1>4, ReplayedFacts

-----------------------------------------------------------------------------
(* The fills among the first events.                                       *)

FillsIn(b, k) == {i \in 1 .. k : IsFill(b[i])}

LEMMA FillsInFacts ==
    ASSUME NEW b, NEW k \in Nat
    PROVE  /\ IsFiniteSet(FillsIn(b, k))
           /\ FillsTo(b, k) = Cardinality(FillsIn(b, k)) /\ FillsTo(b, k) \in Nat
           /\ FillsTo(b, k) = 0 <=> FillsIn(b, k) = {}
<1>1. IsFiniteSet(1 .. k)
  BY FS_Interval
<1>2. IsFiniteSet(FillsIn(b, k))
  BY <1>1, FS_Subset DEF FillsIn
<1>3. FillsTo(b, k) = Cardinality(FillsIn(b, k))
  BY DEF FillsTo, FillsIn
<1> QED
  BY <1>2, <1>3, FS_CardinalityType, FS_EmptySet

LEMMA FillsToTail ==
    ASSUME NEW b \in Seq(Event), b # <<>>, NEW k \in 1 .. Len(b)
    PROVE  /\ k - 1 \in 0 .. Len(Tail(b))
           /\ FillsTo(b, k) = IF IsFill(Head(b)) THEN FillsTo(Tail(b), k - 1) + 1
                                                 ELSE FillsTo(Tail(b), k - 1)
<1>1. /\ Head(b) = b[1] /\ Len(b) \in Nat /\ Len(Tail(b)) = Len(b) - 1
      /\ \A i \in 1 .. Len(b) - 1 : Tail(b)[i] = b[i + 1]
  BY TailFacts
<1>2. k - 1 \in Nat /\ k \in Nat /\ k - 1 \in 0 .. Len(Tail(b))
  BY <1>1
<1>3. /\ IsFiniteSet(FillsIn(b, k)) /\ IsFiniteSet(FillsIn(Tail(b), k - 1))
      /\ FillsTo(b, k) = Cardinality(FillsIn(b, k)) /\ FillsTo(b, k) \in Nat
      /\ FillsTo(Tail(b), k - 1) = Cardinality(FillsIn(Tail(b), k - 1))
  BY <1>2, FillsInFacts
<1> DEFINE T == FillsIn(Tail(b), k - 1)
           S == FillsIn(b, k) \ {1}
           f == [i \in T |-> i + 1]
<1>4. \A i \in 1 .. k - 1 : i + 1 \in 2 .. k /\ Tail(b)[i] = b[i + 1]
  BY <1>1
<1>5. f \in [T -> S]
  BY <1>1, <1>4 DEF FillsIn
<1>6. \A i, j \in T : f[i] = f[j] => i = j
  BY <1>1 DEF FillsIn
<1>7. \A x \in S : \E i \in T : f[i] = x
  <2> SUFFICES ASSUME NEW x \in S PROVE x - 1 \in T /\ f[x - 1] = x
    OBVIOUS
  <2>1. x - 1 \in 1 .. k - 1 /\ (x - 1) + 1 = x /\ IsFill(b[x])
    BY <1>1 DEF FillsIn
  <2>2. Tail(b)[x - 1] = b[x]
    BY <1>4, <2>1
  <2>3. x - 1 \in T
    BY <2>1, <2>2 DEF FillsIn
  <2> QED
    BY <2>1, <2>3
<1>8. ExistsBijection(T, S)
  <2> HIDE DEF T, S, f
  <2>1. f \in Injection(T, S)
    BY <1>5, <1>6 DEF Injection, IsInjective
  <2>2. f \in Surjection(T, S)
    BY <1>5, <1>7 DEF Surjection
  <2> QED
    BY <2>1, <2>2 DEF ExistsBijection, Bijection
<1>9. Cardinality(S) = FillsTo(Tail(b), k - 1)
  <2>1. IsFiniteSet(T) /\ Cardinality(T) = FillsTo(Tail(b), k - 1)
    BY <1>3
  <2> HIDE DEF T, S, f
  <2> QED
    BY <1>8, <2>1, FS_Bijection
<1>10. Cardinality(S) = IF 1 \in FillsIn(b, k) THEN FillsTo(b, k) - 1 ELSE FillsTo(b, k)
  BY <1>3, FS_RemoveElement
<1>11. 1 \in FillsIn(b, k) <=> IsFill(Head(b))
  BY <1>1 DEF FillsIn
<1> QED
  BY <1>2, <1>3, <1>9, <1>10, <1>11

-----------------------------------------------------------------------------
(* What happens to the poll's answer when an event is published or         *)
(* handled.                                                                *)

FillOf(e) == IF IsFill(e) THEN e ELSE Nothing

LEMMA LaterAppend ==
    ASSUME NEW b \in Seq(Event), NEW e \in Event, NEW k \in 0 .. Len(b)
    PROVE  /\ Later(Append(b, e), k) = Append(Later(b, k), FillOf(e))
           /\ FillsTo(Append(b, e), k) = FillsTo(b, k)
<1> DEFINE c == Append(b, e)
           L == Len(b)
           x == Later(c, k)
           y == Append(Later(b, k), FillOf(e))
<1>1. /\ c \in Seq(Event) /\ Len(c) = L + 1 /\ L \in Nat
      /\ c[L + 1] = e /\ \A i \in 1 .. L : c[i] = b[i]
  BY AddedFacts
<1>2. FillOf(e) \in Ev
  BY NothingFacts DEF FillOf, Ev
<1>3. /\ Later(b, k) \in Seq(Ev) /\ Len(Later(b, k)) = L
      /\ \A i \in 1 .. L :
            Later(b, k)[i] = IF i > k /\ IsFill(b[i]) THEN b[i] ELSE Nothing
  BY LaterFacts
<1>4. /\ x \in Seq(Ev) /\ Len(x) = L + 1
      /\ \A i \in 1 .. L + 1 : x[i] = IF i > k /\ IsFill(c[i]) THEN c[i] ELSE Nothing
  <2> HIDE DEF c
  <2>1. /\ Later(c, k) \in Seq(Ev) /\ Len(Later(c, k)) = Len(c)
        /\ \A i \in 1 .. Len(c) :
              Later(c, k)[i] = IF i > k /\ IsFill(c[i]) THEN c[i] ELSE Nothing
    BY <1>1, LaterFacts
  <2> QED
    BY <1>1, <2>1
<1>5. /\ y \in Seq(Ev) /\ Len(y) = L + 1
      /\ y[L + 1] = FillOf(e) /\ \A i \in 1 .. L : y[i] = Later(b, k)[i]
  BY <1>2, <1>3, AddedFacts
<1> HIDE DEF c, x, y, L
<1>6. ASSUME NEW i \in 1 .. L + 1 PROVE x[i] = y[i]
  <2>1. CASE i = L + 1
    <3>1. i > k
      BY <1>1, <2>1 DEF L
    <3> QED
      BY <1>1, <1>4, <1>5, <2>1, <3>1 DEF FillOf
  <2>2. CASE i # L + 1
    <3>1. i \in 1 .. L
      BY <1>1, <2>2
    <3> QED
      BY <1>1, <1>3, <1>4, <1>5, <3>1
  <2> QED
    BY <2>1, <2>2
<1>7. x = y
  BY <1>4, <1>5, <1>6, SeqEqual
<1>8. \A i \in 1 .. k : i \in 1 .. L
  BY <1>1 DEF L
<1>9. {i \in 1 .. k : IsFill(c[i])} = {i \in 1 .. k : IsFill(b[i])}
  BY <1>1, <1>8
<1> QED
  BY <1>7, <1>9 DEF FillsTo, x, y, c

LEMMA LaterTail ==
    ASSUME NEW b \in Seq(Event), b # <<>>, NEW k \in 1 .. Len(b)
    PROVE  Later(Tail(b), k - 1) = Tail(Later(b, k)) /\ Later(b, k) # <<>>
           /\ Head(Later(b, k)) = Nothing
<1> DEFINE c == Tail(b)
           L == Len(b) - 1
           q == Later(b, k)
           x == Later(c, k - 1)
           y == Tail(q)
<1>1. /\ c \in Seq(Event) /\ Len(c) = L /\ L \in Nat /\ Len(b) = L + 1
      /\ \A i \in 1 .. L : c[i] = b[i + 1]
  BY TailFacts
<1>2. /\ q \in Seq(Ev) /\ Len(q) = L + 1
      /\ \A i \in 1 .. L + 1 : q[i] = IF i > k /\ IsFill(b[i]) THEN b[i] ELSE Nothing
  BY <1>1, LaterFacts
<1>3. /\ x \in Seq(Ev) /\ Len(x) = L
      /\ \A i \in 1 .. L : x[i] = IF i > k - 1 /\ IsFill(c[i]) THEN c[i] ELSE Nothing
  <2> HIDE DEF c
  <2>1. /\ Later(c, k - 1) \in Seq(Ev) /\ Len(Later(c, k - 1)) = Len(c)
        /\ \A i \in 1 .. Len(c) :
              Later(c, k - 1)[i] = IF i > k - 1 /\ IsFill(c[i]) THEN c[i] ELSE Nothing
    BY <1>1, LaterFacts
  <2> QED
    BY <1>1, <2>1
<1> HIDE DEF q
<1>4. q # <<>>
  BY <1>1, <1>2
<1>5. /\ Head(q) = q[1] /\ y \in Seq(Ev) /\ Len(y) = L
      /\ \A i \in 1 .. L : y[i] = q[i + 1]
  BY <1>1, <1>2, <1>4, TailFacts
<1> HIDE DEF c, x, y, L
<1>6. ASSUME NEW i \in 1 .. L PROVE x[i] = y[i]
  <2>1. i + 1 \in 1 .. L + 1 /\ (i > k - 1 <=> i + 1 > k)
    BY <1>1
  <2>2. q[i + 1] = IF i + 1 > k /\ IsFill(b[i + 1]) THEN b[i + 1] ELSE Nothing
    BY <1>2, <2>1
  <2> QED
    BY <1>1, <1>3, <1>5, <2>1, <2>2
<1>7. x = y
  BY <1>3, <1>5, <1>6, SeqEqual
<1>8. Head(q) = Nothing
  <2>1. 1 \in 1 .. L + 1 /\ ~(1 > k)
    BY <1>1
  <2> QED
    BY <1>2, <1>5, <2>1
<1> QED
  BY <1>4, <1>7, <1>8 DEF x, y, c, q

LEMMA LaterNone ==
    ASSUME NEW b \in Seq(Event), NEW k \in 0 .. Len(b), FillsTo(b, k) = 0
    PROVE  Later(b, k) = Later(b, 0)
<1>1. k \in Nat /\ Len(b) \in Nat
  BY BusFacts
<1>2. FillsIn(b, k) = {}
  BY <1>1, FillsInFacts
<1>3. ASSUME NEW i \in 1 .. Len(b), IsFill(b[i]) PROVE i > k /\ i > 0
  <2>1. i \notin 1 .. k
    BY <1>2, <1>3 DEF FillsIn
  <2> QED
    BY <1>1, <2>1
<1> QED
  BY <1>3 DEF Later

LEMMA FillsToFirst ==
    ASSUME NEW b \in Seq(Event)
    PROVE  /\ FillsTo(b, 0) = 0
           /\ b # <<>> /\ ~IsFill(Head(b)) => 1 \in 1 .. Len(b) /\ FillsTo(b, 1) = 0
<1>1. FillsIn(b, 0) = {}
  BY DEF FillsIn
<1>2. ASSUME b # <<>>, ~IsFill(Head(b)) PROVE 1 \in 1 .. Len(b) /\ FillsIn(b, 1) = {}
  <2>1. Head(b) = b[1] /\ Len(b) \in Nat /\ Len(b) >= 1
    BY <1>2, TailFacts
  <2> QED
    BY <1>2, <2>1 DEF FillsIn
<1> QED
  BY <1>1, <1>2, FillsInFacts

LEMMA OwedAppend ==
    ASSUME NEW s \in Int, NEW b \in Seq(Event), NEW n, NEW a, Owed(s, b, n, a),
           NEW e \in Event
    PROVE  Owed(s, Append(b, e), n, IF IsFill(e) THEN a + e.change ELSE a)
<1>1. PICK k \in 0 .. Len(b) : FillsTo(b, k) = n /\ a = Drained(s, Later(b, k))
  BY DEF Owed
<1>2. /\ Later(Append(b, e), k) = Append(Later(b, k), FillOf(e))
      /\ FillsTo(Append(b, e), k) = FillsTo(b, k)
  BY LaterAppend
<1>3. Later(b, k) \in Seq(Ev) /\ FillOf(e) \in Ev
  BY LaterFacts, NothingFacts DEF FillOf, Ev
<1>4. Drained(s, Append(Later(b, k), FillOf(e))) = Replayed(a, FillOf(e))
  BY <1>1, <1>3, RunAppend
<1>5. a \in Int
  <2>1. Len(Later(b, k)) \in 0 .. Len(Later(b, k))
    BY <1>3, LenProperties
  <2> QED
    BY <1>1, <1>3, <2>1, RunFacts DEF Drained
<1>6. Replayed(a, FillOf(e)) = IF IsFill(e) THEN a + e.change ELSE a
  BY <1>3, <1>5, NothingFacts, ReplayedFacts DEF FillOf
<1>7. k \in 0 .. Len(Append(b, e))
  BY AddedFacts
<1> QED
  BY <1>1, <1>2, <1>4, <1>6, <1>7 DEF Owed

LEMMA OwedTail ==
    ASSUME NEW s \in Int, NEW b \in Seq(Event), b # <<>>, NEW n \in Nat, NEW a,
           Owed(s, b, n, a), IsFill(Head(b)) => n >= 1
    PROVE  Owed(s, Tail(b), IF IsFill(Head(b)) THEN n - 1 ELSE n, a)
<1>1. PICK k \in 1 .. Len(b) : FillsTo(b, k) = n /\ a = Drained(s, Later(b, k))
  <2>1. PICK k \in 0 .. Len(b) : FillsTo(b, k) = n /\ a = Drained(s, Later(b, k))
    BY DEF Owed
  <2>2. CASE k = 0
    <3>1. n = 0 /\ ~IsFill(Head(b))
      BY <2>1, <2>2, FillsToFirst
    <3>2. 1 \in 1 .. Len(b) /\ FillsTo(b, 1) = 0
      BY <3>1, FillsToFirst
    <3>3. Later(b, 1) = Later(b, 0)
      <4>1. 1 \in 0 .. Len(b)
        BY <3>2
      <4> QED
        BY <3>2, <4>1, LaterNone
    <3> QED
      BY <2>1, <2>2, <3>1, <3>2, <3>3
  <2>3. CASE k # 0
    <3>1. k \in 1 .. Len(b)
      BY <2>3, BusFacts
    <3> QED
      BY <2>1, <3>1
  <2> QED
    BY <2>2, <2>3
<1>2. /\ k - 1 \in 0 .. Len(Tail(b))
      /\ FillsTo(b, k) = IF IsFill(Head(b)) THEN FillsTo(Tail(b), k - 1) + 1
                                            ELSE FillsTo(Tail(b), k - 1)
  BY FillsToTail
<1>3. FillsTo(Tail(b), k - 1) = IF IsFill(Head(b)) THEN n - 1 ELSE n
  <2>1. k - 1 \in Nat
    BY BusFacts
  <2>2. FillsTo(Tail(b), k - 1) \in Nat
    BY <2>1, FillsInFacts
  <2> QED
    BY <1>1, <1>2, <2>2
<1>4. /\ Later(Tail(b), k - 1) = Tail(Later(b, k)) /\ Later(b, k) # <<>>
      /\ Head(Later(b, k)) = Nothing /\ Later(b, k) \in Seq(Ev)
  BY LaterTail, LaterFacts
<1>5. Replayed(s, Nothing) = s
  BY NothingFacts, ReplayedFacts
<1>6. Drained(s, Tail(Later(b, k))) = Drained(s, Later(b, k))
  BY <1>4, <1>5, RunTail
<1> QED
  BY <1>1, <1>2, <1>3, <1>4, <1>6 DEF Owed

(* A run of events none of which moves it ends where it began.             *)
LEMMA RunStill ==
    ASSUME NEW s \in Int, NEW q \in Seq(Ev), \A i \in 1 .. Len(q) : Replayed(s, q[i]) = s
    PROVE  Drained(s, q) = s
<1> DEFINE r == Run(s, q)
           S == {i \in 0 .. Len(q) : r[i] = s}
<1>1. /\ Len(q) \in Nat /\ r[0] = s
      /\ \A i \in 1 .. Len(q) : r[i] = Replayed(r[i - 1], q[i])
  BY RunFacts, LenProperties
<1> HIDE DEF r
<1>2. 0 \in S
  BY <1>1
<1>3. ASSUME NEW n \in 0 .. Len(q) - 1, n \in S PROVE n + 1 \in S
  <2>1. n + 1 \in 1 .. Len(q) /\ (n + 1) - 1 = n /\ n + 1 \in 0 .. Len(q)
    BY <1>1
  <2>2. r[n + 1] = Replayed(r[n], q[n + 1]) /\ r[n] = s
    BY <1>1, <1>3, <2>1
  <2> QED
    BY <2>1, <2>2
<1>4. 0 .. Len(q) \subseteq S
  <2> HIDE DEF S
  <2> QED
    BY <1>1, <1>2, <1>3, UpToInSet
<1> QED
  BY <1>1, <1>4 DEF r, Drained

(* When the broker answers, all fills on the bus are ahead of the answer.  *)
LEMMA OwedAll ==
    ASSUME NEW b \in Seq(Event), NEW a \in Int
    PROVE  Owed(a, b, FillsOn(b), a)
<1> DEFINE q == Later(b, Len(b))
<1>1. Len(b) \in Nat /\ DOMAIN b = 1 .. Len(b)
  BY BusFacts
<1>2. FillsOn(b) = FillsTo(b, Len(b))
  BY <1>1 DEF FillsOn, FillsTo, IsFill
<1>3. q \in Seq(Ev) /\ \A i \in 1 .. Len(q) : q[i] = Nothing
  <2>1. /\ q \in Seq(Ev) /\ Len(q) = Len(b)
        /\ \A i \in 1 .. Len(b) :
              q[i] = IF i > Len(b) /\ IsFill(b[i]) THEN b[i] ELSE Nothing
    BY LaterFacts
  <2>2. \A i \in 1 .. Len(b) : ~(i > Len(b))
    BY <1>1
  <2> HIDE DEF q
  <2> QED
    BY <2>1, <2>2
<1> HIDE DEF q
<1>4. \A i \in 1 .. Len(q) : Replayed(a, q[i]) = a
  BY <1>3, NothingFacts, ReplayedFacts
<1>5. Drained(a, q) = a
  BY <1>3, <1>4, RunStill
<1>6. Len(b) \in 0 .. Len(b)
  BY <1>1
<1> QED
  BY <1>2, <1>5, <1>6 DEF Owed, q

(* What the fills on the bus alone make of a position is what all of it    *)
(* makes when the pushes tell nothing new.                                 *)
LEMMA FillsAlone ==
    ASSUME NEW t \in Int, NEW b \in Seq(Event),
           \A i \in 1 .. Len(b) : IsPush(b[i]) => b[i].shares = Run(t, b)[i - 1]
    PROVE  Drained(t, Later(b, 0)) = Drained(t, b)
<1> DEFINE q == Later(b, 0)
           L == Len(b)
<1>1. /\ b \in Seq(Ev) /\ L \in Nat /\ \A i \in 1 .. L : b[i] \in Ev
      /\ q \in Seq(Ev) /\ Len(q) = L
      /\ \A i \in 1 .. L : q[i] = IF i > 0 /\ IsFill(b[i]) THEN b[i] ELSE Nothing
  BY BusFacts, LaterFacts
<1>2. Run(t, b)[0] = t /\ \A i \in 0 .. L : Run(t, b)[i] \in Int
  BY <1>1, RunFacts
<1>3. \A i \in 1 .. L : IsPush(b[i]) => b[i].shares = Run(t, b)[i - 1]
  OBVIOUS
<1>4. 0 + L <= Len(b) /\ L <= Len(q)
  BY <1>1
<1> HIDE DEF q, L
<1>5. ASSUME NEW i \in 1 .. L
      PROVE  Replayed(Run(t, b)[i - 1], b[i]) = Replayed(Run(t, b)[i - 1], q[i])
  <2>1. Run(t, b)[i - 1] \in Int /\ i > 0
    <3>1. i - 1 \in 0 .. L /\ i > 0
      BY <1>1
    <3> QED
      BY <1>2, <3>1
  <2>2. CASE IsFill(b[i])
    BY <1>1, <2>1, <2>2
  <2>3. CASE ~IsFill(b[i])
    <3>1. q[i] = Nothing
      BY <1>1, <2>3
    <3>2. Replayed(Run(t, b)[i - 1], q[i]) = Run(t, b)[i - 1]
      BY <2>1, <3>1, NothingFacts, ReplayedFacts
    <3>3. Replayed(Run(t, b)[i - 1], b[i]) = Run(t, b)[i - 1]
      BY <1>1, <1>3, <2>1, <2>3, ReplayedFacts
    <3> QED
      BY <3>2, <3>3
  <2> QED
    BY <2>2, <2>3
<1>6. AlikeFrom(t, b, 0, q, L)
  <2>1. \A i \in 1 .. L : 0 + i = i
    BY <1>1
  <2> QED
    BY <1>5, <2>1 DEF AlikeFrom
<1>7. SameFrom(t, b, 0, t, q, L)
  BY <1>1, <1>2, <1>4, <1>6, RunShift
<1>8. Run(t, b)[L] = Run(t, q)[L]
  <2>1. L \in 0 .. L /\ 0 + L = L
    BY <1>1
  <2> QED
    BY <1>7, <2>1 DEF SameFrom
<1> QED
  BY <1>1, <1>8 DEF Drained, q, L

(* An answer that misses no fill tells what the position should be ...     *)
LEMMA OwedNothing ==
    ASSUME NEW s \in Int, NEW b \in Seq(Event), NEW a, Owed(s, b, 0, a)
    PROVE  a = Drained(s, Later(b, 0))
BY LaterNone DEF Owed

LEMMA OwedBook ==
    ASSUME NEW s \in Int, NEW b \in Seq(Event), NEW a, Owed(s, b, 0, a),
           \A i \in 1 .. Len(b) : ~IsPush(b[i])
    PROVE  Book(s, b, a)
BY OwedNothing, FillsAlone DEF Book

(* ... and what it is, if the book is right.                               *)
LEMMA OwedAgrees ==
    ASSUME NEW s \in Int, NEW t \in Int, NEW b \in Seq(Event), NEW a \in Int,
           Owed(s, b, 0, a), Book(t, b, a)
    PROVE  s = t
<1>1. Drained(t, Later(b, 0)) = a
  BY FillsAlone DEF Book
<1>2. Drained(s, Later(b, 0)) = a
  BY OwedNothing
<1>3. /\ Later(b, 0) \in Seq(Ev)
      /\ \A i \in 1 .. Len(Later(b, 0)) : ~IsPush(Later(b, 0)[i])
  BY LaterFacts
<1>4. a - s = a - t
  BY <1>1, <1>2, <1>3, RunApart
<1> QED
  BY <1>4

-----------------------------------------------------------------------------
(* The invariant: while the book is exact, so is every push on the bus;    *)
(* and a poll's answer of which it is known how many fills are ahead tells *)
(* what the account was before the others.                                 *)

Polls == [shares : Int, syncing : BOOLEAN, ahead : Int] \cup {Idle, Off}
Answered(p) == p \notin {Off, Idle}

Kept(x, s, b, a, p) ==
    /\ x => Book(s, b, a)
    /\ Answered(p) /\ p.ahead >= 0 => Owed(p.shares, b, p.ahead, a)

BookInv == Kept(exact, pos.shares, bus, account, poll)

PollSees(p) == IF Answered(p) THEN [p EXCEPT !.ahead = @ - 1] ELSE p

LEMMA PollFacts ==
    ASSUME NEW p \in Polls, Answered(p)
    PROVE  /\ p.shares \in Int /\ p.ahead \in Int
           /\ [p EXCEPT !.ahead = @ - 1].shares = p.shares
           /\ [p EXCEPT !.ahead = @ - 1].ahead = p.ahead - 1
           /\ [p EXCEPT !.ahead = -1].ahead = -1
           /\ [p EXCEPT !.syncing = TRUE].shares = p.shares
           /\ [p EXCEPT !.syncing = TRUE].ahead = p.ahead
BY DEF Polls, Answered

(* An event is published.                                                  *)
LEMMA KeptAppend ==
    ASSUME NEW x, NEW s \in Int, NEW b \in Seq(Event), NEW a \in Int, NEW p \in Polls,
           Kept(x, s, b, a, p), NEW e \in Event, IsPush(e) => e.shares = a
    PROVE  Kept(x, s, Append(b, e), IF IsFill(e) THEN a + e.change ELSE a, p)
<1> DEFINE n == IF IsFill(e) THEN a + e.change ELSE a
<1>1. n = Replayed(a, e)
  BY ReplayedFacts DEF Ev
<1>2. x => Book(s, Append(b, e), Replayed(a, e))
  BY BookAppend DEF Kept
<1>3. ASSUME Answered(p), p.ahead >= 0 PROVE Owed(p.shares, Append(b, e), p.ahead, n)
  <2>1. Owed(p.shares, b, p.ahead, a) /\ p.shares \in Int
    BY <1>3, PollFacts DEF Kept
  <2> QED
    BY <2>1, OwedAppend
<1> QED
  BY <1>1, <1>2, <1>3 DEF Kept

(* The oldest event is handled.                                            *)
LEMMA KeptTail ==
    ASSUME NEW x, NEW s \in Int, NEW b \in Seq(Event), NEW a \in Int, NEW p \in Polls,
           Kept(x, s, b, a, p), b # <<>>
    PROVE  /\ Tail(b) \in Seq(Event) /\ Replayed(s, Head(b)) \in Int
           /\ Kept(x, Replayed(s, Head(b)), Tail(b), a,
                   IF IsFill(Head(b)) THEN PollSees(p) ELSE p)
<1> DEFINE q == IF IsFill(Head(b)) THEN PollSees(p) ELSE p
<1>1. Tail(b) \in Seq(Event) /\ Head(b) \in Ev
  BY TailFacts DEF Ev
<1>2. Replayed(s, Head(b)) \in Int
  BY <1>1, ReplayedFacts
<1>3. x => Book(Replayed(s, Head(b)), Tail(b), a)
  BY BookTail DEF Kept
<1>4. ASSUME Answered(q), q.ahead >= 0 PROVE Owed(q.shares, Tail(b), q.ahead, a)
  <2>1. Answered(p)
    BY <1>4 DEF PollSees
  <2>2. p.shares \in Int /\ p.ahead \in Int
    BY <2>1, PollFacts
  <2>3. /\ q.shares = p.shares
        /\ q.ahead = IF IsFill(Head(b)) THEN p.ahead - 1 ELSE p.ahead
    BY <2>1, PollFacts DEF PollSees
  <2>4. p.ahead \in Nat /\ (IsFill(Head(b)) => p.ahead >= 1)
    <3> HIDE DEF q
    <3>1. q.ahead >= 0
      BY <1>4
    <3> QED
      BY <2>2, <2>3, <3>1
  <2>5. Owed(p.shares, b, p.ahead, a)
    BY <2>1, <2>4 DEF Kept
  <2>6. Owed(p.shares, Tail(b), IF IsFill(Head(b)) THEN p.ahead - 1 ELSE p.ahead, a)
    BY <2>2, <2>4, <2>5, OwedTail
  <2> QED
    BY <2>3, <2>6
<1> QED
  BY <1>1, <1>2, <1>3, <1>4 DEF Kept

(* The oldest event is lost.                                               *)
LEMMA KeptDrop ==
    ASSUME NEW x, NEW s \in Int, NEW b \in Seq(Event), NEW a \in Int, NEW p \in Polls,
           Kept(x, s, b, a, p), b # <<>>
    PROVE  Kept(x /\ ~IsFill(Head(b)), s, Tail(b), a,
                IF IsFill(Head(b)) /\ Answered(p) THEN [p EXCEPT !.ahead = -1] ELSE p)
<1>1. CASE IsFill(Head(b))
  <2>1. CASE Answered(p)
    BY <1>1, <2>1, PollFacts DEF Kept
  <2>2. CASE ~Answered(p)
    BY <1>1, <2>2 DEF Kept
  <2> QED
    BY <2>1, <2>2
<1>2. CASE ~IsFill(Head(b))
  <2>1. Kept(x, Replayed(s, Head(b)), Tail(b), a, p)
    BY <1>2, KeptTail
  <2>2. x => Replayed(s, Head(b)) = s
    BY <1>2, BookHead DEF Kept
  <2> QED
    BY <1>2, <2>1, <2>2 DEF Kept
<1> QED
  BY <1>1, <1>2

-----------------------------------------------------------------------------
(* The steps of the system.                                                *)

LEMMA BookTyping ==
    TypeOK => /\ pos.shares \in Int /\ Right(pos) /\ bus \in Seq(Event) /\ account \in Int
              /\ poll \in Polls /\ BusTypes /\ TradeTypes /\ BrokerTypes /\ OcrTypes
<1> SUFFICES ASSUME TypeOK
             PROVE  /\ pos.shares \in Int /\ Right(pos) /\ bus \in Seq(Event)
                    /\ account \in Int /\ poll \in Polls /\ BusTypes /\ TradeTypes
                    /\ BrokerTypes /\ OcrTypes
  OBVIOUS
<1>1. BusTypes /\ TradeTypes /\ BrokerTypes /\ OcrTypes /\ BookTypes
  BY TypeGroups
<1>2. pos \in Position /\ Right(pos) /\ poll \in Polls
  BY <1>1 DEF BookTypes, Right, Polls
<1>3. pos.shares \in Int
  BY <1>2 DEF Position
<1> QED
  BY <1>1, <1>2, <1>3 DEF BusTypes, BrokerTypes

LEMMA InitBook == Init => BookInv
<1> SUFFICES ASSUME Init PROVE BookInv
  OBVIOUS
<1>1. TypeOK
  BY InitIInv DEF IInv
<1>2. pos.shares \in Int
  BY <1>1, BookTyping
<1>3. bus = <<>> /\ exact = (pos.shares = account) /\ ~Answered(poll)
  BY DEF Init, StartUp, Answered
<1>4. <<>> \in Seq(Ev) /\ Len(<<>>) = 0
  OBVIOUS
<1>5. Drained(pos.shares, <<>>) = pos.shares
  BY <1>2, <1>4, RunFacts DEF Drained
<1>6. \A i \in 1 .. 0 : FALSE
  OBVIOUS
<1>7. pos.shares = account => Book(pos.shares, <<>>, account)
  BY <1>4, <1>5, <1>6 DEF Book
<1> QED
  BY <1>3, <1>7 DEF BookInv, Kept

(* What the position, the bus, the account and the poll are not touched by *)
(* keeps the invariant.                                                    *)
LEMMA BookStays ==
    ASSUME BookInv, UNCHANGED <<bus, account, poll, exact>>, pos'.shares = pos.shares
    PROVE  BookInv'
BY DEF BookInv, Kept

LEMMA OcrBook ==
    ASSUME TypeOK, BookInv, NEW w \in Workers, Ocr(w)
    PROVE  BookInv'
<1>1. CASE Publish(w)
  <2> DEFINE e == Request(work[w])
  <2>1. /\ bus' = Append(bus, e) /\ UNCHANGED <<account, pos, poll, exact>>
        /\ At(w, "sending")
    BY <1>1 DEF Publish, brokerVars, bookVars, history
  <2>2. e \in Event /\ ~IsFill(e) /\ ~IsPush(e)
    <3>1. e \in Requests /\ e.type = "OrderRequest"
      BY <2>1, BookTyping, RequestTyped
    <3> HIDE DEF e
    <3> QED
      BY <3>1 DEF Event, IsFill, IsPush
  <2> HIDE DEF e
  <2>3. Kept(exact, pos.shares, Append(bus, e), account, poll)
    BY <2>2, BookTyping, KeptAppend DEF BookInv
  <2> QED
    BY <2>1, <2>3 DEF BookInv
<1>2. CASE ~Publish(w)
  <2>1. UNCHANGED <<bus, account, poll, exact, pos>>
    BY <1>2
    DEF Ocr, TakeSnapshot, Unchanged, ReadPosition, NoSignal, Suppress, Decide, NoPrice,
        brokerVars, bookVars, history
  <2> QED
    BY <2>1, BookStays
<1> QED
  BY <1>1, <1>2

LEMMA BusBook ==
    ASSUME TypeOK, BookInv, BusThread
    PROVE  BookInv'
<1>1. /\ pos.shares \in Int /\ Right(pos) /\ bus \in Seq(Event) /\ account \in Int
      /\ poll \in Polls /\ BusTypes
      /\ Kept(exact, pos.shares, bus, account, poll)
  BY BookTyping DEF BookInv
<1>2. ASSUME bus # <<>>, bus' = Tail(bus), ~IsFill(Head(bus)),
             pos'.shares = Replayed(pos.shares, Head(bus)),
             UNCHANGED <<account, poll, exact>>
      PROVE  BookInv'
  BY <1>1, <1>2, KeptTail DEF BookInv
<1>3. CASE Drop
  <2>1. bus # <<>> /\ bus' = Tail(bus) /\ UNCHANGED <<account, pos>>
    BY <1>3 DEF Drop, brokerVars
  <2>2. exact' = (exact /\ ~IsFill(Head(bus)))
    BY <1>3 DEF Drop, IsFill
  <2>3. poll' = IF IsFill(Head(bus)) /\ Answered(poll) THEN [poll EXCEPT !.ahead = -1] ELSE poll
    BY <1>3 DEF Drop, IsFill, PollMissesFill, Polling, Answered
  <2> QED
    BY <1>1, <2>1, <2>2, <2>3, KeptDrop DEF BookInv
<1>4. CASE RiskCheck
  <2> DEFINE e == [Head(bus) EXCEPT !.type = "ValidatedOrderRequest"]
  <2>1. /\ bus # <<>> /\ Head(bus).type = "OrderRequest"
        /\ bus' = Append(Tail(bus), e) \/ bus' = Tail(bus)
        /\ UNCHANGED <<account, pos, poll, exact>>
    BY <1>4 DEF RiskCheck, NextIs, brokerVars, bookVars, history
  <2>2. ~IsFill(Head(bus)) /\ Replayed(pos.shares, Head(bus)) = pos.shares
    BY <2>1 DEF IsFill, Replayed
  <2>3. Kept(exact, pos.shares, Tail(bus), account, poll) /\ Tail(bus) \in Seq(Event)
    BY <1>1, <2>1, <2>2, KeptTail
  <2>4. e \in Event /\ ~IsFill(e) /\ ~IsPush(e)
    <3>1. Head(bus) \in Requests
      BY <1>1, <2>1, HeadFacts
    <3>2. e \in Requests /\ e.type = "ValidatedOrderRequest"
      BY <3>1 DEF Requests
    <3> HIDE DEF e
    <3> QED
      BY <3>2 DEF Event, IsFill, IsPush
  <2> HIDE DEF e
  <2>5. Kept(exact, pos.shares, Append(Tail(bus), e), account, poll)
    BY <1>1, <2>3, <2>4, KeptAppend
  <2> QED
    BY <2>1, <2>3, <2>5 DEF BookInv
<1>5. CASE SkipRequest \/ Admit
  <2>1. /\ bus # <<>> /\ Head(bus).type = "ValidatedOrderRequest" /\ bus' = Tail(bus)
        /\ UNCHANGED <<account, pos, poll, exact>>
    BY <1>5 DEF SkipRequest, Admit, NextIs, brokerVars, bookVars, history
  <2>2. ~IsFill(Head(bus)) /\ Replayed(pos.shares, Head(bus)) = pos.shares
    BY <2>1 DEF IsFill, Replayed
  <2> QED
    BY <1>2, <2>1, <2>2
<1>6. CASE HandleFill
  <2>1. /\ bus # <<>> /\ bus' = Tail(bus) /\ IsFill(Head(bus))
        /\ pos' = Filled(pos, Head(bus).change) /\ UNCHANGED <<account, exact>>
    BY <1>6 DEF HandleFill, NextIs, IsFill, brokerVars, history
  <2>2. pos'.shares = Replayed(pos.shares, Head(bus))
    BY <1>1, <2>1 DEF Filled, Holding, Replayed, IsFill, Right, Position
  <2>3. poll' = PollSees(poll)
    BY <1>6 DEF HandleFill, PollSeesFill, Polling, PollSees, Answered
  <2> QED
    BY <1>1, <2>1, <2>2, <2>3, KeptTail DEF BookInv
<1>7. CASE HandleQuantity
  <2>1. /\ bus # <<>> /\ bus' = Tail(bus) /\ Head(bus).type = "PositionQuantity"
        /\ pos' = Pushed(pos, Head(bus).shares) /\ UNCHANGED <<account, poll, exact>>
    BY <1>7 DEF HandleQuantity, NextIs, brokerVars, history
  <2>2. pos'.shares = Replayed(pos.shares, Head(bus)) /\ ~IsFill(Head(bus))
    BY <1>1, <2>1 DEF Pushed, Holding, Replayed, IsFill, Right, Position
  <2> QED
    BY <1>2, <2>1, <2>2
<1>8. CASE HandleFull
  <2>1. /\ bus # <<>> /\ bus' = Tail(bus) /\ Head(bus).type = "FullPosition"
        /\ pos' = Synced(pos, Head(bus).shares) /\ UNCHANGED <<account, poll, exact>>
    BY <1>8 DEF HandleFull, NextIs, brokerVars, history
  <2>2. pos'.shares = Replayed(pos.shares, Head(bus)) /\ ~IsFill(Head(bus))
    BY <1>1, <2>1 DEF Synced, Holding, Replayed, IsFill, Right, Position
  <2> QED
    BY <1>2, <2>1, <2>2
<1>9. CASE Send
  <2>1. /\ UNCHANGED <<bus, account, poll, exact>>
        /\ pos' = Fingerprinted(pos, Fingerprint(handling.req))
    BY <1>9 DEF Send, history
  <2>2. pos'.shares = pos.shares
    BY <1>1, <2>1 DEF Fingerprinted, Right, Position
  <2> QED
    BY <2>1, <2>2, BookStays
<1>10. CASE ForceTrade \/ ForceActive \/ Refuse \/ RefuseTwin \/ SendFails
  <2>1. UNCHANGED <<bus, account, poll, exact, pos>>
    BY <1>10, Zenon
    DEF ForceTrade, ForceActive, Refuse, RefuseTwin, SendFails, brokerVars, bookVars, history
  <2> QED
    BY <2>1, BookStays
<1> QED
  BY <1>3, <1>4, <1>5, <1>6, <1>7, <1>8, <1>9, <1>10 DEF BusThread

LEMMA PollBook ==
    ASSUME TypeOK, BookInv, PollThread
    PROVE  BookInv'
<1>1. /\ Right(pos) /\ bus \in Seq(Event) /\ account \in Int /\ pos.shares \in Int
      /\ poll \in Polls /\ DOMAIN bus = 1 .. Len(bus)
      /\ exact => Book(pos.shares, bus, account)
      /\ Answered(poll) /\ poll.ahead >= 0 => Owed(poll.shares, bus, poll.ahead, account)
  BY BookTyping, BusFacts DEF BookInv, Kept
<1>2. Polling <=> Answered(poll)
  BY DEF Polling, Answered
<1>3. Polling => poll.shares \in Int
  BY <1>1, <1>2, PollFacts
<1>4. ASSUME Polling, poll.ahead = 0, ~PushesOn(bus)
      PROVE  Book(poll.shares, bus, account)
  <2>1. \A i \in 1 .. Len(bus) : ~IsPush(bus[i])
    BY <1>1, <1>4 DEF PushesOn, IsPush
  <2>2. Owed(poll.shares, bus, 0, account)
    BY <1>1, <1>2, <1>4
  <2> QED
    BY <1>1, <1>3, <1>4, <2>1, <2>2, OwedBook
<1>5. CASE PollFetch
  <2>1. /\ UNCHANGED <<bus, account, pos, exact>>
        /\ poll' = [shares |-> account, syncing |-> FALSE, ahead |-> FillsOn(bus)]
    BY <1>5 DEF PollFetch, brokerVars, history
  <2>2. Owed(account, bus, FillsOn(bus), account)
    BY <1>1, OwedAll
  <2>3. poll'.shares = account /\ poll'.ahead = FillsOn(bus)
    BY <2>1
  <2> QED
    BY <1>1, <2>1, <2>2, <2>3 DEF BookInv, Kept
<1>6. CASE PollCompare
  <2>1. /\ UNCHANGED <<bus, account, pos, exact>> /\ Answered(poll)
        /\ poll' = [poll EXCEPT !.syncing = TRUE]
    BY <1>2, <1>6 DEF PollCompare, brokerVars, history
  <2>2. poll'.shares = poll.shares /\ poll'.ahead = poll.ahead
    BY <1>1, <2>1, PollFacts
  <2> QED
    BY <1>1, <2>1, <2>2 DEF BookInv, Kept
<1>7. CASE PollAgrees
  <2>1. /\ UNCHANGED <<bus, account, pos>> /\ Polling /\ ~Answered(poll')
        /\ poll.shares = pos.shares
        /\ exact' <=> (exact \/ (poll.ahead = 0 /\ ~PushesOn(bus)))
    BY <1>7 DEF PollAgrees, brokerVars, Answered
  <2>2. exact' => Book(pos.shares, bus, account)
    BY <1>1, <1>4, <2>1
  <2> QED
    BY <2>1, <2>2 DEF BookInv, Kept
<1>8. CASE PollSync
  <2>1. /\ UNCHANGED <<bus, account>> /\ Polling /\ ~Answered(poll')
        /\ pos' = Synced(pos, poll.shares)
        /\ exact' <=> (poll.ahead = 0 /\ (exact \/ ~PushesOn(bus)))
    BY <1>8 DEF PollSync, brokerVars, Answered
  <2>2. pos'.shares = poll.shares
    BY <1>1, <1>3, <2>1 DEF Synced, Holding, Right, Position
  <2>3. ASSUME exact, poll.ahead = 0 PROVE Book(poll.shares, bus, account)
    <3>1. Owed(poll.shares, bus, 0, account)
      BY <1>1, <1>2, <2>1, <2>3
    <3>2. poll.shares = pos.shares
      BY <1>1, <1>3, <2>1, <2>3, <3>1, OwedAgrees
    <3> QED
      BY <1>1, <2>3, <3>2
  <2>4. exact' => Book(poll.shares, bus, account)
    BY <1>4, <2>1, <2>3
  <2> QED
    BY <2>1, <2>2, <2>4 DEF BookInv, Kept
<1> QED
  BY <1>5, <1>6, <1>7, <1>8 DEF PollThread

LEMMA BrokerBook ==
    ASSUME TypeOK, BookInv, Broker
    PROVE  BookInv'
<1>1. /\ bus \in Seq(Event) /\ account \in Int /\ pos.shares \in Int /\ poll \in Polls
      /\ BrokerTypes /\ TradeTypes
      /\ Kept(exact, pos.shares, bus, account, poll)
  BY BookTyping DEF BookInv
<1>2. ASSUME NEW o \in DOMAIN live, NEW n \in 1 .. live[o], BrokerFills(o, n)
      PROVE  BookInv'
  <2> DEFINE e == [type |-> "OrderFilled", change |-> orders[o].side * n]
  <2>1. orders[o].side * n \in Int
    <3>1. o \in DOMAIN orders /\ orders \in Seq(Order) /\ live[o] \in Nat
      BY <1>1 DEF BrokerTypes, TradeTypes
    <3>2. orders[o] \in Order /\ n \in Nat
      BY <3>1
    <3> QED
      BY <3>2, SideFacts DEF Order
  <2>2. e \in Event /\ IsFill(e) /\ ~IsPush(e) /\ e.change = orders[o].side * n
    BY <2>1 DEF Event, IsFill, IsPush
  <2>3. /\ bus' = Append(bus, e) /\ account' = account + orders[o].side * n
        /\ UNCHANGED <<pos, poll, exact>>
    BY <1>2 DEF BrokerFills, Executed, bookVars, history
  <2> HIDE DEF e
  <2>4. Kept(exact, pos.shares, Append(bus, e), account + e.change, poll)
    BY <1>1, <2>2, KeptAppend
  <2> QED
    BY <2>2, <2>3, <2>4 DEF BookInv
<1>3. ASSUME NEW o \in DOMAIN live, NEW n \in 1 .. live[o],
             BrokerFillsUnpriced(o, n) \/ BrokerFillsAsBuy(o, n)
      PROVE  BookInv'
  <2>1. exact' = FALSE /\ poll' = PollMissesFill
    BY <1>3 DEF BrokerFillsUnpriced, BrokerFillsAsBuy
  <2>2. Answered(poll') => poll'.ahead = -1
    <3>1. CASE Answered(poll)
      <4>1. poll' = [poll EXCEPT !.ahead = -1]
        BY <2>1, <3>1 DEF PollMissesFill, Polling, Answered
      <4> QED
        BY <1>1, <3>1, <4>1, PollFacts
    <3>2. CASE ~Answered(poll)
      <4>1. poll' = poll
        BY <2>1, <3>2 DEF PollMissesFill, Polling, Answered
      <4> QED
        BY <3>2, <4>1 DEF Answered
    <3> QED
      BY <3>1, <3>2
  <2> QED
    BY <2>1, <2>2 DEF BookInv, Kept
<1>4. ASSUME NEW type \in {"PositionQuantity", "FullPosition"}, BrokerPushes(type)
      PROVE  BookInv'
  <2> DEFINE e == [type |-> type, shares |-> account]
  <2>1. e \in Event /\ ~IsFill(e) /\ e.shares = account
    BY <1>1 DEF Event, IsFill
  <2>2. bus' = Append(bus, e) /\ UNCHANGED <<account, pos, poll, exact>>
    BY <1>4 DEF BrokerPushes, brokerVars, bookVars, history
  <2> HIDE DEF e
  <2>3. Kept(exact, pos.shares, Append(bus, e), account, poll)
    BY <1>1, <2>1, KeptAppend
  <2> QED
    BY <2>2, <2>3 DEF BookInv
<1>5. ASSUME NEW o \in DOMAIN live, BrokerEnds(o) PROVE BookInv'
  <2>1. UNCHANGED <<bus, account, poll, exact, pos>>
    BY <1>5 DEF BrokerEnds, bookVars, history
  <2> QED
    BY <2>1, BookStays
<1> QED
  BY <1>2, <1>3, <1>4, <1>5 DEF Broker

(* As long as no fill is lost, none is booked on the wrong side, and no    *)
(* answer of a poll is applied over fills it does not count or counts      *)
(* twice, the position together with the fills and pushes on their way     *)
(* over the bus is what the broker holds, however the polls, the pushes    *)
(* and the fills interleave.                                               *)
THEOREM BookExact == Spec => []BookFollowsAccount
<1>1. IInv /\ BookInv /\ [Step]_vars => BookInv'
  <2>1. ASSUME IInv, BookInv, Step PROVE BookInv'
    <3>1. TypeOK
      BY <2>1 DEF IInv
    <3>2. CASE Tick
      <4>1. UNCHANGED <<bus, account, poll, exact, pos>>
        BY <3>2 DEF Tick, brokerVars, bookVars, history
      <4> QED
        BY <2>1, <4>1, BookStays
    <3> QED
      BY <2>1, <3>1, <3>2, OcrBook, BusBook, PollBook, BrokerBook DEF Step
  <2>2. ASSUME BookInv, UNCHANGED vars PROVE BookInv'
    <3>1. UNCHANGED <<bus, account, poll, exact, pos>>
      BY <2>2 DEF vars, brokerVars, bookVars, history
    <3> QED
      BY <2>2, <3>1, BookStays
  <2> QED
    BY <2>1, <2>2
<1>2. BookInv => BookFollowsAccount
  BY DEF BookInv, Kept, Book, BookFollowsAccount
<1> QED
  BY <1>1, <1>2, InitBook, Inductive, PTL DEF Spec

=============================================================================
