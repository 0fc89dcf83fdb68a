--------------------------- MODULE Babysitter_proofs ---------------------------
(* Proofs about Babysitter for any messages, workers, queue, file size and *)
(* bounds.  The layers, each inductive under the ones before it: the types *)
(* with where each thread is and which files exist; where every message    *)
(* is; and that a message without a doubtful addition is in one place.     *)
EXTENDS Babysitter, SequenceTheorems, SetInduction, TLAPS

-----------------------------------------------------------------------------
(* The types, the threads and the files.                                   *)

WorkerLabels == {"idle", "client", "xadd", "again", "blobs", "disk", "down"}
ReplayLabels == {"idle", "client", "xadd", "again", "next", "truncate", "rewrite",
                 "down"}
Idle == {"idle", "down"}

(* A worker that is busy has a message, and an attempt that is under way   *)
(* is not past the last.                                                   *)
Fit(t, l, h, a) ==
    /\ t \in Workers => /\ l \in WorkerLabels
                        /\ l \in Idle => h = NoMsg
                        /\ l \notin Idle => h \in Msgs
    /\ t = Replay => l \in ReplayLabels /\ h \in Entries \cup {NoMsg}
    /\ a \in 0 .. Retries
    /\ l \in {"xadd", "again"} => a < Retries

ThreadInv ==
    \A t \in Threads : /\ Fit(t, pc[t], hold[t], att[t])
                       /\ pc[t] = "down" <=> pc[Replay] = "down"

(* Files are numbered as they are opened; the replay has one it does not   *)
(* share with the workers, and holds the first entry it has left.          *)
FileInv ==
    /\ current <= nfiles
    /\ \A f \in Files : disk[f] # NoFile => f <= nfiles
    /\ open => disk[current] # NoFile
    /\ rfile = 0 <=> pc[Replay] \in Idle
    /\ rfile = 0 => rtodo = <<>>
    /\ rfile # 0 => /\ rfile <= nfiles /\ rfile # current
                    /\ rtodo # <<>> /\ hold[Replay] = Head(rtodo)
    /\ pc[Replay] = "rewrite" => disk[rfile] \in {<<>>, NoFile} /\ Len(rtodo) = 1

BaseInv == TypeOK /\ ThreadInv /\ FileInv

(* A step of one thread.                                                   *)
Moves(t, l, h, a) ==
    /\ pc' = [pc EXCEPT ![t] = l]
    /\ hold' = [hold EXCEPT ![t] = h]
    /\ att' = [att EXCEPT ![t] = a]

LEMMA Labels ==
    /\ Replay \in Threads /\ Workers \subseteq Threads
    /\ \A w \in Workers : w # Replay
    /\ \A t \in Threads : t \in Workers \/ t = Replay
    /\ NoMsg \notin Msgs
BY BabysitterAssumption DEF Threads

LEMMA Move ==
    ASSUME BaseInv, NEW t \in Threads, NEW l, NEW h, NEW a, Moves(t, l, h, a),
           Fit(t, l, h, a), pc[t] # "down", l # "down"
    PROVE  /\ pc' \in [Threads -> {"idle", "client", "xadd", "again", "blobs", "disk",
                                   "next", "truncate", "rewrite", "down"}]
           /\ hold' \in [Threads -> Entries \cup {NoMsg}]
           /\ att' \in [Threads -> 0 .. Retries]
           /\ pc'[t] = l /\ hold'[t] = h /\ att'[t] = a
           /\ \A u \in Threads : u # t =>
                 pc'[u] = pc[u] /\ hold'[u] = hold[u] /\ att'[u] = att[u]
           /\ ThreadInv'
<1>1. /\ pc \in [Threads -> {"idle", "client", "xadd", "again", "blobs", "disk",
                             "next", "truncate", "rewrite", "down"}]
      /\ hold \in [Threads -> Entries \cup {NoMsg}]
      /\ att \in [Threads -> 0 .. Retries]
  BY DEF BaseInv, TypeOK
<1>2. /\ pc'[t] = l /\ hold'[t] = h /\ att'[t] = a
      /\ \A u \in Threads : u # t =>
            pc'[u] = pc[u] /\ hold'[u] = hold[u] /\ att'[u] = att[u]
  BY <1>1 DEF Moves
<1>3. /\ l \in {"idle", "client", "xadd", "again", "blobs", "disk",
                "next", "truncate", "rewrite", "down"}
      /\ h \in Entries \cup {NoMsg} /\ a \in 0 .. Retries
  BY Labels DEF Fit, WorkerLabels, ReplayLabels, Idle, Entries
<1>4. /\ pc' \in [Threads -> {"idle", "client", "xadd", "again", "blobs", "disk",
                             "next", "truncate", "rewrite", "down"}]
      /\ hold' \in [Threads -> Entries \cup {NoMsg}]
      /\ att' \in [Threads -> 0 .. Retries]
  BY <1>1, <1>3 DEF Moves
<1>5. ASSUME NEW u \in Threads
      PROVE  Fit(u, pc'[u], hold'[u], att'[u]) /\ (pc'[u] = "down" <=> pc'[Replay] = "down")
  <2>1. Fit(u, pc'[u], hold'[u], att'[u])
    BY <1>2 DEF BaseInv, ThreadInv
  <2>2. pc'[Replay] # "down" /\ pc'[u] # "down"
    BY <1>2, Labels DEF BaseInv, ThreadInv
  <2> QED
    BY <2>1, <2>2
<1>6. ThreadInv'
  BY <1>5 DEF ThreadInv, Fit
<1> QED
  BY <1>2, <1>4, <1>6

(* The steps of _publish_to_redis_with_internal_retry.                     *)
Publishes(t) == Connect(t) \/ Xadd(t) \/ XaddStopped(t) \/ Again(t)

LEMMA PublishMoves ==
    ASSUME BaseInv, NEW t \in Threads, Publishes(t)
    PROVE  \E l, a : /\ Moves(t, l, IF l = "idle" THEN NoMsg ELSE hold[t], a)
                     /\ Fit(t, l, IF l = "idle" THEN NoMsg ELSE hold[t], a)
                     /\ pc[t] \in {"client", "xadd", "again"} /\ l # "down"
                     /\ t = Replay =>
                           l \in {"xadd", "again", "next", "truncate"}
<1>0. /\ att \in [Threads -> 0 .. Retries] /\ att[t] \in 0 .. Retries
      /\ Retries \in Nat \ {0} /\ hold[t] \in Entries \cup {NoMsg}
      /\ hold \in [Threads -> Entries \cup {NoMsg}]
  BY BabysitterAssumption DEF BaseInv, TypeOK
<1>1. ASSUME pc[t] \in {"client", "xadd", "again"}
      PROVE  t \in Workers => hold[t] \in Msgs
  BY <1>1 DEF BaseInv, ThreadInv, Fit, Idle
<1>2. /\ AfterFailure(t) = IF t = Replay THEN "truncate" ELSE "disk"
      /\ AfterSuccess(t) \in IF t = Replay THEN {"next"} ELSE {"blobs", "idle"}
  BY DEF AfterFailure, AfterSuccess
<1>3. CASE Connect(t)
  <2>1. PICK l \in {"xadd", AfterFailure(t)} : Goto(t, l)
    BY <1>3 DEF Connect, GetClient
  <2>2. Moves(t, l, IF l = "idle" THEN NoMsg ELSE hold[t], 0) /\ pc[t] = "client"
    BY <1>3, <2>1 DEF Connect, Moves, Goto
  <2>3. Fit(t, l, IF l = "idle" THEN NoMsg ELSE hold[t], 0)
    BY <1>0, <1>1, <1>2, <2>1, <2>2, Labels DEF Fit, WorkerLabels, ReplayLabels, Idle
  <2> QED
    BY <1>2, <2>1, <2>2, <2>3
<1>4. CASE Xadd(t) \/ XaddStopped(t)
  <2>1. PICK l \in {AfterSuccess(t), "again", AfterFailure(t)} : Goto(t, l)
    BY <1>4 DEF Xadd, XaddStopped
  <2>2. att' = att /\ pc[t] = "xadd"
    BY <1>4 DEF Xadd, XaddStopped
  <2>3. Moves(t, l, IF l = "idle" THEN NoMsg ELSE hold[t], att[t])
    BY <1>0, <2>1, <2>2 DEF Moves, Goto
  <2>4. att[t] < Retries
    BY <2>2 DEF BaseInv, ThreadInv, Fit
  <2>5. Fit(t, l, IF l = "idle" THEN NoMsg ELSE hold[t], att[t])
    BY <1>0, <1>1, <1>2, <2>1, <2>2, <2>4, Labels DEF Fit, WorkerLabels, ReplayLabels, Idle
  <2> QED
    BY <1>2, <2>1, <2>2, <2>3, <2>5
<1>5. CASE Again(t)
  <2>1. PICK l \in {"xadd", AfterFailure(t)} :
            Goto(t, l) /\ (l = "xadd" => att[t] + 1 < Retries)
    <3> DEFINE found == IF att[t] + 1 < Retries THEN "xadd" ELSE AfterFailure(t)
    <3>1. Goto(t, found) \/ Goto(t, AfterFailure(t))
      BY <1>5 DEF Again, GetClient
    <3>2. AfterFailure(t) # "xadd"
      BY <1>2
    <3> QED
      BY <3>1, <3>2
  <2>2. Moves(t, l, IF l = "idle" THEN NoMsg ELSE hold[t], att[t] + 1) /\ pc[t] = "again"
    BY <1>5, <2>1 DEF Again, Moves, Goto
  <2>3. att[t] < Retries
    BY <2>2 DEF BaseInv, ThreadInv, Fit
  <2>4. att[t] + 1 \in 0 .. Retries
    BY <1>0, <2>3
  <2>5. Fit(t, l, IF l = "idle" THEN NoMsg ELSE hold[t], att[t] + 1)
    BY <1>0, <1>1, <1>2, <2>1, <2>2, <2>4, Labels DEF Fit, WorkerLabels, ReplayLabels, Idle
  <2> QED
    BY <1>2, <2>1, <2>2, <2>5
<1> QED
  BY <1>3, <1>4, <1>5 DEF Publishes

-----------------------------------------------------------------------------
(* What a reader makes of a file: at least one entry, the messages it      *)
(* reads are in the file, and none is there twice that was not.            *)

Uniq(m, q) == \A i, j \in DOMAIN q : q[i] = m /\ q[j] = m => i = j

LEMMA ReadingOf ==
    ASSUME NEW q \in Seq(Entries), q # <<>>, NEW r \in Readings(q)
    PROVE  /\ r \in Seq(Entries) /\ r # <<>>
           /\ \A m \in Msgs : In(m, r) => In(m, q)
           /\ \A m \in Msgs : Uniq(m, q) => Uniq(m, r)
           /\ \A m \in Multipart : ~In(m, r)
<1>0. Len(q) \in Nat /\ DOMAIN q = 1 .. Len(q)
  BY LenProperties
<1>1. CASE Foreign(q) = {}
  BY <1>1 DEF Readings, Foreign, In
<1>2. CASE Foreign(q) # {}
  <2>1. PICK s \in (DOMAIN q) \X (DOMAIN q) :
            /\ r = SubSeq(q, 1, s[1] - 1) \o <<Junk>> \o SubSeq(q, s[2] + 1, Len(q))
            /\ \A k \in Foreign(q) : s[1] <= k /\ k <= s[2]
    BY <1>2 DEF Readings
  <2>2. PICK i \in 1 .. Len(q), j \in 1 .. Len(q) :
            /\ i <= j
            /\ r = SubSeq(q, 1, i - 1) \o <<Junk>> \o SubSeq(q, j + 1, Len(q))
            /\ \A k \in Foreign(q) : i <= k /\ k <= j
    <3>1. s[1] \in 1 .. Len(q) /\ s[2] \in 1 .. Len(q)
      BY <1>0
    <3>2. PICK k \in Foreign(q) : k \in 1 .. Len(q)
      BY <1>0, <1>2 DEF Foreign
    <3>3. s[1] <= s[2]
      BY <2>1, <3>1, <3>2
    <3> QED
      BY <2>1, <3>1, <3>3
  <2> DEFINE before == SubSeq(q, 1, i - 1)
             after == SubSeq(q, j + 1, Len(q))
  <2>3. /\ before \in Seq(Entries) /\ Len(before) = i - 1
        /\ \A k \in 1 .. i - 1 : before[k] = q[k]
    <3>1. 1 \in 1 .. Len(q) + 1 /\ i - 1 \in 1 - 1 .. Len(q)
      BY SMTT(30), <1>0
    <3> QED
      BY <1>0, <3>1, SubSeqProperties
  <2>4. /\ after \in Seq(Entries) /\ Len(after) = Len(q) - j
        /\ \A k \in 1 .. Len(q) - j : after[k] = q[j + k]
    <3>1. j + 1 \in 1 .. Len(q) + 1 /\ Len(q) \in (j + 1) - 1 .. Len(q)
      BY <1>0
    <3>2. /\ after \in Seq(Entries) /\ Len(after) = Len(q) - (j + 1) + 1
          /\ \A k \in 1 .. Len(q) - (j + 1) + 1 : after[k] = q[(j + 1) + k - 1]
      BY <3>1, SubSeqProperties
    <3>3. Len(q) - (j + 1) + 1 = Len(q) - j
      BY <1>0
    <3>4. ASSUME NEW k \in 1 .. Len(q) - j PROVE (j + 1) + k - 1 = j + k
      BY <1>0
    <3> QED
      BY <3>2, <3>3, <3>4
  <2> HIDE DEF before, after
  <2>5. <<Junk>> \in Seq(Entries) /\ Len(<<Junk>>) = 1 /\ <<Junk>>[1] = Junk
    BY DEF Entries
  <2> DEFINE head == before \o <<Junk>>
  <2>6. /\ head \in Seq(Entries) /\ Len(head) = i
        /\ \A k \in 1 .. i - 1 : head[k] = q[k]
        /\ head[i] = Junk
    <3>1. /\ head \in Seq(Entries) /\ Len(head) = i - 1 + 1
          /\ \A k \in 1 .. i - 1 + 1 : head[k] = IF k <= i - 1 THEN before[k]
                                                 ELSE <<Junk>>[k - (i - 1)]
      BY <2>3, <2>5, ConcatProperties
    <3>2. i - (i - 1) = 1 /\ ~(i <= i - 1) /\ i \in 1 .. i - 1 + 1 /\ i - 1 + 1 = i
      OBVIOUS
    <3>3. head[i] = Junk
      BY <2>5, <3>1, <3>2
    <3>4. \A k \in 1 .. i - 1 : k \in 1 .. i - 1 + 1 /\ k <= i - 1
      OBVIOUS
    <3> QED
      BY <2>3, <3>1, <3>2, <3>3, <3>4
  <2> HIDE DEF head
  <2>7. r = head \o after
    BY <2>2 DEF before, after, head
  <2>8. /\ r \in Seq(Entries) /\ Len(r) = i + (Len(q) - j) /\ DOMAIN r = 1 .. Len(r)
        /\ \A k \in 1 .. Len(r) : r[k] = IF k <= i THEN head[k] ELSE after[k - i]
    <3>1. /\ head \o after \in Seq(Entries)
          /\ Len(head \o after) = Len(head) + Len(after)
          /\ \A k \in 1 .. Len(head) + Len(after) :
                (head \o after)[k] = IF k <= Len(head) THEN head[k] ELSE after[k - Len(head)]
      BY <2>4, <2>6, ConcatProperties
    <3>2. r \in Seq(Entries) /\ Len(r) = i + (Len(q) - j)
      BY <2>4, <2>6, <2>7, <3>1
    <3>3. DOMAIN r = 1 .. Len(r)
      BY <3>2, LenProperties
    <3> QED
      BY <2>4, <2>6, <2>7, <3>1, <3>2, <3>3
  <2>9. Junk \notin Msgs
    BY BabysitterAssumption
  (* The place in the file of an entry read.                               *)
  <2> DEFINE at(k) == IF k < i THEN k ELSE j + (k - i)
  <2>10. ASSUME NEW k \in 1 .. Len(r), r[k] \in Msgs
         PROVE  k # i /\ at(k) \in 1 .. Len(q) /\ q[at(k)] = r[k]
    <3>1. CASE k < i
      <4>1. k \in 1 .. i - 1 /\ k <= i /\ k \in 1 .. Len(q)
        BY <1>0, <2>8, <3>1
      <4>2. r[k] = head[k] /\ head[k] = q[k]
        BY <2>6, <2>8, <4>1
      <4> QED
        BY <3>1, <4>1, <4>2
    <3>2. CASE k = i
      <4>1. r[i] = head[i]
        BY <2>8, <3>2
      <4> QED
        BY <2>6, <2>9, <2>10, <3>2, <4>1
    <3>3. CASE k > i
      <4>1. k - i \in 1 .. Len(q) - j /\ r[k] = after[k - i]
        BY <1>0, <2>8, <3>3
      <4>2. j + (k - i) \in 1 .. Len(q)
        BY <1>0, <4>1
      <4> QED
        BY <2>4, <3>3, <4>1, <4>2
    <3> QED
      BY <1>0, <2>8, <3>1, <3>2, <3>3
  <2>11. ASSUME NEW k \in 1 .. Len(r), NEW l \in 1 .. Len(r), k # i, l # i, at(k) = at(l)
         PROVE  k = l
    BY <1>0, <2>2, <2>8, <2>11
  <2>12. ASSUME NEW m \in Msgs, In(m, r) PROVE In(m, q)
    BY <1>0, <2>8, <2>10, <2>12 DEF In
  <2>13. ASSUME NEW m \in Msgs, Uniq(m, q) PROVE Uniq(m, r)
    <3> SUFFICES ASSUME NEW k \in 1 .. Len(r), NEW l \in 1 .. Len(r), r[k] = m, r[l] = m
                 PROVE  k = l
      BY <2>8 DEF Uniq
    <3>1. /\ at(k) \in DOMAIN q /\ at(l) \in DOMAIN q /\ q[at(k)] = m /\ q[at(l)] = m
          /\ k # i /\ l # i
      BY <1>0, <2>10
    <3> HIDE DEF at
    <3>2. at(k) = at(l)
      BY <2>13, <3>1 DEF Uniq
    <3> QED
      BY <2>11, <3>1, <3>2
  <2>14. r # <<>>
    BY <1>0, <2>8, EmptySeq
  (* What is read lies before or behind every foreign entry.               *)
  <2>15. ASSUME NEW m \in Multipart, In(m, r) PROVE FALSE
    <3>1. PICK k \in 1 .. Len(r) : r[k] = m
      BY <2>8, <2>15 DEF In
    <3>2. m \in Msgs
      BY BabysitterAssumption
    <3>3. k # i /\ at(k) \in 1 .. Len(q) /\ q[at(k)] = m
      BY <2>10, <3>1, <3>2
    <3>4. at(k) \in Foreign(q)
      BY <1>0, <2>15, <3>3 DEF Foreign
    <3>5. i <= at(k) /\ at(k) <= j
      BY <2>2, <3>4
    <3> QED
      BY <1>0, <2>2, <2>8, <3>1, <3>3, <3>5
  <2> QED
    BY <2>8, <2>12, <2>13, <2>14, <2>15
<1> QED
  BY <1>1, <1>2

LEMMA OldestIsClosed ==
    ASSUME Closed # {}
    PROVE  Oldest \in Closed
<1>1. Closed \in SUBSET Nat
  BY BabysitterAssumption DEF Closed, Files
<1>2. \E f \in Closed : \A g \in Closed : f <= g
  BY <1>1, LeastElement
<1> QED
  BY <1>2 DEF Oldest

-----------------------------------------------------------------------------
(* What a thread that is busy holds, and what it does when it publishes.   *)

LEMMA Held ==
    ASSUME BaseInv, NEW t \in Threads, pc[t] \notin Idle
    PROVE  hold[t] \in Entries /\ (t \in Workers => hold[t] \in Msgs)
<1>1. CASE t \in Workers
  BY <1>1 DEF BaseInv, ThreadInv, Fit, Entries
<1>2. CASE t = Replay
  <2>1. rtodo # <<>> /\ hold[Replay] = Head(rtodo) /\ rtodo \in Seq(Entries)
    BY <1>2 DEF BaseInv, FileInv, TypeOK
  <2>2. Head(rtodo) \in Entries
    BY <2>1, HeadTailProperties
  <2> QED
    BY <1>2, <2>1, <2>2, Labels
<1> QED
  BY <1>1, <1>2, Labels

LEMMA PublishVars ==
    ASSUME BaseInv, NEW t \in Threads, Publishes(t)
    PROVE  /\ UNCHANGED <<unsent, queue, stopping, diskVars, replayVars, blobs, crashes,
                          lost>>
           /\ up' \in BOOLEAN /\ backoff' \in BOOLEAN /\ outages' \in 0 .. MaxOutages
           /\ pc[t] \notin Idle
           /\ \/ /\ UNCHANGED <<stream, doubtful>>
                 /\ pc'[t] \in {"xadd", "again", AfterFailure(t)}
              \/ /\ pc[t] = "xadd" /\ stream' = Append(stream, hold[t])
                 /\ UNCHANGED doubtful
                 /\ pc'[t] = AfterSuccess(t)
              \/ /\ pc[t] = "xadd" /\ stream' = Append(stream, hold[t])
                 /\ doubtful' = doubtful \cup {hold[t]}
                 /\ pc'[t] = "again"
<1>0. /\ up \in BOOLEAN /\ backoff \in BOOLEAN
      /\ \A l : Goto(t, l) => pc'[t] = l
  BY DEF BaseInv, TypeOK, Goto
<1>1. outages \in 0 .. MaxOutages /\ MaxOutages \in Nat
  BY BabysitterAssumption DEF BaseInv, TypeOK
<1>2. CASE Connect(t) \/ Again(t)
  <2>1. Goto(t, "xadd") \/ Goto(t, AfterFailure(t))
    <3>1. CASE Connect(t)
      BY <3>1 DEF Connect, GetClient
    <3>2. CASE Again(t)
      <4>1. Goto(t, IF att[t] + 1 < Retries THEN "xadd" ELSE AfterFailure(t))
            \/ Goto(t, AfterFailure(t))
        BY <3>2 DEF Again, GetClient
      <4> QED
        BY <4>1
    <3> QED
      BY <1>2, <3>1, <3>2
  <2>2. backoff' \in BOOLEAN
    BY <1>0, <1>2 DEF Connect, Again, GetClient
  <2>3. /\ UNCHANGED <<unsent, queue, stopping, diskVars, replayVars, up, stream, blobs,
                       outages, crashes, lost, doubtful>>
        /\ pc[t] \notin Idle
    BY <1>2 DEF Connect, Again, Idle
  <2>4. up' \in BOOLEAN /\ outages' \in 0 .. MaxOutages
    BY <1>0, <1>1, <2>3
  <2>5. pc'[t] \in {"xadd", "again", AfterFailure(t)}
    BY <1>0, <2>1
  <2> QED
    BY <2>2, <2>3, <2>4, <2>5
<1>3. CASE XaddStopped(t)
  <2>1. /\ UNCHANGED <<unsent, queue, stopping, diskVars, replayVars, up, backoff, stream,
                       blobs, outages, crashes, lost, doubtful>>
        /\ pc[t] \notin Idle /\ Goto(t, AfterFailure(t))
    BY <1>3 DEF XaddStopped, redisVars, Idle
  <2>2. up' \in BOOLEAN /\ backoff' \in BOOLEAN
    BY <1>0, <2>1
  <2>3. outages' \in 0 .. MaxOutages
    BY <1>1, <2>1
  <2>4. pc'[t] \in {"xadd", "again", AfterFailure(t)}
    BY <1>0, <2>1
  <2> QED
    BY <2>1, <2>2, <2>3, <2>4
<1>4. CASE Xadd(t)
  <2>1. /\ UNCHANGED <<unsent, queue, stopping, diskVars, replayVars, backoff, blobs,
                       crashes, lost>>
        /\ pc[t] = "xadd" /\ pc[t] \notin Idle
    BY <1>4 DEF Xadd, Idle
  <2>2. backoff' \in BOOLEAN
    BY <1>0, <2>1
  <2>3. up' \in BOOLEAN
    BY <1>0, <1>4 DEF Xadd
  <2>4. outages' = outages \/ (outages < MaxOutages /\ outages' = outages + 1)
    BY <1>4 DEF Xadd
  <2>5. outages' \in 0 .. MaxOutages
    BY <1>1, <2>4
  <2>6. \/ /\ UNCHANGED <<stream, doubtful>>
           /\ Goto(t, "again") \/ Goto(t, AfterFailure(t))
        \/ /\ stream' = Append(stream, hold[t]) /\ UNCHANGED doubtful
           /\ Goto(t, AfterSuccess(t))
        \/ /\ stream' = Append(stream, hold[t]) /\ doubtful' = doubtful \cup {hold[t]}
           /\ Goto(t, "again")
    BY <1>4 DEF Xadd
  <2>7. \/ /\ UNCHANGED <<stream, doubtful>>
           /\ pc'[t] \in {"xadd", "again", AfterFailure(t)}
        \/ /\ stream' = Append(stream, hold[t]) /\ UNCHANGED doubtful
           /\ pc'[t] = AfterSuccess(t)
        \/ /\ stream' = Append(stream, hold[t]) /\ doubtful' = doubtful \cup {hold[t]}
           /\ pc'[t] = "again"
    BY <1>0, <2>6
  <2> QED
    BY <2>1, <2>2, <2>3, <2>5, <2>7
<1> QED
  BY <1>2, <1>3, <1>4 DEF Publishes

-----------------------------------------------------------------------------
LEMMA InitBase == Init => BaseInv
<1> SUFFICES ASSUME Init PROVE BaseInv
  OBVIOUS
<1>1. /\ <<>> \in Seq(Msgs) /\ <<>> \in Seq(Entries) /\ Len(<<>>) = 0
      /\ MaxFiles \in Nat \ {0} /\ 1 \in Files /\ Retries \in Nat \ {0}
      /\ QueueMax \in Nat
  BY EmptySeq, BabysitterAssumption DEF Files
<1>2. NoFile # <<>>
  <2>1. NoFile \notin Seq(Msgs \cup {Junk}) /\ <<>> \in Seq(Msgs \cup {Junk})
    BY BabysitterAssumption, EmptySeq
  <2> QED
    BY <2>1
<1>3. TypeOK
  <2>1. disk \in [Files -> Seq(Entries) \cup {NoFile}]
    BY <1>1 DEF Init
  <2>2. /\ pc \in [Threads -> {"idle", "client", "xadd", "again", "blobs", "disk",
                            "next", "truncate", "rewrite", "down"}]
        /\ hold \in [Threads -> Entries \cup {NoMsg}]
    BY DEF Init
  <2>3. att \in [Threads -> 0 .. Retries]
    BY <1>1 DEF Init
  <2>4. outages \in 0 .. MaxOutages /\ crashes \in 0 .. MaxCrashes /\ faults \in 0 .. MaxFaults
    BY BabysitterAssumption DEF Init
  <2>5. queue \in Seq(Msgs) /\ Len(queue) <= QueueMax
    BY <1>1 DEF Init
  <2> QED
    BY <1>1, <2>1, <2>2, <2>3, <2>4, <2>5 DEF Init, TypeOK
<1>4. ThreadInv
  BY <1>1, Labels DEF Init, ThreadInv, Fit, WorkerLabels, ReplayLabels, Idle
<1>5. FileInv
  <2>1. disk[1] = <<>> /\ \A f \in Files : disk[f] # NoFile => f = 1
    BY <1>1 DEF Init
  <2>2. pc[Replay] = "idle" /\ rfile = 0 /\ rtodo = <<>> /\ current = 1 /\ nfiles = 1
    BY Labels DEF Init
  <2> QED
    BY <1>2, <2>1, <2>2 DEF FileInv, Idle
<1> QED
  BY <1>3, <1>4, <1>5 DEF BaseInv

-----------------------------------------------------------------------------
(* The steps of the threads that publish keep the types, the threads and   *)
(* the files.                                                              *)

LEMMA FilesStay ==
    ASSUME BaseInv, UNCHANGED <<diskVars, replayVars>>, hold'[Replay] = hold[Replay],
           \/ pc'[Replay] = pc[Replay]
           \/ /\ pc[Replay] \in {"client", "xadd", "again"}
              /\ pc'[Replay] \in {"xadd", "again", "next", "truncate"}
    PROVE  FileInv'
<1>1. UNCHANGED <<disk, current, open, nfiles, rfile, rtodo>>
  BY DEF diskVars, replayVars
<1>2. (pc'[Replay] \in Idle <=> pc[Replay] \in Idle)
      /\ (pc'[Replay] = "rewrite" => pc[Replay] = "rewrite")
  BY DEF Idle
<1> QED
  BY <1>1, <1>2 DEF BaseInv, FileInv

LEMMA PublishStep ==
    ASSUME BaseInv, NEW t \in Threads, Publishes(t)
    PROVE  BaseInv'
<1>1. PICK l, a : /\ Moves(t, l, IF l = "idle" THEN NoMsg ELSE hold[t], a)
                  /\ Fit(t, l, IF l = "idle" THEN NoMsg ELSE hold[t], a)
                  /\ pc[t] \in {"client", "xadd", "again"} /\ l # "down"
                  /\ t = Replay => l \in {"xadd", "again", "next", "truncate"}
  BY PublishMoves
<1> DEFINE h == IF l = "idle" THEN NoMsg ELSE hold[t]
<1>2. Moves(t, l, h, a) /\ Fit(t, l, h, a) /\ pc[t] # "down" /\ l # "down"
  BY <1>1
<1>3. t = Replay => h = hold[t]
  BY <1>1
<1> HIDE DEF h
<1>4. /\ pc' \in [Threads -> {"idle", "client", "xadd", "again", "blobs", "disk",
                              "next", "truncate", "rewrite", "down"}]
      /\ hold' \in [Threads -> Entries \cup {NoMsg}]
      /\ att' \in [Threads -> 0 .. Retries]
      /\ pc'[t] = l /\ hold'[t] = h
      /\ \A u \in Threads : u # t => pc'[u] = pc[u] /\ hold'[u] = hold[u]
      /\ ThreadInv'
  BY <1>2, Move
<1>5. /\ UNCHANGED <<unsent, queue, stopping, diskVars, replayVars, blobs, crashes, lost>>
      /\ up' \in BOOLEAN /\ backoff' \in BOOLEAN /\ outages' \in 0 .. MaxOutages
      /\ pc[t] \notin Idle
  BY PublishVars
<1>6. stream' \in Seq(Entries) /\ doubtful' \subseteq Entries
  <2>1. /\ stream \in Seq(Entries) /\ doubtful \subseteq Entries /\ hold[t] \in Entries
    BY <1>5, Held DEF BaseInv, TypeOK
  <2>2. stream' = stream \/ stream' = Append(stream, hold[t])
    BY PublishVars
  <2>3. doubtful' = doubtful \/ doubtful' = doubtful \cup {hold[t]}
    BY PublishVars
  <2> QED
    BY <2>1, <2>2, <2>3, AppendProperties
<1>7. FileInv'
  <2>1. hold'[Replay] = hold[Replay]
    BY <1>3, <1>4, Labels
  <2>2. t # Replay => pc'[Replay] = pc[Replay]
    BY <1>4, Labels
  <2>3. t = Replay => /\ pc[Replay] \in {"client", "xadd", "again"}
                      /\ pc'[Replay] \in {"xadd", "again", "next", "truncate"}
    BY <1>1, <1>4
  <2> QED
    BY <1>5, <2>1, <2>2, <2>3, FilesStay
<1>8. TypeOK'
  BY <1>4, <1>5, <1>6 DEF BaseInv, TypeOK, diskVars, replayVars
<1> QED
  BY <1>4, <1>7, <1>8 DEF BaseInv

(* A worker's other steps.                                                 *)
LEMMA WorkerMoves ==
    ASSUME BaseInv, NEW w \in Workers, WorkerGet(w) \/ WorkerBlobs(w) \/ DiskWrite(w)
    PROVE  \E l, h : /\ Moves(w, l, h, att[w]) /\ Fit(w, l, h, att[w])
                     /\ pc[w] # "down" /\ l # "down"
<1>0. /\ att \in [Threads -> 0 .. Retries] /\ att[w] \in 0 .. Retries /\ w \in Threads
      /\ queue \in Seq(Msgs) /\ w # Replay
  BY Labels DEF BaseInv, TypeOK
<1>1. CASE WorkerGet(w)
  <2>1. Moves(w, "client", Head(queue), att[w]) /\ pc[w] = "idle"
    BY <1>0, <1>1 DEF WorkerGet, GotoWith, Moves
  <2>2. Head(queue) \in Msgs
    BY <1>0, <1>1, HeadTailProperties DEF WorkerGet
  <2>3. Fit(w, "client", Head(queue), att[w])
    BY <1>0, <2>2 DEF Fit, WorkerLabels, Idle
  <2> QED
    BY <2>1, <2>3
<1>2. CASE WorkerBlobs(w) \/ DiskWrite(w)
  <2>1. Goto(w, "idle") /\ att' = att /\ pc[w] \in {"blobs", "disk"}
    BY <1>2 DEF WorkerBlobs, DiskWrite
  <2>2. Moves(w, "idle", NoMsg, att[w])
    BY <1>0, <2>1 DEF Goto, Moves
  <2>3. Fit(w, "idle", NoMsg, att[w])
    BY <1>0 DEF Fit, WorkerLabels, Idle
  <2> QED
    BY <2>1, <2>2, <2>3
<1> QED
  BY <1>1, <1>2

(* A write of the disk buffer touches the current file or a new one.       *)
LEMMA WriteDisk ==
    ASSUME BaseInv, NEW w \in Workers, DiskWrite(w)
    PROVE  \E f \in Files, q \in Seq(Entries) :
              /\ f = IF NeedsFile THEN nfiles + 1 ELSE current
              /\ q = IF NeedsFile THEN <<>> ELSE disk[f]
              /\ NeedsFile => disk[f] = NoFile
              /\ current' = f /\ nfiles' \in Files /\ f <= nfiles' /\ nfiles <= nfiles'
              /\ f # rfile
              /\ hold[w] \in Msgs
              /\ \/ /\ disk' = [disk EXCEPT ![f] = Append(q, hold[w])]
                    /\ open' = TRUE /\ UNCHANGED <<faults, lost>>
                 \/ /\ open' = FALSE /\ faults' \in 0 .. MaxFaults
                    /\ Drop({hold[w]}, "fault")
                    /\ \/ UNCHANGED disk
                       \/ NeedsFile /\ disk' = [disk EXCEPT ![f] = q]
<1>0. /\ nfiles \in Files /\ current \in Files /\ Files \subseteq Nat
      /\ disk \in [Files -> Seq(Entries) \cup {NoFile}]
      /\ faults \in 0 .. MaxFaults /\ MaxFaults \in Nat /\ pc[w] = "disk" /\ w \in Threads
      /\ <<>> \in Seq(Entries) /\ rfile \in Files \cup {0}
  <2>1. /\ nfiles \in Files /\ current \in Files /\ faults \in 0 .. MaxFaults
        /\ disk \in [Files -> Seq(Entries) \cup {NoFile}] /\ rfile \in Files \cup {0}
    BY DEF BaseInv, TypeOK
  <2>2. Files \subseteq Nat /\ MaxFaults \in Nat
    BY BabysitterAssumption DEF Files
  <2>3. pc[w] = "disk" /\ w \in Threads
    BY DEF DiskWrite, Threads
  <2>4. <<>> \in Seq(Entries)
    BY EmptySeq
  <2> QED
    BY <2>1, <2>2, <2>3, <2>4
<1> DEFINE f == IF NeedsFile THEN nfiles + 1 ELSE current
           q == IF NeedsFile THEN <<>> ELSE disk[f]
<1>1. f \in Files /\ current' = f
  BY DEF DiskWrite
<1>2. q \in Seq(Entries) /\ (NeedsFile => disk[f] = NoFile)
  <2>1. CASE NeedsFile
    <3>1. f = nfiles + 1 /\ ~(f <= nfiles)
      BY <1>0, <2>1
    <3> QED
      BY <1>0, <1>1, <2>1, <3>1 DEF BaseInv, FileInv
  <2>2. CASE ~NeedsFile
    <3>1. f = current /\ open
      BY <2>2 DEF NeedsFile
    <3> QED
      BY <1>0, <2>2, <3>1 DEF BaseInv, FileInv
  <2> QED
    BY <2>1, <2>2
<1>3. nfiles' \in Files /\ f <= nfiles' /\ nfiles <= nfiles'
  <2>1. CASE NeedsFile
    BY <1>0, <1>1, <2>1 DEF DiskWrite
  <2>2. CASE ~NeedsFile
    BY <1>0, <1>1, <2>2 DEF DiskWrite, BaseInv, FileInv
  <2> QED
    BY <2>1, <2>2
<1>4. f # rfile
  <2>1. rfile # 0 => rfile <= nfiles /\ rfile # current
    BY DEF BaseInv, FileInv
  <2> QED
    BY <1>0, <2>1 DEF Files
<1>5. hold[w] \in Msgs
  BY <1>0, Held DEF Idle
<1>6. \/ /\ disk' = [disk EXCEPT ![f] = Append(q, hold[w])]
         /\ open' = TRUE /\ UNCHANGED <<faults, lost>>
      \/ /\ open' = FALSE /\ faults' = faults + 1 /\ faults < MaxFaults
         /\ Drop({hold[w]}, "fault")
         /\ \/ UNCHANGED disk
            \/ NeedsFile /\ disk' = [disk EXCEPT ![f] = q]
  <2>1. CASE NeedsFile
    BY <2>1 DEF DiskWrite
  <2>2. CASE ~NeedsFile
    BY <2>2 DEF DiskWrite
  <2> QED
    BY <2>1, <2>2
<1>7. faults < MaxFaults => faults + 1 \in 0 .. MaxFaults
  BY <1>0
<1> HIDE DEF f, q
<1>8. \/ /\ disk' = [disk EXCEPT ![f] = Append(q, hold[w])]
         /\ open' = TRUE /\ UNCHANGED <<faults, lost>>
      \/ /\ open' = FALSE /\ faults' \in 0 .. MaxFaults
         /\ Drop({hold[w]}, "fault")
         /\ \/ UNCHANGED disk
            \/ NeedsFile /\ disk' = [disk EXCEPT ![f] = q]
  BY <1>6, <1>7
<1> QED
  BY <1>1, <1>2, <1>3, <1>4, <1>5, <1>8 DEF f, q

LEMMA DropType ==
    ASSUME BaseInv, NEW M \in SUBSET Msgs,
           NEW c \in Causes, Drop(M, c)
    PROVE  /\ lost' \subseteq Msgs \X Causes
           /\ \A m \in M : <<m, c>> \in lost'
           /\ lost \subseteq lost'
BY DEF Drop, BaseInv, TypeOK

LEMMA WorkerBase ==
    ASSUME BaseInv, NEW w \in Workers, WorkerStep(w)
    PROVE  BaseInv'
<1>0. w \in Threads /\ w # Replay
  BY Labels
<1>1. CASE Publishes(w)
  BY <1>0, <1>1, PublishStep
<1>2. CASE WorkerGet(w) \/ WorkerBlobs(w) \/ DiskWrite(w)
  <2>1. /\ pc' \in [Threads -> {"idle", "client", "xadd", "again", "blobs", "disk",
                                "next", "truncate", "rewrite", "down"}]
        /\ hold' \in [Threads -> Entries \cup {NoMsg}]
        /\ att' \in [Threads -> 0 .. Retries]
        /\ pc'[Replay] = pc[Replay] /\ hold'[Replay] = hold[Replay]
        /\ ThreadInv'
    <3>1. PICK l, h : /\ Moves(w, l, h, att[w]) /\ Fit(w, l, h, att[w])
                      /\ pc[w] # "down" /\ l # "down"
      BY <1>2, WorkerMoves
    <3> QED
      BY <1>0, <3>1, Move, Labels
  <2>2. CASE WorkerGet(w)
    <3>1. /\ UNCHANGED <<unsent, stopping, diskVars, replayVars, redisVars, crashes, lost,
                         doubtful>>
          /\ queue \in Seq(Msgs) /\ queue # <<>> /\ queue' = Tail(queue)
          /\ Len(queue) <= QueueMax
      BY <2>2 DEF WorkerGet, BaseInv, TypeOK
    <3>2. queue' \in Seq(Msgs) /\ Len(queue') = Len(queue) - 1 /\ Len(queue) \in Nat
      BY <3>1, HeadTailProperties, LenProperties
    <3>3. Len(queue') <= QueueMax
      BY <3>1, <3>2, BabysitterAssumption
    <3>4. TypeOK'
      BY <2>1, <3>1, <3>2, <3>3 DEF BaseInv, TypeOK, diskVars, replayVars, redisVars
    <3>5. FileInv'
      BY <2>1, <3>1, FilesStay
    <3> QED
      BY <2>1, <3>4, <3>5 DEF BaseInv
  <2>3. CASE WorkerBlobs(w)
    <3>1. /\ UNCHANGED <<unsent, queue, stopping, diskVars, replayVars, up, stream, outages,
                         crashes, doubtful>>
          /\ pc[w] = "blobs"
          /\ UNCHANGED lost \/ Drop({hold[w]}, "blobs")
      BY <2>3 DEF WorkerBlobs
    <3>2. hold[w] \in Msgs
      BY <1>0, <3>1, Held DEF Idle
    <3>3. blobs' \subseteq Msgs
      BY <2>3, <3>2 DEF WorkerBlobs, BaseInv, TypeOK
    <3>4. backoff' \in BOOLEAN
      BY <2>3 DEF WorkerBlobs, BaseInv, TypeOK
    <3>7. lost' \subseteq Msgs \X Causes
      <4>1. {hold[w]} \in SUBSET Msgs /\ lost \subseteq Msgs \X Causes
        BY <3>2 DEF BaseInv, TypeOK
      <4> QED
        BY <3>1, <4>1, DropType DEF Causes
    <3>5. TypeOK'
      BY <2>1, <3>1, <3>3, <3>4, <3>7 DEF BaseInv, TypeOK, diskVars, replayVars
    <3>6. FileInv'
      BY <2>1, <3>1, FilesStay
    <3> QED
      BY <2>1, <3>5, <3>6 DEF BaseInv
  <2>4. CASE DiskWrite(w)
    <3>1. PICK f \in Files, q \in Seq(Entries) :
              /\ f = IF NeedsFile THEN nfiles + 1 ELSE current
              /\ q = IF NeedsFile THEN <<>> ELSE disk[f]
              /\ NeedsFile => disk[f] = NoFile
              /\ current' = f /\ nfiles' \in Files /\ f <= nfiles' /\ nfiles <= nfiles'
              /\ f # rfile
              /\ hold[w] \in Msgs
              /\ \/ /\ disk' = [disk EXCEPT ![f] = Append(q, hold[w])]
                    /\ open' = TRUE /\ UNCHANGED <<faults, lost>>
                 \/ /\ open' = FALSE /\ faults' \in 0 .. MaxFaults
                    /\ Drop({hold[w]}, "fault")
                    /\ \/ UNCHANGED disk
                       \/ NeedsFile /\ disk' = [disk EXCEPT ![f] = q]
      BY <2>4, WriteDisk
    <3>2. UNCHANGED <<unsent, queue, stopping, replayVars, redisVars, crashes, doubtful>>
      BY <2>4 DEF DiskWrite
    <3>3. /\ hold[w] \in Entries /\ disk \in [Files -> Seq(Entries) \cup {NoFile}]
          /\ faults \in 0 .. MaxFaults
          /\ lost \subseteq Msgs \X Causes
      BY <3>1 DEF Entries, BaseInv, TypeOK
    <3>4. Append(q, hold[w]) \in Seq(Entries) /\ Append(q, hold[w]) # NoFile
      <4>1. Append(q, hold[w]) \in Seq(Entries)
        BY <3>1, <3>3, AppendProperties
      <4> QED
        BY <4>1, BabysitterAssumption DEF Entries
    <3>5. disk' \in [Files -> Seq(Entries) \cup {NoFile}]
      BY <3>1, <3>3, <3>4
    <3>6. faults' \in 0 .. MaxFaults /\ open' \in BOOLEAN
      BY <3>1, <3>3
    <3>7. lost' \subseteq Msgs \X Causes
      <4>1. {hold[w]} \in SUBSET Msgs
        BY <3>1
      <4>2. CASE Drop({hold[w]}, "fault")
        BY <4>1, <4>2, DropType DEF Causes
      <4>3. CASE UNCHANGED lost
        BY <3>3, <4>3
      <4> QED
        BY <3>1, <4>2, <4>3
    <3>8. TypeOK'
      BY <2>1, <3>1, <3>2, <3>5, <3>6, <3>7 DEF BaseInv, TypeOK, replayVars, redisVars
    <3>9. \A g \in Files : g # f => disk'[g] = disk[g]
      BY <3>1, <3>3
    <3>10. FileInv'
      <4>1. ASSUME NEW g \in Files, disk'[g] # NoFile PROVE g <= nfiles'
        <5>1. g = f \/ g <= nfiles
          BY <3>9, <4>1 DEF BaseInv, FileInv
        <5>2. g \in Nat /\ nfiles \in Nat /\ nfiles' \in Nat
          BY <3>1 DEF Files, BaseInv, TypeOK
        <5> QED
          BY <3>1, <5>1, <5>2
      <4>2. open' => disk'[current'] # NoFile
        BY <3>1, <3>3, <3>4
      <4>3. rfile # 0 => rfile <= nfiles' /\ rfile # current'
        <5>1. rfile # 0 => rfile <= nfiles
          BY DEF BaseInv, FileInv
        <5>2. rfile \in Nat /\ nfiles \in Nat /\ nfiles' \in Nat
          BY <3>1 DEF Files, BaseInv, TypeOK
        <5> QED
          BY <3>1, <5>1, <5>2
      <4>4. rfile' = rfile /\ rtodo' = rtodo
        BY <3>2 DEF replayVars
      <4>5. rfile # 0 => disk'[rfile] = disk[rfile]
        BY <3>1, <3>9 DEF BaseInv, TypeOK
      <4>6. pc[Replay] = "rewrite" => rfile # 0
        BY DEF BaseInv, FileInv, Idle
      <4> QED
        BY <2>1, <3>1, <4>1, <4>2, <4>3, <4>4, <4>5, <4>6 DEF BaseInv, FileInv
    <3> QED
      BY <2>1, <3>8, <3>10 DEF BaseInv
  <2> QED
    BY <1>2, <2>2, <2>3, <2>4
<1> QED
  BY <1>1, <1>2 DEF WorkerStep, Publishes

-----------------------------------------------------------------------------
(* The steps of the replay.                                                *)

LEMMA ReplayMoves ==
    ASSUME BaseInv, UNCHANGED att, NEW l \in ReplayLabels \ {"xadd", "again", "down"},
           NEW h \in Entries \cup {NoMsg}, pc[Replay] # "down",
           \/ GotoWith(Replay, l, h)
           \/ Goto(Replay, l) /\ h = IF l = "idle" THEN NoMsg ELSE hold[Replay]
    PROVE  /\ pc' \in [Threads -> {"idle", "client", "xadd", "again", "blobs", "disk",
                                   "next", "truncate", "rewrite", "down"}]
           /\ hold' \in [Threads -> Entries \cup {NoMsg}]
           /\ att' \in [Threads -> 0 .. Retries]
           /\ pc'[Replay] = l /\ hold'[Replay] = h
           /\ \A w \in Workers : pc'[w] = pc[w] /\ hold'[w] = hold[w]
           /\ ThreadInv'
<1>1. att \in [Threads -> 0 .. Retries] /\ Replay \in Threads
      /\ att[Replay] \in 0 .. Retries
  BY Labels DEF BaseInv, TypeOK
<1>2. Moves(Replay, l, h, att[Replay])
  <2>1. att' = [att EXCEPT ![Replay] = att[Replay]]
    BY <1>1
  <2>2. CASE GotoWith(Replay, l, h)
    BY <2>1, <2>2 DEF GotoWith, Moves
  <2>3. CASE Goto(Replay, l) /\ h = IF l = "idle" THEN NoMsg ELSE hold[Replay]
    BY <2>1, <2>3 DEF Goto, Moves
  <2> QED
    BY <2>2, <2>3
<1>3. Fit(Replay, l, h, att[Replay]) /\ l # "down"
  BY <1>1, Labels DEF Fit
<1> QED
  BY <1>1, <1>2, <1>3, Move, Labels

(* What the replay has while it is busy.                                   *)
LEMMA ReplayBusy ==
    ASSUME BaseInv, pc[Replay] \notin Idle
    PROVE  /\ rfile \in Files /\ rfile # current /\ rfile <= nfiles
           /\ rtodo \in Seq(Entries) /\ rtodo # <<>> /\ hold[Replay] = Head(rtodo)
           /\ Head(rtodo) \in Entries /\ Tail(rtodo) \in Seq(Entries)
           /\ Len(rtodo) \in Nat /\ Len(rtodo) >= 1
           /\ Len(Tail(rtodo)) = Len(rtodo) - 1
           /\ \A i \in 1 .. Len(Tail(rtodo)) : Tail(rtodo)[i] = rtodo[i + 1]
<1>1. /\ rfile \in Files /\ rfile # current /\ rfile <= nfiles
      /\ rtodo \in Seq(Entries) /\ rtodo # <<>> /\ hold[Replay] = Head(rtodo)
  BY DEF BaseInv, TypeOK, FileInv
<1>2. Len(rtodo) \in Nat /\ Len(rtodo) # 0
  BY <1>1, EmptySeq, LenProperties
<1>3. /\ Head(rtodo) \in Entries /\ Tail(rtodo) \in Seq(Entries)
      /\ Len(Tail(rtodo)) = Len(rtodo) - 1
      /\ \A i \in 1 .. Len(Tail(rtodo)) : Tail(rtodo)[i] = rtodo[i + 1]
  BY <1>1, HeadTailProperties
<1> QED
  BY <1>1, <1>2, <1>3

LEMMA DiskFacts ==
    ASSUME BaseInv
    PROVE  /\ disk \in [Files -> Seq(Entries) \cup {NoFile}] /\ NoFile \notin Seq(Entries)
           /\ <<>> \in Seq(Entries) /\ <<>> # NoFile
           /\ \A f \in Closed : f \in Files /\ disk[f] \in Seq(Entries) /\ f # current
                                /\ f <= nfiles
<1>1. disk \in [Files -> Seq(Entries) \cup {NoFile}] /\ NoFile \notin Seq(Entries)
  BY BabysitterAssumption DEF BaseInv, TypeOK, Entries
<1>2. <<>> \in Seq(Entries)
  BY EmptySeq
<1>3. ASSUME NEW f \in Closed
      PROVE  f \in Files /\ disk[f] \in Seq(Entries) /\ f # current /\ f <= nfiles
  BY <1>1 DEF Closed, BaseInv, FileInv
<1> QED
  BY <1>1, <1>2, <1>3

LEMMA ReplayBase ==
    ASSUME BaseInv, ReplayStep
    PROVE  BaseInv'
<1>0. /\ disk \in [Files -> Seq(Entries) \cup {NoFile}] /\ NoFile \notin Seq(Entries)
      /\ <<>> \in Seq(Entries) /\ <<>> # NoFile
      /\ \A f \in Closed : f \in Files /\ disk[f] \in Seq(Entries) /\ f # current
                           /\ f <= nfiles
  BY DiskFacts
<1>1. CASE ReplayStart
  <2>1. PICK r \in Readings(disk[Oldest]) : rtodo' = r
    BY <1>1 DEF ReplayStart
  <2>2. /\ rfile' = Oldest /\ GotoWith(Replay, "client", Head(r))
        /\ Drop(Misread(disk[Oldest], r), "misread")
        /\ pc[Replay] = "idle" /\ UNCHANGED att
        /\ UNCHANGED <<unsent, queue, stopping, diskVars, redisVars, crashes, doubtful>>
        /\ disk[Oldest] # <<>> /\ Closed # {}
    BY <1>1, <2>1 DEF ReplayStart, ReplayMayStart
  <2>3. Oldest \in Files /\ disk[Oldest] \in Seq(Entries) /\ Oldest # current
        /\ Oldest <= nfiles
    BY <1>0, <2>2, OldestIsClosed
  <2>4. r \in Seq(Entries) /\ r # <<>>
    BY <2>1, <2>2, <2>3, ReadingOf
  <2>5. Head(r) \in Entries
    BY <2>4, HeadTailProperties
  <2>6. /\ pc' \in [Threads -> {"idle", "client", "xadd", "again", "blobs", "disk",
                                "next", "truncate", "rewrite", "down"}]
        /\ hold' \in [Threads -> Entries \cup {NoMsg}]
        /\ att' \in [Threads -> 0 .. Retries]
        /\ pc'[Replay] = "client" /\ hold'[Replay] = Head(r)
        /\ ThreadInv'
    BY <2>2, <2>5, ReplayMoves DEF ReplayLabels
  <2>7. Misread(disk[Oldest], r) \in SUBSET Msgs
    BY DEF Misread
  <2>8. lost' \subseteq Msgs \X Causes
    BY <2>2, <2>7, DropType DEF Causes
  <2>9. TypeOK'
    BY <2>1, <2>2, <2>3, <2>4, <2>6, <2>8 DEF BaseInv, TypeOK, diskVars, redisVars
  <2>10. FileInv'
    <3>1. Oldest # 0
      BY <2>3 DEF Files
    <3> QED
      BY <2>1, <2>2, <2>3, <2>4, <2>6, <3>1 DEF BaseInv, FileInv, diskVars, Idle
  <2> QED
    BY <2>6, <2>9, <2>10 DEF BaseInv
<1>2. CASE ReplayEmpty
  <2>1. /\ disk' = [disk EXCEPT ![Oldest] = NoFile] /\ pc[Replay] = "idle"
        /\ UNCHANGED <<unsent, queue, stopping, threadVars, current, open, nfiles,
                       faults, replayVars, redisVars, crashes, lost, doubtful>>
        /\ Closed # {}
    BY <1>2 DEF ReplayEmpty, ReplayMayStart
  <2>2. Oldest # current
    BY <1>0, <2>1, OldestIsClosed
  <2>3. disk' \in [Files -> Seq(Entries) \cup {NoFile}]
    BY <1>0, <2>1
  <2>4. TypeOK'
    BY <2>1, <2>3 DEF BaseInv, TypeOK, threadVars, replayVars, redisVars
  <2>5. ThreadInv'
    BY <2>1 DEF BaseInv, ThreadInv, Fit, threadVars
  <2>6. FileInv'
    <3>1. current \in Files /\ \A f \in Files : disk'[f] # NoFile => disk[f] # NoFile
      BY <1>0, <2>1 DEF BaseInv, TypeOK
    <3>2. disk'[current] = disk[current]
      BY <1>0, <2>1, <2>2, <3>1
    <3> QED
      BY <2>1, <3>1, <3>2 DEF BaseInv, FileInv, threadVars, replayVars
  <2> QED
    BY <2>4, <2>5, <2>6 DEF BaseInv
<1>3. CASE ReplayNext
  <2>0. /\ pc[Replay] = "next" /\ rtodo' = Tail(rtodo) /\ UNCHANGED att
        /\ UNCHANGED <<unsent, queue, stopping, current, open, nfiles, faults, redisVars,
                       crashes, lost, doubtful>>
    BY <1>3 DEF ReplayNext
  <2>1. /\ rfile \in Files /\ rfile # current /\ rfile <= nfiles
        /\ Tail(rtodo) \in Seq(Entries)
    BY <2>0, ReplayBusy DEF Idle
  <2>2. CASE Tail(rtodo) # <<>>
    <3>1. GotoWith(Replay, "client", Head(Tail(rtodo))) /\ UNCHANGED <<disk, rfile>>
      BY <1>3, <2>0, <2>2 DEF ReplayNext
    <3>2. Head(Tail(rtodo)) \in Entries
      BY <2>1, <2>2, HeadTailProperties
    <3>3. /\ pc' \in [Threads -> {"idle", "client", "xadd", "again", "blobs", "disk",
                                  "next", "truncate", "rewrite", "down"}]
          /\ hold' \in [Threads -> Entries \cup {NoMsg}]
          /\ att' \in [Threads -> 0 .. Retries]
          /\ pc'[Replay] = "client" /\ hold'[Replay] = Head(Tail(rtodo))
          /\ ThreadInv'
      BY <2>0, <3>1, <3>2, ReplayMoves DEF ReplayLabels
    <3>4. TypeOK'
      BY <2>0, <2>1, <3>1, <3>3 DEF BaseInv, TypeOK, redisVars
    <3>5. FileInv'
      BY <2>0, <2>1, <2>2, <3>1, <3>3 DEF BaseInv, FileInv, Idle
    <3> QED
      BY <3>3, <3>4, <3>5 DEF BaseInv
  <2>3. CASE Tail(rtodo) = <<>>
    <3>1. /\ Goto(Replay, "idle") /\ disk' = [disk EXCEPT ![rfile] = NoFile] /\ rfile' = 0
      BY <1>3, <2>0, <2>3 DEF ReplayNext
    <3>3. /\ pc' \in [Threads -> {"idle", "client", "xadd", "again", "blobs", "disk",
                                  "next", "truncate", "rewrite", "down"}]
          /\ hold' \in [Threads -> Entries \cup {NoMsg}]
          /\ att' \in [Threads -> 0 .. Retries]
          /\ pc'[Replay] = "idle" /\ hold'[Replay] = NoMsg
          /\ ThreadInv'
      BY <2>0, <3>1, ReplayMoves DEF ReplayLabels
    <3>4. disk' \in [Files -> Seq(Entries) \cup {NoFile}]
      BY <1>0, <3>1
    <3>5. TypeOK'
      BY <2>0, <2>1, <3>1, <3>3, <3>4 DEF BaseInv, TypeOK, redisVars
    <3>6. FileInv'
      <4>1. current \in Files /\ \A f \in Files : disk'[f] # NoFile => disk[f] # NoFile
        BY <1>0, <3>1 DEF BaseInv, TypeOK
      <4>2. disk'[current] = disk[current]
        BY <1>0, <2>1, <3>1, <4>1
      <4> QED
        BY <2>0, <2>3, <3>1, <3>3, <4>1, <4>2 DEF BaseInv, FileInv, Idle
    <3> QED
      BY <3>3, <3>5, <3>6 DEF BaseInv
  <2> QED
    BY <2>2, <2>3
<1>4. CASE ReplayTruncate
  <2>0. /\ pc[Replay] = "truncate" /\ disk' = [disk EXCEPT ![rfile] = <<>>]
        /\ rtodo' = <<Head(rtodo)>> /\ Goto(Replay, "rewrite") /\ UNCHANGED att
        /\ Drop({m \in Msgs : In(m, rtodo) /\ ~In(m, rtodo')}, "rewrite")
        /\ UNCHANGED <<unsent, queue, stopping, current, open, nfiles, faults, rfile,
                       redisVars, crashes, doubtful>>
    BY <1>4 DEF ReplayTruncate, Remaining
  <2>1. /\ rfile \in Files /\ rfile # current /\ rfile <= nfiles
        /\ Head(rtodo) \in Entries /\ hold[Replay] = Head(rtodo)
    BY <2>0, ReplayBusy DEF Idle
  <2>2. /\ pc' \in [Threads -> {"idle", "client", "xadd", "again", "blobs", "disk",
                                "next", "truncate", "rewrite", "down"}]
        /\ hold' \in [Threads -> Entries \cup {NoMsg}]
        /\ att' \in [Threads -> 0 .. Retries]
        /\ pc'[Replay] = "rewrite" /\ hold'[Replay] = Head(rtodo)
        /\ ThreadInv'
    BY <2>0, <2>1, ReplayMoves DEF ReplayLabels
  <2>3. disk' \in [Files -> Seq(Entries) \cup {NoFile}]
    BY <1>0, <2>0
  <2>4. lost' \subseteq Msgs \X Causes
    <3>1. {m \in Msgs : In(m, rtodo) /\ ~In(m, rtodo')} \in SUBSET Msgs
      OBVIOUS
    <3> QED
      BY <2>0, <3>1, DropType DEF Causes
  <2>5. rtodo' \in Seq(Entries) /\ rtodo' # <<>> /\ Head(rtodo') = Head(rtodo)
        /\ Len(rtodo') = 1
    BY <2>0, <2>1
  <2>6. TypeOK'
    BY <2>0, <2>1, <2>2, <2>3, <2>4, <2>5 DEF BaseInv, TypeOK, redisVars
  <2>7. FileInv'
    <3>1. /\ current \in Files /\ disk'[current] = disk[current]
          /\ disk'[rfile] = <<>>
          /\ \A f \in Files : f # rfile => disk'[f] = disk[f]
      BY <1>0, <2>0, <2>1 DEF BaseInv, TypeOK
    <3> QED
      BY <2>0, <2>1, <2>2, <2>5, <3>1 DEF BaseInv, FileInv, Idle
  <2> QED
    BY <2>2, <2>6, <2>7 DEF BaseInv
<1>5. CASE ReplayRewrite
  <2>0. /\ pc[Replay] = "rewrite" /\ disk' = [disk EXCEPT ![rfile] = rtodo]
        /\ rtodo' = <<>> /\ rfile' = 0 /\ Goto(Replay, "idle") /\ UNCHANGED att
        /\ UNCHANGED <<unsent, queue, stopping, current, open, nfiles, faults,
                       redisVars, crashes, lost, doubtful>>
    BY <1>5 DEF ReplayRewrite
  <2>1. /\ rfile \in Files /\ rfile # current /\ rfile <= nfiles /\ rtodo \in Seq(Entries)
    BY <2>0, ReplayBusy DEF Idle
  <2>2. /\ pc' \in [Threads -> {"idle", "client", "xadd", "again", "blobs", "disk",
                                "next", "truncate", "rewrite", "down"}]
        /\ hold' \in [Threads -> Entries \cup {NoMsg}]
        /\ att' \in [Threads -> 0 .. Retries]
        /\ pc'[Replay] = "idle" /\ hold'[Replay] = NoMsg
        /\ ThreadInv'
    BY <2>0, <2>1, ReplayMoves DEF ReplayLabels
  <2>3. disk' \in [Files -> Seq(Entries) \cup {NoFile}]
    BY <1>0, <2>0, <2>1
  <2>4. TypeOK'
    BY <1>0, <2>0, <2>1, <2>2, <2>3 DEF BaseInv, TypeOK, redisVars
  <2>5. FileInv'
    <3>1. /\ current \in Files /\ disk'[current] = disk[current]
          /\ \A f \in Files : f # rfile => disk'[f] = disk[f]
      BY <1>0, <2>0, <2>1 DEF BaseInv, TypeOK
    <3> QED
      BY <2>0, <2>1, <2>2, <3>1 DEF BaseInv, FileInv, Idle
  <2> QED
    BY <2>2, <2>4, <2>5 DEF BaseInv
<1>6. CASE ReplayFault
  <2>0. /\ pc[Replay] \in {"truncate", "rewrite"} /\ faults < MaxFaults
        /\ faults' = faults + 1 /\ doubtful' = doubtful \cup Replayed
        /\ rfile' = 0 /\ rtodo' = <<>> /\ Goto(Replay, "idle") /\ UNCHANGED att
        /\ Drop({hold[Replay]} \cap Msgs, "fault") \/ UNCHANGED lost
        /\ UNCHANGED <<unsent, queue, stopping, disk, current, open, nfiles,
                       redisVars, crashes>>
    BY <1>6 DEF ReplayFault
  <2>1. pc[Replay] # "down"
    BY <2>0
  <2>2. /\ pc' \in [Threads -> {"idle", "client", "xadd", "again", "blobs", "disk",
                                "next", "truncate", "rewrite", "down"}]
        /\ hold' \in [Threads -> Entries \cup {NoMsg}]
        /\ att' \in [Threads -> 0 .. Retries]
        /\ pc'[Replay] = "idle" /\ hold'[Replay] = NoMsg
        /\ ThreadInv'
    BY <2>0, <2>1, ReplayMoves DEF ReplayLabels
  <2>3. faults' \in 0 .. MaxFaults
    BY <2>0, BabysitterAssumption DEF BaseInv, TypeOK
  <2>4. lost' \subseteq Msgs \X Causes
    <3>1. {hold[Replay]} \cap Msgs \in SUBSET Msgs
      OBVIOUS
    <3>2. CASE Drop({hold[Replay]} \cap Msgs, "fault")
      BY <3>1, <3>2, DropType DEF Causes
    <3>3. CASE UNCHANGED lost
      BY <3>3 DEF BaseInv, TypeOK
    <3> QED
      BY <2>0, <3>2, <3>3
  <2>5. doubtful' \subseteq Entries
    BY <2>0 DEF Replayed, Entries, BaseInv, TypeOK
  <2>6. TypeOK'
    BY <1>0, <2>0, <2>2, <2>3, <2>4, <2>5 DEF BaseInv, TypeOK, redisVars
  <2>7. FileInv'
    BY <2>0, <2>2 DEF BaseInv, FileInv, Idle
  <2> QED
    BY <2>2, <2>6, <2>7 DEF BaseInv
<1>7. CASE Publishes(Replay)
  BY <1>7, Labels, PublishStep
<1> QED
  BY <1>1, <1>2, <1>3, <1>4, <1>5, <1>6, <1>7 DEF ReplayStep, Publishes

-----------------------------------------------------------------------------
(* The other steps.                                                        *)

LEMMA ThreadsStay ==
    ASSUME BaseInv, UNCHANGED threadVars
    PROVE  ThreadInv' /\ UNCHANGED <<pc, hold, att>>
BY DEF BaseInv, ThreadInv, Fit, threadVars

(* Receiving, Redis coming and going, a request to stop.                   *)
LEMMA OutsideBase ==
    ASSUME BaseInv,
           \/ \E m \in Msgs : Receive(m)
           \/ HealthCheckFails \/ BackoffElapses \/ RedisGoes \/ RedisReturns \/ Stop
           \/ UNCHANGED vars
    PROVE  BaseInv'
<1>1. UNCHANGED <<threadVars, diskVars, replayVars>>
  BY DEF Receive, HealthCheckFails, BackoffElapses, RedisGoes, RedisReturns, Stop, vars
<1>2. ThreadInv' /\ FileInv' /\ UNCHANGED <<pc, hold, att>>
  BY <1>1, ThreadsStay, FilesStay
<1>3. ASSUME NEW m \in Msgs, Receive(m) PROVE TypeOK'
  <2>1. /\ unsent' \subseteq Msgs
        /\ UNCHANGED <<stopping, redisVars, crashes, doubtful>>
    BY <1>3 DEF Receive, BaseInv, TypeOK
  <2>2. /\ queue' \in Seq(Msgs) /\ Len(queue') <= QueueMax
        /\ lost' \subseteq Msgs \X Causes
    <3>0. /\ queue \in Seq(Msgs) /\ Len(queue) <= QueueMax /\ Len(queue) \in Nat
          /\ QueueMax \in Nat
          /\ lost \subseteq Msgs \X Causes
      BY LenProperties, BabysitterAssumption DEF BaseInv, TypeOK
    <3>1. CASE m \notin Malformed /\ Len(queue) < QueueMax
      <4>1. queue' = Append(queue, m) /\ UNCHANGED lost
        BY <1>3, <3>0, <3>1 DEF Receive
      <4>2. queue' \in Seq(Msgs) /\ Len(queue') = Len(queue) + 1
        BY <3>0, <4>1, AppendProperties
      <4> QED
        BY <3>0, <3>1, <4>1, <4>2
    <3>2. CASE m \in Malformed \/ Len(queue) >= QueueMax
      <4>1. queue' = queue /\ (Drop({m}, "malformed") \/ Drop({m}, "full"))
        BY <1>3, <3>0, <3>2 DEF Receive
      <4>2. {m} \in SUBSET Msgs
        OBVIOUS
      <4> QED
        BY <3>0, <4>1, <4>2, DropType DEF Causes
    <3> QED
      BY <3>0, <3>1, <3>2
  <2> QED
    BY <1>1, <1>2, <2>1, <2>2 DEF BaseInv, TypeOK, diskVars, replayVars, redisVars
<1>4. CASE HealthCheckFails \/ BackoffElapses \/ RedisReturns
  <2>1. /\ UNCHANGED <<unsent, queue, stopping, stream, blobs, outages, crashes, lost,
                       doubtful>>
        /\ backoff' \in BOOLEAN /\ up' \in BOOLEAN
    BY <1>4 DEF HealthCheckFails, BackoffElapses, RedisReturns, BaseInv, TypeOK
  <2> QED
    BY <1>1, <1>2, <2>1 DEF BaseInv, TypeOK, diskVars, replayVars
<1>5. CASE RedisGoes
  <2>1. /\ UNCHANGED <<unsent, queue, stopping, stream, blobs, backoff, crashes, lost,
                       doubtful>>
        /\ up' = FALSE /\ outages' = outages + 1 /\ outages < MaxOutages
    BY <1>5 DEF RedisGoes
  <2>2. outages' \in 0 .. MaxOutages
    BY <2>1, BabysitterAssumption DEF BaseInv, TypeOK
  <2> QED
    BY <1>1, <1>2, <2>1, <2>2 DEF BaseInv, TypeOK, diskVars, replayVars
<1>6. CASE Stop
  BY <1>1, <1>2, <1>6 DEF Stop, BaseInv, TypeOK, diskVars, replayVars, redisVars
<1>7. CASE UNCHANGED vars
  BY <1>1, <1>2, <1>7 DEF vars, BaseInv, TypeOK, diskVars, replayVars, redisVars
<1> QED
  BY <1>2, <1>3, <1>4, <1>5, <1>6, <1>7 DEF BaseInv

LEMMA PruneBase ==
    ASSUME BaseInv, NEW f \in Files, Prune(f)
    PROVE  BaseInv'
<1>1. /\ f \in Closed /\ disk' = [disk EXCEPT ![f] = NoFile]
      /\ Drop({m \in Msgs : In(m, disk[f])}, "pruned")
      /\ UNCHANGED <<unsent, queue, stopping, threadVars, current, open, nfiles,
                     faults, replayVars, redisVars, crashes, doubtful>>
  BY DEF Prune
<1>2. disk \in [Files -> Seq(Entries) \cup {NoFile}] /\ f # current
  BY <1>1, DiskFacts
<1>3. disk' \in [Files -> Seq(Entries) \cup {NoFile}]
  BY <1>1, <1>2
<1>4. lost' \subseteq Msgs \X Causes
  <2>1. {m \in Msgs : In(m, disk[f])} \in SUBSET Msgs
    OBVIOUS
  <2> QED
    BY <1>1, <2>1, DropType DEF Causes
<1>5. ThreadInv' /\ UNCHANGED <<pc, hold, att>>
  BY <1>1, ThreadsStay
<1>6. TypeOK'
  BY <1>1, <1>3, <1>4, <1>5 DEF BaseInv, TypeOK, replayVars, redisVars
<1>7. FileInv'
  <2>1. current \in Files /\ \A g \in Files : disk'[g] # NoFile => disk[g] # NoFile
    BY <1>1, <1>2 DEF BaseInv, TypeOK
  <2>2. disk'[current] = disk[current]
    BY <1>1, <1>2, <2>1
  <2>3. rfile # 0 => disk'[rfile] \in {disk[rfile], NoFile}
    BY <1>1, <1>2 DEF BaseInv, TypeOK
  <2>4. pc[Replay] = "rewrite" => rfile # 0
    BY DEF BaseInv, FileInv, Idle
  <2> QED
    BY <1>1, <1>5, <2>1, <2>2, <2>3, <2>4 DEF BaseInv, FileInv, replayVars
<1> QED
  BY <1>5, <1>6, <1>7 DEF BaseInv

LEMMA CloseBase ==
    ASSUME BaseInv, CloseBuffer
    PROVE  BaseInv'
<1>1. /\ open' = FALSE
      /\ UNCHANGED <<unsent, queue, stopping, threadVars, disk, current, nfiles,
                     faults, replayVars, redisVars, crashes, lost, doubtful>>
  BY DEF CloseBuffer
<1>2. ThreadInv' /\ UNCHANGED <<pc, hold, att>>
  BY <1>1, ThreadsStay
<1> QED
  BY <1>1, <1>2 DEF BaseInv, TypeOK, FileInv, replayVars, redisVars

LEMMA CrashBase ==
    ASSUME BaseInv, Crash
    PROVE  BaseInv'
<1>1. /\ crashes' = crashes + 1 /\ crashes < MaxCrashes
      /\ Drop(InMemory, "crash") /\ doubtful' = doubtful \cup Replayed
      /\ queue' = <<>> /\ pc' = [t \in Threads |-> "down"]
      /\ hold' = [t \in Threads |-> NoMsg] /\ att' = [t \in Threads |-> 0]
      /\ rfile' = 0 /\ rtodo' = <<>>
      /\ UNCHANGED <<unsent, stopping, diskVars, redisVars>>
  BY DEF Crash
<1>2. /\ <<>> \in Seq(Msgs) /\ <<>> \in Seq(Entries) /\ Len(<<>>) = 0
      /\ 0 \in 0 .. Retries /\ 0 <= QueueMax /\ 0 < Retries
  BY EmptySeq, BabysitterAssumption
<1>3. lost' \subseteq Msgs \X Causes
  <2>1. InMemory \in SUBSET Msgs
    BY DEF InMemory
  <2> QED
    BY <1>1, <2>1, DropType DEF Causes
<1>4. doubtful' \subseteq Entries
  BY <1>1 DEF Replayed, Entries, BaseInv, TypeOK
<1>5. crashes' \in 0 .. MaxCrashes
  BY <1>1, BabysitterAssumption DEF BaseInv, TypeOK
<1>6. /\ pc' \in [Threads -> {"idle", "client", "xadd", "again", "blobs", "disk",
                              "next", "truncate", "rewrite", "down"}]
      /\ hold' \in [Threads -> Entries \cup {NoMsg}]
      /\ att' \in [Threads -> 0 .. Retries]
  BY <1>1, <1>2
<1>7. TypeOK'
  BY <1>1, <1>2, <1>3, <1>4, <1>5, <1>6 DEF BaseInv, TypeOK, diskVars, redisVars
<1>8. ThreadInv'
  BY <1>1, <1>2, Labels DEF ThreadInv, Fit, WorkerLabels, ReplayLabels, Idle
<1>9. FileInv'
  <2>1. pc'[Replay] = "down"
    BY <1>1, Labels
  <2> QED
    BY <1>1, <2>1 DEF BaseInv, FileInv, diskVars, Idle
<1> QED
  BY <1>7, <1>8, <1>9 DEF BaseInv

LEMMA RestartBase ==
    ASSUME BaseInv, Restart
    PROVE  BaseInv'
<1>1. /\ pc[Replay] = "down" /\ nfiles < MaxFiles /\ pc' = [t \in Threads |-> "idle"]
      /\ stopping' = FALSE /\ nfiles' = nfiles + 1 /\ current' = nfiles + 1
      /\ open' = TRUE /\ disk' = [disk EXCEPT ![nfiles + 1] = <<>>] /\ backoff' = FALSE
      /\ UNCHANGED <<unsent, queue, hold, att, faults, replayVars, up, stream,
                     blobs, outages, crashes, lost, doubtful>>
  BY DEF Restart, Running
<1>2. /\ disk \in [Files -> Seq(Entries) \cup {NoFile}] /\ <<>> \in Seq(Entries)
      /\ <<>> # NoFile
  BY DiskFacts
<1>3. nfiles + 1 \in Files /\ nfiles \in Nat /\ MaxFiles \in Nat
  BY <1>1, BabysitterAssumption DEF BaseInv, TypeOK, Files
<1>4. disk' \in [Files -> Seq(Entries) \cup {NoFile}] /\ disk'[nfiles + 1] = <<>>
      /\ \A f \in Files : f # nfiles + 1 => disk'[f] = disk[f]
  BY <1>1, <1>2, <1>3
<1>5. pc' \in [Threads -> {"idle", "client", "xadd", "again", "blobs", "disk",
                           "next", "truncate", "rewrite", "down"}]
  BY <1>1
<1>6. TypeOK'
  BY <1>1, <1>3, <1>4, <1>5 DEF BaseInv, TypeOK, replayVars
<1>7. ThreadInv'
  <2>1. ASSUME NEW t \in Threads
        PROVE  Fit(t, pc'[t], hold'[t], att'[t]) /\ pc'[t] = "idle"
    <3>1. pc[t] = "down" /\ Fit(t, pc[t], hold[t], att[t])
      BY <1>1 DEF BaseInv, ThreadInv
    <3> QED
      BY <1>1, <3>1, Labels DEF Fit, WorkerLabels, ReplayLabels, Idle
  <2> QED
    BY <2>1, Labels DEF ThreadInv, Fit
<1>8. FileInv'
  <2>1. ASSUME NEW f \in Files, disk'[f] # NoFile PROVE f <= nfiles'
    <3>1. f = nfiles + 1 \/ f <= nfiles
      BY <1>4, <2>1 DEF BaseInv, FileInv
    <3> QED
      BY <1>1, <1>3, <3>1 DEF Files
  <2>2. rfile' = 0 /\ rtodo' = <<>> /\ pc'[Replay] = "idle"
    BY <1>1, Labels DEF BaseInv, FileInv, Idle, replayVars
  <2> QED
    BY <1>1, <1>2, <1>3, <1>4, <2>1, <2>2 DEF FileInv, Idle
<1> QED
  BY <1>6, <1>7, <1>8 DEF BaseInv

LEMMA BaseStep == BaseInv /\ [Next]_vars => BaseInv'
BY WorkerBase, ReplayBase, OutsideBase, PruneBase, CloseBase, CrashBase, RestartBase DEF Next

LEMMA BaseInvariant == Spec => []BaseInv
BY InitBase, BaseStep, PTL DEF Spec

(* The variables have their types in every reachable state.                *)
THEOREM Typing == Spec => []TypeOK
<1>1. BaseInv => TypeOK
  BY DEF BaseInv
<1> QED
  BY <1>1, BaseInvariant, PTL

(* The replay never has the file the workers append to, however rotations, *)
(* failing writes and restarts move that one.                              *)
THEOREM ReplayApart == Spec => []ReplayAwayFromWriter
<1>1. BaseInv => ReplayAwayFromWriter
  BY DEF BaseInv, FileInv, ReplayAwayFromWriter, Idle
<1> QED
  BY <1>1, BaseInvariant, PTL

-----------------------------------------------------------------------------
(* Where every message is.  A worker that stores the binary parts of one   *)
(* has added it, and so has the replay of an entry it is done with; what   *)
(* is in the file under replay is still to be published by this pass, or   *)
(* was, or was misread when the pass began.                                *)

Lost(m) == \E c \in lost : c[1] = m

ReplayOwes ==
    rfile # 0 /\ pc[Replay] # "rewrite" /\ disk[rfile] # NoFile
        => \A m \in Msgs : In(m, disk[rfile]) =>
               In(m, rtodo) \/ InRedis(m) \/ Lost(m)

(* The replay never reads a multipart message as such.                     *)
PlainTodo == \A m \in Multipart : ~In(m, rtodo)

LossInv ==
    /\ \A m \in Msgs : Kept(m) \/ Lost(m)
    /\ \A w \in Workers : pc[w] = "blobs" => In(hold[w], stream)
    /\ pc[Replay] = "next" => In(hold[Replay], stream)
    /\ ReplayOwes
    /\ PlainTodo

LEMMA InAppend ==
    ASSUME NEW S, NEW q \in Seq(S), NEW e \in S, NEW x
    PROVE  In(x, Append(q, e)) <=> (In(x, q) \/ x = e)
<1>1. /\ Len(q) \in Nat /\ DOMAIN q = 1 .. Len(q)
      /\ DOMAIN Append(q, e) = 1 .. Len(q) + 1
      /\ Append(q, e)[Len(q) + 1] = e
      /\ \A i \in 1 .. Len(q) : Append(q, e)[i] = q[i]
  BY AppendProperties, LenProperties
<1>2. \A i \in 1 .. Len(q) : i \in 1 .. Len(q) + 1
  BY <1>1
<1>3. \A i \in 1 .. Len(q) + 1 : i \in 1 .. Len(q) \/ i = Len(q) + 1
  BY <1>1
<1>4. Len(q) + 1 \in 1 .. Len(q) + 1
  BY <1>1
<1> QED
  BY <1>1, <1>2, <1>3, <1>4 DEF In

LEMMA InTail ==
    ASSUME NEW S, NEW q \in Seq(S), q # <<>>, NEW x
    PROVE  In(x, q) <=> (x = Head(q) \/ In(x, Tail(q)))
<1>1. /\ Len(q) \in Nat /\ Len(q) # 0 /\ DOMAIN q = 1 .. Len(q)
      /\ Head(q) = q[1] /\ Tail(q) \in Seq(S) /\ Len(Tail(q)) = Len(q) - 1
      /\ \A i \in 1 .. Len(Tail(q)) : Tail(q)[i] = q[i + 1]
      /\ DOMAIN Tail(q) = 1 .. Len(Tail(q))
  BY EmptySeq, LenProperties, HeadTailProperties
<1>2. ASSUME In(x, q) PROVE x = Head(q) \/ In(x, Tail(q))
  <2>1. PICK i \in 1 .. Len(q) : q[i] = x
    BY <1>1, <1>2 DEF In
  <2>2. CASE i = 1
    BY <1>1, <2>1, <2>2
  <2>3. CASE i # 1
    <3>1. i - 1 \in 1 .. Len(Tail(q)) /\ (i - 1) + 1 = i
      BY <1>1, <2>3
    <3>2. Tail(q)[i - 1] = x
      BY <1>1, <2>1, <3>1
    <3> QED
      BY <1>1, <3>1, <3>2 DEF In
  <2> QED
    BY <2>2, <2>3
<1>3. ASSUME In(x, Tail(q)) PROVE In(x, q)
  <2>1. PICK i \in 1 .. Len(Tail(q)) : Tail(q)[i] = x
    BY <1>1, <1>3 DEF In
  <2>2. i + 1 \in 1 .. Len(q) /\ q[i + 1] = x
    BY <1>1, <2>1
  <2> QED
    BY <1>1, <2>2 DEF In
<1>4. ASSUME x = Head(q) PROVE In(x, q)
  <2>1. 1 \in 1 .. Len(q)
    BY <1>1
  <2> QED
    BY <1>1, <1>4, <2>1 DEF In
<1> QED
  BY <1>2, <1>3, <1>4

LEMMA InNothing ==
    ASSUME NEW x PROVE ~In(x, <<>>)
BY EmptySeq DEF In

(* Nothing is taken out of Redis, and what is lost stays so.               *)
LEMMA HistoryGrows ==
    ASSUME BaseInv, [Next]_vars
    PROVE  /\ \A x : In(x, stream) => In(x, stream')
           /\ \A m : InRedis(m) => InRedis(m)'
           /\ \A m : Lost(m) => Lost(m)'
           /\ doubtful \subseteq doubtful'
<1>1. \A x : In(x, stream) => In(x, stream')
  <2>1. CASE UNCHANGED stream
    BY <2>1
  <2>2. ASSUME NEW t \in Threads, Publishes(t), ~UNCHANGED stream
        PROVE  \A x : In(x, stream) => In(x, stream')
    <3>1. stream' = Append(stream, hold[t]) /\ pc[t] \notin Idle
      BY <2>2, PublishVars
    <3>2. hold[t] \in Entries /\ stream \in Seq(Entries)
      BY <3>1, Held DEF BaseInv, TypeOK
    <3> QED
      BY <3>1, <3>2, InAppend
  <2> QED
    BY <2>1, <2>2, Labels DEF Next, WorkerStep, ReplayStep, Publishes, Receive,
       HealthCheckFails, BackoffElapses, RedisGoes, RedisReturns, Stop, CloseBuffer,
       Crash, Restart, Prune, WorkerGet, WorkerBlobs, DiskWrite, ReplayStart,
       ReplayEmpty, ReplayNext, ReplayTruncate, ReplayRewrite, ReplayFault, vars,
       redisVars
<1>2. lost \subseteq lost'
  BY DEF Drop, Next, WorkerStep, ReplayStep, Receive, HealthCheckFails,
     BackoffElapses, RedisGoes, RedisReturns, Stop, CloseBuffer,
     Crash, Restart, Prune, WorkerGet, Connect, Xadd, XaddStopped, Again, WorkerBlobs,
     DiskWrite, ReplayStart, ReplayEmpty, ReplayNext, ReplayTruncate, ReplayRewrite,
     ReplayFault, vars
<1>3. doubtful \subseteq doubtful'
  BY DEF Next, WorkerStep, ReplayStep, Receive, HealthCheckFails,
     BackoffElapses, RedisGoes, RedisReturns, Stop, CloseBuffer,
     Crash, Restart, Prune, WorkerGet, Connect, Xadd, XaddStopped, Again, WorkerBlobs,
     DiskWrite, ReplayStart, ReplayEmpty, ReplayNext, ReplayTruncate, ReplayRewrite,
     ReplayFault, vars
<1>4. blobs \subseteq blobs'
  BY DEF Next, WorkerStep, ReplayStep, Receive, HealthCheckFails,
     BackoffElapses, RedisGoes, RedisReturns, Stop, CloseBuffer, redisVars,
     Crash, Restart, Prune, WorkerGet, Connect, Xadd, XaddStopped, Again, WorkerBlobs,
     DiskWrite, ReplayStart, ReplayEmpty, ReplayNext, ReplayTruncate, ReplayRewrite,
     ReplayFault, vars
<1>5. ASSUME NEW m, InRedis(m) PROVE InRedis(m)'
  BY <1>1, <1>4, <1>5 DEF InRedis
<1>6. \A m : Lost(m) => Lost(m)'
  BY <1>2 DEF Lost
<1> QED
  BY <1>1, <1>3, <1>5, <1>6

(* What is dropped is lost.                                                *)
LEMMA Dropped ==
    ASSUME NEW M \in SUBSET Msgs, NEW c, Drop(M, c), NEW m \in M
    PROVE  Lost(m)'
<1>1. <<m, c>> \in lost' /\ <<m, c>>[1] = m
  BY DEF Drop
<1> QED
  BY <1>1 DEF Lost

LEMMA PlainStep ==
    ASSUME BaseInv, PlainTodo, [Next]_vars
    PROVE  PlainTodo'
<1>1. CASE UNCHANGED rtodo
  BY <1>1 DEF PlainTodo
<1>2. CASE rtodo' = <<>>
  BY <1>2, InNothing DEF PlainTodo
<1>3. CASE ReplayStart
  <2>1. PICK r \in Readings(disk[Oldest]) : rtodo' = r
    BY <1>3 DEF ReplayStart
  <2>2. disk[Oldest] # <<>> /\ Closed # {}
    BY <1>3 DEF ReplayStart, ReplayMayStart
  <2>3. disk[Oldest] \in Seq(Entries)
    BY <2>2, OldestIsClosed, DiskFacts
  <2> QED
    BY <2>1, <2>2, <2>3, ReadingOf DEF PlainTodo
<1>4. CASE ReplayNext \/ ReplayTruncate
  <2>1. pc[Replay] \notin Idle /\ rtodo' \in {Tail(rtodo), <<Head(rtodo)>>}
    BY <1>4 DEF ReplayNext, ReplayTruncate, Remaining, Idle
  <2>2. rtodo \in Seq(Entries) /\ rtodo # <<>>
    BY <2>1, ReplayBusy
  <2>3. \A x : In(x, rtodo') => In(x, rtodo)
    <3>1. CASE rtodo' = Tail(rtodo)
      BY <2>2, <3>1, InTail
    <3>2. CASE rtodo' = <<Head(rtodo)>>
      <4>1. \A x : In(x, rtodo') => x = Head(rtodo)
        BY <3>2 DEF In
      <4> QED
        BY <2>2, <4>1, InTail
    <3> QED
      BY <2>1, <3>1, <3>2
  <2> QED
    BY <2>3 DEF PlainTodo
<1> QED
  BY <1>1, <1>2, <1>3, <1>4
  DEF Next, WorkerStep, ReplayStep, Receive, HealthCheckFails,
     BackoffElapses, RedisGoes, RedisReturns, Stop, CloseBuffer,
     Crash, Restart, Prune, WorkerGet, Connect, Xadd, XaddStopped, Again, WorkerBlobs,
     DiskWrite, ReplayEmpty, ReplayRewrite, ReplayFault, vars, replayVars

(* A step by which the threads and their messages, the queue, the disk and *)
(* the replay stay as they are, and no message is unsent that is not kept. *)
LEMMA LossFrame ==
    ASSUME BaseInv, LossInv, [Next]_vars,
           UNCHANGED <<pc, hold, disk, replayVars>>,
           \A m \in Msgs : In(m, queue) => In(m, queue') \/ Lost(m)',
           \A m \in unsent : m \in unsent' \/ In(m, queue') \/ Lost(m)'
    PROVE  LossInv'
<1>1. /\ \A x : In(x, stream) => In(x, stream')
      /\ \A m : InRedis(m) => InRedis(m)'
      /\ \A m : Lost(m) => Lost(m)'
      /\ PlainTodo'
  BY HistoryGrows, PlainStep DEF LossInv
<1>2. rfile' = rfile /\ rtodo' = rtodo
  BY DEF replayVars
<1>3. ASSUME NEW m \in Msgs PROVE Kept(m)' \/ Lost(m)'
  <2>1. Kept(m) \/ Lost(m)
    BY DEF LossInv
  <2>2. m \in InMemory => m \in InMemory' \/ Lost(m)'
    BY DEF InMemory
  <2>3. OnDisk(m) => OnDisk(m)'
    BY DEF OnDisk
  <2>4. m \in unsent => m \in unsent' \/ m \in InMemory' \/ Lost(m)'
    BY DEF InMemory
  <2> QED
    BY <1>1, <2>1, <2>2, <2>3, <2>4 DEF Kept
<1>4. ReplayOwes'
  BY <1>1, <1>2 DEF LossInv, ReplayOwes
<1>5. /\ \A w \in Workers : pc'[w] = "blobs" => In(hold'[w], stream')
      /\ pc'[Replay] = "next" => In(hold'[Replay], stream')
  BY <1>1 DEF LossInv
<1> QED
  BY <1>1, <1>3, <1>4, <1>5 DEF LossInv

LEMMA PublishLoss ==
    ASSUME BaseInv, LossInv, [Next]_vars, NEW t \in Threads, Publishes(t)
    PROVE  LossInv'
<1>0. /\ \A x : In(x, stream) => In(x, stream')
      /\ \A m : InRedis(m) => InRedis(m)'
      /\ \A m : Lost(m) => Lost(m)'
      /\ PlainTodo'
  BY HistoryGrows, PlainStep DEF LossInv
<1>1. /\ UNCHANGED <<unsent, queue, disk, rfile, rtodo>>
      /\ pc[t] \notin Idle /\ hold[t] \in Entries /\ stream \in Seq(Entries)
  BY PublishVars, Held DEF diskVars, replayVars, BaseInv, TypeOK
<1>2. PICK l, a : /\ Moves(t, l, IF l = "idle" THEN NoMsg ELSE hold[t], a)
                  /\ Fit(t, l, IF l = "idle" THEN NoMsg ELSE hold[t], a)
                  /\ pc[t] \in {"client", "xadd", "again"} /\ l # "down"
                  /\ t = Replay => l \in {"xadd", "again", "next", "truncate"}
  BY PublishMoves
<1>3. /\ pc'[t] = l /\ hold'[t] = IF l = "idle" THEN NoMsg ELSE hold[t]
      /\ \A u \in Threads : u # t => pc'[u] = pc[u] /\ hold'[u] = hold[u]
  BY <1>2 DEF Moves, BaseInv, TypeOK
<1>4. l \in {"idle", "blobs", "next"} => In(hold[t], stream')
  <2>1. AfterFailure(t) \notin {"idle", "blobs", "next"}
    BY DEF AfterFailure
  <2>2. pc'[t] \in {"xadd", "again", AfterFailure(t)} \/ stream' = Append(stream, hold[t])
    BY PublishVars
  <2>3. l \in {"idle", "blobs", "next"} => stream' = Append(stream, hold[t])
    BY <1>3, <2>1, <2>2
  <2>4. hold[t] \in Entries /\ stream \in Seq(Entries)
    BY <1>1
  <2>5. In(hold[t], Append(stream, hold[t]))
    BY <2>4, InAppend
  <2> QED
    BY <2>3, <2>5
(* A worker lets go of a message only when it has no binary parts.         *)
<1>s. l = "idle" => t \in Workers /\ hold[t] \notin Multipart
  <2>1. AfterFailure(t) # "idle"
    BY DEF AfterFailure
  <2>2. pc'[t] \in {"xadd", "again", AfterFailure(t), AfterSuccess(t)}
    BY PublishVars
  <2> QED
    BY <1>2, <1>3, <2>1, <2>2, Labels DEF AfterSuccess
<1>5. ASSUME NEW m \in Msgs PROVE Kept(m)' \/ Lost(m)'
  <2>1. Kept(m) \/ Lost(m)
    BY DEF LossInv
  <2>2. ASSUME NEW w \in Workers, hold[w] = m PROVE hold'[w] = m \/ InRedis(m)'
    <3>1. CASE w = t
      <4>1. l = "idle" => m \notin Multipart
        BY <1>3, <1>s, <2>2, <3>1
      <4> QED
        BY <1>3, <1>4, <2>2, <3>1, <4>1 DEF InRedis
    <3>2. CASE w # t
      BY <1>3, <2>2, <3>2, Labels
    <3> QED
      BY <3>1, <3>2
  <2>3. (pc[Replay] = "rewrite" /\ hold[Replay] = m)
            => (pc'[Replay] = "rewrite" /\ hold'[Replay] = m)
    BY <1>2, <1>3, Labels
  <2>4. m \in InMemory => m \in InMemory' \/ InRedis(m)'
    BY <1>1, <2>2, <2>3 DEF InMemory
  <2>5. OnDisk(m) => OnDisk(m)'
    BY <1>1 DEF OnDisk
  <2> QED
    BY <1>0, <1>1, <2>1, <2>4, <2>5 DEF Kept
<1>6. ASSUME NEW w \in Workers, pc'[w] = "blobs" PROVE In(hold'[w], stream')
  <2>1. CASE w = t
    BY <1>3, <1>4, <1>6, <2>1
  <2>2. CASE w # t
    BY <1>0, <1>3, <1>6, <2>2, Labels DEF LossInv
  <2> QED
    BY <2>1, <2>2
<1>7. ASSUME pc'[Replay] = "next" PROVE In(hold'[Replay], stream')
  <2>1. CASE Replay = t
    BY <1>3, <1>4, <1>7, <2>1
  <2>2. CASE Replay # t
    BY <1>0, <1>3, <1>7, <2>2, Labels DEF LossInv
  <2> QED
    BY <2>1, <2>2
<1>8. ReplayOwes'
  <2>1. pc'[Replay] # "rewrite" => pc[Replay] # "rewrite"
    BY <1>2, <1>3, Labels
  <2> QED
    BY <1>0, <1>1, <2>1 DEF LossInv, ReplayOwes
<1> QED
  BY <1>0, <1>5, <1>6, <1>7, <1>8 DEF LossInv

LEMMA WorkerLoss ==
    ASSUME BaseInv, LossInv, [Next]_vars, NEW v \in Workers,
           WorkerGet(v) \/ WorkerBlobs(v) \/ DiskWrite(v)
    PROVE  LossInv'
<1>0. /\ \A x : In(x, stream) => In(x, stream')
      /\ \A m : InRedis(m) => InRedis(m)'
      /\ \A m : Lost(m) => Lost(m)'
      /\ PlainTodo'
      /\ UNCHANGED <<unsent, rfile, rtodo>>
  BY HistoryGrows, PlainStep DEF LossInv, WorkerGet, WorkerBlobs, DiskWrite, replayVars
<1>1. PICK l, h : /\ Moves(v, l, h, att[v]) /\ Fit(v, l, h, att[v])
                  /\ pc[v] # "down" /\ l # "down"
  BY WorkerMoves
<1>2. /\ pc'[v] = l /\ hold'[v] = h
      /\ \A u \in Threads : u # v => pc'[u] = pc[u] /\ hold'[u] = hold[u]
  BY <1>1, Labels DEF Moves, BaseInv, TypeOK
<1>3. pc'[v] # "blobs"
  <2>1. pc'[v] \in {"client", "idle"}
    <3>1. pc \in [Threads -> {"idle", "client", "xadd", "again", "blobs", "disk",
                             "next", "truncate", "rewrite", "down"}] /\ v \in Threads
      BY Labels DEF BaseInv, TypeOK
    <3>2. pc' = [pc EXCEPT ![v] = "client"] \/ pc' = [pc EXCEPT ![v] = "idle"]
      BY DEF WorkerGet, WorkerBlobs, DiskWrite, Goto, GotoWith
    <3> QED
      BY <3>1, <3>2
  <2> QED
    BY <2>1
<1>4. /\ \A w \in Workers : pc'[w] = "blobs" => In(hold'[w], stream')
      /\ pc'[Replay] = "next" => In(hold'[Replay], stream')
  BY <1>0, <1>2, <1>3, Labels DEF LossInv
(* Where the step leaves the message of the worker, and what the queue and *)
(* the disk had.                                                           *)
<1>a. ASSUME NEW m \in Msgs, hold[v] = m
      PROVE  hold'[v] = m \/ OnDisk(m)' \/ InRedis(m)' \/ Lost(m)'
  <2>1. pc[v] \notin Idle
    BY <1>a, Labels DEF BaseInv, ThreadInv, Fit
  <2>2. CASE WorkerGet(v)
    BY <2>1, <2>2 DEF WorkerGet, Idle
  <2>3. CASE WorkerBlobs(v)
    <3>1. pc[v] = "blobs" /\ In(m, stream')
      BY <1>0, <1>a, <2>3 DEF WorkerBlobs, LossInv
    <3>2. m \in blobs' \/ Drop({m}, "blobs")
      BY <1>a, <2>3 DEF WorkerBlobs
    <3>3. {m} \in SUBSET Msgs /\ m \in {m}
      OBVIOUS
    <3>4. CASE Drop({m}, "blobs")
      BY <3>3, <3>4, Dropped
    <3> QED
      BY <3>1, <3>2, <3>4 DEF InRedis
  <2>4. CASE DiskWrite(v)
    <3>1. PICK f \in Files, q \in Seq(Entries) :
              \/ disk' = [disk EXCEPT ![f] = Append(q, m)]
              \/ Drop({m}, "fault")
      BY <1>a, <2>4, WriteDisk
    <3>2. CASE disk' = [disk EXCEPT ![f] = Append(q, m)]
      <4>1. disk'[f] = Append(q, m) /\ m \in Entries
        BY <3>2 DEF Entries, BaseInv, TypeOK
      <4>2. Append(q, m) \in Seq(Entries) /\ In(m, Append(q, m))
        BY <4>1, InAppend, AppendProperties
      <4>3. disk'[f] # NoFile
        BY <4>1, <4>2, DiskFacts
      <4> QED
        BY <4>1, <4>2, <4>3 DEF OnDisk
    <3>3. CASE Drop({m}, "fault")
      BY <3>3, Dropped
    <3> QED
      BY <3>1, <3>2, <3>3
  <2> QED
    BY <2>2, <2>3, <2>4
<1>b. ASSUME NEW m \in Msgs, In(m, queue) PROVE In(m, queue') \/ hold'[v] = m
  <2>1. CASE WorkerGet(v)
    <3>1. queue \in Seq(Msgs) /\ queue # <<>> /\ queue' = Tail(queue)
          /\ hold'[v] = Head(queue)
      BY <2>1, Labels DEF WorkerGet, GotoWith, BaseInv, TypeOK
    <3> QED
      BY <1>b, <3>1, InTail
  <2>2. CASE UNCHANGED queue
    BY <1>b, <2>2
  <2> QED
    BY <2>1, <2>2 DEF WorkerBlobs, DiskWrite
<1>c. ASSUME NEW f \in Files, disk[f] # NoFile
      PROVE  /\ disk'[f] # NoFile /\ \A m : In(m, disk[f]) => In(m, disk'[f])
             /\ f = rfile => disk'[f] = disk[f]
  <2>1. CASE DiskWrite(v)
    <3>1. PICK g \in Files, q \in Seq(Entries) :
              /\ q = IF NeedsFile THEN <<>> ELSE disk[g]
              /\ NeedsFile => disk[g] = NoFile
              /\ g # rfile /\ hold[v] \in Msgs
              /\ \/ disk' = [disk EXCEPT ![g] = Append(q, hold[v])]
                 \/ UNCHANGED disk
                 \/ NeedsFile /\ disk' = [disk EXCEPT ![g] = q]
      BY <2>1, WriteDisk
    <3>2. CASE f = g
      <4>1. ~NeedsFile /\ q = disk[f]
        BY <1>c, <3>1, <3>2
      <4>2. hold[v] \in Entries /\ Append(q, hold[v]) \in Seq(Entries)
        BY <3>1, AppendProperties DEF Entries
      <4>3. Append(q, hold[v]) # NoFile /\ \A m : In(m, q) => In(m, Append(q, hold[v]))
        BY <4>2, DiskFacts, InAppend
      <4> QED
        BY <1>c, <3>1, <3>2, <4>1, <4>3, DiskFacts
    <3>3. CASE f # g
      BY <1>c, <3>1, <3>3, DiskFacts
    <3> QED
      BY <3>2, <3>3
  <2>2. CASE UNCHANGED disk
    BY <1>c, <2>2
  <2> QED
    BY <2>1, <2>2 DEF WorkerGet, WorkerBlobs, diskVars
<1>5. ASSUME NEW m \in Msgs PROVE Kept(m)' \/ Lost(m)'
  <2>1. Kept(m) \/ Lost(m)
    BY DEF LossInv
  <2>2. ASSUME NEW w \in Workers, hold[w] = m
        PROVE  hold'[w] = m \/ OnDisk(m)' \/ InRedis(m)' \/ Lost(m)'
    BY <1>2, <1>a, <2>2, Labels
  <2>3. (pc[Replay] = "rewrite" /\ hold[Replay] = m)
            => (pc'[Replay] = "rewrite" /\ hold'[Replay] = m)
    BY <1>2, Labels
  <2>4. m \in InMemory => m \in InMemory' \/ OnDisk(m)' \/ InRedis(m)' \/ Lost(m)'
    BY <1>b, <2>2, <2>3 DEF InMemory
  <2>5. OnDisk(m) => OnDisk(m)'
    BY <1>c DEF OnDisk
  <2> QED
    BY <1>0, <2>1, <2>4, <2>5 DEF Kept
<1>6. ReplayOwes'
  <2>1. pc'[Replay] = pc[Replay]
    BY <1>2, Labels
  <2>2. rfile # 0 => disk'[rfile] = disk[rfile]
    <3>1. rfile # 0 => rfile \in Files
      BY DEF BaseInv, TypeOK
    <3>2. ASSUME rfile # 0, disk[rfile] = NoFile PROVE disk'[rfile] = NoFile
      <4>1. CASE DiskWrite(v)
        <5>1. PICK g \in Files, q \in Seq(Entries) :
                  /\ g # rfile
                  /\ \/ disk' = [disk EXCEPT ![g] = Append(q, hold[v])]
                     \/ UNCHANGED disk
                     \/ disk' = [disk EXCEPT ![g] = q]
          BY <4>1, WriteDisk
        <5> QED
          BY <3>1, <3>2, <5>1, DiskFacts
      <4>2. CASE UNCHANGED disk
        BY <3>2, <4>2
      <4> QED
        BY <4>1, <4>2 DEF WorkerGet, WorkerBlobs, diskVars
    <3> QED
      BY <1>c, <3>1, <3>2
  <2> QED
    BY <1>0, <2>1, <2>2 DEF LossInv, ReplayOwes
<1> QED
  BY <1>0, <1>4, <1>5, <1>6 DEF LossInv

(* The other steps, of which each has to say only what becomes of the      *)
(* messages it moves.                                                      *)
LEMMA LossSplit ==
    ASSUME BaseInv, LossInv, [Next]_vars, UNCHANGED unsent,
           \A m \in Msgs : m \in InMemory =>
               m \in InMemory' \/ OnDisk(m)' \/ InRedis(m)' \/ Lost(m)',
           \A m \in Msgs : OnDisk(m) =>
               m \in InMemory' \/ OnDisk(m)' \/ InRedis(m)' \/ Lost(m)',
           \A w \in Workers : pc'[w] = "blobs" => pc[w] = "blobs" /\ hold'[w] = hold[w],
           pc'[Replay] = "next" => pc[Replay] = "next" /\ hold'[Replay] = hold[Replay],
           ReplayOwes'
    PROVE  LossInv'
<1>1. /\ \A x : In(x, stream) => In(x, stream')
      /\ \A m : InRedis(m) => InRedis(m)'
      /\ \A m : Lost(m) => Lost(m)'
      /\ PlainTodo'
  BY HistoryGrows, PlainStep DEF LossInv
<1>2. ASSUME NEW m \in Msgs PROVE Kept(m)' \/ Lost(m)'
  <2>1. Kept(m) \/ Lost(m)
    BY DEF LossInv
  <2> QED
    BY <1>1, <2>1 DEF Kept
<1>3. /\ \A w \in Workers : pc'[w] = "blobs" => In(hold'[w], stream')
      /\ pc'[Replay] = "next" => In(hold'[Replay], stream')
  BY <1>1 DEF LossInv
<1> QED
  BY <1>1, <1>2, <1>3 DEF LossInv

LEMMA ReplayLoss ==
    ASSUME BaseInv, LossInv, [Next]_vars,
           \/ ReplayStart \/ ReplayEmpty \/ ReplayNext
           \/ ReplayTruncate \/ ReplayRewrite \/ ReplayFault
    PROVE  LossInv'
<1>0. /\ \A x : In(x, stream) => In(x, stream')
      /\ \A m : InRedis(m) => InRedis(m)'
      /\ \A m : Lost(m) => Lost(m)'
      /\ UNCHANGED <<unsent, queue, stream>>
  BY HistoryGrows DEF ReplayStart, ReplayEmpty, ReplayNext, ReplayTruncate, ReplayRewrite,
     ReplayFault, redisVars
<1>d. /\ disk \in [Files -> Seq(Entries) \cup {NoFile}] /\ NoFile \notin Seq(Entries)
      /\ <<>> # NoFile
      /\ \A f \in Closed : f \in Files /\ disk[f] \in Seq(Entries)
  BY DiskFacts
<1>m. \A m \in Msgs : m \in Entries /\ m # NoMsg
  BY BabysitterAssumption DEF Entries
(* The workers stay, and the replay goes to l.                             *)
<1>w. /\ \A w \in Workers : pc'[w] = pc[w] /\ hold'[w] = hold[w]
      /\ \A l : Goto(Replay, l) =>
             pc'[Replay] = l /\ (l # "idle" => hold'[Replay] = hold[Replay])
      /\ \A l, h : GotoWith(Replay, l, h) => pc'[Replay] = l /\ hold'[Replay] = h
  <2>1. /\ pc \in [Threads -> {"idle", "client", "xadd", "again", "blobs", "disk",
                               "next", "truncate", "rewrite", "down"}]
        /\ hold \in [Threads -> Entries \cup {NoMsg}]
        /\ Replay \in Threads /\ \A w \in Workers : w # Replay /\ w \in Threads
    BY Labels DEF BaseInv, TypeOK
  <2>2. \/ \E l : Goto(Replay, l)
        \/ \E l, h : GotoWith(Replay, l, h)
        \/ UNCHANGED <<pc, hold>>
    BY DEF ReplayStart, ReplayEmpty, ReplayNext, ReplayTruncate, ReplayRewrite,
       ReplayFault, threadVars
  <2>3. \A w \in Workers : pc'[w] = pc[w] /\ hold'[w] = hold[w]
    BY <2>1, <2>2 DEF Goto, GotoWith
  <2>4. ASSUME NEW l, Goto(Replay, l)
        PROVE  pc'[Replay] = l /\ (l # "idle" => hold'[Replay] = hold[Replay])
    BY <2>1, <2>4 DEF Goto
  <2>5. ASSUME NEW l, NEW h, GotoWith(Replay, l, h)
        PROVE  pc'[Replay] = l /\ hold'[Replay] = h
    BY <2>1, <2>5 DEF GotoWith
  <2> QED
    BY <2>3, <2>4, <2>5
<1>i. ASSUME pc[Replay] = "rewrite" => \A m \in Msgs : hold[Replay] = m =>
                 OnDisk(m)' \/ Lost(m)'
      PROVE  \A m \in Msgs : m \in InMemory =>
                 m \in InMemory' \/ OnDisk(m)' \/ InRedis(m)' \/ Lost(m)'
  BY <1>0, <1>i, <1>w DEF InMemory
<1>b. \A w \in Workers : pc'[w] = "blobs" => pc[w] = "blobs" /\ hold'[w] = hold[w]
  BY <1>w
<1>1. CASE ReplayStart
  <2>1. PICK r \in Readings(disk[Oldest]) : rtodo' = r
    BY <1>1 DEF ReplayStart
  <2>2. /\ rfile' = Oldest /\ GotoWith(Replay, "client", Head(r))
        /\ Drop(Misread(disk[Oldest], r), "misread")
        /\ pc[Replay] = "idle" /\ UNCHANGED disk
    BY <1>1, <2>1 DEF ReplayStart, ReplayMayStart, diskVars
  <2>3. \A m \in Msgs : OnDisk(m) => OnDisk(m)'
    BY <2>2 DEF OnDisk
  <2>4. ReplayOwes'
    <3>1. ASSUME NEW m \in Msgs, In(m, disk[Oldest]), ~In(m, r) PROVE Lost(m)'
      <4>1. m \in Misread(disk[Oldest], r) /\ Misread(disk[Oldest], r) \in SUBSET Msgs
        BY <3>1 DEF Misread
      <4> QED
        BY <2>2, <4>1, Dropped
    <3> QED
      BY <2>1, <2>2, <3>1 DEF ReplayOwes
  <2>5. pc'[Replay] = "client"
    BY <1>w, <2>2
  <2>6. pc[Replay] # "rewrite"
    BY <2>2
  <2> QED
    BY <1>0, <1>b, <1>i, <2>3, <2>4, <2>5, <2>6, LossSplit
<1>2. CASE ReplayEmpty
  <2>1. /\ disk' = [disk EXCEPT ![Oldest] = NoFile] /\ pc[Replay] = "idle"
        /\ UNCHANGED <<pc, hold, rfile, rtodo>> /\ disk[Oldest] = <<>>
    BY <1>2 DEF ReplayEmpty, ReplayMayStart, threadVars, replayVars
  <2>2. \A m \in Msgs : OnDisk(m) => OnDisk(m)'
    <3>1. ASSUME NEW m \in Msgs, NEW f \in Files, disk[f] # NoFile, In(m, disk[f])
          PROVE  disk'[f] = disk[f]
      <4>1. disk[f] # <<>>
        BY <3>1, InNothing
      <4> QED
        BY <1>d, <2>1, <4>1
    <3> QED
      BY <3>1 DEF OnDisk
  <2>3. ReplayOwes'
    BY <2>1 DEF BaseInv, FileInv, ReplayOwes, Idle
  <2>4. pc'[Replay] = "idle" /\ pc[Replay] # "rewrite"
    BY <2>1
  <2> QED
    BY <1>0, <1>b, <1>i, <2>2, <2>3, <2>4, LossSplit
<1>3. CASE ReplayNext
  <2>1. /\ pc[Replay] = "next" /\ rtodo' = Tail(rtodo)
    BY <1>3 DEF ReplayNext
  <2>2. /\ rfile \in Files /\ rtodo \in Seq(Entries) /\ rtodo # <<>>
        /\ hold[Replay] = Head(rtodo) /\ rfile # 0
    BY <2>1, ReplayBusy DEF Idle, Files
  <2>3. \A x : In(x, rtodo) => InRedis(x)' \/ In(x, rtodo')
    <3>1. In(hold[Replay], stream)
      BY <2>1 DEF LossInv
    <3>2. In(Head(rtodo), rtodo)
      BY <2>2, InTail
    <3>3. InRedis(hold[Replay])
      BY <2>2, <3>1, <3>2 DEF LossInv, PlainTodo, InRedis
    <3> QED
      BY <1>0, <2>1, <2>2, <3>3, InTail
  <2>4. ASSUME NEW m \in Msgs, disk[rfile] # NoFile, In(m, disk[rfile])
        PROVE  In(m, rtodo') \/ InRedis(m)' \/ Lost(m)'
    <3>1. In(m, rtodo) \/ InRedis(m) \/ Lost(m)
      BY <2>1, <2>2, <2>4 DEF LossInv, ReplayOwes
    <3> QED
      BY <1>0, <2>3, <3>1
  <2>5. CASE Tail(rtodo) # <<>>
    <3>1. /\ GotoWith(Replay, "client", Head(Tail(rtodo))) /\ UNCHANGED <<disk, rfile>>
      BY <1>3, <2>1, <2>5 DEF ReplayNext
    <3>2. pc'[Replay] = "client"
      BY <1>w, <3>1
    <3>3. ReplayOwes'
      BY <2>4, <3>1 DEF ReplayOwes
    <3>4. \A m \in Msgs : OnDisk(m) => OnDisk(m)'
      BY <3>1 DEF OnDisk
    <3>5. pc[Replay] # "rewrite"
      BY <2>1
    <3> QED
      BY <1>0, <1>b, <1>i, <3>2, <3>3, <3>4, <3>5, LossSplit
  <2>6. CASE Tail(rtodo) = <<>>
    <3>1. /\ Goto(Replay, "idle") /\ disk' = [disk EXCEPT ![rfile] = NoFile] /\ rfile' = 0
      BY <1>3, <2>1, <2>6 DEF ReplayNext
    <3>2. pc'[Replay] = "idle"
      BY <1>w, <3>1
    <3>3. ReplayOwes'
      BY <3>1 DEF ReplayOwes
    <3>4. ASSUME NEW m \in Msgs, OnDisk(m)
          PROVE  OnDisk(m)' \/ InRedis(m)' \/ Lost(m)'
      <4>1. PICK f \in Files : disk[f] # NoFile /\ In(m, disk[f])
        BY <3>4 DEF OnDisk
      <4>2. CASE f = rfile
        <5>1. ~In(m, rtodo')
          BY <2>1, <2>6, InNothing
        <5> QED
          BY <2>4, <4>1, <4>2, <5>1
      <4>3. CASE f # rfile
        <5>1. disk'[f] = disk[f]
          BY <1>d, <3>1, <4>3
        <5> QED
          BY <4>1, <5>1 DEF OnDisk
      <4> QED
        BY <4>2, <4>3
    <3>5. pc[Replay] # "rewrite"
      BY <2>1
    <3> QED
      BY <1>0, <1>b, <1>i, <3>2, <3>3, <3>4, <3>5, LossSplit
  <2> QED
    BY <2>5, <2>6
<1>4. CASE ReplayTruncate
  <2>1. /\ pc[Replay] = "truncate" /\ disk' = [disk EXCEPT ![rfile] = <<>>]
        /\ rtodo' = <<Head(rtodo)>> /\ Goto(Replay, "rewrite")
        /\ Drop({m \in Msgs : In(m, rtodo) /\ ~In(m, rtodo')}, "rewrite")
    BY <1>4 DEF ReplayTruncate, Remaining
  <2>2. /\ rfile \in Files /\ rtodo \in Seq(Entries) /\ rtodo # <<>> /\ rfile # 0
        /\ hold[Replay] = Head(rtodo)
    BY <2>1, ReplayBusy DEF Idle, Files
  <2>3. pc'[Replay] = "rewrite" /\ hold'[Replay] = Head(rtodo)
    BY <1>w, <2>1, <2>2
  <2>4. ReplayOwes'
    BY <2>3 DEF ReplayOwes
  <2>5. ASSUME NEW m \in Msgs, In(m, rtodo) PROVE m \in InMemory' \/ Lost(m)'
    <3>1. CASE In(m, rtodo')
      <4>1. m = Head(rtodo)
        BY <2>1, <3>1 DEF In
      <4> QED
        BY <2>3, <4>1 DEF InMemory
    <3>2. CASE ~In(m, rtodo')
      <4> DEFINE M == {n \in Msgs : In(n, rtodo) /\ ~In(n, rtodo')}
      <4>1. M \in SUBSET Msgs /\ m \in M /\ Drop(M, "rewrite")
        BY <2>1, <2>5, <3>2
      <4> HIDE DEF M
      <4> QED
        BY <4>1, Dropped
    <3> QED
      BY <3>1, <3>2
  <2>6. ASSUME NEW m \in Msgs, OnDisk(m)
        PROVE  m \in InMemory' \/ OnDisk(m)' \/ InRedis(m)' \/ Lost(m)'
    <3>1. PICK f \in Files : disk[f] # NoFile /\ In(m, disk[f])
      BY <2>6 DEF OnDisk
    <3>2. CASE f = rfile
      <4>1. In(m, rtodo) \/ InRedis(m) \/ Lost(m)
        BY <2>1, <2>2, <3>1, <3>2 DEF LossInv, ReplayOwes
      <4> QED
        BY <1>0, <2>5, <4>1
    <3>3. CASE f # rfile
      <4>1. disk'[f] = disk[f]
        BY <1>d, <2>1, <3>3
      <4> QED
        BY <3>1, <4>1 DEF OnDisk
    <3> QED
      BY <3>2, <3>3
  <2>7. pc[Replay] # "rewrite" /\ pc'[Replay] # "next"
    BY <2>1, <2>3
  <2> QED
    BY <1>0, <1>b, <1>i, <2>4, <2>6, <2>7, LossSplit
<1>5. CASE ReplayRewrite
  <2>1. /\ pc[Replay] = "rewrite" /\ disk' = [disk EXCEPT ![rfile] = rtodo]
        /\ rfile' = 0 /\ Goto(Replay, "idle")
    BY <1>5 DEF ReplayRewrite
  <2>2. /\ rfile \in Files /\ rtodo \in Seq(Entries) /\ rtodo # <<>>
        /\ hold[Replay] = Head(rtodo) /\ disk[rfile] \in {<<>>, NoFile}
    BY <2>1, ReplayBusy DEF Idle, BaseInv, FileInv
  <2>3. pc'[Replay] = "idle"
    BY <1>w, <2>1
  <2>4. ReplayOwes'
    BY <2>1 DEF ReplayOwes
  <2>5. disk'[rfile] = rtodo /\ rtodo # NoFile
        /\ \A f \in Files : f # rfile => disk'[f] = disk[f]
    BY <1>d, <2>1, <2>2
  <2>6. ASSUME NEW m \in Msgs, hold[Replay] = m PROVE OnDisk(m)'
    <3>1. In(m, rtodo)
      BY <2>2, <2>6, InTail
    <3> QED
      BY <2>2, <2>5, <3>1 DEF OnDisk
  <2>7. \A m \in Msgs : OnDisk(m) => OnDisk(m)'
    <3>1. ASSUME NEW m \in Msgs, NEW f \in Files, disk[f] # NoFile, In(m, disk[f])
          PROVE  f # rfile
      BY <2>2, <3>1, InNothing
    <3> QED
      BY <2>5, <3>1 DEF OnDisk
  <2> QED
    BY <1>0, <1>b, <1>i, <2>3, <2>4, <2>6, <2>7, LossSplit
<1>6. CASE ReplayFault
  <2>1. /\ rfile' = 0 /\ Goto(Replay, "idle") /\ UNCHANGED disk
        /\ pc[Replay] = "rewrite" => Drop({hold[Replay]} \cap Msgs, "fault")
    BY <1>6 DEF ReplayFault
  <2>2. pc'[Replay] = "idle"
    BY <1>w, <2>1
  <2>3. ReplayOwes'
    BY <2>1 DEF ReplayOwes
  <2>4. \A m \in Msgs : OnDisk(m) => OnDisk(m)'
    BY <2>1 DEF OnDisk
  <2>5. ASSUME pc[Replay] = "rewrite", NEW m \in Msgs, hold[Replay] = m PROVE Lost(m)'
    <3>1. m \in {hold[Replay]} \cap Msgs /\ {hold[Replay]} \cap Msgs \in SUBSET Msgs
      BY <2>5
    <3>2. Drop({hold[Replay]} \cap Msgs, "fault")
      BY <2>1, <2>5
    <3> QED
      BY <3>1, <3>2, Dropped
  <2> QED
    BY <1>0, <1>b, <1>i, <2>2, <2>3, <2>4, <2>5, LossSplit
<1> QED
  BY <1>1, <1>2, <1>3, <1>4, <1>5, <1>6

LEMMA PruneLoss ==
    ASSUME BaseInv, LossInv, [Next]_vars, NEW f \in Files, Prune(f)
    PROVE  LossInv'
<1>0. /\ \A m : InRedis(m) => InRedis(m)'
      /\ \A m : Lost(m) => Lost(m)'
  BY HistoryGrows
<1>1. /\ disk' = [disk EXCEPT ![f] = NoFile]
      /\ Drop({m \in Msgs : In(m, disk[f])}, "pruned")
      /\ UNCHANGED <<unsent, queue, pc, hold, rfile, rtodo, stream>>
  BY DEF Prune, threadVars, replayVars, redisVars
<1>2. disk'[f] = NoFile /\ \A g \in Files : g # f => disk'[g] = disk[g]
  BY <1>1, DiskFacts
<1>3. ASSUME NEW m \in Msgs, OnDisk(m) PROVE OnDisk(m)' \/ Lost(m)'
  <2>1. PICK g \in Files : disk[g] # NoFile /\ In(m, disk[g])
    BY <1>3 DEF OnDisk
  <2>2. CASE g = f
    <3> DEFINE M == {n \in Msgs : In(n, disk[f])}
    <3>1. M \in SUBSET Msgs /\ m \in M /\ Drop(M, "pruned")
      BY <1>1, <2>1, <2>2
    <3> HIDE DEF M
    <3> QED
      BY <3>1, Dropped
  <2>3. CASE g # f
    BY <1>2, <2>1, <2>3 DEF OnDisk
  <2> QED
    BY <2>2, <2>3
<1>4. ReplayOwes'
  <2>1. rfile # 0 => rfile \in Files
    BY DEF BaseInv, TypeOK
  <2> QED
    BY <1>0, <1>1, <1>2, <2>1 DEF LossInv, ReplayOwes
<1>5. \A m \in Msgs : m \in InMemory => m \in InMemory'
  BY <1>1 DEF InMemory
<1> QED
  BY <1>1, <1>3, <1>4, <1>5, LossSplit

LEMMA CrashLoss ==
    ASSUME BaseInv, LossInv, [Next]_vars, Crash
    PROVE  LossInv'
<1>1. /\ Drop(InMemory, "crash") /\ pc' = [t \in Threads |-> "down"] /\ rfile' = 0
      /\ UNCHANGED <<unsent, disk>>
  BY DEF Crash, diskVars
<1>2. pc'[Replay] = "down" /\ \A w \in Workers : pc'[w] = "down"
  BY <1>1, Labels
<1>3. ASSUME NEW m \in InMemory PROVE Lost(m)'
  <2>1. InMemory \in SUBSET Msgs
    BY DEF InMemory
  <2> QED
    BY <1>1, <2>1, Dropped
<1>4. \A m \in Msgs : OnDisk(m) => OnDisk(m)'
  BY <1>1 DEF OnDisk
<1>5. ReplayOwes'
  BY <1>1 DEF ReplayOwes
<1> QED
  BY <1>1, <1>2, <1>3, <1>4, <1>5, LossSplit

LEMMA RestartLoss ==
    ASSUME BaseInv, LossInv, [Next]_vars, Restart
    PROVE  LossInv'
<1>1. /\ pc[Replay] = "down" /\ pc' = [t \in Threads |-> "idle"]
      /\ disk' = [disk EXCEPT ![nfiles + 1] = <<>>]
      /\ UNCHANGED <<unsent, queue, hold, rfile, rtodo, stream>>
  BY DEF Restart, Running, replayVars
<1>2. pc'[Replay] = "idle" /\ \A w \in Workers : pc'[w] = "idle"
  BY <1>1, Labels
<1>3. ASSUME NEW m \in Msgs, OnDisk(m) PROVE OnDisk(m)'
  <2>1. PICK f \in Files : disk[f] # NoFile /\ In(m, disk[f])
    BY <1>3 DEF OnDisk
  <2>2. f <= nfiles /\ f \in Nat /\ nfiles \in Nat
    BY <2>1 DEF BaseInv, FileInv, TypeOK, Files
  <2>3. f # nfiles + 1
    BY <2>2
  <2>4. disk'[f] = disk[f]
    BY <1>1, <2>3, DiskFacts
  <2> QED
    BY <2>1, <2>4 DEF OnDisk
<1>4. \A m \in Msgs : m \in InMemory => m \in InMemory'
  BY <1>1 DEF InMemory
<1>5. ReplayOwes'
  <2>1. rfile = 0
    BY <1>1 DEF BaseInv, FileInv, Idle
  <2> QED
    BY <1>1, <2>1 DEF ReplayOwes
<1> QED
  BY <1>1, <1>2, <1>3, <1>4, <1>5, LossSplit

LEMMA ReceiveLoss ==
    ASSUME BaseInv, LossInv, [Next]_vars, NEW n \in Msgs, Receive(n)
    PROVE  LossInv'
<1>1. /\ UNCHANGED <<pc, hold, disk, replayVars>> /\ unsent' = unsent \ {n}
      /\ \/ queue' = Append(queue, n)
         \/ \E c \in {"malformed", "full"} : Drop({n}, c) /\ UNCHANGED queue
  BY DEF Receive, threadVars, diskVars
<1>2. CASE queue' = Append(queue, n)
  <2>1. \A m : In(m, Append(queue, n)) <=> (In(m, queue) \/ m = n)
    BY InAppend DEF BaseInv, TypeOK
  <2> QED
    BY <1>1, <1>2, <2>1, LossFrame
<1>3. CASE \E c \in {"malformed", "full"} : Drop({n}, c) /\ UNCHANGED queue
  <2>1. Lost(n)'
    BY <1>3, Dropped
  <2> QED
    BY <1>1, <1>3, <2>1, LossFrame
<1> QED
  BY <1>1, <1>2, <1>3

LEMMA LossStep == BaseInv /\ LossInv /\ [Next]_vars => LossInv'
<1> SUFFICES ASSUME BaseInv, LossInv, [Next]_vars
             PROVE  LossInv'
  OBVIOUS
<1>1. CASE \E m \in Msgs : Receive(m)
  BY <1>1, ReceiveLoss
<1>2. ASSUME NEW w \in Workers, WorkerStep(w) PROVE LossInv'
  BY <1>2, PublishLoss, WorkerLoss, Labels DEF WorkerStep, Publishes
<1>3. CASE ReplayStep
  BY <1>3, PublishLoss, ReplayLoss, Labels DEF ReplayStep, Publishes
<1>4. CASE \E f \in Files : Prune(f)
  BY <1>4, PruneLoss
<1>5. CASE Crash \/ Restart
  BY <1>5, CrashLoss, RestartLoss
<1>6. CASE \/ HealthCheckFails \/ BackoffElapses \/ RedisGoes \/ RedisReturns
           \/ Stop \/ CloseBuffer \/ UNCHANGED vars
  <2>1. UNCHANGED <<pc, hold, disk, replayVars, unsent, queue>>
    BY <1>6 DEF HealthCheckFails, BackoffElapses, RedisGoes, RedisReturns, Stop,
       CloseBuffer, vars, threadVars, diskVars
  <2> QED
    BY <2>1, LossFrame
<1> QED
  BY <1>1, <1>2, <1>3, <1>4, <1>5, <1>6 DEF Next

LEMMA LossInvariant == Spec => [](BaseInv /\ LossInv)
<1>1. Init => LossInv
  BY Labels, InNothing DEF Init, LossInv, Kept, ReplayOwes, PlainTodo
<1> QED
  BY <1>1, InitBase, BaseStep, LossStep, PTL DEF Spec

(* A message that a socket delivered is in the queue, with a thread, on    *)
(* disk or in Redis with its binary parts, or one of the named ways of     *)
(* losing it took it, after any outages, rotations, failing writes, stops  *)
(* and crashes.                                                            *)
THEOREM LossExplained == Spec => []NoUnexplainedLoss
<1>1. LossInv => NoUnexplainedLoss
  BY DEF LossInv, NoUnexplainedLoss, Lost
<1> QED
  BY <1>1, LossInvariant, PTL

-----------------------------------------------------------------------------
(* A message whose additions all left a trace is in one place, and a worker *)
(* that adds it does not have it any more (it may have its binary parts).  *)
(* The exception is the file under replay: it keeps what this pass read    *)
(* and added, and the entry just added is still the first to do.           *)

OnFile(m, f) == disk[f] # NoFile /\ In(m, disk[f])
Behind(m) == OnDisk(m) \/ In(m, rtodo) \/ In(m, stream)
Holding(w, m) == hold[w] = m /\ pc[w] # "blobs"
Nowhere(m) == ~Behind(m) /\ \A w \in Workers : ~Holding(w, m)

FilesOnce(m) ==
    /\ \A f \in Files : OnFile(m, f) => Uniq(m, disk[f])
    /\ \A f, g \in Files : OnFile(m, f) /\ OnFile(m, g) => f = g
ReplayOnce(m) ==
    /\ In(m, rtodo) \/ In(m, stream) => \A f \in Files : OnFile(m, f) => f = rfile
    /\ In(m, rtodo) /\ In(m, stream) => pc[Replay] = "next" /\ m = Head(rtodo)

Once(m) ==
    /\ m \in unsent => ~In(m, queue) /\ Nowhere(m)
    /\ In(m, queue) => Nowhere(m)
    /\ \A w \in Workers : Holding(w, m) => ~Behind(m)
    /\ \A v, w \in Workers : Holding(v, m) /\ Holding(w, m) => v = w
    /\ Uniq(m, queue) /\ Uniq(m, rtodo) /\ Uniq(m, stream)
    /\ FilesOnce(m) /\ ReplayOnce(m)

OnceInv == \A m \in Msgs \ doubtful : Once(m)

LEMMA UniqAbsent ==
    ASSUME NEW m, NEW q, ~In(m, q)
    PROVE  Uniq(m, q)
BY DEF In, Uniq

LEMMA UniqAppend ==
    ASSUME NEW S, NEW q \in Seq(S), NEW e \in S, NEW m, Uniq(m, q), m # e \/ ~In(m, q)
    PROVE  Uniq(m, Append(q, e))
<1>1. /\ Len(q) \in Nat /\ DOMAIN q = 1 .. Len(q)
      /\ DOMAIN Append(q, e) = 1 .. Len(q) + 1
      /\ Append(q, e)[Len(q) + 1] = e
      /\ \A i \in 1 .. Len(q) : Append(q, e)[i] = q[i]
  BY AppendProperties, LenProperties
<1>2. SUFFICES ASSUME NEW i \in 1 .. Len(q) + 1, NEW j \in 1 .. Len(q) + 1,
                      Append(q, e)[i] = m, Append(q, e)[j] = m
               PROVE  i = j
  BY <1>1 DEF Uniq
<1>3. /\ i \in 1 .. Len(q) \/ i = Len(q) + 1
      /\ j \in 1 .. Len(q) \/ j = Len(q) + 1
  BY <1>1
<1>4. CASE m # e
  BY <1>1, <1>2, <1>3, <1>4 DEF Uniq
<1>5. CASE ~In(m, q)
  BY <1>1, <1>2, <1>3, <1>5 DEF In
<1> QED
  BY <1>4, <1>5

LEMMA UniqTail ==
    ASSUME NEW S, NEW q \in Seq(S), q # <<>>, NEW m, Uniq(m, q)
    PROVE  Uniq(m, Tail(q)) /\ (m = Head(q) => ~In(m, Tail(q)))
<1>1. /\ Len(q) \in Nat /\ Len(q) # 0 /\ DOMAIN q = 1 .. Len(q)
      /\ Head(q) = q[1] /\ Tail(q) \in Seq(S) /\ Len(Tail(q)) = Len(q) - 1
      /\ \A i \in 1 .. Len(Tail(q)) : Tail(q)[i] = q[i + 1]
      /\ DOMAIN Tail(q) = 1 .. Len(Tail(q))
  BY EmptySeq, LenProperties, HeadTailProperties
<1>2. \A i \in 1 .. Len(Tail(q)) : i + 1 \in 1 .. Len(q) /\ i + 1 # 1
  BY <1>1
<1>3. ASSUME NEW i \in 1 .. Len(Tail(q)), NEW j \in 1 .. Len(Tail(q)),
             Tail(q)[i] = m, Tail(q)[j] = m
      PROVE  i = j
  <2>1. q[i + 1] = m /\ q[j + 1] = m
    BY <1>1, <1>3
  <2>2. i + 1 = j + 1
    BY <1>1, <1>2, <2>1 DEF Uniq
  <2> QED
    BY <2>2
<1>4. ASSUME m = Head(q), NEW i \in 1 .. Len(Tail(q)), Tail(q)[i] = m
      PROVE  FALSE
  <2>1. q[i + 1] = m /\ q[1] = m /\ 1 \in 1 .. Len(q)
    BY <1>1, <1>4
  <2> QED
    BY <1>1, <1>2, <2>1 DEF Uniq
<1> QED
  BY <1>1, <1>3, <1>4 DEF Uniq, In

(* A step that brings the message to no place it was not in.               *)
LEMMA OnceLess ==
    ASSUME NEW m, Once(m),
           m \in unsent' => m \in unsent,
           In(m, queue') => In(m, queue),
           \A w \in Workers : Holding(w, m)' => Holding(w, m),
           Behind(m)' => Behind(m),
           Uniq(m, queue'), Uniq(m, rtodo'), Uniq(m, stream'),
           FilesOnce(m)', ReplayOnce(m)'
    PROVE  Once(m)'
BY DEF Once, Nowhere

(* A step that leaves the disk, the replay and the stream as they are.     *)
LEMMA PlacesStay ==
    ASSUME NEW m, Once(m), UNCHANGED <<disk, rfile, rtodo, stream>>,
           pc[Replay] = "next" => pc'[Replay] = "next"
    PROVE  /\ Behind(m)' <=> Behind(m)
           /\ Uniq(m, rtodo') /\ Uniq(m, stream')
           /\ FilesOnce(m)' /\ ReplayOnce(m)'
BY DEF Once, Behind, OnDisk, OnFile, FilesOnce, ReplayOnce

LEMMA ReceiveOnce ==
    ASSUME BaseInv, NEW n \in Msgs, Receive(n), NEW m \in Msgs, Once(m)
    PROVE  Once(m)'
<1>1. /\ UNCHANGED <<disk, rfile, rtodo, stream, pc, hold>> /\ n \in unsent
      /\ unsent' = unsent \ {n}
      /\ queue' = Append(queue, n) \/ queue' = queue
      /\ queue \in Seq(Msgs)
  BY DEF Receive, threadVars, diskVars, replayVars, redisVars, BaseInv, TypeOK
<1>2. /\ Behind(m)' <=> Behind(m)
      /\ Uniq(m, rtodo') /\ Uniq(m, stream')
      /\ FilesOnce(m)' /\ ReplayOnce(m)'
  BY <1>1, PlacesStay
<1>3. \A w \in Workers : Holding(w, m)' <=> Holding(w, m)
  BY <1>1 DEF Holding
<1>4. m = n => ~In(m, queue)
  BY <1>1 DEF Once
<1>5. Uniq(m, queue')
  <2>1. Uniq(m, queue)
    BY DEF Once
  <2>2. Uniq(m, Append(queue, n))
    BY <1>1, <1>4, <2>1, UniqAppend
  <2> QED
    BY <1>1, <2>1, <2>2
<1>6. In(m, queue') => In(m, queue) \/ m = n
  <2>1. In(m, Append(queue, n)) <=> (In(m, queue) \/ m = n)
    BY <1>1, InAppend
  <2> QED
    BY <1>1, <2>1
<1>7. Nowhere(m)' <=> Nowhere(m)
  BY <1>2, <1>3 DEF Nowhere
<1>8. m \in unsent' => m \in unsent /\ m # n
  BY <1>1
<1> QED
  BY <1>1, <1>2, <1>3, <1>5, <1>6, <1>7, <1>8 DEF Once

LEMMA GetOnce ==
    ASSUME BaseInv, NEW v \in Workers, WorkerGet(v), NEW m \in Msgs, Once(m)
    PROVE  Once(m)'
<1>1. /\ UNCHANGED <<disk, rfile, rtodo, stream, unsent>> /\ queue # <<>>
      /\ queue' = Tail(queue) /\ queue \in Seq(Msgs)
      /\ pc'[v] = "client" /\ hold'[v] = Head(queue)
      /\ pc'[Replay] = pc[Replay]
      /\ \A w \in Workers : w # v => pc'[w] = pc[w] /\ hold'[w] = hold[w]
  BY Labels DEF WorkerGet, GotoWith, diskVars, replayVars, redisVars, BaseInv, TypeOK
<1>2. /\ Behind(m)' <=> Behind(m)
      /\ Uniq(m, rtodo') /\ Uniq(m, stream')
      /\ FilesOnce(m)' /\ ReplayOnce(m)'
  BY <1>1, PlacesStay
<1>3. /\ In(m, queue) <=> (m = Head(queue) \/ In(m, queue'))
      /\ Uniq(m, queue') /\ (m = Head(queue) => ~In(m, queue'))
  <2>1. Uniq(m, queue)
    BY DEF Once
  <2> QED
    BY <1>1, <2>1, InTail, UniqTail
<1>4. /\ \A w \in Workers : w # v => (Holding(w, m)' <=> Holding(w, m))
      /\ Holding(v, m)' => m = Head(queue)
  BY <1>1 DEF Holding
<1>5. CASE m = Head(queue)
  <2>1. Nowhere(m) /\ m \notin unsent
    BY <1>3, <1>5 DEF Once
  <2>2. ~Behind(m)' /\ \A w \in Workers : Holding(w, m)' => w = v
    BY <1>2, <1>4, <2>1 DEF Nowhere
  <2> QED
    BY <1>1, <1>2, <1>3, <1>5, <2>1, <2>2 DEF Once
<1>6. CASE m # Head(queue)
  <2>1. \A w \in Workers : Holding(w, m)' => Holding(w, m)
    BY <1>4, <1>6
  <2> QED
    BY <1>1, <1>2, <1>3, <2>1, OnceLess
<1> QED
  BY <1>5, <1>6

LEMMA BlobsOnce ==
    ASSUME BaseInv, NEW v \in Workers, WorkerBlobs(v), NEW m \in Msgs, Once(m)
    PROVE  Once(m)'
<1>1. /\ UNCHANGED <<disk, rfile, rtodo, stream, unsent, queue>>
      /\ pc'[v] = "idle" /\ hold'[v] = NoMsg
      /\ pc'[Replay] = pc[Replay]
      /\ \A w \in Workers : w # v => pc'[w] = pc[w] /\ hold'[w] = hold[w]
  BY Labels DEF WorkerBlobs, Goto, diskVars, replayVars, BaseInv, TypeOK
<1>2. /\ Behind(m)' <=> Behind(m)
      /\ Uniq(m, rtodo') /\ Uniq(m, stream')
      /\ FilesOnce(m)' /\ ReplayOnce(m)'
  BY <1>1, PlacesStay
<1>3. \A w \in Workers : Holding(w, m)' => Holding(w, m)
  BY <1>1, Labels DEF Holding
<1>4. Uniq(m, queue)
  BY DEF Once
<1> QED
  BY <1>1, <1>2, <1>3, <1>4, OnceLess

(* A step after which the message is in no file it was not in.             *)
LEMMA FewerFiles ==
    ASSUME NEW m, Once(m), UNCHANGED <<rfile, rtodo, stream>>,
           \A f \in Files : OnFile(m, f)' => OnFile(m, f) /\ Uniq(m, disk'[f]),
           pc[Replay] = "next" => pc'[Replay] = "next"
    PROVE  /\ Behind(m)' => Behind(m)
           /\ Uniq(m, rtodo') /\ Uniq(m, stream')
           /\ FilesOnce(m)' /\ ReplayOnce(m)'
<1>1. OnDisk(m)' => OnDisk(m)
  BY DEF OnDisk, OnFile
<1>2. FilesOnce(m)'
  BY DEF Once, FilesOnce
<1>3. ReplayOnce(m)'
  BY DEF Once, ReplayOnce
<1> QED
  BY <1>1, <1>2, <1>3 DEF Behind, Once

LEMMA WriteOnce ==
    ASSUME BaseInv, NEW v \in Workers, DiskWrite(v), NEW m \in Msgs, Once(m)
    PROVE  Once(m)'
<1>1. /\ UNCHANGED <<rfile, rtodo, stream, unsent, queue>>
      /\ pc[v] = "disk" /\ pc'[v] = "idle" /\ hold'[v] = NoMsg
      /\ pc'[Replay] = pc[Replay]
      /\ \A w \in Workers : w # v => pc'[w] = pc[w] /\ hold'[w] = hold[w]
  BY Labels DEF DiskWrite, Goto, replayVars, redisVars, BaseInv, TypeOK
<1>2. /\ \A w \in Workers : Holding(w, m)' => Holding(w, m) /\ w # v
      /\ hold[v] = m => Holding(v, m)
  BY <1>1, Labels DEF Holding
<1>3. Uniq(m, queue')
  BY <1>1 DEF Once
<1>4. PICK f \in Files, q \in Seq(Entries) :
              /\ q = IF NeedsFile THEN <<>> ELSE disk[f]
              /\ NeedsFile => disk[f] = NoFile
              /\ hold[v] \in Msgs
              /\ \/ /\ disk' = [disk EXCEPT ![f] = Append(q, hold[v])]
                 \/ UNCHANGED disk
                 \/ NeedsFile /\ disk' = [disk EXCEPT ![f] = q]
  BY WriteDisk
<1>5. disk \in [Files -> Seq(Entries) \cup {NoFile}] /\ NoFile \notin Seq(Entries)
  BY DiskFacts
<1>6. /\ In(m, q) <=> OnFile(m, f)
      /\ OnFile(m, f) => q = disk[f]
  BY <1>4, <1>5, InNothing DEF OnFile
<1>7. Uniq(m, q) /\ \A g \in Files : OnFile(m, g) => Uniq(m, disk[g])
  <2>1. \A g \in Files : OnFile(m, g) => Uniq(m, disk[g])
    BY DEF Once, FilesOnce
  <2>2. ~In(m, q) => Uniq(m, q)
    BY UniqAbsent
  <2> QED
    BY <1>6, <2>1, <2>2
<1>8. CASE disk' = [disk EXCEPT ![f] = Append(q, hold[v])]
  <2>1. /\ disk'[f] = Append(q, hold[v])
        /\ \A g \in Files : g # f => disk'[g] = disk[g]
    BY <1>5, <1>8
  <2>2. hold[v] \in Entries /\ m \in Entries
    BY <1>4 DEF Entries
  <2>3. In(m, disk'[f]) <=> (In(m, q) \/ m = hold[v])
    BY <2>1, <2>2, InAppend
  <2>4. CASE m = hold[v]
    <3>1. ~Behind(m) /\ ~In(m, queue) /\ m \notin unsent
          /\ \A w \in Workers : ~Holding(w, m)'
      BY <1>2, <2>4 DEF Once, Nowhere
    <3>2. ~In(m, rtodo) /\ ~In(m, stream) /\ \A g \in Files : ~OnFile(m, g)
      BY <3>1 DEF Behind, OnDisk, OnFile
    <3>3. \A g \in Files : OnFile(m, g)' => g = f
      BY <2>1, <3>2 DEF OnFile
    <3>4. Uniq(m, disk'[f])
      BY <1>6, <1>7, <2>1, <2>2, <3>2, UniqAppend
    <3>5. FilesOnce(m)'
      BY <3>3, <3>4 DEF FilesOnce
    <3>6. ReplayOnce(m)'
      BY <1>1, <3>2 DEF ReplayOnce
    <3>7. Uniq(m, rtodo') /\ Uniq(m, stream')
      BY <1>1 DEF Once
    <3> QED
      BY <1>1, <1>3, <3>1, <3>5, <3>6, <3>7 DEF Once
  <2>5. CASE m # hold[v]
    <3>1. Uniq(m, disk'[f])
      BY <1>7, <2>1, <2>2, <2>5, UniqAppend
    <3>2. \A g \in Files : OnFile(m, g)' => OnFile(m, g) /\ Uniq(m, disk'[g])
      <4>1. ASSUME NEW g \in Files, OnFile(m, g)'
            PROVE  OnFile(m, g) /\ Uniq(m, disk'[g])
        <5>1. CASE g = f
          BY <1>6, <2>3, <2>5, <3>1, <4>1, <5>1 DEF OnFile
        <5>2. CASE g # f
          BY <1>7, <2>1, <4>1, <5>2 DEF OnFile
        <5> QED
          BY <5>1, <5>2
      <4> QED
        BY <4>1
    <3>3. /\ Behind(m)' => Behind(m)
          /\ Uniq(m, rtodo') /\ Uniq(m, stream')
          /\ FilesOnce(m)' /\ ReplayOnce(m)'
      BY <1>1, <3>2, FewerFiles
    <3> QED
      BY <1>1, <1>2, <1>3, <3>3, OnceLess
  <2> QED
    BY <2>4, <2>5
<1>9. CASE ~(disk' = [disk EXCEPT ![f] = Append(q, hold[v])])
  <2>1. UNCHANGED disk \/ (q = <<>> /\ disk' = [disk EXCEPT ![f] = q])
    BY <1>4, <1>9
  <2>2. ASSUME NEW g \in Files, OnFile(m, g)'
        PROVE  OnFile(m, g) /\ Uniq(m, disk'[g])
    <3>1. disk'[g] = disk[g] \/ disk'[g] = <<>>
      BY <1>5, <2>1
    <3>2. disk'[g] # <<>>
      BY <2>2, InNothing DEF OnFile
    <3> QED
      BY <1>7, <2>2, <3>1, <3>2 DEF OnFile
  <2>3. /\ Behind(m)' => Behind(m)
        /\ Uniq(m, rtodo') /\ Uniq(m, stream')
        /\ FilesOnce(m)' /\ ReplayOnce(m)'
    BY <1>1, <2>2, FewerFiles
  <2> QED
    BY <1>1, <1>2, <1>3, <2>3, OnceLess
<1> QED
  BY <1>8, <1>9

LEMMA PublishOnce ==
    ASSUME BaseInv, NEW t \in Threads, Publishes(t), NEW m \in Msgs, m \notin doubtful',
           Once(m)
    PROVE  Once(m)'
<1>1. /\ UNCHANGED <<unsent, queue, disk, rfile, rtodo>>
      /\ pc[t] \notin Idle /\ hold[t] \in Entries /\ stream \in Seq(Entries)
  BY PublishVars, Held DEF diskVars, replayVars, BaseInv, TypeOK
<1>2. PICK l, a : /\ Moves(t, l, IF l = "idle" THEN NoMsg ELSE hold[t], a)
                  /\ pc[t] \in {"client", "xadd", "again"}
  BY PublishMoves
<1>3. /\ pc'[t] = l /\ hold'[t] = IF l = "idle" THEN NoMsg ELSE hold[t]
      /\ \A u \in Threads : u # t => pc'[u] = pc[u] /\ hold'[u] = hold[u]
  BY <1>2 DEF Moves, BaseInv, TypeOK
<1>4. /\ \A w \in Workers : Holding(w, m)' => Holding(w, m)
      /\ pc[Replay] = "next" => t # Replay /\ pc'[Replay] = "next"
  <2>1. ASSUME NEW w \in Workers, Holding(w, m)' PROVE Holding(w, m)
    <3>1. CASE w = t
      BY <1>2, <1>3, <2>1, <3>1, Labels DEF Holding
    <3>2. CASE w # t
      BY <1>3, <2>1, <3>2, Labels DEF Holding
    <3> QED
      BY <3>1, <3>2
  <2> QED
    BY <1>2, <1>3, <2>1, Labels
<1>5. Uniq(m, queue')
  BY <1>1 DEF Once
<1>6. CASE UNCHANGED stream
  <2>1. /\ Behind(m)' <=> Behind(m)
        /\ Uniq(m, rtodo') /\ Uniq(m, stream')
        /\ FilesOnce(m)' /\ ReplayOnce(m)'
    BY <1>1, <1>4, <1>6, PlacesStay
  <2> QED
    BY <1>1, <1>4, <1>5, <2>1, OnceLess
<1>7. CASE ~UNCHANGED stream
  <2>1. /\ pc[t] = "xadd" /\ stream' = Append(stream, hold[t])
        /\ pc'[t] = AfterSuccess(t) \/ doubtful' = doubtful \cup {hold[t]}
    BY <1>7, PublishVars
  <2>2. In(m, stream') <=> (In(m, stream) \/ m = hold[t])
    BY <1>1, <2>1, InAppend
  <2>3. Uniq(m, rtodo') /\ Uniq(m, stream) /\ FilesOnce(m)'
    BY <1>1 DEF Once, FilesOnce, OnFile
  <2>4. OnDisk(m)' <=> OnDisk(m)
    BY <1>1 DEF OnDisk
  <2>5. CASE m # hold[t]
    <3>1. Uniq(m, stream')
      BY <1>1, <2>1, <2>3, <2>5, UniqAppend
    <3>2. Behind(m)' => Behind(m)
      BY <1>1, <2>2, <2>4, <2>5 DEF Behind
    <3>3. ReplayOnce(m)'
      BY <1>1, <1>4, <2>2, <2>5 DEF Once, ReplayOnce, OnFile
    <3> QED
      BY <1>1, <1>4, <1>5, <2>3, <3>1, <3>2, <3>3, OnceLess
  <2>6. CASE m = hold[t]
    <3>1. pc'[t] = AfterSuccess(t)
      BY <2>1, <2>6
    <3>2. CASE t \in Workers
      <4>1. Holding(t, m) /\ pc'[t] \in {"blobs", "idle"} /\ t # Replay
        BY <2>1, <2>6, <3>1, <3>2, Labels DEF Holding, AfterSuccess
      <4>2. ~Holding(t, m)'
        BY <1>3, <4>1, Labels DEF Holding
      <4>3. /\ ~Behind(m) /\ m \notin unsent /\ ~In(m, queue)
            /\ \A w \in Workers : ~Holding(w, m)'
        BY <1>4, <3>2, <4>1, <4>2 DEF Once, Nowhere
      <4>4. ~In(m, rtodo) /\ ~In(m, stream) /\ \A g \in Files : ~OnFile(m, g)
        BY <4>3 DEF Behind, OnDisk, OnFile
      <4>5. Uniq(m, stream')
        BY <1>1, <2>1, <2>3, <4>4, UniqAppend
      <4>6. ReplayOnce(m)'
        BY <1>1, <4>4 DEF ReplayOnce, OnFile
      <4> QED
        BY <1>1, <1>5, <2>3, <4>3, <4>5, <4>6 DEF Once
    <3>3. CASE t = Replay
      <4>1. /\ rtodo \in Seq(Entries) /\ rtodo # <<>> /\ m = Head(rtodo)
            /\ pc[Replay] = "xadd" /\ pc'[Replay] = "next"
        BY <2>1, <2>6, <3>1, <3>3, ReplayBusy DEF Idle, AfterSuccess
      <4>2. In(m, rtodo)
        BY <4>1, InTail
      <4>3. ~In(m, stream) /\ Behind(m)
        BY <4>1, <4>2 DEF Once, ReplayOnce, Behind
      <4>4. Uniq(m, stream')
        BY <1>1, <2>1, <2>3, <4>3, UniqAppend
      <4>5. ReplayOnce(m)'
        BY <1>1, <4>1, <4>2 DEF Once, ReplayOnce, OnFile
      <4> QED
        BY <1>1, <1>4, <1>5, <2>3, <4>3, <4>4, <4>5, OnceLess
    <3> QED
      BY <3>2, <3>3, Labels
  <2> QED
    BY <2>5, <2>6
<1> QED
  BY <1>6, <1>7

(* A replay pass that is cut short makes doubtful what it added.           *)
LEMMA PassCutShort ==
    ASSUME NEW m \in Msgs, m \notin doubtful', Once(m),
           UNCHANGED <<unsent, disk, stream>>, rfile' = 0, rtodo' = <<>>,
           In(m, queue') => In(m, queue), Uniq(m, queue'),
           \A w \in Workers : Holding(w, m)' => Holding(w, m),
           doubtful' = doubtful \cup Replayed
    PROVE  Once(m)'
<1>1. \A f \in Files : f # 0 /\ (OnFile(m, f)' <=> OnFile(m, f))
  BY DEF Files, OnFile
<1>2. ~In(m, rtodo') /\ Uniq(m, rtodo') /\ Uniq(m, stream')
  BY InNothing, UniqAbsent DEF Once
<1>3. FilesOnce(m)'
  BY <1>1 DEF Once, FilesOnce
<1>4. ASSUME In(m, stream), NEW f \in Files, OnFile(m, f) PROVE FALSE
  <2>1. f = rfile
    BY <1>4 DEF Once, ReplayOnce
  <2>2. m \in Replayed
    BY <1>1, <1>4, <2>1 DEF Replayed, OnFile
  <2> QED
    BY <2>2
<1>5. ReplayOnce(m)'
  BY <1>1, <1>2, <1>4 DEF ReplayOnce
<1>6. Behind(m)' => Behind(m)
  BY <1>1, <1>2 DEF Behind, OnDisk, OnFile
<1> QED
  BY <1>2, <1>3, <1>5, <1>6, OnceLess

LEMMA ReplayOnceStep ==
    ASSUME BaseInv, LossInv, NEW m \in Msgs, m \notin doubtful', Once(m),
           \/ ReplayStart \/ ReplayEmpty \/ ReplayNext
           \/ ReplayTruncate \/ ReplayRewrite \/ ReplayFault
    PROVE  Once(m)'
<1>d. /\ disk \in [Files -> Seq(Entries) \cup {NoFile}] /\ NoFile \notin Seq(Entries)
      /\ <<>> # NoFile
      /\ \A f \in Closed : f \in Files /\ disk[f] \in Seq(Entries)
  BY DiskFacts
<1>0. UNCHANGED <<unsent, queue, stream>>
  BY DEF ReplayStart, ReplayEmpty, ReplayNext, ReplayTruncate, ReplayRewrite,
     ReplayFault, redisVars
<1>w. /\ \A w \in Workers : pc'[w] = pc[w] /\ hold'[w] = hold[w]
      /\ \A l : Goto(Replay, l) => pc'[Replay] = l
      /\ \A l, h : GotoWith(Replay, l, h) => pc'[Replay] = l
  <2>1. /\ pc \in [Threads -> {"idle", "client", "xadd", "again", "blobs", "disk",
                               "next", "truncate", "rewrite", "down"}]
        /\ hold \in [Threads -> Entries \cup {NoMsg}]
        /\ Replay \in Threads /\ \A w \in Workers : w # Replay /\ w \in Threads
    BY Labels DEF BaseInv, TypeOK
  <2>2. \/ \E l : Goto(Replay, l)
        \/ \E l, h : GotoWith(Replay, l, h)
        \/ UNCHANGED <<pc, hold>>
    BY DEF ReplayStart, ReplayEmpty, ReplayNext, ReplayTruncate, ReplayRewrite,
       ReplayFault, threadVars
  <2>3. \A w \in Workers : pc'[w] = pc[w] /\ hold'[w] = hold[w]
    BY <2>1, <2>2 DEF Goto, GotoWith
  <2>4. \A l : Goto(Replay, l) => pc'[Replay] = l
    BY <2>1 DEF Goto
  <2>5. \A l, h : GotoWith(Replay, l, h) => pc'[Replay] = l
    BY <2>1 DEF GotoWith
  <2> QED
    BY <2>3, <2>4, <2>5
<1>h. \A w \in Workers : Holding(w, m)' => Holding(w, m)
  BY <1>w DEF Holding
<1>u. Uniq(m, queue') /\ Uniq(m, stream')
  BY <1>0 DEF Once
<1>f. \A f \in Files : f # 0
  BY DEF Files
<1>g. /\ \A f \in Files : OnFile(m, f) => Uniq(m, disk[f])
      /\ \A f, g \in Files : OnFile(m, f) /\ OnFile(m, g) => f = g
      /\ In(m, rtodo) \/ In(m, stream) => \A f \in Files : OnFile(m, f) => f = rfile
      /\ In(m, rtodo) /\ In(m, stream) => pc[Replay] = "next" /\ m = Head(rtodo)
      /\ Uniq(m, rtodo)
  BY DEF Once, FilesOnce, ReplayOnce
(* What each step has to show.                                             *)
<1>s. ASSUME Behind(m)' => Behind(m), Uniq(m, rtodo'), FilesOnce(m)', ReplayOnce(m)'
      PROVE  Once(m)'
  BY <1>0, <1>h, <1>s, <1>u, OnceLess
<1>1. CASE ReplayStart
  <2>1. PICK r \in Readings(disk[Oldest]) : rtodo' = r
    BY <1>1 DEF ReplayStart
  <2>2. /\ rfile' = Oldest /\ pc[Replay] = "idle" /\ UNCHANGED disk
        /\ disk[Oldest] # <<>> /\ Closed # {}
    BY <1>1, <2>1 DEF ReplayStart, ReplayMayStart, diskVars
  <2>3. Oldest \in Files /\ disk[Oldest] \in Seq(Entries)
    BY <1>d, <2>2, OldestIsClosed
  <2>4. /\ In(m, r) => OnFile(m, Oldest)
        /\ Uniq(m, disk[Oldest]) => Uniq(m, r)
    BY <1>d, <2>1, <2>2, <2>3, ReadingOf DEF OnFile
  <2>5. Uniq(m, disk[Oldest])
    <3>1. CASE In(m, disk[Oldest])
      BY <1>d, <1>g, <2>3, <3>1 DEF OnFile
    <3> QED
      BY <3>1, UniqAbsent
  <2>6. rfile = 0 /\ rtodo = <<>>
    BY <2>2 DEF BaseInv, FileInv, Idle
  <2>7. \A f \in Files : OnFile(m, f)' <=> OnFile(m, f)
    BY <2>2 DEF OnFile
  <2>8. In(m, stream) => \A f \in Files : ~OnFile(m, f)
    BY <1>f, <1>g, <2>6
  <2>9. FilesOnce(m)'
    BY <1>g, <2>2, <2>7 DEF FilesOnce
  <2>10. ReplayOnce(m)'
    BY <1>0, <1>g, <2>1, <2>2, <2>3, <2>4, <2>7, <2>8 DEF ReplayOnce
  <2>11. Behind(m)' => Behind(m)
    BY <1>0, <2>1, <2>3, <2>4, <2>7 DEF Behind, OnDisk, OnFile
  <2> QED
    BY <1>s, <2>1, <2>4, <2>5, <2>9, <2>10, <2>11
<1>2. CASE ReplayEmpty
  <2>1. /\ disk' = [disk EXCEPT ![Oldest] = NoFile]
        /\ UNCHANGED <<pc, rfile, rtodo>>
    BY <1>2 DEF ReplayEmpty, threadVars, replayVars
  <2>2. \A f \in Files : OnFile(m, f)' => OnFile(m, f) /\ disk'[f] = disk[f]
    BY <1>d, <2>1 DEF OnFile
  <2>3. /\ Behind(m)' => Behind(m)
        /\ Uniq(m, rtodo') /\ FilesOnce(m)' /\ ReplayOnce(m)'
    BY <1>0, <1>g, <2>1, <2>2, FewerFiles
  <2> QED
    BY <1>s, <2>3
<1>3. CASE ReplayNext
  <2>1. /\ pc[Replay] = "next" /\ rtodo' = Tail(rtodo)
    BY <1>3 DEF ReplayNext
  <2>2. /\ rfile \in Files /\ rtodo \in Seq(Entries) /\ rtodo # <<>>
        /\ hold[Replay] = Head(rtodo)
    BY <2>1, ReplayBusy DEF Idle
  <2>3. /\ In(m, rtodo) <=> (m = Head(rtodo) \/ In(m, rtodo'))
        /\ Uniq(m, rtodo') /\ (m = Head(rtodo) => ~In(m, rtodo'))
    BY <1>g, <2>1, <2>2, InTail, UniqTail
  <2>4. ~(In(m, rtodo') /\ In(m, stream'))
    BY <1>0, <1>g, <2>3
  <2>5. CASE Tail(rtodo) # <<>>
    <3>1. UNCHANGED <<disk, rfile>>
      BY <1>3, <2>1, <2>5 DEF ReplayNext
    <3>2. \A f \in Files : OnFile(m, f)' <=> OnFile(m, f)
      BY <3>1 DEF OnFile
    <3>3. FilesOnce(m)'
      BY <1>g, <3>1, <3>2 DEF FilesOnce
    <3>4. ReplayOnce(m)'
      BY <1>0, <1>g, <2>3, <2>4, <3>1, <3>2 DEF ReplayOnce
    <3>5. Behind(m)' => Behind(m)
      BY <1>0, <2>3, <3>2 DEF Behind, OnDisk, OnFile
    <3> QED
      BY <1>s, <2>3, <3>3, <3>4, <3>5
  <2>6. CASE Tail(rtodo) = <<>>
    <3>1. disk' = [disk EXCEPT ![rfile] = NoFile] /\ rfile' = 0
      BY <1>3, <2>1, <2>6 DEF ReplayNext
    <3>2. \A f \in Files : OnFile(m, f)' => OnFile(m, f) /\ disk'[f] = disk[f] /\ f # rfile
      BY <1>d, <2>2, <3>1 DEF OnFile
    <3>3. FilesOnce(m)'
      BY <1>g, <3>2 DEF FilesOnce
    <3>4. ~In(m, rtodo')
      BY <2>1, <2>6, InNothing
    <3>5. ReplayOnce(m)'
      BY <1>0, <1>g, <3>2, <3>4 DEF ReplayOnce
    <3>6. Behind(m)' => Behind(m)
      BY <1>0, <3>2, <3>4 DEF Behind, OnDisk, OnFile
    <3> QED
      BY <1>s, <2>3, <3>3, <3>5, <3>6
  <2> QED
    BY <2>5, <2>6
<1>4. CASE ReplayTruncate
  <2>1. /\ pc[Replay] = "truncate" /\ disk' = [disk EXCEPT ![rfile] = <<>>]
        /\ rtodo' = <<Head(rtodo)>> /\ rfile' = rfile
    BY <1>4 DEF ReplayTruncate, Remaining
  <2>2. /\ rfile \in Files /\ rtodo \in Seq(Entries) /\ rtodo # <<>>
    BY <2>1, ReplayBusy DEF Idle
  <2>3. In(m, rtodo') => In(m, rtodo)
    <3>1. In(m, rtodo') => m = Head(rtodo)
      BY <2>1 DEF In
    <3> QED
      BY <2>2, <3>1, InTail
  <2>4. \A f \in Files : OnFile(m, f)' => OnFile(m, f) /\ disk'[f] = disk[f] /\ f # rfile
    <3>1. ASSUME NEW f \in Files, OnFile(m, f)' PROVE f # rfile
      <4>1. disk'[rfile] = <<>>
        BY <1>d, <2>1, <2>2
      <4> QED
        BY <3>1, <4>1, InNothing DEF OnFile
    <3> QED
      BY <1>d, <2>1, <3>1 DEF OnFile
  <2>5. Uniq(m, rtodo')
    BY <2>1 DEF Uniq
  <2>6. FilesOnce(m)'
    BY <1>g, <2>4 DEF FilesOnce
  <2>7. ReplayOnce(m)'
    BY <1>0, <1>g, <2>1, <2>3, <2>4 DEF ReplayOnce
  <2>8. Behind(m)' => Behind(m)
    BY <1>0, <2>3, <2>4 DEF Behind, OnDisk, OnFile
  <2> QED
    BY <1>s, <2>5, <2>6, <2>7, <2>8
<1>5. CASE ReplayRewrite
  <2>1. /\ pc[Replay] = "rewrite" /\ disk' = [disk EXCEPT ![rfile] = rtodo]
        /\ rfile' = 0 /\ rtodo' = <<>>
    BY <1>5 DEF ReplayRewrite
  <2>2. /\ rfile \in Files /\ rtodo \in Seq(Entries)
    BY <2>1, ReplayBusy DEF Idle
  <2>3. disk'[rfile] = rtodo /\ \A f \in Files : f # rfile => disk'[f] = disk[f]
    BY <1>d, <2>1, <2>2
  <2>4. \A f \in Files : OnFile(m, f)' => IF f = rfile THEN In(m, rtodo) ELSE OnFile(m, f)
    BY <2>3 DEF OnFile
  <2>5. ~In(m, rtodo') /\ Uniq(m, rtodo')
    BY <2>1, InNothing, UniqAbsent
  <2>6. FilesOnce(m)'
    <3>1. ASSUME NEW f \in Files, OnFile(m, f)' PROVE Uniq(m, disk'[f])
      BY <1>g, <2>3, <2>4, <3>1
    <3>2. ASSUME NEW f \in Files, NEW g \in Files, OnFile(m, f)', OnFile(m, g)'
          PROVE  f = g
      BY <1>g, <2>4, <3>2
    <3> QED
      BY <3>1, <3>2 DEF FilesOnce
  <2>7. ReplayOnce(m)'
    <3>1. ASSUME In(m, stream), NEW f \in Files, OnFile(m, f)' PROVE FALSE
      <4>1. ~In(m, rtodo)
        BY <1>g, <2>1, <3>1
      <4> QED
        BY <1>g, <2>4, <3>1, <4>1
    <3> QED
      BY <1>0, <2>5, <3>1 DEF ReplayOnce
  <2>8. Behind(m)' => Behind(m)
    BY <1>0, <2>2, <2>4, <2>5 DEF Behind, OnDisk, OnFile
  <2> QED
    BY <1>s, <2>5, <2>6, <2>7, <2>8
<1>6. CASE ReplayFault
  <2>1. /\ rfile' = 0 /\ rtodo' = <<>> /\ UNCHANGED disk
        /\ doubtful' = doubtful \cup Replayed
    BY <1>6 DEF ReplayFault
  <2>2. Once(m)'
    BY <1>0, <1>h, <1>u, <2>1, PassCutShort
  <2> QED
    BY <2>2
<1> QED
  BY <1>1, <1>2, <1>3, <1>4, <1>5, <1>6

LEMMA PruneOnce ==
    ASSUME BaseInv, NEW g \in Files, Prune(g), NEW m \in Msgs, Once(m)
    PROVE  Once(m)'
<1>1. /\ disk' = [disk EXCEPT ![g] = NoFile]
      /\ UNCHANGED <<unsent, queue, pc, hold, rfile, rtodo, stream>>
  BY DEF Prune, threadVars, replayVars, redisVars
<1>2. \A f \in Files : disk'[f] = NoFile \/ disk'[f] = disk[f]
  BY <1>1, DiskFacts
<1>3. \A f \in Files : OnFile(m, f)' => OnFile(m, f) /\ Uniq(m, disk'[f])
  BY <1>2 DEF OnFile, Once, FilesOnce
<1>4. /\ Behind(m)' => Behind(m)
      /\ Uniq(m, rtodo') /\ Uniq(m, stream')
      /\ FilesOnce(m)' /\ ReplayOnce(m)'
  BY <1>1, <1>3, FewerFiles
<1>5. Uniq(m, queue') /\ \A w \in Workers : Holding(w, m)' => Holding(w, m)
  BY <1>1 DEF Once, Holding
<1> QED
  BY <1>1, <1>4, <1>5, OnceLess

LEMMA CrashOnce ==
    ASSUME BaseInv, Crash, NEW m \in Msgs, m \notin doubtful', Once(m)
    PROVE  Once(m)'
<1>1. /\ UNCHANGED <<unsent, disk, stream>> /\ rfile' = 0 /\ rtodo' = <<>>
      /\ queue' = <<>> /\ doubtful' = doubtful \cup Replayed
      /\ hold' = [t \in Threads |-> NoMsg]
  BY DEF Crash, diskVars, redisVars
<1>2. ~In(m, queue') /\ Uniq(m, queue')
  BY <1>1, InNothing, UniqAbsent
<1>3. \A w \in Workers : ~Holding(w, m)'
  BY <1>1, Labels DEF Holding
<1> QED
  BY <1>1, <1>2, <1>3, PassCutShort

LEMMA RestartOnce ==
    ASSUME BaseInv, Restart, NEW m \in Msgs, Once(m)
    PROVE  Once(m)'
<1>1. /\ pc[Replay] = "down"
      /\ disk' = [disk EXCEPT ![nfiles + 1] = <<>>]
      /\ UNCHANGED <<unsent, queue, hold, rfile, rtodo, stream>>
  BY DEF Restart, Running, replayVars
<1>2. \A f \in Files : disk'[f] = <<>> \/ disk'[f] = disk[f]
  BY <1>1, DiskFacts
<1>3. \A f \in Files : OnFile(m, f)' => OnFile(m, f) /\ Uniq(m, disk'[f])
  <2>1. ASSUME NEW f \in Files, OnFile(m, f)' PROVE disk'[f] # <<>>
    BY <2>1, InNothing DEF OnFile
  <2> QED
    BY <1>2, <2>1 DEF OnFile, Once, FilesOnce
<1>4. /\ Behind(m)' => Behind(m)
      /\ Uniq(m, rtodo') /\ Uniq(m, stream')
      /\ FilesOnce(m)' /\ ReplayOnce(m)'
  BY <1>1, <1>3, FewerFiles
<1>5. \A w \in Workers : hold[w] = NoMsg
  BY <1>1, Labels DEF BaseInv, ThreadInv, Fit, Idle
<1>6. Uniq(m, queue') /\ \A w \in Workers : ~Holding(w, m)'
  BY <1>1, <1>5, Labels DEF Once, Holding
<1> QED
  BY <1>1, <1>4, <1>6, OnceLess

LEMMA OnceStep == BaseInv /\ LossInv /\ OnceInv /\ [Next]_vars => OnceInv'
<1> SUFFICES ASSUME BaseInv, LossInv, OnceInv, [Next]_vars,
                    NEW m \in Msgs, m \notin doubtful'
             PROVE  Once(m)'
  BY DEF OnceInv
<1>0. Once(m)
  BY HistoryGrows DEF OnceInv
<1>1. CASE \E n \in Msgs : Receive(n)
  BY <1>0, <1>1, ReceiveOnce
<1>2. ASSUME NEW w \in Workers, WorkerStep(w) PROVE Once(m)'
  BY <1>0, <1>2, PublishOnce, GetOnce, BlobsOnce, WriteOnce, Labels DEF WorkerStep, Publishes
<1>3. CASE ReplayStep
  BY <1>0, <1>3, PublishOnce, ReplayOnceStep, Labels DEF ReplayStep, Publishes
<1>4. CASE \E f \in Files : Prune(f)
  BY <1>0, <1>4, PruneOnce
<1>5. CASE Crash \/ Restart
  BY <1>0, <1>5, CrashOnce, RestartOnce
<1>6. CASE \/ HealthCheckFails \/ BackoffElapses \/ RedisGoes \/ RedisReturns
           \/ Stop \/ CloseBuffer \/ UNCHANGED vars
  <2>1. UNCHANGED <<pc, hold, disk, rfile, rtodo, unsent, queue, stream>>
    BY <1>6 DEF HealthCheckFails, BackoffElapses, RedisGoes, RedisReturns, Stop,
       CloseBuffer, vars, threadVars, diskVars, replayVars, redisVars
  <2>2. /\ Behind(m)' <=> Behind(m)
        /\ Uniq(m, rtodo') /\ Uniq(m, stream')
        /\ FilesOnce(m)' /\ ReplayOnce(m)'
    BY <1>0, <2>1, PlacesStay
  <2>3. Uniq(m, queue') /\ \A w \in Workers : Holding(w, m)' => Holding(w, m)
    BY <1>0, <2>1 DEF Once, Holding
  <2> QED
    BY <1>0, <2>1, <2>2, <2>3, OnceLess
<1> QED
  BY <1>1, <1>2, <1>3, <1>4, <1>5, <1>6 DEF Next

LEMMA InitOnce == Init => OnceInv
<1> SUFFICES ASSUME Init, NEW m \in Msgs PROVE Once(m)
  BY DEF OnceInv
<1>1. queue = <<>> /\ rtodo = <<>> /\ stream = <<>>
  BY DEF Init
<1>2. ~In(m, <<>>) /\ Uniq(m, <<>>)
  BY InNothing, UniqAbsent
<1>3. \A f \in Files : ~OnFile(m, f)
  BY <1>2 DEF Init, OnFile
<1>4. \A w \in Workers : ~Holding(w, m)
  BY Labels DEF Init, Holding
<1>5. ~Behind(m)
  BY <1>1, <1>2, <1>3 DEF Behind, OnDisk, OnFile
<1>6. FilesOnce(m) /\ ReplayOnce(m)
  BY <1>1, <1>2, <1>3 DEF FilesOnce, ReplayOnce
<1> QED
  BY <1>1, <1>2, <1>4, <1>5, <1>6 DEF Once, Nowhere

(* A message is in Redis twice only when the reply to an earlier addition  *)
(* was lost, or the replay pass that added it was cut short: outages,      *)
(* retries, rotations, restarts and the replay itself never duplicate one. *)
THEOREM NoOtherDuplicates == Spec => []DuplicatesExplained
<1>1. BaseInv /\ OnceInv => DuplicatesExplained
  BY DEF OnceInv, Once, Uniq, DuplicatesExplained
<1>2. Spec => [](BaseInv /\ LossInv /\ OnceInv)
  <2>1. Init => LossInv
    BY Labels, InNothing DEF Init, LossInv, Kept, ReplayOwes, PlainTodo
  <2> QED
    BY <2>1, InitBase, InitOnce, BaseStep, LossStep, OnceStep, PTL DEF Spec
<1> QED
  BY <1>1, <1>2, PTL

=============================================================================
