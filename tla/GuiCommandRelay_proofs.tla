------------------------ MODULE GuiCommandRelay_proofs ------------------------
(* Proofs about GuiCommandRelay for any targets, kinds, process ids, sizes *)
(* of a read and bounds.  The layers, each inductive under the ones before *)
(* it: the types with the position of the consumer in its batch, the order *)
(* of what was forwarded, what may be acknowledged, and the state of the   *)
(* recorder, which needs induction on the commands read.                   *)
EXTENDS GuiCommandRelay, FiniteSetTheorems, SequenceTheorems,
        SetInduction, TLAPS

-----------------------------------------------------------------------------
(* The types, and where the consumer is.  A batch is the end of what its   *)
(* group has delivered, so its length says how far the consumer has come.  *)

Passed(p) == IF p = pid THEN cursor[p] - Len(batch) ELSE cursor[p]

PlaceInv ==
    /\ Len(stream) <= MaxCmds
    /\ \A p \in Pids : cursor[p] <= Len(stream)
    /\ pid = NoPid <=> pc = "down"
    /\ pc # "handle" => batch = <<>>
    /\ pc # "handle" => acks = {}
    /\ pid \in Pids => Len(batch) <= cursor[pid]
    /\ \A i \in 1 .. Len(batch) : batch[i] = cursor[pid] - Len(batch) + i

BaseInv == TypeOK /\ PlaceInv

(* What the first layer says of the sequences and the counters.            *)
LEMMA Places ==
    ASSUME BaseInv
    PROVE  /\ stream \in Seq(Kinds) /\ Len(stream) \in Nat
           /\ batch \in Seq(Ids) /\ Len(batch) \in Nat /\ MaxCmds \in Nat
           /\ cursor \in [Pids -> 0 .. MaxCmds] /\ NoPid \notin Pids
           /\ pid \in Pids \cup {NoPid}
           /\ \A p \in Pids : Passed(p) \in Nat /\ Passed(p) <= cursor[p]
                              /\ cursor[p] \in Nat
           /\ pc # "down" => pid \in Pids
<1>1. /\ stream \in Seq(Kinds) /\ batch \in Seq(Ids) /\ MaxCmds \in Nat
      /\ cursor \in [Pids -> 0 .. MaxCmds] /\ pid \in Pids \cup {NoPid}
      /\ NoPid \notin Pids
  BY RelayAssumption DEF BaseInv, TypeOK
<1>2. Len(stream) \in Nat /\ Len(batch) \in Nat
  BY <1>1, LenProperties
<1>3. pc # "down" => pid \in Pids
  BY <1>1 DEF BaseInv, PlaceInv
<1>4. ASSUME NEW p \in Pids PROVE cursor[p] \in Nat
  BY <1>1
<1>5. ASSUME NEW p \in Pids PROVE Passed(p) \in Nat /\ Passed(p) <= cursor[p]
  BY <1>1, <1>2, <1>4 DEF Passed, BaseInv, PlaceInv
<1> QED
  BY <1>1, <1>2, <1>3, <1>4, <1>5

(* The message being handled is the next one of the stream.                *)
LEMMA HeadOfBatch ==
    ASSUME BaseInv, batch # <<>>
    PROVE  /\ pid \in Pids /\ Head(batch) = Passed(pid) + 1
           /\ Head(batch) \in 1 .. Len(stream) /\ Head(batch) \in Ids
           /\ Tail(batch) \in Seq(Ids) /\ Len(Tail(batch)) = Len(batch) - 1
           /\ \A i \in 1 .. Len(Tail(batch)) :
                 Tail(batch)[i] = cursor[pid] - Len(Tail(batch)) + i
<1>1. Len(batch) \in Nat /\ Len(batch) >= 1
  BY Places, EmptySeq
<1>2. Head(batch) = batch[1] /\ batch[1] = cursor[pid] - Len(batch) + 1
  BY <1>1 DEF BaseInv, PlaceInv
<1>3. pid \in Pids
  BY Places DEF BaseInv, PlaceInv
<1>4. /\ Len(batch) <= cursor[pid] /\ cursor[pid] <= Len(stream)
      /\ Len(stream) <= MaxCmds /\ cursor[pid] \in Nat
  BY <1>3, Places DEF BaseInv, PlaceInv
<1>5. Head(batch) = Passed(pid) + 1 /\ Head(batch) \in 1 .. Len(stream)
      /\ Head(batch) \in Ids
  BY <1>1, <1>2, <1>4, Places DEF Passed, Ids
<1>6. /\ Tail(batch) \in Seq(Ids) /\ Len(Tail(batch)) = Len(batch) - 1
      /\ \A i \in 1 .. Len(Tail(batch)) : Tail(batch)[i] = batch[i + 1]
  BY Places, HeadTailProperties
<1>7. ASSUME NEW i \in 1 .. Len(Tail(batch))
      PROVE  Tail(batch)[i] = cursor[pid] - Len(Tail(batch)) + i
  <2>1. i + 1 \in 1 .. Len(batch)
    BY <1>1, <1>6
  <2>2. batch[i + 1] = cursor[pid] - Len(batch) + (i + 1)
    BY <2>1 DEF BaseInv, PlaceInv
  <2> QED
    BY SMTT(30), <1>1, <1>4, <1>6, <2>2
<1> QED
  BY <1>3, <1>5, <1>6, <1>7

LEMMA HeadPassed ==
    ASSUME BaseInv, batch # <<>>, Handled, UNCHANGED <<cursor, pid>>
    PROVE  pid \in Pids /\ Head(batch) = Passed(pid) + 1 /\ Passed(pid)' = Head(batch)
<1>1. /\ pid \in Pids /\ Head(batch) = Passed(pid) + 1 /\ cursor[pid] \in Nat
      /\ Len(batch') = Len(batch) - 1 /\ Len(batch) \in Nat
  BY HeadOfBatch, Places DEF Handled
<1>2. Passed(pid) = cursor[pid] - Len(batch) /\ Passed(pid)' = cursor[pid] - Len(batch')
  BY DEF Passed
<1> QED
  BY <1>1, <1>2

LEMMA InitBase == Init => BaseInv
<1> SUFFICES ASSUME Init PROVE BaseInv
  OBVIOUS
<1>1. /\ <<>> \in Seq(Kinds) /\ <<>> \in Seq(Ids) /\ Len(<<>>) = 0
  BY EmptySeq
<1>2. TypeOK
  <2>1. cursor \in [Pids -> 0 .. MaxCmds] /\ pending \in [Pids -> SUBSET Ids]
    BY RelayAssumption DEF Init
  <2>2. /\ sent \in [Pids -> Seq(Ids)] /\ decided \in [Pids -> SUBSET Ids]
        /\ refused \in [Pids -> SUBSET (Ids \X Ids)] /\ missed \in [Pids -> SUBSET Ids]
    BY <1>1 DEF Init
  <2>3. lives \in Nat /\ losses \in Nat /\ faults \in Nat
    BY DEF Init
  <2>4. socket \in [Targets -> {"none", "open", "closed"}]
    BY DEF Init
  <2> QED
    BY <1>1, <2>1, <2>2, <2>3, <2>4 DEF Init, TypeOK
<1>3. PlaceInv
  <2>1. /\ Len(stream) = 0 /\ Len(batch) = 0 /\ batch = <<>> /\ acks = {}
        /\ pid = NoPid /\ pc = "down" /\ NoPid \notin Pids
        /\ \A p \in Pids : cursor[p] = 0
        /\ MaxCmds \in Nat
    BY <1>1, RelayAssumption DEF Init
  <2> QED
    BY <2>1 DEF PlaceInv
<1> QED
  BY <1>2, <1>3 DEF BaseInv

(* A read delivers what follows the cursor.                                *)
LEMMA Reads ==
    ASSUME BaseInv, pid \in Pids, FirstUnread <= Upto
    PROVE  /\ Upto \in cursor[pid] + 1 .. Len(stream) /\ Upto \in 0 .. MaxCmds
           /\ FirstUnread .. Upto \subseteq Ids
           /\ Delivered \in Seq(Ids) /\ Len(Delivered) = Upto - cursor[pid]
           /\ \A i \in 1 .. Len(Delivered) : Delivered[i] = Upto - Len(Delivered) + i
<1>1. /\ cursor[pid] \in Nat /\ Len(stream) \in Nat /\ MaxBatch \in Nat
      /\ cursor[pid] <= Len(stream) /\ Len(stream) <= MaxCmds /\ MaxCmds \in Nat
  BY Places, RelayAssumption DEF BaseInv, PlaceInv
<1>2. Upto \in cursor[pid] + 1 .. Len(stream) /\ Upto \in 0 .. MaxCmds
  BY <1>1 DEF Upto, FirstUnread
<1>3. FirstUnread .. Upto \subseteq Ids
  BY <1>1, <1>2 DEF FirstUnread, Ids
<1>4. Delivered \in Seq(Ids) /\ Len(Delivered) = Upto - cursor[pid]
  <2> DEFINE n == Upto - cursor[pid]
  <2>1. n \in Nat /\ Upto + 1 - FirstUnread = n
    BY <1>1, <1>2 DEF FirstUnread
  <2>2. \A i \in 1 .. n : FirstUnread + i - 1 \in Ids
    BY <1>1, <1>2 DEF FirstUnread, Ids
  <2>3. Delivered \in [1 .. n -> Ids] /\ DOMAIN Delivered = 1 .. n
    BY <2>1, <2>2 DEF Delivered
  <2> HIDE DEF n
  <2>4. Delivered \in Seq(Ids)
    BY <2>1, <2>3, SeqDef
  <2> QED
    BY <2>1, <2>3, <2>4, LenProperties DEF n
<1>5. ASSUME NEW i \in 1 .. Len(Delivered)
      PROVE  Delivered[i] = Upto - Len(Delivered) + i
  <2>1. i \in 1 .. Upto + 1 - FirstUnread
    BY <1>1, <1>2, <1>4 DEF FirstUnread
  <2>2. Delivered[i] = FirstUnread + i - 1
    BY <2>1 DEF Delivered
  <2> QED
    BY <1>1, <1>2, <1>4, <2>2 DEF FirstUnread
<1> QED
  BY <1>2, <1>3, <1>4, <1>5

(* Of what a start may find missing there are finitely many.               *)
LEMMA MissingIsFinite ==
    ASSUME NEW missing \in SUBSET (Targets \cup {"recorder", "file"})
    PROVE  Cardinality(missing) \in Nat
<1>1. IsFiniteSet({"recorder"}) /\ IsFiniteSet({"file"})
  BY FS_Singleton
<1>2. IsFiniteSet({"recorder"} \cup {"file"})
  BY <1>1, FS_Union
<1>3. IsFiniteSet(Targets \cup ({"recorder"} \cup {"file"}))
  BY <1>2, RelayAssumption, FS_Union
<1>4. missing \subseteq Targets \cup ({"recorder"} \cup {"file"})
  OBVIOUS
<1>5. IsFiniteSet(missing)
  BY <1>3, <1>4, FS_Subset
<1> QED
  BY <1>5, FS_CardinalityType

(* A command to the recorder leaves it and its counters typed.             *)
LEMMA RecorderTypes ==
    ASSUME BaseInv, NEW k, RunOnRecorder(k)
    PROVE  /\ recorder' \in {"none", "off", "on"} /\ faults' \in Nat
           /\ misfired' \in BOOLEAN
<1>1. recorder \in {"none", "off", "on"} /\ faults \in Nat /\ misfired \in BOOLEAN
  BY DEF BaseInv, TypeOK
<1>2. StartSession \/ StopSession \/ UNCHANGED recorderVars
  BY DEF RunOnRecorder
<1>3. recorder' \in {"none", "off", "on"}
  BY <1>1, <1>2 DEF StartSession, StopSession, recorderVars
<1>4. faults' = faults + 1 \/ faults' = faults
  BY <1>2 DEF StartSession, StopSession, recorderVars
<1>5. misfired' \in BOOLEAN
  BY <1>1, <1>2 DEF StartSession, StopSession, recorderVars
<1> QED
  BY <1>1, <1>3, <1>4, <1>5

(* Every step of the GUIs, of Redis, of the process and of its consumer    *)
(* keeps the types and the consumer's place.                               *)
LEMMA BaseStep == BaseInv /\ [Next]_vars => BaseInv'
<1> SUFFICES ASSUME BaseInv, [Next]_vars PROVE BaseInv'
  OBVIOUS
<1>0. /\ stream \in Seq(Kinds) /\ Len(stream) \in Nat /\ Len(batch) \in Nat
      /\ cursor \in [Pids -> 0 .. MaxCmds] /\ NoPid \notin Pids /\ MaxCmds \in Nat
      /\ \A p \in Pids : cursor[p] \in Nat
      /\ (pc # "down" => pid \in Pids)
      /\ <<>> \in Seq(Ids) /\ Len(<<>>) = 0
  BY Places, EmptySeq
<1> USE DEF BaseInv, TypeOK, PlaceInv, redisVars, loopVars, recorderVars,
            processVars, historyVars, leftVars, Running
<1>1. ASSUME NEW k \in Kinds, GuiAppend(k) PROVE BaseInv'
  <2>1. stream' \in Seq(Kinds) /\ Len(stream') = Len(stream) + 1
    BY <1>0, <1>1, AppendProperties DEF GuiAppend
  <2>2. \A p \in Pids : cursor[p] <= Len(stream')
    BY <1>0, <2>1
  <2> QED
    BY <1>0, <1>1, <2>1, <2>2 DEF GuiAppend
<1>2. CASE RedisGoes
  <2>1. losses \in Nat /\ losses' = losses + 1
    BY <1>2 DEF RedisGoes
  <2>2. losses' \in Nat
    BY <2>1
  <2>3. up' \in BOOLEAN
    BY <1>2 DEF RedisGoes
  <2> QED
    BY <1>2, <2>2, <2>3 DEF RedisGoes
<1>3. CASE RedisReturns
  BY <1>3 DEF RedisReturns
<1>4. ASSUME NEW p \in Pids, Launch(p) PROVE BaseInv'
  <2>0. PICK missing \in SUBSET (Targets \cup {"recorder", "file"}) :
            /\ faults + Cardinality(missing) <= MaxFaults
            /\ faults' = faults + Cardinality(missing)
            /\ socket' = [t \in Targets |->
                          IF t \in missing THEN "none" ELSE "open"]
            /\ recorder' = IF "recorder" \in missing THEN "none"
                           ELSE IF "file" \in missing THEN "off" ELSE "on"
            /\ misfired' = ("file" \in missing)
    BY <1>4 DEF Launch
  <2>1. Cardinality(missing) \in Nat
    BY <2>0, MissingIsFinite
  <2>2. faults' \in Nat /\ socket' \in [Targets -> {"none", "open", "closed"}]
        /\ recorder' \in {"none", "off", "on"}
    BY <2>0, <2>1
  <2>3. misfired' \in BOOLEAN
    BY <2>0
  <2>4. /\ UNCHANGED <<stream, made, cursor, pending, up, losses, batch, acks, sent, decided, leftVars>>
        /\ lives' = lives + 1 /\ pid' = p /\ pc' = "top" /\ stopping' = FALSE
        /\ fresh' = FALSE /\ batch = <<>> /\ acks = {}
    BY <1>4 DEF Launch
  <2>5. lives' \in Nat
    BY <2>4
  <2>6. PlaceInv'
    BY <1>0, <2>4
  <2> QED
    BY <2>2, <2>3, <2>4, <2>5, <2>6
<1>5. CASE StopRequest
  BY <1>5 DEF StopRequest
<1>6. CASE StopRecorder
  BY <1>6 DEF StopRecorder, StopSession
<1>7. CASE ProcessEnds
  <2>1. TypeOK'
    BY <1>0, <1>7 DEF ProcessEnds
  <2>2. PlaceInv'
    BY <1>0, <1>7 DEF ProcessEnds
  <2> QED
    BY <2>1, <2>2
<1>8. ASSUME NEW t \in Targets, CloseSocket(t) PROVE BaseInv'
  BY <1>8 DEF CloseSocket
<1>9. CASE LeaveLoop
  BY <1>9 DEF LeaveLoop
<1>10. CASE EnsureGroup
  BY <1>0, <1>10 DEF EnsureGroup
<1>11. ASSUME Read \/ ReadReplyLost PROVE BaseInv'
  <2>0. /\ pid \in Pids /\ FirstUnread <= Upto
        /\ cursor' = [cursor EXCEPT ![pid] = Upto]
        /\ pending' = [pending EXCEPT ![pid] = @ \cup FirstUnread .. Upto]
        /\ UNCHANGED <<stream, made, pid, stopping, acks>>
        /\ pc = "read" /\ batch = <<>> /\ acks = {}
    BY <1>0, <1>11 DEF Read, ReadReplyLost
  <2>1. /\ Upto \in cursor[pid] + 1 .. Len(stream) /\ Upto \in 0 .. MaxCmds
        /\ FirstUnread .. Upto \subseteq Ids
        /\ Delivered \in Seq(Ids) /\ Len(Delivered) = Upto - cursor[pid]
        /\ \A i \in 1 .. Len(Delivered) : Delivered[i] = Upto - Len(Delivered) + i
    BY <2>0, Reads
  <2>2. /\ cursor' \in [Pids -> 0 .. MaxCmds] /\ pending' \in [Pids -> SUBSET Ids]
        /\ cursor'[pid] = Upto
        /\ \A p \in Pids : cursor'[p] <= Len(stream)
    BY <1>0, <2>0, <2>1
  <2>3. CASE Read
    <3>1. batch' = Delivered /\ pc' = "handle" /\ UNCHANGED <<up, losses, socket, recorderVars, lives, historyVars>>
      BY <2>3 DEF Read
    <3>2. TypeOK'
      BY <2>0, <2>1, <2>2, <3>1
    <3>3. /\ pid' = pid /\ pid # NoPid /\ stream' = stream
          /\ Len(batch') = Upto - cursor[pid] /\ Len(batch') <= cursor'[pid]
          /\ \A i \in 1 .. Len(batch') : batch'[i] = cursor'[pid] - Len(batch') + i
      <4>1. /\ pid' = pid /\ pid # NoPid /\ stream' = stream /\ batch' = Delivered
            /\ cursor'[pid] = Upto /\ Len(batch') = Upto - cursor[pid]
            /\ cursor[pid] \in Nat /\ Upto \in Nat
        BY <1>0, <2>0, <2>1, <2>2, <3>1
      <4>2. \A i \in 1 .. Len(batch') : batch'[i] = Upto - Len(batch') + i
        BY <2>1, <4>1
      <4> HIDE DEF BaseInv, TypeOK, PlaceInv
      <4> QED
        BY <4>1, <4>2
    <3>4. PlaceInv'
      BY <2>2, <3>1, <3>3
    <3> QED
      BY <3>2, <3>4
  <2>4. CASE ReadReplyLost
    <3>1. batch' = batch /\ pc' = "top" /\ losses' \in Nat /\ up' \in BOOLEAN
          /\ UNCHANGED <<socket, recorderVars, lives, sent, decided, fresh, refused>>
          /\ missed' = [missed EXCEPT ![pid] = @ \cup FirstUnread .. Upto]
      BY <2>4 DEF ReadReplyLost
    <3>2. TypeOK'
      BY <2>0, <2>2, <3>1
    <3>3. PlaceInv'
      BY <1>0, <2>0, <2>1, <2>2, <3>1
    <3> QED
      BY <3>2, <3>3
  <2> QED
    BY <1>11, <2>3, <2>4
<1>12. CASE ReadNothing
  BY <1>0, <1>12 DEF ReadNothing
(* Whatever is done with a message, the consumer moves to the next one.    *)
<1>h. ASSUME batch # <<>>, pc = "handle", Handled
      PROVE  /\ batch' \in Seq(Ids) /\ acks' \subseteq Ids
             /\ UNCHANGED <<stream, cursor, pid, pc>> => PlaceInv'
  <2>1. /\ pid \in Pids /\ Head(batch) \in Ids
        /\ batch' \in Seq(Ids) /\ Len(batch') = Len(batch) - 1
        /\ \A i \in 1 .. Len(batch') : batch'[i] = cursor[pid] - Len(batch') + i
    BY <1>h, HeadOfBatch DEF Handled
  <2>2. ASSUME UNCHANGED <<stream, cursor, pid, pc>> PROVE PlaceInv'
    <3>1. Len(batch') <= cursor'[pid']
      BY <1>0, <2>1, <2>2
    <3> QED
      BY <1>h, <2>1, <2>2, <3>1
  <2> QED
    BY <1>h, <2>1, <2>2 DEF Handled
<1>13. CASE Skip
  BY <1>h, <1>13 DEF Skip
<1>14. CASE RunOwn
  <2>1. /\ batch # <<>> /\ pc = "handle" /\ Handled
        /\ UNCHANGED <<redisVars, pc, socket, processVars, sent, fresh, leftVars>>
        /\ decided' = [decided EXCEPT ![pid] = @ \cup {Head(batch)}]
        /\ RunOnRecorder(Command)
    BY <1>14 DEF RunOwn
  <2>2. recorder' \in {"none", "off", "on"} /\ faults' \in Nat /\ misfired' \in BOOLEAN
    BY <2>1, RecorderTypes
  <2>3. decided' \in [Pids -> SUBSET Ids]
    BY <2>1, HeadOfBatch
  <2> QED
    BY <1>h, <2>1, <2>2, <2>3
<1>15. CASE Forward
  <2>1. /\ batch # <<>> /\ pc = "handle" /\ Handled
        /\ UNCHANGED <<redisVars, pc, socket, recorderVars, processVars, decided, fresh,
                        leftVars>>
        /\ sent' = [sent EXCEPT ![pid] = Append(@, Head(batch))]
    BY <1>15 DEF Forward
  <2>2. sent' \in [Pids -> Seq(Ids)]
    BY <2>1, HeadOfBatch, AppendProperties
  <2> QED
    BY <1>h, <2>1, <2>2
<1>16. CASE GiveUp
  <2>1. /\ batch # <<>> /\ pc = "handle" /\ Handled
        /\ UNCHANGED <<redisVars, pc, socket, recorderVars, processVars, sent, fresh,
                        leftVars>>
        /\ decided' = [decided EXCEPT ![pid] = @ \cup {Head(batch)}]
    BY <1>16 DEF GiveUp
  <2>2. decided' \in [Pids -> SUBSET Ids]
    BY <2>1, HeadOfBatch
  <2> QED
    BY <1>h, <2>1, <2>2
<1>17. CASE Refuse
  <2>0. /\ pid \in Pids /\ Head(batch) \in Ids
        /\ Head(batch) <= Len(stream) /\ Head(batch) = Passed(pid) + 1
    BY <1>17, HeadOfBatch DEF Refuse
  <2>3. cursor[pid] \in Ids
    <3>1. Passed(pid) <= cursor[pid] /\ batch # <<>>
      BY <1>17, <2>0, Places DEF Refuse
    <3>2. Len(batch) # 0
      BY <3>1, EmptySeq
    <3>3. cursor[pid] >= 1
      BY <1>0, <2>0, <3>2
    <3> QED
      BY <1>0, <2>0, <3>3 DEF Ids
  <2>4. <<Head(batch), cursor[pid]>> \in Ids \X Ids
    BY <2>0, <2>3
  <2> DEFINE r == <<Head(batch), cursor[pid]>>
  <2>5. refused' = [refused EXCEPT ![pid] = @ \cup {r}] /\ r \in Ids \X Ids
    BY <1>17, <2>4 DEF Refuse
  <2> HIDE DEF r
  <2>6. refused' \in [Pids -> SUBSET (Ids \X Ids)]
    BY <2>0, <2>5
  <2>1. TypeOK'
    BY <1>0, <1>17, <2>6 DEF Refuse
  <2>2. PlaceInv'
    BY <1>0, <1>17 DEF Refuse
  <2> QED
    BY <2>1, <2>2
<1>18. CASE Acknowledge
  <2>0. \/ pending' = [pending EXCEPT ![pid] = @ \ acks]
        \/ pending' = pending
    BY <1>18 DEF Acknowledge
  <2>1. pending' \in [Pids -> SUBSET Ids]
    BY <2>0
  <2> QED
    BY <1>0, <1>18, <2>1 DEF Acknowledge
<1>19. CASE UNCHANGED vars
  BY <1>19 DEF vars
<1> HIDE DEF BaseInv
<1> QED
  BY <1>1, <1>2, <1>3, <1>4, <1>5, <1>6, <1>7, <1>8, <1>9, <1>10, <1>11, <1>12,
     <1>13, <1>14, <1>15, <1>16, <1>17, <1>18, <1>19 DEF Next, LoopStep

LEMMA BaseInvariant == Spec => []BaseInv
BY InitBase, BaseStep, PTL DEF Spec

(* The variables have their types in every reachable state.                *)
THEOREM Typing == Spec => []TypeOK
<1>1. BaseInv => TypeOK
  BY DEF BaseInv
<1> QED
  BY <1>1, BaseInvariant, PTL

-----------------------------------------------------------------------------
(* The commands of the stream are not rewritten.                           *)
LEMMA StreamGrows ==
    ASSUME BaseInv, [Next]_vars
    PROVE  /\ Len(stream) <= Len(stream')
           /\ \A n \in 1 .. Len(stream) : stream'[n] = stream[n]
<1>1. CASE \E k \in Kinds : GuiAppend(k)
  BY <1>1, Places, AppendProperties DEF GuiAppend
<1>2. CASE UNCHANGED stream
  BY <1>2, Places
<1> QED
  BY <1>1, <1>2 DEF Next, LoopStep, RedisGoes, RedisReturns, Launch, StopRequest,
     StopRecorder, ProcessEnds, CloseSocket, LeaveLoop, EnsureGroup, Read,
     ReadReplyLost, ReadNothing, Skip, RunOwn, Forward, GiveUp, Refuse,
     Acknowledge, vars, redisVars

(* How far the consumer of a group has come never decreases: a message     *)
(* handled moves it by one, a refusal or a lost reply moves it to the end  *)
(* of what was delivered, and a process that ends leaves it there.         *)
LEMMA Progress ==
    ASSUME BaseInv, [Next]_vars, NEW p \in Pids
    PROVE  Passed(p) <= Passed(p)'
<1>0. /\ Passed(p) \in Nat /\ Passed(p) <= cursor[p] /\ cursor[p] \in Nat
      /\ Len(batch) \in Nat /\ Len(<<>>) = 0 /\ (pc # "down" => pid \in Pids)
      /\ cursor \in [Pids -> 0 .. MaxCmds] /\ NoPid \notin Pids
  BY Places, EmptySeq
<1>1. ASSUME UNCHANGED <<cursor, batch, pid>> PROVE Passed(p) <= Passed(p)'
  BY <1>0, <1>1 DEF Passed
<1>2. ASSUME UNCHANGED cursor, batch' = <<>> PROVE Passed(p) <= Passed(p)'
  BY <1>0, <1>2 DEF Passed
<1>3. ASSUME batch # <<>>, Handled, UNCHANGED <<cursor, pid>>
      PROVE  Passed(p) <= Passed(p)'
  <2>1. Len(batch') = Len(batch) - 1
    BY <1>3, HeadOfBatch DEF Handled
  <2> QED
    BY <1>0, <1>3, <2>1 DEF Passed
<1>4. CASE Read \/ ReadReplyLost
  <2>1. /\ pid \in Pids /\ FirstUnread <= Upto /\ pid' = pid /\ batch = <<>>
        /\ cursor' = [cursor EXCEPT ![pid] = Upto]
        /\ batch' = Delivered \/ batch' = batch
    BY <1>0, <1>4 DEF Read, ReadReplyLost, processVars, BaseInv, PlaceInv
  <2>2. /\ Upto \in cursor[pid] + 1 .. Len(stream) /\ Len(stream) \in Nat
        /\ Len(Delivered) = Upto - cursor[pid] /\ cursor[pid] \in Nat
    BY <2>1, Reads, Places
  <2>3. CASE p = pid
    <3>1. Passed(p) = cursor[pid]
      BY <1>0, <2>1, <2>2, <2>3 DEF Passed
    <3>2. cursor'[pid] = Upto
      BY <1>0, <2>1
    <3>3. Passed(p)' = Upto - Len(batch')
      BY <2>1, <2>3, <3>2 DEF Passed
    <3>4. Len(batch') = Upto - cursor[pid] \/ Len(batch') = 0
      BY <1>0, <2>1, <2>2
    <3> QED
      BY <2>2, <3>1, <3>3, <3>4
  <2>4. CASE p # pid
    BY <1>0, <2>1, <2>4 DEF Passed
  <2> QED
    BY <2>3, <2>4
<1>5. CASE \E q \in Pids : Launch(q)
  BY <1>2, <1>5 DEF Launch, redisVars, Running, BaseInv, PlaceInv
<1>6. CASE ProcessEnds
  BY <1>2, <1>6 DEF ProcessEnds, redisVars
<1>7. CASE Refuse
  BY <1>2, <1>7 DEF Refuse, redisVars
<1>8. CASE Skip \/ RunOwn \/ Forward \/ GiveUp
  BY <1>3, <1>8 DEF Skip, RunOwn, Forward, GiveUp, redisVars, processVars
<1>9. CASE \/ \E k \in Kinds : GuiAppend(k)
           \/ RedisGoes \/ RedisReturns \/ StopRequest \/ StopRecorder
           \/ \E t \in Targets : CloseSocket(t)
           \/ LeaveLoop \/ EnsureGroup \/ ReadNothing \/ Acknowledge
           \/ UNCHANGED vars
  BY <1>1, <1>9 DEF GuiAppend, RedisGoes, RedisReturns, StopRequest, StopRecorder,
     CloseSocket, LeaveLoop, EnsureGroup, ReadNothing, Acknowledge, vars,
     redisVars, loopVars, processVars
<1> QED
  BY <1>4, <1>5, <1>6, <1>7, <1>8, <1>9 DEF Next, LoopStep

LEMMA NextPlace ==
    ASSUME BaseInv, [Next]_vars, NEW p \in Pids
    PROVE  Passed(p)' \in Nat
<1>1. BaseInv'
  BY BaseStep
<1>2. Len(batch') \in Nat /\ cursor'[p] \in Nat
  BY <1>1, LenProperties DEF BaseInv, TypeOK
<1> QED
  BY <1>1, <1>2 DEF Passed, BaseInv, PlaceInv

-----------------------------------------------------------------------------
(* The order of what was forwarded: everything in it is behind the place   *)
(* of the consumer, and was for a target.                                  *)

SentInv ==
    \A p \in Pids : \A i \in 1 .. Len(sent[p]) :
        /\ sent[p][i] <= Passed(p)
        /\ stream[sent[p][i]] \in Targets

OrderInv == ForwardOrder /\ SentInv

LEMMA OrderStep == BaseInv /\ OrderInv /\ [Next]_vars => OrderInv'
<1> SUFFICES ASSUME BaseInv, OrderInv, [Next]_vars PROVE OrderInv'
  OBVIOUS
<1>0. ASSUME NEW p \in Pids
      PROVE  /\ sent[p] \in Seq(Ids) /\ Len(sent[p]) \in Nat
             /\ DOMAIN sent[p] = 1 .. Len(sent[p])
             /\ \A i \in 1 .. Len(sent[p]) : sent[p][i] \in Ids
  BY LenProperties, ElementOfSeq DEF BaseInv, TypeOK
<1>b. ASSUME NEW p \in Pids, NEW i \in 1 .. Len(sent[p])
      PROVE  /\ sent[p][i] \in 1 .. Len(stream)
             /\ sent[p][i] <= Passed(p)'
             /\ stream'[sent[p][i]] \in Targets
  <2>1. /\ sent[p][i] \in Ids /\ sent[p][i] <= Passed(p)
        /\ stream[sent[p][i]] \in Targets
    BY <1>0 DEF OrderInv, SentInv
  <2>2. Passed(p) <= Passed(p)' /\ Passed(p) <= cursor[p] /\ cursor[p] <= Len(stream)
    BY Progress, Places DEF BaseInv, PlaceInv
  <2>3. /\ sent[p][i] \in Nat \ {0} /\ Passed(p) \in Nat /\ cursor[p] \in Nat
        /\ Len(stream) \in Nat /\ Passed(p)' \in Nat
    <3>1. Passed(p) \in Nat /\ cursor[p] \in Nat /\ Len(stream) \in Nat
      BY Places
    <3>2. Passed(p)' \in Nat
      BY NextPlace
    <3>3. sent[p][i] \in Nat \ {0}
      BY <2>1 DEF Ids
    <3> QED
      BY <3>1, <3>2, <3>3
  <2>4. sent[p][i] \in 1 .. Len(stream) /\ sent[p][i] <= Passed(p)'
    BY <2>1, <2>2, <2>3
  <2> QED
    BY StreamGrows, <2>1, <2>4
<1>1. CASE UNCHANGED sent
  <2>1. ForwardOrder'
    BY <1>1 DEF OrderInv, ForwardOrder
  <2>2. SentInv'
    BY <1>1, <1>b DEF SentInv
  <2> QED
    BY <2>1, <2>2 DEF OrderInv
<1>2. CASE Forward
  <2>1. PICK h \in Ids : h = Head(batch)
    BY <1>2, HeadOfBatch DEF Forward
  <2>2. /\ pid \in Pids /\ h = Passed(pid) + 1 /\ h \in 1 .. Len(stream)
        /\ stream[h] \in Targets /\ UNCHANGED <<stream, cursor, pid>>
        /\ sent' = [sent EXCEPT ![pid] = Append(sent[pid], h)]
        /\ batch # <<>> /\ batch' = Tail(batch)
    BY <1>2, <2>1, HeadOfBatch DEF Forward, Command, Handled, redisVars, processVars
  <2>3. Passed(pid)' = h
    BY <2>2, HeadOfBatch, Places DEF Passed
  <2>4. /\ sent'[pid] = Append(sent[pid], h)
        /\ \A p \in Pids : p # pid => sent'[p] = sent[p]
    BY <2>2 DEF BaseInv, TypeOK
  <2>5. /\ Len(sent'[pid]) = Len(sent[pid]) + 1
        /\ \A i \in 1 .. Len(sent[pid]) : sent'[pid][i] = sent[pid][i]
        /\ sent'[pid][Len(sent[pid]) + 1] = h
        /\ DOMAIN sent'[pid] = 1 .. Len(sent[pid]) + 1
    BY <1>0, <2>2, <2>4, AppendProperties
  <2>6. ASSUME NEW p \in Pids, NEW i \in 1 .. Len(sent'[p])
        PROVE  /\ sent'[p][i] <= Passed(p)' /\ stream'[sent'[p][i]] \in Targets
    <3>1. CASE p # pid \/ i # Len(sent[pid]) + 1
      <4>1. i \in 1 .. Len(sent[p]) /\ sent'[p][i] = sent[p][i]
        BY <1>0, <2>2, <2>4, <2>5, <3>1
      <4> QED
        BY <1>b, <4>1
    <3>2. CASE p = pid /\ i = Len(sent[pid]) + 1
      BY <2>2, <2>3, <2>5, <3>2
    <3> QED
      BY <3>1, <3>2
  <2>7. ASSUME NEW p \in Pids, NEW i \in DOMAIN sent'[p], NEW j \in DOMAIN sent'[p],
               i < j
        PROVE  sent'[p][i] < sent'[p][j]
    <3>1. CASE p # pid
      BY <2>4, <2>7, <3>1 DEF OrderInv, ForwardOrder
    <3>2. CASE p = pid /\ j # Len(sent[pid]) + 1
      <4>1. i \in 1 .. Len(sent[pid]) /\ j \in 1 .. Len(sent[pid])
        BY <1>0, <2>2, <2>5, <2>7, <3>2
      <4> QED
        BY <1>0, <2>2, <2>5, <2>7, <3>2, <4>1 DEF OrderInv, ForwardOrder
    <3>3. CASE p = pid /\ j = Len(sent[pid]) + 1
      <4>1. i \in 1 .. Len(sent[pid])
        BY <1>0, <2>2, <2>5, <2>7, <3>3
      <4>2. sent'[pid][i] = sent[pid][i] /\ sent[pid][i] <= Passed(pid)
        BY <2>2, <2>5, <4>1 DEF OrderInv, SentInv
      <4>3. sent[pid][i] \in Ids
        BY <1>0, <2>2, <4>1
      <4>4. sent[pid][i] \in Nat
        BY <4>3 DEF Ids
      <4>5. Passed(pid) \in Nat
        BY <2>2, Places
      <4> QED
        BY <2>2, <2>5, <3>3, <4>2, <4>4, <4>5
    <3> QED
      BY <3>1, <3>2, <3>3
  <2>8. SentInv'
    BY <2>6 DEF SentInv
  <2>9. ForwardOrder'
    BY <2>7 DEF ForwardOrder
  <2> QED
    BY <2>8, <2>9 DEF OrderInv
<1> QED
  BY <1>1, <1>2 DEF Next, LoopStep, GuiAppend, RedisGoes, RedisReturns, Launch,
     StopRequest, StopRecorder, ProcessEnds, CloseSocket, LeaveLoop, EnsureGroup,
     Read, ReadReplyLost, ReadNothing, Skip, RunOwn, GiveUp, Refuse, Acknowledge,
     vars, historyVars

LEMMA OrderInvariant == Spec => []OrderInv
<1>1. Init => OrderInv
  <2> SUFFICES ASSUME Init PROVE OrderInv
    OBVIOUS
  <2>1. \A p \in Pids : sent[p] = <<>> /\ Len(sent[p]) = 0 /\ DOMAIN sent[p] = {}
    BY EmptySeq DEF Init
  <2> QED
    BY <2>1 DEF OrderInv, ForwardOrder, SentInv
<1> QED
  BY <1>1, OrderStep, BaseInvariant, PTL DEF Spec

(* A group forwards the commands in the order in which they were written   *)
(* and none twice, over all the processes that share its name.             *)
THEOREM ForwardedInOrder == Spec => []ForwardOrder
<1>1. OrderInv => ForwardOrder
  BY DEF OrderInv
<1> QED
  BY <1>1, OrderInvariant, PTL

-----------------------------------------------------------------------------
(* What may be acknowledged: only what is settled, and what is settled     *)
(* stays so.                                                               *)

AckInv ==
    /\ AcknowledgedIsSettled
    /\ pid \in Pids => acks \subseteq Settled(pid)

LEMMA SettledGrows ==
    ASSUME BaseInv, [Next]_vars, NEW p \in Pids
    PROVE  Settled(p) \subseteq Settled(p)'
<1>0. /\ DOMAIN stream = 1 .. Len(stream) /\ DOMAIN stream' = 1 .. Len(stream')
      /\ Len(stream) \in Nat /\ Len(stream') \in Nat
      /\ sent[p] \in Seq(Ids) /\ DOMAIN sent[p] = 1 .. Len(sent[p])
      /\ Len(sent[p]) \in Nat
  BY BaseStep, LenProperties DEF BaseInv, TypeOK
<1>1. decided[p] \subseteq decided'[p]
  <2>1. CASE UNCHANGED decided
    BY <2>1
  <2>2. CASE RunOwn \/ GiveUp
    BY <2>2 DEF RunOwn, GiveUp, BaseInv, TypeOK
  <2> QED
    BY <2>1, <2>2 DEF Next, LoopStep, GuiAppend, RedisGoes, RedisReturns, Launch,
       StopRequest, StopRecorder, ProcessEnds, CloseSocket, LeaveLoop, EnsureGroup,
       Read, ReadReplyLost, ReadNothing, Skip, Forward, Refuse, Acknowledge, vars,
       historyVars
<1>2. Forwarded(p) \subseteq Forwarded(p)'
  <2>1. CASE UNCHANGED sent
    BY <2>1 DEF Forwarded
  <2>2. CASE Forward
    <3>1. PICK h \in Ids : h = Head(batch)
      BY <2>2, HeadOfBatch DEF Forward
    <3>2. sent'[p] = sent[p] \/ sent'[p] = Append(sent[p], h)
      BY <2>2, <3>1 DEF Forward, BaseInv, TypeOK
    <3>3. CASE sent'[p] = Append(sent[p], h)
      <4>1. /\ DOMAIN sent'[p] = 1 .. Len(sent[p]) + 1
            /\ \A i \in 1 .. Len(sent[p]) : sent'[p][i] = sent[p][i]
        BY <1>0, <3>3, AppendProperties
      <4>2. \A i \in DOMAIN sent[p] : i \in DOMAIN sent'[p]
        BY <1>0, <4>1
      <4> QED
        BY <1>0, <4>1, <4>2 DEF Forwarded
    <3> QED
      BY <3>2, <3>3 DEF Forwarded
  <2> QED
    BY <2>1, <2>2 DEF Next, LoopStep, GuiAppend, RedisGoes, RedisReturns, Launch,
       StopRequest, StopRecorder, ProcessEnds, CloseSocket, LeaveLoop, EnsureGroup,
       Read, ReadReplyLost, ReadNothing, Skip, RunOwn, GiveUp, Refuse, Acknowledge,
       vars, historyVars
<1>3. \A i \in DOMAIN stream : i \in DOMAIN stream' /\ stream'[i] = stream[i]
  BY <1>0, StreamGrows
<1> QED
  BY <1>1, <1>2, <1>3 DEF Settled

(* A command that was handled is settled.                                  *)
LEMMA HandledIsSettled ==
    ASSUME BaseInv, Skip \/ RunOwn \/ Forward \/ GiveUp
    PROVE  pid \in Pids /\ Head(batch) \in Settled(pid)'
<1>1. PICK h \in Ids : h = Head(batch)
  BY HeadOfBatch DEF Skip, RunOwn, Forward, GiveUp
<1>2. /\ batch # <<>> /\ pid \in Pids /\ h \in DOMAIN stream
      /\ UNCHANGED <<stream, pid>>
  BY <1>1, HeadOfBatch, LenProperties DEF Skip, RunOwn, Forward, GiveUp, redisVars,
     processVars, BaseInv, TypeOK
<1>3. CASE Skip
  BY <1>1, <1>2, <1>3 DEF Skip, Command, Settled
<1>4. CASE RunOwn \/ GiveUp
  <2>1. h \in decided'[pid]
    BY <1>1, <1>2, <1>4 DEF RunOwn, GiveUp, BaseInv, TypeOK
  <2> QED
    BY <1>1, <1>2, <2>1 DEF Settled
<1>5. CASE Forward
  <2>1. sent'[pid] = Append(sent[pid], h) /\ sent[pid] \in Seq(Ids)
    BY <1>1, <1>2, <1>5 DEF Forward, BaseInv, TypeOK
  <2>2. /\ Len(sent[pid]) \in Nat /\ DOMAIN sent'[pid] = 1 .. Len(sent[pid]) + 1
        /\ sent'[pid][Len(sent[pid]) + 1] = h
    BY <2>1, AppendProperties, LenProperties
  <2>3. Len(sent[pid]) + 1 \in DOMAIN sent'[pid]
    BY <2>2
  <2>4. h \in Forwarded(pid)'
    BY <1>2, <2>2, <2>3 DEF Forwarded
  <2> QED
    BY <1>1, <1>2, <2>4 DEF Settled
<1> QED
  BY <1>3, <1>4, <1>5

LEMMA AckStep == BaseInv /\ AckInv /\ [Next]_vars => AckInv'
<1> SUFFICES ASSUME BaseInv, AckInv, [Next]_vars PROVE AckInv'
  OBVIOUS
<1>0. /\ (pc # "down" => pid \in Pids) /\ NoPid \notin Pids
      /\ cursor \in [Pids -> 0 .. MaxCmds] /\ pending \in [Pids -> SUBSET Ids]
  BY Places DEF BaseInv, TypeOK
<1>a. ASSUME UNCHANGED <<cursor, pending>> PROVE AcknowledgedIsSettled'
  BY <1>a, SettledGrows DEF AckInv, AcknowledgedIsSettled
<1>b. ASSUME UNCHANGED <<acks, pid>> PROVE pid' \in Pids => acks' \subseteq Settled(pid)'
  BY <1>b, SettledGrows DEF AckInv
<1>1. CASE UNCHANGED <<cursor, pending, acks, pid>>
  BY <1>a, <1>b, <1>1 DEF AckInv
<1>2. CASE (\E p \in Pids : Launch(p)) \/ ProcessEnds
  <2>1. acks' = {} /\ UNCHANGED <<cursor, pending>>
    BY <1>2 DEF Launch, ProcessEnds, redisVars, Running, BaseInv, PlaceInv
  <2> QED
    BY <1>a, <2>1 DEF AckInv
<1>3. CASE Read \/ ReadReplyLost
  <2>1. /\ pid \in Pids /\ FirstUnread <= Upto /\ pid' = pid /\ UNCHANGED acks
        /\ cursor' = [cursor EXCEPT ![pid] = Upto]
        /\ pending' = [pending EXCEPT ![pid] = @ \cup FirstUnread .. Upto]
    BY <1>0, <1>3 DEF Read, ReadReplyLost, processVars
  <2>2. ASSUME NEW p \in Pids
        PROVE  (1 .. cursor'[p]) \ pending'[p] \subseteq (1 .. cursor[p]) \ pending[p]
    <3>1. CASE p = pid
      <4>1. /\ cursor'[p] = Upto /\ pending'[p] = pending[p] \cup FirstUnread .. Upto
        BY <1>0, <2>1, <3>1
      <4>2. /\ cursor[p] \in Nat /\ Upto \in Nat /\ FirstUnread = cursor[p] + 1
        BY <2>1, <3>1, Places, Reads DEF FirstUnread
      <4>3. ASSUME NEW i \in 1 .. Upto, i \notin FirstUnread .. Upto
            PROVE  i \in 1 .. cursor[p]
        BY <4>2, <4>3
      <4> QED
        BY <4>1, <4>3
    <3>2. CASE p # pid
      BY <1>0, <2>1, <3>2
    <3> QED
      BY <3>1, <3>2
  <2>3. AcknowledgedIsSettled'
    BY <2>2, SettledGrows DEF AckInv, AcknowledgedIsSettled
  <2> QED
    BY <1>b, <2>1, <2>3 DEF AckInv
<1>4. CASE Skip \/ RunOwn \/ Forward \/ GiveUp
  <2>1. /\ UNCHANGED <<cursor, pending, pid>> /\ acks' = acks \cup {Head(batch)}
    BY <1>4 DEF Skip, RunOwn, Forward, GiveUp, Handled, redisVars, processVars
  <2>2. pid \in Pids /\ Head(batch) \in Settled(pid)' /\ acks \subseteq Settled(pid)'
    BY <1>4, <2>1, HandledIsSettled, SettledGrows DEF AckInv
  <2> QED
    BY <1>a, <2>1, <2>2 DEF AckInv
<1>5. CASE Acknowledge
  <2>1. pid \in Pids /\ pid' = pid /\ acks' = {} /\ UNCHANGED cursor
    BY <1>0, <1>5 DEF Acknowledge, processVars
  <2>2. ASSUME NEW p \in Pids
        PROVE  (1 .. cursor'[p]) \ pending'[p] \subseteq Settled(p)'
    <3>1. /\ (1 .. cursor[p]) \ pending[p] \subseteq Settled(p)
          /\ p = pid => acks \subseteq Settled(p)
      BY DEF AckInv, AcknowledgedIsSettled
    <3>2. \A i \in pending[p] : i \in pending'[p] \/ (p = pid /\ i \in acks)
      BY <1>0, <1>5 DEF Acknowledge
    <3> QED
      BY <2>1, <3>1, <3>2, SettledGrows
  <2>3. AcknowledgedIsSettled'
    BY <2>2 DEF AcknowledgedIsSettled
  <2> QED
    BY <2>1, <2>3 DEF AckInv
<1>6. CASE \/ \E k \in Kinds : GuiAppend(k)
           \/ RedisGoes \/ RedisReturns \/ StopRequest \/ StopRecorder
           \/ \E t \in Targets : CloseSocket(t)
           \/ LeaveLoop \/ EnsureGroup \/ ReadNothing \/ Refuse
           \/ UNCHANGED vars
  BY <1>1, <1>6 DEF GuiAppend, RedisGoes, RedisReturns, StopRequest, StopRecorder,
     CloseSocket, LeaveLoop, EnsureGroup, ReadNothing, Refuse, vars,
     redisVars, loopVars, processVars
<1> QED
  BY <1>2, <1>3, <1>4, <1>5, <1>6 DEF Next, LoopStep

LEMMA AckInvariant == Spec => []AckInv
<1>1. Init => AckInv
  <2> SUFFICES ASSUME Init PROVE AckInv
    OBVIOUS
  <2>1. \A p \in Pids : 1 .. cursor[p] = {}
    BY DEF Init
  <2> QED
    BY <2>1, RelayAssumption DEF Init, AckInv, AcknowledgedIsSettled
<1> QED
  BY <1>1, AckStep, BaseInvariant, PTL DEF Spec

(* What a group no longer owes was forwarded, carried out, unreadable or   *)
(* given up: nothing refused or in a lost reply is acknowledged.           *)
THEOREM AcknowledgedSettled == Spec => []AcknowledgedIsSettled
<1>1. AckInv => AcknowledgedIsSettled
  BY DEF AckInv
<1> QED
  BY <1>1, AckInvariant, PTL

-----------------------------------------------------------------------------
(* The history of the recorder, for any sequence s of commands.  The       *)
(* function is defined by recursion; that there is one is the induction.   *)

Unfolds(r, s) ==
    /\ r[0] = TRUE
    /\ \A n \in 1 .. MaxCmds : r[n] = Effect(r[n - 1], s[n])

LEMMA EffectType ==
    ASSUME NEW b \in BOOLEAN, NEW k
    PROVE  Effect(b, k) \in BOOLEAN
BY DEF Effect

LEMMA HistoryExists ==
    ASSUME NEW s
    PROVE  \E r : r = [n \in 0 .. MaxCmds |->
                          IF n = 0 THEN TRUE ELSE Effect(r[n - 1], s[n])]
<1> DEFINE S == {m \in Nat : \E r \in [0 .. m -> BOOLEAN] :
                     r[0] = TRUE /\ \A n \in 1 .. m : r[n] = Effect(r[n - 1], s[n])}
<1>1. 0 \in S
  <2> DEFINE z == [n \in 0 .. 0 |-> TRUE]
  <2>1. z \in [0 .. 0 -> BOOLEAN] /\ z[0] = TRUE
    OBVIOUS
  <2>2. 1 .. 0 = {}
    OBVIOUS
  <2> HIDE DEF z
  <2>3. \A n \in 1 .. 0 : z[n] = Effect(z[n - 1], s[n])
    BY <2>2
  <2> QED
    BY <2>1, <2>3
<1>2. ASSUME NEW m \in Nat, m \in S PROVE m + 1 \in S
  <2>1. PICK r \in [0 .. m -> BOOLEAN] :
            r[0] = TRUE /\ \A n \in 1 .. m : r[n] = Effect(r[n - 1], s[n])
    BY <1>2
  <2> DEFINE q == [n \in 0 .. m + 1 |->
                      IF n = m + 1 THEN Effect(r[m], s[m + 1]) ELSE r[n]]
  <2>2. r[m] \in BOOLEAN
    BY <2>1
  <2>3. Effect(r[m], s[m + 1]) \in BOOLEAN
    BY <2>2, EffectType
  <2>4. ASSUME NEW n \in 0 .. m + 1, n # m + 1 PROVE n \in 0 .. m /\ r[n] \in BOOLEAN
    <3>1. n \in 0 .. m
      BY <2>4
    <3> QED
      BY <2>1, <3>1
  <2>5. q \in [0 .. m + 1 -> BOOLEAN]
    BY <2>3, <2>4
  <2>6. \A n \in 0 .. m : n \in 0 .. m + 1 /\ n # m + 1 /\ q[n] = r[n]
    OBVIOUS
  <2>7. q[m + 1] = Effect(r[m], s[m + 1])
    OBVIOUS
  <2> HIDE DEF q
  <2>8. q[0] = TRUE
    BY <2>1, <2>6
  <2>9. ASSUME NEW n \in 1 .. m + 1 PROVE q[n] = Effect(q[n - 1], s[n])
    <3>1. CASE n = m + 1
      <4>1. n - 1 = m /\ m \in 0 .. m
        BY <3>1
      <4> QED
        BY <2>6, <2>7, <3>1, <4>1
    <3>2. CASE n # m + 1
      <4>1. n \in 1 .. m /\ n \in 0 .. m /\ n - 1 \in 0 .. m
        BY <3>2
      <4> QED
        BY <2>1, <2>6, <4>1
    <3> QED
      BY <3>1, <3>2
  <2> QED
    BY <2>5, <2>8, <2>9
<1>3. MaxCmds \in S
  <2> HIDE DEF S
  <2>1. Nat \subseteq S
    BY <1>1, <1>2, NatInSet
  <2> QED
    BY <2>1, RelayAssumption
<1>4. PICK r \in [0 .. MaxCmds -> BOOLEAN] :
          r[0] = TRUE /\ \A n \in 1 .. MaxCmds : r[n] = Effect(r[n - 1], s[n])
  BY <1>3
<1>5. ASSUME NEW n \in 0 .. MaxCmds
      PROVE  r[n] = IF n = 0 THEN TRUE ELSE Effect(r[n - 1], s[n])
  <2>1. n # 0 => n \in 1 .. MaxCmds
    BY RelayAssumption
  <2> QED
    BY <1>4, <2>1
<1>6. r = [n \in 0 .. MaxCmds |-> IF n = 0 THEN TRUE ELSE Effect(r[n - 1], s[n])]
  BY <1>4, <1>5
<1> QED
  BY <1>6

LEMMA HistoryUnfolds ==
    ASSUME NEW s, NEW r,
           r = CHOOSE f : f = [n \in 0 .. MaxCmds |->
                                 IF n = 0 THEN TRUE ELSE Effect(f[n - 1], s[n])]
    PROVE  Unfolds(r, s)
<1>1. r = [n \in 0 .. MaxCmds |-> IF n = 0 THEN TRUE ELSE Effect(r[n - 1], s[n])]
  BY HistoryExists, Zenon
<1>2. 0 \in 0 .. MaxCmds /\ \A n \in 1 .. MaxCmds : n \in 0 .. MaxCmds /\ n # 0
  BY RelayAssumption
<1>3. ASSUME NEW n \in 0 .. MaxCmds
      PROVE  r[n] = IF n = 0 THEN TRUE ELSE Effect(r[n - 1], s[n])
  BY <1>1, Zenon
<1> QED
  BY <1>2, <1>3 DEF Unfolds

LEMMA Unfolded == Unfolds(RecordingAfter, stream)
BY HistoryUnfolds, Zenon DEF RecordingAfter

LEMMA UnfoldedNext == Unfolds(RecordingAfter', stream')
BY HistoryUnfolds, Zenon DEF RecordingAfter

(* Up to where two streams agree, so do their histories.                   *)
LEMMA SameHistory ==
    ASSUME NEW r, NEW s, NEW q, NEW t, Unfolds(r, s), Unfolds(q, t),
           NEW L \in 0 .. MaxCmds, \A n \in 1 .. L : s[n] = t[n]
    PROVE  \A n \in 0 .. L : r[n] = q[n]
<1> DEFINE S == {n \in 0 .. L : r[n] = q[n]}
<1>1. 0 \in S /\ 0 \in Nat /\ L \in Nat
  <2>1. 0 \in 0 .. L /\ L \in Nat
    BY RelayAssumption
  <2>2. r[0] = q[0]
    BY DEF Unfolds
  <2> QED
    BY <2>1, <2>2
<1>2. ASSUME NEW n \in 0 .. L - 1, n \in S PROVE n + 1 \in S
  <2>1. n + 1 \in 1 .. L /\ n + 1 \in 1 .. MaxCmds /\ (n + 1) - 1 = n
        /\ n + 1 \in 0 .. L
    BY RelayAssumption
  <2>2. r[n + 1] = Effect(r[n], s[n + 1]) /\ q[n + 1] = Effect(q[n], t[n + 1])
    BY <2>1 DEF Unfolds
  <2> QED
    BY <1>2, <2>1, <2>2
<1>3. 0 .. L \subseteq S
  <2> HIDE DEF S
  <2> QED
    BY <1>1, <1>2, UpToInSet
<1> QED
  BY <1>3

(* Commands that are not for the recorder do not move its history.         *)
LEMMA Unmoved ==
    ASSUME NEW r, NEW s, Unfolds(r, s), NEW a \in 0 .. MaxCmds, NEW b \in a .. MaxCmds,
           \A n \in a + 1 .. b : s[n] \notin RecorderKinds
    PROVE  r[b] = r[a]
<1> DEFINE S == {n \in a .. b : r[n] = r[a]}
<1>1. a \in S /\ a \in Nat /\ b \in Nat
  BY RelayAssumption
<1>2. ASSUME NEW n \in a .. b - 1, n \in S PROVE n + 1 \in S
  <2>1. n + 1 \in a + 1 .. b /\ n + 1 \in 1 .. MaxCmds /\ (n + 1) - 1 = n
        /\ n + 1 \in a .. b
    BY RelayAssumption
  <2>2. r[n + 1] = Effect(r[n], s[n + 1])
    BY <2>1 DEF Unfolds
  <2>3. Effect(r[n], s[n + 1]) = r[n]
    BY <2>1 DEF Effect, RecorderKinds
  <2> QED
    BY <1>2, <2>1, <2>2, <2>3
<1>3. a .. b \subseteq S
  <2> HIDE DEF S
  <2> QED
    BY <1>1, <1>2, UpToInSet
<1>4. b \in a .. b
  BY <1>1
<1> QED
  BY <1>3, <1>4

-----------------------------------------------------------------------------
(* The groups: one that was not made has delivered nothing, and what a     *)
(* process decided is behind its place.  Until its process makes it, no    *)
(* command touches the recorder.                                           *)

Reckoned == Running /\ ~stopping /\ ~misfired /\ recorder # "none"

GroupInv ==
    /\ \A p \in Pids : p \notin made => cursor[p] = 0
    /\ \A p \in Pids : decided[p] \subseteq 1 .. Passed(p)
    /\ fresh => pid \in made
    /\ pc \in {"read", "handle"} => pid \in made
    /\ Reckoned /\ pid \notin made => recorder = "on"

LEMMA GroupStep == BaseInv /\ GroupInv /\ [Next]_vars => GroupInv'
<1> SUFFICES ASSUME BaseInv, GroupInv, [Next]_vars PROVE GroupInv'
  OBVIOUS
<1>0. /\ (pc # "down" => pid \in Pids) /\ NoPid \notin Pids /\ made \subseteq Pids
      /\ (pid = NoPid <=> pc = "down") /\ (Running <=> pid # NoPid)
      /\ cursor \in [Pids -> 0 .. MaxCmds] /\ decided \in [Pids -> SUBSET Ids]
      /\ recorder \in {"none", "off", "on"}
  BY Places DEF BaseInv, TypeOK, PlaceInv, Running
<1>1. ASSUME NEW p \in Pids PROVE decided'[p] \subseteq 1 .. Passed(p)'
  <2>0. /\ Passed(p) \in Nat /\ Passed(p)' \in Nat /\ Passed(p) <= Passed(p)'
        /\ decided[p] \subseteq 1 .. Passed(p)
    BY Places, Progress, NextPlace DEF GroupInv
  <2>1. 1 .. Passed(p) \subseteq 1 .. Passed(p)'
    BY <2>0
  <2>2. CASE UNCHANGED decided
    BY <2>0, <2>1, <2>2
  <2>3. CASE RunOwn \/ GiveUp
    <3>1. PICK h \in Ids : h = Head(batch)
      BY <2>3, HeadOfBatch DEF RunOwn, GiveUp
    <3>2. /\ pid \in Pids /\ h = Passed(pid) + 1 /\ UNCHANGED <<cursor, pid>>
          /\ batch' = Tail(batch) /\ Len(Tail(batch)) = Len(batch) - 1
          /\ Len(batch) \in Nat /\ cursor[pid] \in Nat
      BY <2>3, <3>1, HeadOfBatch, Places DEF RunOwn, GiveUp, Handled, redisVars,
         processVars
    <3>3. CASE p = pid
      <4>0. decided' = [decided EXCEPT ![pid] = @ \cup {h}]
        BY <2>3, <3>1 DEF RunOwn, GiveUp
      <4>1. decided'[p] = decided[p] \cup {h}
        BY <1>0, <3>3, <4>0
      <4>2. Passed(p)' = h
        BY <2>3, <3>1, <3>2, <3>3, HeadPassed DEF RunOwn, GiveUp
      <4>3. h \in 1 .. h
        BY DEF Ids
      <4> QED
        BY <2>0, <2>1, <4>1, <4>2, <4>3
    <3>4. CASE p # pid
      <4>1. decided'[p] = decided[p]
        BY <1>0, <2>3, <3>4 DEF RunOwn, GiveUp
      <4> QED
        BY <2>0, <2>1, <4>1
    <3> QED
      BY <3>3, <3>4
  <2> QED
    BY <2>2, <2>3 DEF Next, LoopStep, GuiAppend, RedisGoes, RedisReturns, Launch,
       StopRequest, StopRecorder, ProcessEnds, CloseSocket, LeaveLoop, EnsureGroup,
       Read, ReadReplyLost, ReadNothing, Skip, Forward, Refuse, Acknowledge, vars,
       historyVars
<1>2. ASSUME NEW p \in Pids, p \notin made' PROVE cursor'[p] = 0
  <2>1. CASE UNCHANGED <<made, cursor>> \/ EnsureGroup
    BY <1>2, <2>1 DEF EnsureGroup, GroupInv
  <2>2. CASE Read \/ ReadReplyLost
    <3>1. /\ pid \in made /\ made' = made /\ cursor' = [cursor EXCEPT ![pid] = Upto]
      BY <2>2 DEF Read, ReadReplyLost, GroupInv
    <3> QED
      BY <1>0, <1>2, <3>1 DEF GroupInv
  <2> QED
    BY <2>1, <2>2 DEF Next, LoopStep, GuiAppend, RedisGoes, RedisReturns, Launch,
       StopRequest, StopRecorder, ProcessEnds, CloseSocket, LeaveLoop,
       ReadNothing, Skip, RunOwn, Forward, GiveUp, Refuse, Acknowledge, vars,
       redisVars
(* The rest concerns the running process and its group.                    *)
<1> DEFINE Own == /\ fresh => pid \in made
                  /\ pc \in {"read", "handle"} => pid \in made
                  /\ Reckoned /\ pid \notin made => recorder = "on"
<1>3. Own'
  <2>1. CASE \/ \E k \in Kinds : GuiAppend(k)
             \/ RedisGoes \/ RedisReturns \/ \E t \in Targets : CloseSocket(t)
             \/ UNCHANGED vars
    BY <2>1 DEF GuiAppend, RedisGoes, RedisReturns, CloseSocket, vars, redisVars,
       loopVars, recorderVars, processVars, historyVars, GroupInv, Reckoned, Running
  <2>2. CASE \E p \in Pids : Launch(p)
    BY <1>0, <2>2 DEF Launch, Reckoned, Running
  <2>3. CASE ProcessEnds
    BY <2>3 DEF ProcessEnds, Reckoned, Running
  <2>4. CASE StopRequest \/ StopRecorder
    BY <2>4 DEF StopRequest, StopRecorder, StopSession, redisVars, loopVars,
       historyVars, processVars, GroupInv, Reckoned
  <2>5. CASE LeaveLoop \/ ReadNothing \/ Acknowledge
    BY <2>5 DEF LeaveLoop, ReadNothing, Acknowledge, redisVars, recorderVars,
       processVars, historyVars, GroupInv, Reckoned, Running
  <2>6. CASE EnsureGroup
    BY <1>0, <2>6 DEF EnsureGroup, processVars, GroupInv
  <2>7. CASE \/ Read \/ ReadReplyLost \/ Skip \/ RunOwn \/ Forward \/ GiveUp \/ Refuse
    <3>1. pid \in made /\ UNCHANGED <<made, pid>>
      BY <2>7 DEF Read, ReadReplyLost, Skip, RunOwn, Forward, GiveUp, Refuse,
         redisVars, processVars, GroupInv
    <3> QED
      BY <3>1
  <2> QED
    BY <2>1, <2>2, <2>3, <2>4, <2>5, <2>6, <2>7 DEF Next, LoopStep
<1> QED
  BY <1>1, <1>2, <1>3 DEF GroupInv

-----------------------------------------------------------------------------
(* The recorder of a process with a new group is where the commands it has *)
(* passed put one that was started, as long as none of those that are for  *)
(* the recorder was left behind.                                           *)

Carried(p) == \A i \in 1 .. Passed(p) : stream[i] \in RecorderKinds => i \in decided[p]

RecInv ==
    Reckoned /\ fresh /\ Carried(pid)
        => (recorder = "on" <=> RecordingAfter[Passed(pid)])

(* A step that does not touch the recorder and passes no command that is   *)
(* both for the recorder and decided.                                      *)
LEMMA Advance ==
    ASSUME BaseInv, RecInv, [Next]_vars, pid \in Pids,
           UNCHANGED <<pid, stopping, fresh, misfired, recorder>>,
           \A i \in 1 .. Passed(pid) : i \in decided'[pid] => i \in decided[pid],
           \A i \in Passed(pid) + 1 .. Passed(pid)' :
               i \in decided'[pid] => stream'[i] \notin RecorderKinds
    PROVE  RecInv'
<1> SUFFICES ASSUME Reckoned', fresh', Carried(pid)'
             PROVE  recorder' = "on" <=> RecordingAfter'[Passed(pid)']
  BY DEF RecInv
<1>1. PICK a \in Nat, b \in Nat : a = Passed(pid) /\ b = Passed(pid)'
  BY Places, NextPlace
<1>2. /\ a <= b /\ a <= Len(stream) /\ b <= MaxCmds /\ Len(stream) \in 0 .. MaxCmds
      /\ MaxCmds \in Nat
  <2>1. a <= b /\ a <= cursor[pid] /\ cursor[pid] <= Len(stream) /\ cursor[pid] \in Nat
        /\ Len(stream) \in Nat /\ Len(stream) <= MaxCmds /\ MaxCmds \in Nat
    BY <1>1, Progress, Places DEF BaseInv, PlaceInv
  <2>2. b <= MaxCmds
    <3>1. BaseInv'
      BY BaseStep
    <3>2. /\ pid' = pid /\ b = cursor'[pid] - Len(batch') /\ cursor'[pid] \in 0 .. MaxCmds
          /\ Len(batch') \in Nat
      BY <1>1, <3>1, LenProperties DEF BaseInv, TypeOK, Passed
    <3> QED
      BY <1>1, <2>1, <3>2
  <2> QED
    BY <1>1, <2>1, <2>2
<1>3. \A i \in 1 .. Len(stream) : stream'[i] = stream[i]
  BY StreamGrows
<1>4. \A i \in 1 .. b : stream'[i] \in RecorderKinds => i \in decided'[pid]
  BY <1>1 DEF Carried
<1>5. Carried(pid)
  <2>1. ASSUME NEW i \in 1 .. a, stream[i] \in RecorderKinds PROVE i \in decided[pid]
    <3>1. i \in 1 .. Len(stream) /\ i \in 1 .. b
      BY <1>2
    <3> QED
      BY <1>1, <1>3, <1>4, <2>1, <3>1
  <2> QED
    BY <1>1, <2>1 DEF Carried
<1>6. recorder = "on" <=> RecordingAfter[a]
  BY <1>1, <1>5 DEF RecInv, Reckoned, Running
<1>7. RecordingAfter'[a] = RecordingAfter[a]
  <2>1. a \in 0 .. Len(stream)
    BY <1>2
  <2> QED
    BY <1>2, <1>3, <2>1, Unfolded, UnfoldedNext, SameHistory
<1>8. RecordingAfter'[b] = RecordingAfter'[a]
  <2>1. a \in 0 .. MaxCmds /\ b \in a .. MaxCmds
    BY <1>2
  <2>2. \A i \in a + 1 .. b : i \in 1 .. b
    BY <1>2
  <2>3. \A i \in a + 1 .. b : stream'[i] \notin RecorderKinds
    BY <1>1, <1>4, <2>2
  <2> QED
    BY <2>1, <2>3, UnfoldedNext, Unmoved
<1> QED
  BY <1>1, <1>6, <1>7, <1>8

LEMMA HistoryType ==
    ASSUME NEW r, NEW s, Unfolds(r, s), NEW a \in 0 .. MaxCmds
    PROVE  r[a] \in BOOLEAN
<1> DEFINE S == {n \in 0 .. MaxCmds : r[n] \in BOOLEAN}
<1>1. MaxCmds \in Nat /\ 0 \in 0 .. MaxCmds
  BY RelayAssumption
<1>2. r[0] \in BOOLEAN
  BY DEF Unfolds
<1>3. ASSUME NEW n \in 0 .. MaxCmds - 1, n \in S PROVE n + 1 \in S
  <2>1. n + 1 \in 1 .. MaxCmds /\ (n + 1) - 1 = n /\ n + 1 \in 0 .. MaxCmds
    BY RelayAssumption
  <2>2. r[n + 1] = Effect(r[n], s[n + 1]) /\ r[n] \in BOOLEAN
    BY <1>3, <2>1 DEF Unfolds
  <2> QED
    BY <2>1, <2>2, EffectType
<1>4. 0 .. MaxCmds \subseteq S
  <2>1. 0 \in S
    BY <1>1, <1>2
  <2> HIDE DEF S
  <2> QED
    BY <1>1, <1>3, <2>1, UpToInSet
<1> QED
  BY <1>4

(* What a command does to a recorder whose file opens.                     *)
LEMMA CommandHasEffect ==
    ASSUME BaseInv, NEW k \in RecorderKinds, RunOnRecorder(k), recorder' # "none",
           ~misfired', NEW b \in BOOLEAN, recorder = "on" <=> b
    PROVE  recorder' = "on" <=> Effect(b, k)
<1>1. recorder \in {"none", "off", "on"}
  BY DEF BaseInv, TypeOK
<1>2. CASE k = "start"
  BY <1>1, <1>2 DEF RunOnRecorder, StartSession, Effect, recorderVars
<1>3. CASE k = "stop"
  BY <1>1, <1>3 DEF RunOnRecorder, StopSession, Effect, recorderVars
<1>4. CASE k = "toggle"
  BY <1>1, <1>4 DEF RunOnRecorder, StartSession, StopSession, Effect, recorderVars
<1> QED
  BY <1>2, <1>3, <1>4 DEF RecorderKinds

LEMMA RecStep == BaseInv /\ GroupInv /\ RecInv /\ [Next]_vars => RecInv'
<1> SUFFICES ASSUME BaseInv, GroupInv, RecInv, [Next]_vars PROVE RecInv'
  OBVIOUS
<1>0. /\ (pc # "down" => pid \in Pids) /\ NoPid \notin Pids
      /\ (pid = NoPid <=> pc = "down") /\ (Running <=> pid # NoPid)
      /\ pid \in Pids \cup {NoPid}
  BY Places DEF BaseInv, TypeOK, PlaceInv, Running
(* Where no command is handled and the place of the consumer stays.        *)
<1>1. CASE \/ \E k \in Kinds : GuiAppend(k)
           \/ RedisGoes \/ RedisReturns \/ \E t \in Targets : CloseSocket(t)
           \/ LeaveLoop \/ Read \/ ReadNothing \/ Acknowledge \/ UNCHANGED vars
  <2>1. /\ UNCHANGED <<pid, stopping, fresh, misfired, recorder, decided>>
        /\ pid \in Pids => Passed(pid)' = Passed(pid)
    <3>1. CASE Read
      <4>1. /\ pid \in Pids /\ FirstUnread <= Upto /\ batch = <<>>
            /\ cursor' = [cursor EXCEPT ![pid] = Upto] /\ batch' = Delivered
            /\ UNCHANGED <<pid, stopping, fresh, misfired, recorder, decided>>
        BY <1>0, <3>1 DEF Read, processVars, recorderVars, historyVars, BaseInv, PlaceInv
      <4>2. /\ Len(Delivered) = Upto - cursor[pid] /\ Len(batch) = 0
            /\ cursor'[pid] = Upto /\ cursor[pid] \in Nat /\ Upto \in Nat
        BY <4>1, Reads, Places, EmptySeq
      <4>3. Passed(pid) = cursor[pid] /\ Passed(pid)' = Upto - Len(Delivered)
        BY <4>1, <4>2 DEF Passed
      <4> QED
        BY <4>1, <4>2, <4>3
    <3>2. CASE ~Read
      BY <1>1, <3>2 DEF GuiAppend, RedisGoes, RedisReturns, CloseSocket, LeaveLoop,
         ReadNothing, Acknowledge, vars, redisVars, loopVars, recorderVars,
         processVars, historyVars, Passed
    <3> QED
      BY <3>1, <3>2
  <2>2. CASE pid \in Pids
    <3>1. Passed(pid)' = Passed(pid) /\ Passed(pid) \in Nat
      BY <2>1, <2>2, Places
    <3>2. \A i \in Passed(pid) + 1 .. Passed(pid)' : FALSE
      BY <3>1
    <3> QED
      BY <2>1, <2>2, <3>2, Advance
  <2>3. CASE pid \notin Pids
    BY <1>0, <2>1, <2>3 DEF RecInv, Reckoned, Running
  <2> QED
    BY <2>2, <2>3
(* Where the consumer passes a command that is not for the recorder.       *)
<1>2. CASE Skip \/ Forward \/ GiveUp
  <2>1. PICK h \in Ids : h = Head(batch)
    BY <1>2, HeadOfBatch DEF Skip, Forward, GiveUp
  <2>2. /\ batch # <<>> /\ Handled /\ UNCHANGED <<cursor, stream>>
        /\ UNCHANGED <<pid, stopping, fresh, misfired, recorder>>
        /\ stream[h] \in Targets \cup {"junk"}
        /\ decided' = decided \/ decided' = [decided EXCEPT ![pid] = @ \cup {h}]
    BY <1>2, <2>1 DEF Skip, Forward, GiveUp, Command, redisVars, processVars,
       recorderVars, historyVars
  <2>3. /\ pid \in Pids /\ h = Passed(pid) + 1 /\ Passed(pid) \in Nat
        /\ Passed(pid)' = h
    BY <2>1, <2>2, HeadPassed, Places
  <2>4. \A i \in decided'[pid] : i \in decided[pid] \/ i = h
    BY <2>2, <2>3 DEF BaseInv, TypeOK
  <2>5. \A i \in 1 .. Passed(pid) : i \in decided'[pid] => i \in decided[pid]
    BY <2>3, <2>4
  <2>6. stream'[h] \notin RecorderKinds
    BY <2>2, RelayAssumption DEF RecorderKinds
  <2>7. \A i \in Passed(pid) + 1 .. Passed(pid)' : i = h
    BY <2>3 DEF Ids
  <2> QED
    BY <2>2, <2>3, <2>5, <2>6, <2>7, Advance
(* Where it leaves behind what was delivered: none of it is decided.       *)
<1>3. CASE Refuse \/ ReadReplyLost
  <2>1. /\ pid \in Pids /\ UNCHANGED <<pid, stopping, fresh, misfired, recorder, decided>>
    BY <1>0, <1>3 DEF Refuse, ReadReplyLost, processVars, recorderVars, historyVars
  <2>2. decided[pid] \subseteq 1 .. Passed(pid) /\ Passed(pid) \in Nat
        /\ Passed(pid)' \in Nat
    BY <2>1, Places, NextPlace DEF GroupInv
  <2>3. \A i \in Passed(pid) + 1 .. Passed(pid)' : i \notin decided'[pid]
    BY <2>1, <2>2
  <2> QED
    BY <2>1, <2>3, Advance
<1>4. CASE RunOwn
  <2>1. PICK h \in Ids : h = Head(batch)
    BY <1>4, HeadOfBatch DEF RunOwn
  <2>2. /\ batch # <<>> /\ Handled /\ UNCHANGED <<cursor, stream>>
        /\ UNCHANGED <<pid, stopping, fresh>>
        /\ stream[h] \in RecorderKinds /\ RunOnRecorder(stream[h])
        /\ decided' = [decided EXCEPT ![pid] = @ \cup {h}]
    BY <1>4, <2>1 DEF RunOwn, Command, redisVars, processVars
  <2>3. PICK a \in Nat : a = Passed(pid)
    BY <1>0, <1>4, Places DEF RunOwn, BaseInv, PlaceInv
  <2>4. /\ pid \in Pids /\ h = a + 1 /\ Passed(pid)' = h /\ h \in Nat
    BY <2>1, <2>2, <2>3, HeadPassed
  <2> SUFFICES ASSUME Reckoned', fresh', Carried(pid)'
               PROVE  recorder' = "on" <=> RecordingAfter'[Passed(pid)']
    BY DEF RecInv
  <2>5. Reckoned /\ fresh
    <3>1. ~misfired /\ recorder # "none"
      BY <2>2 DEF Reckoned, RunOnRecorder, StartSession, StopSession, recorderVars,
         RecorderKinds, BaseInv, TypeOK
    <3> QED
      BY <2>2, <3>1 DEF Reckoned, Running
  <2>6. Carried(pid)
    <3>1. ASSUME NEW i \in 1 .. a, stream[i] \in RecorderKinds PROVE i \in decided[pid]
      <4>1. i \in 1 .. h /\ i # h
        BY <2>4
      <4>2. i \in decided'[pid]
        BY <2>2, <2>4, <3>1, <4>1 DEF Carried
      <4> QED
        BY <2>2, <2>4, <4>1, <4>2 DEF BaseInv, TypeOK
    <3> QED
      BY <2>3, <3>1 DEF Carried
  <2>7. recorder = "on" <=> RecordingAfter[a]
    BY <2>3, <2>5, <2>6 DEF RecInv
  <2>8. RecordingAfter[a] \in BOOLEAN
    <3>1. a \in 0 .. MaxCmds
      BY <2>4, RelayAssumption DEF Ids
    <3> QED
      BY <3>1, Unfolded, HistoryType
  <2>9. recorder' = "on" <=> Effect(RecordingAfter[a], stream[h])
    BY <2>2, <2>7, <2>8, CommandHasEffect DEF Reckoned
  <2>10. RecordingAfter'[a] = RecordingAfter[a]
    BY <2>2 DEF RecordingAfter
  <2>11. RecordingAfter'[h] = Effect(RecordingAfter'[h - 1], stream'[h]) /\ h - 1 = a
    BY <2>4, UnfoldedNext DEF Unfolds, Ids
  <2> QED
    BY <2>2, <2>4, <2>9, <2>10, <2>11
(* A new group: nothing is passed, and the recorder was started.           *)
<1>5. CASE EnsureGroup
  <2>1. /\ pid \in Pids /\ UNCHANGED <<pid, stopping, misfired, recorder, cursor, batch>>
        /\ UNCHANGED <<stream, decided>> /\ batch = <<>>
        /\ fresh' <=> (fresh \/ pid \notin made)
    BY <1>0, <1>5 DEF EnsureGroup, processVars, recorderVars, BaseInv, PlaceInv
  <2>2. CASE fresh
    <3>1. Passed(pid)' = Passed(pid) /\ Passed(pid) \in Nat /\ UNCHANGED fresh
      BY <2>1, <2>2, Places DEF Passed, BaseInv, TypeOK
    <3>2. \A i \in Passed(pid) + 1 .. Passed(pid)' : FALSE
      BY <3>1
    <3> QED
      BY <2>1, <3>1, <3>2, Advance
  <2>3. CASE ~fresh
    <3> SUFFICES ASSUME Reckoned', fresh'
                 PROVE  recorder' = "on" <=> RecordingAfter'[Passed(pid)']
      BY DEF RecInv
    <3>1. pid \notin made /\ cursor[pid] = 0 /\ Reckoned
      BY <2>1, <2>3 DEF Reckoned, Running, GroupInv
    <3>2. recorder' = "on"
      BY <2>1, <3>1 DEF GroupInv
    <3>3. Passed(pid)' = 0
      <4>1. Passed(pid)' = cursor[pid] - Len(batch)
        BY <2>1 DEF Passed
      <4>2. Len(batch) = 0
        BY <2>1, EmptySeq
      <4> QED
        BY <3>1, <4>1, <4>2
    <3>4. RecordingAfter'[0] = TRUE
      BY UnfoldedNext DEF Unfolds
    <3> QED
      BY <3>2, <3>3, <3>4
  <2> QED
    BY <2>2, <2>3
(* Where there is nothing to compare: a start, an end, a shutdown.         *)
<1>6. CASE (\E p \in Pids : Launch(p)) \/ ProcessEnds \/ StopRequest \/ StopRecorder
  <2>1. ~(Reckoned' /\ fresh')
    BY <1>6 DEF Launch, ProcessEnds, StopRequest, StopRecorder, Reckoned, Running,
       processVars
  <2> QED
    BY <2>1 DEF RecInv
<1> QED
  BY <1>1, <1>2, <1>3, <1>4, <1>5, <1>6 DEF Next, LoopStep

LEMMA RecInvariant == Spec => [](GroupInv /\ RecInv)
<1>1. Init => GroupInv /\ RecInv
  <2> SUFFICES ASSUME Init PROVE GroupInv /\ RecInv
    OBVIOUS
  <2>1. /\ \A p \in Pids : cursor[p] = 0 /\ decided[p] = {}
        /\ pid = NoPid /\ fresh = FALSE /\ pc = "down" /\ ~Running
    BY DEF Init, Running
  <2> QED
    BY <2>1 DEF GroupInv, RecInv, Reckoned
<1> QED
  BY <1>1, GroupStep, RecStep, BaseInvariant, PTL DEF Spec

(* Once a process with a new group has read every command, and left none   *)
(* for the recorder behind, the recorder is where the whole history puts   *)
(* it: the command that a target refuses, or a lost reply takes, can only  *)
(* be missing if it is still pending.                                      *)
THEOREM RecorderFollows == Spec => []RecorderFollowsHistory
<1>1. BaseInv /\ OrderInv /\ AckInv /\ RecInv => RecorderFollowsHistory
  <2> SUFFICES ASSUME BaseInv, OrderInv, AckInv, RecInv, CaughtUp
               PROVE  recorder = "on" <=> RecordingAfter[Len(stream)]
    BY DEF RecorderFollowsHistory
  <2>1. /\ pid \in Pids /\ batch = <<>> /\ Len(batch) = 0 /\ cursor[pid] \in Nat
        /\ cursor[pid] = Len(stream)
    BY Places, EmptySeq DEF CaughtUp, BaseInv, PlaceInv
  <2>2. Passed(pid) = Len(stream)
    BY <2>1 DEF Passed
  <2>3. ASSUME NEW i \in 1 .. Len(stream), stream[i] \in RecorderKinds
        PROVE  i \in decided[pid]
    <3>1. CASE i \in pending[pid]
      BY <2>3, <3>1 DEF CaughtUp
    <3>2. CASE i \notin pending[pid]
      <4>1. i \in Settled(pid)
        BY <2>1, <3>2 DEF AckInv, AcknowledgedIsSettled
      <4>2. i \notin Forwarded(pid)
        <5> SUFFICES ASSUME NEW j \in DOMAIN sent[pid], i = sent[pid][j] PROVE FALSE
          BY DEF Forwarded
        <5>1. DOMAIN sent[pid] = 1 .. Len(sent[pid])
          BY <2>1, LenProperties DEF BaseInv, TypeOK
        <5>2. stream[i] \in Targets
          BY <2>1, <5>1 DEF OrderInv, SentInv
        <5> QED
          BY <2>3, <5>2, RelayAssumption
      <4>3. stream[i] # "junk"
        BY <2>3 DEF RecorderKinds
      <4> QED
        BY <4>1, <4>2, <4>3 DEF Settled
    <3> QED
      BY <3>1, <3>2
  <2>4. Carried(pid)
    BY <2>2, <2>3 DEF Carried
  <2> QED
    BY <2>2, <2>4 DEF RecInv, Reckoned, CaughtUp
<1> QED
  BY <1>1, BaseInvariant, OrderInvariant, AckInvariant, RecInvariant, PTL

===============================================================================
