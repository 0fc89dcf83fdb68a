-------------------------- MODULE IpcClient_proofs --------------------------
(* Proofs about IpcClient for any set of messages, frame sizes, size of    *)
(* the file, bounds of queue and pipe, and number of crashes, outages and  *)
(* restarts.  The invariants are proved in layers, each inductive under    *)
(* the ones before it: the types together with the head of the file, the   *)
(* whereabouts of an accepted message, the copies of a message, and the    *)
(* order of the messages that never went through the file.                 *)
EXTENDS IpcClient, FiniteSetTheorems, SequenceTheorems, TLAPS

-----------------------------------------------------------------------------
(* The messages, and the one that is read from a torn frame.               *)

Any == Msgs \cup {NoMsg}

LEMMA AnyFacts ==
    /\ NoMsg \notin Msgs /\ Msgs \subseteq Any /\ NoMsg \in Any
    /\ \A x \in Any : x # NoMsg => x \in Msgs
    /\ \A q \in Seq(Msgs) : q \in Seq(Any)
    /\ TypeOK => pipe \in Seq(Any) /\ sent \in Seq(Any)
BY IpcAssumption DEF Any, TypeOK

-----------------------------------------------------------------------------
(* The head of the file.  read_ptr stays 0, so what matters is the frame   *)
(* at offset 0: the next frame begins behind it, or over it.               *)

HeadInv ==
    /\ count > 0 => \/ start[0] # NoMsg /\ (wptr = 0 \/ Size[start[0]] <= wptr)
                    \/ wptr = 0 /\ (pc = "write" \/ cut)
    /\ count = 0 => wptr = 0

(* The frame that is being written fits where it is, and once all of it is *)
(* written it is whole.                                                    *)
FrameInv ==
    frame # NoMsg => /\ ~Crosses(frame) /\ frame \in buffered
                     /\ pc = "header" => start[wptr] = frame

(* The worker holds messages only while it sends.                          *)
BatchInv == pc \notin {"send", "write", "header"} => batch = <<>>

(* What is in the file was buffered.                                       *)
FileInv == \A o \in Offsets : start[o] # NoMsg => start[o] \in buffered

BaseInv == TypeOK /\ HeadInv /\ FrameInv /\ BatchInv /\ FileInv

(* Offsets wrap at the end of the area.                                    *)
LEMMA Wrap ==
    /\ Area \in Nat /\ Area > 0
    /\ \A x \in Nat : x % Area \in Offsets
    /\ \A x \in Offsets : x % Area = x
    /\ Area % Area = 0
BY IpcAssumption DEF Offsets

(* The cells of a frame that does not reach the end of the area.           *)
LEMMA CellsStraight ==
    ASSUME NEW o \in Offsets, NEW n \in Nat, o + n <= Area
    PROVE  Cells(o, n) = o .. o + n - 1
<1>1. \A k \in 0 .. n - 1 : (o + k) % Area = o + k
  BY Wrap DEF Offsets
<1>2. ASSUME NEW x \in o .. o + n - 1 PROVE x \in Cells(o, n)
  <2>1. x - o \in 0 .. n - 1 /\ x = o + (x - o)
    BY <1>2 DEF Offsets
  <2>2. x = (o + (x - o)) % Area
    BY <1>1, <2>1
  <2> QED
    BY <2>1, <2>2 DEF Cells
<1>3. ASSUME NEW x \in Cells(o, n) PROVE x \in o .. o + n - 1
  <2>1. PICK k \in 0 .. n - 1 : x = (o + k) % Area
    BY <1>3 DEF Cells
  <2> QED
    BY <1>1, <2>1 DEF Offsets
<1> QED
  BY <1>2, <1>3

(* Erasing the frames that a write hits leaves a file of frames.           *)
LEMMA EraseType ==
    ASSUME TypeOK, NEW C
    PROVE  /\ Erase(C) \in [Offsets -> Msgs \cup {NoMsg}]
           /\ \A o \in Offsets : Erase(C)[o] # NoMsg => Erase(C)[o] = start[o]
           /\ Erased(C) \subseteq Msgs \X {"overwritten"}
BY DEF Erase, Erased, Hit, TypeOK

(* The first frame survives a write that begins behind it and does not     *)
(* cross the end of the area.                                              *)
LEMMA HeadSurvives ==
    ASSUME TypeOK, HeadInv, count > 0, wptr > 0,
           NEW n \in Nat, wptr + n <= Area
    PROVE  Erase(Cells(wptr, n))[0] = start[0]
<1> DEFINE C == Cells(wptr, n)
<1>1. wptr \in Offsets /\ 0 \in Offsets /\ start[0] \in Msgs
  BY Wrap DEF TypeOK, HeadInv, Offsets
<1>2. Size[start[0]] \in Nat /\ Size[start[0]] <= wptr /\ 0 + Size[start[0]] <= Area
  BY <1>1, IpcAssumption DEF HeadInv, Offsets
<1>3. Cells(0, Size[start[0]]) = 0 .. 0 + Size[start[0]] - 1
  BY <1>1, <1>2, CellsStraight
<1>4. C = wptr .. wptr + n - 1
  BY <1>1, CellsStraight
<1>5. 0 \notin Hit(C)
  BY <1>1, <1>2, <1>3, <1>4 DEF Hit, Offsets
<1> QED
  BY <1>1, <1>5 DEF Erase

(* The client as constructed.                                              *)
LEMMA InitBase == Init => BaseInv
<1> SUFFICES ASSUME Init PROVE BaseInv
  OBVIOUS
<1>1. <<>> \in Seq(Msgs) /\ <<>> \in Seq(Msgs \cup {NoMsg}) /\ Len(<<>>) = 0
  BY EmptySeq
<1>2. 0 \in Offsets
  BY Wrap DEF Offsets
<1> QED
  BY <1>1, <1>2, IpcAssumption, AnyFacts
  DEF Init, BaseInv, TypeOK, HeadInv, FrameInv, BatchInv, FileInv

(* A step of add_to_mmap_buffer begins a frame, or writes part of one that *)
(* would cross the end, or leaves the file alone.                          *)
LEMMA BufferBase ==
    ASSUME BaseInv, batch # <<>>, AddToMmapBuffer, pc = "send", cut' = cut
    PROVE  /\ start' \in [Offsets -> Msgs \cup {NoMsg}]
           /\ wptr' = wptr /\ count' = count
           /\ frame' \in Msgs \cup {NoMsg} /\ pc' \in {"send", "write"}
           /\ frame' # NoMsg <=> pc' = "write"
           /\ buffered' \subseteq Msgs
           /\ lost' \subseteq Msgs \X {"closed", "oversize", "torn", "overwritten",
                                         "socket", "transit", "crash"}
           /\ HeadInv' /\ FrameInv' /\ FileInv'
<1> DEFINE m == Head(batch)
           Causes == {"closed", "oversize", "torn", "overwritten",
                        "socket", "transit", "crash"}
<1>0. /\ m \in Msgs /\ m # NoMsg /\ Size[m] \in Nat \ {0} /\ wptr \in Offsets
      /\ frame = NoMsg /\ cut \in BOOLEAN /\ lost \subseteq Msgs \X Causes
  BY HeadTailProperties, IpcAssumption DEF BaseInv, TypeOK
<1> USE DEF BaseInv
<1> HIDE DEF m
<1>1. CASE \E c \in {"closed", "oversize"} : BufferRefused(m, c)
  <2>1. PICK c \in {"closed", "oversize"} : BufferRefused(m, c)
    BY <1>1
  <2>2. lost' = lost \cup (({m} \ {NoMsg}) \X {c})
        /\ UNCHANGED <<start, wptr, count, buffered, frame, pc>>
    BY <2>1 DEF BufferRefused, Drop, fileVars
  <2>3. lost' \subseteq Msgs \X Causes
    BY <1>0, <2>2
  <2> QED
    BY <1>0, <2>2, <2>3 DEF TypeOK, HeadInv, FrameInv, FileInv
<1>2. CASE ~TooLarge(m) /\ Crosses(m) /\ BufferTorn(m)
  <2>1. PICK n \in 0 .. Area - wptr :
            /\ start' = Erase(Cells(wptr, n))
            /\ lost' = lost \cup Erased(Cells(wptr, n)) \cup {<<m, "torn">>}
    BY <1>2 DEF BufferTorn
  <2>2. n \in Nat /\ wptr + n <= Area
    BY <1>0, Wrap DEF Offsets
  (* A frame that fits does not cross the end when it begins at offset 0.  *)
  <2>3. wptr > 0
    BY <1>0, <1>2, Wrap DEF TooLarge, Crosses, Offsets
  <2>4. count > 0 => start'[0] = start[0]
    BY <2>1, <2>2, <2>3, HeadSurvives
  <2>5. HeadInv'
    BY <1>0, <1>2, <2>3, <2>4 DEF BufferTorn, HeadInv, Offsets
  <2>6. start' \in [Offsets -> Msgs \cup {NoMsg}] /\ FileInv'
    BY <1>2, <2>1, EraseType DEF BufferTorn, FileInv
  <2>7. lost' \subseteq Msgs \X Causes
    BY <1>0, <2>1, EraseType
  <2> QED
    BY <1>0, <1>2, <2>5, <2>6, <2>7 DEF BufferTorn, TypeOK, FrameInv
<1>3. CASE ~TooLarge(m) /\ ~Crosses(m) /\ BeginFrame(m)
  <2>1. PICK n \in 0 .. Size[m] - 1 :
            /\ start' = Erase(Cells(wptr, n))
            /\ lost' = lost \cup Erased(Cells(wptr, n))
    BY <1>3 DEF BeginFrame
  <2>2. /\ frame' = m /\ buffered' = buffered \cup {m} /\ pc' = "write"
        /\ wptr' = wptr /\ count' = count
    BY <1>3 DEF BeginFrame
  <2>3. n \in Nat /\ wptr + n <= Area
    BY <1>0, <1>3, Wrap DEF Crosses, Offsets
  <2>4. start' \in [Offsets -> Msgs \cup {NoMsg}] /\ FileInv'
    BY <2>1, <2>2, EraseType DEF FileInv
  <2>5. HeadInv'
    <3>1. CASE wptr = 0
      BY <2>2, <3>1 DEF HeadInv
    <3>2. CASE wptr > 0
      <4>1. count > 0 => start'[0] = start[0]
        BY <2>1, <2>3, <3>2, HeadSurvives
      <4> QED
        BY <1>0, <2>2, <3>2, <4>1 DEF HeadInv, Offsets
    <3> QED
      BY <1>0, <3>1, <3>2 DEF Offsets
  <2>6. lost' \subseteq Msgs \X Causes
    BY <1>0, <2>1, EraseType
  <2>7. FrameInv'
    BY <1>3, <2>2 DEF FrameInv, Crosses
  <2> QED
    BY <1>0, <2>2, <2>4, <2>5, <2>6, <2>7 DEF TypeOK
<1> QED
  BY <1>1, <1>2, <1>3 DEF AddToMmapBuffer, m

(* The rest of the frame.                                                  *)
LEMMA FillBase ==
    ASSUME BaseInv, FillFrame
    PROVE  BaseInv'
<1> DEFINE C == Cells(wptr, Size[frame])
<1>1. /\ pc = "write" /\ pc' = "header"
      /\ start' = [Erase(C) EXCEPT ![wptr] = frame]
      /\ lost' = lost \cup Erased(C) /\ cut' = FALSE
      /\ UNCHANGED <<unsent, calls, queue, batch, frame, lane, pipe, shutdown,
                     closed, lives, crashes, wptr, count, up, outages,
                     accepted, sent, buffered>>
  BY DEF FillFrame, lifeVars, peerVars
<1> HIDE DEF C
<1>2. /\ frame \in Msgs /\ frame # NoMsg /\ Size[frame] \in Nat \ {0}
      /\ wptr \in Offsets /\ wptr + Size[frame] <= Area /\ frame \in buffered
  BY <1>1, Wrap, IpcAssumption DEF BaseInv, TypeOK, FrameInv, Crosses, Offsets
<1>3. /\ start' \in [Offsets -> Msgs \cup {NoMsg}]
      /\ start'[wptr] = frame
      /\ \A o \in Offsets : o # wptr => start'[o] = Erase(C)[o]
  BY <1>1, <1>2, EraseType DEF BaseInv
<1>4. lost' \subseteq Msgs \X {"closed", "oversize", "torn", "overwritten",
                               "socket", "transit", "crash"}
  BY <1>1, EraseType DEF BaseInv, TypeOK
<1>5. TypeOK'
  BY <1>1, <1>2, <1>3, <1>4 DEF BaseInv, TypeOK
<1>6. FileInv'
  BY <1>1, <1>2, <1>3, EraseType DEF BaseInv, FileInv
<1>7. HeadInv'
  <2>1. CASE wptr = 0
    BY <1>1, <1>2, <1>3, <2>1 DEF BaseInv, HeadInv
  <2>2. CASE wptr > 0
    <3>1. 0 \in Offsets /\ 0 # wptr
      BY <2>2, Wrap DEF Offsets
    <3>2. count > 0 => start'[0] = start[0]
      BY <1>2, <1>3, <2>2, <3>1, HeadSurvives DEF BaseInv, C
    <3> QED
      BY <1>1, <3>1, <3>2 DEF BaseInv, HeadInv
  <2> QED
    BY <1>2, <2>1, <2>2 DEF Offsets
<1>8. FrameInv' /\ BatchInv'
  BY <1>1, <1>2, <1>3 DEF BaseInv, FrameInv, BatchInv, Crosses
<1> QED
  BY <1>5, <1>6, <1>7, <1>8 DEF BaseInv

(* The header counts the frame.                                            *)
LEMMA HeaderBase ==
    ASSUME BaseInv, WriteHeader
    PROVE  BaseInv'
<1>1. /\ pc = "header" /\ pc' = "send" /\ frame' = NoMsg
      /\ wptr' = (wptr + Size[frame]) % Area /\ count' = count + 1
      /\ UNCHANGED <<unsent, calls, queue, batch, lane, pipe, shutdown, closed,
                     lives, crashes, start, cut, up, outages, accepted, sent,
                     buffered, lost>>
  BY DEF WriteHeader, lifeVars, peerVars
<1>2. /\ frame \in Msgs /\ frame # NoMsg /\ Size[frame] \in Nat \ {0}
      /\ wptr \in Offsets /\ wptr + Size[frame] <= Area /\ start[wptr] = frame
      /\ count \in Nat
  BY <1>1, Wrap, IpcAssumption DEF BaseInv, TypeOK, FrameInv, Crosses, Offsets
<1>3. wptr' \in Offsets /\ (wptr' = 0 \/ wptr' = wptr + Size[frame])
  <2>1. CASE wptr + Size[frame] = Area
    <3>1. wptr' = 0
      BY <1>1, <2>1, Wrap
    <3> QED
      BY <3>1, Wrap DEF Offsets
  <2>2. CASE wptr + Size[frame] # Area
    <3>1. wptr + Size[frame] \in Offsets
      BY <1>2, <2>2, Wrap DEF Offsets
    <3>2. wptr' = wptr + Size[frame]
      BY <1>1, <3>1, Wrap
    <3> QED
      BY <3>1, <3>2
  <2> QED
    BY <2>1, <2>2
<1>4. count' \in Nat /\ count' > 0
  BY <1>1, <1>2
<1>5. TypeOK'
  BY <1>1, <1>2, <1>3, <1>4 DEF BaseInv, TypeOK
<1>6. HeadInv'
  <2>1. start[0] # NoMsg /\ (wptr' = 0 \/ Size[start[0]] <= wptr')
    <3>1. CASE wptr = 0
      BY <1>2, <1>3, <3>1
    <3>2. CASE wptr > 0
      <4>1. start[0] # NoMsg /\ Size[start[0]] <= wptr
        BY <1>2, <3>2 DEF BaseInv, HeadInv
      <4>2. Size[start[0]] \in Nat /\ wptr \in Nat
        <5>1. 0 \in Offsets /\ start[0] \in Msgs
          BY <4>1, Wrap DEF BaseInv, TypeOK, Offsets
        <5> QED
          BY <1>2, <5>1, IpcAssumption DEF Offsets
      <4> QED
        BY <1>2, <1>3, <4>1, <4>2
    <3> QED
      BY <1>2, <3>1, <3>2 DEF Offsets
  <2> QED
    BY <1>1, <1>4, <2>1 DEF HeadInv
<1>7. FrameInv' /\ BatchInv' /\ FileInv'
  BY <1>1 DEF BaseInv, FrameInv, BatchInv, FileInv
<1> QED
  BY <1>5, <1>6, <1>7 DEF BaseInv

(* Every step of the callers, the worker, the transport and the process    *)
(* keeps the types and the head of the file.                               *)
LEMMA BaseStep == BaseInv /\ [Next]_vars => BaseInv'
<1> SUFFICES ASSUME BaseInv, [Next]_vars PROVE BaseInv'
  OBVIOUS
<1>0. /\ queue \in Seq(Msgs) /\ batch \in Seq(Msgs) /\ pipe \in Seq(Any)
      /\ accepted \in Seq(Msgs) /\ sent \in Seq(Any)
      /\ <<>> \in Seq(Msgs) /\ <<>> \in Seq(Any) /\ Len(<<>>) = 0
      /\ Len(queue) \in Nat /\ Len(pipe) \in Nat
      /\ QueueMax \in Nat /\ Hwm \in Nat
  BY LenProperties, EmptySeq, IpcAssumption, AnyFacts DEF BaseInv, TypeOK
<1>n. Any = Msgs \cup {NoMsg} /\ Msgs \subseteq Any
  BY DEF Any
<1>a. ASSUME NEW S, NEW q \in Seq(S), NEW m \in S
      PROVE  Append(q, m) \in Seq(S) /\ Len(Append(q, m)) = Len(q) + 1
  BY AppendProperties
<1>t. ASSUME NEW S, NEW q \in Seq(S), q # <<>>
      PROVE  Head(q) \in S /\ Tail(q) \in Seq(S) /\ Len(Tail(q)) = Len(q) - 1
  BY <1>t, HeadTailProperties
<1>l. ASSUME NEW M \in SUBSET Any,
             NEW c \in {"closed", "oversize", "torn", "overwritten",
                          "socket", "transit", "crash"},
             Drop(M, c)
      PROVE  lost' \subseteq Msgs \X {"closed", "oversize", "torn", "overwritten",
                                        "socket", "transit", "crash"}
  <2>0. M \ {NoMsg} \subseteq Msgs
    BY <1>n
  <2>1. (M \ {NoMsg}) \X {c} \subseteq Msgs \X {"closed", "oversize", "torn", "overwritten",
                                      "socket", "transit", "crash"}
    BY <2>0
  <2> QED
    BY <1>l, <2>1 DEF Drop, BaseInv, TypeOK
<1>e. /\ Elements(pipe) \subseteq Any
      /\ {frame} \cup Elements(queue) \cup Elements(batch) \cup Elements(pipe) \subseteq Any
  <2>1. ASSUME NEW S, NEW q \in Seq(S) PROVE Elements(q) \subseteq S
    <3>1. DOMAIN q = 1 .. Len(q)
      BY LenProperties
    <3>2. \A i \in 1 .. Len(q) : q[i] \in S
      BY ElementOfSeq
    <3> QED
      BY <3>1, <3>2 DEF Elements
  <2>2. Elements(pipe) \subseteq Any
    BY <1>0, <2>1
  <2>3. Elements(queue) \subseteq Msgs /\ Elements(batch) \subseteq Msgs
    BY <1>0, <2>1
  <2>4. frame \in Any
    BY <1>n DEF BaseInv, TypeOK
  <2> QED
    BY <1>n, <2>2, <2>3, <2>4
<1> USE DEF BaseInv, TypeOK, BatchInv, HeadInv, FrameInv, FileInv, Crosses,
            fileVars, frameVars, peerVars, lifeVars
<1>1. ASSUME NEW m \in Msgs, SendCheck(m) PROVE BaseInv'
  BY <1>1 DEF SendCheck
<1>2. ASSUME NEW m \in Msgs, SendPut(m) PROVE BaseInv'
  <2>1. CASE Len(queue) < QueueMax
    <3>0. queue' = Append(queue, m) /\ accepted' = Append(accepted, m)
      BY <1>2, <2>1 DEF SendPut
    <3>1. queue' \in Seq(Msgs) /\ Len(queue') <= QueueMax /\ accepted' \in Seq(Msgs)
      BY <1>0, <1>a, <2>1, <3>0
    <3> QED
      BY <1>2, <2>1, <3>1 DEF SendPut
  <2>2. CASE ~(Len(queue) < QueueMax)
    BY <1>2, <2>2 DEF SendPut
  <2> QED
    BY <2>1, <2>2
<1>3. CASE Drain
  <2>1. queue' \in Seq(Msgs) /\ Len(queue') <= QueueMax /\ batch' \in Seq(Msgs)
    BY <1>0, <1>3 DEF Drain
  <2> QED
    BY <1>3, <2>1 DEF Drain
<1>4. CASE WorkerExit
  BY <1>4 DEF WorkerExit
<1>5. CASE SendNow
  <2>1. Head(batch) \in Msgs /\ Head(batch) \in Any /\ batch' \in Seq(Msgs)
    BY <1>0, <1>n, <1>5, <1>t DEF SendNow
  <2>2. pipe' = Append(pipe, Head(batch)) /\ Len(pipe) < Hwm
    BY <1>5 DEF SendNow, Sendable
  <2>3. pipe' \in Seq(Any) /\ Len(pipe') = Len(pipe) + 1
    BY <1>0, <1>a, <2>1, <2>2
  <2>4. pipe' \in Seq(Any) /\ Len(pipe') <= Hwm /\ batch' \in Seq(Msgs)
    BY <1>0, <2>1, <2>2, <2>3
  <2> QED
    BY <1>5, <1>n, <2>4 DEF SendNow
<1>6. CASE SendFails
  <2>1. /\ batch # <<>> /\ AddToMmapBuffer /\ pc = "send" /\ cut' = cut
        /\ batch' = Tail(batch)
        /\ UNCHANGED <<unsent, calls, queue, lane, pipe, lifeVars, peerVars,
                       accepted, sent>>
    BY <1>6 DEF SendFails
  <2>2. /\ start' \in [Offsets -> Msgs \cup {NoMsg}]
        /\ wptr' = wptr /\ count' = count
        /\ frame' \in Msgs \cup {NoMsg} /\ pc' \in {"send", "write"}
        /\ frame' # NoMsg <=> pc' = "write"
        /\ buffered' \subseteq Msgs
        /\ lost' \subseteq Msgs \X {"closed", "oversize", "torn", "overwritten",
                                      "socket", "transit", "crash"}
        /\ HeadInv' /\ FrameInv' /\ FileInv'
    BY <2>1, BufferBase
  <2>3. batch' \in Seq(Msgs)
    BY <1>0, <1>t, <2>1
  <2>4. TypeOK'
    BY <2>1, <2>2, <2>3
  <2>5. BatchInv'
    BY <2>2
  <2> QED
    BY <2>2, <2>4, <2>5
<1>16. ASSUME FrameCutShort PROVE BaseInv'
  <2>1. lost' \subseteq Msgs \X {"closed", "oversize", "torn", "overwritten",
                                   "socket", "transit", "crash"}
    BY <1>16, <1>l, <1>e DEF FrameCutShort
  <2> QED
    BY <1>16, <2>1 DEF FrameCutShort
<1>7. CASE ReplayNothing \/ ReplayUnreadable
  BY <1>7 DEF ReplayNothing, ReplayUnreadable
<1>8. CASE ReplaySend
  <2>1. start[0] \in Any
    BY <1>n, Wrap DEF Offsets
  <2>2. pipe' \in Seq(Any) /\ Len(pipe') <= Hwm
    BY <1>0, <1>8, <1>a, <2>1 DEF ReplaySend
  <2> QED
    BY <1>8, <1>n, <2>2 DEF ReplaySend
<1>9. CASE ReplayFails
  <2>1. lost' \subseteq Msgs \X {"closed", "oversize", "torn", "overwritten",
                                   "socket", "transit", "crash"}
    BY <1>9, <1>l, <1>e DEF ReplayFails
  <2>2. pipe' \in Seq(Any) /\ Len(pipe') <= Hwm
    BY <1>0, <1>9 DEF ReplayFails
  <2> QED
    BY <1>9, <2>1, <2>2 DEF ReplayFails
<1>10. CASE Transmit
  <2>1. pipe' \in Seq(Any) /\ Len(pipe') <= Hwm /\ sent' \in Seq(Any)
    BY <1>0, <1>10, <1>a, <1>t DEF Transmit
  <2> QED
    BY <1>10, <2>1 DEF Transmit
<1>11. CASE PeerGoes
  <2>1. outages' \in 0 .. MaxOutages
    BY <1>11, IpcAssumption DEF PeerGoes
  <2>2. pipe' \in Seq(Any) /\ Len(pipe') <= Hwm
    <3>1. CASE UNCHANGED pipe
      BY <1>0, <3>1
    <3>2. CASE pipe # <<>> /\ pipe' = Tail(pipe)
      BY <1>0, <1>t, <3>2
    <3> QED
      BY <1>11, <3>1, <3>2 DEF PeerGoes
  <2>3. pipe # <<>> => {Head(pipe)} \subseteq Any
    BY <1>0, <1>t
  <2>4. lost' \subseteq Msgs \X {"closed", "oversize", "torn", "overwritten",
                                   "socket", "transit", "crash"}
    <3>1. CASE UNCHANGED lost
      BY <3>1
    <3>2. CASE pipe # <<>> /\ Drop({Head(pipe)}, "transit")
      BY <1>l, <2>3, <3>2
    <3> QED
      BY <1>11, <3>1, <3>2 DEF PeerGoes
  <2> QED
    BY <1>11, <1>n, <2>1, <2>2, <2>4 DEF PeerGoes
<1>12. CASE PeerReturns
  BY <1>12 DEF PeerReturns
<1>13. CASE Close
  BY <1>13 DEF Close
<1>14. CASE CloseFinish
  <2>1. lost' \subseteq Msgs \X {"closed", "oversize", "torn", "overwritten",
                                   "socket", "transit", "crash"}
    BY <1>14, <1>l, <1>e DEF CloseFinish
  <2>2. pipe' \in Seq(Any) /\ Len(pipe') <= Hwm
    BY <1>0, <1>14 DEF CloseFinish
  <2> QED
    BY <1>14, <2>1, <2>2 DEF CloseFinish
<1>15. ASSUME End \/ Crash PROVE BaseInv'
  <2>1. /\ queue' = <<>> /\ batch' = <<>> /\ pipe' = <<>> /\ calls' = {} /\ pc' = "down"
        /\ frame' = NoMsg /\ cut' = (cut \/ pc = "write")
        /\ UNCHANGED <<unsent, lane, shutdown, closed, lives, fileVars, peerVars,
                       accepted, sent, buffered>>
    BY <1>15 DEF End, Crash, Die
  <2>2. lost' \subseteq Msgs \X {"closed", "oversize", "torn", "overwritten",
                                   "socket", "transit", "crash"}
    BY <1>15, <1>l, <1>e DEF End, Crash, Die
  <2>3. crashes' \in 0 .. MaxCrashes
    BY <1>15, IpcAssumption DEF End, Crash
  <2>4. TypeOK'
    BY <1>0, <1>n, <2>1, <2>2, <2>3
  <2>5. HeadInv' /\ FrameInv' /\ BatchInv' /\ FileInv'
    BY <2>1
  <2> QED
    BY <2>4, <2>5
<1>17. CASE Restart
  <2>1. lives' \in 1 .. MaxLives
    BY IpcAssumption, <1>17 DEF Restart
  <2> QED
    BY <1>17, <2>1 DEF Restart
<1>18. CASE UNCHANGED vars
  BY <1>18 DEF vars
<1> HIDE DEF BaseInv
<1> QED
  BY <1>1, <1>2, <1>3, <1>4, <1>5, <1>6, <1>7, <1>8, <1>9, <1>10, <1>11, <1>12,
     <1>13, <1>14, <1>15, <1>16, <1>17, <1>18, FillBase, HeaderBase
  DEF Next, WorkerStep

(* The types and the head of the file hold in every reachable state.       *)
LEMMA BaseInvariant == Spec => []BaseInv
BY InitBase, BaseStep, PTL DEF Spec

(* The variables have their types, the bounds of the queue and the pipe    *)
(* included, in every reachable state.                                     *)
THEOREM Typing == Spec => []TypeOK
<1>1. BaseInv => TypeOK
  BY DEF BaseInv
<1> QED
  BY <1>1, BaseInvariant, PTL

(* Whenever the header of the file counts a message, the replay finds a    *)
(* whole frame at read_ptr, however often the writing has wrapped; unless  *)
(* it has wrapped to exactly the start and the frame begun there is not    *)
(* complete, being written or cut short by a crash or by close().          *)
THEOREM HeadStays == Spec => []HeadIntact
<1>1. BaseInv => HeadIntact
  BY DEF BaseInv, HeadInv, HeadIntact
<1> QED
  BY <1>1, BaseInvariant, PTL

-----------------------------------------------------------------------------
(* The whereabouts of an accepted message.                                 *)

Accounted(m) == Held(m) \/ In(m, sent) \/ Lost(m)

LossInv == \A m \in Msgs : In(m, accepted) => Accounted(m)

(* What a sequence holds after an append, before and after its head is     *)
(* taken off, and when it is empty.                                        *)
LEMMA InSequences ==
    /\ \A x : ~In(x, <<>>)
    /\ \A q \in Seq(Any), y \in Any : \A x :
          In(x, Append(q, y)) <=> In(x, q) \/ x = y
    /\ \A q \in Seq(Any) : q # <<>> =>
          \A x : In(x, q) <=> x = Head(q) \/ In(x, Tail(q))
    /\ \A q \in Seq(Any) : \A x : In(x, q) <=> x \in Elements(q)
    /\ \A q \in Seq(Any) : \A x : In(x, q) => x \in Any
    /\ \A q \in Seq(Msgs) : \A x : In(x, q) => x \in Msgs
<1>1. \A x : ~In(x, <<>>)
  BY DEF In
<1>2. ASSUME NEW q \in Seq(Any), NEW y \in Any, NEW x
      PROVE  In(x, Append(q, y)) <=> In(x, q) \/ x = y
  <2>1. /\ Len(q) \in Nat /\ DOMAIN q = 1 .. Len(q)
        /\ DOMAIN Append(q, y) = 1 .. Len(q) + 1
        /\ \A i \in 1 .. Len(q) : Append(q, y)[i] = q[i]
        /\ Append(q, y)[Len(q) + 1] = y
    BY AppendProperties, LenProperties
  <2> QED
    BY <2>1 DEF In
<1>3. ASSUME NEW q \in Seq(Any), q # <<>>, NEW x
      PROVE  In(x, q) <=> x = Head(q) \/ In(x, Tail(q))
  <2>1. /\ Len(q) \in Nat /\ Len(q) > 0 /\ DOMAIN q = 1 .. Len(q)
        /\ DOMAIN Tail(q) = 1 .. Len(q) - 1
        /\ \A i \in 1 .. Len(q) - 1 : Tail(q)[i] = q[i + 1]
        /\ Head(q) = q[1]
    <3>1. Tail(q) \in Seq(Any) /\ Len(Tail(q)) = Len(q) - 1
          /\ \A i \in 1 .. Len(Tail(q)) : Tail(q)[i] = q[i + 1]
      BY <1>3, HeadTailProperties
    <3>2. Len(q) \in Nat /\ Len(q) > 0 /\ DOMAIN q = 1 .. Len(q)
      BY <1>3, LenProperties, EmptySeq
    <3>3. DOMAIN Tail(q) = 1 .. Len(Tail(q))
      BY <3>1, LenProperties
    <3> QED
      BY <3>1, <3>2, <3>3
  <2>2. ASSUME In(x, q) PROVE x = Head(q) \/ In(x, Tail(q))
    <3>1. PICK i \in 1 .. Len(q) : q[i] = x
      BY <2>1, <2>2 DEF In
    <3>2. CASE i = 1
      BY <2>1, <3>1, <3>2
    <3>3. CASE i # 1
      <4>1. i - 1 \in 1 .. Len(q) - 1 /\ Tail(q)[i - 1] = x
        BY <2>1, <3>1, <3>3
      <4> QED
        BY <2>1, <4>1 DEF In
    <3> QED
      BY <3>2, <3>3
  <2>3. ASSUME x = Head(q) \/ In(x, Tail(q)) PROVE In(x, q)
    BY <2>1, <2>3 DEF In
  <2> QED
    BY <2>2, <2>3
<1>4. ASSUME NEW S, NEW q \in Seq(S), NEW x
      PROVE  (In(x, q) <=> x \in Elements(q)) /\ (In(x, q) => x \in S)
  <2>1. DOMAIN q = 1 .. Len(q) /\ \A i \in 1 .. Len(q) : q[i] \in S
    BY LenProperties, ElementOfSeq
  <2> QED
    BY <2>1 DEF In, Elements
<1> QED
  BY <1>1, <1>2, <1>3, <1>4

(* What is dropped with a cause is lost, and stays lost.                   *)
LEMMA Dropped ==
    ASSUME NEW M, NEW c, Drop(M, c)
    PROVE  \A m : (m \in M /\ m # NoMsg) \/ Lost(m) => Lost(m)'
<1>1. ASSUME NEW m, m \in M, m # NoMsg PROVE Lost(m)'
  <2>1. <<m, c>> \in lost'
    BY <1>1 DEF Drop
  <2> QED
    BY <2>1 DEF Lost
<1>2. ASSUME NEW m, Lost(m) PROVE Lost(m)'
  BY <1>2 DEF Lost, Drop
<1> QED
  BY <1>1, <1>2

(* Writing to the file: the message that could not be sent is then being   *)
(* written or lost, and every message whose frame was there still is or is *)
(* lost.                                                                   *)
LEMMA BufferAccounts ==
    ASSUME BaseInv, batch # <<>>, AddToMmapBuffer, NEW m, m = Head(batch)
    PROVE  /\ frame' = m \/ Lost(m)'
           /\ \A x \in Msgs : InFile(x) \/ Lost(x) => InFile(x)' \/ Lost(x)'
<1>0. /\ m \in Msgs /\ Size[m] \in Nat \ {0} /\ wptr \in Offsets
      /\ start \in [Offsets -> Msgs \cup {NoMsg}] /\ NoMsg \notin Msgs
  BY HeadTailProperties, IpcAssumption DEF BaseInv, TypeOK
<1>1. ASSUME NEW c, BufferRefused(m, c)
      PROVE  /\ Lost(m)'
             /\ \A x \in Msgs : InFile(x) \/ Lost(x) => InFile(x)' \/ Lost(x)'
  <2>1. Drop({m}, c) /\ start' = start
    BY <1>1 DEF BufferRefused, fileVars
  <2>2. \A x : (x \in {m} /\ x # NoMsg) \/ Lost(x) => Lost(x)'
    BY <2>1, Dropped
  <2> QED
    BY <1>0, <2>1, <2>2 DEF InFile
<1>2. ASSUME NEW C, \A o \in Offsets : o \notin Hit(C) /\ start[o] # NoMsg =>
                        start'[o] = start[o],
             lost \cup Erased(C) \subseteq lost'
      PROVE  \A x \in Msgs : InFile(x) \/ Lost(x) => InFile(x)' \/ Lost(x)'
  <2>1. ASSUME NEW x \in Msgs, Lost(x) PROVE Lost(x)'
    BY <1>2, <2>1 DEF Lost
  <2>2. ASSUME NEW x \in Msgs, NEW o \in Offsets, start[o] = x
        PROVE  InFile(x)' \/ Lost(x)'
    <3>1. CASE o \in Hit(C)
      <4>1. <<x, "overwritten">> \in lost'
        BY <1>2, <2>2, <3>1 DEF Erased
      <4> QED
        BY <4>1 DEF Lost
    <3>2. CASE o \notin Hit(C)
      <4>1. start'[o] = x
        BY <1>0, <1>2, <2>2, <3>2
      <4> QED
        BY <4>1 DEF InFile
    <3> QED
      BY <3>1, <3>2
  <2> QED
    BY <2>1, <2>2 DEF InFile
<1>3. ASSUME BufferTorn(m)
      PROVE  /\ Lost(m)'
             /\ \A x \in Msgs : InFile(x) \/ Lost(x) => InFile(x)' \/ Lost(x)'
  <2>1. PICK n \in 0 .. Area - wptr :
            /\ start' = Erase(Cells(wptr, n))
            /\ lost' = lost \cup Erased(Cells(wptr, n)) \cup {<<m, "torn">>}
    BY <1>3 DEF BufferTorn
  <2>2. <<m, "torn">> \in lost'
    BY <2>1
  <2>3. \A o \in Offsets : o \notin Hit(Cells(wptr, n)) => start'[o] = start[o]
    BY <2>1 DEF Erase
  <2>4. Lost(m)'
    BY <2>2 DEF Lost
  <2>5. lost \cup Erased(Cells(wptr, n)) \subseteq lost'
    BY <2>1
  <2> QED
    BY <1>2, <2>3, <2>4, <2>5
<1>4. ASSUME BeginFrame(m)
      PROVE  /\ frame' = m
             /\ \A x \in Msgs : InFile(x) \/ Lost(x) => InFile(x)' \/ Lost(x)'
  <2>1. PICK n \in 0 .. Size[m] - 1 :
            /\ start' = Erase(Cells(wptr, n))
            /\ lost' = lost \cup Erased(Cells(wptr, n))
    BY <1>4 DEF BeginFrame
  <2>2. \A o \in Offsets : o \notin Hit(Cells(wptr, n)) => start'[o] = start[o]
    BY <2>1 DEF Erase
  <2>3. lost \cup Erased(Cells(wptr, n)) \subseteq lost'
    BY <2>1
  <2> QED
    BY <1>2, <1>4, <2>2, <2>3 DEF BeginFrame
<1> QED
  BY <1>1, <1>3, <1>4 DEF AddToMmapBuffer

(* So it is when the rest of the frame is written.                         *)
LEMMA FillAccounts ==
    ASSUME BaseInv, FillFrame
    PROVE  /\ InFile(frame)'
           /\ \A x \in Msgs : InFile(x) \/ Lost(x) => InFile(x)' \/ Lost(x)'
<1> DEFINE C == Cells(wptr, Size[frame])
<1>1. /\ start' = [Erase(C) EXCEPT ![wptr] = frame] /\ lost' = lost \cup Erased(C)
      /\ pc = "write" /\ frame' = frame
  BY DEF FillFrame
<1>0. /\ frame \in Msgs /\ Size[frame] \in Nat \ {0} /\ wptr \in Offsets
      /\ start \in [Offsets -> Msgs \cup {NoMsg}] /\ NoMsg \notin Msgs
  BY <1>1, IpcAssumption DEF BaseInv, TypeOK
<1> HIDE DEF C
<1>2. start'[wptr] = frame
      /\ \A o \in Offsets : o # wptr /\ o \notin Hit(C) => start'[o] = start[o]
  BY <1>0, <1>1 DEF Erase
(* The frame that began where this one does is hit by it.                  *)
<1>3. start[wptr] # NoMsg => wptr \in Hit(C)
  <2>1. ASSUME NEW n \in Nat \ {0} PROVE wptr \in Cells(wptr, n)
    <3>1. 0 \in 0 .. n - 1 /\ (wptr + 0) % Area = wptr
      BY <1>0, Wrap DEF Offsets
    <3> QED
      BY <3>1 DEF Cells
  <2>2. start[wptr] # NoMsg => Size[start[wptr]] \in Nat \ {0}
    BY <1>0, IpcAssumption
  <2> QED
    BY <1>0, <2>1, <2>2 DEF Hit, C
<1>4. ASSUME NEW x \in Msgs, Lost(x) PROVE Lost(x)'
  BY <1>1, <1>4 DEF Lost
<1>5. ASSUME NEW x \in Msgs, NEW o \in Offsets, start[o] = x
      PROVE  InFile(x)' \/ Lost(x)'
  <2>1. CASE o \in Hit(C)
    <3>1. <<x, "overwritten">> \in lost'
      BY <1>1, <1>5, <2>1 DEF Erased
    <3> QED
      BY <3>1 DEF Lost
  <2>2. CASE o \notin Hit(C)
    <3>1. start'[o] = x
      BY <1>0, <1>2, <1>3, <1>5, <2>2
    <3> QED
      BY <3>1 DEF InFile
  <2> QED
    BY <2>1, <2>2
<1>6. InFile(frame)'
  BY <1>0, <1>1, <1>2 DEF InFile
<1> QED
  BY <1>4, <1>5, <1>6 DEF InFile

(* Every step leaves an accepted message accounted for.                    *)
LEMMA LossStep == BaseInv /\ LossInv /\ [Next]_vars => LossInv'
<1> SUFFICES ASSUME BaseInv, LossInv, [Next]_vars,
                    NEW x \in Msgs, In(x, accepted)'
             PROVE  Accounted(x)'
  BY DEF LossInv
<1>0. /\ queue \in Seq(Any) /\ batch \in Seq(Any) /\ pipe \in Seq(Any)
      /\ accepted \in Seq(Any) /\ sent \in Seq(Any)
      /\ \A o \in Offsets : start[o] \in Any
      /\ x \in Any /\ x # NoMsg /\ Msgs \subseteq Any
  BY AnyFacts DEF BaseInv, TypeOK, Any
<1>f. ASSUME accepted' = accepted,
             In(x, queue) => In(x, queue)' \/ In(x, batch)' \/ Lost(x)',
             In(x, batch) => In(x, batch)' \/ In(x, pipe)' \/ x = frame' \/ Lost(x)',
             x = frame => x = frame' \/ InFile(x)' \/ Lost(x)',
             In(x, pipe) => In(x, pipe)' \/ In(x, sent)' \/ Lost(x)',
             InFile(x) => InFile(x)' \/ Lost(x)',
             In(x, sent) => In(x, sent)',
             Lost(x) => InFile(x)' \/ Lost(x)'
      PROVE  Accounted(x)'
  <2>1. Accounted(x)
    BY <1>f DEF LossInv, In
  <2> QED
    BY <1>f, <2>1 DEF Accounted, Held
<1>u. ASSUME UNCHANGED <<accepted, queue, batch, frame, pipe, start, sent, lost>>
      PROVE  Accounted(x)'
  BY <1>u DEF LossInv, Accounted, Held, In, InFile, Lost
<1>1. ASSUME NEW m \in Msgs, SendPut(m) PROVE Accounted(x)'
  <2>1. CASE Len(queue) < QueueMax
    <3>1. queue' = Append(queue, m) /\ accepted' = Append(accepted, m)
          /\ UNCHANGED <<batch, frame, pipe, start, sent, lost>>
      BY <1>1, <2>1 DEF SendPut, fileVars, frameVars
    <3>2. In(x, accepted) \/ x = m
      BY <1>0, <3>1, InSequences
    <3>3. CASE x = m
      BY <1>0, <3>1, <3>3, InSequences DEF Accounted, Held
    <3>4. CASE In(x, accepted)
      <4>1. Accounted(x)
        BY <3>4 DEF LossInv
      <4>2. In(x, queue) => In(x, queue)'
        BY <1>0, <3>1, InSequences
      <4> QED
        BY <3>1, <4>1, <4>2 DEF Accounted, Held, In, InFile, Lost
    <3> QED
      BY <3>2, <3>3, <3>4
  <2>2. CASE ~(Len(queue) < QueueMax)
    BY <1>1, <1>u, <2>2 DEF SendPut, fileVars, frameVars
  <2> QED
    BY <2>1, <2>2
<1>2. CASE Drain
  <2>1. batch' = queue /\ queue' = <<>> /\ batch = <<>>
        /\ UNCHANGED <<accepted, frame, pipe, start, sent, lost>>
    BY <1>2 DEF Drain, fileVars, frameVars, BaseInv, BatchInv
  <2>2. ~In(x, batch)
    BY <2>1, InSequences
  <2> QED
    BY <1>f, <2>1, <2>2 DEF In, InFile, Lost
<1>3. CASE SendNow
  <2>1. batch # <<>> /\ pipe' = Append(pipe, Head(batch)) /\ batch' = Tail(batch)
        /\ UNCHANGED <<accepted, queue, frame, start, sent, lost>>
    BY <1>3 DEF SendNow, fileVars, frameVars
  <2>2. Head(batch) \in Any
    BY <1>0, <2>1, HeadTailProperties
  <2>3. In(x, batch) => In(x, batch)' \/ In(x, pipe)'
    BY <1>0, <2>1, <2>2, InSequences
  <2>4. In(x, pipe) => In(x, pipe)'
    BY <1>0, <2>1, <2>2, InSequences
  <2> QED
    BY <1>f, <2>1, <2>3, <2>4 DEF In, InFile, Lost
<1>4. CASE SendFails
  <2>1. batch # <<>> /\ AddToMmapBuffer /\ batch' = Tail(batch) /\ frame = NoMsg
        /\ UNCHANGED <<accepted, queue, pipe, sent>>
    BY <1>4 DEF SendFails, BaseInv, TypeOK
  <2>2. InFile(x) \/ Lost(x) => InFile(x)' \/ Lost(x)'
    BY <2>1, BufferAccounts
  <2>3. In(x, batch) => In(x, batch)' \/ x = Head(batch)
    BY <1>0, <2>1, InSequences
  <2>4. x = Head(batch) => x = frame' \/ Lost(x)'
    BY <2>1, BufferAccounts
  <2> QED
    BY <1>0, <1>f, <2>1, <2>2, <2>3, <2>4 DEF In
<1>12. CASE FillFrame
  <2>1. UNCHANGED <<accepted, queue, batch, pipe, sent, frame>>
    BY <1>12 DEF FillFrame
  <2>2. InFile(x) \/ Lost(x) => InFile(x)' \/ Lost(x)'
    BY <1>12, FillAccounts
  <2> QED
    BY <1>f, <2>1, <2>2 DEF In
<1>13. CASE WriteHeader
  <2>1. UNCHANGED <<accepted, queue, batch, pipe, sent, start, lost>>
        /\ pc = "header" /\ frame # NoMsg
    BY <1>13 DEF WriteHeader, BaseInv, TypeOK
  (* The frame is in the file.                                             *)
  <2>2. x = frame => InFile(x)'
    BY <2>1 DEF BaseInv, TypeOK, FrameInv, InFile
  <2> QED
    BY <1>f, <2>1, <2>2 DEF In, InFile, Lost
<1>14. CASE FrameCutShort
  <2>1. UNCHANGED <<accepted, queue, batch, pipe, sent, start>>
        /\ Drop({frame}, "closed")
    BY <1>14 DEF FrameCutShort, fileVars
  <2>2. (x \in {frame} /\ x # NoMsg) \/ Lost(x) => Lost(x)'
    BY <2>1, Dropped
  <2> QED
    BY <1>0, <1>f, <2>1, <2>2 DEF In, InFile
<1>5. CASE ReplaySend
  <2>1. /\ UNCHANGED <<accepted, queue, batch, frame, start, sent, lost>>
        /\ pipe' = pipe \/ pipe' = Append(pipe, start[0])
    BY <1>5 DEF ReplaySend, fileVars, frameVars
  <2>2. start[0] \in Any
    BY <1>0, Wrap DEF Offsets
  <2>3. In(x, pipe) => In(x, pipe)'
    <3>1. CASE pipe' = pipe
      BY <3>1 DEF In
    <3>2. CASE pipe' = Append(pipe, start[0])
      BY <1>0, <2>2, <3>2, InSequences
    <3> QED
      BY <2>1, <3>1, <3>2
  <2> QED
    BY <1>f, <2>1, <2>3 DEF In, InFile, Lost
<1>6. CASE ReplayFails \/ CloseFinish
  <2>1. PICK c : Drop(Elements(pipe), c)
    BY <1>6 DEF ReplayFails, CloseFinish
  <2>2. UNCHANGED <<accepted, queue, batch, frame, start, sent>>
    BY <1>6 DEF ReplayFails, CloseFinish, fileVars, frameVars
  <2>3. x \in Elements(pipe) \/ Lost(x) => Lost(x)'
    BY <1>0, <2>1, Dropped
  <2>4. In(x, pipe) => x \in Elements(pipe)
    BY <1>0, InSequences
  <2> QED
    BY <1>f, <2>2, <2>3, <2>4 DEF In, InFile
<1>7. CASE Transmit
  <2>1. pipe # <<>> /\ sent' = Append(sent, Head(pipe)) /\ pipe' = Tail(pipe)
        /\ UNCHANGED <<accepted, queue, batch, frame, start, lost>>
    BY <1>7 DEF Transmit, fileVars, frameVars
  <2>2. Head(pipe) \in Any
    BY <1>0, <2>1, HeadTailProperties
  <2>3. In(x, pipe) => In(x, pipe)' \/ In(x, sent)'
    BY <1>0, <2>1, <2>2, InSequences
  <2>4. In(x, sent) => In(x, sent)'
    BY <1>0, <2>1, <2>2, InSequences
  <2> QED
    BY <1>f, <2>1, <2>3, <2>4 DEF In, InFile, Lost
<1>8. CASE PeerGoes
  <2>1. UNCHANGED <<accepted, queue, batch, frame, start, sent>>
    BY <1>8 DEF PeerGoes, fileVars, frameVars
  <2>2. CASE UNCHANGED <<pipe, lost>>
    BY <1>u, <2>1, <2>2
  <2>3. CASE pipe # <<>> /\ pipe' = Tail(pipe) /\ Drop({Head(pipe)}, "transit")
    <3>1. x = Head(pipe) \/ Lost(x) => Lost(x)'
      <4>1. (x \in {Head(pipe)} /\ x # NoMsg) \/ Lost(x) => Lost(x)'
        BY <2>3, Dropped
      <4> QED
        BY <1>0, <4>1
    <3>2. In(x, pipe) => In(x, pipe)' \/ x = Head(pipe)
      BY <1>0, <2>3, InSequences
    <3> QED
      BY <1>f, <2>1, <3>1, <3>2 DEF In, InFile
  <2> QED
    BY <1>8, <2>2, <2>3 DEF PeerGoes
<1>9. CASE End \/ Crash
  <2>1. PICK c :
          Drop({frame} \cup Elements(queue) \cup Elements(batch) \cup Elements(pipe), c)
    BY <1>9 DEF End, Crash, Die
  <2>2. UNCHANGED <<accepted, start, sent>>
    BY <1>9 DEF End, Crash, fileVars
  <2>3. \/ x \in {frame} \cup Elements(queue) \cup Elements(batch) \cup Elements(pipe)
        \/ Lost(x)
        => Lost(x)'
    BY <1>0, <2>1, Dropped
  <2>4. x = frame \/ In(x, queue) \/ In(x, batch) \/ In(x, pipe)
            => x \in {frame} \cup Elements(queue) \cup Elements(batch) \cup Elements(pipe)
    BY <1>0, InSequences
  <2> QED
    BY <1>f, <2>2, <2>3, <2>4 DEF In, InFile
<1>10. ASSUME NEW m \in Msgs, SendCheck(m) PROVE Accounted(x)'
  BY <1>10, <1>u DEF SendCheck, fileVars, frameVars
<1>11. CASE WorkerExit \/ ReplayNothing \/ ReplayUnreadable \/ PeerReturns \/ Close
            \/ Restart \/ UNCHANGED vars
  BY <1>11, <1>u DEF WorkerExit, ReplayNothing, ReplayUnreadable, PeerReturns, Close,
                     Restart, vars, fileVars, frameVars
<1> QED
  BY <1>1, <1>2, <1>3, <1>4, <1>5, <1>6, <1>7, <1>8, <1>9, <1>10, <1>11, <1>12,
     <1>13, <1>14
  DEF Next, WorkerStep

(* A message send_data() accepted is with the peer, in memory or whole in  *)
(* the file, or met one of the named ways to be lost, whatever was         *)
(* overwritten, refused, torn or closed and however often the process      *)
(* crashed, in the middle of a frame too.                                  *)
THEOREM LossExplained == Spec => []NoUnexplainedLoss
<1>1. Init => LossInv
  BY InSequences DEF Init, LossInv
<1>2. BaseInv /\ LossInv => NoUnexplainedLoss
  <2> SUFFICES ASSUME BaseInv, LossInv, NEW m \in Elements(accepted)
               PROVE  Held(m) \/ In(m, sent) \/ Lost(m)
    BY DEF NoUnexplainedLoss
  <2>1. In(m, accepted) /\ m \in Msgs
    BY InSequences, AnyFacts DEF BaseInv, TypeOK
  <2> QED
    BY <2>1 DEF LossInv, Accounted
<1> QED
  BY <1>1, <1>2, BaseInvariant, LossStep, PTL DEF Spec

-----------------------------------------------------------------------------
(* The copies of a message.  One that is still on its way to the socket    *)
(* has none and is not in the file; one that was buffered gets at most one *)
(* more per life, by the replay that ends with the loss of the socket.     *)

Once(q) == \A i, j \in DOMAIN q : q[i] = q[j] => i = j

Fresh(m) == m \in unsent \/ m \in calls \/ In(m, queue) \/ In(m, batch)

FreshInv ==
    /\ unsent \cap calls = {}
    /\ Once(queue) /\ Once(batch)
    /\ \A m \in Msgs :
          /\ In(m, queue) \/ In(m, batch) => m \notin unsent \cup calls
          /\ ~(In(m, queue) /\ In(m, batch))
          /\ Fresh(m) => m \notin buffered

Count(q, m) == Cardinality({i \in DOMAIN q : q[i] = m})
Reached(m) == Count(sent, m) + Count(pipe, m)
ReplayAhead == lane = "push" /\ pc \notin {"recv", "down"}

CopiesInv ==
    \A m \in Msgs :
        /\ Fresh(m) => Reached(m) = 0
        /\ Reached(m) <= lives
        /\ m \in buffered /\ ReplayAhead => Reached(m) <= lives - 1

(* A sequence without repetitions stays so when something new is appended  *)
(* and when its head is taken off, which does not occur again.             *)
LEMMA OnceKept ==
    /\ Once(<<>>)
    /\ \A q \in Seq(Msgs), y \in Msgs :
          Once(q) /\ ~In(y, q) => Once(Append(q, y))
    /\ \A q \in Seq(Msgs) : q # <<>> /\ Once(q) =>
          Once(Tail(q)) /\ ~In(Head(q), Tail(q))
<1>1. Once(<<>>)
  BY DEF Once
<1>2. ASSUME NEW q \in Seq(Msgs), NEW y \in Msgs, Once(q), ~In(y, q)
      PROVE  Once(Append(q, y))
  <2>1. /\ Len(q) \in Nat /\ DOMAIN q = 1 .. Len(q)
        /\ DOMAIN Append(q, y) = 1 .. Len(q) + 1
        /\ \A i \in 1 .. Len(q) : Append(q, y)[i] = q[i]
        /\ Append(q, y)[Len(q) + 1] = y
    BY AppendProperties, LenProperties
  <2>2. \A i \in 1 .. Len(q) : Append(q, y)[i] # y
    BY <1>2, <2>1 DEF In
  <2> QED
    BY <1>2, <2>1, <2>2 DEF Once
<1>3. ASSUME NEW q \in Seq(Msgs), q # <<>>, Once(q)
      PROVE  Once(Tail(q)) /\ ~In(Head(q), Tail(q))
  <2>1. Tail(q) \in Seq(Msgs) /\ Len(Tail(q)) = Len(q) - 1
        /\ \A i \in 1 .. Len(Tail(q)) : Tail(q)[i] = q[i + 1]
    BY <1>3, HeadTailProperties
  <2>2. Len(q) \in Nat /\ Len(q) > 0 /\ DOMAIN q = 1 .. Len(q) /\ Head(q) = q[1]
    BY <1>3, LenProperties, EmptySeq
  <2>3. DOMAIN Tail(q) = 1 .. Len(q) - 1
    BY <2>1, LenProperties
  <2>4. \A i \in 1 .. Len(q) - 1 : i + 1 \in 1 .. Len(q) /\ Tail(q)[i] = q[i + 1] /\ i + 1 # 1
    BY <2>1, <2>2
  <2>5. ASSUME NEW i \in 1 .. Len(q) - 1, NEW j \in 1 .. Len(q) - 1,
               Tail(q)[i] = Tail(q)[j]
        PROVE  i = j
    <3>1. i + 1 = j + 1
      BY <1>3, <2>2, <2>4, <2>5 DEF Once
    <3> QED
      BY <2>2, <3>1
  <2>6. \A i \in 1 .. Len(q) - 1 : Tail(q)[i] # Head(q)
    BY <1>3, <2>2, <2>4 DEF Once
  <2> QED
    BY <2>3, <2>5, <2>6 DEF Once, In
<1> QED
  BY <1>1, <1>2, <1>3

(* How often a message occurs, after an append and before its head is      *)
(* taken off.                                                              *)
LEMMA CountKept ==
    /\ \A m : Count(<<>>, m) = 0
    /\ \A q \in Seq(Any) : \A m : Count(q, m) \in Nat
    /\ \A q \in Seq(Any), y \in Any : \A m :
          Count(Append(q, y), m) = IF y = m THEN Count(q, m) + 1 ELSE Count(q, m)
    /\ \A q \in Seq(Any) : q # <<>> => \A m :
          Count(q, m) = IF Head(q) = m THEN Count(Tail(q), m) + 1
                                       ELSE Count(Tail(q), m)
<1> DEFINE At(q, m) == {i \in DOMAIN q : q[i] = m}
<1>1. ASSUME NEW m PROVE Count(<<>>, m) = 0
  <2>1. At(<<>>, m) = {}
    OBVIOUS
  <2> QED
    BY <2>1, FS_EmptySet DEF Count
<1>2. ASSUME NEW q \in Seq(Any), NEW m
      PROVE  IsFiniteSet(At(q, m)) /\ Count(q, m) \in Nat
  <2>1. Len(q) \in Nat /\ DOMAIN q = 1 .. Len(q)
    BY LenProperties
  <2>2. IsFiniteSet(1 .. Len(q))
    BY <2>1, FS_Interval
  <2>3. IsFiniteSet(At(q, m))
    BY <2>1, <2>2, FS_Subset
  <2> QED
    BY <2>3, FS_CardinalityType DEF Count
<1>3. ASSUME NEW q \in Seq(Any), NEW y \in Any, NEW m
      PROVE  Count(Append(q, y), m) = IF y = m THEN Count(q, m) + 1 ELSE Count(q, m)
  <2>1. /\ Len(q) \in Nat /\ DOMAIN q = 1 .. Len(q)
        /\ DOMAIN Append(q, y) = 1 .. Len(q) + 1
        /\ \A i \in 1 .. Len(q) : Append(q, y)[i] = q[i]
        /\ Append(q, y)[Len(q) + 1] = y
    BY AppendProperties, LenProperties
  <2>2. IsFiniteSet(At(q, m))
    BY <1>2
  <2>3. CASE y = m
    <3>1. At(Append(q, y), m) = At(q, m) \cup {Len(q) + 1}
      BY <2>1, <2>3
    <3>2. Len(q) + 1 \notin At(q, m)
      BY <2>1
    <3> QED
      BY <2>2, <2>3, <3>1, <3>2, FS_AddElement DEF Count
  <2>4. CASE y # m
    <3>1. At(Append(q, y), m) = At(q, m)
      BY <2>1, <2>4
    <3> QED
      BY <2>4, <3>1 DEF Count
  <2> QED
    BY <2>3, <2>4
<1>4. ASSUME NEW q \in Seq(Any), q # <<>>, NEW m
      PROVE  Count(q, m) = IF Head(q) = m THEN Count(Tail(q), m) + 1
                                          ELSE Count(Tail(q), m)
  <2>1. Tail(q) \in Seq(Any) /\ Len(Tail(q)) = Len(q) - 1
        /\ \A i \in 1 .. Len(Tail(q)) : Tail(q)[i] = q[i + 1]
    BY <1>4, HeadTailProperties
  <2>2. Len(q) \in Nat /\ Len(q) > 0 /\ DOMAIN q = 1 .. Len(q) /\ Head(q) = q[1]
    BY <1>4, LenProperties, EmptySeq
  <2>3. DOMAIN Tail(q) = 1 .. Len(q) - 1
        /\ \A i \in 1 .. Len(q) - 1 : Tail(q)[i] = q[i + 1]
    BY <2>1, LenProperties
  <2> DEFINE T == At(Tail(q), m)
             S == At(q, m) \ {1}
             f == [i \in T |-> i + 1]
  (* The occurrences behind the head move down by one.                     *)
  <2>4. f \in [T -> S]
    BY <2>2, <2>3
  <2>5. \A i, j \in T : f[i] = f[j] => i = j
    BY <2>2, <2>3
  <2>6. \A k \in S : \E i \in T : f[i] = k
    <3> SUFFICES ASSUME NEW k \in S PROVE k - 1 \in T /\ f[k - 1] = k
      OBVIOUS
    <3>1. k - 1 \in 1 .. Len(q) - 1
      BY <2>2
    <3>2. Tail(q)[k - 1] = q[k]
      BY <2>2, <2>3, <3>1
    <3> QED
      BY <2>2, <2>3, <3>1, <3>2
  <2>7. ExistsBijection(T, S)
    <3> HIDE DEF T, S, f
    <3>1. f \in Injection(T, S)
      BY <2>4, <2>5 DEF Injection, IsInjective
    <3>2. f \in Surjection(T, S)
      BY <2>4, <2>6 DEF Surjection
    <3> QED
      BY <3>1, <3>2 DEF ExistsBijection, Bijection
  <2>8. IsFiniteSet(T) /\ Cardinality(S) = Cardinality(T) /\ IsFiniteSet(At(q, m))
    <3>1. IsFiniteSet(T) /\ IsFiniteSet(At(q, m))
      BY <1>2, <2>1
    <3> HIDE DEF T, S, f
    <3> QED
      BY <2>7, <3>1, FS_Bijection
  <2>9. Cardinality(At(q, m)) = IF 1 \in At(q, m) THEN Cardinality(S) + 1 ELSE Cardinality(S)
    <3>1. Cardinality(S) = IF 1 \in At(q, m) THEN Cardinality(At(q, m)) - 1
                                            ELSE Cardinality(At(q, m))
      BY <2>8, FS_RemoveElement
    <3>2. Cardinality(At(q, m)) \in Nat
      BY <1>2 DEF Count
    <3> QED
      BY <3>1, <3>2
  <2>10. 1 \in At(q, m) <=> Head(q) = m
    BY <2>2
  <2> QED
    BY <2>8, <2>9, <2>10 DEF Count
<1> QED
  BY <1>1, <1>2, <1>3, <1>4

(* What add_to_mmap_buffer adds to the messages that were buffered.        *)
LEMMA BufferedGrows ==
    ASSUME AddToMmapBuffer
    PROVE  /\ buffered' = buffered \/ buffered' = buffered \cup {Head(batch)}
           /\ pc' = pc \/ pc' = "write"
BY DEF AddToMmapBuffer, BufferRefused, BufferTorn, BeginFrame

(* Messages only leave the places before the socket, in the one direction; *)
(* the head of the batch leaves them altogether.                           *)
LEMMA FreshStep ==
    ASSUME BaseInv, FreshInv, [Next]_vars
    PROVE  /\ FreshInv'
           /\ \A x \in Msgs : Fresh(x)' => Fresh(x)
           /\ \A x \in Msgs :
                 (batch # <<>> /\ x = Head(batch) /\ batch' = Tail(batch)
                  /\ UNCHANGED <<unsent, calls, queue>>) => ~Fresh(x)'
<1> DEFINE Shrinks == \A x \in Msgs : Fresh(x)' => Fresh(x)
<1>0. /\ queue \in Seq(Msgs) /\ batch \in Seq(Msgs)
      /\ queue \in Seq(Any) /\ batch \in Seq(Any) /\ Msgs \subseteq Any
      /\ unsent \subseteq Msgs /\ calls \subseteq Msgs
  BY AnyFacts DEF BaseInv, TypeOK
<1>1. ASSUME NEW m \in Msgs, SendCheck(m) PROVE FreshInv' /\ Shrinks
  <2>1. /\ m \in unsent /\ unsent' = unsent \ {m} /\ calls' = calls \cup {m}
        /\ queue' = queue /\ batch' = batch /\ buffered' = buffered
    BY <1>1 DEF SendCheck
  <2> QED
    BY <2>1 DEF FreshInv, Fresh, Once, In
<1>2. ASSUME NEW m \in Msgs, SendPut(m) PROVE FreshInv' /\ Shrinks
  <2>1. /\ m \in calls /\ calls' = calls \ {m}
        /\ unsent' = unsent /\ batch' = batch /\ buffered' = buffered
        /\ queue' = queue \/ queue' = Append(queue, m)
    BY <1>2 DEF SendPut
  <2>2. ~In(m, queue) /\ ~In(m, batch) /\ m \notin unsent /\ m \notin buffered
    BY <2>1 DEF FreshInv, Fresh
  <2>3. CASE queue' = queue
    BY <2>1, <2>3 DEF FreshInv, Fresh, Once, In
  <2>4. CASE queue' = Append(queue, m)
    <3>1. Once(queue)'
      BY <1>0, <2>2, <2>4, OnceKept DEF FreshInv
    <3>2. Once(batch)' /\ \A x : In(x, batch)' <=> In(x, batch)
      BY <2>1 DEF FreshInv, Once, In
    <3>3. \A x : In(x, queue)' <=> In(x, queue) \/ x = m
      BY <1>0, <2>4, InSequences
    <3> QED
      BY <2>1, <2>2, <3>1, <3>2, <3>3 DEF FreshInv, Fresh
  <2> QED
    BY <2>1, <2>3, <2>4
<1>3. ASSUME Drain PROVE FreshInv' /\ Shrinks
  <2>1. /\ batch' = queue /\ queue' = <<>> /\ batch = <<>>
        /\ unsent' = unsent /\ calls' = calls /\ buffered' = buffered
    BY <1>3 DEF Drain, BaseInv, BatchInv
  <2>2. \A x : (In(x, batch)' <=> In(x, queue)) /\ ~In(x, queue)'
    BY <2>1, InSequences DEF In
  <2>3. Once(queue)' /\ Once(batch)'
    BY <2>1, OnceKept DEF FreshInv
  <2> QED
    BY <2>1, <2>2, <2>3 DEF FreshInv, Fresh
<1>4. ASSUME batch # <<>>, batch' = Tail(batch),
             UNCHANGED <<unsent, calls, queue>>, NEW m \in Msgs, m = Head(batch)
      PROVE  /\ Once(queue)' /\ Once(batch)' /\ Fresh(m) /\ ~Fresh(m)'
             /\ \A x : (In(x, queue)' <=> In(x, queue)) /\ (In(x, batch)' => In(x, batch))
  <2>1. Once(batch)' /\ ~In(m, batch)'
    BY <1>0, <1>4, OnceKept DEF FreshInv
  <2>2. Once(queue)' /\ \A x : In(x, queue)' <=> In(x, queue)
    BY <1>4 DEF FreshInv, Once, In
  <2>3. In(m, batch) /\ \A x : In(x, batch)' => In(x, batch)
    BY <1>0, <1>4, InSequences
  <2> QED
    BY <1>4, <2>1, <2>2, <2>3 DEF FreshInv, Fresh
<1>5. ASSUME SendNow \/ SendFails PROVE FreshInv' /\ Shrinks
  <2>1. /\ batch # <<>> /\ batch' = Tail(batch)
        /\ UNCHANGED <<unsent, calls, queue>>
        /\ buffered' = buffered \/ buffered' = buffered \cup {Head(batch)}
    BY <1>5, BufferedGrows DEF SendNow, SendFails
  <2>2. PICK m \in Msgs : m = Head(batch)
    BY <1>0, <2>1, HeadTailProperties
  <2>3. /\ Once(queue)' /\ Once(batch)' /\ ~Fresh(m)'
        /\ \A x : (In(x, queue)' <=> In(x, queue)) /\ (In(x, batch)' => In(x, batch))
    BY <1>4, <2>1, <2>2
  <2>4. Shrinks
    BY <2>1, <2>3 DEF Fresh
  <2>5. \A x \in Msgs : Fresh(x)' => x \notin buffered'
    BY <2>1, <2>2, <2>3, <2>4 DEF FreshInv
  <2> QED
    BY <2>1, <2>3, <2>4, <2>5 DEF FreshInv
<1>6. ASSUME End \/ Crash PROVE FreshInv' /\ Shrinks
  <2>1. /\ queue' = <<>> /\ batch' = <<>> /\ calls' = {}
        /\ unsent' = unsent /\ buffered' = buffered
    BY <1>6 DEF End, Crash, Die
  <2>2. \A x : ~In(x, queue)' /\ ~In(x, batch)'
    BY <2>1, InSequences
  <2>3. Once(queue)' /\ Once(batch)'
    BY <2>1, OnceKept
  <2> QED
    BY <2>1, <2>2, <2>3 DEF FreshInv, Fresh
<1>7. ASSUME WorkerExit \/ FillFrame \/ WriteHeader \/ FrameCutShort
             \/ ReplayNothing \/ ReplayUnreadable \/ ReplaySend \/ ReplayFails
             \/ Transmit \/ PeerGoes \/ PeerReturns \/ Close \/ CloseFinish
             \/ Restart \/ UNCHANGED vars
      PROVE  FreshInv' /\ Shrinks
  <2>1. UNCHANGED <<unsent, calls, queue, batch, buffered>>
    BY <1>7 DEF WorkerExit, FillFrame, WriteHeader, FrameCutShort,
                ReplayNothing, ReplayUnreadable, ReplaySend, ReplayFails,
                Transmit, PeerGoes, PeerReturns, Close, CloseFinish, Restart,
                vars
  <2> QED
    BY <2>1 DEF FreshInv, Fresh, Once, In
<1>8. FreshInv' /\ Shrinks
  <2> HIDE DEF Shrinks
  <2> QED
    BY <1>1, <1>2, <1>3, <1>5, <1>6, <1>7 DEF Next, WorkerStep
<1> QED
  BY <1>4, <1>8

(* A step sends a new copy of a message only when it was fresh or is the   *)
(* one the replay finds, and the replay loses its socket before the next.  *)
LEMMA CopiesStep ==
    ASSUME BaseInv, FreshInv, CopiesInv, [Next]_vars
    PROVE  CopiesInv'
<1> SUFFICES ASSUME NEW x \in Msgs
             PROVE  /\ Fresh(x)' => Reached(x)' = 0
                    /\ Reached(x)' <= lives'
                    /\ x \in buffered' /\ ReplayAhead' => Reached(x)' <= lives' - 1
  BY DEF CopiesInv
<1>0. /\ sent \in Seq(Any) /\ pipe \in Seq(Any)
      /\ batch \in Seq(Any) /\ batch \in Seq(Msgs)
      /\ lives \in Nat /\ lives >= 1
      /\ Count(sent, x) \in Nat /\ Count(pipe, x) \in Nat /\ Reached(x) \in Nat
  <2>1. /\ sent \in Seq(Any) /\ pipe \in Seq(Any)
        /\ batch \in Seq(Any) /\ batch \in Seq(Msgs)
        /\ lives \in Nat /\ lives >= 1
    BY AnyFacts, IpcAssumption DEF BaseInv, TypeOK
  <2>2. Count(sent, x) \in Nat /\ Count(pipe, x) \in Nat
    BY <2>1, CountKept
  <2> QED
    BY <2>1, <2>2 DEF Reached
<1>i. /\ Fresh(x) => Reached(x) = 0 /\ x \notin buffered
      /\ Reached(x) <= lives
      /\ x \in buffered /\ ReplayAhead => Reached(x) <= lives - 1
      /\ Fresh(x)' => Fresh(x)
  BY FreshStep DEF CopiesInv, FreshInv
<1>f. ASSUME Reached(x)' \in Nat, Reached(x)' <= Reached(x), lives' = lives,
             x \in buffered' /\ ReplayAhead' => x \in buffered /\ ReplayAhead
      PROVE  /\ Fresh(x)' => Reached(x)' = 0
             /\ Reached(x)' <= lives'
             /\ x \in buffered' /\ ReplayAhead' => Reached(x)' <= lives' - 1
  BY <1>0, <1>i, <1>f
<1>s. ASSUME UNCHANGED <<sent, pipe>>
      PROVE  Reached(x)' = Reached(x)
  BY <1>s DEF Reached, Count
<1>p. ASSUME UNCHANGED sent, NEW y \in Any, pipe' = Append(pipe, y)
      PROVE  Reached(x)' = IF y = x THEN Reached(x) + 1 ELSE Reached(x)
  <2>1. Count(pipe, x)' = IF y = x THEN Count(pipe, x) + 1 ELSE Count(pipe, x)
    BY <1>0, <1>p, CountKept
  <2>2. Count(sent, x)' = Count(sent, x)
    BY <1>p DEF Count
  <2> QED
    BY <1>0, <2>1, <2>2 DEF Reached
<1>e. ASSUME UNCHANGED sent, pipe' = <<>>
      PROVE  Reached(x)' \in Nat /\ Reached(x)' <= Reached(x)
  <2>1. Count(pipe, x)' = 0
    BY <1>e, CountKept
  <2>2. Count(sent, x)' = Count(sent, x)
    BY <1>e DEF Count
  <2> QED
    BY <1>0, <2>1, <2>2 DEF Reached
<1>1. CASE SendNow
  <2>1. /\ batch # <<>> /\ batch' = Tail(batch) /\ lane = "push"
        /\ UNCHANGED <<unsent, calls, queue>> /\ pc = "send" /\ pc' = pc
        /\ UNCHANGED <<sent, buffered, lives, lane>>
        /\ pipe' = Append(pipe, Head(batch))
    BY <1>1 DEF SendNow, Sendable, lifeVars
  <2>2. PICK m \in Msgs : m = Head(batch)
    BY <1>0, <2>1, HeadTailProperties
  <2>3. Reached(x)' = IF m = x THEN Reached(x) + 1 ELSE Reached(x)
    BY <1>p, <2>1, <2>2, AnyFacts
  <2>4. CASE m = x
    <3>1. Fresh(x) /\ ~Fresh(x)'
      <4>1. ~Fresh(x)'
        BY FreshStep, <2>1, <2>2, <2>4
      <4>2. In(x, batch)
        BY <1>0, <2>1, <2>2, <2>4, InSequences
      <4> QED
        BY <4>1, <4>2 DEF Fresh
    <3> QED
      BY <1>0, <1>i, <2>1, <2>3, <2>4, <3>1
  <2>5. CASE m # x
    BY <1>0, <1>f, <2>1, <2>3, <2>5 DEF ReplayAhead
  <2> QED
    BY <2>4, <2>5
<1>2. CASE SendFails
  <2>1. /\ batch # <<>> /\ batch' = Tail(batch) /\ pc = "send"
        /\ pc' = pc \/ pc' = "write"
        /\ UNCHANGED <<sent, pipe, lives, lane, unsent, calls, queue>>
        /\ buffered' = buffered \/ buffered' = buffered \cup {Head(batch)}
    BY <1>2, BufferedGrows DEF SendFails, lifeVars
  <2>2. Reached(x)' = Reached(x)
    BY <1>s, <2>1
  <2>3. CASE x = Head(batch)
    <3>1. Fresh(x)
      BY <1>0, <2>1, <2>3, InSequences DEF Fresh
    <3> QED
      BY <1>0, <1>i, <2>1, <2>2, <3>1
  <2>4. CASE x # Head(batch)
    BY <1>0, <1>f, <2>1, <2>2, <2>4 DEF ReplayAhead
  <2> QED
    BY <2>3, <2>4
<1>3. CASE ReplaySend
  <2>1. /\ UNCHANGED <<sent, lives, lane, buffered>> /\ pc' = "recv"
        /\ lane = "push" /\ pc = "send" /\ count > 0
        /\ pipe' = pipe \/ pipe' = Append(pipe, start[0])
    BY <1>3 DEF ReplaySend, MayReplay, lifeVars
  <2>2. ReplayAhead /\ ~ReplayAhead'
    BY <2>1 DEF ReplayAhead
  <2>3. PICK y \in Any : y = start[0] /\ (y \in Msgs => y \in buffered)
    BY <2>1, Wrap, AnyFacts DEF Any, BaseInv, FileInv, TypeOK, Offsets
  <2>4. CASE pipe' = pipe
    BY <1>0, <1>f, <1>s, <2>1, <2>2, <2>4
  <2>5. CASE pipe' = Append(pipe, start[0])
    <3>1. Reached(x)' = IF y = x THEN Reached(x) + 1 ELSE Reached(x)
      BY <1>p, <2>1, <2>3, <2>5
    <3>2. CASE y = x
      BY <1>0, <1>i, <2>1, <2>2, <2>3, <3>1, <3>2
    <3>3. CASE y # x
      BY <1>0, <1>f, <2>1, <2>2, <3>1, <3>3
    <3> QED
      BY <3>2, <3>3
  <2> QED
    BY <2>1, <2>4, <2>5
<1>4. CASE ReplayFails
  <2>1. UNCHANGED sent /\ pipe' = <<>> /\ lives' = lives /\ ~ReplayAhead'
    BY <1>4 DEF ReplayFails, lifeVars, ReplayAhead
  <2> QED
    BY <1>e, <1>f, <2>1
<1>5. CASE Transmit
  <2>1. /\ pipe # <<>> /\ sent' = Append(sent, Head(pipe)) /\ pipe' = Tail(pipe)
        /\ UNCHANGED <<lives, lane, pc, buffered>>
    BY <1>5 DEF Transmit, lifeVars
  <2>2. Head(pipe) \in Any /\ Tail(pipe) \in Seq(Any)
    BY <1>0, <2>1, HeadTailProperties
  <2>3. Count(sent, x)' = IF Head(pipe) = x THEN Count(sent, x) + 1 ELSE Count(sent, x)
    BY <1>0, <2>1, <2>2, CountKept
  <2>4. Count(pipe, x) = IF Head(pipe) = x THEN Count(pipe, x)' + 1 ELSE Count(pipe, x)'
    BY <1>0, <2>1, CountKept
  <2>5. Count(pipe, x)' \in Nat
    BY <2>1, <2>2, CountKept
  <2>6. Reached(x)' = Reached(x)
    BY <1>0, <2>3, <2>4, <2>5 DEF Reached
  <2> QED
    BY <1>0, <1>f, <2>1, <2>6 DEF ReplayAhead
<1>6. CASE PeerGoes
  <2>1. UNCHANGED <<sent, lives, lane, pc, buffered>>
    BY <1>6 DEF PeerGoes, lifeVars
  <2>2. Reached(x)' \in Nat /\ Reached(x)' <= Reached(x)
    <3>1. CASE UNCHANGED pipe
      BY <1>0, <1>s, <2>1, <3>1
    <3>2. CASE pipe # <<>> /\ pipe' = Tail(pipe)
      <4>1. Count(pipe, x) = IF Head(pipe) = x THEN Count(pipe, x)' + 1 ELSE Count(pipe, x)'
        BY <1>0, <3>2, CountKept
      <4>2. Count(pipe, x)' \in Nat
        BY <1>0, <3>2, HeadTailProperties, CountKept
      <4>3. Count(sent, x)' = Count(sent, x)
        BY <2>1 DEF Count
      <4> QED
        BY <1>0, <4>1, <4>2, <4>3 DEF Reached
    <3> QED
      BY <1>6, <3>1, <3>2 DEF PeerGoes
  <2> QED
    BY <1>f, <2>1, <2>2 DEF ReplayAhead
<1>7. CASE CloseFinish
  <2>1. UNCHANGED <<sent, lives, lane, pc, buffered>> /\ pipe' = <<>>
    BY <1>7 DEF CloseFinish
  <2> QED
    BY <1>e, <1>f, <2>1 DEF ReplayAhead
<1>8. ASSUME End \/ Crash
      PROVE  /\ Fresh(x)' => Reached(x)' = 0
             /\ Reached(x)' <= lives'
             /\ x \in buffered' /\ ReplayAhead' => Reached(x)' <= lives' - 1
  <2>1. UNCHANGED <<sent, lives>> /\ pipe' = <<>> /\ ~ReplayAhead'
    BY <1>8 DEF End, Crash, Die, lifeVars, ReplayAhead
  <2> QED
    BY <1>e, <1>f, <2>1
<1>9. CASE Restart
  <2>1. UNCHANGED <<sent, pipe, buffered>> /\ lives' = lives + 1
    BY <1>9 DEF Restart
  <2> QED
    BY <1>0, <1>i, <1>s, <2>1
<1>10. ASSUME \/ \E m \in Msgs : SendCheck(m) \/ SendPut(m)
              \/ Drain \/ WorkerExit \/ FillFrame \/ WriteHeader
              \/ FrameCutShort \/ ReplayNothing \/ ReplayUnreadable
              \/ PeerReturns \/ Close
              \/ UNCHANGED vars
       PROVE  /\ Fresh(x)' => Reached(x)' = 0
              /\ Reached(x)' <= lives'
              /\ x \in buffered' /\ ReplayAhead' => Reached(x)' <= lives' - 1
  <2>1. UNCHANGED <<sent, pipe, lives, lane, buffered>>
        /\ (ReplayAhead' => ReplayAhead)
    BY <1>10 DEF SendCheck, SendPut, Drain, WorkerExit, FillFrame,
                 WriteHeader, FrameCutShort, ReplayNothing, ReplayUnreadable,
                 PeerReturns, Close, vars, lifeVars, ReplayAhead
  <2> QED
    BY <1>0, <1>f, <1>s, <2>1
<1> QED
  BY <1>1, <1>2, <1>3, <1>4, <1>5, <1>6, <1>7, <1>8, <1>9, <1>10
  DEF Next, WorkerStep

LEMMA InitCopies == Init => FreshInv /\ CopiesInv
<1> SUFFICES ASSUME Init PROVE FreshInv /\ CopiesInv
  OBVIOUS
<1>1. FreshInv
  BY InSequences, OnceKept DEF Init, FreshInv, Fresh
<1>2. \A m \in Msgs : Reached(m) = 0
  BY CountKept DEF Init, Reached
<1> QED
  BY <1>1, <1>2 DEF Init, CopiesInv

(* Where a message is before it is sent, and its copies, in every          *)
(* reachable state.                                                        *)
LEMMA CopiesInvariant == Spec => [](FreshInv /\ CopiesInv)
<1>1. BaseInv /\ FreshInv /\ CopiesInv /\ [Next]_vars => FreshInv' /\ CopiesInv'
  BY FreshStep, CopiesStep
<1> QED
  BY <1>1, InitCopies, BaseInvariant, PTL DEF Spec

(* One process sends a message to the peer at most once, the one that it   *)
(* replays included.                                                       *)
THEOREM CopiesBounded == Spec => []AtMostOncePerLife
<1>1. BaseInv /\ CopiesInv => AtMostOncePerLife
  <2> SUFFICES ASSUME BaseInv, CopiesInv, NEW m \in Msgs PROVE Copies(m) <= lives
    BY DEF AtMostOncePerLife
  <2>1. Count(sent, m) \in Nat /\ Count(pipe, m) \in Nat
    BY CountKept, AnyFacts DEF BaseInv
  <2>2. Count(sent, m) + Count(pipe, m) <= lives /\ lives \in Nat
    BY IpcAssumption DEF CopiesInv, Reached, BaseInv, TypeOK
  <2>3. Copies(m) = Count(sent, m)
    BY DEF Copies, Count
  <2> QED
    BY <2>1, <2>2, <2>3
<1> QED
  BY <1>1, BaseInvariant, CopiesInvariant, PTL

-----------------------------------------------------------------------------
(* The order of the messages that were never buffered.                     *)

(* The messages that were buffered, and what is read from a torn frame.    *)
Filed == buffered \cup {NoMsg}

(* The pairs that may follow one another on the way to the peer.           *)
InOrder ==
    {p \in Any \X Any :
        p[1] \in Filed \/ p[2] \in Filed \/ Before(p[1], p[2], accepted)}

Sorted(q, R) == \A i, j \in DOMAIN q : i < j => <<q[i], q[j]>> \in R
Across(p, q, R) == \A x, y : In(x, p) /\ In(y, q) => <<x, y>> \in R

(* Four sequences of which each one is ahead of the next.                  *)
Ordered(s, p, b, q, R) ==
    /\ Sorted(s, R) /\ Sorted(p, R) /\ Sorted(b, R) /\ Sorted(q, R)
    /\ Across(s, p, R) /\ Across(s, b, R) /\ Across(s, q, R)
    /\ Across(p, b, R) /\ Across(p, q, R) /\ Across(b, q, R)

Known(q) == \A x : In(x, q) => x \in Filed \/ In(x, accepted)

OrderInv ==
    /\ Known(sent) /\ Known(pipe) /\ Known(batch) /\ Known(queue)
    /\ Ordered(sent, pipe, batch, queue, InOrder)

(* What was buffered, or is read from a torn frame, may come anywhere.     *)
LEMMA FiledInOrder ==
    ASSUME NEW x \in Any, NEW y \in Any, x \in Filed \/ y \in Filed
    PROVE  <<x, y>> \in InOrder
BY DEF InOrder

(* A sorted sequence when it grows, and when its head is taken off.        *)
LEMMA SortedKept ==
    /\ \A R : Sorted(<<>>, R)
    /\ \A q \in Seq(Any), y \in Any : \A R :
          Sorted(q, R) /\ (\A x : In(x, q) => <<x, y>> \in R)
              => Sorted(Append(q, y), R)
    /\ \A q \in Seq(Any) : q # <<>> => \A R :
          Sorted(q, R) => /\ Sorted(Tail(q), R)
                          /\ \A x : In(x, Tail(q)) => <<Head(q), x>> \in R
<1>1. ASSUME NEW R PROVE Sorted(<<>>, R)
  BY DEF Sorted
<1>2. ASSUME NEW q \in Seq(Any), NEW y \in Any, NEW R, Sorted(q, R),
             \A x : In(x, q) => <<x, y>> \in R
      PROVE  Sorted(Append(q, y), R)
  <2>1. /\ Len(q) \in Nat /\ DOMAIN q = 1 .. Len(q)
        /\ DOMAIN Append(q, y) = 1 .. Len(q) + 1
        /\ \A i \in 1 .. Len(q) : Append(q, y)[i] = q[i]
        /\ Append(q, y)[Len(q) + 1] = y
    BY AppendProperties, LenProperties
  <2>2. \A i \in 1 .. Len(q) : <<q[i], y>> \in R
    BY <1>2, <2>1 DEF In
  <2>3. ASSUME NEW i \in 1 .. Len(q) + 1, NEW j \in 1 .. Len(q) + 1, i < j
        PROVE  <<Append(q, y)[i], Append(q, y)[j]>> \in R
    <3>1. i \in 1 .. Len(q)
      BY <2>1, <2>3
    <3>2. CASE j = Len(q) + 1
      BY <2>1, <2>2, <3>1, <3>2
    <3>3. CASE j # Len(q) + 1
      <4>1. j \in 1 .. Len(q)
        BY <2>1, <3>3
      <4> QED
        BY <1>2, <2>1, <2>3, <3>1, <4>1 DEF Sorted
    <3> QED
      BY <3>2, <3>3
  <2> QED
    BY <2>1, <2>3 DEF Sorted
<1>3. ASSUME NEW q \in Seq(Any), q # <<>>, NEW R, Sorted(q, R)
      PROVE  Sorted(Tail(q), R) /\ \A x : In(x, Tail(q)) => <<Head(q), x>> \in R
  <2>1. Tail(q) \in Seq(Any) /\ Len(Tail(q)) = Len(q) - 1
        /\ \A i \in 1 .. Len(Tail(q)) : Tail(q)[i] = q[i + 1]
    BY <1>3, HeadTailProperties
  <2>2. Len(q) \in Nat /\ Len(q) > 0 /\ DOMAIN q = 1 .. Len(q) /\ Head(q) = q[1]
    BY <1>3, LenProperties, EmptySeq
  <2>3. DOMAIN Tail(q) = 1 .. Len(q) - 1
        /\ \A i \in 1 .. Len(q) - 1 : i + 1 \in 1 .. Len(q) /\ Tail(q)[i] = q[i + 1]
    BY <2>1, <2>2, LenProperties
  <2>4. Sorted(Tail(q), R)
    <3> SUFFICES ASSUME NEW i \in 1 .. Len(q) - 1, NEW j \in 1 .. Len(q) - 1, i < j
                 PROVE  <<Tail(q)[i], Tail(q)[j]>> \in R
      BY <2>3 DEF Sorted
    <3>1. i + 1 < j + 1
      BY <2>2
    <3>2. <<q[i + 1], q[j + 1]>> \in R
      BY <1>3, <2>2, <2>3, <3>1 DEF Sorted
    <3> QED
      BY <2>3, <3>2
  <2>5. ASSUME NEW i \in 1 .. Len(q) - 1 PROVE <<Head(q), Tail(q)[i]>> \in R
    <3>1. 1 \in 1 .. Len(q) /\ 1 < i + 1
      BY <2>2
    <3> QED
      BY <1>3, <2>2, <2>3, <3>1 DEF Sorted
  <2> QED
    BY <2>3, <2>4, <2>5 DEF In
<1> QED
  BY <1>1, <1>2, <1>3

(* What may happen to the four sequences without disturbing their order.   *)
LEMMA OrderedKept ==
    ASSUME NEW s \in Seq(Any), NEW p \in Seq(Any), NEW b \in Seq(Any),
           NEW q \in Seq(Any), NEW R, Ordered(s, p, b, q, R)
    PROVE  /\ \A T : R \subseteq T => Ordered(s, p, b, q, T)
           /\ Ordered(s, <<>>, b, q, R)
           /\ Ordered(s, <<>>, <<>>, <<>>, R)
           /\ p # <<>> => Ordered(s, Tail(p), b, q, R)
           /\ p # <<>> => Ordered(Append(s, Head(p)), Tail(p), b, q, R)
           /\ b # <<>> => Ordered(s, p, Tail(b), q, R)
           /\ b # <<>> => Ordered(s, Append(p, Head(b)), Tail(b), q, R)
           /\ b = <<>> => Ordered(s, p, q, <<>>, R)
           /\ \A y \in Any :
                 (\A x \in Any : <<x, y>> \in R /\ <<y, x>> \in R)
                     => Ordered(s, Append(p, y), b, q, R)
           /\ \A y \in Any :
                 (\A x \in Any : In(x, s) \/ In(x, p) \/ In(x, b) \/ In(x, q)
                                     => <<x, y>> \in R)
                     => Ordered(s, p, b, Append(q, y), R)
<1>0. /\ Sorted(s, R) /\ Sorted(p, R) /\ Sorted(b, R) /\ Sorted(q, R)
      /\ Across(s, p, R) /\ Across(s, b, R) /\ Across(s, q, R)
      /\ Across(p, b, R) /\ Across(p, q, R) /\ Across(b, q, R)
  BY DEF Ordered
<1>i. \A x : /\ In(x, s) => x \in Any
             /\ In(x, p) => x \in Any
             /\ In(x, b) => x \in Any
             /\ In(x, q) => x \in Any
  BY InSequences
<1>e. (\A x : ~In(x, <<>>)) /\ Sorted(<<>>, R)
  BY InSequences, SortedKept
<1>t. ASSUME NEW z \in Seq(Any), z # <<>>, Sorted(z, R)
      PROVE  /\ Head(z) \in Any /\ In(Head(z), z) /\ Sorted(Tail(z), R)
             /\ \A x : In(x, Tail(z)) => In(x, z) /\ <<Head(z), x>> \in R
  BY <1>t, HeadTailProperties, InSequences, SortedKept
<1>a. ASSUME NEW z \in Seq(Any), Sorted(z, R), NEW y \in Any,
             \A x : In(x, z) => <<x, y>> \in R
      PROVE  Sorted(Append(z, y), R) /\ \A x : In(x, Append(z, y)) <=> In(x, z) \/ x = y
  BY <1>a, InSequences, SortedKept
<1>1. ASSUME NEW T, R \subseteq T PROVE Ordered(s, p, b, q, T)
  BY <1>0, <1>1 DEF Ordered, Sorted, Across
<1>2. Ordered(s, <<>>, b, q, R) /\ Ordered(s, <<>>, <<>>, <<>>, R)
  BY <1>0, <1>e DEF Ordered, Across
<1>3. ASSUME p # <<>>
      PROVE  Ordered(s, Tail(p), b, q, R) /\ Ordered(Append(s, Head(p)), Tail(p), b, q, R)
  <2>1. /\ Head(p) \in Any /\ In(Head(p), p) /\ Sorted(Tail(p), R)
        /\ \A x : In(x, Tail(p)) => In(x, p) /\ <<Head(p), x>> \in R
    BY <1>0, <1>3, <1>t
  <2>2. /\ Sorted(Append(s, Head(p)), R)
        /\ \A x : In(x, Append(s, Head(p))) <=> In(x, s) \/ x = Head(p)
    BY <1>0, <1>a, <2>1 DEF Across
  <2> QED
    BY <1>0, <2>1, <2>2 DEF Ordered, Across
<1>4. ASSUME b # <<>>
      PROVE  Ordered(s, p, Tail(b), q, R) /\ Ordered(s, Append(p, Head(b)), Tail(b), q, R)
  <2>1. /\ Head(b) \in Any /\ In(Head(b), b) /\ Sorted(Tail(b), R)
        /\ \A x : In(x, Tail(b)) => In(x, b) /\ <<Head(b), x>> \in R
    BY <1>0, <1>4, <1>t
  <2>2. /\ Sorted(Append(p, Head(b)), R)
        /\ \A x : In(x, Append(p, Head(b))) <=> In(x, p) \/ x = Head(b)
    BY <1>0, <1>a, <2>1 DEF Across
  <2> QED
    BY <1>0, <2>1, <2>2 DEF Ordered, Across
<1>5. ASSUME b = <<>> PROVE Ordered(s, p, q, <<>>, R)
  BY <1>0, <1>e DEF Ordered, Across
<1>6. ASSUME NEW y \in Any, \A x \in Any : <<x, y>> \in R /\ <<y, x>> \in R
      PROVE  Ordered(s, Append(p, y), b, q, R)
  <2>1. Sorted(Append(p, y), R) /\ \A x : In(x, Append(p, y)) <=> In(x, p) \/ x = y
    BY <1>0, <1>a, <1>i, <1>6
  <2> QED
    BY <1>0, <1>i, <1>6, <2>1 DEF Ordered, Across
<1>7. ASSUME NEW y \in Any,
             \A x \in Any : In(x, s) \/ In(x, p) \/ In(x, b) \/ In(x, q) => <<x, y>> \in R
      PROVE  Ordered(s, p, b, Append(q, y), R)
  <2>1. Sorted(Append(q, y), R) /\ \A x : In(x, Append(q, y)) <=> In(x, q) \/ x = y
    BY <1>0, <1>a, <1>i, <1>7
  <2> QED
    BY <1>0, <1>i, <1>7, <2>1 DEF Ordered, Across
<1> QED
  BY <1>1, <1>2, <1>3, <1>4, <1>5, <1>6, <1>7

(* The order of acceptance only gains pairs.                               *)
LEMMA BeforeKept ==
    ASSUME NEW q \in Seq(Any), NEW z \in Any, NEW x, NEW y
    PROVE  /\ Before(x, y, q) => Before(x, y, Append(q, z))
           /\ In(x, q) => Before(x, z, Append(q, z))
<1>1. /\ Len(q) \in Nat /\ DOMAIN q = 1 .. Len(q)
      /\ DOMAIN Append(q, z) = 1 .. Len(q) + 1
      /\ \A i \in 1 .. Len(q) : Append(q, z)[i] = q[i]
      /\ Append(q, z)[Len(q) + 1] = z
  BY AppendProperties, LenProperties
<1>2. ASSUME Before(x, y, q) PROVE Before(x, y, Append(q, z))
  <2>1. PICK i \in 1 .. Len(q), j \in 1 .. Len(q) : i < j /\ q[i] = x /\ q[j] = y
    BY <1>1, <1>2 DEF Before
  <2> QED
    BY <1>1, <2>1 DEF Before
<1>3. ASSUME In(x, q) PROVE Before(x, z, Append(q, z))
  <2>1. PICK i \in 1 .. Len(q) : q[i] = x
    BY <1>1, <1>3 DEF In
  <2>2. i < Len(q) + 1 /\ Append(q, z)[i] = x
    BY <1>1, <2>1
  <2> QED
    BY <1>1, <2>2 DEF Before
<1> QED
  BY <1>2, <1>3

LEMMA InOrderGrows ==
    ASSUME BaseInv, [Next]_vars
    PROVE  /\ InOrder \subseteq InOrder'
           /\ \A x : x \in Filed \/ In(x, accepted)
                        => x \in Filed' \/ In(x, accepted)'
<1>0. accepted \in Seq(Any) /\ Msgs \subseteq Any
  BY AnyFacts DEF BaseInv, TypeOK
<1>1. ASSUME buffered \subseteq buffered', accepted' = accepted
      PROVE  /\ InOrder \subseteq InOrder'
             /\ \A x : x \in Filed \/ In(x, accepted)
                          => x \in Filed' \/ In(x, accepted)'
  BY <1>1 DEF InOrder, Filed, In, Before
<1>2. ASSUME NEW m \in Msgs, SendPut(m)
      PROVE  /\ InOrder \subseteq InOrder'
             /\ \A x : x \in Filed \/ In(x, accepted)
                          => x \in Filed' \/ In(x, accepted)'
  <2>1. buffered' = buffered /\ (accepted' = accepted \/ accepted' = Append(accepted, m))
    BY <1>2 DEF SendPut
  <2>2. CASE accepted' = Append(accepted, m)
    <3>1. \A x, y : Before(x, y, accepted) => Before(x, y, accepted')
      BY <1>0, <2>2, BeforeKept
    <3>2. \A x : In(x, accepted) => In(x, accepted')
      BY <1>0, <2>2, InSequences
    <3> QED
      BY <2>1, <3>1, <3>2 DEF InOrder, Filed
  <2> QED
    BY <1>1, <2>1, <2>2
<1>3. ASSUME ~\E m \in Msgs : SendPut(m)
      PROVE  buffered \subseteq buffered' /\ accepted' = accepted
  <2>1. CASE SendFails
    BY <2>1, BufferedGrows DEF SendFails
  <2> QED
    BY <1>3, <2>1
    DEF Next, WorkerStep, SendCheck, Drain, WorkerExit, SendNow, FillFrame,
        WriteHeader, FrameCutShort, ReplayNothing, ReplayUnreadable, ReplaySend, ReplayFails, Transmit, PeerGoes, PeerReturns, Close,
        CloseFinish, End, Crash, Restart, vars
<1> QED
  BY <1>1, <1>2, <1>3

(* Every step keeps the order: it moves the head of one sequence to the    *)
(* end of the one before it, drops something, accepts a message behind all *)
(* that are known, or inserts one that was buffered.                       *)
LEMMA OrderStep == BaseInv /\ OrderInv /\ [Next]_vars => OrderInv'
<1> SUFFICES ASSUME BaseInv, OrderInv, [Next]_vars PROVE OrderInv'
  OBVIOUS
<1>0. /\ sent \in Seq(Any) /\ pipe \in Seq(Any) /\ batch \in Seq(Any)
      /\ queue \in Seq(Any) /\ accepted \in Seq(Any) /\ Msgs \subseteq Any
  BY AnyFacts DEF BaseInv, TypeOK
<1>o. Ordered(sent, pipe, batch, queue, InOrder)
  BY DEF OrderInv
<1>k. ASSUME NEW x, In(x, sent) \/ In(x, pipe) \/ In(x, batch) \/ In(x, queue)
      PROVE  /\ x \in Filed \/ In(x, accepted)
             /\ x \in Filed' \/ In(x, accepted)'
  BY <1>k, InOrderGrows DEF OrderInv, Known
<1>t. BaseInv'
  BY BaseStep
<1>m. ASSUME Ordered(sent', pipe', batch', queue', InOrder),
             \A x : In(x, sent)' \/ In(x, pipe)' \/ In(x, batch)' \/ In(x, queue)' =>
                 In(x, sent) \/ In(x, pipe) \/ In(x, batch) \/ In(x, queue)
                 \/ x \in Filed' \/ In(x, accepted)'
      PROVE  OrderInv'
  <2>1. Ordered(sent', pipe', batch', queue', InOrder')
    <3>1. /\ sent' \in Seq(Any) /\ pipe' \in Seq(Any) /\ batch' \in Seq(Any)
          /\ queue' \in Seq(Any)
      <4>1. /\ sent' \in Seq(Msgs \cup {NoMsg}) /\ pipe' \in Seq(Msgs \cup {NoMsg})
            /\ batch' \in Seq(Msgs) /\ queue' \in Seq(Msgs)
        BY <1>t DEF BaseInv, TypeOK
      <4> QED
        BY <4>1, AnyFacts DEF Any
    <3> QED
      BY <1>m, <3>1, InOrderGrows, OrderedKept
  <2>2. \A x : In(x, sent)' \/ In(x, pipe)' \/ In(x, batch)' \/ In(x, queue)' =>
           x \in Filed' \/ In(x, accepted)'
    BY <1>k, <1>m
  <2> QED
    BY <2>1, <2>2 DEF OrderInv, Known
<1>1. ASSUME NEW m \in Msgs, SendPut(m) PROVE OrderInv'
  <2>1. UNCHANGED <<sent, pipe, batch, buffered>>
    BY <1>1 DEF SendPut
  <2>2. CASE UNCHANGED <<queue, accepted>>
    BY <2>1, <2>2 DEF OrderInv, Known, Filed, In, InOrder, Before
  <2>3. CASE queue' = Append(queue, m) /\ accepted' = Append(accepted, m)
    <3>1. \A x \in Any : In(x, sent) \/ In(x, pipe) \/ In(x, batch) \/ In(x, queue)
              => <<x, m>> \in InOrder'
      <4> SUFFICES ASSUME NEW x \in Any,
                          In(x, sent) \/ In(x, pipe) \/ In(x, batch) \/ In(x, queue)
                   PROVE  <<x, m>> \in InOrder'
        OBVIOUS
      <4>1. x \in Filed' \/ In(x, accepted)
        BY <1>k, <2>1 DEF Filed
      <4>2. In(x, accepted) => Before(x, m, accepted')
        BY <1>0, <2>3, BeforeKept
      <4> QED
        BY <1>0, <4>1, <4>2 DEF InOrder
    <3>2. Ordered(sent, pipe, batch, queue, InOrder')
      BY <1>0, <1>o, InOrderGrows, OrderedKept
    <3>3. Ordered(sent, pipe, batch, Append(queue, m), InOrder')
      BY <1>0, <3>1, <3>2, OrderedKept
    <3>4. \A x : In(x, sent)' \/ In(x, pipe)' \/ In(x, batch)' \/ In(x, queue)' =>
             x \in Filed' \/ In(x, accepted)'
      <4>1. In(m, accepted)'
        BY <1>0, <2>3, InSequences
      <4>2. \A x : In(x, queue)' => In(x, queue) \/ x = m
        BY <1>0, <2>3, InSequences
      <4>3. \A x : /\ In(x, sent)' <=> In(x, sent)
                   /\ In(x, pipe)' <=> In(x, pipe)
                   /\ In(x, batch)' <=> In(x, batch)
        BY <2>1 DEF In
      <4> QED
        BY <1>k, <4>1, <4>2, <4>3
    <3> QED
      BY <2>1, <2>3, <3>3, <3>4 DEF OrderInv, Known
  <2> QED
    BY <1>1, <2>2, <2>3 DEF SendPut
<1>2. CASE Drain
  <2>1. batch' = queue /\ queue' = <<>> /\ batch = <<>> /\ UNCHANGED <<sent, pipe>>
    BY <1>2 DEF Drain, BaseInv, BatchInv
  <2>2. Ordered(sent', pipe', batch', queue', InOrder)
    BY <1>0, <1>o, <2>1, OrderedKept
  <2>3. \A x : ~In(x, queue)'
    BY <2>1, InSequences
  <2> QED
    BY <1>m, <2>1, <2>2, <2>3 DEF In
<1>3. CASE SendNow
  <2>1. batch # <<>> /\ batch' = Tail(batch) /\ pipe' = Append(pipe, Head(batch))
        /\ UNCHANGED <<sent, queue>>
    BY <1>3 DEF SendNow
  <2>2. Ordered(sent', pipe', batch', queue', InOrder)
    BY <1>0, <1>o, <2>1, OrderedKept
  <2>3. \A x : /\ In(x, batch)' => In(x, batch)
               /\ In(x, pipe)' => In(x, pipe) \/ In(x, batch)
    BY <1>0, <2>1, InSequences, HeadTailProperties
  <2> QED
    BY <1>m, <2>1, <2>2, <2>3 DEF In
<1>4. CASE SendFails
  <2>1. batch # <<>> /\ batch' = Tail(batch) /\ UNCHANGED <<sent, pipe, queue>>
    BY <1>4 DEF SendFails
  <2>2. Ordered(sent', pipe', batch', queue', InOrder)
    BY <1>0, <1>o, <2>1, OrderedKept
  <2>3. \A x : In(x, batch)' => In(x, batch)
    BY <1>0, <2>1, InSequences
  <2> QED
    BY <1>m, <2>1, <2>2, <2>3 DEF In
<1>5. CASE ReplaySend
  <2>1. /\ UNCHANGED <<sent, batch, queue, buffered>> /\ count > 0
        /\ pipe' = pipe \/ pipe' = Append(pipe, start[0])
    BY <1>5 DEF ReplaySend, MayReplay
  <2>2. PICK y \in Any : y = start[0] /\ y \in Filed
    BY <2>1, Wrap DEF Any, Filed, BaseInv, FileInv, TypeOK, Offsets
  <2>3. \A x \in Any : <<x, y>> \in InOrder /\ <<y, x>> \in InOrder
    BY <2>2, FiledInOrder
  <2>4. CASE pipe' = pipe
    BY <1>m, <1>o, <2>1, <2>4 DEF In
  <2>5. CASE pipe' = Append(pipe, y)
    <3>1. Ordered(sent, Append(pipe, y), batch, queue, InOrder)
      BY <1>0, <1>o, <2>3, OrderedKept
    <3>2. \A x : In(x, pipe)' => In(x, pipe) \/ x \in Filed'
      BY <1>0, <2>1, <2>2, <2>5, InSequences DEF Filed
    <3> QED
      BY <1>m, <2>1, <2>5, <3>1, <3>2 DEF In
  <2> QED
    BY <2>1, <2>2, <2>4, <2>5
<1>6. CASE ReplayFails \/ CloseFinish
  <2>1. pipe' = <<>> /\ UNCHANGED <<sent, batch, queue>>
    BY <1>6 DEF ReplayFails, CloseFinish
  <2>2. Ordered(sent', pipe', batch', queue', InOrder)
    BY <1>0, <1>o, <2>1, OrderedKept
  <2>3. \A x : ~In(x, pipe)'
    BY <2>1, InSequences
  <2> QED
    BY <1>m, <2>1, <2>2, <2>3 DEF In
<1>7. CASE Transmit
  <2>1. pipe # <<>> /\ pipe' = Tail(pipe) /\ sent' = Append(sent, Head(pipe))
        /\ UNCHANGED <<batch, queue>>
    BY <1>7 DEF Transmit
  <2>2. Ordered(sent', pipe', batch', queue', InOrder)
    BY <1>0, <1>o, <2>1, OrderedKept
  <2>3. \A x : /\ In(x, pipe)' => In(x, pipe)
               /\ In(x, sent)' => In(x, sent) \/ In(x, pipe)
    BY <1>0, <2>1, InSequences, HeadTailProperties
  <2> QED
    BY <1>m, <2>1, <2>2, <2>3 DEF In
<1>8. CASE PeerGoes
  <2>1. UNCHANGED <<sent, batch, queue>>
        /\ (pipe' = pipe \/ (pipe # <<>> /\ pipe' = Tail(pipe)))
    BY <1>8 DEF PeerGoes
  <2>2. Ordered(sent', pipe', batch', queue', InOrder)
    <3>1. pipe # <<>> => Ordered(sent, Tail(pipe), batch, queue, InOrder)
      BY <1>0, <1>o, OrderedKept
    <3> QED
      BY <1>o, <2>1, <3>1
  <2>3. \A x : In(x, pipe)' => In(x, pipe)
    BY <1>0, <2>1, InSequences
  <2> QED
    BY <1>m, <2>1, <2>2, <2>3 DEF In
<1>9. CASE End \/ Crash
  <2>1. UNCHANGED sent /\ pipe' = <<>> /\ batch' = <<>> /\ queue' = <<>>
    BY <1>9 DEF End, Crash, Die
  <2>2. Ordered(sent', pipe', batch', queue', InOrder)
    BY <1>0, <1>o, <2>1, OrderedKept
  <2>3. \A x : ~In(x, pipe)' /\ ~In(x, batch)' /\ ~In(x, queue)'
    BY <2>1, InSequences
  <2> QED
    BY <1>m, <2>1, <2>2, <2>3 DEF In
<1>10. ASSUME \/ \E m \in Msgs : SendCheck(m)
              \/ WorkerExit \/ FillFrame \/ WriteHeader \/ FrameCutShort
              \/ ReplayNothing \/ ReplayUnreadable \/ PeerReturns \/ Close
              \/ Restart
              \/ UNCHANGED vars
       PROVE  OrderInv'
  <2>1. UNCHANGED <<sent, pipe, batch, queue>>
    BY <1>10 DEF SendCheck, WorkerExit, FillFrame, WriteHeader,
                 FrameCutShort, ReplayNothing, ReplayUnreadable, PeerReturns,
                 Close, Restart, vars
  <2> QED
    BY <1>m, <1>o, <2>1 DEF In
<1> QED
  BY <1>1, <1>2, <1>3, <1>4, <1>5, <1>6, <1>7, <1>8, <1>9, <1>10
  DEF Next, WorkerStep

(* Messages that were never buffered reach the peer in the order in which  *)
(* send_data() accepted them, across batches, outages and restarts.        *)
THEOREM FastPathInOrder == Spec => []FastPathOrder
<1>1. Init => OrderInv
  <2> SUFFICES ASSUME Init PROVE OrderInv
    OBVIOUS
  <2>1. sent = <<>> /\ pipe = <<>> /\ batch = <<>> /\ queue = <<>>
    BY DEF Init
  <2>2. (\A x : ~In(x, <<>>)) /\ Sorted(<<>>, InOrder)
    BY InSequences, SortedKept
  <2> HIDE DEF InOrder
  <2> QED
    BY <2>1, <2>2 DEF OrderInv, Known, Ordered, Across
<1>2. OrderInv => FastPathOrder
  <2> SUFFICES ASSUME OrderInv, NEW i \in DOMAIN sent, NEW j \in DOMAIN sent,
                      i < j, sent[i] \in Msgs \ buffered,
                      sent[j] \in Msgs \ buffered
               PROVE  Before(sent[i], sent[j], accepted)
    BY DEF FastPathOrder
  <2>1. <<sent[i], sent[j]>> \in InOrder
    BY DEF OrderInv, Ordered, Sorted
  <2> QED
    BY <2>1, AnyFacts DEF InOrder, Filed
<1> QED
  BY <1>1, <1>2, BaseInvariant, OrderStep, PTL DEF Spec
=============================================================================
