------------------------------ MODULE IpcClient ------------------------------
(***************************************************************************)
(* core/bulletproof_ipc_client.py: one lane of the client through which    *)
(* the core sends to the Babysitter.  send_data() puts a message on the    *)
(* lane's bounded queue; the lane's worker thread drains it, sends each    *)
(* message on a ZMQ PUSH socket, and writes those that cannot be sent to a *)
(* memory-mapped circular file, of which it tries to replay one message    *)
(* each time around.  The three lanes share nothing.                       *)
(*                                                                         *)
(* Of ZMQ: a PUSH socket has a bounded outgoing pipe from which messages   *)
(* reach a peer that is up; closing it with linger 0 discards the pipe; it *)
(* has no recv(); a REQ socket never gets through to a PULL peer, which is *)
(* the only kind the Babysitter and the telemetry service bind.  Hence no  *)
(* recv() of the replay returns, and read_ptr stays 0.                     *)
(*                                                                         *)
(* Of the file: a frame is written slice by slice and the header after it, *)
(* and a crash, or close() after a join that timed out, may come between   *)
(* them.  The header itself is one slice.                                  *)
(***************************************************************************)
EXTENDS Naturals, Sequences, FiniteSets

CONSTANTS Msgs,        \* messages, each sent once
          Size,        \* the length of each one's frame
          Area,        \* size of the data area of the file
          NoMsg,
          QueueMax,    \* IPC_CLIENT_PREBUFFER_SIZE
          Hwm,         \* messages the pipe of the PUSH socket holds
          MaxLives,    \* bound of the model: clients ever constructed
          MaxCrashes,  \* bound of the model: crashes of the process
          MaxOutages   \* bound of the model: times the peer goes away

ASSUME IpcAssumption ==
    /\ NoMsg \notin Msgs
    /\ Size \in [Msgs -> Nat \ {0}]
    /\ Area \in Nat \ {0} /\ QueueMax \in Nat \ {0} /\ Hwm \in Nat \ {0}
    /\ MaxLives \in Nat \ {0} /\ MaxCrashes \in Nat /\ MaxOutages \in Nat

VARIABLES unsent,    \* messages no caller has offered yet
          calls,     \* messages of send_data() calls past their first check
          queue,     \* the lane's queue
          batch,     \* messages_to_process
          pc,        \* where the worker is
          frame,     \* the message whose frame the worker is writing
          lane,      \* kind of sockets[lane]; the worker's own is the PUSH one
          pipe,      \* outgoing pipe of the PUSH socket; NoMsg in it is a
                     \* message read from a torn frame
          shutdown,  \* _shutdown_event
          closed,    \* close() has closed the sockets and the file
          start,     \* the intact frames of the data area, by their offset
          wptr,      \* write_ptr
          count,     \* message_count
          up,        \* the peer is up
          lives, crashes, outages,  \* counters of the bounds
          accepted,  \* history: messages send_data() put on the queue
          sent,      \* history: messages that reached the peer, in order
          buffered,  \* history: messages whose frames were begun
          cut,       \* history: the frame at write_ptr was begun and abandoned
          lost       \* history: pairs of a message and what lost it

fileVars == <<start, wptr, count>>
peerVars == <<up, outages>>
lifeVars == <<shutdown, closed, lives, crashes>>
frameVars == <<frame, cut>>
vars == <<unsent, calls, queue, batch, pc, lane, pipe, lifeVars, fileVars,
          frameVars, peerVars, accepted, sent, buffered, lost>>

Offsets == 0 .. Area - 1
In(x, q) == \E i \in DOMAIN q : q[i] = x
Elements(q) == {q[i] : i \in DOMAIN q}
Drop(M, cause) == lost' = lost \cup ((M \ {NoMsg}) \X {cause})

Init ==
    /\ unsent = Msgs
    /\ calls = {}
    /\ queue = <<>> /\ batch = <<>> /\ pipe = <<>>
    /\ pc = "idle" /\ frame = NoMsg /\ cut = FALSE
    /\ lane = "push"
    /\ shutdown = FALSE /\ closed = FALSE
    /\ start = [o \in Offsets |-> NoMsg]
    /\ wptr = 0 /\ count = 0
    /\ up = TRUE
    /\ lives = 1 /\ crashes = 0 /\ outages = 0
    /\ accepted = <<>> /\ sent = <<>> /\ buffered = {} /\ lost = {}

-----------------------------------------------------------------------------
(* send_data: the shutdown flag is read first; the put follows, and fails  *)
(* on a full queue.                                                        *)

SendCheck(m) ==
    /\ pc # "down" /\ ~shutdown
    /\ m \in unsent
    /\ unsent' = unsent \ {m}
    /\ calls' = calls \cup {m}
    /\ UNCHANGED <<queue, batch, pc, lane, pipe, lifeVars, fileVars, frameVars,
                   peerVars, accepted, sent, buffered, lost>>

(* Mutant: the queue is not bounded.                                       *)
SendPutUnbounded(m) ==
    /\ m \in calls
    /\ calls' = calls \ {m}
    /\ queue' = Append(queue, m)
    /\ accepted' = Append(accepted, m)
    /\ UNCHANGED <<unsent, batch, pc, lane, pipe, lifeVars, fileVars,
                   frameVars, peerVars, sent, buffered, lost>>

SendPut(m) ==
    /\ m \in calls
    /\ calls' = calls \ {m}
    /\ IF Len(queue) < QueueMax
       THEN /\ queue' = Append(queue, m)
            /\ accepted' = Append(accepted, m)
       ELSE UNCHANGED <<queue, accepted>>          \* returns False
    /\ UNCHANGED <<unsent, batch, pc, lane, pipe, lifeVars, fileVars,
                   frameVars, peerVars, sent, buffered, lost>>

-----------------------------------------------------------------------------
(* _worker_loop.                                                           *)

(* Mutant: the newest message of the queue comes first.                    *)
DrainBackwards ==
    /\ pc = "idle" /\ ~shutdown
    /\ batch' = [i \in DOMAIN queue |-> queue[Len(queue) + 1 - i]]
    /\ queue' = <<>>
    /\ pc' = "send"
    /\ UNCHANGED <<unsent, calls, lane, pipe, lifeVars, fileVars, frameVars,
                   peerVars, accepted, sent, buffered, lost>>

(* The whole queue, which may be empty, becomes the batch.                 *)
Drain ==
    /\ pc = "idle" /\ ~shutdown
    /\ batch' = queue
    /\ queue' = <<>>
    /\ pc' = "send"
    /\ UNCHANGED <<unsent, calls, lane, pipe, lifeVars, fileVars, frameVars,
                   peerVars, accepted, sent, buffered, lost>>

WorkerExit ==
    /\ pc = "idle" /\ shutdown
    /\ pc' = "done"
    /\ UNCHANGED <<unsent, calls, queue, batch, lane, pipe, lifeVars, fileVars,
                   frameVars, peerVars, accepted, sent, buffered, lost>>

(* The worker holds the PUSH socket it found at its start: it is usable    *)
(* until the replay or close() closes it.                                  *)
Sendable == lane = "push" /\ ~closed /\ Len(pipe) < Hwm

SendNow ==
    /\ pc = "send" /\ batch # <<>>
    /\ Sendable
    /\ pipe' = Append(pipe, Head(batch))
    /\ batch' = Tail(batch)
    /\ UNCHANGED <<unsent, calls, queue, pc, lane, lifeVars, fileVars,
                   frameVars, peerVars, accepted, sent, buffered, lost>>

(* _add_to_mmap_buffer.  A frame takes the cells from write_ptr on,        *)
(* whatever they hold.  One that is larger than the area is refused; one   *)
(* that would cross its end raises when the end is reached, with some      *)
(* cells before it overwritten and the header as it was.                   *)
Cells(o, n) == {(o + k) % Area : k \in 0 .. n - 1}
Hit(C) ==
    {o \in Offsets : start[o] # NoMsg /\ Cells(o, Size[start[o]]) \cap C # {}}
Erase(C) == [o \in Offsets |-> IF o \in Hit(C) THEN NoMsg ELSE start[o]]
Erased(C) == {start[o] : o \in Hit(C)} \X {"overwritten"}

TooLarge(m) == Size[m] > Area
Crosses(m) == wptr + Size[m] > Area

(* The frame is begun: some of its cells are written, not all.  (Of its     *)
(* parts the total length counts for no cell: the reader skips it.)        *)
BeginFrame(m) ==
    /\ \E n \in 0 .. Size[m] - 1 :
          LET C == Cells(wptr, n)
          IN  /\ start' = Erase(C)
              /\ lost' = lost \cup Erased(C)
    /\ frame' = m
    /\ buffered' = buffered \cup {m}
    /\ pc' = "write"
    /\ UNCHANGED <<wptr, count>>

BufferTorn(m) ==
    /\ \E n \in 0 .. Area - wptr :
          LET C == Cells(wptr, n)
          IN  /\ start' = Erase(C)
              /\ lost' = lost \cup Erased(C) \cup {<<m, "torn">>}
    /\ UNCHANGED <<wptr, count, buffered, frame, pc>>

BufferRefused(m, cause) ==
    Drop({m}, cause) /\ UNCHANGED <<fileVars, buffered, frame, pc>>

(* Mutant: a frame that crosses the end of the area continues at its start.*)
AddWrapping ==
    LET m == Head(batch)
    IN  \/ closed /\ BufferRefused(m, "closed")
        \/ ~closed /\ TooLarge(m) /\ BufferRefused(m, "oversize")
        \/ ~closed /\ ~TooLarge(m) /\ BeginFrame(m)

AddToMmapBuffer ==
    LET m == Head(batch)
    IN  \/ closed /\ BufferRefused(m, "closed")
        \/ ~closed /\ TooLarge(m) /\ BufferRefused(m, "oversize")
        \/ ~closed /\ ~TooLarge(m) /\ Crosses(m) /\ BufferTorn(m)
        \/ ~closed /\ ~TooLarge(m) /\ ~Crosses(m) /\ BeginFrame(m)

(* Mutant: a failing send ends the worker.                                 *)
SendFailsEnds ==
    /\ pc = "send" /\ batch # <<>>
    /\ ~Sendable
    /\ batch' = Tail(batch)
    /\ Drop({Head(batch)}, "closed")
    /\ pc' = "done"
    /\ UNCHANGED <<unsent, calls, queue, lane, pipe, lifeVars, fileVars,
                   frameVars, peerVars, accepted, sent, buffered>>

SendFails ==
    /\ pc = "send" /\ batch # <<>>
    /\ ~Sendable
    /\ AddToMmapBuffer
    /\ batch' = Tail(batch)
    /\ UNCHANGED <<unsent, calls, queue, lane, pipe, lifeVars, peerVars,
                   accepted, sent, cut>>

(* The last of the frame's cells are written ...                           *)
FillFrame ==
    LET C == Cells(wptr, Size[frame])
    IN  /\ pc = "write" /\ ~closed
        /\ start' = [Erase(C) EXCEPT ![wptr] = frame]
        /\ lost' = lost \cup Erased(C)
        /\ pc' = "header"
        /\ cut' = FALSE
        /\ UNCHANGED <<unsent, calls, queue, batch, frame, lane, pipe,
                       lifeVars, wptr, count, peerVars, accepted, sent,
                       buffered>>

(* ... and then the header, with which the frame counts.                   *)
WriteHeader ==
    /\ pc = "header" /\ ~closed
    /\ wptr' = (wptr + Size[frame]) % Area
    /\ count' = count + 1
    /\ frame' = NoMsg
    /\ pc' = "send"
    /\ UNCHANGED <<unsent, calls, queue, batch, lane, pipe, lifeVars, start,
                   cut, peerVars, accepted, sent, buffered, lost>>

(* The file was closed under the writing, which raises: what is written    *)
(* stays, the header is as it was.                                         *)
FrameCutShort ==
    /\ pc \in {"write", "header"} /\ closed
    /\ Drop({frame}, "closed")
    /\ cut' = (cut \/ pc = "write")
    /\ frame' = NoMsg
    /\ pc' = "send"
    /\ UNCHANGED <<unsent, calls, queue, batch, lane, pipe, lifeVars, fileVars,
                   peerVars, accepted, sent, buffered>>

(* _replay_from_mmap, after the batch: nothing when the file is closed or  *)
(* has no message.  On a REQ socket the reply times out, and the socket    *)
(* is replaced by another REQ socket.                                      *)
MayReplay == count > 0 /\ ~closed

ReplayNothing ==
    /\ pc = "send" /\ batch = <<>>
    /\ ~MayReplay \/ lane = "req"
    /\ pc' = "idle"
    /\ UNCHANGED <<unsent, calls, queue, batch, lane, pipe, lifeVars, fileVars,
                   frameVars, peerVars, accepted, sent, buffered, lost>>

(* A torn frame may be unreadable: it stays where it is.                   *)
ReplayUnreadable ==
    /\ pc = "send" /\ batch = <<>>
    /\ MayReplay /\ start[0] = NoMsg
    /\ pc' = "idle"
    /\ UNCHANGED <<unsent, calls, queue, batch, lane, pipe, lifeVars, fileVars,
                   frameVars, peerVars, accepted, sent, buffered, lost>>

(* On the PUSH socket the message at read_ptr is sent, if the pipe has     *)
(* room.  A torn frame may also read as a message, which nobody sent.      *)
ReplaySend ==
    /\ pc = "send" /\ batch = <<>>
    /\ MayReplay /\ lane = "push"
    /\ pipe' = IF Len(pipe) < Hwm THEN Append(pipe, start[0]) ELSE pipe
    /\ pc' = "recv"
    /\ UNCHANGED <<unsent, calls, queue, batch, lane, lifeVars, fileVars,
                   frameVars, peerVars, accepted, sent, buffered, lost>>

(* Mutant: the PUSH socket is kept.                                        *)
ReplayFailsKeeps ==
    /\ pc = "recv"
    /\ pc' = "idle"
    /\ UNCHANGED <<unsent, calls, queue, batch, lane, pipe, lifeVars, fileVars,
                   frameVars, peerVars, accepted, sent, buffered, lost>>

(* The send or the recv() that follows it raises: the PUSH socket is       *)
(* closed, with what its pipe still holds, and a REQ socket takes its      *)
(* place; the header is not touched.                                       *)
ReplayFails ==
    /\ pc = "recv"
    /\ lane' = "req"
    /\ pipe' = <<>>
    /\ Drop(Elements(pipe), "socket")
    /\ pc' = "idle"
    /\ UNCHANGED <<unsent, calls, queue, batch, lifeVars, fileVars, frameVars,
                   peerVars, accepted, sent, buffered>>

WorkerStep ==
    \/ Drain \/ WorkerExit \/ SendNow
    \/ SendFails \/ FillFrame \/ WriteHeader \/ FrameCutShort
    \/ ReplayNothing \/ ReplayUnreadable \/ ReplaySend \/ ReplayFails

-----------------------------------------------------------------------------
(* The transport and its peer.  A peer that goes away may take with it the *)
(* message that was on its way.                                            *)

Transmit ==
    /\ up /\ pipe # <<>>
    /\ sent' = Append(sent, Head(pipe))
    /\ pipe' = Tail(pipe)
    /\ UNCHANGED <<unsent, calls, queue, batch, pc, lane, lifeVars, fileVars,
                   frameVars, peerVars, accepted, buffered, lost>>

PeerGoes ==
    /\ up /\ outages < MaxOutages
    /\ up' = FALSE
    /\ outages' = outages + 1
    /\ \/ UNCHANGED <<pipe, lost>>
       \/ /\ pipe # <<>>
          /\ pipe' = Tail(pipe)
          /\ Drop({Head(pipe)}, "transit")
    /\ UNCHANGED <<unsent, calls, queue, batch, pc, lane, lifeVars, fileVars,
                   frameVars, accepted, sent, buffered>>

PeerReturns ==
    /\ ~up
    /\ up' = TRUE
    /\ UNCHANGED <<unsent, calls, queue, batch, pc, lane, pipe, lifeVars,
                   fileVars, frameVars, outages, accepted, sent, buffered,
                   lost>>

-----------------------------------------------------------------------------
(* close: sets the flag, joins the worker for two seconds, then closes the *)
(* sockets and the file whether it has ended or not.                       *)

Close ==
    /\ pc # "down" /\ ~shutdown
    /\ shutdown' = TRUE
    /\ UNCHANGED <<unsent, calls, queue, batch, pc, lane, pipe, closed, lives,
                   crashes, fileVars, frameVars, peerVars, accepted, sent,
                   buffered, lost>>

CloseFinish ==
    /\ pc # "down" /\ shutdown /\ ~closed
    /\ closed' = TRUE
    /\ pipe' = <<>>
    /\ Drop(Elements(pipe), "closed")
    /\ UNCHANGED <<unsent, calls, queue, batch, pc, lane, shutdown, lives,
                   crashes, fileVars, frameVars, peerVars, accepted, sent,
                   buffered>>

(* The process ends, orderly or not: what is in memory goes, the mapped    *)
(* file stays.                                                             *)
Die(cause) ==
    /\ pc' = "down"
    /\ queue' = <<>> /\ batch' = <<>> /\ pipe' = <<>> /\ calls' = {}
    /\ frame' = NoMsg
    /\ cut' = (cut \/ pc = "write")
    /\ Drop({frame} \cup Elements(queue) \cup Elements(batch) \cup Elements(pipe),
            cause)

End ==
    /\ pc = "done" /\ closed
    /\ Die("closed")
    /\ UNCHANGED <<unsent, lane, lifeVars, fileVars, peerVars, accepted, sent,
                   buffered>>

Crash ==
    /\ pc # "down" /\ crashes < MaxCrashes
    /\ crashes' = crashes + 1
    /\ Die("crash")
    /\ UNCHANGED <<unsent, lane, shutdown, closed, lives, fileVars, peerVars,
                   accepted, sent, buffered>>

(* Mutant: a new client starts the file over.                              *)
RestartClean ==
    /\ pc = "down" /\ lives < MaxLives
    /\ lives' = lives + 1
    /\ pc' = "idle"
    /\ lane' = "push"
    /\ shutdown' = FALSE /\ closed' = FALSE
    /\ start' = [o \in Offsets |-> NoMsg] /\ wptr' = 0 /\ count' = 0
    /\ UNCHANGED <<unsent, calls, queue, batch, pipe, frameVars, crashes,
                   peerVars, accepted, sent, buffered, lost>>

(* A new client, which finds a valid header in the file.                   *)
Restart ==
    /\ pc = "down" /\ lives < MaxLives
    /\ lives' = lives + 1
    /\ pc' = "idle"
    /\ lane' = "push"
    /\ shutdown' = FALSE /\ closed' = FALSE
    /\ UNCHANGED <<unsent, calls, queue, batch, pipe, crashes, fileVars,
                   frameVars, peerVars, accepted, sent, buffered, lost>>

Next ==
    \/ \E m \in Msgs : SendCheck(m) \/ SendPut(m)
    \/ WorkerStep
    \/ Transmit \/ PeerGoes \/ PeerReturns
    \/ Close \/ CloseFinish \/ End \/ Crash \/ Restart

Spec == Init /\ [][Next]_vars

(* The worker and ZMQ's own thread run, and an outage of the peer ends.    *)
FairSpec ==
    /\ Spec
    /\ WF_vars(WorkerStep)
    /\ WF_vars(Transmit)
    /\ WF_vars(PeerReturns)

-----------------------------------------------------------------------------
TypeOK ==
    /\ unsent \subseteq Msgs /\ calls \subseteq Msgs
    /\ queue \in Seq(Msgs) /\ Len(queue) <= QueueMax
    /\ batch \in Seq(Msgs)
    /\ pc \in {"idle", "send", "write", "header", "recv", "done", "down"}
    /\ frame \in Msgs \cup {NoMsg}
    /\ frame # NoMsg <=> pc \in {"write", "header"}
    /\ cut \in BOOLEAN
    /\ lane \in {"push", "req"}
    /\ pipe \in Seq(Msgs \cup {NoMsg}) /\ Len(pipe) <= Hwm
    /\ shutdown \in BOOLEAN /\ closed \in BOOLEAN
    /\ start \in [Offsets -> Msgs \cup {NoMsg}]
    /\ wptr \in Offsets /\ count \in Nat
    /\ up \in BOOLEAN
    /\ lives \in 1 .. MaxLives /\ crashes \in 0 .. MaxCrashes
    /\ outages \in 0 .. MaxOutages
    /\ accepted \in Seq(Msgs) /\ sent \in Seq(Msgs \cup {NoMsg})
    /\ buffered \subseteq Msgs
    /\ lost \subseteq Msgs \X {"closed", "oversize", "torn", "overwritten",
                                 "socket", "transit", "crash"}

(* A message send_data() returned True for reached the peer, is in memory  *)
(* or is intact in the file, unless it met one of the ways this client     *)
(* loses messages.  A crash takes only what is in memory or was being      *)
(* written, and the file of an earlier process is still there for the next *)
(* one.                                                                    *)
InFile(m) == \E o \in Offsets : start[o] = m
Held(m) ==
    In(m, queue) \/ In(m, batch) \/ m = frame \/ In(m, pipe) \/ InFile(m)
Lost(m) == \E c \in lost : c[1] = m

NoUnexplainedLoss ==
    \A m \in Elements(accepted) : Held(m) \/ In(m, sent) \/ Lost(m)

(* Whatever was written since, with or without wrapping, the replay finds  *)
(* a whole frame at read_ptr when the header counts one, with one          *)
(* exception: write_ptr has come back to the start, and a frame begun over *)
(* the first one is being written, or a crash or close() has cut it short  *)
(* and none was completed there since.                                     *)
HeadIntact ==
    count > 0 /\ start[0] = NoMsg => wptr = 0 /\ (pc = "write" \/ cut)

(* One process sends a message to the peer at most once, the one that it   *)
(* replays included: read_ptr does not move, but the failure that leaves   *)
(* it where it is also closes the socket that sent.                        *)
Copies(m) == Cardinality({i \in DOMAIN sent : sent[i] = m})
AtMostOncePerLife == \A m \in Msgs : Copies(m) <= lives

(* Messages that were never buffered reach the peer in the order in which  *)
(* send_data() accepted them, across batches, outages and restarts.        *)
Before(x, y, q) == \E i, j \in DOMAIN q : i < j /\ q[i] = x /\ q[j] = y
FastPathOrder ==
    \A i, j \in DOMAIN sent :
        (i < j /\ sent[i] \in Msgs \ buffered /\ sent[j] \in Msgs \ buffered)
            => Before(sent[i], sent[j], accepted)

(* The worker of a running client keeps taking messages off the queue,     *)
(* whatever the peer does.                                                 *)
Stopped == shutdown \/ pc = "down"
QueueIsServed ==
    \A m \in Msgs : In(m, queue) ~> (~In(m, queue) \/ Stopped)

(* A buffered message is sent once the peer is up for good: "mmap-backed   *)
(* disk buffering for resilience", "remains in the mmap buffer to be       *)
(* re-attempted on the next cycle with the new socket".                    *)
BufferedIsSent ==
    \A m \in Msgs : InFile(m) ~> (In(m, sent) \/ Stopped \/ Lost(m))
=============================================================================
