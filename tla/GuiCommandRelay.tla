--------------------------- MODULE GuiCommandRelay ---------------------------
(***************************************************************************)
(* services/babysitter/babysitter_service.py, _gui_command_consumer_loop:  *)
(* one thread reads the commands GUIs append to a Redis stream, through a  *)
(* consumer group named after the process, forwards each to the core or to *)
(* the OCR process over a PUSH socket without blocking, or carries it out  *)
(* on the session recorder, and acknowledges it.                           *)
(*                                                                         *)
(* A command is named by its position in the stream.  A group of Redis     *)
(* holds how far it has delivered and what of that is unacknowledged; it   *)
(* outlives the process, whose successor has a group of its own unless the *)
(* process id comes again.                                                 *)
(***************************************************************************)
EXTENDS Naturals, Sequences, FiniteSets

CONSTANTS Targets,     \* CORE_SERVICE, OCR_PROCESS
          Kinds,       \* kinds of commands in use
          Pids,        \* process ids, hence group names
          NoPid,       \* no process runs
          MaxBatch,    \* count of XREADGROUP
          MaxCmds,     \* bound of the model: commands appended
          MaxLives,    \* bound of the model: processes started
          MaxLosses,   \* bound of the model: outages and lost replies
          MaxFaults    \* bound of the model: sockets, recorders and files that
                       \* cannot be set up

RecorderKinds == {"start", "stop", "toggle"}

ASSUME RelayAssumption ==
    /\ IsFiniteSet(Targets)
    /\ Kinds \subseteq Targets \cup RecorderKinds \cup {"junk"}
    /\ Targets \cap (RecorderKinds \cup {"junk"}) = {}
    /\ NoPid \notin Pids
    /\ MaxBatch \in Nat \ {0}
    /\ MaxCmds \in Nat /\ MaxLives \in Nat
    /\ MaxLosses \in Nat /\ MaxFaults \in Nat

VARIABLES stream,    \* the commands appended
          made,      \* the groups that exist
          cursor,    \* of each group, the last command delivered
          pending,   \* of each group, what is delivered and unacknowledged
          up,        \* Redis answers
          pid,       \* the running process
          stopping,  \* stop_event
          pc,        \* where the consumer thread is
          batch,     \* messages of the read not yet looked at
          acks,      \* ids_to_ack
          socket,    \* of each target: "none", "open" or "closed"
          recorder,  \* "none", "off", or "on": session_recorder.is_active
          lives, losses, faults,   \* counters of the bounds
          sent,      \* history: of each group, the commands forwarded
          decided,   \* history: of each group, the recorder commands carried
                     \* out and the commands given up for want of a socket
          refused,   \* history: of each group, the commands a socket had no
                     \* room for, each with the last of its batch
          missed,    \* history: of each group, the commands of lost replies
          fresh,     \* history: the process made its group
          misfired   \* history: a session file of this process did not open

redisVars == <<stream, made, cursor, pending, up, losses>>
loopVars == <<pc, batch, acks>>
recorderVars == <<recorder, faults, misfired>>
processVars == <<pid, stopping, lives>>
leftVars == <<refused, missed>>
historyVars == <<sent, decided, fresh, leftVars>>
vars == <<redisVars, loopVars, socket, recorderVars, processVars,
          historyVars>>

Ids == 1 .. MaxCmds
Running == pid # NoPid

Init ==
    /\ stream = <<>>
    /\ made = {}
    /\ cursor = [p \in Pids |-> 0]
    /\ pending = [p \in Pids |-> {}]
    /\ up = TRUE
    /\ pid = NoPid
    /\ stopping = FALSE
    /\ pc = "down"
    /\ batch = <<>>
    /\ acks = {}
    /\ socket = [t \in Targets |-> "none"]
    /\ recorder = "none"
    /\ lives = 0 /\ losses = 0 /\ faults = 0
    /\ sent = [p \in Pids |-> <<>>]
    /\ decided = [p \in Pids |-> {}]
    /\ refused = [p \in Pids |-> {}]
    /\ missed = [p \in Pids |-> {}]
    /\ fresh = FALSE
    /\ misfired = FALSE

-----------------------------------------------------------------------------
(* The GUI and Redis.                                                      *)

GuiAppend(k) ==
    /\ up
    /\ Len(stream) < MaxCmds
    /\ stream' = Append(stream, k)
    /\ UNCHANGED <<made, cursor, pending, up, losses, loopVars, socket,
                   recorderVars, processVars, historyVars>>

RedisGoes ==
    /\ up /\ losses < MaxLosses
    /\ up' = FALSE
    /\ losses' = losses + 1
    /\ UNCHANGED <<stream, made, cursor, pending, loopVars, socket,
                   recorderVars, processVars, historyVars>>

RedisReturns ==
    /\ ~up
    /\ up' = TRUE
    /\ UNCHANGED <<stream, made, cursor, pending, losses, loopVars,
                   socket, recorderVars, processVars, historyVars>>

-----------------------------------------------------------------------------
(* SessionRecorder.start_new_session stops the session there is, then      *)
(* opens a file; stop ends it.                                             *)

StartSession ==
    \/ /\ recorder' = "on"
       /\ UNCHANGED <<faults, misfired>>
    \/ /\ faults < MaxFaults
       /\ faults' = faults + 1
       /\ recorder' = "off"
       /\ misfired' = TRUE

StopSession ==
    /\ recorder' = "off"
    /\ UNCHANGED <<faults, misfired>>

(* _handle_gui_command.                                                    *)
RunOnRecorder(k) ==
    \/ recorder = "none" /\ UNCHANGED recorderVars
    \/ recorder # "none" /\ k = "start" /\ StartSession
    \/ recorder # "none" /\ k = "stop" /\ StopSession
    \/ recorder = "on" /\ k = "toggle" /\ StopSession
    \/ recorder = "off" /\ k = "toggle" /\ StartSession

-----------------------------------------------------------------------------
(* __init__, _initialize_zmq_sockets and start: a socket or the recorder   *)
(* that cannot be set up is left out, and the session file may not open.   *)
(* Of the process ids without a group any one stands for all.              *)

Launch(p) ==
    /\ ~Running
    /\ p \notin made => p = CHOOSE q \in Pids \ made : TRUE
    /\ lives < MaxLives
    /\ lives' = lives + 1
    /\ pid' = p
    /\ stopping' = FALSE
    /\ pc' = "top"
    /\ \E missing \in SUBSET (Targets \cup {"recorder", "file"}) :
          /\ faults + Cardinality(missing) <= MaxFaults
          /\ faults' = faults + Cardinality(missing)
          /\ socket' = [t \in Targets |->
                          IF t \in missing THEN "none" ELSE "open"]
          /\ recorder' = IF "recorder" \in missing THEN "none"
                         ELSE IF "file" \in missing THEN "off" ELSE "on"
          /\ misfired' = ("file" \in missing)
    /\ fresh' = FALSE
    /\ UNCHANGED <<redisVars, batch, acks, sent, decided, leftVars>>

(* shutdown_service, on the main thread: the flag, then the sockets, while *)
(* the consumer may be anywhere; after a join that may time out, the       *)
(* recorder.                                                               *)
StopRequest ==
    /\ Running /\ ~stopping
    /\ stopping' = TRUE
    /\ UNCHANGED <<redisVars, loopVars, socket, recorderVars, pid, lives,
                   historyVars>>

CloseSocket(t) ==
    /\ Running /\ stopping
    /\ socket[t] = "open"
    /\ socket' = [socket EXCEPT ![t] = "closed"]
    /\ UNCHANGED <<redisVars, loopVars, recorderVars, processVars,
                   historyVars>>

StopRecorder ==
    /\ Running /\ stopping
    /\ \A t \in Targets : socket[t] # "open"
    /\ recorder = "on"
    /\ StopSession
    /\ UNCHANGED <<redisVars, loopVars, socket, processVars, historyVars>>

(* The process ends, whether or not it was asked to.                       *)
ProcessEnds ==
    /\ Running
    /\ pid' = NoPid
    /\ stopping' = FALSE
    /\ pc' = "down"
    /\ batch' = <<>>
    /\ acks' = {}
    /\ socket' = [t \in Targets |-> "none"]
    /\ recorder' = "none"
    /\ misfired' = FALSE
    /\ fresh' = FALSE
    /\ UNCHANGED <<redisVars, faults, lives, sent, decided, leftVars>>

-----------------------------------------------------------------------------
(* The loop, run by the consumer thread of process pid.                    *)

LeaveLoop ==
    /\ pc = "top" /\ stopping
    /\ pc' = "stopped"
    /\ UNCHANGED <<redisVars, batch, acks, socket, recorderVars,
                   processVars, historyVars>>

(* Mutant: a new group starts at the end of the stream.                    *)
EnsureGroupAtEnd ==
    /\ pc = "top" /\ ~stopping /\ up
    /\ made' = made \cup {pid}
    /\ cursor' = [cursor EXCEPT ![pid] =
                     IF pid \in made THEN @ ELSE Len(stream)]
    /\ fresh' = (fresh \/ pid \notin made)
    /\ pc' = "read"
    /\ UNCHANGED <<stream, pending, up, losses, batch, acks, socket,
                   recorderVars, processVars, sent, decided, leftVars>>

(* XGROUP CREATE from id 0; BUSYGROUP is the answer for a group that       *)
(* exists.  If Redis is away the loop waits and begins again.              *)
EnsureGroup ==
    /\ pc = "top" /\ ~stopping /\ up
    /\ made' = made \cup {pid}
    /\ fresh' = (fresh \/ pid \notin made)
    /\ pc' = "read"
    /\ UNCHANGED <<stream, cursor, pending, up, losses, batch, acks,
                   socket, recorderVars, processVars, sent, decided,
                   leftVars>>

(* XREADGROUP with '>': what the group has not delivered to anybody, at    *)
(* most MaxBatch of it, becomes pending.                                   *)
Upto == IF cursor[pid] + MaxBatch < Len(stream)
        THEN cursor[pid] + MaxBatch ELSE Len(stream)

(* Mutant: what is pending is read again.                                  *)
FirstUnreadOrPending ==
    IF pending[pid] = {} THEN cursor[pid] + 1
    ELSE CHOOSE i \in pending[pid] : \A j \in pending[pid] : i <= j

(* Mutant: the last command delivered is delivered again.                  *)
FirstUnreadInclusive == cursor[pid]

FirstUnread == cursor[pid] + 1

Delivered == [i \in 1 .. Upto + 1 - FirstUnread |-> FirstUnread + i - 1]

Read ==
    /\ pc = "read"
    /\ up
    /\ FirstUnread <= Upto
    /\ cursor' = [cursor EXCEPT ![pid] = Upto]
    /\ pending' = [pending EXCEPT ![pid] = @ \cup FirstUnread .. Upto]
    /\ batch' = Delivered
    /\ pc' = "handle"
    /\ UNCHANGED <<stream, made, up, losses, acks, socket, recorderVars,
                   processVars, historyVars>>

(* Redis delivers and the reply is lost, by a time-out or with the         *)
(* connection: the exception handlers go back to the top of the loop.      *)
ReadReplyLost ==
    /\ pc = "read"
    /\ up /\ losses < MaxLosses
    /\ losses' = losses + 1
    /\ up' \in BOOLEAN
    /\ FirstUnread <= Upto
    /\ cursor' = [cursor EXCEPT ![pid] = Upto]
    /\ pending' = [pending EXCEPT ![pid] = @ \cup FirstUnread .. Upto]
    /\ missed' = [missed EXCEPT ![pid] = @ \cup FirstUnread .. Upto]
    /\ pc' = "top"
    /\ UNCHANGED <<stream, made, batch, acks, socket, recorderVars,
                   processVars, sent, decided, fresh, refused>>

(* Mutant: a read without a result, in time or by an error, ends the loop. *)
ReadNothingEnds ==
    /\ pc = "read"
    /\ ~up \/ FirstUnread > Upto
    /\ pc' = "stopped"
    /\ UNCHANGED <<redisVars, batch, acks, socket, recorderVars,
                   processVars, historyVars>>

(* Nothing new, or an error of Redis that is logged.                       *)
ReadNothing ==
    /\ pc = "read"
    /\ ~up \/ FirstUnread > Upto
    /\ pc' = "top"
    /\ UNCHANGED <<redisVars, batch, acks, socket, recorderVars,
                   processVars, historyVars>>

Command == stream[Head(batch)]
Handled == batch' = Tail(batch) /\ acks' = acks \cup {Head(batch)}

(* A message without payload, not JSON, or for nobody known.               *)
Skip ==
    /\ pc = "handle" /\ batch # <<>>
    /\ Command = "junk"
    /\ Handled
    /\ UNCHANGED <<redisVars, pc, socket, recorderVars, processVars,
                   historyVars>>

(* BABYSITTER_SERVICE: no socket follows, so it is acknowledged.           *)
RunOwn ==
    /\ pc = "handle" /\ batch # <<>>
    /\ Command \in RecorderKinds
    /\ RunOnRecorder(Command)
    /\ decided' = [decided EXCEPT ![pid] = @ \cup {Head(batch)}]
    /\ Handled
    /\ UNCHANGED <<redisVars, pc, socket, processVars, sent, fresh, leftVars>>

(* With DONTWAIT a socket takes the message or has no room for it, as the  *)
(* peer and the pipe to it happen to be.                                   *)
Forward ==
    /\ pc = "handle" /\ batch # <<>>
    /\ Command \in Targets
    /\ socket[Command] = "open"
    /\ sent' = [sent EXCEPT ![pid] = Append(@, Head(batch))]
    /\ Handled
    /\ UNCHANGED <<redisVars, pc, socket, recorderVars, processVars, decided,
                   fresh, leftVars>>

(* No socket, or one that shutdown has closed: logged and acknowledged.    *)
GiveUp ==
    /\ pc = "handle" /\ batch # <<>>
    /\ Command \in Targets
    /\ socket[Command] # "open"
    /\ decided' = [decided EXCEPT ![pid] = @ \cup {Head(batch)}]
    /\ Handled
    /\ UNCHANGED <<redisVars, pc, socket, recorderVars, processVars,
                   sent, fresh, leftVars>>

(* Mutant: the refused message is acknowledged with the others.            *)
RefuseAndAck ==
    /\ pc = "handle" /\ batch # <<>>
    /\ Command \in Targets
    /\ socket[Command] = "open"
    /\ batch' = <<>>
    /\ acks' = acks \cup {Head(batch)}
    /\ UNCHANGED <<redisVars, pc, socket, recorderVars, processVars,
                   historyVars>>

(* zmq.Again: not acknowledged, and the rest of the batch is let go.       *)
Refuse ==
    /\ pc = "handle" /\ batch # <<>>
    /\ Command \in Targets
    /\ socket[Command] = "open"
    /\ batch' = <<>>
    /\ refused' = [refused EXCEPT ![pid] = @ \cup {<<Head(batch), cursor[pid]>>}]
    /\ UNCHANGED <<redisVars, pc, acks, socket, recorderVars,
                   processVars, sent, decided, fresh, missed>>

(* XACK, if there is something to acknowledge; an error is logged.         *)
Acknowledge ==
    /\ pc = "handle" /\ batch = <<>>
    /\ IF up THEN pending' = [pending EXCEPT ![pid] = @ \ acks]
             ELSE UNCHANGED pending
    /\ acks' = {}
    /\ pc' = "top"
    /\ UNCHANGED <<stream, made, cursor, up, losses, batch, socket,
                   recorderVars, processVars, historyVars>>

LoopStep ==
    \/ LeaveLoop \/ EnsureGroup \/ Read \/ ReadReplyLost \/ ReadNothing
    \/ Skip \/ RunOwn \/ Forward \/ GiveUp \/ Refuse \/ Acknowledge

Next ==
    \/ \E k \in Kinds : GuiAppend(k)
    \/ RedisGoes \/ RedisReturns
    \/ \E p \in Pids : Launch(p)
    \/ StopRequest \/ StopRecorder \/ ProcessEnds
    \/ \E t \in Targets : CloseSocket(t)
    \/ LoopStep

Spec == Init /\ [][Next]_vars

(* Fairness: the consumer thread is scheduled and its calls return (reads  *)
(* block for a second, sends do not block); an outage of Redis ends.       *)
(* Nothing makes a GUI write, a process end or a socket have room.         *)
FairSpec ==
    /\ Spec
    /\ WF_vars(LoopStep)
    /\ WF_vars(RedisReturns)

-----------------------------------------------------------------------------
TypeOK ==
    /\ stream \in Seq(Kinds)
    /\ made \subseteq Pids
    /\ cursor \in [Pids -> 0 .. MaxCmds]
    /\ pending \in [Pids -> SUBSET Ids]
    /\ up \in BOOLEAN
    /\ pid \in Pids \cup {NoPid}
    /\ stopping \in BOOLEAN
    /\ pc \in {"down", "top", "read", "handle", "stopped"}
    /\ batch \in Seq(Ids)
    /\ acks \subseteq Ids
    /\ socket \in [Targets -> {"none", "open", "closed"}]
    /\ recorder \in {"none", "off", "on"}
    /\ lives \in Nat /\ losses \in Nat /\ faults \in Nat
    /\ sent \in [Pids -> Seq(Ids)]
    /\ decided \in [Pids -> SUBSET Ids]
    /\ refused \in [Pids -> SUBSET (Ids \X Ids)] /\ missed \in [Pids -> SUBSET Ids]
    /\ fresh \in BOOLEAN /\ misfired \in BOOLEAN

(* A group forwards commands in the order in which the GUIs wrote them,    *)
(* and none twice, over all processes that share its name, whatever was    *)
(* refused, left unacknowledged or lost in between.                        *)
ForwardOrder ==
    \A p \in Pids : \A i, j \in DOMAIN sent[p] :
        i < j => sent[p][i] < sent[p][j]

(* What a group no longer owes has been forwarded, carried out, found      *)
(* unreadable, or given up for want of a socket: a refused command, or one *)
(* behind it in its batch, or one in a reply that was lost, is never       *)
(* acknowledged.                                                           *)
Forwarded(p) == {sent[p][i] : i \in DOMAIN sent[p]}
Settled(p) ==
    Forwarded(p) \cup decided[p] \cup
        {i \in DOMAIN stream : stream[i] = "junk"}

AcknowledgedIsSettled ==
    \A p \in Pids : (1 .. cursor[p]) \ pending[p] \subseteq Settled(p)

(* A process whose group is new reads the commands from the first: once it *)
(* has read them all, the recorder is where the whole history puts one     *)
(* that was started, if no session file failed to open and no recorder     *)
(* command was left behind.                                                *)
Effect(on, k) ==
    CASE k = "start" -> TRUE
      [] k = "stop" -> FALSE
      [] k = "toggle" -> ~on
      [] OTHER -> on

RecordingAfter[n \in 0 .. MaxCmds] ==
    IF n = 0 THEN TRUE ELSE Effect(RecordingAfter[n - 1], stream[n])

CaughtUp ==
    /\ Running /\ ~stopping /\ fresh /\ ~misfired /\ recorder # "none"
    /\ pc \in {"top", "read"}
    /\ cursor[pid] = Len(stream)
    /\ \A i \in pending[pid] \ decided[pid] : stream[i] \notin RecorderKinds

RecorderFollowsHistory ==
    CaughtUp => (recorder = "on" <=> RecordingAfter[Len(stream)])

(* A process that is left running settles every command, but for those a   *)
(* socket had no room for, those behind one of them in the same batch,     *)
(* which were let go with it, and those of a reply that was lost.  A       *)
(* target that is gone or slow, now or from the start, holds up nothing    *)
(* that was read later, for another target or for the recorder.            *)
Undecided(i) ==
    /\ i <= Len(stream)
    /\ Running /\ ~stopping
    /\ i > cursor[pid] \/ \E j \in DOMAIN batch : batch[j] = i

LetGo(i) == \E r \in refused[pid] : i \in r[1] .. r[2]

EveryCommandDecided ==
    \A i \in Ids :
        Undecided(i) ~> \/ ~Running \/ stopping
                        \/ i \in Settled(pid)
                        \/ LetGo(i)
                        \/ i \in missed[pid]

(* "Stop this batch, Redis will resend" (babysitter_service.py:1218): a    *)
(* command read and left unacknowledged is delivered again and settled, if *)
(* the process keeps running.                                              *)
LeftBehind(i) ==
    /\ Running /\ ~stopping
    /\ pc = "top"
    /\ i \in pending[pid] \ Settled(pid)

RefusedIsResent ==
    \A i \in Ids :
        LeftBehind(i) ~> (~Running \/ stopping \/ i \in Settled(pid))
=============================================================================
