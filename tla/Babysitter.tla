----------------------------- MODULE Babysitter -----------------------------
(***************************************************************************)
(* services/babysitter/babysitter_service.py: the data path of the         *)
(* RedisBabysitterService.  A receive thread moves messages from the ZMQ   *)
(* PULL sockets to a bounded in-memory queue; worker threads publish them  *)
(* to Redis streams, and append them to a disk buffer file when they       *)
(* cannot; a replay thread publishes the closed files of the buffer when   *)
(* Redis is healthy; a prune thread deletes old ones.                      *)
(*                                                                         *)
(* Redis may go away at any command, after it applied it or before; the    *)
(* process may crash at any step, which loses its memory and keeps the     *)
(* disk; opening or writing a file may fail.                               *)
(***************************************************************************)
EXTENDS Naturals, Sequences, FiniteSets

CONSTANTS Msgs,        \* messages the producers send, each once
          Multipart,   \* those with binary parts
          Malformed,   \* those that make no task: fewer than two parts,
                       \* multipart without JSON metadata, no UTF-8
          Rejected,    \* those Redis answers with an error of its own
          Workers,     \* REDIS_PUBLISH_WORKERS threads
          Replay,      \* the replay thread
          NoMsg, NoFile, Junk,
          QueueMax,    \* INTERNAL_QUEUE_MAX_SIZE
          Retries,     \* REDIS_PUBLISH_MAX_RETRIES_IN_WORKER
          FileMax,     \* entries at which a file has reached its maximum size
          MaxFiles,    \* bound of the model: files ever opened
          MaxOutages,  \* bound of the model: times Redis goes away
          MaxCrashes,  \* bound of the model: crashes of the service
          MaxFaults    \* bound of the model: disk operations that fail

ASSUME BabysitterAssumption ==
    /\ Multipart \subseteq Msgs /\ Malformed \subseteq Msgs
    /\ Rejected \subseteq Msgs
    /\ Replay \notin Workers
    /\ NoMsg \notin Msgs /\ Junk \notin Msgs
    /\ NoFile \notin Seq(Msgs \cup {Junk})
    /\ QueueMax \in Nat \ {0} /\ Retries \in Nat \ {0} /\ FileMax \in Nat \ {0}
    /\ MaxFiles \in Nat \ {0}
    /\ MaxOutages \in Nat /\ MaxCrashes \in Nat /\ MaxFaults \in Nat

VARIABLES unsent,    \* messages still with the producers
          queue,     \* processing_queue
          stopping,  \* stop_event
          pc, hold, att,  \* of each thread: where it is, its task, its attempt
          disk,      \* the buffer files, NoFile where there is none
          current,   \* current_file_path
          open,      \* current_file_handle is usable
          rfile,     \* the file being replayed
          rtodo,     \* its entries_to_process not yet published
          up,        \* Redis answers
          backoff,   \* the reconnection delay has not elapsed
          stream,    \* what Redis was asked to add, in order
          blobs,     \* messages whose binary parts are stored
          nfiles, outages, crashes, faults,   \* counters of the bounds
          lost,      \* history: pairs of a message and what lost it
          doubtful   \* history: messages whose addition left no trace: the
                     \* reply was lost, or the replay pass was cut short

redisVars == <<up, backoff, stream, blobs, outages>>
diskVars == <<disk, current, open, nfiles, faults>>
threadVars == <<pc, hold, att>>
replayVars == <<rfile, rtodo>>
vars == <<unsent, queue, stopping, threadVars, diskVars, replayVars,
          redisVars, crashes, lost, doubtful>>

Threads == Workers \cup {Replay}
Files == 1 .. MaxFiles
Entries == Msgs \cup {Junk}
In(x, q) == \E i \in DOMAIN q : q[i] = x
(* The files buffer_*.dat that get_files_for_replay lists.                 *)
Closed == {f \in Files : disk[f] # NoFile /\ f # current}

Init ==
    /\ unsent = Msgs
    /\ queue = <<>>
    /\ stopping = FALSE
    /\ pc = [t \in Threads |-> "idle"]
    /\ hold = [t \in Threads |-> NoMsg]
    /\ att = [t \in Threads |-> 0]
    /\ disk = [f \in Files |-> IF f = 1 THEN <<>> ELSE NoFile]
    /\ current = 1
    /\ open = TRUE
    /\ rfile = 0
    /\ rtodo = <<>>
    /\ up = TRUE
    /\ backoff = FALSE
    /\ stream = <<>>
    /\ blobs = {}
    /\ nfiles = 1
    /\ outages = 0 /\ crashes = 0 /\ faults = 0
    /\ lost = {}
    /\ doubtful = {}

Running == pc[Replay] # "down"
Goto(t, label) ==     \* a thread that goes idle lets go of its message
    /\ pc' = [pc EXCEPT ![t] = label]
    /\ hold' = [hold EXCEPT ![t] = IF label = "idle" THEN NoMsg ELSE @]
GotoWith(t, label, m) ==
    /\ pc' = [pc EXCEPT ![t] = label]
    /\ hold' = [hold EXCEPT ![t] = m]
Drop(M, cause) == lost' = lost \cup (M \X {cause})

-----------------------------------------------------------------------------
(* Mutant: the queue is not bounded.                                       *)
ReceiveUnbounded(m) ==
    /\ Running /\ ~stopping
    /\ m \in unsent
    /\ unsent' = unsent \ {m}
    /\ IF m \notin Malformed
       THEN queue' = Append(queue, m) /\ UNCHANGED lost
       ELSE Drop({m}, "malformed") /\ UNCHANGED queue
    /\ UNCHANGED <<stopping, threadVars, diskVars, replayVars, redisVars,
                   crashes, doubtful>>

(* _handle_received_ipc_message, for a message that recv_multipart has     *)
(* taken off the socket: a malformed one is logged and gone; of the others *)
(* a task is put on the queue with put_nowait, and on queue.Full the       *)
(* message is logged and gone too.                                         *)

Receive(m) ==
    /\ Running /\ ~stopping
    /\ m \in unsent
    /\ unsent' = unsent \ {m}
    /\ \/ /\ m \in Malformed
          /\ Drop({m}, "malformed") /\ UNCHANGED queue
       \/ /\ m \notin Malformed /\ Len(queue) < QueueMax
          /\ queue' = Append(queue, m) /\ UNCHANGED lost
       \/ /\ m \notin Malformed /\ Len(queue) >= QueueMax
          /\ Drop({m}, "full") /\ UNCHANGED queue
    /\ UNCHANGED <<stopping, threadVars, diskVars, replayVars, redisVars,
                   crashes, doubtful>>

-----------------------------------------------------------------------------
(* ThreadSafeRedisManager.get_client: a ping that fails, or a connection   *)
(* that does, starts a delay during which there is no client.              *)

GetClient(t, found, none) ==
    \/ /\ up /\ ~backoff
       /\ Goto(t, found)
       /\ UNCHANGED backoff
    \/ /\ ~up \/ backoff
       /\ Goto(t, none)
       /\ backoff' = TRUE

(* The replay loop and the health monitor look for a client too.           *)
HealthCheckFails ==
    /\ Running /\ ~stopping
    /\ ~up /\ ~backoff
    /\ backoff' = TRUE
    /\ UNCHANGED <<unsent, queue, stopping, threadVars, diskVars, replayVars,
                   up, stream, blobs, outages, crashes, lost, doubtful>>

BackoffElapses ==
    /\ Running /\ backoff
    /\ backoff' = FALSE
    /\ UNCHANGED <<unsent, queue, stopping, threadVars, diskVars, replayVars,
                   up, stream, blobs, outages, crashes, lost, doubtful>>

RedisGoes ==
    /\ up /\ outages < MaxOutages
    /\ up' = FALSE
    /\ outages' = outages + 1
    /\ UNCHANGED <<unsent, queue, stopping, threadVars, diskVars, replayVars,
                   backoff, stream, blobs, crashes, lost, doubtful>>

RedisReturns ==
    /\ ~up
    /\ up' = TRUE
    /\ UNCHANGED <<unsent, queue, stopping, threadVars, diskVars, replayVars,
                   backoff, stream, blobs, outages, crashes, lost, doubtful>>

-----------------------------------------------------------------------------
(* _publish_to_redis_with_internal_retry, called by thread t for the       *)
(* message it holds: what follows a success and a failure differs between  *)
(* the workers and the replay thread.                                      *)

AfterSuccess(t) ==
    IF t = Replay THEN "next"
    ELSE IF hold[t] \in Multipart THEN "blobs" ELSE "idle"
(* Mutant: a worker that cannot publish does not fall back to the disk.    *)
AfterFailureForgets(t) == IF t = Replay THEN "truncate" ELSE "idle"

AfterFailure(t) == IF t = Replay THEN "truncate" ELSE "disk"

Connect(t) ==
    /\ pc[t] = "client"
    /\ GetClient(t, "xadd", AfterFailure(t))
    /\ att' = [att EXCEPT ![t] = 0]
    /\ UNCHANGED <<unsent, queue, stopping, diskVars, replayVars, up,
                   stream, blobs, outages, crashes, lost, doubtful>>

(* The command succeeds; or Redis goes away once it is applied and the     *)
(* reply is lost; or Redis is away; or it answers with an error that is    *)
(* not retried.                                                            *)
Xadd(t) ==
    /\ pc[t] = "xadd"
    /\ ~stopping
    /\ \/ /\ up /\ hold[t] \notin Rejected
          /\ stream' = Append(stream, hold[t])
          /\ Goto(t, AfterSuccess(t))
          /\ UNCHANGED <<up, outages, doubtful>>
       \/ /\ up /\ hold[t] \notin Rejected
          /\ outages < MaxOutages
          /\ stream' = Append(stream, hold[t])
          /\ doubtful' = doubtful \cup {hold[t]}
          /\ up' = FALSE
          /\ outages' = outages + 1
          /\ Goto(t, "again")
       \/ /\ ~up
          /\ Goto(t, "again")
          /\ UNCHANGED <<up, outages, stream, doubtful>>
       \/ /\ up /\ hold[t] \in Rejected
          /\ Goto(t, AfterFailure(t))
          /\ UNCHANGED <<up, outages, stream, doubtful>>
    /\ UNCHANGED <<unsent, queue, stopping, att, diskVars, replayVars,
                   backoff, blobs, crashes, lost>>

XaddStopped(t) ==
    /\ pc[t] = "xadd"
    /\ stopping
    /\ Goto(t, AfterFailure(t))
    /\ UNCHANGED <<unsent, queue, stopping, att, diskVars, replayVars,
                   redisVars, crashes, lost, doubtful>>

(* A fresh client for the next attempt, if there is one left.              *)
Again(t) ==
    /\ pc[t] = "again"
    /\ GetClient(t, IF att[t] + 1 < Retries THEN "xadd" ELSE AfterFailure(t),
                 AfterFailure(t))
    /\ att' = [att EXCEPT ![t] = @ + 1]
    /\ UNCHANGED <<unsent, queue, stopping, diskVars, replayVars, up,
                   stream, blobs, outages, crashes, lost, doubtful>>

-----------------------------------------------------------------------------
(* _processing_worker_loop.                                                *)

WorkerGet(w) ==
    /\ pc[w] = "idle"
    /\ ~stopping
    /\ queue # <<>>
    /\ queue' = Tail(queue)
    /\ GotoWith(w, "client", Head(queue))
    /\ UNCHANGED <<unsent, stopping, att, diskVars, replayVars, redisVars,
                   crashes, lost, doubtful>>

(* The binary parts are stored by a second command: if it fails they are   *)
(* not buffered, and gone.                                                 *)
WorkerBlobs(w) ==
    /\ pc[w] = "blobs"
    /\ IF up /\ ~backoff
       THEN blobs' = blobs \cup {hold[w]} /\ UNCHANGED <<backoff, lost>>
       ELSE /\ backoff' = TRUE /\ UNCHANGED blobs
            /\ Drop({hold[w]}, "blobs")
    /\ Goto(w, "idle")
    /\ UNCHANGED <<unsent, queue, stopping, att, diskVars, replayVars, up,
                   stream, outages, crashes, doubtful>>

(* RobustDiskBufferManager.write and write_multipart: a new file when the  *)
(* handle is closed or the file has its maximum size.  An open that fails  *)
(* still moves current_file_path to the file that was not made; a write    *)
(* that fails leaves the file that was.                                    *)
NeedsFile == ~open \/ Len(disk[current]) >= FileMax

(* Mutant: the file is opened again, and for writing, when it is full.     *)
DiskWriteSameFile(w) ==
    /\ pc[w] = "disk"
    /\ disk' = [disk EXCEPT ![current] =
                   Append(IF NeedsFile THEN <<>> ELSE @, hold[w])]
    /\ open' = TRUE
    /\ Goto(w, "idle")
    /\ UNCHANGED <<unsent, queue, stopping, att, current, nfiles, faults,
                   replayVars, redisVars, crashes, lost, doubtful>>

DiskWrite(w) ==
    LET f == IF NeedsFile THEN nfiles + 1 ELSE current
    IN  /\ pc[w] = "disk"
        /\ f \in Files
        /\ nfiles' = IF NeedsFile THEN nfiles + 1 ELSE nfiles
        /\ current' = f
        /\ \/ /\ disk' = [disk EXCEPT ![f] =
                            Append(IF NeedsFile THEN <<>> ELSE @, hold[w])]
              /\ open' = TRUE
              /\ UNCHANGED <<faults, lost>>
           \/ /\ faults < MaxFaults           \* open or write raises
              /\ faults' = faults + 1
              /\ open' = FALSE
              /\ Drop({hold[w]}, "fault")
              /\ \/ UNCHANGED disk
                 \/ NeedsFile /\ disk' = [disk EXCEPT ![f] = <<>>]
        /\ Goto(w, "idle")
        /\ UNCHANGED <<unsent, queue, stopping, att, replayVars, redisVars,
                       crashes, doubtful>>

WorkerStep(w) ==
    WorkerGet(w) \/ Connect(w) \/ Xadd(w) \/ XaddStopped(w) \/ Again(w)
    \/ WorkerBlobs(w) \/ DiskWrite(w)

-----------------------------------------------------------------------------
(* _disk_buffer_replay_loop and process_buffered_file.                     *)

(* The reader of the files knows the format of write() only.  At an entry  *)
(* of write_multipart() it gives up on the file as corrupt, which changes  *)
(* nothing, or misreads it and some of what follows as one entry for some  *)
(* stream that is not.                                                     *)
Foreign(q) == {i \in DOMAIN q : q[i] \in Multipart}
Readings(q) ==
    IF Foreign(q) = {} THEN {q}
    ELSE {SubSeq(q, 1, s[1] - 1) \o <<Junk>> \o SubSeq(q, s[2] + 1, Len(q)) :
             s \in {p \in (DOMAIN q) \X (DOMAIN q) :
                      /\ p[1] \in Foreign(q)
                      /\ \A k \in Foreign(q) : p[1] <= k /\ k <= p[2]}}
Misread(q, r) == {m \in Msgs : In(m, q) /\ ~In(m, r)}

(* The file to replay: the oldest that is not current.                     *)
Oldest == CHOOSE f \in Closed : \A g \in Closed : f <= g

ReplayMayStart ==
    /\ pc[Replay] = "idle"
    /\ ~stopping
    /\ up /\ ~backoff
    /\ 10 * Len(queue) < 8 * QueueMax
    /\ Closed # {}

(* Mutant: the newest file is replayed, whichever it is.                   *)
Newest ==
    CHOOSE f \in Files : /\ disk[f] # NoFile
                         /\ \A g \in Files : disk[g] # NoFile => g <= f
ReplayStartNewest ==
    /\ ReplayMayStart
    /\ disk[Newest] # <<>>
    /\ rfile' = Newest
    /\ rtodo' \in Readings(disk[Newest])
    /\ Drop(Misread(disk[Newest], rtodo'), "misread")
    /\ GotoWith(Replay, "client", Head(rtodo'))
    /\ UNCHANGED <<unsent, queue, stopping, att, diskVars, redisVars,
                   crashes, doubtful>>

ReplayStart ==
    /\ ReplayMayStart
    /\ disk[Oldest] # <<>>
    /\ rfile' = Oldest
    /\ rtodo' \in Readings(disk[Oldest])
    /\ Drop(Misread(disk[Oldest], rtodo'), "misread")
    /\ GotoWith(Replay, "client", Head(rtodo'))
    /\ UNCHANGED <<unsent, queue, stopping, att, diskVars, redisVars,
                   crashes, doubtful>>

(* Mutant: a file without entries is not deleted.                          *)
ReplayEmptyKeeps == ReplayMayStart /\ disk[Oldest] = <<>> /\ UNCHANGED vars

ReplayEmpty ==
    /\ ReplayMayStart
    /\ disk[Oldest] = <<>>
    /\ disk' = [disk EXCEPT ![Oldest] = NoFile]
    /\ UNCHANGED <<unsent, queue, stopping, threadVars, current, open, nfiles,
                   faults, replayVars, redisVars, crashes, lost, doubtful>>

(* After the last entry the file is deleted.                               *)
ReplayNext ==
    /\ pc[Replay] = "next"
    /\ rtodo' = Tail(rtodo)
    /\ \/ /\ rtodo' # <<>>
          /\ GotoWith(Replay, "client", Head(rtodo'))
          /\ UNCHANGED <<disk, rfile>>
       \/ /\ rtodo' = <<>>
          /\ disk' = [disk EXCEPT ![rfile] = NoFile]
          /\ rfile' = 0
          /\ Goto(Replay, "idle")
    /\ UNCHANGED <<unsent, queue, stopping, att, current, open, nfiles,
                   faults, redisVars, crashes, lost, doubtful>>

(* Mutant: the file is left as it is when a pass fails.                    *)
RemainingAll == IF disk[rfile] = NoFile THEN rtodo ELSE disk[rfile]

(* The first entry that cannot be published ends the pass.  Only it is in  *)
(* remaining_entries: the entries behind it go when the file is opened for *)
(* writing, and it is in memory alone until it is written back.            *)
Remaining == <<Head(rtodo)>>

ReplayTruncate ==
    /\ pc[Replay] = "truncate"
    /\ disk' = [disk EXCEPT ![rfile] = <<>>]
    /\ rtodo' = Remaining
    /\ Drop({m \in Msgs : In(m, rtodo) /\ ~In(m, rtodo')}, "rewrite")
    /\ Goto(Replay, "rewrite")
    /\ UNCHANGED <<unsent, queue, stopping, att, current, open, nfiles,
                   faults, rfile, redisVars, crashes, doubtful>>

ReplayRewrite ==
    /\ pc[Replay] = "rewrite"
    /\ disk' = [disk EXCEPT ![rfile] = rtodo]
    /\ rfile' = 0
    /\ rtodo' = <<>>
    /\ Goto(Replay, "idle")
    /\ UNCHANGED <<unsent, queue, stopping, att, current, open, nfiles,
                   faults, redisVars, crashes, lost, doubtful>>

(* The entries of the file under replay that this pass published.          *)
Replayed ==
    IF rfile = 0 \/ disk[rfile] = NoFile THEN {}
    ELSE {m \in Msgs : In(m, disk[rfile]) /\ In(m, stream)}

(* Opening the file for writing raises, or writing to it does: the pass    *)
(* ends with the file as it is.                                            *)
ReplayFault ==
    /\ pc[Replay] \in {"truncate", "rewrite"}
    /\ faults < MaxFaults
    /\ faults' = faults + 1
    /\ IF pc[Replay] = "rewrite" THEN Drop({hold[Replay]} \cap Msgs, "fault")
                                 ELSE UNCHANGED lost
    /\ doubtful' = doubtful \cup Replayed
    /\ rfile' = 0
    /\ rtodo' = <<>>
    /\ Goto(Replay, "idle")
    /\ UNCHANGED <<unsent, queue, stopping, att, disk, current, open, nfiles,
                   redisVars, crashes>>

ReplayStep ==
    \/ ReplayStart \/ ReplayEmpty \/ ReplayNext
    \/ ReplayTruncate \/ ReplayRewrite \/ ReplayFault
    \/ Connect(Replay) \/ Xadd(Replay) \/ XaddStopped(Replay) \/ Again(Replay)

(* prune_old_files: any file but the current one may be old enough.        *)
Prune(f) ==
    /\ Running /\ ~stopping
    /\ f \in Closed
    /\ disk' = [disk EXCEPT ![f] = NoFile]
    /\ Drop({m \in Msgs : In(m, disk[f])}, "pruned")
    /\ UNCHANGED <<unsent, queue, stopping, threadVars, current, open, nfiles,
                   faults, replayVars, redisVars, crashes, doubtful>>

-----------------------------------------------------------------------------
(* shutdown_service sets the stop event; its joins give the threads three  *)
(* seconds, after which the process ends whatever they do.  A crash ends   *)
(* it at any time.  Both lose what is only in memory.                      *)

Stop ==
    /\ Running /\ ~stopping
    /\ stopping' = TRUE
    /\ UNCHANGED <<unsent, queue, threadVars, diskVars, replayVars, redisVars,
                   crashes, lost, doubtful>>

InMemory ==
    {m \in Msgs : \/ In(m, queue)
                  \/ \E w \in Workers : hold[w] = m
                  \/ pc[Replay] = "rewrite" /\ hold[Replay] = m}

Crash ==
    /\ Running
    /\ crashes < MaxCrashes
    /\ crashes' = crashes + 1
    /\ Drop(InMemory, "crash")
    /\ doubtful' = doubtful \cup Replayed
    /\ queue' = <<>>
    /\ pc' = [t \in Threads |-> "down"]
    /\ hold' = [t \in Threads |-> NoMsg]
    /\ att' = [t \in Threads |-> 0]
    /\ rfile' = 0
    /\ rtodo' = <<>>
    /\ UNCHANGED <<unsent, stopping, diskVars, redisVars>>

(* shutdown_service closes the buffer's file when its joins are over; a    *)
(* thread that outlives them opens another one.                            *)
CloseBuffer ==
    /\ Running /\ stopping /\ open
    /\ open' = FALSE
    /\ UNCHANGED <<unsent, queue, stopping, threadVars, disk, current, nfiles,
                   faults, replayVars, redisVars, crashes, lost, doubtful>>

(* A new process opens a new file.                                         *)
Restart ==
    /\ ~Running
    /\ nfiles < MaxFiles
    /\ pc' = [t \in Threads |-> "idle"]
    /\ stopping' = FALSE
    /\ nfiles' = nfiles + 1
    /\ current' = nfiles + 1
    /\ open' = TRUE
    /\ disk' = [disk EXCEPT ![nfiles + 1] = <<>>]
    /\ backoff' = FALSE
    /\ UNCHANGED <<unsent, queue, hold, att, faults, replayVars, up, stream,
                   blobs, outages, crashes, lost, doubtful>>

Next ==
    \/ \E m \in Msgs : Receive(m)
    \/ \E w \in Workers : WorkerStep(w)
    \/ ReplayStep
    \/ \E f \in Files : Prune(f)
    \/ HealthCheckFails \/ BackoffElapses \/ RedisGoes \/ RedisReturns
    \/ Stop \/ CloseBuffer \/ Crash \/ Restart

Spec == Init /\ [][Next]_vars

(* The threads run, a reconnection delay ends, and an outage of Redis ends.*)
(* A replay pass over a file the reader finds corrupt does nothing, so     *)
(* none is owed for a file with an entry of write_multipart().             *)
ReplayProgress ==
    \/ Closed # {} /\ Foreign(disk[Oldest]) = {} /\ ReplayStart
    \/ ReplayEmpty \/ ReplayNext \/ ReplayTruncate \/ ReplayRewrite
    \/ Connect(Replay) \/ Xadd(Replay) \/ XaddStopped(Replay) \/ Again(Replay)

FairSpec ==
    /\ Spec
    /\ \A w \in Workers : WF_vars(WorkerStep(w))
    /\ WF_vars(ReplayProgress)
    /\ WF_vars(BackoffElapses)
    /\ WF_vars(RedisReturns)

-----------------------------------------------------------------------------
(* The ways this service loses a message.                                  *)
Causes == {"malformed", "full", "blobs", "fault", "misread", "rewrite",
           "pruned", "crash"}

TypeOK ==
    /\ unsent \subseteq Msgs
    /\ queue \in Seq(Msgs) /\ Len(queue) <= QueueMax
    /\ stopping \in BOOLEAN
    /\ pc \in [Threads -> {"idle", "client", "xadd", "again", "blobs", "disk",
                            "next", "truncate", "rewrite", "down"}]
    /\ hold \in [Threads -> Entries \cup {NoMsg}]
    /\ att \in [Threads -> 0 .. Retries]
    /\ disk \in [Files -> Seq(Entries) \cup {NoFile}]
    /\ current \in Files /\ open \in BOOLEAN
    /\ rfile \in Files \cup {0} /\ rtodo \in Seq(Entries)
    /\ up \in BOOLEAN /\ backoff \in BOOLEAN
    /\ stream \in Seq(Entries) /\ blobs \subseteq Msgs
    /\ nfiles \in Files
    /\ outages \in 0 .. MaxOutages
    /\ crashes \in 0 .. MaxCrashes
    /\ faults \in 0 .. MaxFaults
    /\ lost \subseteq Msgs \X Causes
    /\ doubtful \subseteq Entries

(* Every message taken off a socket is in Redis, with its binary parts, in *)
(* the queue, with a thread or on disk, unless one of the causes took it:  *)
(* it is malformed, the queue is full, the command for the binary parts    *)
(* fails, a disk fails, the replay misread the file or rewrote it, pruning,*)
(* or a crash while it was in memory only.  In particular a crash never    *)
(* takes what is on disk, and apart from the binary parts neither an       *)
(* outage nor a rotation loses anything.                                   *)
OnDisk(m) == \E f \in Files : disk[f] # NoFile /\ In(m, disk[f])
InRedis(m) == In(m, stream) /\ (m \in Multipart => m \in blobs)
Kept(m) ==
    m \in unsent \/ m \in InMemory \/ OnDisk(m) \/ InRedis(m)

NoUnexplainedLoss == \A m \in Msgs : Kept(m) \/ \E c \in lost : c[1] = m

(* A message that leaves the socket is on the queue then, since a full     *)
(* queue holds the producers up: "Upstream producers will now buffer", "The*)
(* upstream BulletproofIPCClient will now handle this back-pressure".      *)
BackPressure ==
    [][\A m \in Msgs \ Malformed :
           m \in unsent /\ m \notin unsent' => In(m, queue')]_vars

(* A message is added to Redis twice only if the reply to an earlier       *)
(* command for it was lost, or if the pass of the replay that published it *)
(* was cut short by the end of the process or a failing disk: an outage,   *)
(* a retry or a rotation alone never duplicates one.                       *)
DuplicatesExplained ==
    \A i, j \in DOMAIN stream :
        (i # j /\ stream[i] = stream[j] /\ stream[i] \in Msgs)
            => stream[i] \in doubtful

(* The file under replay is never the one the workers append to, across    *)
(* rotations, write failures and restarts ("ensuring current write file    *)
(* safety").                                                               *)
ReplayAwayFromWriter ==
    rfile # 0 => /\ rfile # current
                 /\ pc[Replay] \notin {"idle", "down"}

(* A pass that fails keeps every entry it did not publish: "Some entries   *)
(* failed or were not attempted, rewrite remaining entries to the SAME     *)
(* file", "Will keep remaining in file".                                   *)
RewriteKeepsEntries ==
    [][pc[Replay] = "truncate" /\ pc'[Replay] = "rewrite" => rtodo' = rtodo]_vars

(* What was buffered reaches Redis once Redis is back for good: "Automatic *)
(* replay of disk-buffered data when Redis recovers from an outage".       *)
Gone == ~Running \/ stopping
BufferedIsReplayed ==
    \A m \in Msgs :
        OnDisk(m) ~> (In(m, stream) \/ Gone \/ \E c \in lost : c[1] = m)

(* A file no longer written to is replayed and deleted once Redis is back  *)
(* for good, unless an entry at which the replay gets no further, which    *)
(* Redis rejects or the reader cannot parse, is in it or in an older file. *)
Blocked(f) ==
    \E m \in Multipart \cup Rejected :
        In(m, rtodo) \/ \E g \in Closed : g <= f /\ In(m, disk[g])

ClosedFilesDrain ==
    \A f \in Files :
        (f \in Closed /\ ~Blocked(f)) ~> (f \notin Closed \/ Gone)

(* A message accepted into the queue is published or buffered on disk,     *)
(* whatever Redis does.                                                    *)
QueueDrains ==
    \A m \in Msgs :
        In(m, queue) ~> (In(m, stream) \/ OnDisk(m) \/ Gone
                            \/ \E c \in lost : c[1] = m)
=============================================================================
