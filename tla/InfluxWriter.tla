---------------------------- MODULE InfluxWriter ----------------------------
(***************************************************************************)
(* The uploader of the bridge: class InfluxWriter of influx_writer.cpp,    *)
(* with the disk queue it owns (PersistentBatchStore) and the server it    *)
(* posts to.                                                               *)
(*                                                                         *)
(* Three threads of control meet here.  The PRODUCER, a callback of the    *)
(* node, enqueues lines.  The WORKER, th_, runs run(): it uploads what is  *)
(* on disk, then what is in memory, and moves to disk what the server did  *)
(* not take.  The OWNER constructs and destroys the writer.  The mutex m_  *)
(* is held for one step at a time, except between the worker's test of     *)
(* the condition and its wait ("parking"): stop_ and notify_all need no    *)
(* mutex, so the destructor can step in there.                             *)
(*                                                                         *)
(* Lines are numbered as they are accepted, from 1.  What happens to a     *)
(* line is recorded in delivered, lost and (by the store) dropped.         *)
(***************************************************************************)
EXTENDS PersistentBatchStore

CONSTANTS
    MaxBatch,       \* max_batch_
    MaxQueue,       \* max_queue_
    ServerFaults,   \* what may go wrong with a POST
    MaxLines        \* bound on the lines a behaviour produces

\* "net": no answer or a retryable status; "lostack": the server has taken the
\* lines but the answer is lost; "reject": a status that is not retried.
AllServerFaults == {"net", "lostack", "reject"}

ASSUME WriterAssumption ==
    /\ MaxBatch \in Nat \ {0}
    /\ MaxQueue \in Nat
    /\ ServerFaults \subseteq AllServerFaults
    /\ MaxLines \in Nat

VARIABLES
    life,           \* the object: "off", "live", "stop" (stop_ set, nobody notified) or "join"
    stop,           \* stop_
    q,              \* q_
    produced,       \* the number of lines enqueue() has accepted
    prod,           \* the producer: "idle" or "full" (unlocked, error not yet set)
    wpc,            \* where the worker is in run()
    batch,          \* the lines the worker has taken from q
    signalled,      \* a notification has reached the waiting worker
    depth,          \* queue_depth_
    mBatches,       \* pending_persisted_batches_
    mBytes,         \* persistence_bytes_used_
    lastErr,        \* last_error_: "none", "full" or "send"
    delivered,      \* history: lines the server has taken
    redelivered,    \* history: lines the server has taken more than once
    lost            \* history: lines the writer gave up or a crash wiped out

producerVars == <<q, produced, prod, depth>>
objectVars == <<life, stop>>
workerVars == <<wpc, batch, signalled>>
metricVars == <<mBatches, mBytes>>
serverVars == <<delivered, redelivered>>
historyVars == <<delivered, redelivered, lost>>

writerVars == <<life, stop, q, produced, prod, wpc, batch, signalled, depth,
                mBatches, mBytes, lastErr, delivered, redelivered, lost>>
vars == <<storeVars, writerVars>>

Running == wpc \notin {"off", "exited"}

-----------------------------------------------------------------------------
\* Shared pieces.

\* update_persistence_metrics(), after the store's part of the step.
UpdateMetrics ==
    /\ mBatches' = Len(queue')
    /\ mBytes' = bytes'

\* The server takes the lines of a body.
Delivers(lines) ==
    /\ delivered' = delivered \cup Range(lines)
    /\ redelivered' = redelivered \cup (delivered \cap Range(lines))

\* The three outcomes of send_batch().
SendOk(lines) ==
    /\ Delivers(lines)
    /\ lastErr' = "none"

SendRetryable(lines) ==
    /\ \/ "net" \in ServerFaults /\ UNCHANGED serverVars
       \/ "lostack" \in ServerFaults /\ Delivers(lines)
    /\ lastErr' = "send"

SendRefused ==
    /\ "reject" \in ServerFaults
    /\ UNCHANGED serverVars
    /\ lastErr' = "send"

\* Mutant: the depth is stored before the lines are popped.
TakeStaleDepth(n) ==
    LET k == IF Len(q) < n THEN Len(q) ELSE n
    IN  /\ batch' = SubSeq(q, 1, k)
        /\ q' = SubSeq(q, k + 1, Len(q))
        /\ depth' = Len(q)

\* Moves the first n lines of q_, or all of them, to the worker's batch.
Take(n) ==
    LET k == IF Len(q) < n THEN Len(q) ELSE n
    IN  /\ batch' = SubSeq(q, 1, k)
        /\ q' = SubSeq(q, k + 1, Len(q))
        /\ depth' = Len(q) - k

-----------------------------------------------------------------------------
\* The owner.

\* The constructor builds the store (StoreStart) and then starts the thread.
Construct ==
    /\ life = "off"
    /\ StoreStart
    /\ UNCHANGED writerVars

StartWorker ==
    /\ life = "off"
    /\ mode \in {"on", "disabled"}
    /\ life' = "live"
    /\ wpc' = "top"
    /\ UNCHANGED <<storeVars, stop, producerVars, batch, signalled, lastErr, historyVars>>
    /\ UpdateMetrics

\* The destructor: the callbacks are gone by then, so no call is under way.
Shutdown ==
    /\ life = "live"
    /\ prod = "idle"
    /\ stop' = TRUE
    /\ life' = "stop"
    /\ UNCHANGED <<storeVars, producerVars, workerVars, metricVars, lastErr, historyVars>>

NotifyAll ==
    /\ life = "stop"
    /\ life' = "join"
    /\ signalled' = (signalled \/ wpc = "waiting")
    /\ UNCHANGED <<storeVars, stop, producerVars, wpc, batch, metricVars, lastErr, historyVars>>

\* Whatever the object still held dies with it, in a crash as in the destructor.
ObjectGone ==
    /\ life' = "off"
    /\ stop' = FALSE
    /\ q' = <<>>
    /\ prod' = "idle"
    /\ wpc' = "off"
    /\ batch' = <<>>
    /\ signalled' = FALSE
    /\ depth' = 0
    /\ mBatches' = 0
    /\ mBytes' = 0
    /\ lastErr' = "none"
    /\ UNCHANGED <<produced, delivered, redelivered>>

Join ==
    /\ life = "join"
    /\ wpc = "exited"
    /\ Destroy
    /\ ObjectGone
    /\ UNCHANGED lost

ProcessDies ==
    /\ Crash
    /\ ObjectGone
    /\ lost' = lost \cup Range(q) \cup Range(batch)

-----------------------------------------------------------------------------
\* The producer: enqueue(line).

Enqueue ==
    /\ life = "live"
    /\ prod = "idle"
    /\ wpc # "parking"
    /\ Len(q) < MaxQueue
    /\ produced < MaxLines
    /\ produced' = produced + 1
    /\ q' = Append(q, produced')
    /\ depth' = Len(q')
    /\ signalled' = (signalled \/ wpc = "waiting")
    /\ UNCHANGED <<storeVars, objectVars, prod, wpc, batch, metricVars, lastErr, historyVars>>

\* The queue is full; the mutex is released before the error is recorded.
EnqueueFull ==
    /\ life = "live"
    /\ prod = "idle"
    /\ wpc # "parking"
    /\ Len(q) >= MaxQueue
    /\ prod' = "full"
    /\ UNCHANGED <<storeVars, objectVars, q, produced, depth, workerVars, metricVars,
                   lastErr, historyVars>>

ReportFull ==
    /\ prod = "full"
    /\ prod' = "idle"
    /\ lastErr' = "full"
    /\ UNCHANGED <<storeVars, objectVars, q, produced, depth, workerVars, metricVars, historyVars>>

-----------------------------------------------------------------------------
\* The worker, disk first.

\* The batch of the last failed attempt is tried again.
RetryDisk ==
    /\ wpc = "top"
    /\ ~stop
    /\ pending # Nothing
    /\ wpc' = "disk"
    /\ UNCHANGED <<storeVars, objectVars, producerVars, batch, signalled, metricVars,
                   lastErr, historyVars>>

FetchDisk ==
    /\ wpc = "top"
    /\ ~stop
    /\ NextBatch
    /\ wpc' = "disk"
    /\ UNCHANGED <<objectVars, producerVars, batch, signalled, metricVars, lastErr, historyVars>>

\* next() threw the front of the queue away and returned nothing.
FetchUnreadable ==
    /\ wpc = "top"
    /\ ~stop
    /\ NextUnreadable
    /\ wpc' = "lock"
    /\ UNCHANGED <<objectVars, producerVars, batch, signalled, metricVars, lastErr, historyVars>>

SkipDisk ==
    /\ wpc = "top"
    /\ stop \/ (pending = Nothing /\ queue = <<>>)
    /\ wpc' = "lock"
    /\ UNCHANGED <<storeVars, objectVars, producerVars, batch, signalled, metricVars,
                   lastErr, historyVars>>

\* Mutant: the batch is forgotten but not marked.
SettleDiskUnmarked ==
    /\ wpc = "settled" \/ (wpc = "disk" /\ pending.lines = <<>>)
    /\ pending' = Nothing
    /\ wpc' = "top"
    /\ UNCHANGED <<files, mode, unread, queue, bytes, seqno, clock, step, cur, ret, dropped>>
    /\ UNCHANGED <<objectVars, producerVars, batch, signalled, metricVars, lastErr, historyVars>>

\* mark_processed(), reset() and the metrics.
SettleDisk ==
    /\ wpc = "settled" \/ (wpc = "disk" /\ pending.lines = <<>>)
    /\ MarkProcessed
    /\ UpdateMetrics
    /\ wpc' = "top"
    /\ UNCHANGED <<objectVars, producerVars, batch, signalled, lastErr, historyVars>>

DiskOk ==
    /\ wpc = "disk"
    /\ pending.lines # <<>>
    /\ SendOk(pending.lines)
    /\ wpc' = "settled"
    /\ UNCHANGED <<storeVars, objectVars, producerVars, batch, signalled, metricVars, lost>>

DiskRefused ==
    /\ wpc = "disk"
    /\ pending.lines # <<>>
    /\ SendRefused
    /\ lost' = lost \cup Range(pending.lines)
    /\ wpc' = "settled"
    /\ UNCHANGED <<storeVars, objectVars, producerVars, batch, signalled, metricVars>>

\* Mutants: after a failed attempt the worker marks the batch all the same, goes
\* on with the lines in memory, or sleeps without draining them.
DiskRetryableTo(pc) ==
    /\ wpc = "disk"
    /\ pending.lines # <<>>
    /\ SendRetryable(pending.lines)
    /\ wpc' = pc
    /\ UNCHANGED <<storeVars, objectVars, producerVars, batch, signalled, metricVars, lost>>
DiskRetryableMarks == DiskRetryableTo("settled")
DiskRetryableFallsThrough == DiskRetryableTo("lock")
DiskRetryableSleeps == DiskRetryableTo("sleep")

DiskRetryable ==
    /\ wpc = "disk"
    /\ pending.lines # <<>>
    /\ SendRetryable(pending.lines)
    /\ wpc' = "drain"
    /\ UNCHANGED <<storeVars, objectVars, producerVars, batch, signalled, metricVars, lost>>

-----------------------------------------------------------------------------
\* persist_pending_full_batches() and the backoff.

DrainTake ==
    /\ wpc = "drain"
    /\ Len(q) >= MaxBatch
    /\ Take(MaxBatch)
    /\ StoreOpen(batch')
    /\ wpc' = "drainStore"
    /\ UNCHANGED <<objectVars, produced, prod, signalled, metricVars, lastErr, historyVars>>

DrainEnd ==
    /\ wpc = "drain"
    /\ Len(q) < MaxBatch
    /\ wpc' = "sleep"
    /\ UNCHANGED <<storeVars, objectVars, producerVars, batch, signalled, metricVars,
                   lastErr, historyVars>>

\* Mutant: draining does not update the metrics.
StoredUnreported(pc, onTrue, onFalse) ==
    /\ wpc = pc
    /\ step = "idle"
    /\ wpc' = IF ret THEN onTrue ELSE onFalse
    /\ lost' = IF ret THEN lost ELSE lost \cup Range(batch)
    /\ batch' = <<>>
    /\ UNCHANGED <<storeVars, objectVars, producerVars, signalled, lastErr, serverVars>>
    /\ IF pc = "persistStore" THEN UpdateMetrics ELSE UNCHANGED metricVars

\* store() has returned; a batch it did not accept goes with the local vector.
Stored(pc, onTrue, onFalse) ==
    /\ wpc = pc
    /\ step = "idle"
    /\ wpc' = IF ret THEN onTrue ELSE onFalse
    /\ lost' = IF ret THEN lost ELSE lost \cup Range(batch)
    /\ batch' = <<>>
    /\ UNCHANGED <<storeVars, objectVars, producerVars, signalled, lastErr, serverVars>>
    /\ UpdateMetrics

DrainStored == Stored("drainStore", "drain", "sleep")

WakeUp ==
    /\ wpc = "sleep"
    /\ wpc' = "top"
    /\ UNCHANGED <<storeVars, objectVars, producerVars, batch, signalled, metricVars,
                   lastErr, historyVars>>

InsideStore ==
    /\ Running
    /\ StoreInside
    /\ UNCHANGED writerVars

-----------------------------------------------------------------------------
\* The worker, then memory.

Condition == stop \/ q # <<>>

\* wait_for() has returned: take a batch and decide, all under the mutex.
TakeBatch ==
    /\ Take(MaxBatch)
    /\ wpc' = IF batch' # <<>> THEN (IF stop THEN "flush" ELSE "post")
                               ELSE (IF stop THEN "exited" ELSE "top")
    /\ signalled' = FALSE
    /\ UNCHANGED <<storeVars, objectVars, produced, prod, metricVars, lastErr, historyVars>>

TestAgain ==
    /\ wpc' = "parking"
    /\ signalled' = FALSE
    /\ UNCHANGED <<storeVars, objectVars, producerVars, batch, metricVars, lastErr, historyVars>>

\* Mutant: a wait without a predicate.
LockUntested ==
    /\ wpc = "lock"
    /\ TestAgain

Lock ==
    /\ wpc = "lock"
    /\ IF Condition THEN TakeBatch ELSE TestAgain

\* The mutex is released and the worker waits.
Park ==
    /\ wpc = "parking"
    /\ wpc' = "waiting"
    /\ UNCHANGED <<storeVars, objectVars, producerVars, batch, signalled, metricVars,
                   lastErr, historyVars>>

Woken ==
    /\ wpc = "waiting"
    /\ signalled
    /\ IF Condition THEN TakeBatch ELSE TestAgain

\* Mutant: a wait without a timeout.
NeverTimedOut == FALSE

\* flush_ has elapsed.
TimedOut ==
    /\ wpc = "waiting"
    /\ TakeBatch

\* While shutting down the depth is stored once more, after a look at q_.
MemoryOk ==
    /\ wpc \in {"post", "flush"}
    /\ SendOk(batch)
    /\ depth' = IF wpc = "flush" THEN Len(q) ELSE depth
    /\ batch' = <<>>
    /\ wpc' = "top"
    /\ UNCHANGED <<storeVars, objectVars, q, produced, prod, signalled, metricVars, lost>>

MemoryRefused ==
    /\ wpc \in {"post", "flush"}
    /\ SendRefused
    /\ lost' = lost \cup Range(batch)
    /\ batch' = <<>>
    /\ wpc' = "top"
    /\ UNCHANGED <<storeVars, objectVars, producerVars, signalled, metricVars>>

\* Mutant: a shutdown does not wait for the disk.
MemoryRetryableHurries ==
    /\ wpc \in {"post", "flush"}
    /\ SendRetryable(batch)
    /\ IF wpc = "flush"
       THEN wpc' = "top" /\ batch' = <<>> /\ lost' = lost \cup Range(batch)
       ELSE wpc' = "persist" /\ UNCHANGED <<batch, lost>>
    /\ UNCHANGED <<storeVars, objectVars, producerVars, signalled, metricVars>>

MemoryRetryable ==
    /\ wpc \in {"post", "flush"}
    /\ SendRetryable(batch)
    /\ wpc' = "persist"
    /\ UNCHANGED <<storeVars, objectVars, producerVars, batch, signalled, metricVars, lost>>

Persist ==
    /\ wpc = "persist"
    /\ StoreOpen(batch) \/ StoreDisabled
    /\ wpc' = "persistStore"
    /\ UNCHANGED <<objectVars, producerVars, batch, signalled, metricVars, lastErr, historyVars>>

Persisted == Stored("persistStore", "top", "top")

-----------------------------------------------------------------------------
Worker ==
    \/ RetryDisk \/ FetchDisk \/ FetchUnreadable \/ SkipDisk
    \/ SettleDisk \/ DiskOk \/ DiskRefused \/ DiskRetryable
    \/ DrainTake \/ DrainEnd \/ DrainStored \/ WakeUp
    \/ InsideStore
    \/ Lock \/ Park \/ Woken \/ TimedOut
    \/ MemoryOk \/ MemoryRefused \/ MemoryRetryable \/ Persist \/ Persisted

Producer == Enqueue \/ EnqueueFull \/ ReportFull

Owner == Construct \/ StartWorker \/ Shutdown \/ NotifyAll \/ Join

Environment == ProcessDies \/ (Vanish /\ UNCHANGED writerVars)

Init ==
    /\ StoreInit
    /\ life = "off"
    /\ stop = FALSE
    /\ q = <<>>
    /\ produced = 0
    /\ prod = "idle"
    /\ wpc = "off"
    /\ batch = <<>>
    /\ signalled = FALSE
    /\ depth = 0
    /\ mBatches = 0
    /\ mBytes = 0
    /\ lastErr = "none"
    /\ delivered = {}
    /\ redelivered = {}
    /\ lost = {}

Next == Worker \/ Producer \/ Owner \/ Environment

Spec == Init /\ [][Next]_vars

\* The worker is a thread that runs until it exits, timeouts elapse, and a
\* destructor or an enqueue() that has begun goes on.  Nothing makes the server
\* answer, a producer produce or an owner stop or restart the bridge.
FairSpec ==
    /\ Spec
    /\ WF_vars(Worker)
    /\ WF_vars(ReportFull)
    /\ WF_vars(NotifyAll)
    /\ WF_vars(Join)

-----------------------------------------------------------------------------
\* Properties.

\* The types, and what the worker's place in run() says about the rest: it has a
\* batch in hand exactly between TakeBatch and the end of the upload, it deals
\* with the disk only when it holds a pending batch, and the gauges of a running
\* writer are within their limits.
WriterTypeOK ==
    /\ StoreTypeOK
    /\ life \in {"off", "live", "stop", "join"}
    /\ stop \in BOOLEAN /\ (stop <=> life \in {"stop", "join"})
    /\ q \in Seq(1 .. produced) /\ Len(q) <= MaxQueue
    /\ produced \in 0 .. MaxLines
    /\ prod \in {"idle", "full"} /\ (prod = "full" => life = "live")
    /\ wpc \in {"off", "top", "disk", "settled", "drain", "drainStore", "sleep", "lock",
                "parking", "waiting", "post", "flush", "persist", "persistStore", "exited"}
    /\ wpc = "off" <=> life = "off"
    /\ batch \in Seq(1 .. produced) /\ Len(batch) <= MaxBatch
    /\ batch # <<>> <=> wpc \in {"drainStore", "post", "flush", "persist", "persistStore"}
    /\ wpc \in {"disk", "settled", "drain", "drainStore", "sleep"} => pending # Nothing
    /\ step # "idle" => wpc \in {"drainStore", "persistStore"}
    /\ signalled \in BOOLEAN
    /\ depth = Len(q)
    /\ mBatches \in Nat
    /\ mBytes \in Int
    /\ lastErr \in {"none", "full", "send"}
    /\ delivered \cup redelivered \cup lost \subseteq Line

OnDisk == UNION {Content(p) : p \in DOMAIN files}
Settled == delivered \cup lost \cup dropped

\* Custody: a line enqueue() accepted is in memory, in a file, with the server,
\* or was given up at one of the places where the code decides to (a refused
\* POST, a failed store(), an eviction, an unreadable file) or by a crash.
NoLineForgotten ==
    1 .. produced \subseteq Range(q) \cup Range(batch) \cup OnDisk \cup Settled

\* Why no line is forgotten: what is marked as processed was settled; store() works
\* on the worker's batch and on a file that holds nothing yet; a batch is let go
\* only after store() has kept it; and the worker exits when nothing is queued.
FinishedIsSettled == wpc = "settled" => Range(pending.lines) \subseteq Settled
StoresItsBatch == step # "idle" => cur.lines = batch
WritesToEmptyFile == step = "write" /\ Exists(cur.path) => files[cur.path] = <<>>
AcceptedIsKept ==
    wpc \in {"drainStore", "persistStore"} /\ step = "idle" /\ ret =>
        Range(batch) \subseteq OnDisk \cup Settled
ExitsEmpty == wpc = "exited" => q = <<>> /\ stop

\* The inductive invariant behind NoLineForgotten.
CustodyInv ==
    /\ WriterTypeOK
    /\ StoreInv
    /\ NoLineForgotten
    /\ FinishedIsSettled
    /\ StoresItsBatch
    /\ WritesToEmptyFile
    /\ AcceptedIsKept
    /\ ExitsEmpty

\* A file with half a line in it, left by a write that failed or that the process did not
\* survive, is uploaded by a later start as if it were whole.  Only lines the writer has
\* written off are affected: the half line is the last of its file, and every whole line
\* before it counts as lost, or is of the batch whose store() has just returned false.  So
\* no line that the writer still answers for shares a file with half a line, over any
\* crashes and restarts.
JustRejected ==
    IF wpc \in {"drainStore", "persistStore"} /\ step = "idle" /\ ~ret THEN Range(batch) ELSE {}
TornFilesWrittenOff ==
    \A p \in DOMAIN files : Torn \in Content(p) =>
        /\ Last(files[p]) = Torn /\ Torn \notin Range(Front(files[p]))
        /\ Content(p) \ {Torn} \subseteq lost \cup JustRejected

\* An outage alone costs nothing: while the disk budget suffices and no file
\* operation fails, retryable errors, shutdowns and restarts lose no line.
OutageLosesNothing == lost \cup dropped = {}

\* No line reaches the server twice as long as no answer is lost.
DeliveredOnce == redelivered = {}

\* The order of upload is the order of production: whatever is older than the
\* lines in the POST has been settled.  Only the flush of a shutdown overtakes
\* what is on disk.
OldestFirst ==
    LET Before(lines) == 1 .. Head(lines) - 1
    IN  /\ wpc = "post" => Before(batch) \subseteq Settled
        /\ wpc = "disk" /\ pending.lines # <<>> => Before(pending.lines) \subseteq Settled

\* No wake-up is lost between producer and worker: a worker that waits while
\* there are lines to take has been notified.
NoLostSignal == wpc = "waiting" /\ q # <<>> => signalled

\* The gauges of the disk queue, updated after the store and read by the
\* diagnostics timer, are right whenever the worker sleeps or waits: "Total
\* number of persisted batches waiting on disk" and the store's byte count.
GaugesCurrent ==
    wpc \in {"sleep", "waiting"} => mBatches = Len(queue) /\ mBytes = bytes

\* "Messages are buffered until either max_batch lines are accumulated or flush
\* elapses": a notified worker that is not stopping uploads only full batches.
BatchesAccumulate ==
    [][Woken => stop \/ Len(batch') \in {0, MaxBatch}]_vars

\* The destructor returns, whether or not the server answers and although
\* stop_ and notify_all bypass the mutex (the wake-up they may lose is made up
\* for by the timeout of the wait).
ShutdownCompletes == life = "stop" ~> life = "off"

\* An outage does not leave the memory queue full: the worker keeps moving full
\* batches to disk between its attempts.  The server may never answer.
FullQueueRelieved == Len(q) = MaxQueue ~> Len(q) < MaxQueue

\* Every accepted line is settled in the end, unless the owner stops the bridge,
\* if the server takes one of infinitely many attempts.
EventuallySettled ==
    SF_vars(DiskOk) =>
        \A x \in 1 .. MaxLines : x <= produced ~> x \in Settled \/ life # "live"

-----------------------------------------------------------------------------
\* What the writer implements.

\* The promise about lines: whatever fails, every step of the program hands a line
\* on, settles it or leaves it where it is; the last copy never goes first.
Custody == INSTANCE LineCustody WITH
    accepted <- produced,
    memory <- (Range(q) \cup Range(batch) \cup Range(pending.lines)) \ {Torn},
    disk <- OnDisk \ {Torn},
    delivered <- delivered \ {Torn},
    abandoned <- (lost \cup dropped) \ {Torn}
CustodyRefined == Custody!Spec

\* The writer as its node sees it: depth, backlog and error change as WriterPort
\* says, and the destructor does not return before the queue is empty.
Phase == CASE life = "off" -> "closed" [] life = "live" -> "open" [] OTHER -> "closing"
Port == INSTANCE WriterPort WITH
    port <- Phase, backlog <- mBatches > 0, error <- lastErr
PortRefined == Port!PortSpec

\* An all-clear of the diagnostics is true: while the worker sleeps or waits and they
\* would say "OK", every accepted line is settled or waits in memory for its first
\* upload.  No backlog hides on disk or in the worker's hands.
AllClearIsTrue ==
    wpc \in {"sleep", "waiting"} /\ Port!Level(depth, mBatches > 0, lastErr) = "OK" =>
        1 .. produced \subseteq Range(q) \cup Settled
=============================================================================
