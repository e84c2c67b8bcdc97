------------------------- MODULE InfluxWriterProofs -------------------------
(***************************************************************************)
(* Proofs about InfluxWriter, for every budget, batch and queue size, and  *)
(* for every set of faults of the store and of the server.                 *)
(***************************************************************************)
EXTENDS InfluxWriter, PersistentBatchStoreProofs

-----------------------------------------------------------------------------
\* Taking lines from the memory queue.

\* The lines accepted so far are still among those accepted later.
LEMMA LinesGrow ==
    ASSUME NEW n \in Nat, NEW s \in Seq(1 .. n)
    PROVE  s \in Seq(1 .. n + 1) /\ s \in Seq(Line)
<1>1. 1 .. n \subseteq 1 .. n + 1 /\ 1 .. n \subseteq Line
    BY DEF Line
<1> QED
    BY <1>1, SeqMonotonic, ElementOfSeq

\* Take splits the memory queue; it takes something unless there is nothing.
LEMMA TakeFacts ==
    ASSUME NEW S, q \in Seq(S), NEW n \in Nat \ {0}, Take(n)
    PROVE  /\ batch' \in Seq(S) /\ Len(batch') <= n
           /\ q' \in Seq(S) /\ Len(q') <= Len(q)
           /\ depth' = Len(q')
           /\ batch' = <<>> <=> q = <<>>
           /\ batch' = <<>> => q' = <<>>
           /\ Range(q) \subseteq Range(batch') \cup Range(q')
<1> DEFINE k == IF Len(q) < n THEN Len(q) ELSE n
<1>1. /\ batch' = SubSeq(q, 1, k)
      /\ q' = SubSeq(q, k + 1, Len(q))
      /\ depth' = Len(q) - k
    BY DEF Take
<1>2. Len(q) \in Nat /\ k \in 0 .. Len(q) /\ k <= n /\ (k = 0 <=> Len(q) = 0)
    BY LenProperties
<1> HIDE DEF k
<1>3. batch' \in Seq(S) /\ Len(batch') = k /\ \A i \in 1 .. k : batch'[i] = q[i]
    BY <1>1, <1>2
<1>4. /\ q' \in Seq(S) /\ Len(q') = Len(q) - k
      /\ \A i \in 1 .. Len(q) - k : q'[i] = q[i + k]
    BY <1>1, <1>2
<1>5. Range(q) \subseteq Range(batch') \cup Range(q')
  <2> SUFFICES ASSUME NEW i \in 1 .. Len(q)
               PROVE  q[i] \in Range(batch') \cup Range(q')
      BY LenProperties DEF Range
  <2>1. CASE i <= k
    <3>1. i \in DOMAIN batch' /\ batch'[i] = q[i]
        BY <1>2, <1>3, <2>1, LenProperties
    <3> QED
        BY <3>1 DEF Range
  <2>2. CASE i > k
    <3>1. i - k \in DOMAIN q' /\ q'[i - k] = q[i]
        BY <1>2, <1>4, <2>2, LenProperties
    <3> QED
        BY <3>1 DEF Range
  <2> QED
      BY <1>2, <2>1, <2>2
<1>6. \A s \in Seq(S) : Len(s) = 0 <=> s = <<>>
    BY EmptySeq
<1>7. (batch' = <<>> <=> q = <<>>) /\ (batch' = <<>> => q' = <<>>)
    BY <1>2, <1>3, <1>4, <1>6
<1>8. Len(batch') <= n /\ Len(q') <= Len(q) /\ depth' = Len(q')
    BY <1>1, <1>2, <1>3, <1>4
<1> QED
    BY <1>3, <1>4, <1>5, <1>7, <1>8

-----------------------------------------------------------------------------
\* The writer is a caller of the store as StoreSpec allows one: a step of the
\* writer is a step of the store or leaves the store alone.

\* What the worker stores is a non-empty sequence of lines.
LEMMA BatchIsStorable ==
    ASSUME WriterTypeOK, batch # <<>>
    PROVE  batch \in Seq(Line) \ {<<>>}
    BY LinesGrow DEF WriterTypeOK

LEMMA DrainIsStorable ==
    ASSUME WriterTypeOK, DrainTake
    PROVE  batch' \in Seq(Line) \ {<<>>}
<1>1. q \in Seq(1 .. produced) /\ produced \in Nat
    BY DEF WriterTypeOK
<1>2. Take(MaxBatch) /\ Len(q) >= MaxBatch /\ MaxBatch \in Nat \ {0}
    BY WriterAssumption DEF DrainTake
<1>3. batch' \in Seq(1 .. produced) /\ batch' # <<>>
    BY <1>1, <1>2, TakeFacts
<1> QED
    BY <1>1, <1>3, LinesGrow

LEMMA WorkerStoreStep ==
    ASSUME WriterTypeOK, Worker
    PROVE  [StoreNext]_storeVars
<1>1. CASE DrainTake
    BY <1>1, DrainIsStorable DEF DrainTake, StoreNext
<1>2. CASE Persist
  <2>1. batch # <<>>
      BY <1>2 DEF WriterTypeOK, Persist
  <2> QED
      BY <1>2, <2>1, BatchIsStorable DEF Persist, StoreNext
<1>3. CASE FetchDisk \/ FetchUnreadable \/ SettleDisk \/ InsideStore
    BY <1>3 DEF FetchDisk, FetchUnreadable, SettleDisk, InsideStore, StoreNext
<1>4. CASE RetryDisk \/ SkipDisk \/ DiskOk \/ DiskRefused \/ DiskRetryable \/ DrainEnd
    BY <1>4 DEF RetryDisk, SkipDisk, DiskOk, DiskRefused, DiskRetryable, DrainEnd
<1>5. CASE DrainStored \/ Persisted \/ WakeUp \/ Lock \/ Park \/ Woken \/ TimedOut
    BY <1>5 DEF DrainStored, Persisted, Stored, WakeUp, Lock, Park, Woken, TimedOut,
                TakeBatch, TestAgain
<1>6. CASE MemoryOk \/ MemoryRefused \/ MemoryRetryable
    BY <1>6 DEF MemoryOk, MemoryRefused, MemoryRetryable
<1> QED
    BY <1>1, <1>2, <1>3, <1>4, <1>5, <1>6 DEF Worker

LEMMA WriterStoreStep == WriterTypeOK /\ [Next]_vars => [StoreNext]_storeVars
<1> SUFFICES ASSUME WriterTypeOK, [Next]_vars
             PROVE  [StoreNext]_storeVars
    OBVIOUS
<1>1. CASE Worker
    BY <1>1, WorkerStoreStep
<1>2. CASE Producer
    BY <1>2 DEF Producer, Enqueue, EnqueueFull, ReportFull
<1>3. CASE Owner
    BY <1>3 DEF Owner, Construct, StartWorker, Shutdown, NotifyAll, Join, StoreNext
<1>4. CASE Environment
    BY <1>4 DEF Environment, ProcessDies, StoreNext
<1>5. CASE UNCHANGED vars
    BY <1>5 DEF vars
<1> QED
    BY <1>1, <1>2, <1>3, <1>4, <1>5 DEF Next

-----------------------------------------------------------------------------
\* Type correctness of the writer.

LEMMA NoLines ==
    ASSUME NEW n
    PROVE  <<>> \in Seq(1 .. n) /\ Len(<<>>) <= MaxBatch /\ Len(<<>>) <= MaxQueue
    BY WriterAssumption

\* An object that is gone is type-correct.
LEMMA GoneType ==
    ASSUME ObjectGone, StoreTypeOK', step' = "idle", lost' \subseteq Line, WriterTypeOK
    PROVE  WriterTypeOK'
<1>1. life' \notin {"stop", "join"} /\ stop' = FALSE
    BY DEF ObjectGone
<1>2. stop' \in BOOLEAN /\ (stop' <=> life' \in {"stop", "join"})
    BY <1>1
<1>3. q' = <<>> /\ batch' = <<>> /\ depth' = 0 /\ produced' \in 0 .. MaxLines
    BY DEF ObjectGone, WriterTypeOK
<1>4. /\ q' \in Seq(1 .. produced') /\ Len(q') <= MaxQueue /\ depth' = Len(q')
      /\ batch' \in Seq(1 .. produced') /\ Len(batch') <= MaxBatch
    BY <1>3, NoLines
<1>5. mBatches' \in Nat /\ mBytes' \in Int
    BY DEF ObjectGone
<1>6. delivered' \cup redelivered' \cup lost' \subseteq Line
    BY DEF ObjectGone, WriterTypeOK
<1>7. life' = "off" /\ wpc' = "off" /\ prod' = "idle" /\ signalled' = FALSE /\ lastErr' = "none"
    BY DEF ObjectGone
<1> QED
    BY <1>2, <1>3, <1>4, <1>5, <1>6, <1>7 DEF WriterTypeOK

LEMMA WriterTypeInit == Init => WriterTypeOK
<1> SUFFICES ASSUME Init PROVE WriterTypeOK
    OBVIOUS
<1>1. StoreTypeOK
    BY TypeInit DEF Init
<1>2. q \in Seq(1 .. produced) /\ Len(q) <= MaxQueue /\ depth = Len(q)
    BY WriterAssumption DEF Init
<1>3. batch \in Seq(1 .. produced) /\ Len(batch) <= MaxBatch
    BY WriterAssumption DEF Init
<1>4. produced \in 0 .. MaxLines
    BY WriterAssumption DEF Init
<1>5. stop \in BOOLEAN /\ (stop <=> life \in {"stop", "join"})
    BY DEF Init
<1>6. step = "idle" /\ mBatches \in Nat /\ mBytes \in Int
    BY DEF Init, StoreInit
<1> QED
    BY <1>1, <1>2, <1>3, <1>4, <1>5, <1>6 DEF Init, WriterTypeOK

\* What the histories take in are lines.
LEMMA HeldLines ==
    ASSUME WriterTypeOK
    PROVE  /\ Range(q) \subseteq Line /\ Range(batch) \subseteq Line
           /\ pending # Nothing => Range(pending.lines) \subseteq Line
<1>1. q \in Seq(Line) /\ batch \in Seq(Line)
    BY LinesGrow DEF WriterTypeOK
<1>2. pending # Nothing => pending.lines \in Seq(Line)
    BY BatchFacts DEF WriterTypeOK, StoreTypeOK
<1> QED
    BY <1>1, <1>2, RangeOfSeq

LEMMA TakeBatchKeepsType ==
    ASSUME WriterTypeOK, TakeBatch, wpc \in {"lock", "waiting"}
    PROVE  WriterTypeOK'
<1>1. q \in Seq(1 .. produced) /\ MaxBatch \in Nat \ {0} /\ Take(MaxBatch)
    BY WriterAssumption DEF WriterTypeOK, TakeBatch
<1>2. /\ batch' \in Seq(1 .. produced) /\ Len(batch') <= MaxBatch
      /\ q' \in Seq(1 .. produced) /\ Len(q') <= Len(q)
      /\ depth' = Len(q')
    BY <1>1, TakeFacts
<1>3. Len(q') <= MaxQueue
    BY <1>1, <1>2, LenProperties, WriterAssumption DEF WriterTypeOK
<1>4. StoreTypeOK'
    BY DEF TakeBatch, storeVars, WriterTypeOK, StoreTypeOK
<1> QED
    BY <1>2, <1>3, <1>4
    DEF WriterTypeOK, TakeBatch, storeVars, objectVars, metricVars, historyVars

LEMMA TestAgainKeepsType ==
    ASSUME WriterTypeOK, TestAgain, wpc \in {"lock", "waiting"}
    PROVE  WriterTypeOK'
<1>1. StoreTypeOK'
    BY DEF TestAgain, storeVars, WriterTypeOK, StoreTypeOK
<1> QED
    BY <1>1
    DEF WriterTypeOK, TestAgain, storeVars, objectVars, producerVars, metricVars,
        historyVars

LEMMA WriterTypeStep == WriterTypeOK /\ [Next]_vars => WriterTypeOK'
<1> SUFFICES ASSUME WriterTypeOK, [Next]_vars
             PROVE  WriterTypeOK'
    OBVIOUS
<1>s. StoreTypeOK'
    BY WriterStoreStep, TypeStep DEF WriterTypeOK
<1>g. Len(queue') \in Nat /\ bytes' \in Int
    BY <1>s, LenProperties DEF StoreTypeOK
<1>w. CASE Worker
  <2>1. CASE RetryDisk \/ SkipDisk
      BY <1>s, <2>1 DEF RetryDisk, SkipDisk, WriterTypeOK, storeVars, objectVars,
         producerVars, metricVars, historyVars
  <2>2. CASE FetchDisk
    <3>1. pending' # Nothing /\ step = "idle" /\ step' = "idle"
      <4>1. pending' \in Batch
          BY <2>2, HeadTailProperties
             DEF FetchDisk, NextBatch, Exists, Batch, WriterTypeOK, StoreTypeOK
      <4> QED
          BY <2>2, <4>1, BatchFacts DEF FetchDisk, NextBatch
    <3> QED
        BY <1>s, <2>2, <3>1 DEF FetchDisk, WriterTypeOK, objectVars,
           producerVars, metricVars, historyVars
  <2>3. CASE FetchUnreadable
    <3>1. step' = "idle"
        BY <2>3 DEF FetchUnreadable, NextUnreadable
    <3> QED
        BY <1>s, <2>3, <3>1 DEF FetchUnreadable, WriterTypeOK, objectVars,
           producerVars, metricVars, historyVars
  <2>4. CASE SettleDisk
    <3>1. step' = "idle"
        BY <2>4 DEF SettleDisk, MarkProcessed
    <3> QED
        BY <1>s, <1>g, <2>4, <3>1 DEF SettleDisk, UpdateMetrics, WriterTypeOK, objectVars,
           producerVars, historyVars
  <2>5. CASE DiskOk \/ DiskRefused \/ DiskRetryable
    <3>1. delivered' \cup redelivered' \cup lost' \subseteq Line
        BY <2>5, HeldLines DEF DiskOk, DiskRefused, DiskRetryable, SendOk, SendRefused,
           SendRetryable, Delivers, serverVars, WriterTypeOK
    <3>2. lastErr' \in {"none", "full", "send"}
        BY <2>5 DEF DiskOk, DiskRefused, DiskRetryable, SendOk, SendRefused, SendRetryable
    <3>3. wpc = "disk" /\ wpc' \in {"settled", "drain"}
        BY <2>5 DEF DiskOk, DiskRefused, DiskRetryable
    <3>4. UNCHANGED <<storeVars, objectVars, producerVars, batch, signalled, metricVars>>
        BY <2>5 DEF DiskOk, DiskRefused, DiskRetryable
    <3> QED
        BY <1>s, <3>1, <3>2, <3>3, <3>4 DEF WriterTypeOK, storeVars, objectVars,
           producerVars, metricVars
  <2>6. CASE DrainTake
    <3>1. q \in Seq(1 .. produced) /\ MaxBatch \in Nat \ {0} /\ Take(MaxBatch)
        BY <2>6, WriterAssumption DEF WriterTypeOK, DrainTake
    <3>2. /\ batch' \in Seq(1 .. produced) /\ Len(batch') <= MaxBatch
          /\ q' \in Seq(1 .. produced) /\ Len(q') <= Len(q)
          /\ depth' = Len(q')
        BY <3>1, TakeFacts
    <3>3. Len(q') <= MaxQueue
        BY <3>1, <3>2, LenProperties, WriterAssumption DEF WriterTypeOK
    <3>4. batch' # <<>>
        BY <2>6, DrainIsStorable
    <3>5. UNCHANGED <<objectVars, produced, prod, signalled, metricVars, lastErr,
                      historyVars, pending>>
          /\ wpc = "drain" /\ wpc' = "drainStore"
        BY <2>6 DEF DrainTake, StoreOpen
    <3> QED
        BY <1>s, <3>2, <3>3, <3>4, <3>5 DEF WriterTypeOK, objectVars, metricVars,
           historyVars
  <2>7. CASE DrainEnd \/ WakeUp
      BY <1>s, <2>7 DEF DrainEnd, WakeUp, WriterTypeOK, storeVars, objectVars,
         producerVars, metricVars, historyVars
  <2>8. CASE DrainStored \/ Persisted
    <3>1. lost' \subseteq Line
        BY <2>8, HeldLines DEF DrainStored, Persisted, Stored, WriterTypeOK
    <3>2. batch' = <<>> /\ batch' \in Seq(1 .. produced') /\ Len(batch') <= MaxBatch
        BY <2>8, NoLines DEF DrainStored, Persisted, Stored
    <3>3. mBatches' \in Nat /\ mBytes' \in Int
        BY <1>g, <2>8 DEF DrainStored, Persisted, Stored, UpdateMetrics
    <3>4. step = "idle"
          /\ UNCHANGED <<storeVars, objectVars, producerVars, signalled, lastErr, serverVars>>
        BY <2>8 DEF DrainStored, Persisted, Stored
    <3>5. \/ wpc = "drainStore" /\ wpc' \in {"drain", "sleep"}
          \/ wpc = "persistStore" /\ wpc' = "top"
        BY <2>8 DEF DrainStored, Persisted, Stored
    <3> QED
        BY <1>s, <3>1, <3>2, <3>3, <3>4, <3>5 DEF WriterTypeOK, storeVars, objectVars,
           producerVars, serverVars
  <2>9. CASE InsideStore
    <3>1. step # "idle" /\ UNCHANGED <<pending, writerVars>>
        BY <2>9 DEF InsideStore, StoreInside, StoreWrite, StoreWriteFails, Enforce,
           StoreReject, StoreAccept
    <3> QED
        BY <1>s, <3>1 DEF WriterTypeOK, writerVars
  <2>10. CASE Lock
      BY <2>10, TakeBatchKeepsType, TestAgainKeepsType DEF Lock
  <2>11. CASE Park
      BY <1>s, <2>11 DEF Park, WriterTypeOK, storeVars, objectVars, producerVars,
         metricVars, historyVars
  <2>12. CASE Woken \/ TimedOut
      BY <2>12, TakeBatchKeepsType, TestAgainKeepsType DEF Woken, TimedOut
  <2>13. CASE MemoryOk \/ MemoryRefused \/ MemoryRetryable
    <3>1. delivered' \cup redelivered' \cup lost' \subseteq Line
        BY <2>13, HeldLines DEF MemoryOk, MemoryRefused, MemoryRetryable, SendOk,
           SendRefused, SendRetryable, Delivers, serverVars, WriterTypeOK
    <3>2. lastErr' \in {"none", "full", "send"}
        BY <2>13 DEF MemoryOk, MemoryRefused, MemoryRetryable, SendOk, SendRefused,
           SendRetryable
    <3>3. /\ wpc \in {"post", "flush"}
          /\ \/ wpc' = "top" /\ batch' = <<>>
             \/ wpc' = "persist" /\ UNCHANGED batch
        BY <2>13 DEF MemoryOk, MemoryRefused, MemoryRetryable
    <3>4. batch' \in Seq(1 .. produced) /\ Len(batch') <= MaxBatch
        BY <3>3, NoLines DEF WriterTypeOK
    <3>5. depth' = Len(q)
        BY <2>13 DEF MemoryOk, MemoryRefused, MemoryRetryable, producerVars, WriterTypeOK
    <3>6. UNCHANGED <<storeVars, objectVars, q, produced, prod, signalled, metricVars>>
        BY <2>13 DEF MemoryOk, MemoryRefused, MemoryRetryable, producerVars
    <3> QED
        BY <1>s, <3>1, <3>2, <3>3, <3>4, <3>5, <3>6
        DEF WriterTypeOK, storeVars, objectVars, metricVars
  <2>14. CASE Persist
    <3>1. UNCHANGED pending
        BY <2>14 DEF Persist, StoreOpen, StoreDisabled
    <3> QED
        BY <1>s, <2>14, <3>1 DEF Persist, WriterTypeOK, objectVars, producerVars,
           metricVars, historyVars
  <2> QED
      BY <1>w, <2>1, <2>2, <2>3, <2>4, <2>5, <2>6, <2>7, <2>8, <2>9, <2>10, <2>11, <2>12,
         <2>13, <2>14 DEF Worker
<1>p. CASE Producer
  <2>1. CASE Enqueue
    <3>1. produced' = produced + 1 /\ q' = Append(q, produced') /\ produced \in Nat
        BY <2>1, WriterAssumption DEF Enqueue, WriterTypeOK
    <3>2. q \in Seq(1 .. produced') /\ batch \in Seq(1 .. produced')
        BY <3>1, LinesGrow DEF WriterTypeOK
    <3>3. q' \in Seq(1 .. produced') /\ Len(q') = Len(q) + 1
        BY <3>1, <3>2, AppendProperties
    <3>4. produced' \in 0 .. MaxLines /\ Len(q') <= MaxQueue
        BY <2>1, <3>1, <3>3, LenProperties, WriterAssumption DEF Enqueue, WriterTypeOK
    <3>5. signalled' \in BOOLEAN /\ depth' = Len(q')
        BY <2>1 DEF Enqueue
    <3>6. UNCHANGED <<storeVars, objectVars, prod, wpc, batch, metricVars, lastErr,
                      historyVars>>
        BY <2>1 DEF Enqueue
    <3> QED
        BY <1>s, <3>2, <3>3, <3>4, <3>5, <3>6 DEF WriterTypeOK, storeVars, objectVars,
           metricVars, historyVars
  <2>2. CASE EnqueueFull \/ ReportFull
      BY <1>s, <2>2 DEF EnqueueFull, ReportFull, WriterTypeOK, storeVars, objectVars,
         workerVars, metricVars, historyVars
  <2> QED
      BY <1>p, <2>1, <2>2 DEF Producer
<1>o. CASE Owner
  <2>1. CASE Construct
    <3>1. UNCHANGED <<step, pending>>
        BY <2>1 DEF Construct, StoreStart, Initialize, LoadEntry, LoadDone
    <3> QED
        BY <1>s, <2>1, <3>1 DEF Construct, WriterTypeOK, writerVars
  <2>2. CASE StartWorker
      BY <1>s, <1>g, <2>2 DEF StartWorker, UpdateMetrics, WriterTypeOK, storeVars,
         producerVars, historyVars
  <2>3. CASE Shutdown
      BY <1>s, <2>3 DEF Shutdown, WriterTypeOK, storeVars, producerVars, workerVars,
         metricVars, historyVars
  <2>4. CASE NotifyAll
      BY <1>s, <2>4 DEF NotifyAll, WriterTypeOK, storeVars, producerVars, metricVars,
         historyVars
  <2>5. CASE Join
    <3>1. ObjectGone /\ step' = "idle" /\ UNCHANGED lost
        BY <2>5 DEF Join, Destroy, Forget
    <3> QED
        BY <1>s, <3>1, GoneType DEF WriterTypeOK
  <2> QED
      BY <1>o, <2>1, <2>2, <2>3, <2>4, <2>5 DEF Owner
<1>e. CASE Environment
  <2>1. CASE ProcessDies
    <3>1. ObjectGone /\ step' = "idle"
        BY <2>1 DEF ProcessDies, Crash, Forget
    <3>2. lost' \subseteq Line
        BY <2>1, HeldLines DEF ProcessDies, WriterTypeOK
    <3> QED
        BY <1>s, <3>1, <3>2, GoneType
  <2>2. CASE Vanish /\ UNCHANGED writerVars
      BY <1>s, <2>2 DEF Vanish, WriterTypeOK, writerVars
  <2> QED
      BY <1>e, <2>1, <2>2 DEF Environment
<1>u. CASE UNCHANGED vars
    BY <1>s, <1>u DEF vars, WriterTypeOK, writerVars, storeVars
<1> QED
    BY <1>w, <1>p, <1>o, <1>e, <1>u DEF Next

\* Every step of the writer keeps its types, whatever fails.
THEOREM WriterTypeCorrect == Spec => []WriterTypeOK
<1> QED
    BY WriterTypeInit, WriterTypeStep, PTL DEF Spec

\* The writer uses the store as its proofs assume: one caller, whose batches are
\* not empty and who finishes a batch before it asks for the next one.
THEOREM WriterUsesStore == Spec => StoreSpec
<1>1. Init => StoreInit
    BY DEF Init
<1>2. WriterTypeOK /\ [Next]_vars => [StoreNext]_storeVars
    BY WriterStoreStep
<1> QED
    BY <1>1, <1>2, WriterTypeCorrect, PTL DEF Spec, StoreSpec

-----------------------------------------------------------------------------
\* No wake-up of an enqueue() is lost.

\* While the worker is parking nobody can push a line.
ParkingEmpty == wpc = "parking" => q = <<>>

SignalInv == NoLostSignal /\ ParkingEmpty

LEMMA SignalStep == SignalInv /\ [Next]_vars => SignalInv'
<1> SUFFICES ASSUME SignalInv, [Next]_vars
             PROVE  SignalInv'
    OBVIOUS
<1> USE DEF SignalInv, NoLostSignal, ParkingEmpty
<1>1. CASE Worker
  <2>1. CASE wpc' \notin {"waiting", "parking"}
      BY <2>1
  <2>2. CASE Park
      BY <2>2 DEF Park, producerVars
  <2>3. CASE wpc \in {"lock", "waiting"} /\ ~Condition /\ TestAgain
      BY <2>3 DEF Condition, TestAgain, producerVars
  <2>4. CASE InsideStore
      BY <2>4 DEF InsideStore, writerVars
  <2>5. CASE wpc \in {"lock", "waiting"} /\ TakeBatch
      BY <2>5 DEF TakeBatch
  <2> QED
      BY <1>1, <2>1, <2>2, <2>3, <2>4, <2>5 DEF Worker, RetryDisk, FetchDisk, FetchUnreadable,
         SkipDisk, SettleDisk, DiskOk, DiskRefused, DiskRetryable, DrainTake, DrainEnd,
         DrainStored, Persisted, Stored, WakeUp, Lock, Woken, TimedOut, MemoryOk,
         MemoryRefused, MemoryRetryable, Persist
<1>2. CASE Producer
    BY <1>2 DEF Producer, Enqueue, EnqueueFull, ReportFull, workerVars
<1>3. CASE Owner
    BY <1>3 DEF Owner, Construct, StartWorker, Shutdown, NotifyAll, Join, ObjectGone,
       writerVars, producerVars, workerVars
<1>4. CASE Environment
    BY <1>4 DEF Environment, ProcessDies, ObjectGone, writerVars
<1>5. CASE UNCHANGED vars
    BY <1>5 DEF vars, writerVars
<1> QED
    BY <1>1, <1>2, <1>3, <1>4, <1>5 DEF Next

\* A worker that waits while there are lines to take has been notified: the
\* worker tests the queue and starts to wait in one critical section.
THEOREM NoSignalIsLost == Spec => []NoLostSignal
<1>1. Init => SignalInv
    BY DEF Init, SignalInv, NoLostSignal, ParkingEmpty
<1>2. SignalInv => NoLostSignal
    BY DEF SignalInv
<1> QED
    BY <1>1, <1>2, SignalStep, PTL DEF Spec

-----------------------------------------------------------------------------
\* No line is forgotten.  First: what a step of the store does to the lines that
\* are on disk or were dropped from it.

\* Replacing or removing one file costs at most the lines of that file.
LEMMA OtherFilesKept ==
    ASSUME NEW p,
           \A f \in DOMAIN files : f # p => f \in DOMAIN files' /\ files'[f] = files[f]
    PROVE  OnDisk \subseteq OnDisk' \cup Content(p)
    BY DEF OnDisk, Content, Exists

LEMMA UnlinkCosts ==
    ASSUME NEW p, Unlink(p)
    PROVE  OnDisk \subseteq OnDisk' \cup Content(p)
    BY UnlinkFacts, OtherFilesKept

LEMMA WithCosts ==
    ASSUME NEW p, NEW lines, files' = With(p, lines)
    PROVE  OnDisk \subseteq OnDisk' \cup Content(p)
<1>1. \A f \in DOMAIN files : f # p => f \in DOMAIN files' /\ files'[f] = files[f]
    BY DEF With
<1> QED
    BY <1>1, OtherFilesKept

\* Eviction, and the removal of an unreadable batch, record what they drop.
LEMMA DropOldestKeeps ==
    ASSUME DropOldest
    PROVE  OnDisk \cup dropped \subseteq OnDisk' \cup dropped'
    BY UnlinkCosts DEF DropOldest

LEMMA StoreOpenKeeps ==
    ASSUME StoreInv, NEW lines \in Seq(Line) \ {<<>>}, StoreOpen(lines)
    PROVE  OnDisk \cup dropped \subseteq OnDisk' \cup dropped'
<1>1. CASE UNCHANGED files
    BY <1>1 DEF StoreOpen, OnDisk, Content, Exists
<1>2. CASE files' = With(NextPath(clock'), <<>>)
  <2>1. clock' \in Nat /\ clock' >= clock /\ mode = "on"
      BY StoreAssumption DEF StoreOpen, StoreInv, StoreTypeOK
  <2>2. Content(NextPath(clock')) = {}
      BY <2>1, NextPathFresh DEF Known, Content, Exists
  <2> QED
      BY <1>2, <2>2, WithCosts DEF StoreOpen
<1> QED
    BY <1>1, <1>2 DEF StoreOpen

\* Inside store() the only lines that leave the disk unrecorded are those of the
\* batch a store() takes back.
LEMMA StoreInsideKeeps ==
    ASSUME StoreInv, WritesToEmptyFile, StoreInside
    PROVE  /\ OnDisk \cup dropped \subseteq OnDisk' \cup dropped' \cup Range(cur.lines)
           /\ ~StoreReject => OnDisk \cup dropped \subseteq OnDisk' \cup dropped'
<1>1. step = "write" => Content(cur.path) = {}
    BY DEF WritesToEmptyFile, Content, Range
<1>2. CASE StoreWrite
    BY <1>1, <1>2, WithCosts DEF StoreWrite
<1>3. CASE StoreWriteFails
  <2>1. CASE UNCHANGED files
      BY <1>3, <2>1 DEF StoreWriteFails, OnDisk, Content, Exists
  <2>2. CASE Unlink(cur.path) \/ \E part : files' = With(cur.path, part)
      BY <1>1, <1>3, <2>2, UnlinkCosts, WithCosts DEF StoreWriteFails
  <2> QED
      BY <1>3, <2>1, <2>2 DEF StoreWriteFails
<1>4. CASE Enforce
    BY <1>4, DropOldestKeeps DEF Enforce
<1>5. CASE StoreReject
  <2>1. Content(cur.path) \subseteq Range(cur.lines)
      BY <1>5 DEF StoreReject, StoreInv, NewestSurvivesEviction, Content, Exists
  <2>2. step # "write"
      BY <1>5 DEF StoreReject
  <2> QED
      BY <1>5, <2>1, <2>2, UnlinkCosts DEF StoreReject
<1>6. CASE StoreAccept
    BY <1>6 DEF StoreAccept, OnDisk, Content, Exists
<1> QED
    BY <1>2, <1>3, <1>4, <1>5, <1>6 DEF StoreInside

LEMMA MarkProcessedKeeps ==
    ASSUME StoreInv, MarkProcessed
    PROVE  OnDisk \cup dropped \subseteq OnDisk' \cup dropped' \cup Range(pending.lines)
<1>1. CASE UNCHANGED files
    BY <1>1 DEF MarkProcessed, OnDisk, Content, Exists
<1>2. CASE Unlink(pending.path)
  <2>1. Content(pending.path) \subseteq Range(pending.lines)
      BY DEF MarkProcessed, StoreInv, PendingUnchanged, Content, Exists
  <2> QED
      BY <1>2, <2>1, UnlinkCosts DEF MarkProcessed
<1> QED
    BY <1>1, <1>2 DEF MarkProcessed

\* Nobody outside the writer takes lines off the disk unrecorded, not even a crash.
LEMMA EnvironmentKeeps ==
    ASSUME WritesToEmptyFile, Crash \/ Vanish \/ Destroy
    PROVE  OnDisk \cup dropped \subseteq OnDisk' \cup dropped'
<1>1. CASE Vanish
  <2>1. PICK p \in DOMAIN files : /\ files' = Restrict(files, DOMAIN files \ {p})
                                  /\ dropped' = dropped \cup Content(p)
      BY <1>1 DEF Vanish
  <2>2. Unlink(p)
      BY <2>1 DEF Unlink
  <2> QED
      BY <2>1, <2>2, UnlinkCosts
<1>2. CASE Crash \/ Destroy
  <2>1. UNCHANGED dropped
      BY <1>2 DEF Crash, Destroy, Forget
  <2>2. CASE UNCHANGED files
      BY <2>1, <2>2 DEF OnDisk, Content, Exists
  <2>3. CASE step = "write" /\ \E part : files' = With(cur.path, part)
    <3>1. Content(cur.path) = {}
        BY <2>3 DEF WritesToEmptyFile, Content, Range
    <3> QED
        BY <2>1, <2>3, <3>1, WithCosts
  <2> QED
      BY <1>2, <2>2, <2>3 DEF Crash, Destroy
<1> QED
    BY <1>1, <1>2

-----------------------------------------------------------------------------
\* Then: the parts of CustodyInv, one lemma for each.

\* What was delivered or lost stays so.
LEMMA HistoryGrows ==
    ASSUME [Next]_vars
    PROVE  delivered \subseteq delivered' /\ lost \subseteq lost'
<1>1. CASE Worker
    BY <1>1 DEF Worker, RetryDisk, FetchDisk, FetchUnreadable, SkipDisk, SettleDisk,
       DiskOk, DiskRefused, DiskRetryable, DrainTake, DrainEnd, DrainStored, Persisted,
       Stored, WakeUp, InsideStore, Lock, Park, Woken, TimedOut, TakeBatch, TestAgain,
       MemoryOk, MemoryRefused, MemoryRetryable, Persist, SendOk, SendRefused,
       SendRetryable, Delivers, serverVars, historyVars, writerVars
<1>2. CASE Producer
    BY <1>2 DEF Producer, Enqueue, EnqueueFull, ReportFull, historyVars
<1>3. CASE Owner
    BY <1>3 DEF Owner, Construct, StartWorker, Shutdown, NotifyAll, Join, ObjectGone,
       writerVars, historyVars
<1>4. CASE Environment
    BY <1>4 DEF Environment, ProcessDies, ObjectGone, writerVars
<1>5. CASE UNCHANGED vars
    BY <1>5 DEF vars, writerVars
<1> QED
    BY <1>1, <1>2, <1>3, <1>4, <1>5 DEF Next

\* The steps of the writer that touch the directory or the record of what was
\* dropped from it.
LEMMA DiskSteps ==
    ASSUME [Next]_vars
    PROVE  \/ InsideStore \/ SettleDisk \/ DrainTake \/ Persist \/ FetchUnreadable
           \/ Join \/ ProcessDies \/ (Vanish /\ UNCHANGED writerVars)
           \/ UNCHANGED <<files, dropped>>
<1>1. CASE Worker
    BY <1>1 DEF Worker, RetryDisk, FetchDisk, SkipDisk, DiskOk, DiskRefused,
       DiskRetryable, DrainEnd, DrainStored, Persisted, Stored, WakeUp, Lock, Park, Woken,
       TimedOut, TakeBatch, TestAgain, MemoryOk, MemoryRefused, MemoryRetryable,
       NextBatch, storeVars
<1>2. CASE Producer
    BY <1>2 DEF Producer, Enqueue, EnqueueFull, ReportFull, storeVars
<1>3. CASE Owner
    BY <1>3 DEF Owner, Construct, StoreStart, Initialize, LoadEntry, LoadDone,
       StartWorker, Shutdown, NotifyAll, storeVars
<1>4. CASE Environment
    BY <1>4 DEF Environment
<1>5. CASE UNCHANGED vars
    BY <1>5 DEF vars, storeVars
<1> QED
    BY <1>1, <1>2, <1>3, <1>4, <1>5 DEF Next

\* The steps that move lines into the memory queue, out of it, or out of the
\* worker's hands.
LEMMA QueueSteps ==
    ASSUME [Next]_vars
    PROVE  \/ Enqueue \/ (wpc \in {"lock", "waiting"} /\ TakeBatch) \/ DrainTake
           \/ MemoryOk \/ MemoryRefused \/ DrainStored \/ Persisted
           \/ Join \/ ProcessDies
           \/ UNCHANGED <<q, batch, produced>>
<1>1. CASE Worker
    BY <1>1 DEF Worker, RetryDisk, FetchDisk, FetchUnreadable, SkipDisk, SettleDisk,
       DiskOk, DiskRefused, DiskRetryable, DrainEnd, WakeUp, InsideStore, Lock, Park,
       Woken, TimedOut, TestAgain, MemoryRetryable, Persist, producerVars, writerVars
<1>2. CASE Producer
    BY <1>2 DEF Producer, EnqueueFull, ReportFull, workerVars
<1>3. CASE Owner
    BY <1>3 DEF Owner, Construct, StartWorker, Shutdown, NotifyAll, producerVars,
       workerVars, writerVars
<1>4. CASE Environment
    BY <1>4 DEF Environment, writerVars
<1>5. CASE UNCHANGED vars
    BY <1>5 DEF vars, writerVars
<1> QED
    BY <1>1, <1>2, <1>3, <1>4, <1>5 DEF Next

\* Nothing leaves the disk but what is settled, except the batch that a store()
\* takes back, and that the worker still has in its hands.
LEMMA DiskKept ==
    ASSUME CustodyInv, [Next]_vars
    PROVE  /\ OnDisk \cup Settled \subseteq OnDisk' \cup Settled' \cup Range(batch)
           /\ ~StoreReject => OnDisk \cup Settled \subseteq OnDisk' \cup Settled'
<1> USE HistoryGrows DEF Settled
<1>1. CASE InsideStore
  <2>1. StoreInside /\ step # "idle"
      BY <1>1 DEF InsideStore, StoreInside, StoreWrite, StoreWriteFails, Enforce,
         StoreReject, StoreAccept
  <2>2. cur.lines = batch
      BY <2>1 DEF CustodyInv, StoresItsBatch
  <2> QED
      BY <2>1, <2>2, StoreInsideKeeps DEF CustodyInv
<1>2. CASE SettleDisk
  <2>1. Range(pending.lines) \subseteq delivered \cup lost \cup dropped
      BY <1>2 DEF SettleDisk, CustodyInv, FinishedIsSettled, Range
  <2>2. UNCHANGED dropped
      BY <1>2 DEF SettleDisk, MarkProcessed
  <2> QED
      BY <1>2, <2>1, <2>2, MarkProcessedKeeps DEF SettleDisk, CustodyInv
<1>3. CASE DrainTake
    BY <1>3, DrainIsStorable, StoreOpenKeeps DEF DrainTake, CustodyInv
<1>4. CASE Persist
  <2>1. batch # <<>>
      BY <1>4 DEF CustodyInv, WriterTypeOK, Persist
  <2>2. CASE StoreOpen(batch)
      BY <2>1, <2>2, BatchIsStorable, StoreOpenKeeps DEF CustodyInv
  <2>3. CASE StoreDisabled
      BY <2>3 DEF StoreDisabled, OnDisk, Content, Exists
  <2> QED
      BY <1>4, <2>2, <2>3 DEF Persist
<1>5. CASE FetchUnreadable
    BY <1>5, DropOldestKeeps DEF FetchUnreadable, NextUnreadable
<1>6. CASE Join \/ ProcessDies \/ Vanish
    BY <1>6, EnvironmentKeeps DEF Join, ProcessDies, CustodyInv
<1>7. CASE UNCHANGED <<files, dropped>>
    BY <1>7 DEF OnDisk, Content, Exists
<1> QED
    BY <1>1, <1>2, <1>3, <1>4, <1>5, <1>6, <1>7, DiskSteps

\* Lines move from the memory queue to the batch, and from there to the disk, to
\* the server, or to what was given up.
LEMMA NoLineForgottenStep ==
    ASSUME CustodyInv, [Next]_vars
    PROVE  NoLineForgotten'
<1> DEFINE Safe == OnDisk \cup Settled
<1>s. /\ Safe \subseteq Safe' \cup Range(batch)
      /\ ~StoreReject => Safe \subseteq Safe'
    BY DiskKept
<1>n. 1 .. produced \subseteq Range(q) \cup Range(batch) \cup Safe
    BY DEF CustodyInv, NoLineForgotten
<1>g. /\ 1 .. produced' \subseteq Range(q') \cup Range(batch') \cup Safe'
         => NoLineForgotten'
      /\ lost' \cup delivered' \subseteq Safe'
    BY DEF NoLineForgotten, Settled
<1> HIDE DEF Safe
<1>1. CASE UNCHANGED <<q, batch, produced>>
    BY <1>1, <1>s, <1>n, <1>g
<1>2. CASE Enqueue
  <2>1. produced' = produced + 1 /\ q' = Append(q, produced') /\ produced \in Nat
      BY <1>2, WriterAssumption DEF Enqueue, CustodyInv, WriterTypeOK
  <2>2. q \in Seq(Nat)
      BY <2>1, LinesGrow DEF CustodyInv, WriterTypeOK, Line
  <2>3. Range(q) \subseteq Range(q') /\ produced' \in Range(q')
    <3>1. produced' \in Nat
        BY <2>1
    <3> QED
        BY <2>1, <2>2, <3>1, AppendOnce
  <2>4. UNCHANGED batch /\ ~StoreReject
      BY <1>2 DEF Enqueue, storeVars, StoreReject
  <2>5. 1 .. produced' \subseteq 1 .. produced \cup {produced'}
      BY <2>1
  <2> QED
      BY <1>s, <1>n, <1>g, <2>3, <2>4, <2>5
<1>3. CASE (wpc \in {"lock", "waiting"} /\ TakeBatch) \/ DrainTake
  <2>1. batch = <<>> /\ Range(batch) = {}
    <3>1. batch = <<>>
        BY <1>3 DEF DrainTake, CustodyInv, WriterTypeOK
    <3> QED
        BY <3>1 DEF Range
  <2>2. Range(q) \subseteq Range(batch') \cup Range(q')
      BY <1>3, TakeFacts, WriterAssumption
         DEF TakeBatch, DrainTake, CustodyInv, WriterTypeOK
  <2>3. UNCHANGED produced
      BY <1>3 DEF TakeBatch, DrainTake
  <2> QED
      BY <1>s, <1>n, <1>g, <2>1, <2>2, <2>3
<1>4. CASE MemoryOk \/ MemoryRefused
  <2>1. Range(batch) \subseteq lost' \cup delivered'
      BY <1>4 DEF MemoryOk, MemoryRefused, SendOk, Delivers
  <2>2. UNCHANGED <<q, produced>> /\ ~StoreReject
      BY <1>4 DEF MemoryOk, MemoryRefused, producerVars, storeVars, StoreReject
  <2> QED
      BY <1>s, <1>n, <1>g, <2>1, <2>2
<1>5. CASE DrainStored \/ Persisted
  <2>1. UNCHANGED <<q, produced>> /\ step = "idle" /\ ~StoreReject
      BY <1>5 DEF DrainStored, Persisted, Stored, producerVars, storeVars, StoreReject
  <2>2. CASE ret
    <3>1. Range(batch) \subseteq Safe
        BY <1>5, <2>1, <2>2 DEF Safe, DrainStored, Persisted, Stored, CustodyInv,
           AcceptedIsKept
    <3> QED
        BY <1>s, <1>n, <1>g, <2>1, <3>1
  <2>3. CASE ~ret
    <3>1. Range(batch) \subseteq lost'
        BY <1>5, <2>3 DEF DrainStored, Persisted, Stored
    <3> QED
        BY <1>s, <1>n, <1>g, <2>1, <3>1
  <2> QED
      BY <2>2, <2>3
<1>6. CASE Join
  <2>1. Range(q) = {} /\ Range(batch) = {}
      BY <1>6 DEF Join, CustodyInv, ExitsEmpty, WriterTypeOK, Range
  <2>2. UNCHANGED produced /\ ~StoreReject
      BY <1>6 DEF Join, ObjectGone, Destroy, Forget, StoreReject
  <2> QED
      BY <1>s, <1>n, <1>g, <2>1, <2>2
<1>7. CASE ProcessDies
  <2>1. Range(q) \cup Range(batch) \subseteq lost' /\ UNCHANGED produced
      BY <1>7 DEF ProcessDies, ObjectGone
  <2> QED
      BY <1>s, <1>n, <1>g, <2>1
<1> QED
    BY <1>1, <1>2, <1>3, <1>4, <1>5, <1>6, <1>7, QueueSteps

\* A batch that was dropped stays dropped.
LEMMA DroppedGrows ==
    ASSUME [StoreNext]_storeVars
    PROVE  dropped \subseteq dropped'
    BY DEF StoreNext, StoreStart, StoreInside, Initialize, LoadEntry, LoadDone, Destroy,
       Crash, Forget, Vanish, StoreDisabled, StoreOpen, StoreWrite, StoreWriteFails,
       Enforce, StoreReject, StoreAccept, NextBatch, NextUnreadable, MarkProcessed,
       DropOldest, storeVars

\* The worker finishes a batch of the disk only after its lines were settled.
LEMMA FinishedIsSettledStep ==
    ASSUME CustodyInv, [Next]_vars
    PROVE  FinishedIsSettled'
<1> SUFFICES ASSUME wpc' = "settled"
             PROVE  Range(pending.lines)' \subseteq Settled'
    BY DEF FinishedIsSettled
<1>1. CASE DiskOk \/ DiskRefused
    BY <1>1 DEF DiskOk, DiskRefused, SendOk, Delivers, Settled, storeVars
<1>2. CASE wpc = "settled" /\ UNCHANGED pending
  <2>1. [StoreNext]_storeVars
      BY WriterStoreStep DEF CustodyInv
  <2> QED
      BY <1>2, <2>1, DroppedGrows, HistoryGrows DEF CustodyInv, FinishedIsSettled, Settled
<1>3. \/ DiskOk \/ DiskRefused \/ (wpc = "settled" /\ UNCHANGED pending)
  <2>1. CASE Worker
    <3>1. ~InsideStore
        BY DEF InsideStore, StoreInside, StoreWrite, StoreWriteFails, Enforce,
           StoreReject, StoreAccept, CustodyInv, WriterTypeOK, writerVars
    <3> QED
        BY <2>1, <3>1 DEF Worker, RetryDisk, FetchDisk, FetchUnreadable, SkipDisk,
           SettleDisk, DiskRetryable, DrainTake, DrainEnd, DrainStored, Persisted, Stored,
           WakeUp, Lock, Park, Woken, TimedOut, TakeBatch, TestAgain, MemoryOk,
           MemoryRefused, MemoryRetryable, Persist
  <2>2. CASE Producer
      BY <2>2 DEF Producer, Enqueue, EnqueueFull, ReportFull, storeVars, workerVars
  <2>3. CASE Owner
      BY <2>3 DEF Owner, Construct, StoreStart, Initialize, LoadEntry, LoadDone,
         StartWorker, Shutdown, NotifyAll, Join, ObjectGone, storeVars, workerVars,
         writerVars
  <2>4. CASE Environment
      BY <2>4 DEF Environment, ProcessDies, ObjectGone, Vanish, writerVars
  <2>5. CASE UNCHANGED vars
      BY <2>5 DEF vars, storeVars, writerVars
  <2> QED
      BY <2>1, <2>2, <2>3, <2>4, <2>5 DEF Next
<1> QED
    BY <1>1, <1>2, <1>3

\* While store() is under way nothing but its own steps, a crash and a vanishing
\* file changes what it works on.
LEMMA StoreUndisturbed ==
    ASSUME CustodyInv, [Next]_vars, step # "idle"
    PROVE  \/ InsideStore \/ ProcessDies \/ (Vanish /\ UNCHANGED writerVars)
           \/ UNCHANGED <<storeVars, wpc, batch>>
<1>1. wpc \in {"drainStore", "persistStore"} /\ mode = "on"
    BY DEF CustodyInv, WriterTypeOK, StoreTypeOK
<1>2. CASE Worker
    BY <1>1, <1>2 DEF Worker, RetryDisk, FetchDisk, FetchUnreadable, SkipDisk, SettleDisk,
       DiskOk, DiskRefused, DiskRetryable, DrainTake, DrainEnd, DrainStored, Persisted,
       Stored, WakeUp, Lock, Park, Woken, TimedOut, MemoryOk, MemoryRefused,
       MemoryRetryable, Persist, MarkProcessed
<1>3. CASE Producer
    BY <1>3 DEF Producer, Enqueue, EnqueueFull, ReportFull, workerVars
<1>4. CASE Owner
  <2>1. life # "off" /\ wpc # "exited"
      BY <1>1 DEF CustodyInv, WriterTypeOK
  <2> QED
      BY <1>4, <2>1 DEF Owner, Construct, StartWorker, Shutdown, NotifyAll, Join,
         workerVars
<1>5. CASE Environment
    BY <1>5 DEF Environment
<1>6. CASE UNCHANGED vars
    BY <1>6 DEF vars, writerVars
<1> QED
    BY <1>2, <1>3, <1>4, <1>5, <1>6 DEF Next

\* A store() begins in one of two places.
LEMMA StoreBegins ==
    ASSUME CustodyInv, [Next]_vars, step = "idle", step' # "idle"
    PROVE  \/ DrainTake
           \/ Persist /\ StoreOpen(batch)
<1>1. CASE Worker
    BY <1>1 DEF Worker, RetryDisk, FetchDisk, FetchUnreadable, SkipDisk, SettleDisk,
       DiskOk, DiskRefused, DiskRetryable, DrainEnd, DrainStored, Persisted, Stored,
       WakeUp, Lock, Park, Woken, TimedOut, TakeBatch, TestAgain, MemoryOk, MemoryRefused,
       MemoryRetryable, Persist, InsideStore, StoreInside, StoreWrite, StoreWriteFails,
       Enforce, StoreReject, StoreAccept, StoreDisabled, NextBatch, NextUnreadable,
       MarkProcessed, storeVars
<1>2. CASE Producer
    BY <1>2 DEF Producer, Enqueue, EnqueueFull, ReportFull, storeVars
<1>3. CASE Owner
    BY <1>3 DEF Owner, Construct, StoreStart, Initialize, LoadEntry, LoadDone,
       StartWorker, Shutdown, NotifyAll, Join, Destroy, Forget, storeVars
<1>4. CASE Environment
    BY <1>4 DEF Environment, ProcessDies, Crash, Forget, Vanish
<1>5. CASE UNCHANGED vars
    BY <1>5 DEF vars, storeVars
<1> QED
    BY <1>1, <1>2, <1>3, <1>4, <1>5 DEF Next

\* store() works on the batch in the worker's hands.
LEMMA StoresItsBatchStep ==
    ASSUME CustodyInv, [Next]_vars
    PROVE  StoresItsBatch'
<1> SUFFICES ASSUME step' # "idle" PROVE cur'.lines = batch'
    BY DEF StoresItsBatch
<1>1. CASE step = "idle"
  <2>1. CASE DrainTake
      BY <1>1, <2>1 DEF DrainTake, StoreOpen
  <2>2. CASE Persist /\ StoreOpen(batch)
    <3>1. cur'.lines = batch
        BY <1>1, <2>2 DEF StoreOpen
    <3> QED
        BY <2>2, <3>1 DEF Persist
  <2> QED
      BY <1>1, <2>1, <2>2, StoreBegins
<1>2. CASE step # "idle"
  <2>1. cur.lines = batch
      BY <1>2 DEF CustodyInv, StoresItsBatch
  <2>2. UNCHANGED <<cur, batch>>
      BY <1>2, StoreUndisturbed DEF InsideStore, StoreInside, StoreWrite,
         StoreWriteFails, Enforce, StoreReject, StoreAccept, ProcessDies, Crash, Forget,
         Vanish, writerVars, storeVars
  <2> QED
      BY <2>1, <2>2
<1> QED
    BY <1>1, <1>2

\* The file that is being written holds nothing before.
LEMMA WritesToEmptyFileStep ==
    ASSUME CustodyInv, [Next]_vars
    PROVE  WritesToEmptyFile'
<1> SUFFICES ASSUME step' = "write", Exists(cur.path)'
             PROVE  files'[cur'.path] = <<>>
    BY DEF WritesToEmptyFile
<1>1. CASE step = "idle"
  <2>1. PICK lines : StoreOpen(lines)
      BY <1>1, StoreBegins DEF DrainTake
  <2> QED
      BY <1>1, <2>1 DEF StoreOpen, With
<1>2. CASE step # "idle"
  <2>1. /\ step = "write" /\ UNCHANGED cur
        /\ UNCHANGED files \/ \E p \in DOMAIN files :
                                  files' = Restrict(files, DOMAIN files \ {p})
      BY <1>2, StoreUndisturbed DEF InsideStore, StoreInside, StoreWrite,
         StoreWriteFails, Enforce, StoreReject, StoreAccept, ProcessDies, Crash, Forget,
         Vanish, writerVars, storeVars
  <2> QED
      BY <2>1 DEF CustodyInv, WritesToEmptyFile, Exists, Restrict
<1> QED
    BY <1>1, <1>2

\* After a store() that returned true its lines are on disk, or were dropped from
\* it since.
LEMMA AcceptedIsKeptStep ==
    ASSUME CustodyInv, [Next]_vars
    PROVE  AcceptedIsKept'
<1> SUFFICES ASSUME wpc' \in {"drainStore", "persistStore"}, step' = "idle", ret'
             PROVE  Range(batch') \subseteq OnDisk' \cup Settled'
    BY DEF AcceptedIsKept
<1>1. CASE step # "idle"
  <2>1. StoreAccept /\ UNCHANGED batch
      BY <1>1, StoreUndisturbed DEF InsideStore, StoreInside, StoreWrite,
         StoreWriteFails, Enforce, StoreReject, ProcessDies, ObjectGone,
         Vanish, writerVars, storeVars
  <2>2. Range(batch) \subseteq Content(cur.path) \cup dropped
      BY <2>1 DEF StoreAccept, CustodyInv, StoreInv, NewestSurvivesEviction,
         StoresItsBatch, Content
  <2>3. Content(cur.path) \subseteq OnDisk
      BY DEF OnDisk, Content, Exists
  <2>4. UNCHANGED <<files, dropped>>
      BY <2>1 DEF StoreAccept
  <2> QED
      BY <2>1, <2>2, <2>3, <2>4 DEF OnDisk, Content, Exists, Settled
<1>2. CASE step = "idle"
  <2>1. wpc \in {"drainStore", "persistStore"} /\ UNCHANGED <<ret, batch>>
    <3>1. CASE Worker
        BY <1>2, <3>1 DEF Worker, RetryDisk, FetchDisk, FetchUnreadable, SkipDisk,
           SettleDisk, DiskOk, DiskRefused, DiskRetryable, DrainTake, DrainEnd,
           DrainStored, Persisted, Stored, WakeUp, Lock, Park, Woken, TimedOut, TakeBatch,
           TestAgain, MemoryOk, MemoryRefused, MemoryRetryable, Persist, StoreOpen,
           StoreDisabled, InsideStore, StoreInside, StoreWrite, StoreWriteFails, Enforce,
           StoreReject, StoreAccept
    <3>2. CASE Producer
        BY <3>2 DEF Producer, Enqueue, EnqueueFull, ReportFull, storeVars, workerVars
    <3>3. CASE Owner
        BY <3>3 DEF Owner, Construct, StoreStart, Initialize, LoadEntry, LoadDone,
           StartWorker, Shutdown, NotifyAll, Join, ObjectGone, storeVars, workerVars,
           writerVars
    <3>4. CASE Environment
        BY <3>4 DEF Environment, ProcessDies, ObjectGone, Vanish, writerVars
    <3>5. CASE UNCHANGED vars
        BY <3>5 DEF vars, storeVars, writerVars
    <3> QED
        BY <3>1, <3>2, <3>3, <3>4, <3>5 DEF Next
  <2>2. Range(batch) \subseteq OnDisk \cup Settled
      BY <1>2, <2>1 DEF CustodyInv, AcceptedIsKept
  <2>3. ~StoreReject
      BY <1>2 DEF StoreReject
  <2> QED
      BY <2>1, <2>2, <2>3, DiskKept
<1> QED
    BY <1>1, <1>2

\* The worker exits only when the memory queue is empty and stays so.
LEMMA ExitsEmptyStep ==
    ASSUME CustodyInv, [Next]_vars
    PROVE  ExitsEmpty'
<1> SUFFICES ASSUME wpc' = "exited" PROVE q' = <<>> /\ stop'
    BY DEF ExitsEmpty
<1>1. CASE wpc \in {"lock", "waiting"} /\ TakeBatch
  <2>1. batch' = <<>> /\ stop'
      BY <1>1 DEF TakeBatch, objectVars
  <2> QED
      BY <1>1, <2>1, TakeFacts, WriterAssumption DEF TakeBatch, CustodyInv, WriterTypeOK
<1>2. CASE wpc = "exited"
  <2>1. q = <<>> /\ stop
      BY <1>2 DEF CustodyInv, ExitsEmpty
  <2>2. life # "live" /\ step = "idle"
      BY <1>2, <2>1 DEF CustodyInv, WriterTypeOK
  <2>3. CASE Worker
      BY <1>2, <2>2, <2>3 DEF Worker, RetryDisk, FetchDisk, FetchUnreadable, SkipDisk,
         SettleDisk, DiskOk, DiskRefused, DiskRetryable, DrainTake, DrainEnd, DrainStored,
         Persisted, Stored, WakeUp, Lock, Park, Woken, TimedOut, MemoryOk, MemoryRefused,
         MemoryRetryable, Persist, InsideStore, Running
  <2>4. CASE Producer
      BY <2>1, <2>2, <2>4 DEF Producer, Enqueue, EnqueueFull, ReportFull, objectVars
  <2>5. CASE Owner
      BY <1>2, <2>1, <2>5 DEF Owner, Construct, StartWorker, Shutdown, NotifyAll, Join,
         ObjectGone, writerVars, producerVars
  <2>6. CASE Environment
      BY <2>1, <2>6 DEF Environment, ProcessDies, ObjectGone, writerVars
  <2>7. CASE UNCHANGED vars
      BY <2>1, <2>7 DEF vars, writerVars
  <2> QED
      BY <2>3, <2>4, <2>5, <2>6, <2>7 DEF Next
<1>3. wpc = "exited" \/ (wpc \in {"lock", "waiting"} /\ TakeBatch)
  <2>1. CASE Worker
      BY <2>1 DEF Worker, RetryDisk, FetchDisk, FetchUnreadable, SkipDisk, SettleDisk,
         DiskOk, DiskRefused, DiskRetryable, DrainTake, DrainEnd, DrainStored, Persisted,
         Stored, WakeUp, Lock, Park, Woken, TimedOut, TestAgain, MemoryOk, MemoryRefused,
         MemoryRetryable, Persist, InsideStore, writerVars
  <2>2. CASE Producer
      BY <2>2 DEF Producer, Enqueue, EnqueueFull, ReportFull, workerVars
  <2>3. CASE Owner
      BY <2>3 DEF Owner, Construct, StartWorker, Shutdown, NotifyAll, Join, ObjectGone,
         workerVars, writerVars
  <2>4. CASE Environment
      BY <2>4 DEF Environment, ProcessDies, ObjectGone, writerVars
  <2>5. CASE UNCHANGED vars
      BY <2>5 DEF vars, writerVars
  <2> QED
      BY <2>1, <2>2, <2>3, <2>4, <2>5 DEF Next
<1> QED
    BY <1>1, <1>2, <1>3

-----------------------------------------------------------------------------
LEMMA CustodyInit == Init => CustodyInv
<1> SUFFICES ASSUME Init PROVE CustodyInv
    OBVIOUS
<1>1. WriterTypeOK /\ StoreInv
    BY WriterTypeInit, InvInit DEF Init
<1>2. NoLineForgotten
    BY DEF Init, NoLineForgotten
<1> QED
    BY <1>1, <1>2 DEF Init, StoreInit, CustodyInv, FinishedIsSettled, StoresItsBatch,
       WritesToEmptyFile, AcceptedIsKept, ExitsEmpty

LEMMA CustodyStep == CustodyInv /\ [Next]_vars => CustodyInv'
<1> SUFFICES ASSUME CustodyInv, [Next]_vars PROVE CustodyInv'
    OBVIOUS
<1>1. WriterTypeOK'
    BY WriterTypeStep DEF CustodyInv
<1>2. StoreInv'
    BY WriterStoreStep, InvStep DEF CustodyInv
<1> QED
    BY <1>1, <1>2, NoLineForgottenStep, FinishedIsSettledStep, StoresItsBatchStep,
       WritesToEmptyFileStep, AcceptedIsKeptStep, ExitsEmptyStep DEF CustodyInv

\* The inductive invariant of the lines' custody holds whatever server, disk and
\* process do.
THEOREM CustodyInvariant == Spec => []CustodyInv
<1> QED
    BY CustodyInit, CustodyStep, PTL DEF Spec

\* A line that enqueue() accepted is in memory, on disk, with the server, or was
\* given up at a place where the code decides to, or by a crash.
THEOREM NothingIsForgotten == Spec => []NoLineForgotten
<1>1. CustodyInv => NoLineForgotten
    BY DEF CustodyInv
<1> QED
    BY <1>1, CustodyInvariant, PTL
=============================================================================
