--------------------------- MODULE DeliveryProofs ---------------------------
(***************************************************************************)
(* What the writer of InfluxWriter.tla promises about the order and the    *)
(* fate of lines, proved for every batch and queue size, every budget and  *)
(* every number of lines: the order of the disk queue, the truth of the    *)
(* gauges, one delivery of each line, nothing left behind on disk, the     *)
(* order of upload, and no loss in an outage.                              *)
(***************************************************************************)
EXTENDS RefinementProofs, AccountingProofs

-----------------------------------------------------------------------------
\* Order among lines, files and batches.

AllBefore(A, B) == \A x \in A, y \in B : x < y
Rising(s) == \A i, j \in DOMAIN s : i < j => s[i] < s[j]

\* The file p was named in an earlier millisecond than o, or earlier in the same one.
Stamp(p, o) == p[1] < o[1] \/ (p[1] = o[1] /\ p[2] < o[2])
Follows(p, o) == Stamp(p, o) \/ WidthChange(p, o)
InOrder(s) == \A i, j \in DOMAIN s : i < j => Follows(s[i], s[j])

\* The whole lines of a file.
Lines(p) == Content(p) \ {Torn}

\* Names that sort in the order of the strings sort in the order they were made in,
\* unless the sequence number has got wider in between.
LEMMA SortedFollows ==
    ASSUME NEW p, NEW o, PathLT(p, o)
    PROVE  Follows(p, o)
<1>1. p[1] < o[1] \/ (p[1] = o[1] /\ DecimalLT(p[2], o[2]))
    BY DEF PathLT
<1>2. CASE p[1] = o[1] /\ DecimalLT(p[2], o[2])
    BY <1>2 DEF DecimalLT, Follows, Stamp, WidthChange
<1> QED
    BY <1>1, <1>2 DEF Follows, Stamp

\* A file whose name follows all queued ones may be pushed.
LEMMA AppendInOrder ==
    ASSUME NEW S, NEW s \in Seq(S), NEW e \in S, InOrder(s),
           \A p \in Range(s) : Follows(p, e)
    PROVE  InOrder(Append(s, e))
<1>1. /\ DOMAIN s = 1 .. Len(s) /\ Len(s) \in Nat
      /\ DOMAIN Append(s, e) = 1 .. Len(s) + 1
      /\ \A i \in 1 .. Len(s) : Append(s, e)[i] = s[i]
      /\ Append(s, e)[Len(s) + 1] = e
    BY AppendFacts, LenProperties
<1> SUFFICES ASSUME NEW i \in DOMAIN Append(s, e), NEW j \in DOMAIN Append(s, e), i < j
             PROVE  Follows(Append(s, e)[i], Append(s, e)[j])
    BY DEF InOrder
<1>2. i \in DOMAIN s /\ Append(s, e)[i] = s[i] /\ s[i] \in Range(s)
    BY <1>1 DEF Range
<1>3. CASE j = Len(s) + 1
    BY <1>1, <1>2, <1>3
<1>4. CASE j # Len(s) + 1
  <2>1. j \in DOMAIN s /\ Append(s, e)[j] = s[j]
      BY <1>1, <1>4
  <2> QED
      BY <1>2, <2>1 DEF InOrder
<1> QED
    BY <1>3, <1>4

LEMMA TailInOrder ==
    ASSUME NEW S, NEW s \in Seq(S), s # <<>>, InOrder(s)
    PROVE  InOrder(Tail(s))
<1>1. /\ Len(s) \in Nat \ {0} /\ DOMAIN s = 1 .. Len(s)
      /\ DOMAIN Tail(s) = 1 .. Len(s) - 1
      /\ \A i \in 1 .. Len(s) - 1 : Tail(s)[i] = s[i + 1]
    BY HeadTailProperties, LenProperties, EmptySeq
<1> SUFFICES ASSUME NEW i \in DOMAIN Tail(s), NEW j \in DOMAIN Tail(s), i < j
             PROVE  Follows(Tail(s)[i], Tail(s)[j])
    BY DEF InOrder
<1>2. i + 1 \in DOMAIN s /\ j + 1 \in DOMAIN s /\ i + 1 < j + 1
    BY <1>1
<1> QED
    BY <1>1, <1>2 DEF InOrder

LEMMA FrontInOrder ==
    ASSUME NEW S, NEW s \in Seq(S), InOrder(s)
    PROVE  InOrder(Front(s))
<1>1. /\ DOMAIN Front(s) \subseteq DOMAIN s
      /\ \A i \in DOMAIN Front(s) : Front(s)[i] = s[i]
    BY FrontOnce
<1> QED
    BY <1>1 DEF InOrder

\* What the last element is to the rest.
LEMMA FrontRange ==
    ASSUME NEW S, NEW s \in Seq(S), s # <<>>
    PROVE  /\ Range(s) \subseteq Range(Front(s)) \cup {Last(s)}
           /\ IsInjective(s) => Range(Front(s)) \subseteq Range(s) \ {Last(s)}
<1>1. /\ Len(s) \in Nat \ {0} /\ DOMAIN s = 1 .. Len(s)
      /\ DOMAIN Front(s) = 1 .. Len(s) - 1
      /\ \A i \in 1 .. Len(s) - 1 : Front(s)[i] = s[i]
      /\ Last(s) = s[Len(s)]
    BY EmptySeq, LenProperties DEF Front, Last
<1>2. \A i \in 1 .. Len(s) : i \in 1 .. Len(s) - 1 \/ i = Len(s)
  <2>1. Len(s) \in Nat
      BY <1>1
  <2> QED
      BY <2>1
<1>3. Range(s) \subseteq Range(Front(s)) \cup {Last(s)}
    BY <1>1, <1>2 DEF Range
<1>4. ASSUME IsInjective(s) PROVE Range(Front(s)) \subseteq Range(s) \ {Last(s)}
  <2>1. \A i \in 1 .. Len(s) - 1 : s[i] # s[Len(s)] /\ i \in 1 .. Len(s)
      BY <1>1, <1>4 DEF IsInjective
  <2> QED
      BY <1>1, <2>1 DEF Range
<1> QED
    BY <1>3, <1>4

-----------------------------------------------------------------------------
\* The names in the queue.

\* The file being written is the newest, and the queue is in the order of the names'
\* making, as far as the string order of the names allows.
NamesInOrder ==
    /\ step = "write" =>
           \A p \in (DOMAIN files \cup Range(queue)) \ {cur.path} : Stamp(p, cur.path)
    /\ InOrder(queue)
    /\ \A p \in Range(queue), o \in unread : Follows(p, o)

\* Every name that is known when a new one is made was made before.
LEMMA NewestName ==
    ASSUME StoreInv, NEW lines \in Seq(Line) \ {<<>>}, StoreOpen(lines), NEW p \in Known
    PROVE  Stamp(p, NextPath(clock'))
<1>1. /\ clock \in Nat /\ clock' \in Nat /\ clock' >= clock /\ seqno \in Nat /\ mode = "on"
    BY StoreAssumption DEF StoreInv, StoreTypeOK, StoreOpen
<1>2. p \in Nat \X Nat
    BY RangeOfSeq DEF StoreInv, StoreTypeOK, Known, Path, Batch
<1>3. p[1] <= clock /\ (p[1] < clock \/ p[2] < seqno)
    BY <1>1 DEF StoreInv, NamesOld
<1> QED
    BY <1>1, <1>2, <1>3 DEF NextPath, Stamp

LEMMA EmptyInOrder == InOrder(<<>>) /\ Range(<<>>) = {}
    BY DEF InOrder, Range

\* drop_oldest() and mark_processed() take the front and leave the rest in order.
LEMMA DropKeepsOrder ==
    ASSUME StoreTypeOK, NamesInOrder, queue # <<>>, Unlink(Head(queue)), queue' = Tail(queue),
           unread' \subseteq unread, step' = "write" => UNCHANGED <<step, cur>>
    PROVE  NamesInOrder'
<1>1. queue \in Seq(Path)
    BY DEF StoreTypeOK
<1>2. InOrder(queue') /\ Range(queue') \subseteq Range(queue)
    BY <1>1, TailInOrder, TailOnce DEF NamesInOrder
<1>3. DOMAIN files' \subseteq DOMAIN files
    BY UnlinkFacts
<1> QED
    BY <1>2, <1>3 DEF NamesInOrder

\* store() pushes a name that follows all others, load_existing() pushes in sorted order.
LEMMA NamesInOrderStep == StoreInv /\ NamesInOrder /\ [StoreNext]_storeVars => NamesInOrder'
<1> SUFFICES ASSUME StoreInv, NamesInOrder, [StoreNext]_storeVars
             PROVE  NamesInOrder'
    OBVIOUS
<1>0. StoreTypeOK /\ queue \in Seq(Path)
    BY DEF StoreInv, StoreTypeOK
<1>1. CASE Initialize
    BY <1>0, <1>1, EmptyInOrder DEF Initialize, StoreTypeOK, NamesInOrder
<1>2. CASE LoadEntry
  <2>1. PICK p \in unread : /\ \A o \in unread \ {p} : PathLT(p, o)
                            /\ unread' = unread \ {p}
                            /\ queue' = Append(queue, p) \/ queue' = queue
      BY <1>2 DEF LoadEntry
  <2>2. p \in Path /\ step' = "idle"
      BY <1>0, <1>2 DEF StoreTypeOK, LoadEntry
  <2>3. CASE queue' = queue
      BY <2>1, <2>2, <2>3 DEF NamesInOrder
  <2>4. CASE queue' = Append(queue, p)
    <3>1. Range(queue') = Range(queue) \cup {p}
        BY <1>0, <2>2, <2>4, AppendOnce
    <3>2. InOrder(queue')
        BY <1>0, <2>2, <2>4, AppendInOrder DEF NamesInOrder
    <3>3. \A o \in unread' : Follows(p, o)
        BY <2>1, SortedFollows
    <3> QED
        BY <2>1, <2>2, <3>1, <3>2, <3>3 DEF NamesInOrder
  <2> QED
      BY <2>1, <2>3, <2>4
<1>3. CASE Destroy \/ Crash
    BY <1>3, EmptyInOrder DEF Destroy, Crash, Forget, NamesInOrder
<1>4. CASE Vanish
    BY <1>4 DEF Vanish, Restrict, NamesInOrder
<1>5. ASSUME NEW lines \in Seq(Line) \ {<<>>}, StoreOpen(lines)
      PROVE  NamesInOrder'
  <2>1. /\ UNCHANGED <<queue, unread>>
        /\ step' = "write" => cur'.path = NextPath(clock') /\ files' = With(NextPath(clock'), <<>>)
      BY <1>0, <1>5 DEF StoreOpen, StoreTypeOK
  <2>2. \A p \in DOMAIN files \cup Range(queue) : Stamp(p, NextPath(clock'))
      BY <1>5, NewestName DEF Known
  <2> QED
      BY <2>1, <2>2 DEF NamesInOrder, With
<1>6. CASE StoreWrite
  <2>1. cur.path \in Path /\ step = "write" /\ unread = {} /\ cur.path \notin Range(queue)
      BY <1>0, <1>6, BatchFacts DEF StoreWrite, StoreTypeOK, StoreInv, WritingFresh
  <2>2. queue' = Append(queue, cur.path) /\ UNCHANGED unread /\ step' = "enforce"
      BY <1>6 DEF StoreWrite
  <2>3. \A p \in Range(queue) : Follows(p, cur.path)
      BY <2>1 DEF NamesInOrder, Follows
  <2>4. InOrder(queue')
      BY <1>0, <2>1, <2>2, <2>3, AppendInOrder DEF NamesInOrder
  <2> QED
      BY <2>1, <2>2, <2>4 DEF NamesInOrder
<1>7. CASE StoreWriteFails \/ StoreAccept \/ StoreDisabled \/ NextBatch \/ LoadDone
    BY <1>0, <1>7 DEF StoreWriteFails, StoreAccept, StoreDisabled, NextBatch, LoadDone,
       NamesInOrder, StoreTypeOK
<1>8. CASE Enforce
  <2>1. queue # <<>>
      BY <1>8 DEF Enforce
  <2> QED
      BY <1>0, <1>8, <2>1, DropKeepsOrder DEF Enforce, DropOldest
<1>9. CASE StoreReject
  <2>1. InOrder(queue') /\ Range(queue') \subseteq Range(queue)
      BY <1>0, <1>9, FrontInOrder, FrontOnce DEF StoreReject, NamesInOrder
  <2> QED
      BY <1>9, <2>1 DEF StoreReject, NamesInOrder
<1>10. CASE NextUnreadable
    BY <1>0, <1>10, DropKeepsOrder DEF NextUnreadable, DropOldest
<1>11. CASE MarkProcessed
  <2>1. CASE UNCHANGED <<files, queue, bytes>>
      BY <1>11, <2>1 DEF MarkProcessed, NamesInOrder
  <2>2. CASE queue # <<>> /\ Head(queue) = pending.path
      BY <1>0, <1>11, <2>2, DropKeepsOrder DEF MarkProcessed
  <2> QED
      BY <1>11, <2>1, <2>2 DEF MarkProcessed
<1>12. CASE UNCHANGED storeVars
    BY <1>12 DEF storeVars, NamesInOrder
<1> QED
    BY <1>1, <1>2, <1>3, <1>4, <1>5, <1>6, <1>7, <1>8, <1>9, <1>10, <1>11, <1>12
    DEF StoreNext, StoreStart, StoreInside

-----------------------------------------------------------------------------
\* What a step does to the lines in memory and to the directory.

Storing == wpc \in {"drainStore", "persistStore"}

\* The worker takes the oldest lines of a queue in order.
LEMMA TakeSplits ==
    ASSUME NEW S, q \in Seq(S), NEW n \in Nat \ {0}, Take(n), Rising(q)
    PROVE  /\ Rising(q') /\ Rising(batch') /\ AllBefore(Range(batch'), Range(q'))
           /\ Range(batch') \subseteq Range(q) /\ Range(q') \subseteq Range(q)
<1> DEFINE k == IF Len(q) < n THEN Len(q) ELSE n
<1>1. /\ batch' = SubSeq(q, 1, k)
      /\ q' = SubSeq(q, k + 1, Len(q))
    BY DEF Take
<1>2. Len(q) \in Nat /\ k \in 0 .. Len(q) /\ DOMAIN q = 1 .. Len(q)
    BY LenProperties
<1> HIDE DEF k
<1>3. DOMAIN batch' = 1 .. k /\ \A i \in 1 .. k : batch'[i] = q[i]
    BY <1>1, <1>2
<1>4. /\ DOMAIN q' = 1 .. Len(q) - k
      /\ \A i \in 1 .. Len(q) - k : q'[i] = q[i + k]
    BY <1>1, <1>2
<1>5. AllBefore(Range(batch'), Range(q'))
  <2> SUFFICES ASSUME NEW i \in DOMAIN batch', NEW j \in DOMAIN q'
               PROVE  batch'[i] < q'[j]
      BY DEF AllBefore, Range
  <2>1. i \in DOMAIN q /\ j + k \in DOMAIN q /\ i < j + k
      BY <1>2, <1>3, <1>4
  <2> QED
      BY <1>3, <1>4, <2>1 DEF Rising
<1>6. Rising(batch')
    BY <1>2, <1>3 DEF Rising
<1>7. Rising(q')
  <2> SUFFICES ASSUME NEW i \in DOMAIN q', NEW j \in DOMAIN q', i < j
               PROVE  q'[i] < q'[j]
      BY DEF Rising
  <2>1. i + k \in DOMAIN q /\ j + k \in DOMAIN q /\ i + k < j + k
      BY <1>2, <1>4
  <2> QED
      BY <1>4, <2>1 DEF Rising
<1> QED
    BY <1>5, <1>6, <1>7, TakeAdds

\* Either a batch is taken from the queue, or the worker keeps the one it has, or it
\* lets it go; the queue changes in an enqueue(), when a batch is taken, and when the
\* object goes.
Taken ==
    /\ batch = <<>> /\ ~Storing
    /\ \E n \in Nat \ {0} : Take(n)
    /\ UNCHANGED <<produced, pending>>
    /\ files' = files \/ \E p : files' = With(p, <<>>)

Kept == batch' = batch /\ (Storing /\ batch # <<>> => Storing') /\ UNCHANGED <<q, produced>>

LetGo == batch' = <<>> /\ q' \in {q, <<>>} /\ UNCHANGED produced

\* What a step may do to the lines in memory, whatever else it does.
LEMMA MemorySteps ==
    ASSUME CustodyInv, [Next]_vars
    PROVE  Enqueue \/ Taken \/ Kept \/ LetGo
<1>t. /\ batch # <<>> <=> wpc \in {"drainStore", "post", "flush", "persist", "persistStore"}
      /\ step # "idle" => Storing
    BY DEF CustodyInv, WriterTypeOK, Storing
<1>1. CASE wpc \in {"lock", "waiting"} /\ TakeBatch
  <2>1. UNCHANGED <<produced, pending, files>> /\ Take(MaxBatch) /\ MaxBatch \in Nat \ {0}
      BY <1>1, WriterAssumption DEF TakeBatch, storeVars
  <2> QED
      BY <1>t, <1>1, <2>1 DEF Taken, Storing
<1>2. CASE DrainTake
  <2>1. /\ wpc = "drain" /\ UNCHANGED <<produced, pending>> /\ Take(MaxBatch)
        /\ MaxBatch \in Nat \ {0}
        /\ files' = files \/ \E p : files' = With(p, <<>>)
      BY <1>2, WriterAssumption DEF DrainTake, StoreOpen
  <2> QED
      BY <1>t, <2>1 DEF Taken, Storing
<1>3. CASE MemoryOk \/ MemoryRefused \/ DrainStored \/ Persisted
    BY <1>3 DEF MemoryOk, MemoryRefused, DrainStored, Persisted, Stored, producerVars, LetGo
<1>4. CASE Join \/ ProcessDies
    BY <1>4 DEF Join, ProcessDies, ObjectGone, LetGo
<1>5. CASE UNCHANGED <<q, batch, produced>> /\ (Storing /\ batch # <<>> => Storing')
    BY <1>5 DEF Kept
<1>6. CASE Worker
  <2>1. CASE InsideStore
      BY <1>5, <2>1 DEF InsideStore, writerVars, Storing
  <2>2. CASE RetryDisk \/ FetchDisk \/ FetchUnreadable \/ SkipDisk \/ SettleDisk \/ DiskOk
             \/ DiskRefused \/ DiskRetryable \/ DrainEnd \/ WakeUp \/ Park
      BY <1>5, <2>2 DEF RetryDisk, FetchDisk, FetchUnreadable, SkipDisk, SettleDisk,
         DiskOk, DiskRefused, DiskRetryable, DrainEnd, WakeUp, Park, producerVars, Storing
  <2>3. CASE Lock \/ Woken \/ TimedOut
    <3>1. wpc \in {"lock", "waiting"} /\ (TakeBatch \/ TestAgain)
        BY <2>3 DEF Lock, Woken, TimedOut
    <3>2. CASE TestAgain
        BY <1>5, <3>1, <3>2 DEF TestAgain, producerVars, Storing
    <3> QED
        BY <1>1, <3>1, <3>2
  <2>4. CASE MemoryRetryable \/ Persist
      BY <1>5, <2>4 DEF MemoryRetryable, Persist, producerVars, Storing
  <2> QED
      BY <1>2, <1>3, <1>6, <2>1, <2>2, <2>3, <2>4 DEF Worker
<1>7. CASE Producer
    BY <1>5, <1>7 DEF Producer, EnqueueFull, ReportFull, workerVars, Storing
<1>8. CASE Owner
    BY <1>4, <1>5, <1>8 DEF Owner, Construct, StartWorker, Shutdown, NotifyAll,
       producerVars, workerVars, writerVars, Storing, CustodyInv, WriterTypeOK
<1>9. CASE Environment
    BY <1>4, <1>5, <1>9 DEF Environment, writerVars, Storing
<1>10. CASE UNCHANGED vars
    BY <1>5, <1>10 DEF vars, writerVars, Storing
<1> QED
    BY <1>6, <1>7, <1>8, <1>9, <1>10 DEF Next

\* The directory loses files, gets an empty one, or a file is written.
FilesShrink ==
    /\ DOMAIN files' \subseteq DOMAIN files
    /\ \A p \in DOMAIN files' : files'[p] = files[p]
    /\ step' = "write" => UNCHANGED <<step, cur, batch>>

FileOpened ==
    /\ step' = "write" /\ batch' # <<>> /\ cur'.lines = batch' /\ Storing'
    /\ files' = With(cur'.path, <<>>)
    /\ \A p \in Known : Stamp(p, cur'.path)
    /\ Taken \/ (Kept /\ ~Storing)

FileFilled ==
    /\ step = "write" /\ step' # "write" /\ Exists(cur.path)
    /\ \/ files' = With(cur.path, batch)
       \/ Tears /\ \E part \in Fragments(batch) : files' = With(cur.path, part)

LEMMA UnlinkShrinks ==
    ASSUME NEW p, Unlink(p), step' # "write" \/ UNCHANGED <<step, cur, batch>>
    PROVE  FilesShrink
    BY UnlinkFacts DEF FilesShrink

\* store() opens one file, for the batch in the worker's hands.
LEMMA OpenSteps ==
    ASSUME CustodyInv, [Next]_vars, step = "idle", step' = "write"
    PROVE  FileOpened
<1>0. CustodyInv'
    BY CustodyStep
<1>1. step' # "idle" /\ batch' # <<>> /\ cur'.lines = batch' /\ Storing' /\ StoreInv
    BY <1>0 DEF CustodyInv, WriterTypeOK, StoresItsBatch, Storing
<1>2. StoreOpen(batch')
  <2>1. CASE DrainTake
      BY <2>1 DEF DrainTake
  <2>2. CASE Persist /\ StoreOpen(batch)
    <3>1. batch' = batch
        BY <2>2 DEF Persist
    <3> QED
        BY <2>2, <3>1
  <2> QED
      BY <1>1, <2>1, <2>2, StoreBegins
<1>3. /\ cur'.path = NextPath(clock') /\ files' = With(NextPath(clock'), <<>>)
    BY <1>2 DEF StoreOpen
<1>4. batch' \in Seq(Line) \ {<<>>}
    BY <1>0, <1>1, LinesGrow DEF CustodyInv, WriterTypeOK
<1>5. \A p \in Known : Stamp(p, NextPath(clock'))
    BY <1>1, <1>2, <1>4, NewestName
<1>6. Taken \/ (Kept /\ ~Storing)
  <2>1. CASE DrainTake
    <3>1. /\ wpc = "drain" /\ UNCHANGED <<produced, pending>> /\ Take(MaxBatch)
          /\ MaxBatch \in Nat \ {0}
        BY <2>1, WriterAssumption DEF DrainTake, StoreOpen
    <3> QED
        BY <1>3, <3>1 DEF Taken, Storing, CustodyInv, WriterTypeOK
  <2>2. CASE Persist
      BY <2>2 DEF Persist, Kept, Storing, producerVars
  <2> QED
      BY <1>1, <2>1, <2>2, StoreBegins
<1> QED
    BY <1>1, <1>3, <1>5, <1>6 DEF FileOpened

\* What a step may do to the directory, whatever else it does.
LEMMA FileSteps ==
    ASSUME CustodyInv, [Next]_vars
    PROVE  FilesShrink \/ FileOpened \/ FileFilled
<1>t. StoreTypeOK /\ (step # "idle" => cur.lines = batch)
    BY DEF CustodyInv, StoreInv, StoresItsBatch
<1>0. CASE UNCHANGED <<files, step, cur, batch>> \/ (UNCHANGED files /\ step' # "write")
    BY <1>0 DEF FilesShrink
<1>1. CASE step' = "write" /\ step = "idle"
    BY <1>1, OpenSteps
<1>2. CASE InsideStore
  <2>1. CASE StoreWrite
      BY <1>t, <2>1 DEF StoreWrite, FileFilled
  <2>2. CASE StoreWriteFails
    <3>1. CASE Unlink(cur.path)
        BY <2>2, <3>1, UnlinkShrinks DEF StoreWriteFails
    <3>2. CASE /\ {"io", "rmfail"} \subseteq Faults /\ Exists(cur.path)
               /\ \E part \in Fragments(cur.lines) \cup {cur.lines} :
                     files' = With(cur.path, part)
        BY <1>t, <2>2, <3>2 DEF StoreWriteFails, FileFilled, Tears
    <3> QED
        BY <1>0, <2>2, <3>1, <3>2 DEF StoreWriteFails
  <2>3. CASE Enforce \/ StoreReject
      BY <2>3, UnlinkShrinks DEF Enforce, DropOldest, StoreReject
  <2>4. CASE StoreAccept
      BY <1>0, <2>4 DEF StoreAccept
  <2> QED
      BY <1>2, <2>1, <2>2, <2>3, <2>4 DEF InsideStore, StoreInside
<1>3. CASE SettleDisk
    BY <1>0, <1>3, UnlinkShrinks DEF SettleDisk, MarkProcessed
<1>4. CASE DrainTake \/ Persist
  <2>1. CASE step' # "write" /\ step = "idle"
    <3>1. UNCHANGED files
        BY <1>4, <2>1 DEF DrainTake, Persist, StoreOpen, StoreDisabled
    <3> QED
        BY <1>0, <2>1, <3>1
  <2>2. step = "idle"
      BY <1>4 DEF DrainTake, Persist, CustodyInv, WriterTypeOK
  <2> QED
      BY <1>1, <2>1, <2>2
<1>5. CASE FetchUnreadable
    BY <1>5, UnlinkShrinks DEF FetchUnreadable, NextUnreadable, DropOldest
<1>6. CASE Join
    BY <1>0, <1>6 DEF Join, Destroy, Forget
<1>7. CASE ProcessDies
  <2>1. CASE UNCHANGED files
      BY <1>0, <1>7, <2>1 DEF ProcessDies, Crash, Forget
  <2>2. CASE /\ step = "write" /\ Exists(cur.path)
             /\ \E part \in Fragments(cur.lines) \cup {cur.lines} :
                   files' = With(cur.path, part)
      BY <1>t, <1>7, <2>2 DEF ProcessDies, Crash, Forget, FileFilled, Tears
  <2> QED
      BY <1>7, <2>1, <2>2 DEF ProcessDies, Crash
<1>8. CASE Vanish /\ UNCHANGED writerVars
    BY <1>8 DEF Vanish, Restrict, FilesShrink, writerVars
<1>9. CASE UNCHANGED <<files, dropped>>
  <2>1. CASE step = "idle"
      BY <1>0, <1>1, <1>9, <2>1
  <2>2. CASE step # "idle"
    <3>1. CASE UNCHANGED <<storeVars, wpc, batch>>
        BY <1>0, <3>1 DEF storeVars
    <3> QED
        BY <1>2, <1>7, <1>8, <2>2, <3>1, StoreUndisturbed
  <2> QED
      BY <2>1, <2>2
<1> QED
    BY <1>2, <1>3, <1>4, <1>5, <1>6, <1>7, <1>8, <1>9, DiskSteps

-----------------------------------------------------------------------------
\* A file that was cut short.

\* A write that is cut short inside a line leaves half of it at the end of the file, after
\* whole lines of the batch.
LEMMA TornIsLast ==
    ASSUME NEW lines \in Seq(Line), Torn \notin Range(lines),
           NEW part \in Fragments(lines) \cup {lines}, Torn \in Range(part)
    PROVE  /\ Last(part) = Torn /\ Torn \notin Range(Front(part))
           /\ Range(part) \ {Torn} \subseteq Range(lines)
<1>1. DOMAIN lines = 1 .. Len(lines) /\ Len(lines) \in Nat
    BY LenProperties
<1>2. PICK k \in 0 .. Len(lines) - 1 :
          part = SubSeq(lines, 1, k) \/ part = Append(SubSeq(lines, 1, k), Torn)
  <2>1. part # lines
      OBVIOUS
  <2> QED
      BY <2>1 DEF Fragments
<1> DEFINE whole == SubSeq(lines, 1, k)
<1>3. /\ whole \in Seq(Line) /\ Len(whole) = k /\ DOMAIN whole = 1 .. k
      /\ \A i \in 1 .. k : whole[i] = lines[i] /\ i \in DOMAIN lines
    BY <1>1, <1>2
<1>4. Range(whole) \subseteq Range(lines)
    BY <1>3 DEF Range
<1>5. part = Append(whole, Torn)
  <2>1. part # whole
      BY <1>4
  <2> QED
      BY <1>2, <2>1
<1>6. /\ part \in Seq(Line) /\ Len(part) = k + 1 /\ DOMAIN part = 1 .. k + 1
      /\ part[k + 1] = Torn /\ \A i \in 1 .. k : part[i] = whole[i]
    BY <1>2, <1>3, <1>5, AppendFacts, LenProperties DEF Line, Torn
<1>7. Last(part) = Torn
    BY <1>6 DEF Last
<1>8. Torn \notin Range(Front(part))
  <2>1. DOMAIN Front(part) = 1 .. k /\ \A i \in 1 .. k : Front(part)[i] = whole[i]
      BY <1>2, <1>6 DEF Front
  <2> QED
      BY <1>3, <1>4, <2>1 DEF Range
<1>9. Range(part) \subseteq Range(whole) \cup {Torn}
  <2> SUFFICES ASSUME NEW i \in 1 .. k + 1 PROVE part[i] \in Range(whole) \cup {Torn}
      BY <1>6 DEF Range
  <2>1. i = k + 1 \/ i \in 1 .. k
      BY <1>2
  <2> QED
      BY <1>3, <1>6, <2>1 DEF Range
<1> QED
    BY <1>4, <1>7, <1>8, <1>9

\* What the writer has written off stays so, and a store() that gives up its write adds
\* the batch to it.
LEMMA WrittenOffGrows ==
    ASSUME CustodyInv, [Next]_vars
    PROVE  /\ lost \cup JustRejected \subseteq lost' \cup JustRejected'
           /\ step = "write" /\ step' # "write" =>
                StoreWrite \/ Range(batch) \subseteq lost' \cup JustRejected'
<1>t. /\ step # "idle" => Storing
      /\ wpc = "off" <=> life = "off"
      /\ lost \subseteq lost'
    BY HistoryGrows DEF CustodyInv, WriterTypeOK, Storing
<1>1. ASSUME JustRejected # {} PROVE JustRejected \subseteq lost' \cup JustRejected'
  <2>0. Storing /\ step = "idle" /\ ~ret /\ JustRejected = Range(batch)
      BY <1>1 DEF JustRejected, Storing
  <2>1. CASE Worker
    <3>1. DrainStored \/ Persisted
        BY <2>0, <2>1 DEF Worker, RetryDisk, FetchDisk, FetchUnreadable, SkipDisk,
           SettleDisk, DiskOk, DiskRefused, DiskRetryable, DrainTake, DrainEnd, WakeUp,
           InsideStore, StoreInside, StoreWrite, StoreWriteFails, Enforce, StoreReject,
           StoreAccept, Lock, Park, Woken, TimedOut, MemoryOk, MemoryRefused,
           MemoryRetryable, Persist, Storing
    <3> QED
        BY <2>0, <3>1 DEF DrainStored, Persisted, Stored
  <2>2. CASE Producer
      BY <2>0, <2>2 DEF Producer, Enqueue, EnqueueFull, ReportFull, workerVars, storeVars,
         JustRejected, Storing
  <2>3. CASE Owner
      BY <1>t, <2>0, <2>3 DEF Owner, Construct, StartWorker, Shutdown, NotifyAll, Join,
         workerVars, storeVars, writerVars, JustRejected, Storing
  <2>4. CASE Environment
      BY <2>0, <2>4 DEF Environment, ProcessDies, Vanish, writerVars, workerVars,
         JustRejected, Storing
  <2>5. CASE UNCHANGED vars
      BY <2>0, <2>5 DEF vars, writerVars, workerVars, storeVars, JustRejected, Storing
  <2> QED
      BY <2>1, <2>2, <2>3, <2>4, <2>5 DEF Next
<1>2. ASSUME step = "write", step' # "write", ~StoreWrite
      PROVE  Range(batch) \subseteq lost' \cup JustRejected'
  <2>1. CASE InsideStore
    <3>1. StoreWriteFails /\ UNCHANGED <<wpc, batch>> /\ Storing
        BY <1>t, <1>2, <2>1 DEF InsideStore, StoreInside, Enforce, StoreReject, StoreAccept,
           writerVars, workerVars
    <3> QED
        BY <3>1 DEF StoreWriteFails, JustRejected, Storing
  <2>2. CASE ProcessDies
      BY <2>2 DEF ProcessDies
  <2> QED
      BY <1>2, <2>1, <2>2, StoreUndisturbed DEF Vanish, storeVars
<1> QED
    BY <1>t, <1>1, <1>2

LEMMA TornFilesStep ==
    CustodyInv /\ TornFilesWrittenOff /\ [Next]_vars => TornFilesWrittenOff'
<1> SUFFICES ASSUME CustodyInv, TornFilesWrittenOff, [Next]_vars,
                    NEW p \in DOMAIN files', Torn \in Content(p)'
             PROVE  /\ Last(files'[p]) = Torn /\ Torn \notin Range(Front(files'[p]))
                    /\ Content(p)' \ {Torn} \subseteq lost' \cup JustRejected'
    BY DEF TornFilesWrittenOff
<1>1. Content(p)' = Range(files'[p])
    BY DEF Content, Exists
<1>2. CASE p \in DOMAIN files /\ files'[p] = files[p]
    BY <1>1, <1>2, WrittenOffGrows DEF TornFilesWrittenOff, Content, Exists
<1>3. CASE FilesShrink
    BY <1>2, <1>3 DEF FilesShrink
<1>4. CASE FileOpened
  <2>1. files' = With(cur'.path, <<>>) /\ Range(<<>>) = {}
      BY <1>4 DEF FileOpened, Range
  <2>2. p # cur'.path
      BY <1>1, <2>1 DEF With
  <2> QED
      BY <1>2, <2>1, <2>2 DEF With
<1>5. CASE FileFilled
  <2>1. CASE p # cur.path
      BY <1>2, <1>5, <2>1 DEF FileFilled, With
  <2>2. CASE p = cur.path
    <3>1. files'[p] \in Fragments(batch) \cup {batch}
        BY <1>5, <2>2 DEF FileFilled, With
    <3>2. batch \in Seq(Line) /\ Torn \notin Range(batch)
        BY MemoryWhole, LinesGrow DEF CustodyInv, WriterTypeOK
    <3>3. /\ Last(files'[p]) = Torn /\ Torn \notin Range(Front(files'[p]))
          /\ Range(files'[p]) \ {Torn} \subseteq Range(batch)
        BY <1>1, <3>1, <3>2, TornIsLast
    <3>4. ~StoreWrite
      <4>1. StoreWrite => files'[p] = cur.lines /\ cur.lines = batch
          BY <2>2 DEF StoreWrite, With, CustodyInv, StoresItsBatch
      <4> QED
          BY <1>1, <3>2, <4>1
    <3> QED
        BY <1>1, <1>5, <3>3, <3>4, WrittenOffGrows DEF FileFilled
  <2> QED
      BY <2>1, <2>2
<1> QED
    BY <1>3, <1>4, <1>5, FileSteps

\* Whatever fails, and over any crashes and restarts: half a line in a file is the last of
\* it, and no line that the writer still answers for shares its file.
THEOREM TornFilesAreWrittenOff == Spec => []TornFilesWrittenOff
<1>1. Init => TornFilesWrittenOff
    BY DEF Init, StoreInit, TornFilesWrittenOff
<1> QED
    BY <1>1, CustodyInit, CustodyStep, TornFilesStep, PTL DEF Spec

-----------------------------------------------------------------------------
\* Lines are handed on in the order they were produced in.

\* Lines in memory are in order and younger than all that is on disk; the worker's batch
\* is older than the queue.
MemoryOrder ==
    /\ Rising(q) /\ Rising(batch)
    /\ AllBefore(Range(batch), Range(q))
    /\ AllBefore(OnDisk \ {Torn}, Range(q))

\* A file is older than the batch in the worker's hands, unless it is being filled or has
\* just been filled with it.
DiskBeforeBatch ==
    \A p \in DOMAIN files : \/ AllBefore(Lines(p), Range(batch))
                            \/ Storing /\ Lines(p) \subseteq Range(batch)

\* The batch being written is younger than all other files.
WriteYoungest ==
    step = "write" =>
        \A p \in DOMAIN files \ {cur.path} : AllBefore(Lines(p), Range(batch))

\* The files hold lines in the order of the files' names.
AgeOrder == \A p, o \in DOMAIN files : Stamp(p, o) => AllBefore(Lines(p), Lines(o))

\* The batch that waits for another attempt is older than all lines in memory.
PendingBefore == AllBefore(Range(pending.lines) \ {Torn}, Range(batch) \cup Range(q))

OrderInv ==
    /\ LedgerInv
    /\ NamesInOrder
    /\ MemoryOrder
    /\ DiskBeforeBatch
    /\ WriteYoungest
    /\ AgeOrder
    /\ PendingBefore

\* The types the proofs about order rest on.
LEMMA OrderTypes ==
    ASSUME LedgerInv
    PROVE  /\ q \in Seq(1 .. produced) /\ batch \in Seq(1 .. produced) /\ produced \in Nat
           /\ Range(q) \subseteq 1 .. produced /\ Range(batch) \subseteq 1 .. produced
           /\ OnDisk \ {Torn} \subseteq 1 .. produced
           /\ CustodyInv /\ StoreInv /\ StoreTypeOK
<1>1. q \in Seq(1 .. produced) /\ batch \in Seq(1 .. produced) /\ produced \in Nat
    BY WriterAssumption DEF LedgerInv, CustodyInv, WriterTypeOK
<1>2. OnDisk \subseteq 0 .. produced
    BY DEF LedgerInv, LinesKnown
<1>3. OnDisk \ {Torn} \subseteq 1 .. produced
    BY <1>1, <1>2 DEF Torn
<1> QED
    BY <1>1, <1>3, RangeOfSeq DEF LedgerInv, CustodyInv, StoreInv

\* enqueue() numbers its line above all others.
LEMMA EnqueueOrder ==
    ASSUME OrderInv, Enqueue
    PROVE  MemoryOrder'
<1>0. /\ q \in Seq(1 .. produced) /\ produced \in Nat
      /\ Range(q) \subseteq 1 .. produced /\ Range(batch) \subseteq 1 .. produced
      /\ OnDisk \ {Torn} \subseteq 1 .. produced /\ CustodyInv
    BY OrderTypes DEF OrderInv
<1>1. /\ produced' = produced + 1 /\ q' = Append(q, produced + 1)
      /\ Range(q') = Range(q) \cup {produced + 1} /\ UNCHANGED <<batch, files>>
    BY <1>0, EnqueueAdds DEF Enqueue, storeVars
<1>2. /\ DOMAIN q = 1 .. Len(q) /\ Len(q) \in Nat
      /\ DOMAIN q' = 1 .. Len(q) + 1
      /\ \A i \in 1 .. Len(q) : q'[i] = q[i] /\ q[i] \in 1 .. produced
      /\ q'[Len(q) + 1] = produced + 1
  <2>1. q \in Seq(Nat) /\ produced + 1 \in Nat
      BY <1>0, LinesGrow DEF Line
  <2> QED
      BY <1>0, <1>1, <2>1, AppendFacts, LenProperties
<1>3. Rising(q')
  <2> SUFFICES ASSUME NEW i \in DOMAIN q', NEW j \in DOMAIN q', i < j
               PROVE  q'[i] < q'[j]
      BY DEF Rising
  <2>1. i \in DOMAIN q /\ q'[i] = q[i] /\ q[i] \in 1 .. produced
      BY <1>2
  <2>2. CASE j = Len(q) + 1
      BY <1>0, <1>2, <2>1, <2>2
  <2>3. CASE j # Len(q) + 1
    <3>1. j \in DOMAIN q /\ q'[j] = q[j]
        BY <1>2, <2>3
    <3> QED
        BY <2>1, <3>1 DEF OrderInv, MemoryOrder, Rising
  <2> QED
      BY <2>2, <2>3
<1>4. UNCHANGED <<OnDisk, batch>>
    BY <1>1 DEF OnDisk, Content, Exists
<1>5. AllBefore(Range(batch), Range(q')) /\ AllBefore(OnDisk \ {Torn}, Range(q'))
  <2>1. \A x \in 1 .. produced : x < produced + 1
      BY <1>0
  <2> QED
      BY <1>0, <1>1, <2>1 DEF OrderInv, MemoryOrder, AllBefore
<1> QED
    BY <1>3, <1>4, <1>5 DEF OrderInv, MemoryOrder

LEMMA MemoryOrderStep ==
    ASSUME OrderInv, [Next]_vars
    PROVE  MemoryOrder'
<1>0. /\ q \in Seq(1 .. produced) /\ CustodyInv
    BY OrderTypes DEF OrderInv
<1>1. OnDisk' \ {Torn} \subseteq (OnDisk \ {Torn}) \cup Range(batch)
    BY <1>0, DiskAdds
<1>2. Range(<<>>) = {} /\ Rising(<<>>)
    BY DEF Range, Rising
<1>3. CASE Enqueue
    BY <1>3, EnqueueOrder
<1>4. CASE Taken
  <2>1. /\ Rising(q') /\ Rising(batch') /\ AllBefore(Range(batch'), Range(q'))
        /\ Range(q') \subseteq Range(q) /\ batch = <<>>
      BY <1>0, <1>4, TakeSplits DEF Taken, OrderInv, MemoryOrder
  <2> QED
      BY <1>1, <1>2, <2>1 DEF OrderInv, MemoryOrder, AllBefore
<1>5. CASE Kept
    BY <1>1, <1>5 DEF Kept, OrderInv, MemoryOrder, AllBefore
<1>6. CASE LetGo
    BY <1>1, <1>2, <1>6 DEF LetGo, OrderInv, MemoryOrder, AllBefore
<1> QED
    BY <1>0, <1>3, <1>4, <1>5, <1>6, MemorySteps

\* What the files of the next state hold.
LEMMA LinesAfter ==
    ASSUME CustodyInv, NEW p \in DOMAIN files'
    PROVE  /\ FilesShrink => p \in DOMAIN files /\ Lines(p)' = Lines(p)
           /\ FileOpened => \/ p = cur'.path /\ Lines(p)' = {}
                            \/ p # cur'.path /\ p \in DOMAIN files /\ Lines(p)' = Lines(p)
           /\ FileFilled => \/ p = cur.path /\ Lines(p)' \subseteq Range(batch)
                            \/ p # cur.path /\ p \in DOMAIN files /\ Lines(p)' = Lines(p)
<1>1. Range(<<>>) = {}
    BY DEF Range
<1>2. \A part \in Fragments(batch) : Range(part) \subseteq Range(batch) \cup {Torn}
    BY LinesGrow, FragmentAdds DEF CustodyInv, WriterTypeOK
<1>4. FileOpened => \/ p = cur'.path /\ Lines(p)' = {}
                    \/ p # cur'.path /\ p \in DOMAIN files /\ Lines(p)' = Lines(p)
    BY <1>1 DEF FileOpened, With, Lines, Content, Exists
<1>5. ASSUME FileFilled
      PROVE  \/ p = cur.path /\ Lines(p)' \subseteq Range(batch)
             \/ p # cur.path /\ p \in DOMAIN files /\ Lines(p)' = Lines(p)
  <2>1. PICK part : /\ files' = With(cur.path, part)
                    /\ Range(part) \subseteq Range(batch) \cup {Torn}
      BY <1>2, <1>5 DEF FileFilled
  <2> QED
      BY <2>1 DEF With, Lines, Content, Exists
<1>6. FilesShrink => p \in DOMAIN files /\ Lines(p)' = Lines(p)
    BY DEF FilesShrink, Lines, Content, Exists
<1> QED
    BY <1>4, <1>5, <1>6

LEMMA LinesOnDisk ==
    ASSUME NEW p \in DOMAIN files
    PROVE  Lines(p) \subseteq OnDisk \ {Torn}
    BY DEF Lines, OnDisk

\* The worker persists the oldest lines it has in memory.
LEMMA DiskBeforeBatchStep ==
    ASSUME OrderInv, [Next]_vars
    PROVE  DiskBeforeBatch'
<1>0. CustodyInv /\ q \in Seq(1 .. produced)
    BY OrderTypes DEF OrderInv
<1> SUFFICES ASSUME NEW p \in DOMAIN files'
             PROVE  \/ AllBefore(Lines(p)', Range(batch'))
                    \/ Storing' /\ Lines(p)' \subseteq Range(batch')
    BY DEF DiskBeforeBatch
<1>1. CASE batch' = <<>>
  <2>1. Range(batch') = {}
      BY <1>1 DEF Range
  <2> QED
      BY <2>1 DEF AllBefore
<1>2. CASE Taken
  <2>1. Range(batch') \subseteq Range(q)
      BY <1>0, <1>2, TakeAdds DEF Taken
  <2>2. Lines(p)' \subseteq OnDisk \ {Torn}
    <3>1. Range(<<>>) = {}
        BY DEF Range
    <3> QED
        BY <1>2, <3>1 DEF Taken, With, Lines, OnDisk, Content, Exists
  <2> QED
      BY <2>1, <2>2 DEF OrderInv, MemoryOrder, AllBefore
<1>3. CASE Kept /\ batch' # <<>>
  <2>1. batch' = batch /\ (Storing => Storing')
      BY <1>3 DEF Kept
  <2>2. CASE p \in DOMAIN files /\ Lines(p)' = Lines(p)
      BY <2>1, <2>2 DEF OrderInv, DiskBeforeBatch
  <2>3. CASE Lines(p)' = {}
      BY <2>3 DEF AllBefore
  <2>4. CASE FileFilled /\ Lines(p)' \subseteq Range(batch)
    <3>1. Storing
        BY <2>4, <1>0 DEF FileFilled, CustodyInv, WriterTypeOK, Storing
    <3> QED
        BY <2>1, <2>4, <3>1
  <2> QED
      BY <1>0, <2>2, <2>3, <2>4, LinesAfter, FileSteps
<1>4. CASE Enqueue
  <2>1. /\ batch' = batch /\ Lines(p)' = Lines(p) /\ p \in DOMAIN files
        /\ (Storing => Storing')
      BY <1>4 DEF Enqueue, storeVars, Lines, Content, Exists, Storing
  <2> QED
      BY <2>1 DEF OrderInv, DiskBeforeBatch
<1> QED
    BY <1>0, <1>1, <1>2, <1>3, <1>4, MemorySteps DEF LetGo

\* The file being written is the youngest of the directory.
LEMMA WriteYoungestStep ==
    ASSUME OrderInv, [Next]_vars
    PROVE  WriteYoungest'
<1>0. CustodyInv /\ q \in Seq(1 .. produced)
    BY OrderTypes DEF OrderInv
<1> SUFFICES ASSUME step' = "write", NEW p \in DOMAIN files', p # cur'.path
             PROVE  AllBefore(Lines(p)', Range(batch'))
    BY DEF WriteYoungest
<1>1. CASE FilesShrink
  <2>1. step = "write" /\ cur' = cur /\ batch' = batch
      BY <1>1 DEF FilesShrink
  <2>2. p \in DOMAIN files \ {cur.path} /\ Lines(p)' = Lines(p)
      BY <1>0, <1>1, <2>1, LinesAfter
  <2> QED
      BY <2>1, <2>2 DEF OrderInv, WriteYoungest
<1>2. CASE FileOpened
  <2>1. p \in DOMAIN files /\ Lines(p)' = Lines(p)
      BY <1>0, <1>2, LinesAfter
  <2>2. CASE Taken
    <3>1. Range(batch') \subseteq Range(q)
        BY <1>0, <2>2, TakeAdds DEF Taken
    <3> QED
        BY <2>1, <3>1, LinesOnDisk DEF OrderInv, MemoryOrder, AllBefore
  <2>3. CASE Kept /\ ~Storing
      BY <2>1, <2>3 DEF OrderInv, DiskBeforeBatch, Kept
  <2> QED
      BY <1>2, <2>2, <2>3 DEF FileOpened
<1>3. ~FileFilled
    BY DEF FileFilled
<1> QED
    BY <1>0, <1>1, <1>2, <1>3, FileSteps

\* Names follow one another as the data of their files does.
LEMMA AgeOrderStep ==
    ASSUME OrderInv, [Next]_vars
    PROVE  AgeOrder'
<1>0. CustodyInv /\ StoreInv /\ StoreTypeOK
    BY OrderTypes DEF OrderInv
<1> SUFFICES ASSUME NEW p \in DOMAIN files', NEW o \in DOMAIN files', Stamp(p, o)
             PROVE  AllBefore(Lines(p)', Lines(o)')
    BY DEF AgeOrder
<1>1. CASE FilesShrink
    BY <1>0, <1>1, LinesAfter DEF OrderInv, AgeOrder
<1>2. CASE FileOpened
    BY <1>0, <1>2, LinesAfter DEF OrderInv, AgeOrder, AllBefore
<1>3. CASE FileFilled
  <2>1. step = "write" /\ cur.path \in DOMAIN files
      BY <1>3 DEF FileFilled, Exists
  <2>2. \A f \in DOMAIN files \ {cur.path} : Stamp(f, cur.path)
      BY <2>1 DEF OrderInv, NamesInOrder
  <2>3. \A f, g \in DOMAIN files : ~(Stamp(f, g) /\ Stamp(g, f))
    <3>1. DOMAIN files \subseteq Nat \X Nat
        BY <1>0 DEF StoreTypeOK, Path
    <3> QED
        BY <3>1 DEF Stamp
  <2>4. p \in DOMAIN files /\ o \in DOMAIN files
      BY <1>0, <1>3, <2>1, LinesAfter
  <2>5. p # cur.path /\ Lines(p)' = Lines(p)
      BY <1>0, <1>3, <2>2, <2>3, <2>4, LinesAfter
  <2>6. CASE o = cur.path
    <3>1. Lines(o)' \subseteq Range(batch)
        BY <1>0, <1>3, <2>6, LinesAfter
    <3> QED
        BY <2>1, <2>4, <2>5, <3>1 DEF OrderInv, WriteYoungest, AllBefore
  <2>7. CASE o # cur.path
      BY <1>0, <1>3, <2>4, <2>5, <2>7, LinesAfter DEF OrderInv, AgeOrder
  <2> QED
      BY <2>6, <2>7
<1> QED
    BY <1>0, <1>1, <1>2, <1>3, FileSteps

\* What a step may do to the pending disk batch.
LEMMA PendingSteps ==
    ASSUME CustodyInv, [Next]_vars
    PROVE  \/ FetchDisk /\ batch = <<>> /\ UNCHANGED <<q, batch, files, queue>>
           \/ pending' = Nothing
           \/ UNCHANGED pending
<1>1. CASE FetchDisk
    BY <1>1 DEF FetchDisk, NextBatch, producerVars, CustodyInv, WriterTypeOK
<1>2. CASE Worker
    BY <1>1, <1>2 DEF Worker, RetryDisk, FetchUnreadable, SkipDisk, SettleDisk, DiskOk,
       DiskRefused, DiskRetryable, DrainTake, DrainEnd, DrainStored, Persisted, Stored,
       WakeUp, InsideStore, StoreInside, StoreWrite, StoreWriteFails, Enforce, StoreReject,
       StoreAccept, Lock, Park, Woken, TimedOut, TakeBatch, TestAgain, MemoryOk,
       MemoryRefused, MemoryRetryable, Persist, StoreOpen, StoreDisabled, NextUnreadable,
       MarkProcessed, storeVars
<1>3. CASE Producer
    BY <1>3 DEF Producer, Enqueue, EnqueueFull, ReportFull, storeVars
<1>4. CASE Owner
    BY <1>4 DEF Owner, Construct, StoreStart, Initialize, LoadEntry, LoadDone, StartWorker,
       Shutdown, NotifyAll, Join, Destroy, Forget, storeVars
<1>5. CASE Environment
    BY <1>5 DEF Environment, ProcessDies, Crash, Forget, Vanish
<1>6. CASE UNCHANGED vars
    BY <1>6 DEF vars, storeVars
<1> QED
    BY <1>2, <1>3, <1>4, <1>5, <1>6 DEF Next

\* The pending batch is older than everything in memory.
LEMMA PendingBeforeStep ==
    ASSUME OrderInv, [Next]_vars
    PROVE  PendingBefore'
<1>0. CustodyInv /\ produced \in Nat
    BY OrderTypes DEF OrderInv
<1>1. CASE FetchDisk /\ batch = <<>> /\ UNCHANGED <<q, batch>>
  <2>1. Range(pending'.lines) \subseteq Range(pending.lines) \cup OnDisk /\ Range(batch) = {}
      BY <1>0, <1>1, PendingAdds DEF Range
  <2> QED
      BY <1>1, <2>1 DEF OrderInv, PendingBefore, MemoryOrder, AllBefore
<1>2. CASE pending' = Nothing
  <2>1. Range(pending'.lines) = {}
      BY <1>2 DEF Nothing, Range
  <2> QED
      BY <2>1 DEF PendingBefore, AllBefore
<1>3. CASE UNCHANGED pending
  <2>1. CASE Enqueue
    <3>1. /\ produced' = produced + 1 /\ Range(q') = Range(q) \cup {produced + 1}
          /\ batch' = batch
        BY <1>0, <2>1, EnqueueAdds
    <3>2. Range(pending.lines) \subseteq 0 .. produced
        BY DEF OrderInv, LedgerInv, LinesKnown
    <3>3. \A x \in Range(pending.lines) : x < produced + 1
        BY <1>0, <3>2
    <3> QED
        BY <1>3, <3>1, <3>3 DEF OrderInv, PendingBefore, AllBefore
  <2>2. CASE ~Enqueue
    <3>1. Range(q') \cup Range(batch') \subseteq Range(q) \cup Range(batch)
        BY <1>0, <2>2, MemoryAdds
    <3> QED
        BY <1>3, <3>1 DEF OrderInv, PendingBefore, AllBefore
  <2> QED
      BY <2>1, <2>2
<1> QED
    BY <1>0, <1>1, <1>2, <1>3, PendingSteps

LEMMA OrderInit == Init => OrderInv
<1> SUFFICES ASSUME Init PROVE OrderInv
    OBVIOUS
<1>1. /\ files = [p \in {} |-> <<>>] /\ queue = <<>> /\ unread = {} /\ step = "idle"
      /\ q = <<>> /\ batch = <<>> /\ DOMAIN files = {}
    BY DEF Init, StoreInit
<1>2. OnDisk = {} /\ Range(<<>>) = {} /\ Rising(<<>>)
    BY <1>1 DEF OnDisk, Range, Rising
<1>3. NamesInOrder /\ MemoryOrder /\ PendingBefore
    BY <1>1, <1>2, EmptyInOrder DEF NamesInOrder, MemoryOrder, PendingBefore, AllBefore
<1> QED
    BY <1>1, <1>3, LedgerInit DEF OrderInv, DiskBeforeBatch, WriteYoungest, AgeOrder

LEMMA OrderStep == OrderInv /\ [Next]_vars => OrderInv'
<1> SUFFICES ASSUME OrderInv, [Next]_vars PROVE OrderInv'
    OBVIOUS
<1>1. NamesInOrder'
    BY WriterStoreStep, NamesInOrderStep DEF OrderInv, LedgerInv, CustodyInv
<1> QED
    BY <1>1, LedgerStep, MemoryOrderStep, DiskBeforeBatchStep, WriteYoungestStep,
       AgeOrderStep, PendingBeforeStep DEF OrderInv

\* Whatever fails, and over restarts too, the queue lists the batches in the order their
\* lines were produced in, except where the string order of the names betrays
\* load_existing.
THEOREM QueueIsInOrder == Spec => []BacklogInOrder
<1>1. OrderInv => BacklogInOrder
  <2> SUFFICES ASSUME OrderInv, NEW i \in DOMAIN queue, NEW j \in DOMAIN queue, i < j,
                      ~WidthChange(queue[i], queue[j])
               PROVE  Older(queue[i], queue[j])
      BY DEF BacklogInOrder
  <2>1. Stamp(queue[i], queue[j])
      BY DEF OrderInv, NamesInOrder, InOrder, Follows
  <2>2. CASE Exists(queue[i]) /\ Exists(queue[j])
      BY <2>1, <2>2 DEF OrderInv, AgeOrder, Exists, AllBefore, Lines, Older
  <2>3. CASE ~(Exists(queue[i]) /\ Exists(queue[j]))
      BY <2>3 DEF Older, Content
  <2> QED
      BY <2>2, <2>3
<1> QED
    BY <1>1, OrderInit, OrderStep, PTL DEF Spec

-----------------------------------------------------------------------------
\* A directory that nobody else touches and a disk that does not fail.

Undisturbed == {"io", "vanish"} \cap Faults = {}

\* The store runs, every path it knows has a file, and the file being written is there.
FilesThere ==
    /\ mode # "disabled"
    /\ wpc # "off" => mode = "on"
    /\ Range(queue) \cup unread \subseteq DOMAIN files
    /\ step = "write" => Exists(cur.path)

\* The gauges of a worker that is not in the middle of store().
GaugesFollow ==
    wpc # "off" /\ ~Storing => mBatches = Len(queue) /\ mBytes = bytes

GaugeInv == CustodyInv /\ FilesThere /\ GaugesFollow

\* While nobody disturbs the disk, every path the store knows has its file.
LEMMA StoreFilesThere ==
    ASSUME Undisturbed, StoreInv, FilesThere, [StoreNext]_storeVars
    PROVE  /\ mode' # "disabled"
           /\ Range(queue') \cup unread' \subseteq DOMAIN files'
           /\ step' = "write" => Exists(cur.path)'
<1>0. /\ StoreTypeOK /\ queue \in Seq(Path) /\ IsInjective(queue) /\ mode # "disabled"
      /\ unread \cap Range(queue) = {}
    BY DEF StoreInv, StoreTypeOK, QueuedOnce, FilesThere
<1>f. "io" \notin Faults /\ "vanish" \notin Faults
    BY DEF Undisturbed
<1>e. Range(<<>>) = {}
    BY DEF Range
<1>d. ASSUME queue # <<>>, Unlink(Head(queue)), queue' = Tail(queue),
             unread = {}, UNCHANGED unread
      PROVE  Range(queue') \cup unread' \subseteq DOMAIN files'
  <2>1. Range(queue') \subseteq Range(queue) /\ Head(queue) \notin Range(queue')
      BY <1>0, <1>d, TailOnce
  <2> QED
      BY <1>d, <2>1, UnlinkFacts DEF FilesThere
<1>1. CASE Initialize
    BY <1>0, <1>e, <1>f, <1>1 DEF Initialize, StoreTypeOK, FilesThere
<1>2. CASE LoadEntry
  <2>1. PICK p \in unread : /\ unread' = unread \ {p}
                            /\ queue' = Append(queue, p) \/ queue' = queue
      BY <1>2 DEF LoadEntry
  <2>2. p \in Path /\ UNCHANGED <<files, mode, step>> /\ step = "idle"
      BY <1>0, <1>2 DEF StoreTypeOK, LoadEntry
  <2>3. Range(queue') \subseteq Range(queue) \cup {p}
    <3>1. CASE queue' = queue
        BY <3>1
    <3>2. CASE queue' = Append(queue, p)
        BY <1>0, <2>2, <3>2, AppendOnce
    <3> QED
        BY <2>1, <3>1, <3>2
  <2> QED
      BY <1>0, <2>1, <2>2, <2>3 DEF FilesThere
<1>3. CASE Destroy \/ Crash
    BY <1>3, <1>e DEF Destroy, Crash, Forget
<1>4. CASE Vanish
    BY <1>4, <1>f DEF Vanish
<1>5. ASSUME NEW lines \in Seq(Line) \ {<<>>}, StoreOpen(lines)
      PROVE  /\ mode' # "disabled" /\ Range(queue') \cup unread' \subseteq DOMAIN files'
             /\ Exists(cur.path)'
    BY <1>0, <1>5, <1>f DEF StoreOpen, FilesThere, With, Exists
<1>6. CASE StoreWrite
  <2>1. cur.path \in Path /\ unread = {} /\ UNCHANGED <<unread, mode>>
      BY <1>0, <1>6, BatchFacts DEF StoreWrite, StoreTypeOK
  <2>2. Range(queue') = Range(queue) \cup {cur.path}
      BY <1>0, <1>6, <2>1, AppendOnce DEF StoreWrite
  <2> QED
      BY <1>0, <1>6, <2>1, <2>2 DEF StoreWrite, With, FilesThere
<1>7. CASE StoreWriteFails
    BY <1>7, <1>f DEF StoreWriteFails, FilesThere
<1>8. CASE Enforce
  <2>1. queue # <<>> /\ unread = {} /\ step' # "write"
      BY <1>0, <1>8 DEF Enforce, StoreTypeOK
  <2> QED
      BY <1>0, <1>8, <2>1, <1>d DEF Enforce, DropOldest
<1>9. CASE StoreReject
  <2>1. /\ unread = {} /\ queue # <<>> /\ Last(queue) = cur.path /\ step' # "write"
        /\ UNCHANGED <<unread, mode>> /\ queue' = Front(queue)
      BY <1>0, <1>9 DEF StoreReject, StoreTypeOK, StoreInv, NewestSurvivesEviction
  <2>2. Range(queue') \subseteq Range(queue) \ {cur.path}
      BY <1>0, <2>1, FrontRange
  <2> QED
      BY <1>0, <1>9, <2>1, <2>2, UnlinkFacts DEF StoreReject, FilesThere
<1>10. CASE StoreAccept \/ StoreDisabled \/ NextBatch \/ LoadDone
    BY <1>0, <1>10 DEF StoreAccept, StoreDisabled, NextBatch, LoadDone, StoreTypeOK, FilesThere
<1>11. CASE NextUnreadable
  <2>1. queue # <<>> /\ unread = {} /\ step' # "write"
      BY <1>0, <1>11 DEF NextUnreadable, StoreTypeOK
  <2> QED
      BY <1>0, <1>11, <2>1, <1>d DEF NextUnreadable, DropOldest
<1>12. CASE MarkProcessed
  <2>0. unread = {} /\ UNCHANGED <<unread, mode, step>> /\ step = "idle"
      BY <1>0, <1>12 DEF MarkProcessed, StoreTypeOK
  <2>1. CASE UNCHANGED <<files, queue>>
      BY <1>0, <2>0, <2>1 DEF FilesThere
  <2>2. CASE queue # <<>> /\ Unlink(Head(queue)) /\ queue' = Tail(queue)
      BY <1>0, <2>0, <2>2, <1>d
  <2> QED
      BY <1>12, <2>1, <2>2 DEF MarkProcessed
<1>13. CASE UNCHANGED storeVars
    BY <1>13 DEF storeVars, FilesThere, Exists
<1> QED
    BY <1>1, <1>2, <1>3, <1>4, <1>5, <1>6, <1>7, <1>8, <1>9, <1>10, <1>11, <1>12, <1>13
    DEF StoreNext, StoreStart, StoreInside

\* next() finds every file.
LEMMA NothingUnreadable ==
    ASSUME Undisturbed, FilesThere, queue \in Seq(Path)
    PROVE  ~FetchUnreadable
<1>1. FetchUnreadable => queue # <<>> /\ ~Exists(Head(queue))
    BY DEF FetchUnreadable, NextUnreadable, Undisturbed
<1>2. queue # <<>> => Head(queue) \in Range(queue)
    BY TailOnce
<1> QED
    BY <1>1, <1>2 DEF FilesThere, Exists

\* A running writer keeps its store.
LEMMA ModeSteps ==
    ASSUME CustodyInv, [Next]_vars, mode # "disabled", wpc' # "off",
           wpc # "off" => mode = "on"
    PROVE  mode' = "on"
<1>t. (wpc = "off" <=> life = "off") /\ WriterTypeOK'
    BY CustodyStep DEF CustodyInv, WriterTypeOK
<1>1. CASE Worker
    BY <1>1, <1>t DEF Worker, RetryDisk, FetchDisk, FetchUnreadable, SkipDisk, SettleDisk,
       DiskOk, DiskRefused, DiskRetryable, DrainTake, DrainEnd, DrainStored, Persisted,
       Stored, WakeUp, InsideStore, Running, StoreInside, StoreWrite, StoreWriteFails,
       Enforce, StoreReject, StoreAccept, Lock, Park, Woken, TimedOut, TakeBatch, TestAgain,
       MemoryOk, MemoryRefused, MemoryRetryable, Persist, StoreOpen, StoreDisabled,
       NextBatch, NextUnreadable, MarkProcessed, storeVars
<1>2. CASE Producer
    BY <1>2, <1>t DEF Producer, Enqueue, EnqueueFull, ReportFull, storeVars, workerVars
<1>3. CASE Owner
    BY <1>3, <1>t DEF Owner, Construct, StartWorker, Shutdown, NotifyAll, Join, ObjectGone,
       storeVars, workerVars, writerVars
<1>4. CASE Environment
    BY <1>4 DEF Environment, ProcessDies, ObjectGone, Vanish, writerVars
<1>5. CASE UNCHANGED vars
    BY <1>5 DEF vars, storeVars, writerVars
<1> QED
    BY <1>1, <1>2, <1>3, <1>4, <1>5 DEF Next

\* The gauges are set whenever the queue has changed, at the latest when store() returns.
LEMMA GaugeSteps ==
    ASSUME CustodyInv, [Next]_vars
    PROVE  \/ wpc' = "off" \/ Storing' \/ UpdateMetrics
           \/ FetchUnreadable
           \/ UNCHANGED <<queue, bytes, mBatches, mBytes>> /\ wpc # "off" /\ ~Storing
<1>t. (wpc = "off" <=> life = "off") /\ (step # "idle" => Storing)
    BY DEF CustodyInv, WriterTypeOK, Storing
<1>1. CASE Worker
  <2>1. CASE DrainStored \/ Persisted \/ SettleDisk
      BY <2>1 DEF DrainStored, Persisted, Stored, SettleDisk
  <2>2. CASE DrainTake \/ Persist
      BY <2>2 DEF DrainTake, Persist, Storing
  <2>3. CASE InsideStore
    <3>1. step # "idle" /\ UNCHANGED wpc
        BY <2>3 DEF InsideStore, StoreInside, StoreWrite, StoreWriteFails, Enforce,
           StoreReject, StoreAccept, writerVars
    <3> QED
        BY <1>t, <3>1 DEF Storing
  <2>4. CASE \/ RetryDisk \/ FetchDisk \/ SkipDisk \/ DiskOk \/ DiskRefused
             \/ DiskRetryable \/ DrainEnd \/ WakeUp
      BY <2>4 DEF RetryDisk, FetchDisk, SkipDisk, DiskOk, DiskRefused, DiskRetryable,
         DrainEnd, WakeUp, NextBatch, storeVars, metricVars, Storing
  <2>5. CASE Lock \/ Woken \/ TimedOut \/ Park
    <3>1. wpc \in {"lock", "waiting", "parking"} /\ UNCHANGED <<storeVars, metricVars>>
        BY <2>5 DEF Lock, Woken, TimedOut, Park, TakeBatch, TestAgain
    <3> QED
        BY <3>1 DEF storeVars, metricVars, Storing
  <2>6. CASE MemoryOk \/ MemoryRefused \/ MemoryRetryable
      BY <2>6 DEF MemoryOk, MemoryRefused, MemoryRetryable, storeVars, metricVars, Storing
  <2> QED
      BY <1>1, <2>1, <2>2, <2>3, <2>4, <2>5, <2>6 DEF Worker
<1>2. CASE Producer
    BY <1>2, <1>t DEF Producer, Enqueue, EnqueueFull, ReportFull, storeVars, workerVars,
       metricVars, Storing
<1>3. CASE Owner
    BY <1>3, <1>t DEF Owner, Construct, StartWorker, Shutdown, NotifyAll, Join, ObjectGone,
       storeVars, workerVars, writerVars, metricVars, Storing
<1>4. CASE Environment
    BY <1>4 DEF Environment, ProcessDies, ObjectGone, Vanish, writerVars, Storing
<1>5. CASE UNCHANGED vars
    BY <1>5 DEF vars, storeVars, writerVars, Storing
<1> QED
    BY <1>1, <1>2, <1>3, <1>4, <1>5 DEF Next

LEMMA GaugeInit == Init => GaugeInv
<1>1. Range(<<>>) = {}
    BY DEF Range
<1> QED
    BY <1>1, CustodyInit DEF Init, StoreInit, GaugeInv, FilesThere, GaugesFollow

\* run() refreshes the gauges after each change of the queue, before it waits.
LEMMA GaugeStep ==
    ASSUME Undisturbed
    PROVE  GaugeInv /\ [Next]_vars => GaugeInv'
<1> SUFFICES ASSUME GaugeInv, [Next]_vars PROVE GaugeInv'
    OBVIOUS
<1>0. CustodyInv /\ FilesThere /\ StoreInv
    BY DEF GaugeInv, CustodyInv
<1>1. FilesThere'
    BY <1>0, StoreFilesThere, WriterStoreStep, ModeSteps DEF FilesThere, CustodyInv
<1>2. ~FetchUnreadable
    BY <1>0, NothingUnreadable DEF StoreInv, StoreTypeOK
<1>3. GaugesFollow'
    BY <1>0, <1>2, GaugeSteps DEF GaugeInv, GaugesFollow, UpdateMetrics
<1> QED
    BY <1>0, <1>1, <1>3, CustodyStep DEF GaugeInv

\* Unless the disk fails or somebody else removes files, the gauges are the length and the
\* bytes of the store's queue whenever the worker sleeps or waits.
THEOREM GaugesAreCurrent ==
    ASSUME {"io", "vanish"} \cap Faults = {}
    PROVE  Spec => []GaugesCurrent
<1>1. GaugeInv /\ [Next]_vars => GaugeInv'
    BY GaugeStep DEF Undisturbed
<1>2. GaugeInv => GaugesCurrent
    BY DEF GaugeInv, GaugesFollow, GaugesCurrent, Storing
<1> QED
    BY <1>1, <1>2, GaugeInit, PTL DEF Spec

-----------------------------------------------------------------------------
\* No line is sent twice.

\* Every file can be removed and every answer arrives.
Answered == {"crash", "rmfail"} \cap Faults = {} /\ "lostack" \notin ServerFaults

\* A pending batch that still has its file is in the queue, where mark_processed finds it,
\* and no other file holds a copy of its lines.
PendingQueued == pending # Nothing /\ Exists(pending.path) => pending.path \in Range(queue)
PendingApart ==
    pending # Nothing =>
        \A p \in DOMAIN files \ {pending.path} : Range(pending.lines) \cap Content(p) = {}

\* What the server has taken is gone from memory and from the disk, but for the batch that
\* is about to be marked as processed.
Fresh ==
    /\ delivered \cap (Range(q) \cup Range(batch)) = {}
    /\ \A p \in DOMAIN files : \/ Content(p) \cap delivered = {}
                               \/ wpc = "settled" /\ p = pending.path
    /\ wpc # "settled" => Range(pending.lines) \cap delivered = {}

OnceInv ==
    /\ OrderInv
    /\ WholeLines
    /\ PendingQueued
    /\ PendingApart
    /\ Fresh
    /\ DeliveredOnce

LEMMA OnceTypes ==
    ASSUME OnceInv
    PROVE  /\ CustodyInv /\ StoreInv /\ StoreTypeOK /\ queue \in Seq(Path)
           /\ \A p \in DOMAIN files : Content(p) = Lines(p) /\ Content(p) \subseteq 1 .. produced
           /\ q \in Seq(1 .. produced) /\ produced \in Nat
           /\ Range(q) \cup Range(batch) \cup Range(pending.lines) \subseteq 1 .. produced
<1>1. /\ CustodyInv /\ StoreInv /\ StoreTypeOK /\ q \in Seq(1 .. produced)
      /\ produced \in Nat /\ Range(q) \cup Range(batch) \subseteq 1 .. produced
      /\ OnDisk \ {Torn} \subseteq 1 .. produced
    BY OrderTypes DEF OnceInv, OrderInv
<1>2. \A p \in DOMAIN files : Content(p) = Lines(p) /\ Content(p) \subseteq OnDisk \ {Torn}
    BY DEF OnceInv, WholeLines, OnDisk, Lines
<1>3. Range(pending.lines) \subseteq 0 .. produced /\ Torn \notin Range(pending.lines)
    BY DEF OnceInv, OrderInv, LedgerInv, LinesKnown, WholeLines
<1> QED
    BY <1>1, <1>2, <1>3 DEF StoreTypeOK, Torn

\* Sets of lines one of which is older than the other are disjoint.
LEMMA BeforeApart ==
    ASSUME NEW n \in Nat, NEW A, NEW B, A \subseteq 1 .. n, AllBefore(A, B)
    PROVE  A \cap B = {}
<1> SUFFICES ASSUME NEW x \in A, x \in B PROVE FALSE
    OBVIOUS
<1>1. x < x /\ x \in Nat
    BY DEF AllBefore
<1> QED
    BY <1>1

\* Two files have no line in common.
LEMMA FilesApart ==
    ASSUME OrderInv, WholeLines, NEW p \in DOMAIN files, NEW o \in DOMAIN files, p # o
    PROVE  Content(p) \cap Content(o) = {}
<1>1. /\ Content(p) = Lines(p) /\ Content(p) \subseteq 1 .. produced
      /\ Content(o) = Lines(o) /\ Content(o) \subseteq 1 .. produced
      /\ produced \in Nat /\ StoreTypeOK
  <2>1. /\ OnDisk \ {Torn} \subseteq 1 .. produced /\ produced \in Nat /\ StoreTypeOK
      BY OrderTypes DEF OrderInv
  <2> QED
      BY <2>1 DEF WholeLines, OnDisk, Lines
<1>2. Stamp(p, o) \/ Stamp(o, p)
  <2>1. p \in Nat \X Nat /\ o \in Nat \X Nat
      BY <1>1 DEF StoreTypeOK, Path
  <2>2. PICK a \in Nat, b \in Nat, c \in Nat, d \in Nat : p = <<a, b>> /\ o = <<c, d>>
      BY <2>1
  <2>3. a < c \/ c < a \/ (a = c /\ (b < d \/ d < b))
      BY <2>2
  <2> QED
      BY <2>2, <2>3 DEF Stamp
<1>3. AllBefore(Content(p), Content(o)) \/ AllBefore(Content(o), Content(p))
    BY <1>1, <1>2 DEF OrderInv, AgeOrder
<1> QED
    BY <1>1, <1>3, BeforeApart

\* While files can be removed, a finished batch leaves the disk with the queue.
LEMMA PendingQueuedStep ==
    ASSUME "rmfail" \notin Faults, StoreInv, PendingQueued, [StoreNext]_storeVars
    PROVE  PendingQueued'
<1>0. StoreTypeOK /\ queue \in Seq(Path) /\ IsInjective(queue)
    BY DEF StoreInv, StoreTypeOK, QueuedOnce
<1>u. \A p : Unlink(p) => files' = Restrict(files, DOMAIN files \ {p})
    BY DEF Unlink
<1>d. ASSUME queue # <<>>, Unlink(Head(queue)), queue' = Tail(queue), UNCHANGED pending
      PROVE  PendingQueued'
  <2>1. Range(queue) = Range(Tail(queue)) \cup {Head(queue)}
      BY <1>0, <1>d, TailRange
  <2>2. DOMAIN files' = DOMAIN files \ {Head(queue)}
      BY <1>d, <1>u DEF Restrict
  <2> QED
      BY <1>d, <2>1, <2>2 DEF PendingQueued, Exists
<1>1. CASE pending' = Nothing
    BY <1>1 DEF PendingQueued
<1>2. CASE NextBatch
  <2>1. Head(queue) \in Range(queue)
      BY <1>0, <1>2, TailOnce DEF NextBatch
  <2> QED
      BY <1>2, <2>1 DEF NextBatch, PendingQueued
<1>3. CASE Initialize \/ LoadEntry
    BY <1>0, <1>1, <1>3 DEF Initialize, LoadEntry, StoreTypeOK
<1>4. CASE Vanish
    BY <1>4 DEF Vanish, Restrict, PendingQueued, Exists
<1>5. ASSUME NEW lines \in Seq(Line) \ {<<>>}, StoreOpen(lines)
      PROVE  PendingQueued'
  <2>1. /\ UNCHANGED <<queue, pending>>
        /\ files' = files \/ files' = With(NextPath(clock'), <<>>)
      BY <1>5 DEF StoreOpen
  <2>2. pending # Nothing => pending.path # NextPath(clock')
    <3>1. /\ clock \in Nat /\ clock' \in Nat /\ clock' >= clock /\ mode = "on"
        BY <1>0, <1>5, StoreAssumption DEF StoreTypeOK, StoreOpen
    <3> QED
        BY <3>1, NextPathFresh DEF Known
  <2> QED
      BY <2>1, <2>2 DEF PendingQueued, Exists, With
<1>6. CASE StoreWrite
  <2>1. cur.path \in Path
      BY <1>0, <1>6, BatchFacts DEF StoreWrite, StoreTypeOK
  <2>2. Range(queue') = Range(queue) \cup {cur.path} /\ UNCHANGED pending
      BY <1>0, <1>6, <2>1, AppendOnce DEF StoreWrite
  <2> QED
      BY <1>6, <2>2 DEF StoreWrite, With, PendingQueued, Exists
<1>7. CASE StoreWriteFails
  <2>1. /\ UNCHANGED <<queue, pending>> /\ DOMAIN files' \subseteq DOMAIN files
      BY <1>7, UnlinkFacts DEF StoreWriteFails
  <2> QED
      BY <2>1 DEF PendingQueued, Exists
<1>8. CASE Enforce \/ NextUnreadable
  <2>1. queue # <<>>
      BY <1>8 DEF Enforce, NextUnreadable
  <2> QED
      BY <1>8, <2>1, <1>d DEF Enforce, NextUnreadable, DropOldest
<1>9. CASE StoreReject
  <2>1. /\ queue # <<>> /\ Last(queue) = cur.path
        /\ queue' = Front(queue) /\ UNCHANGED pending
        /\ files' = Restrict(files, DOMAIN files \ {cur.path})
      BY <1>9, <1>u DEF StoreReject, StoreInv, NewestSurvivesEviction
  <2>2. Range(queue) \subseteq Range(queue') \cup {cur.path}
      BY <1>0, <2>1, FrontRange
  <2> QED
      BY <2>1, <2>2 DEF Restrict, PendingQueued, Exists
<1>10. CASE StoreAccept \/ StoreDisabled \/ LoadDone \/ UNCHANGED storeVars
    BY <1>10 DEF StoreAccept, StoreDisabled, LoadDone, storeVars, PendingQueued, Exists
<1> QED
    BY <1>1, <1>2, <1>3, <1>4, <1>5, <1>6, <1>7, <1>8, <1>9, <1>10
    DEF StoreNext, StoreStart, StoreInside, Destroy, Crash, Forget, MarkProcessed

\* Only the queued file of the pending batch holds its lines.
LEMMA PendingApartStep ==
    ASSUME OnceInv, [Next]_vars, WholeLines'
    PROVE  PendingApart'
<1>0. /\ CustodyInv /\ StoreInv /\ queue \in Seq(Path) /\ produced \in Nat
      /\ Range(pending.lines) \subseteq 1 .. produced
    BY OnceTypes
<1>1. CASE pending' = Nothing
    BY <1>1 DEF PendingApart
<1>2. CASE FetchDisk /\ UNCHANGED files
  <2>1. /\ pending' = [path |-> Head(queue), lines |-> files[Head(queue)]]
        /\ Head(queue) \in DOMAIN files
      BY <1>2 DEF FetchDisk, NextBatch, Exists
  <2>2. Range(pending'.lines) = Content(Head(queue)) /\ pending'.path = Head(queue)
      BY <2>1 DEF Content, Exists
  <2>3. \A p \in DOMAIN files' : p \in DOMAIN files /\ Content(p)' = Content(p)
      BY <1>2 DEF Content, Exists
  <2> QED
      BY <2>1, <2>2, <2>3, FilesApart DEF OnceInv, PendingApart
<1>3. ASSUME UNCHANGED pending, pending # Nothing,
             NEW p \in DOMAIN files', p # pending.path
      PROVE  Range(pending.lines) \cap Content(p)' = {}
  <2>1. Content(p)' = Lines(p)'
      BY DEF WholeLines, OnDisk, Lines
  <2>2. CASE p \in DOMAIN files /\ Lines(p)' = Lines(p)
      BY <1>3, <2>1, <2>2 DEF OnceInv, PendingApart, Lines
  <2>3. CASE Lines(p)' = {}
      BY <2>1, <2>3
  <2>4. CASE Lines(p)' \subseteq Range(batch)
    <3>1. AllBefore(Range(pending.lines), Range(batch))
        BY <1>0 DEF OnceInv, OrderInv, PendingBefore, AllBefore, WholeLines
    <3>2. Range(pending.lines) \cap Range(batch) = {}
        BY <1>0, <3>1, BeforeApart
    <3> QED
        BY <2>1, <2>4, <3>2
  <2> QED
      BY <1>0, <2>2, <2>3, <2>4, LinesAfter, FileSteps
<1> QED
    BY <1>0, <1>1, <1>2, <1>3, PendingSteps DEF PendingApart

\* What is delivered, and what may be delivered again.
LEMMA DeliverySteps ==
    ASSUME Answered, CustodyInv, [Next]_vars
    PROVE  \/ /\ DiskOk /\ UNCHANGED <<q, batch, pending, files>> /\ wpc = "disk"
              /\ wpc' = "settled" /\ Delivers(pending.lines)
           \/ /\ MemoryOk /\ UNCHANGED <<q, pending, files>> /\ batch' = <<>>
              /\ ~Storing /\ wpc # "settled" /\ Delivers(batch)
           \/ UNCHANGED <<delivered, redelivered>>
<1>1. CASE DiskOk
    BY <1>1 DEF DiskOk, SendOk, producerVars, storeVars
<1>2. CASE MemoryOk
    BY <1>2 DEF MemoryOk, SendOk, storeVars, Storing
<1>3. CASE DiskRetryable \/ MemoryRetryable \/ DiskRefused \/ MemoryRefused
    BY <1>3 DEF DiskRetryable, MemoryRetryable, DiskRefused, MemoryRefused, SendRetryable,
       SendRefused, serverVars, Answered
<1>4. CASE Worker
    BY <1>1, <1>2, <1>3, <1>4 DEF Worker, RetryDisk, FetchDisk, FetchUnreadable, SkipDisk,
       SettleDisk, DrainTake, DrainEnd, DrainStored, Persisted, Stored, WakeUp,
       InsideStore, Lock, Park, Woken, TimedOut, TakeBatch, TestAgain, Persist,
       historyVars, serverVars, writerVars
<1>5. CASE Producer
    BY <1>5 DEF Producer, Enqueue, EnqueueFull, ReportFull, historyVars
<1>6. CASE Owner
    BY <1>6 DEF Owner, Construct, StartWorker, Shutdown, NotifyAll, Join, ObjectGone,
       writerVars, historyVars
<1>7. CASE Environment
    BY <1>7 DEF Environment, ProcessDies, ObjectGone, writerVars
<1>8. CASE UNCHANGED vars
    BY <1>8 DEF vars, writerVars
<1> QED
    BY <1>4, <1>5, <1>6, <1>7, <1>8 DEF Next

\* A batch that was taken by the server stays marked for removal until it is removed.
LEMMA SettledSteps ==
    ASSUME Answered, CustodyInv, [Next]_vars, wpc = "settled"
    PROVE  SettleDisk \/ UNCHANGED <<wpc, pending, batch>>
<1>1. "crash" \notin Faults
    BY DEF Answered
<1>2. step = "idle" /\ life # "off"
    BY DEF CustodyInv, WriterTypeOK
<1>3. CASE Worker
    BY <1>2, <1>3 DEF Worker, RetryDisk, FetchDisk, FetchUnreadable, SkipDisk, DiskOk,
       DiskRefused, DiskRetryable, DrainTake, DrainEnd, DrainStored, Persisted, Stored,
       WakeUp, InsideStore, StoreInside, StoreWrite, StoreWriteFails, Enforce, StoreReject,
       StoreAccept, Lock, Park, Woken, TimedOut, MemoryOk, MemoryRefused, MemoryRetryable,
       Persist
<1>4. CASE Producer
    BY <1>4 DEF Producer, Enqueue, EnqueueFull, ReportFull, storeVars, workerVars
<1>5. CASE Owner
    BY <1>2, <1>5 DEF Owner, Construct, StartWorker, Shutdown, NotifyAll, Join, storeVars,
       workerVars
<1>6. CASE Environment
    BY <1>1, <1>6 DEF Environment, ProcessDies, Crash, Vanish, writerVars
<1>7. CASE UNCHANGED vars
    BY <1>7 DEF vars, writerVars, storeVars
<1> QED
    BY <1>3, <1>4, <1>5, <1>6, <1>7 DEF Next

LEMMA PendingApartFromMemory ==
    ASSUME OnceInv
    PROVE  Range(pending.lines) \cap (Range(batch) \cup Range(q)) = {}
<1>1. /\ Range(pending.lines) \subseteq 1 .. produced /\ produced \in Nat
    BY OnceTypes
<1>2. AllBefore(Range(pending.lines), Range(batch) \cup Range(q))
    BY DEF OnceInv, OrderInv, PendingBefore, WholeLines, AllBefore
<1> QED
    BY <1>1, <1>2, BeforeApart

\* Memory holds nothing that the server has.
LEMMA FreshMemory ==
    ASSUME Answered, OnceInv, [Next]_vars
    PROVE  delivered' \cap (Range(q') \cup Range(batch')) = {}
<1>0. CustodyInv /\ produced \in Nat /\ Range(batch) \subseteq 1 .. produced
    BY OnceTypes
<1>1. delivered \cap (Range(q) \cup Range(batch)) = {}
    BY DEF OnceInv, Fresh
<1>2. CASE DiskOk /\ UNCHANGED <<q, batch>> /\ Delivers(pending.lines)
    BY <1>1, <1>2, PendingApartFromMemory DEF Delivers
<1>3. CASE MemoryOk /\ q' = q /\ batch' = <<>> /\ Delivers(batch)
  <2>1. Range(<<>>) = {} /\ Range(batch) \cap Range(q) = {}
      BY <1>0, BeforeApart DEF OnceInv, OrderInv, MemoryOrder, Range
  <2> QED
      BY <1>1, <1>3, <2>1 DEF Delivers
<1>4. CASE UNCHANGED delivered /\ Enqueue
  <2>1. Range(q') = Range(q) \cup {produced + 1} /\ batch' = batch
      BY <1>0, <1>4, EnqueueAdds
  <2>2. delivered \subseteq 0 .. produced
      BY DEF OnceInv, OrderInv, LedgerInv, LinesKnown, Settled
  <2>3. produced + 1 \notin delivered
      BY <1>0, <2>2
  <2> QED
      BY <1>1, <1>4, <2>1, <2>3
<1>5. CASE UNCHANGED delivered /\ ~Enqueue
    BY <1>0, <1>1, <1>5, MemoryAdds
<1> QED
    BY <1>0, <1>2, <1>3, <1>4, <1>5, DeliverySteps

\* A file whose lines the server has is the one about to be marked.
LEMMA FreshFiles ==
    ASSUME Answered, OnceInv, [Next]_vars, WholeLines', NEW p \in DOMAIN files'
    PROVE  \/ Content(p)' \cap delivered' = {}
           \/ wpc' = "settled" /\ p = pending'.path
<1>0. /\ CustodyInv /\ StoreInv /\ queue \in Seq(Path) /\ produced \in Nat
      /\ \A f \in DOMAIN files : Content(f) = Lines(f) /\ Content(f) \subseteq 1 .. produced
      /\ wpc = "settled" => pending # Nothing
    BY OnceTypes DEF CustodyInv, WriterTypeOK
<1>1. Content(p)' = Lines(p)'
    BY DEF WholeLines, OnDisk, Lines
<1>2. \A f \in DOMAIN files : \/ Content(f) \cap delivered = {}
                              \/ wpc = "settled" /\ f = pending.path
    BY DEF OnceInv, Fresh
<1>3. CASE /\ UNCHANGED <<pending, files>> /\ wpc = "disk" /\ wpc' = "settled"
           /\ Delivers(pending.lines)
  <2>1. p \in DOMAIN files /\ Content(p)' = Content(p) /\ Content(p) \cap delivered = {}
      BY <1>2, <1>3 DEF Content, Exists
  <2>2. p # pending.path => Range(pending.lines) \cap Content(p) = {}
      BY <1>0, <1>3, <2>1 DEF OnceInv, PendingApart, CustodyInv, WriterTypeOK
  <2> QED
      BY <1>3, <2>1, <2>2 DEF Delivers
<1>4. CASE /\ UNCHANGED <<pending, files>> /\ wpc # "settled" /\ ~Storing
           /\ Delivers(batch)
  <2>1. p \in DOMAIN files /\ Content(p)' = Content(p) /\ Content(p) \cap delivered = {}
      BY <1>2, <1>4 DEF Content, Exists
  <2>2. Content(p) \cap Range(batch) = {}
      BY <1>0, <1>4, <2>1, BeforeApart DEF OnceInv, OrderInv, DiskBeforeBatch
  <2> QED
      BY <1>4, <2>1, <2>2 DEF Delivers
<1>5. CASE UNCHANGED delivered
  <2>1. CASE p \in DOMAIN files /\ Lines(p)' = Lines(p)
    <3>1. Content(p)' = Content(p)
        BY <1>0, <1>1, <2>1
    <3>2. CASE wpc = "settled" /\ p = pending.path
      <4>1. CASE SettleDisk
        <5>1. p \in Range(queue)
            BY <1>0, <2>1, <3>2 DEF OnceInv, PendingQueued, Exists
        <5>2. queue # <<>> /\ Head(queue) = pending.path
            BY <1>0, <3>2, <5>1, EmptySeq, LenProperties
            DEF StoreInv, PendingFrontOrGone, Range
        <5>3. Unlink(pending.path)
            BY <4>1, <5>2 DEF SettleDisk, MarkProcessed
        <5>4. p \notin DOMAIN files'
            BY <3>2, <5>3 DEF Unlink, Restrict, Answered
        <5> QED
            BY <5>4
      <4>2. CASE UNCHANGED <<wpc, pending>>
          BY <3>2, <4>2
      <4> QED
          BY <1>0, <3>2, <4>1, <4>2, SettledSteps
    <3> QED
        BY <1>2, <1>5, <2>1, <3>1, <3>2
  <2>2. CASE Lines(p)' = {}
      BY <1>1, <2>2
  <2>3. CASE Lines(p)' \subseteq Range(batch)
      BY <1>1, <1>5, <2>3 DEF OnceInv, Fresh
  <2> QED
      BY <1>0, <2>1, <2>2, <2>3, LinesAfter, FileSteps
<1> QED
    BY <1>0, <1>3, <1>4, <1>5, DeliverySteps

\* A pending batch that is not about to be marked is still to be delivered.
LEMMA FreshPending ==
    ASSUME Answered, OnceInv, [Next]_vars, wpc' # "settled"
    PROVE  Range(pending'.lines) \cap delivered' = {}
<1>0. CustodyInv
    BY OnceTypes
<1>1. wpc # "settled" => Range(pending.lines) \cap delivered = {}
    BY DEF OnceInv, Fresh
<1>2. CASE wpc # "settled" /\ UNCHANGED pending /\ Delivers(batch)
    BY <1>1, <1>2, PendingApartFromMemory DEF Delivers
<1>3. CASE UNCHANGED delivered
  <2>1. CASE FetchDisk
    <3>1. /\ pending'.lines = files[Head(queue)] /\ Head(queue) \in DOMAIN files
          /\ wpc = "top"
        BY <2>1 DEF FetchDisk, NextBatch, Exists
    <3>2. Content(Head(queue)) \cap delivered = {}
        BY <3>1 DEF OnceInv, Fresh
    <3> QED
        BY <1>3, <3>1, <3>2 DEF Content, Exists
  <2>2. CASE pending' = Nothing
    <3>1. Range(pending'.lines) = {}
        BY <2>2 DEF Nothing, Range
    <3> QED
        BY <3>1
  <2>3. CASE UNCHANGED pending
    <3>1. CASE wpc = "settled" /\ SettleDisk
        BY <2>2, <3>1 DEF SettleDisk, MarkProcessed
    <3>2. CASE wpc # "settled"
        BY <1>1, <1>3, <2>3, <3>2
    <3> QED
        BY <1>0, <3>1, <3>2, SettledSteps
  <2> QED
      BY <1>0, <2>1, <2>2, <2>3, PendingSteps
<1> QED
    BY <1>0, <1>2, <1>3, DeliverySteps

\* While every answer arrives, what is settled is in no other place.
LEMMA OnceStep ==
    ASSUME Answered
    PROVE  OnceInv /\ [Next]_vars => OnceInv'
<1> SUFFICES ASSUME OnceInv, [Next]_vars PROVE OnceInv'
    OBVIOUS
<1>0. CustodyInv /\ StoreInv /\ ~Tears /\ "rmfail" \notin Faults
    BY OnceTypes DEF Answered, Tears
<1>1. WholeLines'
    BY <1>0, WholeLinesStep DEF OnceInv
<1>2. PendingQueued'
    BY <1>0, PendingQueuedStep, WriterStoreStep DEF OnceInv, CustodyInv
<1>3. PendingApart'
    BY <1>1, PendingApartStep
<1>4. Fresh'
    BY <1>1, FreshMemory, FreshFiles, FreshPending DEF Fresh
<1>5. DeliveredOnce'
  <2>1. CASE Delivers(pending.lines) /\ wpc = "disk"
      BY <2>1 DEF Delivers, OnceInv, Fresh, DeliveredOnce
  <2>2. CASE Delivers(batch)
      BY <2>2 DEF Delivers, OnceInv, Fresh, DeliveredOnce
  <2>3. CASE UNCHANGED redelivered
      BY <2>3 DEF OnceInv, DeliveredOnce
  <2> QED
      BY <1>0, <2>1, <2>2, <2>3, DeliverySteps
<1> QED
    BY <1>1, <1>2, <1>3, <1>4, <1>5, OrderStep DEF OnceInv

\* No line reaches the server twice as long as every answer arrives, the process does not
\* die and the files of uploaded batches can be removed.
THEOREM LinesAreDeliveredOnce ==
    ASSUME "lostack" \notin ServerFaults, {"crash", "rmfail"} \cap Faults = {}
    PROVE  Spec => []DeliveredOnce
<1>1. Init => OnceInv
  <2> SUFFICES ASSUME Init PROVE OnceInv
      OBVIOUS
  <2>1. /\ DOMAIN files = {} /\ pending = Nothing /\ delivered = {} /\ redelivered = {}
        /\ OnDisk = {} /\ Range(pending.lines) = {}
      BY DEF Init, StoreInit, OnDisk, Range, Nothing
  <2> QED
      BY <2>1, OrderInit DEF OnceInv, WholeLines, PendingQueued, PendingApart, Fresh,
         DeliveredOnce
<1>2. OnceInv /\ [Next]_vars => OnceInv'
    BY OnceStep DEF Answered
<1>3. OnceInv => DeliveredOnce
    BY DEF OnceInv
<1> QED
    BY <1>1, <1>2, <1>3, PTL DEF Spec

-----------------------------------------------------------------------------
\* Nothing is left behind on the disk.

\* A file that no path of the store leads to holds nothing that is not settled.
NoOrphans ==
    mode \in {"loading", "on"} =>
        \A p \in DOMAIN files :
            \/ p \in Range(queue) \cup unread
            \/ step = "write" /\ p = cur.path
            \/ Content(p) \subseteq Settled \cup {Torn} \cup JustRejected

BacklogInv == GaugeInv /\ NoOrphans

LEMMA BacklogTypes ==
    ASSUME BacklogInv
    PROVE  /\ CustodyInv /\ StoreInv /\ StoreTypeOK /\ FilesThere
           /\ queue \in Seq(Path) /\ IsInjective(queue)
           /\ (wpc = "off" <=> life = "off") /\ (wpc # "off" => mode = "on")
           /\ (step # "idle" => Storing)
    BY DEF BacklogInv, GaugeInv, FilesThere, CustodyInv, WriterTypeOK, StoreInv, StoreTypeOK,
       QueuedOnce, Storing

\* What was settled stays settled.
LEMMA SettledGrows ==
    ASSUME CustodyInv, [Next]_vars
    PROVE  Settled \subseteq Settled'
    BY HistoryGrows, DroppedGrows, WriterStoreStep DEF CustodyInv, Settled

\* A step that leaves the store's paths alone.
LEMMA PathsKept ==
    ASSUME BacklogInv, [Next]_vars, UNCHANGED <<files, queue, unread, step, cur, mode>>,
           JustRejected \subseteq Settled' \cup JustRejected'
    PROVE  NoOrphans'
<1>1. Settled \subseteq Settled'
    BY SettledGrows, BacklogTypes
<1>2. \A p \in DOMAIN files' : Content(p)' = Content(p)
    BY DEF Content, Exists
<1> QED
    BY <1>1, <1>2 DEF BacklogInv, NoOrphans

\* The front of the queue goes; its lines are settled.
LEMMA FrontGoes ==
    ASSUME BacklogInv, [Next]_vars, queue # <<>>, Unlink(Head(queue)), queue' = Tail(queue),
           Content(Head(queue)) \subseteq Settled' \cup {Torn},
           step # "write", JustRejected = {}, UNCHANGED <<unread, mode>>
    PROVE  NoOrphans'
<1>1. Settled \subseteq Settled' /\ Range(queue) = Range(queue') \cup {Head(queue)}
    BY SettledGrows, BacklogTypes, TailRange
<1>2. \A p \in DOMAIN files' : p \in DOMAIN files /\ Content(p)' = Content(p)
    BY UnlinkFacts DEF Content, Exists
<1> SUFFICES ASSUME NEW p \in DOMAIN files', mode' \in {"loading", "on"},
                    p \notin Range(queue') \cup unread'
             PROVE  Content(p)' \subseteq Settled' \cup {Torn}
    BY DEF NoOrphans
<1>3. p \in Range(queue) \cup unread \/ Content(p) \subseteq Settled \cup {Torn}
    BY <1>2 DEF BacklogInv, NoOrphans
<1> QED
    BY <1>1, <1>2, <1>3

\* enforce_size_limit() writes off what it removes.
LEMMA InsideStoreLeavesNone ==
    ASSUME Undisturbed, BacklogInv, [Next]_vars, InsideStore
    PROVE  NoOrphans'
<1>0. /\ CustodyInv /\ StoreInv /\ StoreTypeOK /\ FilesThere
      /\ queue \in Seq(Path) /\ (step # "idle" => Storing)
      /\ UNCHANGED <<wpc, batch>> /\ step # "idle" /\ JustRejected = {}
    BY BacklogTypes DEF InsideStore, writerVars, JustRejected, Storing, StoreInside, StoreWrite,
       StoreWriteFails, Enforce, StoreReject, StoreAccept
<1>1. Settled \subseteq Settled' /\ Storing'
    BY <1>0, SettledGrows DEF Storing
<1>2. CASE StoreWrite
  <2>1. cur.path \in Path /\ UNCHANGED <<mode, unread>>
      BY <1>0, <1>2, BatchFacts DEF StoreWrite, StoreTypeOK
  <2>2. Range(queue') = Range(queue) \cup {cur.path}
      BY <1>0, <1>2, <2>1, AppendOnce DEF StoreWrite
  <2>3. \A p \in DOMAIN files' : p # cur.path => p \in DOMAIN files /\ Content(p)' = Content(p)
      BY <1>2 DEF StoreWrite, With, Content, Exists
  <2> QED
      BY <1>0, <1>1, <2>1, <2>2, <2>3 DEF BacklogInv, NoOrphans
<1>3. ~StoreWriteFails
    BY <1>0 DEF StoreWriteFails, FilesThere, Undisturbed
<1>4. CASE Enforce
  <2>1. Content(Head(queue)) \subseteq Settled' /\ queue # <<>>
      BY <1>4 DEF Enforce, DropOldest, Settled
  <2> QED
      BY <1>0, <1>4, <2>1, FrontGoes DEF Enforce, DropOldest
<1>5. CASE StoreReject
  <2>1. /\ queue # <<>> /\ Last(queue) = cur.path /\ queue' = Front(queue)
        /\ Exists(cur.path) => files[cur.path] = cur.lines
        /\ Unlink(cur.path) /\ step' = "idle" /\ ~ret' /\ UNCHANGED <<mode, unread>>
        /\ step = "enforce" /\ cur.lines = batch
      BY <1>0, <1>5 DEF StoreReject, StoreInv, NewestSurvivesEviction, CustodyInv,
         StoresItsBatch
  <2>2. Range(queue) \subseteq Range(queue') \cup {cur.path}
      BY <1>0, <2>1, FrontRange
  <2>3. \A p \in DOMAIN files' : p \in DOMAIN files /\ Content(p)' = Content(p)
      BY <2>1, UnlinkFacts DEF Content, Exists
  <2>4. JustRejected' = Range(batch) /\ Content(cur.path) \subseteq Range(batch)
      BY <1>0, <1>1, <2>1 DEF JustRejected, Storing, Content
  <2> QED
      BY <1>0, <1>1, <2>1, <2>2, <2>3, <2>4 DEF BacklogInv, NoOrphans
<1>6. CASE StoreAccept
  <2>1. /\ UNCHANGED <<files, queue, unread, mode>> /\ step = "enforce"
      BY <1>6 DEF StoreAccept
  <2>2. \A p \in DOMAIN files' : Content(p)' = Content(p)
      BY <2>1 DEF Content, Exists
  <2> QED
      BY <1>0, <1>1, <2>1, <2>2 DEF BacklogInv, NoOrphans
<1> QED
    BY <1>2, <1>3, <1>4, <1>5, <1>6 DEF InsideStore, StoreInside

\* mark_processed() removes settled files only.
LEMMA SettleDiskLeavesNone ==
    ASSUME BacklogInv, [Next]_vars, SettleDisk
    PROVE  NoOrphans'
<1>0. /\ CustodyInv /\ StoreInv /\ FilesThere /\ ~Storing
      /\ UNCHANGED <<unread, mode, step, cur>> /\ step = "idle"
    BY BacklogTypes DEF SettleDisk, MarkProcessed, Storing, StoreInv, StoreTypeOK
<1>1. JustRejected = {} /\ Settled \subseteq Settled'
    BY <1>0, SettledGrows DEF JustRejected, Storing
<1>2. CASE UNCHANGED <<files, queue>>
    BY <1>0, <1>1, <1>2, PathsKept
<1>3. CASE /\ queue # <<>> /\ Head(queue) = pending.path /\ Unlink(Head(queue))
           /\ queue' = Tail(queue)
  <2>1. pending # Nothing /\ Range(pending.lines) \subseteq Settled
    <3>1. CASE wpc = "settled"
        BY <1>0, <3>1 DEF CustodyInv, FinishedIsSettled, SettleDisk, MarkProcessed
    <3>2. CASE pending.lines = <<>>
      <4>1. Range(pending.lines) = {}
          BY <3>2 DEF Range
      <4> QED
          BY <4>1 DEF SettleDisk, MarkProcessed
    <3> QED
        BY <3>1, <3>2 DEF SettleDisk
  <2>2. Content(Head(queue)) \subseteq Settled
      BY <1>0, <1>3, <2>1 DEF StoreInv, PendingUnchanged, Content
  <2> QED
      BY <1>0, <1>1, <1>3, <2>2, FrontGoes
<1> QED
    BY <1>2, <1>3 DEF SettleDisk, MarkProcessed

\* A new file holds lines the worker still has.
LEMMA OpenLeavesNone ==
    ASSUME Undisturbed, BacklogInv, [Next]_vars, DrainTake \/ Persist
    PROVE  NoOrphans'
<1>0. /\ CustodyInv /\ FilesThere /\ ~Storing /\ mode # "disabled"
    BY BacklogTypes DEF DrainTake, Persist, Storing, FilesThere
<1>1. JustRejected = {} /\ Settled \subseteq Settled' /\ Range(<<>>) = {}
    BY <1>0, SettledGrows DEF JustRejected, Storing, Range
<1>2. /\ step = "idle" /\ step' = "write" /\ UNCHANGED <<mode, queue, unread>>
      /\ files' = With(cur'.path, <<>>)
  <2>1. \E lines : StoreOpen(lines)
      BY <1>0 DEF DrainTake, Persist, StoreDisabled
  <2> QED
      BY <2>1 DEF StoreOpen, Undisturbed
<1>3. \A p \in DOMAIN files' : p # cur'.path => p \in DOMAIN files /\ Content(p)' = Content(p)
    BY <1>2 DEF With, Content, Exists
<1> QED
    BY <1>1, <1>2, <1>3 DEF BacklogInv, NoOrphans

\* After store() the file is queued, or the worker writes its lines off.
LEMMA StoredLeavesNone ==
    ASSUME BacklogInv, [Next]_vars, DrainStored \/ Persisted
    PROVE  NoOrphans'
<1>1. UNCHANGED storeVars /\ JustRejected \subseteq lost'
    BY DEF DrainStored, Persisted, Stored, JustRejected, Storing
<1> QED
    BY <1>1, PathsKept DEF storeVars, Settled

\* load_existing() queues every file of the directory.
LEMMA ConstructLeavesNone ==
    ASSUME Undisturbed, BacklogInv, [Next]_vars, Construct
    PROVE  NoOrphans'
<1>0. /\ CustodyInv /\ StoreTypeOK /\ FilesThere /\ queue \in Seq(Path) /\ ~Storing
      /\ UNCHANGED <<files, step, cur, writerVars>>
    BY BacklogTypes DEF Construct, StoreStart, Initialize, LoadEntry, LoadDone, Storing
<1>1. JustRejected = {} /\ Settled \subseteq Settled'
    BY <1>0, SettledGrows DEF JustRejected, Storing
<1>2. \A p \in DOMAIN files' : p \in DOMAIN files /\ Content(p)' = Content(p)
    BY <1>0 DEF Content, Exists
<1>3. CASE Initialize
    BY <1>0, <1>2, <1>3 DEF Initialize, NoOrphans, StoreTypeOK
<1>4. CASE LoadEntry
  <2>1. PICK p \in unread : /\ unread' = unread \ {p}
                            /\ queue' = Append(queue, p) \/ ~Exists(p) \/ "io" \in Faults
      BY <1>4 DEF LoadEntry
  <2>2. p \in Path /\ queue' = Append(queue, p) /\ UNCHANGED mode
      BY <1>0, <1>4, <2>1 DEF StoreTypeOK, FilesThere, Exists, Undisturbed, LoadEntry
  <2>3. Range(queue') = Range(queue) \cup {p}
      BY <1>0, <2>2, AppendOnce
  <2> QED
      BY <1>0, <1>1, <1>2, <2>1, <2>2, <2>3 DEF BacklogInv, NoOrphans
<1>5. CASE LoadDone
    BY <1>0, <1>1, <1>2, <1>5 DEF LoadDone, BacklogInv, NoOrphans
<1> QED
    BY <1>3, <1>4, <1>5 DEF Construct, StoreStart

LEMMA NoOrphansStep ==
    ASSUME Undisturbed, BacklogInv, [Next]_vars
    PROVE  NoOrphans'
<1>0. /\ CustodyInv /\ FilesThere /\ (step # "idle" => Storing)
      /\ (wpc = "off" <=> life = "off")
    BY BacklogTypes
<1>1. CASE UNCHANGED <<files, queue, unread, step, cur, mode>> /\ ~Storing
    BY <1>1, PathsKept DEF JustRejected, Storing
<1>2. CASE UNCHANGED <<storeVars, wpc, batch>>
  <2>1. JustRejected' = JustRejected
      BY <1>2 DEF JustRejected, Storing, storeVars
  <2> QED
      BY <1>2, <2>1, PathsKept DEF storeVars
<1>3. CASE mode' \notin {"loading", "on"}
    BY <1>3 DEF NoOrphans
<1>4. CASE Worker
  <2>1. CASE RetryDisk \/ FetchDisk \/ SkipDisk \/ DiskOk \/ DiskRefused \/ DiskRetryable
             \/ DrainEnd \/ WakeUp
      BY <1>1, <2>1 DEF RetryDisk, FetchDisk, NextBatch, SkipDisk, DiskOk, DiskRefused,
         DiskRetryable, DrainEnd, WakeUp, storeVars, Storing
  <2>2. CASE Lock \/ Woken \/ TimedOut \/ Park
    <3>1. wpc \in {"lock", "waiting", "parking"} /\ UNCHANGED storeVars
        BY <2>2 DEF Lock, Woken, TimedOut, Park, TakeBatch, TestAgain
    <3> QED
        BY <1>1, <3>1 DEF storeVars, Storing
  <2>3. CASE MemoryOk \/ MemoryRefused \/ MemoryRetryable
      BY <1>1, <2>3 DEF MemoryOk, MemoryRefused, MemoryRetryable, storeVars, Storing
  <2>4. ~FetchUnreadable
      BY BacklogTypes, NothingUnreadable
  <2> QED
      BY <1>4, <2>1, <2>2, <2>3, <2>4, InsideStoreLeavesNone, SettleDiskLeavesNone,
         OpenLeavesNone, StoredLeavesNone DEF Worker
<1>5. CASE Producer
    BY <1>2, <1>5 DEF Producer, Enqueue, EnqueueFull, ReportFull, workerVars
<1>6. CASE Owner
  <2>1. CASE Construct
      BY <2>1, ConstructLeavesNone
  <2>2. CASE StartWorker
      BY <1>0, <1>1, <2>2 DEF StartWorker, storeVars, Storing
  <2>3. CASE Shutdown \/ NotifyAll
      BY <1>2, <2>3 DEF Shutdown, NotifyAll, workerVars
  <2>4. CASE Join
      BY <1>3, <2>4 DEF Join, Destroy, Forget
  <2> QED
      BY <1>6, <2>1, <2>2, <2>3, <2>4 DEF Owner
<1>7. CASE Environment
    BY <1>3, <1>7 DEF Environment, ProcessDies, Crash, Forget, Vanish, Undisturbed
<1>8. CASE UNCHANGED vars
    BY <1>2, <1>8 DEF vars, writerVars
<1> QED
    BY <1>4, <1>5, <1>6, <1>7, <1>8 DEF Next

LEMMA BacklogStep ==
    ASSUME Undisturbed
    PROVE  BacklogInv /\ [Next]_vars => BacklogInv'
    BY GaugeStep, NoOrphansStep DEF BacklogInv

LEMMA BacklogStarts == Init => BacklogInv
    BY GaugeInit DEF Init, StoreInit, BacklogInv, NoOrphans

\* While nothing is being stored and the queue is empty, the disk holds no line that is
\* not settled.
LEMMA EmptyQueueSettled ==
    ASSUME BacklogInv, wpc # "off", ~Storing, queue = <<>>
    PROVE  OnDisk \subseteq Settled \cup {Torn}
<1>1. mode = "on" /\ unread = {} /\ step = "idle" /\ Range(queue) = {}
    BY BacklogTypes DEF StoreTypeOK, Range
<1>2. \A p \in DOMAIN files : Content(p) \subseteq Settled \cup {Torn}
    BY <1>1 DEF BacklogInv, NoOrphans, JustRejected, Storing
<1> QED
    BY <1>2 DEF OnDisk

\* Unless the disk fails or somebody else removes files, an "OK" of the diagnostics while the
\* worker sleeps or waits means that every line is settled or waits for its first upload.
THEOREM AllClearCanBeTrusted ==
    ASSUME {"io", "vanish"} \cap Faults = {}
    PROVE  Spec => []AllClearIsTrue
<1>1. BacklogInv /\ [Next]_vars => BacklogInv'
    BY BacklogStep DEF Undisturbed
<1>2. BacklogInv => AllClearIsTrue
  <2> SUFFICES ASSUME BacklogInv, wpc \in {"sleep", "waiting"},
                      Port!Level(depth, mBatches > 0, lastErr) = "OK"
               PROVE  1 .. produced \subseteq Range(q) \cup Settled
      BY DEF AllClearIsTrue
  <2>1. ~(mBatches > 0)
      BY DEF Port!Level
  <2>2. mBatches = Len(queue) /\ ~Storing /\ wpc # "off"
      BY DEF BacklogInv, GaugeInv, GaugesFollow, Storing
  <2>3. queue = <<>>
      BY <2>1, <2>2, BacklogTypes, EmptySeq, LenProperties
  <2>4. batch = <<>>
      BY BacklogTypes DEF CustodyInv, WriterTypeOK
  <2>5. Range(batch) = {} /\ OnDisk \subseteq Settled \cup {Torn}
      BY <2>2, <2>3, <2>4, EmptyQueueSettled DEF Range
  <2>6. Torn \notin 1 .. produced
      BY DEF Torn
  <2> QED
      BY <2>5, <2>6, BacklogTypes DEF CustodyInv, NoLineForgotten
<1> QED
    BY <1>1, <1>2, BacklogStarts, PTL DEF Spec

-----------------------------------------------------------------------------
\* Old lines go first.

\* No two queued names of one millisecond differ in the width of their numbers.
SameWidth == \A i, j \in DOMAIN queue : ~WidthChange(queue[i], queue[j])

\* The first line of a file is its oldest, torn lines apart.
FirstIsOldest ==
    \A p \in DOMAIN files : \A i \in DOMAIN files[p] :
        files[p][i] = Torn \/ files[p][1] <= files[p][i]

\* A worker that is not stopping takes lines from memory only when nothing is queued.
DiskFirst ==
    (wpc \in {"lock", "parking", "waiting"} /\ ~stop) \/ wpc = "post" =>
        queue = <<>> /\ pending = Nothing

\* The batch being uploaded from the disk is older than every other batch in the queue.
PendingOldest ==
    pending # Nothing =>
        \A p \in Range(queue) \ {pending.path} :
            AllBefore(Range(pending.lines) \ {Torn}, Lines(p))

OldestInv ==
    /\ OrderInv
    /\ BacklogInv
    /\ FirstIsOldest
    /\ DiskFirst
    /\ PendingOldest

\* A file that was cut short begins with the first line of its batch, unless it has
\* nothing but a torn line.
LEMMA FragmentEntries ==
    ASSUME NEW lines \in Seq(Line), NEW part \in Fragments(lines) \cup {lines},
           NEW i \in DOMAIN part
    PROVE  part[i] = Torn \/ (i \in DOMAIN lines /\ 1 \in DOMAIN lines
                              /\ part[1] = lines[1] /\ part[i] = lines[i])
<1>1. DOMAIN lines = 1 .. Len(lines) /\ Len(lines) \in Nat
    BY LenProperties
<1>2. CASE part = lines
  <2>1. 1 \in DOMAIN lines /\ i \in DOMAIN lines
      BY <1>1, <1>2
  <2> QED
      BY <1>2, <2>1
<1>3. ASSUME NEW k \in 0 .. Len(lines) - 1,
             part = SubSeq(lines, 1, k) \/ part = Append(SubSeq(lines, 1, k), Torn)
      PROVE  part[i] = Torn \/ (i \in DOMAIN lines /\ 1 \in DOMAIN lines
                                /\ part[1] = lines[1] /\ part[i] = lines[i])
  <2>1. /\ SubSeq(lines, 1, k) \in Seq(Line) /\ Len(SubSeq(lines, 1, k)) = k
        /\ DOMAIN SubSeq(lines, 1, k) = 1 .. k
        /\ \A n \in 1 .. k : SubSeq(lines, 1, k)[n] = lines[n]
      BY <1>1
  <2>2. CASE part = SubSeq(lines, 1, k)
    <3>0. i \in 1 .. k
        BY <2>1, <2>2
    <3>1. 1 \in 1 .. k /\ i \in DOMAIN lines /\ 1 \in DOMAIN lines
        BY <1>1, <3>0
    <3> QED
        BY <2>1, <2>2, <3>0, <3>1
  <2>3. CASE part = Append(SubSeq(lines, 1, k), Torn)
    <3>1. /\ DOMAIN part = 1 .. k + 1 /\ part[k + 1] = Torn
          /\ \A n \in 1 .. k : part[n] = lines[n]
        BY <1>3, <2>1, <2>3, AppendFacts, LenProperties DEF Line, Torn
    <3>2. CASE i = k + 1
        BY <3>1, <3>2
    <3>3. CASE i # k + 1
      <4>1. i \in 1 .. k /\ 1 \in 1 .. k /\ i \in DOMAIN lines /\ 1 \in DOMAIN lines
          BY <1>1, <1>3, <3>1, <3>3
      <4> QED
          BY <3>1, <4>1
    <3> QED
        BY <3>2, <3>3
  <2> QED
      BY <1>3, <2>2, <2>3
<1> QED
    BY <1>2, <1>3 DEF Fragments

LEMMA FirstIsOldestStep ==
    ASSUME OrderInv, FirstIsOldest, [Next]_vars
    PROVE  FirstIsOldest'
<1>0. /\ CustodyInv /\ batch \in Seq(1 .. produced) /\ batch \in Seq(Line) /\ Rising(batch)
    BY OrderTypes, LinesGrow DEF OrderInv, MemoryOrder
<1> SUFFICES ASSUME NEW p \in DOMAIN files', NEW i \in DOMAIN files'[p]
             PROVE  files'[p][i] = Torn \/ files'[p][1] <= files'[p][i]
    BY DEF FirstIsOldest
<1>1. CASE p \in DOMAIN files /\ files'[p] = files[p]
    BY <1>1 DEF FirstIsOldest
<1>2. CASE files'[p] = <<>>
    BY <1>2
<1>3. CASE files'[p] \in Fragments(batch) \cup {batch}
  <2>1. CASE files'[p][i] # Torn
    <3>1. /\ i \in DOMAIN batch /\ 1 \in DOMAIN batch
          /\ files'[p][1] = batch[1] /\ files'[p][i] = batch[i]
        BY <1>0, <1>3, <2>1, FragmentEntries
    <3>2. batch[1] <= batch[i]
      <4>1. i \in 1 .. Len(batch) /\ Len(batch) \in Nat
          BY <1>0, <3>1, LenProperties
      <4>2. batch[i] \in Nat /\ batch[1] \in Nat
          BY <1>0, <3>1, LenProperties DEF Line
      <4>3. i = 1 \/ 1 < i
          BY <4>1
      <4> QED
          BY <1>0, <3>1, <4>2, <4>3 DEF Rising
    <3> QED
        BY <3>1, <3>2
  <2> QED
      BY <2>1
<1>4. FilesShrink => p \in DOMAIN files /\ files'[p] = files[p]
    BY DEF FilesShrink
<1>5. FileOpened => files'[p] = <<>> \/ (p \in DOMAIN files /\ files'[p] = files[p])
    BY DEF FileOpened, With
<1>6. FileFilled => \/ files'[p] \in Fragments(batch) \cup {batch}
                    \/ p \in DOMAIN files /\ files'[p] = files[p]
    BY DEF FileFilled, With
<1> QED
    BY <1>0, <1>1, <1>2, <1>3, <1>4, <1>5, <1>6, FileSteps

\* While a batch is being uploaded, the queue changes in store() only.
LEMMA QueueChanges ==
    ASSUME Undisturbed, BacklogInv, [Next]_vars
    PROVE  InsideStore \/ pending' = Nothing \/ UNCHANGED queue
<1>0. FilesThere /\ StoreTypeOK
    BY BacklogTypes
<1>1. CASE Worker
  <2>1. ~FetchUnreadable
      BY BacklogTypes, NothingUnreadable
  <2> QED
      BY <1>1, <2>1 DEF Worker, RetryDisk, FetchDisk, SkipDisk, SettleDisk, DiskOk,
         DiskRefused, DiskRetryable, DrainTake, DrainEnd, DrainStored, Persisted, Stored,
         WakeUp, Lock, Park, Woken, TimedOut, TakeBatch, TestAgain, MemoryOk, MemoryRefused,
         MemoryRetryable, Persist, StoreOpen, StoreDisabled, NextBatch, MarkProcessed,
         storeVars
<1>2. CASE Producer
    BY <1>2 DEF Producer, Enqueue, EnqueueFull, ReportFull, storeVars
<1>3. CASE Owner
  <2>1. CASE Construct
      BY <1>0, <2>1 DEF Construct, StoreStart, Initialize, LoadEntry, LoadDone, StoreTypeOK
  <2> QED
      BY <1>3, <2>1 DEF Owner, StartWorker, Shutdown, NotifyAll, Join, Destroy, Forget,
         storeVars
<1>4. CASE Environment
    BY <1>4 DEF Environment, ProcessDies, Crash, Forget, Vanish
<1>5. CASE UNCHANGED vars
    BY <1>5 DEF vars, storeVars
<1> QED
    BY <1>1, <1>2, <1>3, <1>4, <1>5 DEF Next

\* How the worker gets to its lines in memory.
LEMMA ToMemory ==
    ASSUME CustodyInv, [Next]_vars, ~FetchUnreadable,
           (wpc' \in {"lock", "parking", "waiting"} /\ ~stop') \/ wpc' = "post"
    PROVE  /\ UNCHANGED <<queue, pending>> \/ Vanish
           /\ \/ wpc = "top" /\ pending = Nothing /\ queue = <<>>
              \/ wpc \in {"lock", "parking", "waiting"} /\ ~stop
              \/ wpc = "post"
<1>0. (wpc = "off" <=> life = "off") /\ (step # "idle" => Storing)
    BY DEF CustodyInv, WriterTypeOK, Storing
<1>1. CASE Worker
  <2>1. CASE Lock \/ Woken \/ TimedOut \/ Park
    <3>1. /\ wpc \in {"lock", "waiting", "parking"} /\ UNCHANGED <<storeVars, stop>>
          /\ wpc' = "post" => ~stop
        BY <2>1 DEF Lock, Woken, TimedOut, Park, TakeBatch, TestAgain, objectVars
    <3> QED
        BY <3>1 DEF storeVars
  <2>2. CASE InsideStore
    <3>1. wpc \in {"drainStore", "persistStore"} /\ wpc' = wpc
        BY <1>0, <2>2 DEF InsideStore, StoreInside, StoreWrite, StoreWriteFails, Enforce,
           StoreReject, StoreAccept, writerVars, Storing
    <3> QED
        BY <3>1
  <2>3. CASE SkipDisk
      BY <2>3 DEF SkipDisk, storeVars, objectVars
  <2> QED
      BY <1>1, <2>1, <2>2, <2>3 DEF Worker, RetryDisk, FetchDisk, SettleDisk, DiskOk,
         DiskRefused, DiskRetryable, DrainTake, DrainEnd, DrainStored, Persisted, Stored,
         WakeUp, MemoryOk, MemoryRefused, MemoryRetryable, Persist
<1>2. CASE Producer
    BY <1>2 DEF Producer, Enqueue, EnqueueFull, ReportFull, storeVars, workerVars, objectVars
<1>3. CASE Owner
    BY <1>0, <1>3 DEF Owner, Construct, StartWorker, Shutdown, NotifyAll, Join, ObjectGone,
       storeVars, workerVars, writerVars
<1>4. CASE Environment
    BY <1>4 DEF Environment, ProcessDies, ObjectGone, Vanish, writerVars
<1>5. CASE UNCHANGED vars
    BY <1>5 DEF vars, storeVars, writerVars
<1> QED
    BY <1>1, <1>2, <1>3, <1>4, <1>5 DEF Next

\* run() goes on to memory only when the disk queue is empty.
LEMMA DiskFirstStep ==
    ASSUME Undisturbed, BacklogInv, DiskFirst, [Next]_vars
    PROVE  DiskFirst'
<1>1. ~Vanish
    BY DEF Vanish, Undisturbed
<1> QED
    BY <1>1, BacklogTypes, NothingUnreadable, ToMemory DEF DiskFirst

\* next() gives out the oldest batch of the disk.
LEMMA PendingOldestStep ==
    ASSUME Undisturbed, OldestInv, SameWidth, [Next]_vars
    PROVE  PendingOldest'
<1>0. /\ CustodyInv /\ StoreInv /\ StoreTypeOK /\ FilesThere /\ queue \in Seq(Path)
      /\ OrderInv /\ BacklogInv
    BY BacklogTypes DEF OldestInv
<1>1. CASE pending' = Nothing
    BY <1>1 DEF PendingOldest
<1>2. CASE FetchDisk /\ UNCHANGED <<files, queue>>
  <2>1. /\ pending' = [path |-> Head(queue), lines |-> files[Head(queue)]]
        /\ Exists(Head(queue)) /\ queue # <<>>
      BY <1>2 DEF FetchDisk, NextBatch
  <2>2. /\ Range(pending'.lines) \ {Torn} = Lines(Head(queue))
        /\ pending'.path = Head(queue)
      BY <2>1 DEF Lines, Content
  <2>3. ASSUME NEW p \in Range(queue), p # Head(queue)
        PROVE  AllBefore(Lines(Head(queue)), Lines(p))
    <3>1. PICK j \in DOMAIN queue : queue[j] = p
        BY DEF Range
    <3>2. 1 \in DOMAIN queue /\ Head(queue) = queue[1] /\ 1 < j
      <4>1. /\ DOMAIN queue = 1 .. Len(queue) /\ Len(queue) \in Nat \ {0}
            /\ Head(queue) = queue[1]
          BY <1>0, <2>1, EmptySeq, LenProperties
      <4>2. j # 1
          BY <2>3, <3>1, <4>1
      <4> QED
          BY <4>1, <4>2
    <3>3. Stamp(Head(queue), p)
        BY <1>0, <3>1, <3>2 DEF OrderInv, NamesInOrder, InOrder, Follows, SameWidth
    <3>4. Head(queue) \in DOMAIN files /\ p \in DOMAIN files
        BY <1>0, <2>1 DEF FilesThere, Exists
    <3> QED
        BY <1>0, <3>3, <3>4 DEF OrderInv, AgeOrder
  <2>4. \A p : Lines(p)' = Lines(p)
      BY <1>2 DEF Lines, Content, Exists
  <2> QED
      BY <1>2, <2>2, <2>3, <2>4 DEF PendingOldest
<1>3. ASSUME UNCHANGED pending, pending # Nothing, pending' # Nothing,
             NEW p \in Range(queue'), p # pending.path
      PROVE  AllBefore(Range(pending.lines) \ {Torn}, Lines(p)')
  <2>1. CASE Lines(p)' = {}
      BY <2>1 DEF AllBefore
  <2>2. CASE Lines(p)' \subseteq Range(batch)
      BY <1>0, <2>2 DEF OrderInv, PendingBefore, AllBefore
  <2>3. CASE p \in Range(queue) /\ Lines(p)' = Lines(p)
      BY <1>3, <2>3 DEF OldestInv, PendingOldest
  <2>4. p \notin DOMAIN files' => Lines(p)' = {}
      BY DEF Lines, Content, Exists
  <2>5. CASE p \in DOMAIN files' /\ p \in Range(queue)
      BY <1>0, <2>1, <2>2, <2>3, <2>5, LinesAfter, FileSteps
  <2>6. CASE p \notin Range(queue)
    <3>1. InsideStore
        BY <1>0, <1>3, <2>6, QueueChanges
    <3>2. CASE StoreWrite
      <4>1. cur.path \in Path /\ cur.lines = batch
          BY <1>0, <3>2, BatchFacts DEF StoreWrite, StoreTypeOK, CustodyInv, StoresItsBatch
      <4>2. Range(queue') = Range(queue) \cup {cur.path}
          BY <1>0, <3>2, <4>1, AppendOnce DEF StoreWrite
      <4>3. p = cur.path
          BY <1>3, <2>6, <4>2
      <4>4. Lines(p)' \subseteq Range(batch)
          BY <3>2, <4>1, <4>3 DEF StoreWrite, With, Lines, Content, Exists
      <4> QED
          BY <2>2, <4>4
    <3>3. CASE StoreWriteFails \/ StoreAccept
        BY <1>3, <2>6, <3>3 DEF StoreWriteFails, StoreAccept
    <3>4. CASE Enforce
        BY <1>0, <1>3, <2>6, <3>4, TailOnce, EmptySeq DEF Enforce, DropOldest
    <3>5. CASE StoreReject
        BY <1>0, <1>3, <2>6, <3>5, FrontOnce DEF StoreReject
    <3> QED
        BY <3>1, <3>2, <3>3, <3>4, <3>5 DEF InsideStore, StoreInside
  <2> QED
      BY <2>1, <2>4, <2>5, <2>6
<1> QED
    BY <1>0, <1>1, <1>2, <1>3, PendingSteps DEF PendingOldest

LEMMA OldestStep ==
    ASSUME Undisturbed
    PROVE  OldestInv /\ SameWidth /\ [Next]_vars => OldestInv'
    BY OrderStep, BacklogStep, FirstIsOldestStep, DiskFirstStep, PendingOldestStep
    DEF OldestInv

LEMMA OldestStarts == Init => OldestInv
<1> SUFFICES ASSUME Init PROVE OldestInv
    OBVIOUS
<1>1. DOMAIN files = {} /\ pending = Nothing /\ wpc = "off"
    BY DEF Init, StoreInit
<1> QED
    BY <1>1, OrderInit, BacklogStarts DEF OldestInv, FirstIsOldest, DiskFirst, PendingOldest

\* A line of memory that waits behind no file: all older ones are settled.
LEMMA MemoryIsOldest ==
    ASSUME OldestInv, wpc = "post"
    PROVE  1 .. Head(batch) - 1 \subseteq Settled
<1>0. /\ batch \in Seq(1 .. produced) /\ produced \in Nat /\ batch # <<>>
      /\ Rising(batch) /\ AllBefore(Range(batch), Range(q)) /\ CustodyInv
      /\ Range(batch) \subseteq 1 .. produced /\ Range(q) \subseteq 1 .. produced
    BY OrderTypes DEF OldestInv, OrderInv, MemoryOrder, CustodyInv, WriterTypeOK
<1>1. OnDisk \subseteq Settled \cup {Torn}
    BY EmptyQueueSettled DEF OldestInv, DiskFirst, Storing
<1> SUFFICES ASSUME NEW x \in 1 .. Head(batch) - 1
             PROVE  x \in Settled
    OBVIOUS
<1>2. /\ DOMAIN batch = 1 .. Len(batch) /\ Len(batch) \in Nat \ {0}
      /\ Head(batch) = batch[1] /\ batch[1] \in 1 .. produced /\ batch[1] \in Range(batch)
    BY <1>0, EmptySeq, LenProperties DEF Range
<1>3. x \in 1 .. produced /\ x < batch[1] /\ x # Torn
    BY <1>0, <1>2 DEF Torn
<1>4. x \notin Range(batch)
  <2> SUFFICES ASSUME NEW i \in DOMAIN batch, batch[i] = x PROVE FALSE
      BY DEF Range
  <2>1. i = 1 \/ (1 \in DOMAIN batch /\ 1 < i)
      BY <1>2
  <2>2. i # 1 => batch[1] < x
      BY <1>0, <2>1 DEF Rising
  <2> QED
      BY <1>0, <1>2, <1>3, <2>2
<1>5. x \notin Range(q)
  <2>1. x \in Range(q) => batch[1] < x
      BY <1>0, <1>2 DEF AllBefore
  <2> QED
      BY <1>0, <1>2, <1>3, <2>1
<1> QED
    BY <1>0, <1>1, <1>3, <1>4, <1>5 DEF CustodyInv, NoLineForgotten

\* What is older than the pending batch is neither in memory nor in a file.
LEMMA DiskIsOldest ==
    ASSUME OldestInv, wpc = "disk", pending.lines # <<>>
    PROVE  1 .. Head(pending.lines) - 1 \subseteq Settled
<1>0. /\ CustodyInv /\ StoreInv /\ StoreTypeOK /\ mode = "on" /\ unread = {}
      /\ pending # Nothing /\ step = "idle" /\ produced \in Nat /\ JustRejected = {}
    BY BacklogTypes, WriterAssumption
    DEF OldestInv, CustodyInv, WriterTypeOK, StoreTypeOK, JustRejected, Storing
<1> SUFFICES ASSUME NEW x \in 1 .. Head(pending.lines) - 1
             PROVE  x \in Settled
    OBVIOUS
<1>1. /\ Head(pending.lines) = pending.lines[1] /\ 1 \in DOMAIN pending.lines
      /\ pending.lines[1] \in Range(pending.lines)
    BY <1>0, BatchFacts, EmptySeq, LenProperties DEF StoreTypeOK, Range
<1>2. Range(pending.lines) \subseteq 0 .. produced
    BY DEF OldestInv, OrderInv, LedgerInv, LinesKnown
<1>3. /\ pending.lines[1] \in 1 .. produced /\ x \in 1 .. produced
      /\ x < pending.lines[1] /\ x # Torn /\ pending.lines[1] # Torn
    BY <1>0, <1>1, <1>2 DEF Torn
<1>4. ~(pending.lines[1] < x) /\ ~(pending.lines[1] <= x)
    BY <1>3
<1>5. x \notin Range(batch) \cup Range(q)
    BY <1>1, <1>3, <1>4 DEF OldestInv, OrderInv, PendingBefore, AllBefore
<1>6. ASSUME NEW p \in DOMAIN files, x \in Content(p)
      PROVE  x \in Settled
  <2>1. CASE p = pending.path
    <3>1. files[p] = pending.lines
        BY <1>0, <2>1 DEF StoreInv, PendingUnchanged, Exists
    <3>2. PICK i \in DOMAIN files[p] : files[p][i] = x
        BY <1>6 DEF Content, Range
    <3> QED
        BY <1>3, <1>4, <3>1, <3>2 DEF OldestInv, FirstIsOldest
  <2>2. CASE p \in Range(queue) \ {pending.path}
      BY <1>0, <1>1, <1>3, <1>4, <1>6, <2>2 DEF OldestInv, PendingOldest, AllBefore, Lines
  <2>3. CASE Content(p) \subseteq Settled \cup {Torn}
      BY <1>3, <1>6, <2>3
  <2> QED
      BY <1>0, <2>1, <2>2, <2>3 DEF OldestInv, BacklogInv, NoOrphans
<1> QED
    BY <1>0, <1>3, <1>5, <1>6 DEF CustodyInv, NoLineForgotten, OnDisk

\* Unless the disk fails, somebody else removes files or a sequence number gets wider
\* between two queued batches of one millisecond, lines are uploaded in the order they
\* were produced in: all that is older than the lines of a POST has been settled.
THEOREM OldLinesGoFirst ==
    ASSUME {"io", "vanish"} \cap Faults = {}
    PROVE  Spec /\ []SameWidth => []OldestFirst
<1>1. OldestInv /\ SameWidth /\ [Next]_vars => OldestInv'
    BY OldestStep DEF Undisturbed
<1>2. OldestInv => OldestFirst
    BY MemoryIsOldest, DiskIsOldest DEF OldestFirst
<1> QED
    BY <1>1, <1>2, OldestStarts, PTL DEF Spec

-----------------------------------------------------------------------------
\* Names of one digit.

\* The numbers that dropping digits of n, one after the other, leads to.
Shortens(n, C) == n \in C /\ C \subseteq 0 .. n /\ \A x \in C : x >= Radix => x \div Radix \in C
Roots(n) == {x \in 0 .. n : \A C : Shortens(n, C) => x \in C}

\* What division by the radix does.
LEMMA Shorter ==
    ASSUME NEW n \in Nat, n >= Radix
    PROVE  n \div Radix \in Nat /\ n \div Radix < n
<1>1. Radix \in Nat /\ Radix >= 2
    BY StoreAssumption
<1> DEFINE d == n \div Radix
<1>2. /\ d \in Int /\ d >= 0
      /\ n = Radix * d + (n % Radix) /\ n % Radix \in 0 .. Radix - 1
    BY <1>1
<1> SUFFICES d \in Nat /\ d < n
    OBVIOUS
<1> HIDE DEF d
<1>3. d \in Nat /\ n >= Radix * d
    BY <1>1, <1>2
<1>4. Radix * d >= 2 * d
    BY <1>1, <1>3
<1> QED
    BY <1>1, <1>3, <1>4

\* A number of more than one digit has one prefix more than what it is without the last.
LEMMA OnePrefixMore ==
    ASSUME NEW n \in Nat
    PROVE  /\ n < Radix => Roots(n) = {n}
           /\ n >= Radix => /\ Roots(n) = Roots(n \div Radix) \cup {n}
                            /\ n \notin Roots(n \div Radix)
<1>0. Radix \in Nat
    BY StoreAssumption
<1>1. CASE n < Radix
  <2>1. Shortens(n, {n})
      BY <1>1, StoreAssumption DEF Shortens
  <2>2. n \in Roots(n)
      BY DEF Roots, Shortens
  <2>3. Roots(n) \subseteq {n}
      BY <2>1 DEF Roots
  <2> QED
      BY <1>1, <2>2, <2>3, StoreAssumption
<1>2. CASE n >= Radix
  <2> DEFINE m == n \div Radix
  <2>1. m \in Nat /\ m < n
      BY <1>2, Shorter
  <2> HIDE DEF m
  <2>2. ASSUME NEW D, Shortens(m, D)
        PROVE  Shortens(n, D \cup {n})
      BY <1>2, <2>1, <2>2 DEF Shortens, m
  <2>3. ASSUME NEW C, Shortens(n, C)
        PROVE  Shortens(m, C \cap (0 .. m))
    <3>1. m \in C
        BY <1>2, <2>3 DEF Shortens, m
    <3>2. ASSUME NEW x \in C \cap (0 .. m), x >= Radix
          PROVE  x \div Radix \in C \cap (0 .. m)
        BY <2>1, <2>3, <3>2, Shorter DEF Shortens
    <3> QED
        BY <2>1, <3>1, <3>2 DEF Shortens
  <2>4. Roots(n) \subseteq Roots(m) \cup {n}
    <3> SUFFICES ASSUME NEW x \in Roots(n), x # n PROVE x \in Roots(m)
        OBVIOUS
    <3>1. \A D : Shortens(m, D) => x \in D
        BY <2>2 DEF Roots
    <3>2. Shortens(m, 0 .. m)
      <4>1. \A x_ \in 0 .. m : x_ >= Radix => x_ \div Radix \in 0 .. m
          BY <2>1, Shorter
      <4> QED
          BY <2>1, <4>1 DEF Shortens
    <3> QED
        BY <3>1, <3>2 DEF Roots
  <2>5. Roots(m) \subseteq Roots(n)
    <3> SUFFICES ASSUME NEW x \in Roots(m) PROVE x \in Roots(n)
        OBVIOUS
    <3>1. x \in 0 .. n
        BY <2>1 DEF Roots
    <3>2. ASSUME NEW C, Shortens(n, C) PROVE x \in C
      <4>1. Shortens(m, C \cap (0 .. m))
          BY <2>3, <3>2
      <4> QED
          BY <4>1 DEF Roots
    <3> QED
        BY <3>1, <3>2 DEF Roots
  <2>6. n \in Roots(n)
      BY DEF Roots, Shortens
  <2>7. n \notin Roots(m)
      BY <2>1 DEF Roots
  <2>8. ~(n < Radix)
      BY <1>0, <1>2
  <2>9. Roots(n) = Roots(m) \cup {n}
      BY <2>4, <2>5, <2>6
  <2> QED
      BY <2>7, <2>8, <2>9 DEF m
<1> QED
    BY <1>0, <1>1, <1>2

\* The recursive definition of Digits has a solution, the number of prefixes, so the
\* function Digits chooses satisfies its equation.
LEMMA DigitsUnfold ==
    \A n \in Nat : Digits[n] = IF n < Radix THEN 1 ELSE 1 + Digits[n \div Radix]
<1> DEFINE Solves(f) == f = [n \in Nat |-> IF n < Radix THEN 1 ELSE 1 + f[n \div Radix]]
           lengths == [n \in Nat |-> Cardinality(Roots(n))]
<1>1. Solves(lengths)
  <2>1. ASSUME NEW n \in Nat
        PROVE  Cardinality(Roots(n)) =
                   IF n < Radix THEN 1 ELSE 1 + lengths[n \div Radix]
    <3>1. CASE n < Radix
        BY <3>1, OnePrefixMore, FS_Singleton
    <3>2. CASE n >= Radix
      <4> DEFINE m == n \div Radix
      <4>1. m \in Nat
          BY <3>2, Shorter
      <4> HIDE DEF m
      <4>2. IsFiniteSet(Roots(m))
        <5>1. IsFiniteSet(0 .. m)
            BY <4>1, FS_Interval
        <5> QED
            BY <5>1, FS_Subset DEF Roots
      <4>3. Roots(n) = Roots(m) \cup {n} /\ n \notin Roots(m)
          BY <3>2, OnePrefixMore DEF m
      <4>4. Cardinality(Roots(n)) = Cardinality(Roots(m)) + 1
          BY <4>2, <4>3, FS_AddElement
      <4>5. Cardinality(Roots(m)) \in Nat
          BY <4>2, FS_CardinalityType
      <4>6. lengths[m] = Cardinality(Roots(m))
          BY <4>1
      <4>7. ~(n < Radix)
          BY <3>2, StoreAssumption
      <4>8. Cardinality(Roots(n)) = 1 + lengths[m]
          BY <4>4, <4>5, <4>6
      <4> QED
          BY <4>7, <4>8 DEF m
    <3> QED
        BY <3>1, <3>2, StoreAssumption
  <2> QED
      BY <2>1
<1>2. Digits = CHOOSE f : Solves(f)
    BY DEF Digits
<1> HIDE DEF Solves
<1>3. Solves(Digits)
    BY <1>1, <1>2
<1> QED
    BY <1>3 DEF Solves

\* No file and no entry of the queue has a sequence number of more than one digit.
ShortNames ==
    /\ \A p \in DOMAIN files \cup Range(queue) \cup unread : p[2] < Radix
    /\ step = "write" => cur.path[2] < Radix

\* make_filename() makes short names while the sequence number is short, and nobody else
\* makes any.
LEMMA ShortNamesStep ==
    ASSUME StoreTypeOK, ShortNames, seqno' <= Radix, [StoreNext]_storeVars
    PROVE  ShortNames'
<1>0. queue \in Seq(Path) /\ seqno \in Nat /\ Radix \in Nat
    BY StoreAssumption DEF StoreTypeOK
<1>1. CASE Initialize
    BY <1>0, <1>1, EmptyInOrder DEF Initialize, ShortNames, StoreTypeOK
<1>2. CASE LoadEntry
  <2>1. PICK p \in unread : /\ unread' = unread \ {p}
                            /\ queue' = Append(queue, p) \/ queue' = queue
      BY <1>2 DEF LoadEntry
  <2>2. p \in Path /\ UNCHANGED <<files, step, cur>>
      BY <1>2 DEF StoreTypeOK, LoadEntry
  <2>3. Range(Append(queue, p)) = Range(queue) \cup {p}
      BY <1>0, <2>2, AppendOnce
  <2>4. Range(queue') \subseteq Range(queue) \cup {p}
      BY <2>1, <2>3
  <2> QED
      BY <2>1, <2>2, <2>4 DEF ShortNames
<1>3. CASE Destroy \/ Crash
    BY <1>3, EmptyInOrder DEF Destroy, Crash, Forget, ShortNames, With
<1>4. CASE Vanish
    BY <1>4 DEF Vanish, Restrict, ShortNames
<1>5. ASSUME NEW lines \in Seq(Line) \ {<<>>}, StoreOpen(lines)
      PROVE  ShortNames'
  <2>1. /\ UNCHANGED <<queue, unread>> /\ seqno < Radix
        /\ \/ files' = With(NextPath(clock'), <<>>) /\ cur'.path = NextPath(clock')
           \/ UNCHANGED <<files, step, cur>>
      BY <1>0, <1>5 DEF StoreOpen
  <2> QED
      BY <2>1 DEF ShortNames, With, NextPath
<1>6. CASE StoreWrite
  <2>1. cur.path \in Path /\ step = "write" /\ cur.path[2] < Radix
      BY <1>6, BatchFacts DEF StoreWrite, StoreTypeOK, ShortNames
  <2>2. /\ Range(queue') = Range(queue) \cup {cur.path}
        /\ DOMAIN files' \subseteq DOMAIN files \cup {cur.path}
        /\ UNCHANGED unread /\ step' = "enforce"
      BY <1>0, <1>6, <2>1, AppendOnce DEF StoreWrite, With
  <2> QED
      BY <2>1, <2>2 DEF ShortNames
<1>7. CASE StoreAccept \/ StoreDisabled \/ NextBatch \/ LoadDone
    BY <1>7 DEF StoreAccept, StoreDisabled, NextBatch, LoadDone, ShortNames
<1>8. CASE StoreWriteFails
  <2>1. DOMAIN files' \subseteq DOMAIN files \cup {cur.path}
      BY <1>8, UnlinkFacts DEF StoreWriteFails, With
  <2> QED
      BY <1>8, <2>1 DEF StoreWriteFails, ShortNames
<1>9. CASE Enforce \/ NextUnreadable \/ MarkProcessed \/ StoreReject
  <2>1. Range(queue') \subseteq Range(queue)
    <3>1. queue # <<>> => Range(Tail(queue)) \subseteq Range(queue)
        BY <1>0, TailOnce
    <3>2. Range(Front(queue)) \subseteq Range(queue)
        BY <1>0, FrontOnce
    <3>3. queue' \in {queue, Front(queue)} \/ (queue # <<>> /\ queue' = Tail(queue))
        BY <1>9 DEF Enforce, NextUnreadable, MarkProcessed, StoreReject, DropOldest
    <3> QED
        BY <3>1, <3>2, <3>3
  <2>2. DOMAIN files' \subseteq DOMAIN files
      BY <1>9, UnlinkFacts DEF Enforce, NextUnreadable, MarkProcessed, StoreReject, DropOldest
  <2>3. UNCHANGED unread /\ (step' = "write" => UNCHANGED <<step, cur>>)
      BY <1>9 DEF Enforce, NextUnreadable, MarkProcessed, StoreReject, DropOldest
  <2> QED
      BY <2>1, <2>2, <2>3 DEF ShortNames
<1>10. CASE UNCHANGED storeVars
    BY <1>10 DEF storeVars, ShortNames
<1> QED
    BY <1>1, <1>2, <1>3, <1>4, <1>5, <1>6, <1>7, <1>8, <1>9, <1>10
    DEF StoreNext, StoreStart, StoreInside

\* Names of one digit have the same width.
LEMMA ShortIsSameWidth == StoreTypeOK /\ ShortNames => SameWidth
<1> SUFFICES ASSUME StoreTypeOK, ShortNames, NEW i \in DOMAIN queue, NEW j \in DOMAIN queue
             PROVE  Digits[queue[i][2]] = Digits[queue[j][2]]
    BY DEF SameWidth, WidthChange
<1>1. queue \in Seq(Path)
    BY DEF StoreTypeOK
<1>2. {queue[i], queue[j]} \subseteq Path /\ {queue[i], queue[j]} \subseteq Range(queue)
    BY <1>1 DEF Range
<1>3. queue[i][2] \in Nat /\ queue[j][2] \in Nat /\ queue[i][2] < Radix /\ queue[j][2] < Radix
    BY <1>2 DEF Path, ShortNames
<1> QED
    BY <1>3, DigitsUnfold

\* As long as no process makes more files than there are digits, lines are uploaded in the
\* order they were produced in.
THEOREM FewFilesGoInOrder ==
    ASSUME {"io", "vanish"} \cap Faults = {}
    PROVE  Spec /\ [](seqno <= Radix) => []OldestFirst
<1>1. Init => StoreTypeOK /\ ShortNames
  <2> SUFFICES ASSUME Init PROVE StoreTypeOK /\ ShortNames
      OBVIOUS
  <2>1. StoreTypeOK
      BY TypeInit DEF Init
  <2> QED
      BY <2>1, EmptyInOrder DEF Init, StoreInit, ShortNames
<1>2. WriterTypeOK /\ ShortNames /\ (seqno <= Radix)' /\ [Next]_vars => ShortNames'
    BY WriterStoreStep, ShortNamesStep DEF WriterTypeOK
<1>3. WriterTypeOK /\ ShortNames => SameWidth
    BY ShortIsSameWidth DEF WriterTypeOK
<1> QED
    BY <1>1, <1>2, <1>3, WriterTypeCorrect, OldLinesGoFirst, PTL DEF Spec

-----------------------------------------------------------------------------
\* An outage of the server.

\* Nothing fails but the server's answers, and no answer is final.
OutageOnly == Faults = {} /\ "reject" \notin ServerFaults

\* What store() has finished it has accepted.
StoreAccepts == Storing /\ step = "idle" => ret

OutageInv == GaugeInv /\ StoreAccepts /\ OutageLosesNothing

\* An outage alone disturbs no file and tears none.
LEMMA OutageFaults ==
    ASSUME OutageOnly
    PROVE  /\ Undisturbed /\ ~Tears
           /\ "io" \notin Faults /\ "crash" \notin Faults /\ "vanish" \notin Faults
           /\ "rmfail" \notin Faults
    BY DEF OutageOnly, Undisturbed, Tears

LEMMA GaugeTypes ==
    ASSUME GaugeInv
    PROVE  /\ CustodyInv /\ StoreInv /\ StoreTypeOK /\ FilesThere /\ queue \in Seq(Path)
           /\ (wpc = "off" <=> life = "off") /\ (step # "idle" => Storing)
    BY DEF GaugeInv, CustodyInv, WriterTypeOK, StoreInv, StoreTypeOK, Storing

\* While the budget suffices, store() ends in one way only.
LEMMA InsideStoreAccepts ==
    ASSUME OutageOnly, OutageInv, ~OverBudget, InsideStore
    PROVE  StoreAccepts' /\ dropped' = dropped
<1>1. ~StoreWriteFails
    BY OutageFaults DEF StoreWriteFails, OutageInv, GaugeInv, FilesThere
<1>2. ~Enforce /\ ~StoreReject
    BY DEF Enforce, StoreReject
<1>3. CASE StoreWrite \/ StoreAccept
    BY <1>3 DEF StoreWrite, StoreAccept, StoreAccepts
<1> QED
    BY <1>1, <1>2, <1>3 DEF InsideStore, StoreInside

\* While the budget suffices, store() accepts.
LEMMA StoreAcceptsStep ==
    ASSUME OutageOnly, OutageInv, ~OverBudget, [Next]_vars
    PROVE  StoreAccepts'
<1>0. (wpc = "off" <=> life = "off") /\ mode # "disabled"
    BY GaugeTypes DEF OutageInv, FilesThere
<1>1. CASE UNCHANGED <<wpc, step, ret>>
    BY <1>1 DEF OutageInv, StoreAccepts, Storing
<1>2. CASE wpc' \notin {"drainStore", "persistStore"}
    BY <1>2 DEF StoreAccepts, Storing
<1>3. CASE DrainTake \/ Persist
  <2>1. \E lines : StoreOpen(lines)
      BY <1>0, <1>3 DEF DrainTake, Persist, StoreDisabled
  <2>2. step' = "write"
      BY <2>1, OutageFaults DEF StoreOpen
  <2> QED
      BY <2>2 DEF StoreAccepts
<1>4. CASE Worker
    BY <1>2, <1>3, <1>4, InsideStoreAccepts
    DEF Worker, RetryDisk, FetchDisk, FetchUnreadable, SkipDisk, SettleDisk, DiskOk,
       DiskRefused, DiskRetryable, DrainEnd, DrainStored, Persisted, Stored, WakeUp, Lock,
       Park, Woken, TimedOut, TakeBatch, TestAgain, MemoryOk, MemoryRefused, MemoryRetryable
<1>5. CASE Producer
    BY <1>1, <1>5 DEF Producer, Enqueue, EnqueueFull, ReportFull, storeVars, workerVars
<1>6. CASE Owner
  <2>1. CASE Shutdown \/ NotifyAll
      BY <1>1, <2>1 DEF Shutdown, NotifyAll, storeVars, workerVars
  <2>2. CASE Construct \/ StartWorker \/ Join
      BY <1>0, <1>2, <2>2 DEF Construct, StartWorker, Join, ObjectGone, writerVars
  <2> QED
      BY <1>6, <2>1, <2>2 DEF Owner
<1>7. CASE Environment
    BY <1>7, OutageFaults DEF Environment, ProcessDies, Crash, Vanish
<1>8. CASE UNCHANGED vars
    BY <1>1, <1>8 DEF vars, storeVars, writerVars
<1> QED
    BY <1>4, <1>5, <1>6, <1>7, <1>8 DEF Next

\* The writer writes off only what store() or the server rejects.
LEMMA NothingLostStep ==
    ASSUME OutageOnly, OutageInv, ~OverBudget, [Next]_vars
    PROVE  OutageLosesNothing'
<1>0. FilesThere /\ queue \in Seq(Path) /\ lost = {} /\ dropped = {}
    BY GaugeTypes DEF OutageInv, OutageLosesNothing
<1> SUFFICES lost' = lost /\ dropped' = dropped
    BY <1>0 DEF OutageLosesNothing
<1>1. CASE Worker
  <2>1. CASE InsideStore
      BY <2>1, InsideStoreAccepts DEF InsideStore, writerVars
  <2>2. CASE DrainStored \/ Persisted
      BY <2>2 DEF DrainStored, Persisted, Stored, storeVars, Storing, OutageInv, StoreAccepts
  <2>3. ~FetchUnreadable
      BY <1>0, OutageFaults, NothingUnreadable
  <2>4. ~DiskRefused /\ ~MemoryRefused
      BY DEF DiskRefused, MemoryRefused, SendRefused, OutageOnly
  <2>5. CASE SettleDisk \/ DrainTake \/ Persist
      BY <2>5 DEF SettleDisk, MarkProcessed, DrainTake, Persist, StoreOpen, StoreDisabled,
         historyVars
  <2> QED
      BY <1>1, <2>1, <2>2, <2>3, <2>4, <2>5 DEF Worker, RetryDisk, FetchDisk, NextBatch,
         SkipDisk, DiskOk, DiskRetryable, DrainEnd, WakeUp, Lock, Park, Woken, TimedOut,
         TakeBatch, TestAgain, MemoryOk, MemoryRetryable, storeVars, historyVars
<1>2. CASE Producer
    BY <1>2 DEF Producer, Enqueue, EnqueueFull, ReportFull, storeVars, historyVars
<1>3. CASE Owner
    BY <1>3 DEF Owner, Construct, StoreStart, Initialize, LoadEntry, LoadDone, StartWorker,
       Shutdown, NotifyAll, Join, Destroy, Forget, storeVars, writerVars, historyVars
<1>4. CASE Environment
    BY <1>4, OutageFaults DEF Environment, ProcessDies, Crash, Vanish
<1>5. CASE UNCHANGED vars
    BY <1>5 DEF vars, storeVars, writerVars
<1> QED
    BY <1>1, <1>2, <1>3, <1>4, <1>5 DEF Next

\* While the disk budget suffices and no file operation fails, retryable errors, lost
\* answers, shutdowns and restarts lose no line.
THEOREM OutageCostsNothing ==
    ASSUME Faults = {}, "reject" \notin ServerFaults
    PROVE  Spec /\ []~OverBudget => []OutageLosesNothing
<1>1. Init => OutageInv
    BY GaugeInit DEF Init, StoreInit, OutageInv, StoreAccepts, Storing, OutageLosesNothing
<1>2. OutageInv /\ ~OverBudget /\ [Next]_vars => OutageInv'
  <2> SUFFICES ASSUME OutageInv, ~OverBudget, [Next]_vars PROVE OutageInv'
      OBVIOUS
  <2>1. OutageOnly
      BY DEF OutageOnly
  <2> QED
      BY <2>1, OutageFaults, GaugeStep, StoreAcceptsStep, NothingLostStep DEF OutageInv
<1>3. OutageInv => OutageLosesNothing
    BY DEF OutageInv
<1> QED
    BY <1>1, <1>2, <1>3, PTL DEF Spec

\* The lines of a file are in order and all there.
FilesRise == \A p \in DOMAIN files : Rising(files[p])

\* The lines of a file rise, as those of the batch it was made of.
LEMMA FilesRiseStep ==
    ASSUME ~Tears, OrderInv, FilesRise, [Next]_vars
    PROVE  FilesRise'
<1>0. CustodyInv /\ Rising(batch) /\ Rising(<<>>)
    BY OrderTypes DEF OrderInv, MemoryOrder, Rising
<1> SUFFICES ASSUME NEW p \in DOMAIN files' PROVE Rising(files'[p])
    BY DEF FilesRise
<1>1. CASE p \in DOMAIN files /\ files'[p] = files[p]
    BY <1>1 DEF FilesRise
<1>2. CASE files'[p] = <<>> \/ files'[p] = batch
    BY <1>0, <1>2
<1>3. FilesShrink \/ FileOpened \/ FileFilled
    BY <1>0, FileSteps
<1> QED
    BY <1>1, <1>2, <1>3 DEF FilesShrink, FileOpened, FileFilled, With

\* Every unit of disk space is taken by a line of its own.
LEMMA SizeIsLines ==
    ASSUME OrderInv, WholeLines, FilesRise, NEW P
    PROVE  SizeOf(files, P) <= produced
<1>0. /\ produced \in Nat /\ StoreTypeOK /\ OnDisk \ {Torn} \subseteq 1 .. produced
    BY OrderTypes DEF OrderInv
<1>1. \A p \in DOMAIN files : \A i \in DOMAIN files[p] :
          files[p][i] \in Content(p) /\ files[p][i] \in 1 .. produced
  <2>1. \A p \in DOMAIN files : \A i \in DOMAIN files[p] : files[p][i] \in Content(p)
      BY DEF Content, Exists, Range
  <2> QED
      BY <1>0, <2>1 DEF OnDisk, WholeLines
<1> DEFINE line == [u \in UnitsOf(files, P) |-> files[u[1]][u[2]]]
<1>2. ASSUME NEW u \in UnitsOf(files, P)
      PROVE  u[1] \in DOMAIN files /\ u[2] \in DOMAIN files[u[1]] /\ u = <<u[1], u[2]>>
    BY UnitFacts
<1>3. line \in [UnitsOf(files, P) -> 1 .. produced]
    BY <1>1, <1>2
<1>4. ASSUME NEW u \in UnitsOf(files, P), NEW v \in UnitsOf(files, P),
             files[u[1]][u[2]] = files[v[1]][v[2]]
      PROVE  u = v
  <2>1. u[1] = v[1]
      BY <1>1, <1>2, <1>4, FilesApart
  <2>2. u[2] = v[2]
    <3>1. files[u[1]] \in Seq(Line) /\ Rising(files[u[1]])
        BY <1>0, <1>2 DEF StoreTypeOK, FilesRise
    <3>2. u[2] \in Nat /\ v[2] \in Nat /\ files[u[1]][u[2]] \in Nat
        BY <1>2, <2>1, <3>1, LenProperties DEF Line
    <3>3. ~(u[2] < v[2]) /\ ~(v[2] < u[2])
        BY <1>2, <1>4, <2>1, <3>1, <3>2 DEF Rising
    <3> QED
        BY <3>2, <3>3
  <2> QED
      BY <1>2, <2>1, <2>2
<1>5. line \in Injection(UnitsOf(files, P), 1 .. produced)
    BY <1>3, <1>4 DEF Injection, IsInjective
<1>6. IsFiniteSet(1 .. produced) /\ Cardinality(1 .. produced) <= produced
    BY <1>0, FS_Interval
<1>7. Cardinality(UnitsOf(files, P)) <= Cardinality(1 .. produced)
    BY <1>5, <1>6, FS_Injection
<1>8. Cardinality(UnitsOf(files, P)) \in Nat /\ Cardinality(1 .. produced) \in Nat
    BY <1>5, <1>6, FS_Injection, FS_CardinalityType
<1> QED
    BY <1>0, <1>6, <1>7, <1>8 DEF SizeOf

\* A budget for all lines that are ever produced suffices.
THEOREM EnoughIsEnough ==
    ASSUME Faults = {}, MaxLines <= MaxBytes
    PROVE  Spec => []~OverBudget
<1> DEFINE Inv == OrderInv /\ WholeLines /\ FilesRise /\ BooksInv /\ ExactBooks
<1>1. Init => Inv
  <2> SUFFICES ASSUME Init PROVE Inv
      OBVIOUS
  <2>1. /\ DOMAIN files = {} /\ pending = Nothing /\ delivered = {} /\ StoreInit
        /\ OnDisk = {} /\ Range(pending.lines) = {}
      BY DEF Init, StoreInit, OnDisk, Range, Nothing
  <2> QED
      BY <2>1, OrderInit, BooksInit, ExactInit DEF WholeLines, FilesRise
<1>2. Inv /\ [Next]_vars => Inv'
  <2> SUFFICES ASSUME Inv, [Next]_vars PROVE Inv'
      OBVIOUS
  <2>1. CustodyInv /\ ~Tears /\ [StoreNext]_storeVars
      BY OrderTypes, WriterStoreStep DEF OrderInv, Tears, CustodyInv
  <2> QED
      BY <2>1, OrderStep, WholeLinesStep, FilesRiseStep, BooksStep, ExactStep
<1>3. Inv => ~OverBudget
  <2> SUFFICES ASSUME Inv PROVE bytes <= MaxBytes
      BY BooksFacts, StoreAssumption DEF OverBudget
  <2>1. bytes <= produced /\ produced \in 0 .. MaxLines
      BY SizeIsLines, OrderTypes DEF ExactBooks, OrderInv, CustodyInv, WriterTypeOK
  <2> QED
      BY <2>1, BooksFacts, StoreAssumption, WriterAssumption
<1> QED
    BY <1>1, <1>2, <1>3, PTL DEF Spec

\* An outage alone loses no line, however long it is, when there is room for all lines.
COROLLARY OutageIsFree ==
    ASSUME Faults = {}, "reject" \notin ServerFaults, MaxLines <= MaxBytes
    PROVE  Spec => []OutageLosesNothing
<1> QED
    BY EnoughIsEnough, OutageCostsNothing, PTL
=============================================================================
