--------------------------- MODULE RefinementProofs ---------------------------
(***************************************************************************)
(* InfluxWriter implements LineCustody and WriterPort, for every budget,   *)
(* batch and queue size, and for every set of faults of the store and of   *)
(* the server: no step loses a line it does not own up to, and what        *)
(* BridgeNode assumes of its writer is what the writer does.               *)
(***************************************************************************)
EXTENDS InfluxWriterProofs

-----------------------------------------------------------------------------
\* The lines the program holds, in whatever place.
Hands == Range(q) \cup Range(batch) \cup Range(pending.lines)

\* Nothing is on disk, in a pending batch or written down as settled but lines
\* that enqueue() accepted and fragments of them.
LinesKnown == OnDisk \cup Range(pending.lines) \cup Settled \subseteq 0 .. produced

LedgerInv == CustodyInv /\ LinesKnown

-----------------------------------------------------------------------------
\* What each kind of step may add, first to a file or a sequence ...

LEMMA OwnRange ==
    ASSUME NEW S, NEW s \in Seq(S)
    PROVE  s \in Seq(Range(s)) /\ Range(s) \subseteq S
<1>1. \A i \in 1 .. Len(s) : s[i] \in Range(s)
    BY LenProperties DEF Range
<1>2. Range(s) \subseteq S
    BY RangeOfSeq
<1> QED
    BY <1>1, <1>2, LenProperties

LEMMA TakeAdds ==
    ASSUME NEW S, q \in Seq(S), NEW n \in Nat \ {0}, Take(n)
    PROVE  Range(q') \cup Range(batch') \subseteq Range(q)
<1>1. q \in Seq(Range(q))
    BY OwnRange
<1>2. batch' \in Seq(Range(q)) /\ q' \in Seq(Range(q))
    BY <1>1, TakeFacts
<1> QED
    BY <1>2, OwnRange

\* A fragment has lines of its batch and perhaps a torn one.
LEMMA FragmentAdds ==
    ASSUME NEW lines \in Seq(Line), NEW part \in Fragments(lines)
    PROVE  Range(part) \subseteq Range(lines) \cup {Torn}
<1>1. lines \in Seq(Range(lines))
    BY OwnRange
<1>2. PICK k \in 0 .. Len(lines) - 1 :
          part = SubSeq(lines, 1, k) \/ part = Append(SubSeq(lines, 1, k), Torn)
    BY DEF Fragments
<1>3. SubSeq(lines, 1, k) \in Seq(Range(lines) \cup {Torn})
    BY <1>1, <1>2, SubSeqProperties, ElementOfSeq
<1>4. part \in Seq(Range(lines) \cup {Torn})
    BY <1>2, <1>3
<1> QED
    BY <1>4, OwnRange

LEMMA WithAdds ==
    ASSUME NEW p, NEW lines, files' = With(p, lines)
    PROVE  OnDisk' \subseteq OnDisk \cup Range(lines)
    BY DEF With, OnDisk, Content, Exists

LEMMA UnlinkAdds ==
    ASSUME NEW p, Unlink(p)
    PROVE  OnDisk' \subseteq OnDisk
    BY DEF Unlink, Restrict, OnDisk, Content, Exists

\* A fragment of a batch stays on disk when the process dies while it writes the file, or
\* when the write fails and the file cannot be removed.
Tears == "crash" \in Faults \/ {"io", "rmfail"} \subseteq Faults

\* ... then to the disk.
LEMMA DiskAdds ==
    ASSUME CustodyInv, [Next]_vars
    PROVE  /\ OnDisk' \subseteq OnDisk \cup Range(batch) \cup {Torn}
           /\ ~Tears => OnDisk' \subseteq OnDisk \cup Range(batch)
<1>0. step # "idle" => cur.lines = batch
    BY DEF CustodyInv, StoresItsBatch
<1>f. \A part \in Fragments(batch) : Range(part) \subseteq Range(batch) \cup {Torn}
    BY LinesGrow, FragmentAdds DEF CustodyInv, WriterTypeOK
<1>1. CASE InsideStore
  <2>1. CASE StoreWrite
      BY <1>0, <2>1, WithAdds DEF StoreWrite
  <2>2. CASE StoreWriteFails
    <3>1. CASE UNCHANGED files
        BY <3>1 DEF OnDisk, Content, Exists
    <3>2. CASE Unlink(cur.path)
        BY <3>2, UnlinkAdds
    <3>3. CASE /\ {"io", "rmfail"} \subseteq Faults
               /\ \E part \in Fragments(cur.lines) \cup {cur.lines} :
                     files' = With(cur.path, part)
        BY <1>0, <1>f, <2>2, <3>3, WithAdds DEF StoreWriteFails, Tears
    <3> QED
        BY <2>2, <3>1, <3>2, <3>3 DEF StoreWriteFails
  <2>3. CASE Enforce
      BY <2>3, UnlinkAdds DEF Enforce, DropOldest
  <2>4. CASE StoreReject
      BY <2>4, UnlinkAdds DEF StoreReject
  <2>5. CASE StoreAccept
      BY <2>5 DEF StoreAccept, OnDisk, Content, Exists
  <2> QED
      BY <1>1, <2>1, <2>2, <2>3, <2>4, <2>5 DEF InsideStore, StoreInside
<1>2. CASE SettleDisk
  <2>1. CASE UNCHANGED files
      BY <2>1 DEF OnDisk, Content, Exists
  <2>2. CASE Unlink(pending.path)
      BY <2>2, UnlinkAdds
  <2> QED
      BY <1>2, <2>1, <2>2 DEF SettleDisk, MarkProcessed
<1>3. CASE DrainTake \/ Persist
  <2>1. CASE UNCHANGED files
      BY <2>1 DEF OnDisk, Content, Exists
  <2>2. CASE \E p : files' = With(p, <<>>)
    <3>1. Range(<<>>) = {}
        BY DEF Range
    <3> QED
        BY <2>2, <3>1, WithAdds
  <2> QED
      BY <1>3, <2>1, <2>2 DEF DrainTake, Persist, StoreOpen, StoreDisabled
<1>4. CASE FetchUnreadable
    BY <1>4, UnlinkAdds DEF FetchUnreadable, NextUnreadable, DropOldest
<1>5. CASE Join \/ ProcessDies
  <2>1. CASE UNCHANGED files
      BY <2>1 DEF OnDisk, Content, Exists
  <2>2. CASE /\ step = "write" /\ "crash" \in Faults
             /\ \E part \in Fragments(cur.lines) \cup {cur.lines} :
                   files' = With(cur.path, part)
    <3>1. PICK part \in Fragments(batch) \cup {batch} : files' = With(cur.path, part)
        BY <1>0, <2>2
    <3>2. Range(part) \subseteq Range(batch) \cup {Torn}
        BY <1>f, <3>1
    <3> QED
        BY <2>2, <3>1, <3>2, WithAdds DEF Tears
  <2> QED
      BY <1>5, <2>1, <2>2 DEF Join, Destroy, ProcessDies, Crash
<1>6. CASE Vanish
  <2>1. PICK p \in DOMAIN files : files' = Restrict(files, DOMAIN files \ {p})
      BY <1>6 DEF Vanish
  <2> QED
      BY <2>1, UnlinkAdds DEF Unlink
<1>7. CASE UNCHANGED <<files, dropped>>
    BY <1>7 DEF OnDisk, Content, Exists
<1> QED
    BY <1>1, <1>2, <1>3, <1>4, <1>5, <1>6, <1>7, DiskSteps

\* What the store drops was on disk.
LEMMA DroppedAdds ==
    ASSUME CustodyInv, [Next]_vars
    PROVE  dropped \subseteq dropped' /\ dropped' \subseteq dropped \cup OnDisk
<1>1. [StoreNext]_storeVars
    BY WriterStoreStep DEF CustodyInv
<1>2. \A p : Content(p) \subseteq OnDisk
    BY DEF OnDisk, Content, Exists
<1> QED
    BY <1>1, <1>2
       DEF StoreNext, StoreStart, StoreInside, Initialize, LoadEntry, LoadDone, Destroy,
       Crash, Forget, Vanish, StoreDisabled, StoreOpen, StoreWrite, StoreWriteFails,
       Enforce, StoreReject, StoreAccept, NextBatch, NextUnreadable, MarkProcessed,
       DropOldest, storeVars

\* What next() gives out was on disk.
LEMMA PendingAdds ==
    ASSUME CustodyInv, [Next]_vars
    PROVE  Range(pending'.lines) \subseteq Range(pending.lines) \cup OnDisk
<1>1. [StoreNext]_storeVars
    BY WriterStoreStep DEF CustodyInv
<1>2. Range(Nothing.lines) = {}
    BY DEF Nothing, Range
<1>3. CASE NextBatch
    BY <1>3 DEF NextBatch, OnDisk, Content, Exists
<1>4. CASE UNCHANGED pending \/ pending' = Nothing
    BY <1>2, <1>4
<1> QED
    BY <1>1, <1>3, <1>4
       DEF StoreNext, StoreStart, StoreInside, Initialize, LoadEntry, LoadDone, Destroy,
       Crash, Forget, Vanish, StoreDisabled, StoreOpen, StoreWrite, StoreWriteFails,
       Enforce, StoreReject, StoreAccept, NextUnreadable, MarkProcessed, storeVars

\* Only enqueue() brings lines into memory; the worker moves them.
LEMMA MemoryAdds ==
    ASSUME CustodyInv, [Next]_vars, ~Enqueue
    PROVE  /\ Range(q') \cup Range(batch') \subseteq Range(q) \cup Range(batch)
           /\ produced' = produced
<1>1. Range(<<>>) = {}
    BY DEF Range
<1>2. CASE (wpc \in {"lock", "waiting"} /\ TakeBatch) \/ DrainTake
    BY <1>2, TakeAdds, WriterAssumption DEF TakeBatch, DrainTake, CustodyInv, WriterTypeOK
<1>3. CASE MemoryOk \/ MemoryRefused \/ DrainStored \/ Persisted
    BY <1>1, <1>3 DEF MemoryOk, MemoryRefused, DrainStored, Persisted, Stored, producerVars
<1>4. CASE Join \/ ProcessDies
    BY <1>1, <1>4 DEF Join, ProcessDies, ObjectGone
<1> QED
    BY <1>2, <1>3, <1>4, QueueSteps

-----------------------------------------------------------------------------
\* Lines are settled in two ways: the server takes a batch, or lines in the
\* program's hands are given up.

Uploads ==
    /\ \/ delivered' = delivered \cup Range(batch)
       \/ delivered' = delivered \cup Range(pending.lines)
    /\ UNCHANGED <<lost, files, dropped>>

LEMMA Settles ==
    ASSUME CustodyInv, [Next]_vars
    PROVE  \/ Uploads /\ ~Enqueue
           \/ UNCHANGED delivered /\ lost \subseteq lost' /\ lost' \subseteq lost \cup Hands
<1>1. CASE DiskOk \/ DiskRetryable \/ MemoryOk \/ MemoryRetryable
  <2>1. /\ wpc # "waiting" /\ wpc \in {"disk", "post", "flush"}
        /\ wpc' # wpc /\ UNCHANGED <<lost, storeVars>>
      BY <1>1 DEF DiskOk, DiskRetryable, MemoryOk, MemoryRetryable
  <2>2. ~Enqueue
      BY <2>1 DEF Enqueue
  <2>3. \/ delivered' = delivered \cup Range(batch)
        \/ delivered' = delivered \cup Range(pending.lines)
        \/ UNCHANGED delivered
      BY <1>1 DEF DiskOk, DiskRetryable, MemoryOk, MemoryRetryable, SendOk,
         SendRetryable, Delivers, serverVars
  <2> QED
      BY <2>1, <2>2, <2>3 DEF Uploads, storeVars
<1>2. CASE DiskRefused \/ MemoryRefused
    BY <1>2 DEF DiskRefused, MemoryRefused, SendRefused, serverVars, Hands
<1>3. CASE DrainStored \/ Persisted
    BY <1>3 DEF DrainStored, Persisted, Stored, serverVars, Hands
<1>4. CASE ProcessDies
    BY <1>4 DEF ProcessDies, ObjectGone, Hands
<1>5. CASE UNCHANGED <<delivered, lost>>
    BY <1>5
<1>6. CASE Worker
    BY <1>1, <1>2, <1>3, <1>5, <1>6 DEF Worker, RetryDisk, FetchDisk, FetchUnreadable,
       SkipDisk, SettleDisk, DrainTake, DrainEnd, WakeUp, InsideStore, Lock, Park, Woken,
       TimedOut, TakeBatch, TestAgain, Persist, historyVars, writerVars
<1>7. CASE Producer
    BY <1>5, <1>7 DEF Producer, Enqueue, EnqueueFull, ReportFull, historyVars
<1>8. CASE Owner
    BY <1>5, <1>8 DEF Owner, Construct, StartWorker, Shutdown, NotifyAll, Join, ObjectGone,
       writerVars, historyVars
<1>9. CASE Environment
    BY <1>4, <1>5, <1>9 DEF Environment, writerVars
<1>10. CASE UNCHANGED vars
    BY <1>5, <1>10 DEF vars, writerVars
<1> QED
    BY <1>6, <1>7, <1>8, <1>9, <1>10 DEF Next

-----------------------------------------------------------------------------
\* The ledger is closed: nothing turns up that was not accepted.

LEMMA EnqueueAdds ==
    ASSUME CustodyInv, Enqueue
    PROVE  /\ produced' = produced + 1 /\ produced \in Nat
           /\ Range(q') = Range(q) \cup {produced'}
           /\ UNCHANGED <<batch, storeVars, delivered, lost>>
<1>1. produced' = produced + 1 /\ q' = Append(q, produced') /\ produced \in Nat
    BY WriterAssumption DEF Enqueue, CustodyInv, WriterTypeOK
<1>2. q \in Seq(Nat)
    BY <1>1, LinesGrow DEF CustodyInv, WriterTypeOK, Line
<1>3. produced' \in Nat
    BY <1>1
<1> QED
    BY <1>1, <1>2, <1>3, AppendOnce DEF Enqueue, historyVars

\* Lines in memory were accepted.
LEMMA HandsKnown ==
    ASSUME LedgerInv
    PROVE  Hands \subseteq 0 .. produced /\ produced \in Nat
<1>1. q \in Seq(1 .. produced) /\ batch \in Seq(1 .. produced) /\ produced \in Nat
    BY WriterAssumption DEF LedgerInv, CustodyInv, WriterTypeOK
<1>2. Range(q) \subseteq 1 .. produced /\ Range(batch) \subseteq 1 .. produced
    BY <1>1, RangeOfSeq
<1>3. 1 .. produced \subseteq 0 .. produced
    BY <1>1
<1> QED
    BY <1>1, <1>2, <1>3 DEF Hands, LedgerInv, LinesKnown

LEMMA LinesKnownStep ==
    ASSUME LedgerInv, [Next]_vars
    PROVE  LinesKnown'
<1>1. CustodyInv
    BY DEF LedgerInv
<1>2. OnDisk \cup Hands \cup Settled \cup {Torn} \subseteq 0 .. produced /\ produced \in Nat
    BY HandsKnown DEF LedgerInv, LinesKnown, Torn
<1>3. 0 .. produced \subseteq 0 .. produced'
  <2>1. CASE Enqueue
      BY <1>1, <1>2, <2>1, EnqueueAdds
  <2>2. CASE ~Enqueue
      BY <1>1, <2>2, MemoryAdds
  <2> QED
      BY <2>1, <2>2
<1>4. OnDisk' \cup Range(pending'.lines) \subseteq 0 .. produced
    BY <1>1, <1>2, DiskAdds, PendingAdds DEF Hands
<1>5. Settled' \subseteq 0 .. produced
    BY <1>1, <1>2, Settles, DroppedAdds DEF Settled, Uploads, Hands
<1> QED
    BY <1>3, <1>4, <1>5 DEF LinesKnown

LEMMA LedgerInit == Init => LedgerInv
<1> SUFFICES ASSUME Init PROVE LedgerInv
    OBVIOUS
<1>1. Range(pending.lines) = {} /\ OnDisk = {} /\ Settled = {}
    BY DEF Init, StoreInit, Nothing, Range, OnDisk, Settled
<1> QED
    BY <1>1, CustodyInit DEF LedgerInv, LinesKnown

LEMMA LedgerStep == LedgerInv /\ [Next]_vars => LedgerInv'
    BY CustodyStep, LinesKnownStep DEF LedgerInv

-----------------------------------------------------------------------------
\* Whole lines.

WholeLines == Torn \notin OnDisk \cup Range(pending.lines) \cup delivered

\* Lines in memory are whole.
LEMMA MemoryWhole ==
    ASSUME CustodyInv
    PROVE  Torn \notin Range(q) \cup Range(batch)
<1>1. q \in Seq(1 .. produced) /\ batch \in Seq(1 .. produced) /\ Torn \notin 1 .. produced
    BY DEF CustodyInv, WriterTypeOK, Torn
<1> QED
    BY <1>1, RangeOfSeq

LEMMA WholeLinesStep ==
    ASSUME ~Tears
    PROVE  CustodyInv /\ WholeLines /\ [Next]_vars => WholeLines'
<1> SUFFICES ASSUME CustodyInv, WholeLines, [Next]_vars
             PROVE  WholeLines'
    OBVIOUS
<1>1. Torn \notin OnDisk'
    BY MemoryWhole, DiskAdds DEF WholeLines
<1>2. Torn \notin Range(pending'.lines)
    BY PendingAdds DEF WholeLines
<1>3. Torn \notin delivered'
    BY MemoryWhole, Settles DEF WholeLines, Uploads
<1> QED
    BY <1>1, <1>2, <1>3 DEF WholeLines

-----------------------------------------------------------------------------
\* The refinement of LineCustody.

LEMMA CustodyStarts == Init => Custody!Init
<1> SUFFICES ASSUME Init PROVE Custody!Init
    OBVIOUS
<1>1. Range(<<>>) = {}
    BY DEF Range
<1> QED
    BY <1>1 DEF Init, StoreInit, Nothing, OnDisk, Custody!Init

\* A line that was held is held or settled after any step.
LEMMA NothingSlips ==
    ASSUME LedgerInv, [Next]_vars
    PROVE  (Hands \cup OnDisk) \ {Torn} \subseteq Hands' \cup OnDisk' \cup Settled'
<1>1. (Hands \cup OnDisk) \ {Torn} \subseteq 1 .. produced
    BY HandsKnown DEF LedgerInv, LinesKnown, Torn
<1>2. 1 .. produced \subseteq 1 .. produced'
  <2>1. CASE Enqueue
      BY <2>1, EnqueueAdds DEF LedgerInv
  <2>2. CASE ~Enqueue
      BY <2>2, MemoryAdds DEF LedgerInv
  <2> QED
      BY <2>1, <2>2
<1>3. 1 .. produced' \subseteq Hands' \cup OnDisk' \cup Settled'
    BY NoLineForgottenStep DEF LedgerInv, NoLineForgotten, Hands
<1> QED
    BY <1>1, <1>2, <1>3

LEMMA CustodyMoves == LedgerInv /\ [Next]_vars => [Custody!Next]_Custody!vars
<1> SUFFICES ASSUME LedgerInv, [Next]_vars PROVE Custody!Next
    OBVIOUS
<1>c. CustodyInv
    BY DEF LedgerInv
<1>1. CASE Enqueue
  <2>1. /\ produced' = produced + 1 /\ produced \in Nat
        /\ Range(q') = Range(q) \cup {produced'}
        /\ UNCHANGED <<batch, storeVars, delivered, lost>>
      BY <1>1, <1>c, EnqueueAdds
  <2>2. Hands' = Hands \cup {produced'} /\ produced' # Torn
      BY <2>1 DEF Hands, storeVars, Torn
  <2>3. UNCHANGED OnDisk /\ UNCHANGED dropped
      BY <2>1 DEF storeVars, OnDisk, Content, Exists
  <2> QED
      BY <2>1, <2>2, <2>3 DEF Custody!Next, Custody!Accept, Hands
<1>2. CASE ~Enqueue
  <2>1. /\ Hands' \cup OnDisk' \subseteq Hands \cup OnDisk \cup {Torn}
        /\ produced' = produced
      BY <1>2, <1>c, MemoryAdds, PendingAdds, DiskAdds DEF Hands
  <2>2. Custody!Keeps
      BY <2>1, NothingSlips DEF Custody!Keeps, Custody!Held, Hands, Settled
  <2>3. CASE Uploads
    <3>1. /\ (OnDisk \ {Torn})' = OnDisk \ {Torn}
          /\ ((lost \cup dropped) \ {Torn})' = (lost \cup dropped) \ {Torn}
        BY <2>3 DEF Uploads, OnDisk, Content, Exists
    <3>2. PICK sent \in {Range(batch), Range(pending.lines)} :
              delivered' = delivered \cup sent
        BY <2>3 DEF Uploads
    <3>3. sent \ {Torn} \subseteq Hands \ {Torn}
        BY <3>2 DEF Hands
    <3>4. (delivered \ {Torn})' = (delivered \ {Torn}) \cup (sent \ {Torn})
        BY <3>2
    <3>5. Custody!Upload
        BY <2>1, <2>2, <3>1, <3>3, <3>4 DEF Custody!Upload, Hands
    <3> QED
        BY <3>5 DEF Custody!Next
  <2>4. CASE /\ UNCHANGED delivered
             /\ lost \subseteq lost' /\ lost' \subseteq lost \cup Hands
    <3> DEFINE given == ((lost' \cup dropped') \ (lost \cup dropped)) \ {Torn}
    <3>1. /\ lost' \cup dropped' \subseteq lost \cup dropped \cup Hands \cup OnDisk
          /\ lost \cup dropped \subseteq lost' \cup dropped'
        BY <1>c, <2>4, DroppedAdds
    <3>2. given \subseteq (Hands \ {Torn}) \cup (OnDisk \ {Torn})
        BY <3>1
    <3>3. (lost' \cup dropped') \ {Torn} = ((lost \cup dropped) \ {Torn}) \cup given
        BY <3>1
    <3> HIDE DEF given
    <3>4. Custody!GiveUp
        BY <2>1, <2>2, <2>4, <3>2, <3>3 DEF Custody!GiveUp, Custody!Held, Hands
    <3> QED
        BY <3>4 DEF Custody!Next
  <2> QED
      BY <1>c, <2>3, <2>4, Settles
<1> QED
    BY <1>1, <1>2

\* The writer keeps the promise of LineCustody whatever server, disk and process
\* do: every step hands a line on, settles it or leaves it where it is.
THEOREM WriterKeepsCustody == Spec => CustodyRefined
<1>1. LedgerInv /\ [Next]_vars => LedgerInv' /\ [Custody!Next]_Custody!vars
    BY LedgerStep, CustodyMoves
<1> QED
    BY <1>1, LedgerInit, CustodyStarts, PTL DEF Spec, CustodyRefined, Custody!Spec

-----------------------------------------------------------------------------
\* The refinement of WriterPort.

\* Between two incarnations the gauges and the error are those of a new object.
OffIsReset == life = "off" => q = <<>> /\ mBatches = 0 /\ lastErr = "none"

PortInv == CustodyInv /\ OffIsReset

LEMMA OffIsResetStep ==
    ASSUME PortInv, [Next]_vars
    PROVE  OffIsReset'
<1> SUFFICES ASSUME life' = "off" PROVE q' = <<>> /\ mBatches' = 0 /\ lastErr' = "none"
    BY DEF OffIsReset
<1>t. /\ wpc = "off" <=> life = "off"
      /\ prod = "full" => life = "live"
      /\ life = "off" => q = <<>> /\ mBatches = 0 /\ lastErr = "none"
      /\ step # "idle" => wpc \in {"drainStore", "persistStore"}
    BY DEF PortInv, OffIsReset, CustodyInv, WriterTypeOK
<1>1. CASE ObjectGone
    BY <1>1 DEF ObjectGone
<1>2. CASE life = "off" /\ UNCHANGED <<q, mBatches, lastErr>>
    BY <1>t, <1>2
<1>3. CASE Worker
  <2>1. wpc # "off" /\ life' = life
      BY <1>3 DEF Worker, RetryDisk, FetchDisk, FetchUnreadable, SkipDisk,
         DiskOk, DiskRefused, DiskRetryable, DrainTake, DrainEnd, DrainStored, Persisted,
         Stored, WakeUp, InsideStore, Lock, Park, Woken, TimedOut, TakeBatch, TestAgain,
         MemoryOk, MemoryRefused, MemoryRetryable, Persist, SettleDisk, MarkProcessed,
         objectVars, writerVars, Running
  <2> QED
      BY <1>t, <2>1
<1>4. CASE Producer
    BY <1>t, <1>4 DEF Producer, Enqueue, EnqueueFull, ReportFull, objectVars
<1>5. CASE Owner
    BY <1>1, <1>2, <1>5 DEF Owner, Construct, StartWorker, Shutdown, NotifyAll, Join,
       writerVars
<1>6. CASE Environment
    BY <1>1, <1>2, <1>6 DEF Environment, ProcessDies, writerVars
<1>7. CASE UNCHANGED vars
    BY <1>2, <1>7 DEF vars, writerVars
<1> QED
    BY <1>3, <1>4, <1>5, <1>6, <1>7 DEF Next

LEMMA PortInvInit == Init => PortInv
    BY CustodyInit DEF Init, PortInv, OffIsReset

LEMMA PortInvStep == PortInv /\ [Next]_vars => PortInv'
    BY CustodyStep, OffIsResetStep DEF PortInv

-----------------------------------------------------------------------------
\* What the steps of the writer are to its node.

LEMMA PortOpens == Init => Port!PortInit
    BY DEF Init, Phase, Port!PortInit

\* The depth is the length of the queue, and the phase follows the owner.
LEMMA PortFacts ==
    ASSUME PortInv
    PROVE  /\ depth = Len(q) /\ depth \in Nat /\ depth <= MaxQueue
           /\ q \in Seq(1 .. produced)
           /\ wpc = "off" <=> life = "off"
           /\ prod = "full" => life = "live"
           /\ wpc = "exited" => q = <<>>
           /\ Phase = "closed" <=> life = "off"
           /\ Phase = "open" <=> life = "live"
<1>1. /\ depth = Len(q) /\ Len(q) <= MaxQueue /\ q \in Seq(1 .. produced)
      /\ wpc = "off" <=> life = "off"
      /\ prod = "full" => life = "live"
      /\ wpc = "exited" => q = <<>>
    BY DEF PortInv, CustodyInv, WriterTypeOK, ExitsEmpty
<1>2. Len(q) \in Nat
    BY <1>1, LenProperties
<1> QED
    BY <1>1, <1>2 DEF Phase

\* Steps of the worker that its node can see.
LEMMA WorkerMoves ==
    ASSUME PortInv, Worker
    PROVE  [Port!PortNext]_Port!portVars
<1>t. /\ depth = Len(q) /\ depth \in Nat /\ q \in Seq(1 .. produced)
      /\ wpc = "off" <=> life = "off"
      /\ Phase = "closed" <=> life = "off"
    BY PortFacts
<1>o. ASSUME UNCHANGED life, wpc # "off"
      PROVE  Phase # "closed" /\ UNCHANGED Phase
    BY <1>t, <1>o DEF Phase
<1>1. CASE UNCHANGED <<life, depth, mBatches, lastErr>>
    BY <1>1 DEF Port!portVars, Phase
<1>2. ASSUME Take(MaxBatch), UNCHANGED <<life, mBatches, lastErr>>, wpc # "off"
      PROVE  Port!PortNext
  <2>1. depth' = Len(q') /\ Len(q') <= Len(q) /\ Len(q') \in Nat
      BY <1>t, <1>2, TakeFacts, WriterAssumption, LenProperties
  <2>2. depth' \in 0 .. depth
      BY <1>t, <2>1
  <2> QED
      BY <1>2, <1>o, <2>2 DEF Port!PortNext, Port!Take
<1>3. CASE SettleDisk \/ DrainStored \/ Persisted
  <2>1. UNCHANGED <<life, depth, lastErr>> /\ wpc # "off"
      BY <1>3 DEF SettleDisk, DrainStored, Persisted, Stored, objectVars, producerVars
  <2>2. (mBatches > 0)' \in BOOLEAN
      OBVIOUS
  <2> QED
      BY <2>1, <2>2, <1>o DEF Port!PortNext, Port!Recount
<1>4. CASE DiskOk \/ MemoryOk
  <2>1. UNCHANGED <<life, depth, mBatches>> /\ lastErr' = "none" /\ wpc # "off"
      BY <1>t, <1>4 DEF DiskOk, MemoryOk, SendOk, objectVars, producerVars, metricVars
  <2> QED
      BY <2>1, <1>o DEF Port!PortNext, Port!Succeed
<1>5. CASE DiskRefused \/ DiskRetryable \/ MemoryRefused \/ MemoryRetryable
  <2>1. UNCHANGED <<life, depth, mBatches>> /\ lastErr' = "send" /\ wpc # "off"
      BY <1>5 DEF DiskRefused, DiskRetryable, MemoryRefused, MemoryRetryable, SendRefused,
         SendRetryable, objectVars, producerVars, metricVars
  <2> QED
      BY <2>1, <1>o DEF Port!PortNext, Port!Fail
<1>6. CASE DrainTake
    BY <1>2, <1>6 DEF DrainTake, objectVars, metricVars
<1>7. CASE Lock \/ Woken \/ TimedOut
  <2>1. wpc # "off" /\ (TakeBatch \/ TestAgain)
      BY <1>7 DEF Lock, Woken, TimedOut
  <2>2. CASE TakeBatch
      BY <1>2, <2>1, <2>2 DEF TakeBatch, objectVars, metricVars
  <2>3. CASE TestAgain
      BY <1>1, <2>3 DEF TestAgain, objectVars, producerVars, metricVars
  <2> QED
      BY <2>1, <2>2, <2>3
<1>8. CASE \/ RetryDisk \/ FetchDisk \/ FetchUnreadable \/ SkipDisk
           \/ DrainEnd \/ WakeUp \/ InsideStore \/ Park \/ Persist
    BY <1>1, <1>8 DEF RetryDisk, FetchDisk, FetchUnreadable, SkipDisk, DrainEnd, WakeUp,
       InsideStore, Park, Persist, objectVars, producerVars, metricVars, writerVars
<1> QED
    BY <1>3, <1>4, <1>5, <1>6, <1>7, <1>8 DEF Worker

LEMMA PortMoves == PortInv /\ [Next]_vars => [Port!PortNext]_Port!portVars
<1> SUFFICES ASSUME PortInv, [Next]_vars PROVE [Port!PortNext]_Port!portVars
    OBVIOUS
<1>t. /\ depth = Len(q) /\ depth \in Nat /\ depth <= MaxQueue
      /\ q \in Seq(1 .. produced)
      /\ prod = "full" => life = "live"
      /\ wpc = "exited" => q = <<>>
    BY PortFacts
<1>s. CASE UNCHANGED <<life, depth, mBatches, lastErr>>
    BY <1>s DEF Port!portVars, Phase
<1>1. CASE Worker
    BY <1>1, WorkerMoves
<1>2. CASE Enqueue
  <2>1. life = "live" /\ UNCHANGED <<life, mBatches, lastErr>> /\ depth < MaxQueue
      BY <1>t, <1>2 DEF Enqueue, objectVars, metricVars
  <2>2. depth' = depth + 1
    <3>1. produced' \in Nat /\ produced \in Nat
        BY <1>2, WriterAssumption DEF Enqueue, PortInv, CustodyInv, WriterTypeOK
    <3>2. q \in Seq(Nat)
        BY <1>t, <3>1, LinesGrow DEF Line
    <3> QED
        BY <1>t, <1>2, <3>1, <3>2, AppendFacts DEF Enqueue
  <2> QED
      BY <2>1, <2>2 DEF Port!PortNext, Port!Put, Phase
<1>3. CASE EnqueueFull
    BY <1>s, <1>3 DEF EnqueueFull, objectVars, metricVars
<1>4. CASE ReportFull
  <2>1. life = "live" /\ UNCHANGED <<life, depth, mBatches>> /\ lastErr' = "full"
      BY <1>t, <1>4 DEF ReportFull, objectVars, metricVars
  <2> QED
      BY <2>1 DEF Port!PortNext, Port!Complain, Phase
<1>5. CASE Construct \/ (Vanish /\ UNCHANGED writerVars) \/ UNCHANGED vars
    BY <1>s, <1>5 DEF Construct, writerVars, vars
<1>6. CASE StartWorker
  <2>1. life = "off" /\ life' = "live" /\ UNCHANGED <<depth, lastErr>>
      BY <1>6 DEF StartWorker, producerVars
  <2>2. (mBatches > 0)' \in BOOLEAN
      OBVIOUS
  <2> QED
      BY <2>1, <2>2 DEF Port!PortNext, Port!Open, Phase
<1>7. CASE Shutdown
  <2>1. life = "live" /\ life' = "stop" /\ UNCHANGED <<depth, mBatches, lastErr>>
      BY <1>7 DEF Shutdown, producerVars, metricVars
  <2> QED
      BY <2>1 DEF Port!PortNext, Port!Close, Phase
<1>8. CASE NotifyAll
  <2>1. life = "stop" /\ life' = "join" /\ UNCHANGED <<depth, mBatches, lastErr>>
      BY <1>8 DEF NotifyAll, producerVars, metricVars
  <2> QED
      BY <2>1 DEF Port!portVars, Phase
<1>r. ASSUME ObjectGone
      PROVE  Port!Reset
    BY <1>r DEF ObjectGone, Port!Reset, Phase
<1>9. CASE Join
  <2>1. life = "join" /\ depth = 0
      BY <1>t, <1>9 DEF Join
  <2> QED
      BY <1>9, <1>r, <2>1 DEF Join, Port!PortNext, Port!Closed, Phase
<1>10. CASE ProcessDies
  <2>1. CASE life = "off"
    <3>1. depth = 0 /\ mBatches = 0 /\ lastErr = "none"
        BY <1>t, <2>1 DEF PortInv, OffIsReset
    <3> QED
        BY <1>s, <1>10, <2>1, <3>1 DEF ProcessDies, ObjectGone
  <2>2. CASE life # "off"
    <3>1. Phase # "closed"
        BY <2>2 DEF Phase
    <3> QED
        BY <1>10, <1>r, <3>1 DEF ProcessDies, Port!PortNext, Port!Died
  <2> QED
      BY <2>1, <2>2
<1> QED
    BY <1>1, <1>2, <1>3, <1>4, <1>5, <1>6, <1>7, <1>8, <1>9, <1>10
       DEF Next, Producer, Owner, Environment

\* The node may take WriterPort for its writer: depth, backlog and error change as it
\* says, and the destructor does not return before the queue is empty.
THEOREM WriterIsPort == Spec => PortRefined
<1>1. PortInv /\ [Next]_vars => PortInv' /\ [Port!PortNext]_Port!portVars
    BY PortInvStep, PortMoves
<1> QED
    BY <1>1, PortInvInit, PortOpens, PTL DEF Spec, PortRefined, Port!PortSpec
=============================================================================
