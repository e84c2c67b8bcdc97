------------------------ MODULE PersistentBatchStore ------------------------
(***************************************************************************)
(* The disk queue of the bridge: class PersistentBatchStore of             *)
(* persistent_batch_store.cpp, together with the directory it lives in.    *)
(*                                                                         *)
(* One worker thread calls the store, so a call is never interrupted by    *)
(* another call; but the process may die inside a call, and files may      *)
(* vanish under it.  A call is therefore split where the DIRECTORY         *)
(* changes: store() creates the file, fills it, evicts old files one by    *)
(* one and finally accepts or rejects the batch.  next() and               *)
(* mark_processed() touch at most one file and are one step each.          *)
(*                                                                         *)
(* A measurement line is a number, given in the order the lines were       *)
(* produced, so a batch tells its own age.  A line takes one unit of disk  *)
(* space; a file's size is the number of its lines.                        *)
(***************************************************************************)
EXTENDS Integers, Sequences, FiniteSets, SequencesExt

CONSTANTS
    MaxBytes,   \* max_bytes_, the disk budget
    Radix,      \* base in which make_filename prints the sequence number
    MaxClock,   \* bound on the milliseconds a behaviour may see
    Faults      \* the faults of the environment that may happen

AllFaults == {"io", "vanish", "rmfail", "crash"}

ASSUME StoreAssumption ==
    /\ MaxBytes \in Nat \ {0}
    /\ Radix \in Nat \ {0, 1}
    /\ MaxClock \in Nat
    /\ Faults \subseteq AllFaults

VARIABLES
    files,      \* the directory: path -> the lines in that file
    mode,       \* "off", "loading", "on" or "disabled" (disabled_)
    unread,     \* directory entries load_existing has yet to visit
    queue,      \* queue_: the paths of the pending batches, oldest first
    bytes,      \* current_bytes_
    seqno,      \* sequence_
    clock,      \* the latest millisecond seen by the process or its ancestors
    step,       \* where store() is: "idle", "write" or "enforce"
    cur,        \* path and lines of the store() call in progress
    ret,        \* what the last store() returned
    pending,    \* the batch next() gave out that its caller still holds
    dropped     \* history: lines a discarded or vanished file held

storeVars == <<files, mode, unread, queue, bytes, seqno, clock, step, cur,
               ret, pending, dropped>>

Line == Nat
Torn == 0                      \* a line cut short by a crash
Path == (Nat \ {0}) \X Nat     \* batch_<ms>_<seq>.txt
Batch == [path : Path, lines : Seq(Line)]
Nothing == [path |-> <<0, 0>>, lines |-> <<>>]

-----------------------------------------------------------------------------
\* File names.  make_filename prints both numbers without padding and
\* load_existing sorts the names as strings.

Digits[n \in Nat] == IF n < Radix THEN 1 ELSE 1 + Digits[n \div Radix]

\* "a.txt" sorts before "b.txt": the shorter numeral is compared with a prefix
\* of the longer one, and '.' sorts before every digit.
DecimalLT(a, b) ==
    LET da == Digits[a]
        db == Digits[b]
    IN  \/ da = db /\ a < b
        \/ da # db /\ IF da < db THEN a <= b \div Radix^(db - da)
                                  ELSE a \div Radix^(da - db) < b

\* Millisecond stamps have 13 digits from 2001 to 2286 and sort by value.
PathLT(p, o) == p[1] < o[1] \/ (p[1] = o[1] /\ DecimalLT(p[2], o[2]))

-----------------------------------------------------------------------------
\* The directory.

Exists(p) == p \in DOMAIN files
Content(p) == IF Exists(p) THEN Range(files[p]) ELSE {}
With(p, lines) == [f \in DOMAIN files \cup {p} |->
                      IF f = p THEN lines ELSE files[f]]

\* std::filesystem::remove; the code only logs its failure, if that.
Unlink(p) == \/ files' = Restrict(files, DOMAIN files \ {p})
             \/ "rmfail" \in Faults /\ UNCHANGED files

\* What an interrupted write may leave behind: some whole lines, perhaps
\* followed by a torn one.
Fragments(lines) ==
    LET Whole(k) == SubSeq(lines, 1, k)
    IN  UNION {{Whole(k), Append(Whole(k), Torn)} : k \in 0 .. Len(lines) - 1}

-----------------------------------------------------------------------------
\* Start and stop.

\* Mutant: no return after disabled_ = true, so the directory is listed anyway.
InitializeFallsThrough ==
    /\ mode = "off"
    /\ clock < MaxClock
    /\ clock' = clock + 1
    /\ mode' \in {"loading", "disabled"}
    /\ unread' = DOMAIN files
    /\ UNCHANGED <<files, queue, bytes, seqno, step, cur, ret, pending, dropped>>

\* initialize() up to the directory scan.  A restart takes longer than a
\* millisecond.
Initialize ==
    /\ mode = "off"
    /\ clock < MaxClock
    /\ clock' = clock + 1
    /\ \/ mode' = "loading" /\ unread' = DOMAIN files
       \/ "io" \in Faults /\ mode' = "disabled" /\ UNCHANGED unread
    /\ UNCHANGED <<files, queue, bytes, seqno, step, cur, ret, pending, dropped>>

\* Mutant: the size is not added.
LoadEntryUncounted ==
    /\ mode = "loading"
    /\ \E p \in unread :
          /\ \A o \in unread \ {p} : PathLT(p, o)
          /\ unread' = unread \ {p}
          /\ queue' = Append(queue, p)
    /\ UNCHANGED <<files, mode, bytes, seqno, clock, step, cur, ret, pending, dropped>>

\* Mutant: the entries are taken in the order the directory lists them.
LoadEntryUnsorted ==
    /\ mode = "loading"
    /\ \E p \in unread :
          /\ unread' = unread \ {p}
          /\ queue' = Append(queue, p)
          /\ bytes' = bytes + (IF Exists(p) THEN Len(files[p]) ELSE 0)
    /\ UNCHANGED <<files, mode, seqno, clock, step, cur, ret, pending, dropped>>

\* One turn of load_existing's loop; an entry without a size is skipped.
LoadEntry ==
    /\ mode = "loading"
    /\ \E p \in unread :
          /\ \A o \in unread \ {p} : PathLT(p, o)
          /\ unread' = unread \ {p}
          /\ \/ /\ Exists(p)
                /\ queue' = Append(queue, p)
                /\ bytes' = bytes + Len(files[p])
             \/ /\ ~Exists(p) \/ "io" \in Faults
                /\ UNCHANGED <<queue, bytes>>
    /\ UNCHANGED <<files, mode, seqno, clock, step, cur, ret, pending, dropped>>

LoadDone ==
    /\ mode = "loading"
    /\ unread = {}
    /\ mode' = "on"
    /\ UNCHANGED <<files, unread, queue, bytes, seqno, clock, step, cur, ret,
                   pending, dropped>>

\* The object's members die with the process; the directory stays.
Forget ==
    /\ mode' = "off"
    /\ unread' = {}
    /\ queue' = <<>>
    /\ bytes' = 0
    /\ seqno' = 0
    /\ step' = "idle"
    /\ cur' = Nothing
    /\ ret' = FALSE
    /\ pending' = Nothing
    /\ UNCHANGED <<clock, dropped>>

Destroy ==
    /\ mode \in {"on", "disabled"}
    /\ step = "idle"
    /\ Forget
    /\ UNCHANGED files

Crash ==
    /\ "crash" \in Faults
    /\ mode # "off"
    /\ Forget
    /\ \/ UNCHANGED files
       \/ /\ step = "write"
          /\ Exists(cur.path)
          /\ \E part \in Fragments(cur.lines) \cup {cur.lines} :
                files' = With(cur.path, part)

-----------------------------------------------------------------------------
\* drop_oldest(queue_.front()), as enforce_size_limit and next() call it.

\* A size that cannot be had, or is larger than the total, is not subtracted.
Discount(p) ==
    \/ bytes' = IF Exists(p) /\ bytes >= Len(files[p]) THEN bytes - Len(files[p]) ELSE bytes
    \/ "io" \in Faults /\ UNCHANGED bytes

DropOldest ==
    LET p == Head(queue)
    IN  /\ Discount(p)
        /\ Unlink(p)
        /\ queue' = Tail(queue)
        /\ dropped' = dropped \cup Content(p)

-----------------------------------------------------------------------------
\* store(lines)

\* Mutant: files are numbered by the length of the queue.
NextPathByLength(ms) == <<ms, Len(queue)>>

NextPath(ms) == <<ms, seqno>>

StoreDisabled ==
    /\ mode = "disabled"
    /\ ret' = FALSE
    /\ UNCHANGED <<files, mode, unread, queue, bytes, seqno, clock, step, cur,
                   pending, dropped>>

\* make_filename and the truncating open.
StoreOpen(lines) ==
    /\ mode = "on"
    /\ step = "idle"
    /\ clock' \in {t \in {clock, clock + 1} : t <= MaxClock}
    /\ seqno' = seqno + 1
    /\ LET p == NextPath(clock')
       IN  \/ /\ files' = With(p, <<>>)
              /\ step' = "write"
              /\ cur' = [path |-> p, lines |-> lines]
              /\ UNCHANGED ret
           \/ /\ "io" \in Faults
              /\ ret' = FALSE
              /\ UNCHANGED <<files, step, cur>>
    /\ UNCHANGED <<mode, unread, queue, bytes, pending, dropped>>

\* Mutant: the stream is not checked after serialize and flush.
StoreWriteUnchecked ==
    /\ step = "write"
    /\ Exists(cur.path)
    /\ \E part \in {cur.lines} \cup (IF "io" \in Faults THEN Fragments(cur.lines) ELSE {}) :
          /\ files' = With(cur.path, part)
          /\ bytes' = bytes + Len(part)
    /\ queue' = Append(queue, cur.path)
    /\ step' = "enforce"
    /\ UNCHANGED <<mode, unread, seqno, clock, cur, ret, pending, dropped>>

\* Mutant: the batch joins the queue at its front.
StoreWriteInFront ==
    /\ step = "write"
    /\ Exists(cur.path)
    /\ files' = With(cur.path, cur.lines)
    /\ queue' = <<cur.path>> \o queue
    /\ bytes' = bytes + Len(cur.lines)
    /\ step' = "enforce"
    /\ UNCHANGED <<mode, unread, seqno, clock, cur, ret, pending, dropped>>

\* serialize, flush, close and file_size succeed: the batch joins the queue.
StoreWrite ==
    /\ step = "write"
    /\ Exists(cur.path)
    /\ files' = With(cur.path, cur.lines)
    /\ queue' = Append(queue, cur.path)
    /\ bytes' = bytes + Len(cur.lines)
    /\ step' = "enforce"
    /\ UNCHANGED <<mode, unread, seqno, clock, cur, ret, pending, dropped>>

\* One of them fails (file_size does when the file has vanished, or for a whole one):
\* the file is removed, if it can be.
StoreWriteFails ==
    /\ step = "write"
    /\ \/ "io" \in Faults /\ Unlink(cur.path)
       \/ /\ {"io", "rmfail"} \subseteq Faults
          /\ Exists(cur.path)
          /\ \E part \in Fragments(cur.lines) \cup {cur.lines} :
                files' = With(cur.path, part)
       \/ ~Exists(cur.path) /\ UNCHANGED files
    /\ ret' = FALSE
    /\ step' = "idle"
    /\ cur' = Nothing
    /\ UNCHANGED <<mode, unread, queue, bytes, seqno, clock, pending, dropped>>

OverBudget == bytes > MaxBytes

\* Mutant: the loop does not stop at the new batch.
EnforceSparesNone ==
    /\ step = "enforce"
    /\ OverBudget
    /\ queue # <<>>
    /\ DropOldest
    /\ UNCHANGED <<mode, unread, seqno, clock, step, cur, ret, pending>>

\* One turn of enforce_size_limit's loop; the new batch itself is spared.
Enforce ==
    /\ step = "enforce"
    /\ OverBudget
    /\ Len(queue) > 1
    /\ DropOldest
    /\ UNCHANGED <<mode, unread, seqno, clock, step, cur, ret, pending>>

\* Mutant: a rejected batch is reported as stored.
StoreRejectReportsSuccess ==
    /\ step = "enforce"
    /\ OverBudget
    /\ Len(queue) <= 1
    /\ queue' = Front(queue)
    /\ bytes' = bytes - Len(cur.lines)
    /\ Unlink(cur.path)
    /\ ret' = TRUE
    /\ step' = "idle"
    /\ cur' = Nothing
    /\ UNCHANGED <<mode, unread, seqno, clock, pending, dropped>>

\* Still over budget: the new batch is taken back and rejected.
StoreReject ==
    /\ step = "enforce"
    /\ OverBudget
    /\ Len(queue) <= 1
    /\ queue' = Front(queue)
    /\ bytes' = bytes - Len(cur.lines)
    /\ Unlink(cur.path)
    /\ ret' = FALSE
    /\ step' = "idle"
    /\ cur' = Nothing
    /\ UNCHANGED <<mode, unread, seqno, clock, pending, dropped>>

\* Mutant: the budget is not checked again after the eviction.
StoreAcceptUnchecked ==
    /\ step = "enforce"
    /\ OverBudget => Len(queue) = 1
    /\ ret' = TRUE
    /\ step' = "idle"
    /\ cur' = Nothing
    /\ UNCHANGED <<files, mode, unread, queue, bytes, seqno, clock, pending, dropped>>

StoreAccept ==
    /\ step = "enforce"
    /\ ~OverBudget
    /\ ret' = TRUE
    /\ step' = "idle"
    /\ cur' = Nothing
    /\ UNCHANGED <<files, mode, unread, queue, bytes, seqno, clock, pending, dropped>>

StoreInside == StoreWrite \/ StoreWriteFails \/ Enforce \/ StoreReject \/ StoreAccept

-----------------------------------------------------------------------------
\* next() and mark_processed()

NextBatch ==
    /\ mode = "on"
    /\ step = "idle"
    /\ pending = Nothing
    /\ queue # <<>>
    /\ Exists(Head(queue))
    /\ pending' = [path |-> Head(queue), lines |-> files[Head(queue)]]
    /\ UNCHANGED <<files, mode, unread, queue, bytes, seqno, clock, step, cur,
                   ret, dropped>>

\* A batch that cannot be opened or read is discarded.
NextUnreadable ==
    /\ mode = "on"
    /\ step = "idle"
    /\ pending = Nothing
    /\ queue # <<>>
    /\ ~Exists(Head(queue)) \/ "io" \in Faults
    /\ DropOldest
    /\ UNCHANGED <<mode, unread, seqno, clock, step, cur, ret, pending>>

\* Mutant: the front is taken for the batch that was processed.
MarkProcessedFront ==
    /\ pending # Nothing
    /\ step = "idle"
    /\ pending' = Nothing
    /\ IF queue # <<>>
       THEN /\ Discount(Head(queue))
            /\ Unlink(Head(queue))
            /\ queue' = Tail(queue)
       ELSE UNCHANGED <<files, queue, bytes>>
    /\ UNCHANGED <<mode, unread, seqno, clock, step, cur, ret, dropped>>

\* Mutant: the size is asked for after the file has been removed.
MarkProcessedLateSize ==
    /\ pending # Nothing
    /\ step = "idle"
    /\ pending' = Nothing
    /\ IF queue # <<>> /\ Head(queue) = pending.path
       THEN /\ Unlink(pending.path)
            /\ queue' = Tail(queue)
       ELSE UNCHANGED <<files, queue>>
    /\ UNCHANGED <<mode, unread, bytes, seqno, clock, step, cur, ret, dropped>>

\* The caller resets its optional right after the call.
MarkProcessed ==
    /\ pending # Nothing
    /\ step = "idle"
    /\ pending' = Nothing
    /\ IF queue # <<>> /\ Head(queue) = pending.path
       THEN /\ Discount(pending.path)
            /\ Unlink(pending.path)
            /\ queue' = Tail(queue)
       ELSE UNCHANGED <<files, queue, bytes>>
    /\ UNCHANGED <<mode, unread, seqno, clock, step, cur, ret, dropped>>

\* The environment: a cleaner of the temporary directory removes a file.
Vanish ==
    /\ "vanish" \in Faults
    /\ \E p \in DOMAIN files :
          /\ files' = Restrict(files, DOMAIN files \ {p})
          /\ dropped' = dropped \cup Content(p)
    /\ UNCHANGED <<mode, unread, queue, bytes, seqno, clock, step, cur, ret, pending>>

-----------------------------------------------------------------------------
StoreInit ==
    /\ files = [p \in {} |-> <<>>]
    /\ mode = "off"
    /\ unread = {}
    /\ queue = <<>>
    /\ bytes = 0
    /\ seqno = 0
    /\ clock = 0
    /\ step = "idle"
    /\ cur = Nothing
    /\ ret = FALSE
    /\ pending = Nothing
    /\ dropped = {}

StoreStart == Initialize \/ LoadEntry \/ LoadDone

\* Every behaviour a single caller can bring about.
StoreNext ==
    \/ StoreStart \/ Destroy \/ Crash \/ Vanish
    \/ StoreDisabled
    \/ \E lines \in Seq(Line) \ {<<>>} : StoreOpen(lines)
    \/ StoreInside
    \/ NextBatch \/ NextUnreadable \/ MarkProcessed

StoreSpec == StoreInit /\ [][StoreNext]_storeVars

-----------------------------------------------------------------------------
\* Properties.

\* The space files take: one unit for every line of those of P that are in the
\* directory dir.
UnitsOf(dir, P) == UNION {{p} \X DOMAIN dir[p] : p \in P \cap DOMAIN dir}
SizeOf(dir, P) == Cardinality(UnitsOf(dir, P))

BacklogSize == SizeOf(files, Range(queue))
DirectorySize == SizeOf(files, DOMAIN files)

\* The types, and which variables may be in use in which mode: a store that is
\* off or disabled holds no batch, and only an open call has a current one.
StoreTypeOK ==
    /\ files \in [DOMAIN files -> Seq(Line)] /\ DOMAIN files \subseteq Path
    /\ mode \in {"off", "loading", "on", "disabled"}
    /\ unread \subseteq Path /\ (mode # "loading" => unread = {})
    /\ queue \in Seq(Path) /\ (mode \in {"off", "disabled"} => queue = <<>>)
    /\ bytes \in Int
    /\ seqno \in Nat
    /\ clock \in 0 .. MaxClock /\ (mode # "off" => clock > 0)
    /\ step \in {"idle", "write", "enforce"} /\ (mode # "on" => step = "idle")
    /\ cur \in Batch \cup {Nothing} /\ (step = "idle" <=> cur = Nothing)
    /\ ret \in BOOLEAN
    /\ pending \in Batch \cup {Nothing} /\ (mode # "on" => pending = Nothing)
    /\ dropped \subseteq Line

\* current_bytes_ is unsigned and every subtraction from it is guarded, or
\* assumed safe, on the strength of this: it is never less than the size of
\* the queued files that still exist, whatever fails or vanishes.
BytesCoverBacklog == bytes >= BacklogSize

\* While store() enforces the budget, the batch it is about to accept or take
\* back is the last of the queue (queue_.pop_back() relies on it) and its file
\* is whole unless somebody else removed it: eviction spares the newest batch.
NewestSurvivesEviction ==
    step = "enforce" =>
        /\ queue # <<>>
        /\ Last(queue) = cur.path
        /\ IF Exists(cur.path) THEN files[cur.path] = cur.lines
                               ELSE Range(cur.lines) \subseteq dropped

\* The batch the caller is uploading is still the front of the queue or has
\* been evicted from it; it never sits behind another batch, where
\* mark_processed would not find it and it would be uploaded again.
PendingFrontOrGone ==
    pending # Nothing =>
        \A i \in DOMAIN queue : queue[i] = pending.path => i = 1

\* Names are unique among the files of this process and of its predecessors:
\* opening a batch with std::ios::trunc never empties an existing one.
NoOverwrite ==
    [][(step = "idle" /\ step' = "write") => ~Exists(cur'.path)]_storeVars

\* Finishing a batch deletes only what the caller was given, although store()
\* may have evicted that batch, and changed the front, while it was uploaded.
ProcessedWasRead ==
    [][MarkProcessed =>
          \A p \in DOMAIN files \ DOMAIN files' :
              Content(p) \subseteq Range(pending.lines)]_storeVars

Older(p, o) == \A x \in Content(p) \ {Torn}, y \in Content(o) \ {Torn} : x < y

\* The sequence number grows by a digit between two files of one millisecond.
WidthChange(p, o) == p[1] = o[1] /\ Digits[p[2]] # Digits[o[2]]

\* The queue keeps the batches in the order of their data, over restarts too,
\* except where the string order of the names betrays load_existing.
BacklogInOrder ==
    \A i, j \in DOMAIN queue :
        i < j => Older(queue[i], queue[j]) \/ WidthChange(queue[i], queue[j])

\* When nothing but crashes happens, the queue lists every file of the
\* directory once and current_bytes_ is their size.
ExactAccounting ==
    mode = "on" /\ step # "write" =>
        /\ Range(queue) = DOMAIN files
        /\ IsInjective(queue)
        /\ bytes = DirectorySize

\* Once a store() has succeeded, the directory stays within its budget, files
\* left over by a crashed process included.
DiskWithinBudget ==
    ret /\ step = "idle" => DirectorySize <= MaxBytes

\* Why names are never reused and mark_processed never meets another batch.  The
\* paths the store and the directory know were made in an earlier millisecond
\* or with a smaller sequence number; they are queued once; and the file
\* being written is none of them.
Known == DOMAIN files \cup Range(queue) \cup unread
            \cup (IF pending = Nothing THEN {} ELSE {pending.path})

NamesOld ==
    \A p \in Known : /\ p[1] <= clock
                     /\ mode # "off" => p[1] < clock \/ p[2] < seqno

QueuedOnce ==
    /\ IsInjective(queue)
    /\ unread \cap Range(queue) = {}

WritingFresh ==
    step = "write" => /\ cur.path \notin Range(queue)
                      /\ pending # Nothing => pending.path # cur.path

\* A file is not written again while its batch is being uploaded.
PendingUnchanged ==
    pending # Nothing /\ Exists(pending.path) => files[pending.path] = pending.lines

\* The inductive invariant behind the safety properties of the store.
StoreInv ==
    /\ StoreTypeOK
    /\ NamesOld
    /\ QueuedOnce
    /\ WritingFresh
    /\ PendingUnchanged
    /\ PendingFrontOrGone
    /\ NewestSurvivesEviction

\* What the description of persistence_max_megabytes says is dropped when the
\* limit is reached: no batch younger than one that stays.
EvictsOldest ==
    [][Enforce => \A p \in Range(Tail(queue)) : Older(Head(queue), p)]_storeVars
=============================================================================
