--------------------- MODULE PersistentBatchStoreProofs ---------------------
(***************************************************************************)
(* Proofs about PersistentBatchStore, for every budget, radix, clock bound *)
(* and set of faults.                                                      *)
(***************************************************************************)
EXTENDS PersistentBatchStore, SequenceTheorems, TLAPS

-----------------------------------------------------------------------------
\* Sequences and directories.

\* An element appended is the last of a sequence that is otherwise the same.
LEMMA AppendFacts ==
    ASSUME NEW S, NEW s \in Seq(S), NEW e \in S
    PROVE  /\ Append(s, e) \in Seq(S)
           /\ Len(Append(s, e)) = Len(s) + 1
           /\ \A i \in 1 .. Len(s) : Append(s, e)[i] = s[i]
           /\ Append(s, e)[Len(s) + 1] = e
    OBVIOUS

\* queue_.pop_back() leaves a queue.
LEMMA FrontFacts ==
    ASSUME NEW S, NEW s \in Seq(S)
    PROVE  Front(s) \in Seq(S)
    BY DEF Front

\* A fragment of a batch is again a sequence of lines.
LEMMA FragmentFacts ==
    ASSUME NEW lines \in Seq(Line), NEW part \in Fragments(lines)
    PROVE  part \in Seq(Line)
<1>1. PICK k \in 0 .. Len(lines) - 1 :
          part = SubSeq(lines, 1, k) \/ part = Append(SubSeq(lines, 1, k), Torn)
    BY DEF Fragments
<1>2. SubSeq(lines, 1, k) \in Seq(Line)
    BY <1>1, SubSeqProperties, ElementOfSeq
<1>3. Append(SubSeq(lines, 1, k), Torn) \in Seq(Line)
    BY <1>2 DEF Line, Torn
<1> QED
    BY <1>1, <1>2, <1>3

\* Appending a new element, and removing the first, keep a sequence free of
\* duplicates.
LEMMA AppendOnce ==
    ASSUME NEW S, NEW s \in Seq(S), NEW e \in S
    PROVE  /\ Range(Append(s, e)) = Range(s) \cup {e}
           /\ IsInjective(s) /\ e \notin Range(s) => IsInjective(Append(s, e))
<1>1. /\ DOMAIN s = 1 .. Len(s) /\ Len(s) \in Nat
      /\ DOMAIN Append(s, e) = 1 .. Len(s) + 1
      /\ \A i \in 1 .. Len(s) : Append(s, e)[i] = s[i]
      /\ Append(s, e)[Len(s) + 1] = e
    BY AppendFacts, LenProperties
<1>2. Range(Append(s, e)) = Range(s) \cup {e}
    BY <1>1 DEF Range
<1>3. IsInjective(s) /\ e \notin Range(s) => IsInjective(Append(s, e))
    BY <1>1 DEF IsInjective, Range
<1> QED
    BY <1>2, <1>3

LEMMA TailOnce ==
    ASSUME NEW S, NEW s \in Seq(S), s # <<>>
    PROVE  /\ Head(s) = s[1] /\ Head(s) \in Range(s)
           /\ Range(Tail(s)) \subseteq Range(s)
           /\ IsInjective(s) => IsInjective(Tail(s)) /\ Head(s) \notin Range(Tail(s))
<1>1. /\ Len(s) \in Nat \ {0}
      /\ DOMAIN s = 1 .. Len(s)
      /\ DOMAIN Tail(s) = 1 .. Len(s) - 1
      /\ \A i \in 1 .. Len(s) - 1 : Tail(s)[i] = s[i + 1]
    BY HeadTailProperties, LenProperties, EmptySeq
<1>2. Head(s) = s[1]
    OBVIOUS
<1>3. Head(s) \in Range(s) /\ Range(Tail(s)) \subseteq Range(s)
    BY <1>1, <1>2 DEF Range
<1>4. IsInjective(s) => IsInjective(Tail(s)) /\ Head(s) \notin Range(Tail(s))
    BY <1>1, <1>2 DEF IsInjective, Range
<1> QED
    BY <1>2, <1>3, <1>4

LEMMA FrontOnce ==
    ASSUME NEW S, NEW s \in Seq(S)
    PROVE  /\ DOMAIN Front(s) \subseteq DOMAIN s
           /\ \A i \in DOMAIN Front(s) : Front(s)[i] = s[i]
           /\ Range(Front(s)) \subseteq Range(s)
           /\ IsInjective(s) => IsInjective(Front(s))
<1>1. /\ Len(s) \in Nat
      /\ DOMAIN s = 1 .. Len(s)
      /\ DOMAIN Front(s) \subseteq DOMAIN s
      /\ \A i \in DOMAIN Front(s) : Front(s)[i] = s[i]
    BY LenProperties DEF Front
<1> QED
    BY <1>1 DEF IsInjective, Range

-----------------------------------------------------------------------------
\* Type correctness.

LEMMA TypeInit == StoreInit => StoreTypeOK
<1> SUFFICES ASSUME StoreInit PROVE StoreTypeOK
    OBVIOUS
<1> USE DEF StoreInit
<1>1. files \in [DOMAIN files -> Seq(Line)] /\ DOMAIN files \subseteq Path
    OBVIOUS
<1>2. queue \in Seq(Path)
    OBVIOUS
<1>3. bytes \in Int /\ seqno \in Nat /\ clock \in 0 .. MaxClock
    BY StoreAssumption
<1> QED
    BY <1>1, <1>2, <1>3, Zenon DEF StoreTypeOK

\* A path is never that of Nothing, so a batch is never mistaken for Nothing.
LEMMA BatchFacts ==
    ASSUME NEW b \in Batch
    PROVE  b # Nothing /\ b.path \in Path /\ b.lines \in Seq(Line)
    BY DEF Batch, Nothing, Path

\* Files are only added with a path and lines, or removed.
LEMMA UnlinkKeepsType ==
    ASSUME files \in [DOMAIN files -> Seq(Line)], DOMAIN files \subseteq Path,
           NEW p, Unlink(p)
    PROVE  files' \in [DOMAIN files' -> Seq(Line)] /\ DOMAIN files' \subseteq Path
    BY DEF Unlink, Restrict

LEMMA WithKeepsType ==
    ASSUME files \in [DOMAIN files -> Seq(Line)], DOMAIN files \subseteq Path,
           NEW p \in Path, NEW lines \in Seq(Line), files' = With(p, lines)
    PROVE  files' \in [DOMAIN files' -> Seq(Line)] /\ DOMAIN files' \subseteq Path
    BY DEF With

LEMMA ContentType ==
    ASSUME files \in [DOMAIN files -> Seq(Line)], NEW p
    PROVE  Content(p) \subseteq Line
    BY RangeOfSeq DEF Content, Exists

LEMMA DropOldestKeepsType ==
    ASSUME StoreTypeOK, queue # <<>>, DropOldest
    PROVE  /\ files' \in [DOMAIN files' -> Seq(Line)] /\ DOMAIN files' \subseteq Path
           /\ queue' \in Seq(Path)
           /\ bytes' \in Int
           /\ dropped' \subseteq Line
<1>1. Head(queue) \in Path /\ Tail(queue) \in Seq(Path)
    BY HeadTailProperties DEF StoreTypeOK
<1>2. files' \in [DOMAIN files' -> Seq(Line)] /\ DOMAIN files' \subseteq Path
    BY UnlinkKeepsType DEF StoreTypeOK, DropOldest
<1>3. bytes' \in Int
    BY DEF StoreTypeOK, DropOldest, Discount, Exists
<1>4. dropped' \subseteq Line
    BY ContentType DEF StoreTypeOK, DropOldest
<1> QED
    BY <1>1, <1>2, <1>3, <1>4 DEF DropOldest

LEMMA StoreOpenKeepsType ==
    ASSUME StoreTypeOK, NEW lines \in Seq(Line) \ {<<>>}, StoreOpen(lines)
    PROVE  StoreTypeOK'
<1>1. clock' \in 0 .. MaxClock /\ clock' > 0 /\ seqno' \in Nat
    BY DEF StoreTypeOK, StoreOpen
<1>2. NextPath(clock') \in Path
    BY <1>1 DEF StoreTypeOK, NextPath, Path
<1>3. <<>> \in Seq(Line)
    OBVIOUS
<1>4. CASE /\ files' = With(NextPath(clock'), <<>>)
           /\ step' = "write"
           /\ cur' = [path |-> NextPath(clock'), lines |-> lines]
           /\ UNCHANGED ret
  <2>1. files' \in [DOMAIN files' -> Seq(Line)] /\ DOMAIN files' \subseteq Path
      BY <1>2, <1>3, <1>4, WithKeepsType DEF StoreTypeOK
  <2>2. cur' \in Batch /\ cur' # Nothing
      BY <1>2, <1>4, BatchFacts DEF Batch
  <2> QED
      BY <1>1, <1>4, <2>1, <2>2 DEF StoreTypeOK, StoreOpen
<1>5. CASE ret' = FALSE /\ UNCHANGED <<files, step, cur>>
    BY <1>1, <1>5 DEF StoreTypeOK, StoreOpen
<1> QED
    BY <1>4, <1>5 DEF StoreOpen

LEMMA ForgetKeepsType ==
    ASSUME StoreTypeOK, Forget,
           files' \in [DOMAIN files' -> Seq(Line)], DOMAIN files' \subseteq Path
    PROVE  StoreTypeOK'
<1>1. queue' \in Seq(Path) /\ bytes' \in Int /\ seqno' \in Nat
    BY DEF Forget
<1> QED
    BY <1>1, Zenon DEF StoreTypeOK, Forget

LEMMA TypeStep == StoreTypeOK /\ [StoreNext]_storeVars => StoreTypeOK'
<1> SUFFICES ASSUME StoreTypeOK, [StoreNext]_storeVars
             PROVE  StoreTypeOK'
    OBVIOUS
<1> USE DEF StoreTypeOK
<1>1. CASE Initialize
  <2>1. clock' \in 0 .. MaxClock /\ clock' > 0
      BY <1>1, StoreAssumption DEF Initialize
  <2>2. unread' \subseteq Path /\ (mode' # "loading" => unread' = {})
      BY <1>1 DEF Initialize
  <2> QED
      BY <1>1, <2>1, <2>2, Zenon DEF Initialize
<1>2. CASE LoadEntry
  <2>1. PICK p \in unread :
            /\ unread' = unread \ {p}
            /\ \/ Exists(p) /\ queue' = Append(queue, p) /\ bytes' = bytes + Len(files[p])
               \/ UNCHANGED <<queue, bytes>>
      BY <1>2 DEF LoadEntry
  <2>2. queue' \in Seq(Path)
      BY <2>1, AppendFacts
  <2>3. bytes' \in Int
    <3>1. Exists(p) => Len(files[p]) \in Nat
        BY LenProperties DEF Exists
    <3> QED
        BY <2>1, <3>1
  <2> QED
      BY <1>2, <2>3, <2>1, <2>2 DEF LoadEntry
<1>3. CASE LoadDone
    BY <1>3 DEF LoadDone
<1>4. CASE Destroy
    BY <1>4, ForgetKeepsType DEF Destroy
<1>5. CASE Crash
  <2>1. CASE UNCHANGED files
      BY <1>5, <2>1, ForgetKeepsType DEF Crash
  <2>2. CASE step = "write" /\ \E part \in Fragments(cur.lines) \cup {cur.lines} :
                                   files' = With(cur.path, part)
    <3>1. cur.path \in Path /\ cur.lines \in Seq(Line)
        BY <2>2, BatchFacts
    <3>2. PICK part \in Seq(Line) : files' = With(cur.path, part)
        BY <2>2, <3>1, FragmentFacts
    <3> QED
        BY <1>5, <3>1, <3>2, WithKeepsType, ForgetKeepsType DEF Crash
  <2> QED
      BY <1>5, <2>1, <2>2 DEF Crash
<1>6. CASE Vanish
  <2>1. PICK p \in DOMAIN files : /\ files' = Restrict(files, DOMAIN files \ {p})
                                  /\ dropped' = dropped \cup Content(p)
      BY <1>6 DEF Vanish
  <2>2. files' \in [DOMAIN files' -> Seq(Line)] /\ DOMAIN files' \subseteq Path
      BY <2>1, UnlinkKeepsType DEF Unlink
  <2>3. dropped' \subseteq Line
      BY <2>1, ContentType
  <2> QED
      BY <1>6, <2>2, <2>3 DEF Vanish
<1>7. CASE StoreDisabled
    BY <1>7 DEF StoreDisabled
<1>8. CASE \E lines \in Seq(Line) \ {<<>>} : StoreOpen(lines)
    BY <1>8, StoreOpenKeepsType
<1>9. CASE StoreWrite
  <2>1. cur.path \in Path /\ cur.lines \in Seq(Line)
      BY <1>9, BatchFacts DEF StoreWrite
  <2>2. files' \in [DOMAIN files' -> Seq(Line)] /\ DOMAIN files' \subseteq Path
      BY <1>9, <2>1, WithKeepsType DEF StoreWrite
  <2>3. queue' \in Seq(Path) /\ bytes' \in Int
      BY <1>9, <2>1, AppendFacts DEF StoreWrite
  <2> QED
      BY <1>9, <2>2, <2>3 DEF StoreWrite
<1>10. CASE StoreWriteFails
  <2>1. cur.path \in Path /\ cur.lines \in Seq(Line)
      BY <1>10, BatchFacts DEF StoreWriteFails
  <2>2. files' \in [DOMAIN files' -> Seq(Line)] /\ DOMAIN files' \subseteq Path
    <3>1. CASE Unlink(cur.path)
        BY <3>1, UnlinkKeepsType
    <3>2. CASE \E part \in Fragments(cur.lines) \cup {cur.lines} : files' = With(cur.path, part)
        BY <2>1, <3>2, FragmentFacts, WithKeepsType
    <3>3. CASE UNCHANGED files
        BY <3>3
    <3> QED
        BY <1>10, <3>1, <3>2, <3>3 DEF StoreWriteFails
  <2> QED
      BY <1>10, <2>1, <2>2 DEF StoreWriteFails
<1>11. CASE Enforce
  <2>1. queue # <<>>
      BY <1>11 DEF Enforce
  <2> QED
      BY <1>11, <2>1, DropOldestKeepsType DEF Enforce
<1>12. CASE StoreReject
  <2>1. files' \in [DOMAIN files' -> Seq(Line)] /\ DOMAIN files' \subseteq Path
      BY <1>12, UnlinkKeepsType DEF StoreReject
  <2>2. queue' \in Seq(Path)
      BY <1>12, FrontFacts DEF StoreReject
  <2>3. cur.lines \in Seq(Line)
      BY <1>12, BatchFacts DEF StoreReject
  <2>4. bytes' \in Int
      BY <1>12, <2>3 DEF StoreReject
  <2> QED
      BY <1>12, <2>1, <2>2, <2>4 DEF StoreReject
<1>13. CASE StoreAccept
    BY <1>13 DEF StoreAccept
<1>14. CASE NextBatch
  <2>1. pending' \in Batch
      BY <1>14, HeadTailProperties DEF NextBatch, Exists, Batch
  <2> QED
      BY <1>14, <2>1 DEF NextBatch
<1>15. CASE NextUnreadable
    BY <1>15, DropOldestKeepsType DEF NextUnreadable
<1>16. CASE MarkProcessed
  <2>1. CASE UNCHANGED <<files, queue, bytes>>
      BY <1>16, <2>1 DEF MarkProcessed
  <2>2. CASE /\ queue # <<>>
             /\ Discount(pending.path)
             /\ Unlink(pending.path)
             /\ queue' = Tail(queue)
    <3>1. files' \in [DOMAIN files' -> Seq(Line)] /\ DOMAIN files' \subseteq Path
        BY <2>2, UnlinkKeepsType
    <3>2. queue' \in Seq(Path)
        BY <2>2, HeadTailProperties
    <3>3. bytes' \in Int
        BY <2>2 DEF Discount, Exists
    <3> QED
        BY <1>16, <3>1, <3>2, <3>3 DEF MarkProcessed
  <2> QED
      BY <1>16, <2>1, <2>2 DEF MarkProcessed
<1>17. CASE UNCHANGED storeVars
    BY <1>17 DEF storeVars
<1> QED
    BY <1>1, <1>2, <1>3, <1>4, <1>5, <1>6, <1>7, <1>8, <1>9, <1>10, <1>11, <1>12,
       <1>13, <1>14, <1>15, <1>16, <1>17
    DEF StoreNext, StoreStart, StoreInside

\* The store is type-correct, and holds nothing outside the modes that may hold
\* it, in every behaviour of a single caller.
THEOREM StoreTypeCorrect == StoreSpec => []StoreTypeOK
<1> QED
    BY TypeInit, TypeStep, PTL DEF StoreSpec

-----------------------------------------------------------------------------
\* The safety invariant.

LEMMA InvInit == StoreInit => StoreInv
<1> SUFFICES ASSUME StoreInit PROVE StoreInv
    OBVIOUS
<1>1. Range(queue) = {} /\ IsInjective(queue)
    BY DEF StoreInit, Range, IsInjective
<1>2. Known = {}
    BY <1>1 DEF StoreInit, Known
<1> QED
    BY <1>1, <1>2, TypeInit
    DEF StoreInit, StoreInv, NamesOld, QueuedOnce, WritingFresh, PendingUnchanged,
        PendingFrontOrGone, NewestSurvivesEviction

\* A step of a running store that learns no new path and leaves the clock and
\* the sequence number alone keeps the names old.
LEMMA NamesStayOld ==
    ASSUME NamesOld, Known' \subseteq Known, UNCHANGED <<clock, seqno, mode>>
    PROVE  NamesOld'
    BY DEF NamesOld

\* The path of a new file is not known yet.
LEMMA NextPathFresh ==
    ASSUME StoreInv, mode = "on", NEW ms \in Nat, ms >= clock
    PROVE  NextPath(ms) \notin Known
    BY DEF StoreInv, StoreTypeOK, NamesOld, NextPath

LEMMA ForgetKeepsInv ==
    ASSUME StoreInv, Forget, DOMAIN files' \subseteq DOMAIN files
    PROVE  /\ NamesOld' /\ QueuedOnce' /\ WritingFresh' /\ PendingUnchanged'
           /\ PendingFrontOrGone' /\ NewestSurvivesEviction'
<1>1. Range(queue') = {} /\ IsInjective(queue')
    BY DEF Forget, Range, IsInjective
<1>2. Known' \subseteq Known
    BY <1>1 DEF Forget, Known
<1>3. NamesOld'
    BY <1>2 DEF StoreInv, NamesOld, Forget
<1>4. QueuedOnce'
    BY <1>1 DEF QueuedOnce, Forget
<1> QED
    BY <1>3, <1>4
    DEF Forget, WritingFresh, PendingUnchanged, PendingFrontOrGone, NewestSurvivesEviction

\* Removing a file leaves the other files as they are.
LEMMA UnlinkFacts ==
    ASSUME NEW p, Unlink(p)
    PROVE  /\ DOMAIN files' \subseteq DOMAIN files
           /\ \A f \in DOMAIN files : f # p => f \in DOMAIN files'
           /\ \A f \in DOMAIN files' : files'[f] = files[f]
    BY DEF Unlink, Restrict

LEMMA DropOldestKeepsInv ==
    ASSUME StoreInv, queue # <<>>, DropOldest, step = "enforce" => Len(queue) > 1,
           UNCHANGED <<mode, unread, seqno, clock, step, cur, ret, pending>>
    PROVE  /\ NamesOld' /\ QueuedOnce' /\ WritingFresh' /\ PendingUnchanged'
           /\ PendingFrontOrGone' /\ NewestSurvivesEviction'
<1> USE DEF StoreInv
<1>1. /\ queue \in Seq(Path) /\ queue' = Tail(queue)
      /\ Len(queue) \in Nat \ {0} /\ DOMAIN queue = 1 .. Len(queue)
      /\ DOMAIN queue' = 1 .. Len(queue) - 1 /\ Len(queue') = Len(queue) - 1
      /\ \A i \in DOMAIN queue' : queue'[i] = queue[i + 1]
    BY HeadTailProperties, LenProperties, EmptySeq DEF StoreTypeOK, DropOldest
<1>2. /\ Head(queue) = queue[1]
      /\ Range(queue') \subseteq Range(queue)
      /\ IsInjective(queue')
    BY <1>1, TailOnce DEF QueuedOnce
<1>3. /\ DOMAIN files' \subseteq DOMAIN files
      /\ \A f \in DOMAIN files : f # Head(queue) => f \in DOMAIN files'
      /\ \A f \in DOMAIN files' : files'[f] = files[f]
    BY UnlinkFacts DEF DropOldest
<1>4. NamesOld'
  <2>1. Known' \subseteq Known
      BY <1>2, <1>3 DEF Known
  <2> QED
      BY <2>1, NamesStayOld
<1>5. QueuedOnce' /\ WritingFresh'
    BY <1>2 DEF QueuedOnce, WritingFresh
<1>6. PendingUnchanged'
    BY <1>3 DEF PendingUnchanged, Exists
<1>7. PendingFrontOrGone'
  <2> SUFFICES ASSUME pending # Nothing, NEW i \in DOMAIN queue', queue'[i] = pending.path
               PROVE  FALSE
      BY DEF PendingFrontOrGone
  <2>1. i + 1 \in DOMAIN queue /\ queue[i + 1] = pending.path
      BY <1>1
  <2>2. i + 1 = 1
      BY <2>1 DEF PendingFrontOrGone
  <2> QED
      BY <1>1, <2>2
<1>8. NewestSurvivesEviction'
  <2> SUFFICES ASSUME step = "enforce"
               PROVE  /\ queue' # <<>>
                      /\ Last(queue') = cur.path
                      /\ IF cur.path \in DOMAIN files' THEN files'[cur.path] = cur.lines
                                                      ELSE Range(cur.lines) \subseteq dropped'
      BY DEF NewestSurvivesEviction, Exists
  <2>1. Len(queue) > 1 /\ queue[Len(queue)] = cur.path
      BY DEF NewestSurvivesEviction, Last
  <2>2. queue' # <<>> /\ Last(queue') = cur.path
    <3>1. Len(queue) - 1 \in DOMAIN queue'
        BY <1>1, <2>1
    <3>2. queue'[Len(queue) - 1] = cur.path
        BY <1>1, <2>1, <3>1
    <3>3. queue' # <<>>
        BY <3>1
    <3> QED
        BY <1>1, <3>2, <3>3 DEF Last
  <2>3. cur.path # Head(queue)
      BY <1>1, <1>2, <2>1 DEF QueuedOnce, IsInjective
  <2> QED
      BY <1>3, <2>2, <2>3 DEF NewestSurvivesEviction, Exists, DropOldest
<1> QED
    BY <1>4, <1>5, <1>6, <1>7, <1>8

LEMMA StoreOpenKeepsInv ==
    ASSUME StoreInv, NEW lines \in Seq(Line) \ {<<>>}, StoreOpen(lines)
    PROVE  /\ NamesOld' /\ QueuedOnce' /\ WritingFresh' /\ PendingUnchanged'
           /\ PendingFrontOrGone' /\ NewestSurvivesEviction'
<1> DEFINE new == NextPath(clock')
<1>1. /\ clock \in Nat /\ clock' \in Nat /\ clock' >= clock
      /\ seqno \in Nat /\ seqno' = seqno + 1
      /\ mode = "on" /\ UNCHANGED <<mode, unread, queue, pending, dropped>>
    BY StoreAssumption DEF StoreInv, StoreTypeOK, StoreOpen
<1>2. new \notin Known
    BY <1>1, NextPathFresh
<1>3. \/ files' = files /\ step' # "write" /\ step' # "enforce"
      \/ files' = With(new, <<>>) /\ step' = "write" /\ cur'.path = new
    BY DEF StoreOpen
<1>4. DOMAIN files' \subseteq DOMAIN files \cup {new}
    BY <1>3 DEF With
<1>5. Known' \subseteq Known \cup {new}
    BY <1>1, <1>4 DEF Known
<1>6. NamesOld'
  <2>1. \A p \in Known : p \in Nat \X Nat
      BY RangeOfSeq DEF StoreInv, StoreTypeOK, Known, Path, Batch
  <2>2. new[1] = clock' /\ new[2] = seqno
      BY DEF NextPath
  <2> QED
      BY <1>1, <1>5, <2>1, <2>2 DEF StoreInv, NamesOld
<1>7. QueuedOnce' /\ PendingFrontOrGone'
    BY <1>1 DEF StoreInv, QueuedOnce, PendingFrontOrGone
<1>8. WritingFresh'
    BY <1>1, <1>2, <1>3 DEF WritingFresh, Known
<1>9. PendingUnchanged'
    BY <1>1, <1>2, <1>3 DEF StoreInv, PendingUnchanged, Known, Exists, With
<1>10. NewestSurvivesEviction'
    BY <1>3 DEF NewestSurvivesEviction
<1> QED
    BY <1>6, <1>7, <1>8, <1>9, <1>10

LEMMA StoreWriteKeepsInv ==
    ASSUME StoreInv, StoreWrite
    PROVE  /\ NamesOld' /\ QueuedOnce' /\ WritingFresh' /\ PendingUnchanged'
           /\ PendingFrontOrGone' /\ NewestSurvivesEviction'
<1> USE DEF StoreInv, StoreWrite
<1>1. /\ queue \in Seq(Path) /\ cur.path \in Path /\ mode = "on" /\ unread = {}
      /\ cur.path \notin Range(queue)
      /\ pending # Nothing => pending.path # cur.path
    BY DEF StoreTypeOK, Batch, WritingFresh
<1>2. /\ DOMAIN files' = DOMAIN files
      /\ files'[cur.path] = cur.lines
      /\ \A f \in DOMAIN files : f # cur.path => files'[f] = files[f]
    BY DEF With, Exists
<1>3. Range(queue') = Range(queue) \cup {cur.path} /\ IsInjective(queue')
    BY <1>1, AppendOnce DEF QueuedOnce
<1>4. NamesOld'
  <2>1. Known' \subseteq Known
      BY <1>2, <1>3 DEF Known, Exists
  <2> QED
      BY <2>1, NamesStayOld
<1>5. QueuedOnce' /\ WritingFresh'
    BY <1>1, <1>3 DEF QueuedOnce, WritingFresh
<1>6. PendingUnchanged'
    BY <1>1, <1>2 DEF PendingUnchanged, Exists
<1>7. /\ Len(queue) \in Nat /\ Len(queue') = Len(queue) + 1
      /\ DOMAIN queue = 1 .. Len(queue) /\ DOMAIN queue' = 1 .. Len(queue) + 1
      /\ \A i \in 1 .. Len(queue) : queue'[i] = queue[i]
      /\ queue'[Len(queue) + 1] = cur.path
    BY <1>1, AppendFacts, LenProperties
<1>8. PendingFrontOrGone'
  <2> SUFFICES ASSUME pending # Nothing, NEW i \in DOMAIN queue', queue'[i] = pending.path
               PROVE  i = 1
      BY DEF PendingFrontOrGone
  <2>1. i \in DOMAIN queue /\ queue[i] = pending.path
      BY <1>1, <1>7
  <2> QED
      BY <2>1 DEF PendingFrontOrGone
<1>9. NewestSurvivesEviction'
    BY <1>2, <1>7 DEF NewestSurvivesEviction, Last, Exists
<1> QED
    BY <1>4, <1>5, <1>6, <1>8, <1>9

\* Where the queue, the pending batch and the sequence number stay the same and
\* files only disappear, with their lines recorded while store() is evicting.
LEMMA FewerFilesKeepInv ==
    ASSUME StoreInv, UNCHANGED <<mode, unread, queue, seqno, clock, pending>>,
           DOMAIN files' \subseteq DOMAIN files,
           \A f \in DOMAIN files' : files'[f] = files[f],
           step' = "write" => UNCHANGED <<step, cur>>,
           step' = "enforce" =>
               /\ UNCHANGED <<step, cur>>
               /\ dropped \subseteq dropped'
               /\ cur.path \in DOMAIN files \ DOMAIN files' =>
                      Content(cur.path) \subseteq dropped'
    PROVE  /\ NamesOld' /\ QueuedOnce' /\ WritingFresh' /\ PendingUnchanged'
           /\ PendingFrontOrGone' /\ NewestSurvivesEviction'
<1> USE DEF StoreInv
<1>1. NamesOld'
    BY NamesStayOld DEF Known
<1>2. QueuedOnce' /\ WritingFresh' /\ PendingFrontOrGone'
    BY DEF QueuedOnce, WritingFresh, PendingFrontOrGone
<1>3. PendingUnchanged'
    BY DEF PendingUnchanged, Exists
<1>4. NewestSurvivesEviction'
    BY DEF NewestSurvivesEviction, Exists, Content
<1> QED
    BY <1>1, <1>2, <1>3, <1>4

LEMMA MarkProcessedKeepsInv ==
    ASSUME StoreInv, MarkProcessed
    PROVE  /\ NamesOld' /\ QueuedOnce' /\ WritingFresh' /\ PendingUnchanged'
           /\ PendingFrontOrGone' /\ NewestSurvivesEviction'
<1> USE DEF StoreInv, MarkProcessed
<1>1. Range(queue') \subseteq Range(queue) /\ IsInjective(queue')
  <2>1. queue \in Seq(Path) /\ IsInjective(queue)
      BY DEF StoreTypeOK, QueuedOnce
  <2>2. UNCHANGED queue \/ (queue # <<>> /\ queue' = Tail(queue))
      OBVIOUS
  <2> HIDE DEF StoreInv, MarkProcessed
  <2> QED
      BY <2>1, <2>2, TailOnce
<1>2. DOMAIN files' \subseteq DOMAIN files
    BY UnlinkFacts
<1>3. NamesOld'
  <2>1. Known' \subseteq Known
      BY <1>1, <1>2 DEF Known
  <2> QED
      BY <2>1, NamesStayOld
<1>4. QueuedOnce'
    BY <1>1 DEF QueuedOnce
<1> QED
    BY <1>3, <1>4 DEF WritingFresh, PendingUnchanged, PendingFrontOrGone,
                      NewestSurvivesEviction

LEMMA NextBatchKeepsInv ==
    ASSUME StoreInv, NextBatch
    PROVE  /\ NamesOld' /\ QueuedOnce' /\ WritingFresh' /\ PendingUnchanged'
           /\ PendingFrontOrGone' /\ NewestSurvivesEviction'
<1> USE DEF StoreInv, NextBatch
<1>1. /\ Head(queue) = queue[1] /\ Head(queue) \in Range(queue)
      /\ DOMAIN queue = 1 .. Len(queue) /\ Len(queue) \in Nat \ {0}
    BY TailOnce, LenProperties, EmptySeq DEF StoreTypeOK
<1>2. NamesOld'
  <2>1. Known' \subseteq Known
      BY <1>1 DEF Known
  <2> QED
      BY <2>1, NamesStayOld
<1>3. PendingFrontOrGone'
    BY <1>1 DEF PendingFrontOrGone, QueuedOnce, IsInjective
<1> QED
    BY <1>2, <1>3 DEF QueuedOnce, WritingFresh, PendingUnchanged, Exists,
                      NewestSurvivesEviction

LEMMA StoreRejectKeepsInv ==
    ASSUME StoreInv, StoreReject
    PROVE  /\ NamesOld' /\ QueuedOnce' /\ WritingFresh' /\ PendingUnchanged'
           /\ PendingFrontOrGone' /\ NewestSurvivesEviction'
<1> USE DEF StoreInv, StoreReject
<1>1. /\ Range(queue') \subseteq Range(queue) /\ IsInjective(queue')
      /\ DOMAIN queue' \subseteq DOMAIN queue
      /\ \A i \in DOMAIN queue' : queue'[i] = queue[i]
  <2>1. queue \in Seq(Path) /\ queue' = Front(queue) /\ IsInjective(queue)
      BY DEF StoreTypeOK, QueuedOnce
  <2> QED
      BY <2>1, FrontOnce
<1>2. /\ DOMAIN files' \subseteq DOMAIN files
      /\ \A f \in DOMAIN files' : files'[f] = files[f]
    BY UnlinkFacts
<1>3. NamesOld'
  <2>1. Known' \subseteq Known
      BY <1>1, <1>2 DEF Known
  <2> QED
      BY <2>1, NamesStayOld
<1>4. PendingFrontOrGone'
    BY <1>1 DEF PendingFrontOrGone
<1>5. PendingUnchanged'
    BY <1>2 DEF PendingUnchanged, Exists
<1> QED
    BY <1>1, <1>3, <1>4, <1>5 DEF QueuedOnce, WritingFresh, NewestSurvivesEviction

LEMMA InitializeKeepsInv ==
    ASSUME StoreInv, Initialize
    PROVE  /\ NamesOld' /\ QueuedOnce' /\ WritingFresh' /\ PendingUnchanged'
           /\ PendingFrontOrGone' /\ NewestSurvivesEviction'
<1> USE DEF StoreInv, Initialize
<1>1. /\ queue = <<>> /\ unread = {} /\ pending = Nothing /\ step = "idle"
      /\ clock \in Nat
    BY StoreAssumption DEF StoreTypeOK
<1>2. Range(queue) = {}
    BY <1>1 DEF Range
<1>3. Known' \subseteq Known /\ Known \subseteq Nat \X Nat
    BY <1>1, <1>2 DEF Known, StoreTypeOK, Path
<1>4. NamesOld'
    BY <1>1, <1>3 DEF NamesOld
<1> QED
    BY <1>1, <1>2, <1>4 DEF QueuedOnce, WritingFresh, PendingUnchanged,
                            PendingFrontOrGone, NewestSurvivesEviction

LEMMA LoadEntryKeepsInv ==
    ASSUME StoreInv, LoadEntry
    PROVE  /\ NamesOld' /\ QueuedOnce' /\ WritingFresh' /\ PendingUnchanged'
           /\ PendingFrontOrGone' /\ NewestSurvivesEviction'
<1> USE DEF StoreInv
<1>1. PICK p \in unread : /\ unread' = unread \ {p}
                          /\ queue' = Append(queue, p) \/ queue' = queue
    BY DEF LoadEntry
<1>2. /\ mode = "loading" /\ pending = Nothing /\ step = "idle"
      /\ UNCHANGED <<files, mode, seqno, clock, step, cur, pending>>
    BY DEF StoreTypeOK, LoadEntry
<1>3. Range(queue') \subseteq Range(queue) \cup {p} /\ IsInjective(queue')
  <2>1. queue \in Seq(Path) /\ p \in Path /\ p \notin Range(queue) /\ IsInjective(queue)
      BY DEF StoreTypeOK, QueuedOnce
  <2>2. /\ Range(Append(queue, p)) = Range(queue) \cup {p}
        /\ IsInjective(Append(queue, p))
      BY <2>1, AppendOnce
  <2> QED
      BY <1>1, <2>1, <2>2
<1>4. NamesOld'
  <2>1. Known' \subseteq Known
      BY <1>1, <1>2, <1>3 DEF Known
  <2> QED
      BY <1>2, <2>1, NamesStayOld
<1>5. QueuedOnce'
    BY <1>1, <1>3 DEF QueuedOnce
<1> QED
    BY <1>2, <1>4, <1>5 DEF WritingFresh, PendingUnchanged, PendingFrontOrGone,
                            NewestSurvivesEviction

LEMMA InvStep == StoreInv /\ [StoreNext]_storeVars => StoreInv'
<1> SUFFICES ASSUME StoreInv, [StoreNext]_storeVars
             PROVE  /\ NamesOld' /\ QueuedOnce' /\ WritingFresh' /\ PendingUnchanged'
                    /\ PendingFrontOrGone' /\ NewestSurvivesEviction'
    BY TypeStep DEF StoreInv
<1>1. CASE Initialize
    BY <1>1, InitializeKeepsInv
<1>2. CASE LoadEntry
    BY <1>2, LoadEntryKeepsInv
<1>3. CASE LoadDone
  <2>1. step = "idle" /\ pending = Nothing
      BY <1>3 DEF StoreInv, StoreTypeOK, LoadDone
  <2>2. NamesOld'
      BY <1>3, <2>1 DEF StoreInv, NamesOld, Known, LoadDone
  <2> QED
      BY <1>3, <2>1, <2>2 DEF LoadDone, StoreInv, QueuedOnce, WritingFresh,
             PendingUnchanged, PendingFrontOrGone, NewestSurvivesEviction
<1>4. CASE Destroy
    BY <1>4, ForgetKeepsInv DEF Destroy
<1>5. CASE Crash
  <2>1. DOMAIN files' \subseteq DOMAIN files
      BY <1>5 DEF Crash, With, Exists
  <2> QED
      BY <1>5, <2>1, ForgetKeepsInv DEF Crash
<1>6. CASE Vanish
  <2>1. PICK p \in DOMAIN files : /\ files' = Restrict(files, DOMAIN files \ {p})
                                  /\ dropped' = dropped \cup Content(p)
      BY <1>6 DEF Vanish
  <2>2. Unlink(p)
      BY <2>1 DEF Unlink
  <2>3. \A f \in DOMAIN files \ DOMAIN files' : f = p
      BY <2>2, UnlinkFacts
  <2> QED
      BY <1>6, <2>1, <2>2, <2>3, UnlinkFacts, FewerFilesKeepInv DEF Vanish
<1>7. CASE StoreDisabled
    BY <1>7, FewerFilesKeepInv DEF StoreDisabled
<1>8. CASE \E lines \in Seq(Line) \ {<<>>} : StoreOpen(lines)
    BY <1>8, StoreOpenKeepsInv
<1>9. CASE StoreWrite
    BY <1>9, StoreWriteKeepsInv
<1>10. CASE StoreWriteFails
  <2>1. CASE Unlink(cur.path) \/ UNCHANGED files
      BY <1>10, <2>1, UnlinkFacts, FewerFilesKeepInv DEF StoreWriteFails
  <2>2. CASE Exists(cur.path) /\ \E part : files' = With(cur.path, part)
    <3>1. /\ DOMAIN files' = DOMAIN files
          /\ \A f \in DOMAIN files : f # cur.path => files'[f] = files[f]
        BY <2>2 DEF With, Exists
    <3>2. step = "write" /\ step' = "idle"
          /\ UNCHANGED <<mode, unread, queue, seqno, clock, pending>>
        BY <1>10 DEF StoreWriteFails
    <3>3. NamesOld'
        BY <3>1, <3>2, NamesStayOld DEF StoreInv, Known
    <3>4. PendingUnchanged'
        BY <3>1, <3>2 DEF StoreInv, WritingFresh, PendingUnchanged, Exists
    <3> QED
        BY <3>2, <3>3, <3>4 DEF StoreInv, QueuedOnce, WritingFresh, PendingFrontOrGone,
                                NewestSurvivesEviction
  <2> QED
      BY <1>10, <2>1, <2>2 DEF StoreWriteFails
<1>11. CASE Enforce
  <2>1. queue # <<>>
      BY <1>11 DEF Enforce
  <2> QED
      BY <1>11, <2>1, DropOldestKeepsInv DEF Enforce
<1>12. CASE StoreReject
    BY <1>12, StoreRejectKeepsInv
<1>13. CASE StoreAccept
    BY <1>13, FewerFilesKeepInv DEF StoreAccept
<1>14. CASE NextBatch
    BY <1>14, NextBatchKeepsInv
<1>15. CASE NextUnreadable
    BY <1>15, DropOldestKeepsInv DEF NextUnreadable
<1>16. CASE MarkProcessed
    BY <1>16, MarkProcessedKeepsInv
<1>17. CASE UNCHANGED storeVars
    BY <1>17, FewerFilesKeepInv DEF storeVars
<1> QED
    BY <1>1, <1>2, <1>3, <1>4, <1>5, <1>6, <1>7, <1>8, <1>9, <1>10, <1>11, <1>12,
       <1>13, <1>14, <1>15, <1>16, <1>17
    DEF StoreNext, StoreStart, StoreInside

\* In every behaviour the paths the store knows are old, queued once, and not the
\* one being written, and what the caller holds is what its file holds.
THEOREM StoreInvariant == StoreSpec => []StoreInv
<1> QED
    BY InvInit, InvStep, PTL DEF StoreSpec

\* In every behaviour the batch in the caller's hands is the front of the queue
\* or has been evicted.
THEOREM PendingIsFrontOrGone == StoreSpec => []PendingFrontOrGone
<1>1. StoreInv => PendingFrontOrGone
    BY DEF StoreInv
<1> QED
    BY <1>1, StoreInvariant, PTL

\* Eviction never reaches the batch it makes room for.
THEOREM NewestIsSpared == StoreSpec => []NewestSurvivesEviction
<1>1. StoreInv => NewestSurvivesEviction
    BY DEF StoreInv
<1> QED
    BY <1>1, StoreInvariant, PTL

\* store() never empties a file that is there, be it of this process or of one
\* before it.
THEOREM NamesAreNotReused == StoreSpec => NoOverwrite
<1>1. StoreInv /\ [StoreNext]_storeVars
         => [(step = "idle" /\ step' = "write") => ~Exists(cur'.path)]_storeVars
  <2> SUFFICES ASSUME StoreInv, StoreNext, step = "idle", step' = "write"
               PROVE  ~Exists(cur'.path)
      OBVIOUS
  <2>1. PICK lines \in Seq(Line) \ {<<>>} : StoreOpen(lines)
      BY DEF StoreNext, StoreStart, StoreInside, Initialize, LoadEntry, LoadDone, Destroy,
             Crash, Forget, Vanish, StoreDisabled, StoreWrite, StoreWriteFails, Enforce,
             StoreReject, StoreAccept, NextBatch, NextUnreadable, MarkProcessed
  <2>2. cur'.path = NextPath(clock') /\ mode = "on" /\ clock' \in Nat /\ clock' >= clock
      BY <2>1, StoreAssumption DEF StoreOpen, StoreInv, StoreTypeOK
  <2> QED
      BY <2>2, NextPathFresh DEF Known, Exists
<1> QED
    BY <1>1, StoreInvariant, PTL DEF StoreSpec, NoOverwrite

\* mark_processed deletes nothing but what its caller has read.
THEOREM OnlyReadBatchesAreDeleted == StoreSpec => ProcessedWasRead
<1>1. StoreInv /\ [StoreNext]_storeVars
         => [MarkProcessed => \A p \in DOMAIN files \ DOMAIN files' :
                 Content(p) \subseteq Range(pending.lines)]_storeVars
  <2> SUFFICES ASSUME StoreInv, MarkProcessed, NEW p \in DOMAIN files \ DOMAIN files'
               PROVE  Content(p) \subseteq Range(pending.lines)
      OBVIOUS
  <2>1. Unlink(pending.path) /\ pending # Nothing
      BY DEF MarkProcessed
  <2>2. p = pending.path
      BY <2>1, UnlinkFacts
  <2> QED
      BY <2>1, <2>2 DEF StoreInv, PendingUnchanged, Exists, Content
<1> QED
    BY <1>1, StoreInvariant, PTL DEF StoreSpec, ProcessedWasRead
=============================================================================
