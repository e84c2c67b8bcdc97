-------------------------- MODULE AccountingProofs --------------------------
(***************************************************************************)
(* The accounting of PersistentBatchStore: current_bytes_, the queue and   *)
(* the directory, for every budget, radix and clock bound.                 *)
(***************************************************************************)
EXTENDS PersistentBatchStoreProofs, FiniteSetTheorems

-----------------------------------------------------------------------------
\* The size of a set of files.

Directory(dir) == dir \in [DOMAIN dir -> Seq(Line)] /\ IsFiniteSet(DOMAIN dir)

\* One unit per line of a file.
LEMMA UnitFacts ==
    ASSUME NEW dir, NEW P, NEW u
    PROVE  u \in UnitsOf(dir, P) <=>
               \E p \in P \cap DOMAIN dir : \E i \in DOMAIN dir[p] : u = <<p, i>>
    BY DEF UnitsOf

\* One file has as many units as lines.
LEMMA FileSize ==
    ASSUME NEW dir, Directory(dir), NEW p \in DOMAIN dir
    PROVE  /\ Len(dir[p]) \in Nat
           /\ IsFiniteSet({p} \X DOMAIN dir[p])
           /\ Cardinality({p} \X DOMAIN dir[p]) = Len(dir[p])
<1> DEFINE n == Len(dir[p])
<1>1. n \in Nat /\ DOMAIN dir[p] = 1 .. n
    BY LenProperties DEF Directory
<1> HIDE DEF n
<1>2. IsFiniteSet(1 .. n) /\ Cardinality(1 .. n) = IF 1 > n THEN 0 ELSE n - 1 + 1
    BY <1>1, FS_Interval
<1>3. Cardinality(1 .. n) = n
    BY <1>1, <1>2
<1>4. IsFiniteSet({p}) /\ Cardinality({p}) = 1
    BY FS_Singleton
<1>5. /\ IsFiniteSet({p} \X (1 .. n))
      /\ Cardinality({p} \X (1 .. n)) = Cardinality({p}) * Cardinality(1 .. n)
    BY <1>2, <1>4, FS_Product
<1>6. Cardinality({p} \X (1 .. n)) = n
    BY <1>1, <1>3, <1>4, <1>5
<1> QED
    BY <1>1, <1>5, <1>6 DEF n

\* A directory takes finite space.
LEMMA UnitsFinite ==
    ASSUME NEW dir, Directory(dir), NEW P
    PROVE  IsFiniteSet(UnitsOf(dir, P)) /\ SizeOf(dir, P) \in Nat
<1> DEFINE f == [p \in P \cap DOMAIN dir |-> {p} \X DOMAIN dir[p]]
           T == {{p} \X DOMAIN dir[p] : p \in P \cap DOMAIN dir}
<1>1. IsFiniteSet(P \cap DOMAIN dir)
    BY FS_Intersection DEF Directory
<1>2. f \in Surjection(P \cap DOMAIN dir, T)
    BY DEF Surjection
<1>3. IsFiniteSet(T)
    BY <1>1, <1>2, FS_Surjection
<1>4. \A t \in T : IsFiniteSet(t)
    BY FileSize
<1>5. IsFiniteSet(UNION T)
    BY <1>3, <1>4, FS_UNION
<1> QED
    BY <1>5, FS_CardinalityType DEF UnitsOf, SizeOf

\* No files, no space.
LEMMA SizeOfNone ==
    ASSUME NEW dir
    PROVE  SizeOf(dir, {}) = 0
<1>1. UnitsOf(dir, {}) = {}
    BY DEF UnitsOf
<1> QED
    BY <1>1, FS_EmptySet DEF SizeOf

\* A further file adds its lines.
LEMMA SizeAdds ==
    ASSUME NEW dir, Directory(dir), NEW P, NEW p, p \notin P
    PROVE  SizeOf(dir, P \cup {p}) =
               SizeOf(dir, P) + (IF p \in DOMAIN dir THEN Len(dir[p]) ELSE 0)
<1>1. CASE p \in DOMAIN dir
  <2>1. UnitsOf(dir, P \cup {p}) = UnitsOf(dir, P) \cup ({p} \X DOMAIN dir[p])
      BY <1>1, UnitFacts DEF UnitsOf
  <2>2. UnitsOf(dir, P) \cap ({p} \X DOMAIN dir[p]) = {}
      BY UnitFacts
  <2>3. Cardinality({}) = 0
      BY FS_EmptySet
  <2> DEFINE old == UnitsOf(dir, P)
             new == {p} \X DOMAIN dir[p]
  <2>4. /\ IsFiniteSet(old) /\ Cardinality(old) \in Nat
        /\ IsFiniteSet(new) /\ Cardinality(new) = Len(dir[p]) /\ Len(dir[p]) \in Nat
      BY <1>1, UnitsFinite, FileSize DEF SizeOf
  <2>5. UnitsOf(dir, P \cup {p}) = old \cup new /\ old \cap new = {}
      BY <2>1, <2>2
  <2> HIDE DEF old, new
  <2>6. Cardinality(old \cup new) = Cardinality(old) + Cardinality(new) - Cardinality(old \cap new)
      BY <2>4, FS_Union
  <2>7. Cardinality(old \cap new) = 0
      BY <2>3, <2>5, Zenon
  <2>8. Cardinality(old \cup new) = Cardinality(old) + Len(dir[p])
      BY <2>4, <2>6, <2>7
  <2> QED
      BY <1>1, <2>5, <2>8 DEF SizeOf, old
<1>2. CASE p \notin DOMAIN dir
  <2>1. UnitsOf(dir, P \cup {p}) = UnitsOf(dir, P)
      BY <1>2 DEF UnitsOf
  <2> QED
      BY <1>2, <2>1, UnitsFinite DEF SizeOf
<1> QED
    BY <1>1, <1>2

\* Fewer files take no more space.
LEMMA SizeShrinks ==
    ASSUME NEW dir, Directory(dir), NEW sub, DOMAIN sub \subseteq DOMAIN dir,
           NEW P, NEW Q, P \subseteq Q,
           \A p \in P \cap DOMAIN sub : sub[p] = dir[p]
    PROVE  SizeOf(sub, P) <= SizeOf(dir, Q)
<1>1. UnitsOf(sub, P) \subseteq UnitsOf(dir, Q)
    BY UnitFacts
<1> QED
    BY <1>1, UnitsFinite, FS_Subset DEF SizeOf

\* Only the files of P count.
LEMMA SizeIgnoresOthers ==
    ASSUME NEW dir, NEW dir2, NEW P,
           \A p \in P : /\ p \in DOMAIN dir <=> p \in DOMAIN dir2
                        /\ p \in DOMAIN dir => dir[p] = dir2[p]
    PROVE  SizeOf(dir, P) = SizeOf(dir2, P)
<1>1. UnitsOf(dir, P) = UnitsOf(dir2, P)
  <2>1. \A u : u \in UnitsOf(dir, P) <=> u \in UnitsOf(dir2, P)
      BY UnitFacts
  <2> QED
      BY <2>1
<1> QED
    BY <1>1 DEF SizeOf

-----------------------------------------------------------------------------
\* The directory stays finite: a step adds one file at most.

FilesFinite == IsFiniteSet(DOMAIN files)

\* A step makes at most one file.
LEMMA OneFileMore ==
    ASSUME StoreNext
    PROVE  \E p : DOMAIN files' \subseteq DOMAIN files \cup {p}
<1>1. ASSUME NEW lines, StoreOpen(lines)
      PROVE  \E p : DOMAIN files' \subseteq DOMAIN files \cup {p}
    BY <1>1 DEF StoreOpen, With
<1>2. CASE StoreStart
    BY <1>2 DEF StoreStart, Initialize, LoadEntry, LoadDone
<1>3. CASE Crash
    BY <1>3 DEF Crash, With
<1>4. CASE StoreInside
    BY <1>4, UnlinkFacts DEF StoreInside, StoreWrite, StoreWriteFails, Enforce, DropOldest,
                  StoreReject, StoreAccept, With
<1>5. CASE Destroy \/ Vanish \/ StoreDisabled \/ NextBatch
    BY <1>5 DEF Destroy, Vanish, Restrict, StoreDisabled, NextBatch
<1>6. CASE NextUnreadable \/ MarkProcessed
    BY <1>6, UnlinkFacts DEF NextUnreadable, DropOldest, MarkProcessed
<1> QED
    BY <1>1, <1>2, <1>3, <1>4, <1>5, <1>6 DEF StoreNext

LEMMA FiniteStep == FilesFinite /\ [StoreNext]_storeVars => FilesFinite'
<1> SUFFICES ASSUME FilesFinite, [StoreNext]_storeVars
             PROVE  FilesFinite'
    OBVIOUS
<1>1. CASE StoreNext
  <2>1. PICK p : DOMAIN files' \subseteq DOMAIN files \cup {p}
      BY <1>1, OneFileMore
  <2>2. IsFiniteSet(DOMAIN files \cup {p})
      BY FS_AddElement DEF FilesFinite
  <2> QED
      BY <2>1, <2>2, FS_Subset DEF FilesFinite
<1>2. CASE UNCHANGED storeVars
    BY <1>2 DEF storeVars, FilesFinite
<1> QED
    BY <1>1, <1>2

\* What the proofs know of the directory and the queue in every state.
BooksInv == StoreInv /\ FilesFinite

LEMMA BooksInit == StoreInit => BooksInv
<1> SUFFICES ASSUME StoreInit PROVE FilesFinite
    BY InvInit DEF BooksInv
<1>1. DOMAIN files = {}
    BY DEF StoreInit
<1> QED
    BY <1>1, FS_EmptySet DEF FilesFinite

LEMMA BooksStep == BooksInv /\ [StoreNext]_storeVars => BooksInv'
    BY InvStep, FiniteStep DEF BooksInv

LEMMA BooksFacts ==
    ASSUME BooksInv
    PROVE  Directory(files) /\ queue \in Seq(Path) /\ IsInjective(queue) /\ bytes \in Int
    BY DEF BooksInv, StoreInv, StoreTypeOK, QueuedOnce, FilesFinite, Directory

LEMMA NextDirectory == BooksInv /\ [StoreNext]_storeVars => Directory(files')
<1> SUFFICES ASSUME BooksInv' PROVE Directory(files')
    BY BooksStep
<1> QED
    BY DEF BooksInv, StoreInv, StoreTypeOK, FilesFinite, Directory

\* What is left of the queue without its first element.
LEMMA TailRange ==
    ASSUME NEW S, NEW s \in Seq(S), s # <<>>, IsInjective(s)
    PROVE  /\ Range(s) = Range(Tail(s)) \cup {Head(s)}
           /\ Head(s) \notin Range(Tail(s))
<1>1. /\ Len(s) \in Nat \ {0}
      /\ DOMAIN s = 1 .. Len(s)
      /\ DOMAIN Tail(s) = 1 .. Len(s) - 1
      /\ \A i \in 1 .. Len(s) - 1 : Tail(s)[i] = s[i + 1]
      /\ Head(s) = s[1]
    BY HeadTailProperties, LenProperties, EmptySeq
<1>2. \A i \in 2 .. Len(s) : i - 1 \in 1 .. Len(s) - 1 /\ Tail(s)[i - 1] = s[i]
    BY <1>1
<1>3. ASSUME NEW i \in DOMAIN s
      PROVE  s[i] \in Range(Tail(s)) \cup {Head(s)}
  <2>1. CASE i = 1
      BY <1>1, <2>1
  <2>2. CASE i # 1
    <3>1. i - 1 \in DOMAIN Tail(s) /\ Tail(s)[i - 1] = s[i]
        BY <1>1, <1>2, <2>2
    <3> QED
        BY <3>1 DEF Range
  <2> QED
      BY <2>1, <2>2
<1>4. Range(s) \subseteq Range(Tail(s)) \cup {Head(s)}
    BY <1>3 DEF Range
<1> QED
    BY <1>4, TailOnce

\* When the front leaves the queue, with or without its file, the backlog shrinks by
\* what current_bytes_ is reduced by.
LEMMA DropSizes ==
    ASSUME BooksInv, queue # <<>>, Unlink(Head(queue)), queue' = Tail(queue),
           NEW rest, rest \subseteq Range(Tail(queue))
    PROVE  /\ SizeOf(files', rest) = SizeOf(files, rest)
           /\ SizeOf(files, rest) \in Nat
           /\ SizeOf(files, rest \cup {Head(queue)}) =
                  SizeOf(files, rest)
                    + (IF Exists(Head(queue)) THEN Len(files[Head(queue)]) ELSE 0)
           /\ Exists(Head(queue)) => Len(files[Head(queue)]) \in Nat
<1>1. Directory(files) /\ Head(queue) \notin rest
    BY BooksFacts, TailRange
<1>2. \A p \in rest : /\ p \in DOMAIN files <=> p \in DOMAIN files'
                      /\ p \in DOMAIN files' => files[p] = files'[p]
    BY <1>1, UnlinkFacts
<1>3. SizeOf(files', rest) = SizeOf(files, rest)
    BY <1>2, SizeIgnoresOthers
<1> QED
    BY <1>1, <1>3, SizeAdds, UnitsFinite, FileSize DEF Exists

-----------------------------------------------------------------------------
\* current_bytes_ covers the backlog.

\* While store() enforces the budget the new batch is counted in full, whatever has
\* become of its file: taking it back leaves enough for the rest of the queue.
BytesCover ==
    /\ bytes >= SizeOf(files, Range(queue))
    /\ step = "enforce" =>
           bytes >= SizeOf(files, Range(queue) \ {cur.path}) + Len(cur.lines)

LEMMA EmptyBacklogCovered ==
    ASSUME queue' = <<>>, bytes' >= 0, step' # "enforce"
    PROVE  BytesCover'
<1>1. Range(<<>>) = {}
    BY DEF Range
<1> QED
    BY <1>1, SizeOfNone DEF BytesCover

\* drop_oldest() and mark_processed() subtract no more than what the file takes.
LEMMA DropKeepsCover ==
    ASSUME BooksInv, BytesCover, queue # <<>>, step = "enforce" => Len(queue) > 1,
           Discount(Head(queue)), Unlink(Head(queue)), queue' = Tail(queue),
           UNCHANGED <<step, cur>>
    PROVE  BytesCover'
<1> DEFINE p == Head(queue)
           rest == Range(Tail(queue))
           size == IF Exists(p) THEN Len(files[p]) ELSE 0
<1>1. queue \in Seq(Path) /\ Range(queue) = rest \cup {p} /\ p \notin rest /\ bytes \in Int
    BY BooksFacts, TailRange
<1>2. /\ SizeOf(files', rest) = SizeOf(files, rest)
      /\ SizeOf(files, Range(queue)) = SizeOf(files, rest) + size
      /\ SizeOf(files, rest) \in Nat /\ size \in Nat
    BY <1>1, DropSizes
<1>3. bytes' \in {bytes - size, bytes}
  <2>1. bytes >= size
      BY <1>1, <1>2 DEF BytesCover
  <2>2. CASE UNCHANGED bytes
      BY <2>2
  <2>3. CASE bytes' = IF Exists(p) /\ bytes >= Len(files[p]) THEN bytes - Len(files[p]) ELSE bytes
    <3>1. CASE Exists(p)
      <4>1. size = Len(files[p])
          BY <3>1
      <4> QED
          BY <2>1, <2>3, <3>1, <4>1
    <3>2. CASE ~Exists(p)
        BY <2>3, <3>2
    <3> QED
        BY <3>1, <3>2
  <2> QED
      BY <2>2, <2>3 DEF Discount
<1>4. ASSUME step = "enforce"
      PROVE  bytes' >= SizeOf(files', rest \ {cur.path}) + Len(cur.lines)
  <2>1. p # cur.path
    <3>1. /\ Last(queue) = cur.path /\ Len(queue) > 1 /\ Len(queue) \in Nat
          /\ DOMAIN queue = 1 .. Len(queue) /\ p = queue[1]
        BY <1>1, <1>4, LenProperties, TailOnce DEF BooksInv, StoreInv, NewestSurvivesEviction
    <3> QED
        BY <3>1, BooksFacts DEF Last, IsInjective
  <2>2. Range(queue) \ {cur.path} = (rest \ {cur.path}) \cup {p}
      BY <1>1, <2>1
  <2>3. /\ SizeOf(files', rest \ {cur.path}) = SizeOf(files, rest \ {cur.path})
        /\ SizeOf(files, Range(queue) \ {cur.path}) = SizeOf(files, rest \ {cur.path}) + size
        /\ SizeOf(files, rest \ {cur.path}) \in Nat
      BY <2>2, DropSizes
  <2>4. cur.lines \in Seq(Line) /\ Len(cur.lines) \in Nat
      BY <1>4, LenProperties, BatchFacts DEF BooksInv, StoreInv, StoreTypeOK
  <2>5. bytes >= SizeOf(files, Range(queue) \ {cur.path}) + Len(cur.lines)
      BY <1>4 DEF BytesCover
  <2> HIDE DEF p, rest, size
  <2> QED
      BY <1>1, <1>2, <1>3, <2>3, <2>4, <2>5
<1> QED
    BY <1>1, <1>2, <1>3, <1>4 DEF BytesCover

\* While a file is written it is not queued, so the backlog does not see it.
LEMMA UnqueuedFileIgnored ==
    ASSUME NEW p, p \notin Range(queue),
           \A f \in DOMAIN files \cup DOMAIN files' : f # p =>
               /\ f \in DOMAIN files <=> f \in DOMAIN files'
               /\ files'[f] = files[f]
    PROVE  SizeOf(files', Range(queue)) = SizeOf(files, Range(queue))
    BY SizeIgnoresOthers

\* current_bytes_ covers the backlog after every step.
LEMMA CoverStep == BooksInv /\ BytesCover /\ [StoreNext]_storeVars => BytesCover'
<1> SUFFICES ASSUME BooksInv, BytesCover, [StoreNext]_storeVars
             PROVE  BytesCover'
    OBVIOUS
<1>0. /\ Directory(files) /\ queue \in Seq(Path) /\ bytes \in Int
      /\ StoreTypeOK /\ QueuedOnce /\ WritingFresh
    BY BooksFacts DEF BooksInv, StoreInv
<1>1. CASE Initialize \/ LoadDone
    BY <1>0, <1>1 DEF Initialize, LoadDone, BytesCover, StoreTypeOK
<1>2. CASE LoadEntry
  <2>1. step' = "idle" /\ files' = files
      BY <1>0, <1>2 DEF LoadEntry, StoreTypeOK
  <2>2. PICK p \in unread : \/ Exists(p) /\ queue' = Append(queue, p) /\ bytes' = bytes + Len(files[p])
                            \/ UNCHANGED <<queue, bytes>>
      BY <1>2 DEF LoadEntry
  <2>3. CASE Exists(p) /\ queue' = Append(queue, p) /\ bytes' = bytes + Len(files[p])
    <3>1. p \in Path /\ p \notin Range(queue) /\ p \in DOMAIN files
        BY <1>0, <2>3 DEF StoreTypeOK, QueuedOnce, Exists
    <3>2. Range(queue') = Range(queue) \cup {p}
        BY <1>0, <2>3, <3>1, AppendOnce
    <3>3. /\ SizeOf(files, Range(queue')) = SizeOf(files, Range(queue)) + Len(files[p])
          /\ Len(files[p]) \in Nat /\ SizeOf(files, Range(queue)) \in Nat
        BY <1>0, <3>1, <3>2, SizeAdds, FileSize, UnitsFinite
    <3> QED
        BY <1>0, <2>1, <2>3, <3>3 DEF BytesCover
  <2>4. CASE UNCHANGED <<queue, bytes>>
      BY <2>1, <2>4 DEF BytesCover
  <2> QED
      BY <2>2, <2>3, <2>4
<1>3. CASE Destroy \/ Crash
    BY <1>3, EmptyBacklogCovered DEF Destroy, Crash, Forget
<1>4. CASE Vanish
  <2>1. PICK p \in DOMAIN files : files' = Restrict(files, DOMAIN files \ {p})
      BY <1>4 DEF Vanish
  <2>2. DOMAIN files' \subseteq DOMAIN files /\ \A f \in DOMAIN files' : files'[f] = files[f]
      BY <2>1 DEF Restrict
  <2>3. \A P : SizeOf(files', P) <= SizeOf(files, P) /\ SizeOf(files, P) \in Nat
      BY <1>0, <2>2, SizeShrinks, UnitsFinite
  <2>4. Directory(files')
      BY NextDirectory
  <2>5. \A P : SizeOf(files', P) \in Nat
      BY <2>4, UnitsFinite
  <2>6. UNCHANGED <<queue, bytes, step, cur>>
      BY <1>4 DEF Vanish
  <2>7. step = "enforce" => Len(cur.lines) \in Nat
      BY <1>0, BatchFacts, LenProperties DEF StoreTypeOK
  <2>8. bytes >= SizeOf(files', Range(queue))
      BY <1>0, <2>3, <2>5 DEF BytesCover
  <2>9. step = "enforce" => bytes >= SizeOf(files', Range(queue) \ {cur.path}) + Len(cur.lines)
      BY <1>0, <2>3, <2>5, <2>7 DEF BytesCover
  <2> QED
      BY <2>6, <2>8, <2>9 DEF BytesCover
<1>5. ASSUME NEW lines \in Seq(Line) \ {<<>>}, StoreOpen(lines)
      PROVE  BytesCover'
  <2>1. NextPath(clock') \notin Range(queue)
    <3>1. mode = "on" /\ clock' \in Nat /\ clock' >= clock
        BY <1>0, <1>5, StoreAssumption DEF StoreOpen, StoreTypeOK
    <3> QED
        BY <3>1, NextPathFresh DEF BooksInv, Known
  <2>2. /\ UNCHANGED <<queue, bytes>> /\ step' # "enforce"
        /\ files' = files \/ files' = With(NextPath(clock'), <<>>)
      BY <1>5 DEF StoreOpen
  <2>3. SizeOf(files', Range(queue)) = SizeOf(files, Range(queue))
      BY <2>1, <2>2, UnqueuedFileIgnored DEF With
  <2> QED
      BY <2>2, <2>3 DEF BytesCover
<1>6. CASE StoreWrite
  <2>1. /\ cur.path \in Path /\ cur.path \notin Range(queue) /\ cur.path \in DOMAIN files
        /\ cur.lines \in Seq(Line) /\ Len(cur.lines) \in Nat
      BY <1>0, <1>6, BatchFacts, LenProperties DEF StoreWrite, StoreTypeOK, WritingFresh, Exists
  <2>2. /\ files' = With(cur.path, cur.lines) /\ queue' = Append(queue, cur.path)
        /\ bytes' = bytes + Len(cur.lines) /\ UNCHANGED cur
      BY <1>6 DEF StoreWrite
  <2>3. SizeOf(files', Range(queue)) = SizeOf(files, Range(queue))
      BY <2>1, <2>2, UnqueuedFileIgnored DEF With
  <2>4. Range(queue') = Range(queue) \cup {cur.path} /\ Range(queue') \ {cur.path} = Range(queue)
    <3>1. Range(Append(queue, cur.path)) = Range(queue) \cup {cur.path}
        BY <1>0, <2>1, AppendOnce
    <3> QED
        BY <2>1, <2>2, <3>1
  <2>5. /\ Directory(files') /\ cur.path \in DOMAIN files' /\ files'[cur.path] = cur.lines
      BY <2>2, NextDirectory DEF With
  <2>6. SizeOf(files', Range(queue')) = SizeOf(files', Range(queue)) + Len(cur.lines)
      BY <2>1, <2>4, <2>5, SizeAdds
  <2>7. SizeOf(files, Range(queue)) \in Nat
      BY <1>0, UnitsFinite
  <2>8. bytes' >= SizeOf(files', Range(queue'))
      BY <1>0, <2>1, <2>2, <2>3, <2>6, <2>7 DEF BytesCover
  <2>9. SizeOf(files', Range(queue') \ {cur'.path}) = SizeOf(files, Range(queue)) /\ cur' = cur
      BY <2>2, <2>3, <2>4
  <2>10. bytes' >= SizeOf(files', Range(queue') \ {cur'.path}) + Len(cur'.lines)
      BY <1>0, <2>1, <2>2, <2>7, <2>9 DEF BytesCover
  <2> QED
      BY <2>8, <2>10 DEF BytesCover
<1>7. CASE StoreWriteFails
  <2>1. cur.path \notin Range(queue) /\ UNCHANGED <<queue, bytes>> /\ step' = "idle"
      BY <1>0, <1>7 DEF StoreWriteFails, WritingFresh
  <2>2. CASE Unlink(cur.path) \/ UNCHANGED files
    <3>1. SizeOf(files', Range(queue)) = SizeOf(files, Range(queue))
        BY <2>1, <2>2, UnlinkFacts, UnqueuedFileIgnored
    <3> QED
        BY <2>1, <3>1 DEF BytesCover
  <2>3. CASE \E part : files' = With(cur.path, part)
    <3>1. SizeOf(files', Range(queue)) = SizeOf(files, Range(queue))
        BY <2>1, <2>3, UnqueuedFileIgnored DEF With
    <3> QED
        BY <2>1, <3>1 DEF BytesCover
  <2> QED
      BY <1>7, <2>2, <2>3 DEF StoreWriteFails
<1>8. CASE Enforce
  <2>1. queue # <<>>
      BY <1>8 DEF Enforce
  <2> QED
      BY <1>8, <2>1, DropKeepsCover DEF Enforce, DropOldest
<1>9. CASE StoreReject
  <2>1. /\ step = "enforce" /\ step' = "idle" /\ Len(queue) <= 1
        /\ queue' = Front(queue) /\ bytes' = bytes - Len(cur.lines)
      BY <1>9 DEF StoreReject
  <2>2. queue' = <<>>
      BY <1>0, <2>1, LenProperties DEF Front
  <2>3. /\ bytes >= SizeOf(files, Range(queue) \ {cur.path}) + Len(cur.lines)
        /\ SizeOf(files, Range(queue) \ {cur.path}) \in Nat
        /\ Len(cur.lines) \in Nat
      BY <1>0, <2>1, UnitsFinite, BatchFacts, LenProperties DEF BytesCover, StoreTypeOK
  <2>4. bytes' >= 0
      BY <1>0, <2>1, <2>3
  <2> QED
      BY <2>1, <2>2, <2>4, EmptyBacklogCovered
<1>10. CASE StoreAccept \/ StoreDisabled \/ NextBatch
    BY <1>10 DEF StoreAccept, StoreDisabled, NextBatch, BytesCover
<1>11. CASE NextUnreadable
    BY <1>11, DropKeepsCover DEF NextUnreadable, DropOldest
<1>12. CASE MarkProcessed
  <2>1. CASE UNCHANGED <<files, queue, bytes>>
      BY <1>12, <2>1 DEF MarkProcessed, BytesCover
  <2>2. CASE queue # <<>> /\ Head(queue) = pending.path
      BY <1>12, <2>2, DropKeepsCover DEF MarkProcessed
  <2> QED
      BY <1>12, <2>1, <2>2 DEF MarkProcessed
<1>13. CASE UNCHANGED storeVars
    BY <1>13 DEF storeVars, BytesCover
<1> QED
    BY <1>1, <1>2, <1>3, <1>4, <1>5, <1>6, <1>7, <1>8, <1>9, <1>10, <1>11, <1>12, <1>13
    DEF StoreNext, StoreStart, StoreInside

\* The subtractions from current_bytes_ never go below what the queued files take:
\* whatever fails or vanishes, the counter covers the backlog.
THEOREM BytesAreEnough == StoreSpec => []BytesCoverBacklog
<1>1. StoreInit => BytesCover
  <2> SUFFICES ASSUME StoreInit PROVE BytesCover
      OBVIOUS
  <2>1. Range(queue) = {}
      BY DEF StoreInit, Range
  <2>2. SizeOf(files, Range(queue)) = 0
      BY <2>1, SizeOfNone
  <2> QED
      BY <2>2 DEF StoreInit, BytesCover
<1>2. BytesCover => BytesCoverBacklog
    BY DEF BytesCover, BytesCoverBacklog, BacklogSize
<1> QED
    BY BooksInit, BooksStep, CoverStep, <1>1, <1>2, PTL DEF StoreSpec

-----------------------------------------------------------------------------
\* Exact accounting, where nothing but crashes happens.

\* The queue lists every file but those load_existing has yet to visit and the one
\* being written, and current_bytes_ is the size of what is listed.
ExactBooks ==
    /\ bytes = SizeOf(files, Range(queue))
    /\ mode = "loading" => Range(queue) \cup unread = DOMAIN files
    /\ mode = "on" => Range(queue) = {p \in DOMAIN files : step = "write" => p # cur.path}
    /\ step = "write" => Exists(cur.path)

\* A success is remembered only while the budget is kept.
Budgeted == ret /\ step = "idle" => mode = "on" /\ bytes <= MaxBytes

LEMMA EmptyBacklogExact ==
    ASSUME queue' = <<>>, bytes' = 0, mode' = "off", step' = "idle"
    PROVE  ExactBooks'
<1>1. Range(queue') = {}
    BY DEF Range
<1>2. SizeOf(files', Range(queue')) = 0
    BY <1>1, SizeOfNone
<1> QED
    BY <1>2 DEF ExactBooks

\* While files can be removed, the size of the front leaves the counter and the
\* directory together.
LEMMA DropKeepsExact ==
    ASSUME Faults \subseteq {"crash"}, BooksInv, ExactBooks,
           mode = "on", step # "write", queue # <<>>,
           Discount(Head(queue)), Unlink(Head(queue)), queue' = Tail(queue),
           UNCHANGED <<mode, step>>
    PROVE  ExactBooks' /\ bytes' <= bytes
<1> DEFINE p == Head(queue)
           rest == Range(Tail(queue))
<1>1. queue \in Seq(Path) /\ Range(queue) = rest \cup {p} /\ p \notin rest /\ bytes \in Int
    BY BooksFacts, TailRange
<1>2. Range(queue) = DOMAIN files
    BY DEF ExactBooks
<1>3. Exists(p)
    BY <1>1, <1>2 DEF Exists
<1>4. /\ SizeOf(files', rest) = SizeOf(files, rest)
      /\ SizeOf(files, Range(queue)) = SizeOf(files, rest) + Len(files[p])
      /\ SizeOf(files, rest) \in Nat /\ Len(files[p]) \in Nat
    BY <1>1, <1>3, DropSizes
<1>5. bytes' = SizeOf(files', rest) /\ bytes' <= bytes
  <2>1. bytes = SizeOf(files, rest) + Len(files[p])
      BY <1>1, <1>2, <1>4 DEF ExactBooks
  <2>2. bytes' = bytes - Len(files[p])
    <3> HIDE DEF p, rest
    <3>1. bytes >= Len(files[p])
        BY <1>4, <2>1
    <3> QED
        BY <1>3, <3>1 DEF Discount, p
  <2> HIDE DEF p, rest
  <2> QED
      BY <1>4, <2>1, <2>2
<1>6. DOMAIN files' = rest
    BY <1>1, <1>2 DEF Unlink, Restrict
<1> QED
    BY <1>5, <1>6 DEF ExactBooks

\* While nothing but crashes happens, the counter follows the directory.
LEMMA ExactStep ==
    ASSUME Faults \subseteq {"crash"}
    PROVE  BooksInv /\ ExactBooks /\ [StoreNext]_storeVars => ExactBooks'
<1> SUFFICES ASSUME BooksInv, ExactBooks, [StoreNext]_storeVars
             PROVE  ExactBooks'
    OBVIOUS
<1> USE DEF ExactBooks
<1>0. /\ Directory(files) /\ queue \in Seq(Path) /\ bytes \in Int
      /\ StoreTypeOK /\ QueuedOnce /\ WritingFresh /\ NewestSurvivesEviction
      /\ "io" \notin Faults /\ "rmfail" \notin Faults /\ "vanish" \notin Faults
    BY BooksFacts DEF BooksInv, StoreInv
<1>1. CASE Initialize
  <2>1. /\ mode' = "loading" /\ unread' = DOMAIN files /\ queue = <<>> /\ step = "idle"
        /\ UNCHANGED <<files, queue, bytes, step>>
      BY <1>0, <1>1 DEF Initialize, StoreTypeOK
  <2>2. Range(queue) = {}
      BY <2>1 DEF Range
  <2> QED
      BY <2>1, <2>2
<1>2. CASE LoadEntry
  <2>1. /\ mode = "loading" /\ step = "idle"
        /\ UNCHANGED <<files, mode, step>>
      BY <1>0, <1>2 DEF LoadEntry, StoreTypeOK
  <2>2. PICK p \in unread : /\ unread' = unread \ {p}
                            /\ \/ Exists(p) /\ queue' = Append(queue, p)
                                            /\ bytes' = bytes + Len(files[p])
                               \/ ~Exists(p)
      BY <1>0, <1>2 DEF LoadEntry
  <2>3. p \in Path /\ p \notin Range(queue) /\ p \in DOMAIN files
      BY <1>0, <2>1 DEF StoreTypeOK, QueuedOnce
  <2>4. queue' = Append(queue, p) /\ bytes' = bytes + Len(files[p])
      BY <2>2, <2>3 DEF Exists
  <2>5. Range(queue') = Range(queue) \cup {p}
      BY <1>0, <2>3, <2>4, AppendOnce
  <2>6. SizeOf(files, Range(queue')) = SizeOf(files, Range(queue)) + Len(files[p])
      BY <1>0, <2>3, <2>5, SizeAdds
  <2> QED
      BY <2>1, <2>2, <2>3, <2>4, <2>5, <2>6
<1>3. CASE LoadDone
    BY <1>0, <1>3 DEF LoadDone, StoreTypeOK
<1>4. CASE Destroy \/ Crash
    BY <1>4, EmptyBacklogExact DEF Destroy, Crash, Forget
<1>5. ASSUME NEW lines \in Seq(Line) \ {<<>>}, StoreOpen(lines)
      PROVE  ExactBooks'
  <2> DEFINE new == NextPath(clock')
  <2>1. new \notin Range(queue) /\ new \notin DOMAIN files /\ mode = "on" /\ step = "idle"
    <3>1. mode = "on" /\ step = "idle" /\ clock' \in Nat /\ clock' >= clock
        BY <1>0, <1>5, StoreAssumption DEF StoreOpen, StoreTypeOK
    <3> QED
        BY <3>1, NextPathFresh DEF BooksInv, Known
  <2>2. /\ UNCHANGED <<mode, queue, bytes>> /\ step' = "write" /\ cur'.path = new
        /\ files' = With(new, <<>>)
      BY <1>0, <1>5 DEF StoreOpen
  <2>3. SizeOf(files', Range(queue)) = SizeOf(files, Range(queue))
      BY <2>1, <2>2, UnqueuedFileIgnored DEF With
  <2>4. DOMAIN files' = DOMAIN files \cup {new}
      BY <2>2 DEF With
  <2>5. Exists(cur.path)'
      BY <2>2, <2>4 DEF Exists
  <2>6. Range(queue') = {p \in DOMAIN files' : step' = "write" => p # cur'.path}
      BY <2>1, <2>2, <2>4
  <2> QED
      BY <2>1, <2>2, <2>3, <2>5, <2>6
<1>6. CASE StoreWrite
  <2>1. /\ cur.path \in Path /\ cur.path \notin Range(queue) /\ cur.path \in DOMAIN files
        /\ cur.lines \in Seq(Line) /\ mode = "on" /\ step = "write"
      BY <1>0, <1>6, BatchFacts DEF StoreWrite, StoreTypeOK, WritingFresh, Exists
  <2>2. /\ files' = With(cur.path, cur.lines) /\ queue' = Append(queue, cur.path)
        /\ bytes' = bytes + Len(cur.lines) /\ UNCHANGED <<cur, mode>> /\ step' = "enforce"
      BY <1>6 DEF StoreWrite
  <2>3. SizeOf(files', Range(queue)) = SizeOf(files, Range(queue))
      BY <2>1, <2>2, UnqueuedFileIgnored DEF With
  <2>4. Range(queue') = Range(queue) \cup {cur.path}
      BY <1>0, <2>1, <2>2, AppendOnce
  <2>5. /\ Directory(files') /\ cur.path \in DOMAIN files' /\ files'[cur.path] = cur.lines
        /\ DOMAIN files' = DOMAIN files
      BY <2>1, <2>2, NextDirectory DEF With
  <2>6. SizeOf(files', Range(queue')) = SizeOf(files', Range(queue)) + Len(cur.lines)
      BY <2>1, <2>4, <2>5, SizeAdds
  <2>7. bytes' = SizeOf(files', Range(queue'))
      BY <2>2, <2>3, <2>6
  <2> QED
      BY <2>1, <2>2, <2>4, <2>5, <2>7
<1>7. CASE StoreWriteFails
  <2>1. Exists(cur.path) /\ "io" \notin Faults
      BY <1>0, <1>7 DEF StoreWriteFails
  <2> QED
      BY <1>7, <2>1 DEF StoreWriteFails
<1>8. CASE Enforce
  <2>1. queue # <<>> /\ mode = "on"
      BY <1>0, <1>8 DEF Enforce, StoreTypeOK
  <2> QED
      BY <1>0, <1>8, <2>1, DropKeepsExact DEF Enforce, DropOldest
<1>9. CASE StoreReject
  <2>1. /\ step = "enforce" /\ step' = "idle" /\ Len(queue) <= 1 /\ mode = "on"
        /\ queue' = Front(queue) /\ bytes' = bytes - Len(cur.lines) /\ Unlink(cur.path)
        /\ mode' = mode
      BY <1>0, <1>9 DEF StoreReject, StoreTypeOK
  <2>2. queue # <<>> /\ Len(queue) = 1 /\ queue[1] = cur.path /\ DOMAIN queue = {1}
    <3>1. queue # <<>> /\ Last(queue) = cur.path
        BY <1>0, <2>1 DEF NewestSurvivesEviction
    <3>2. Len(queue) \in Nat /\ Len(queue) # 0 /\ DOMAIN queue = 1 .. Len(queue)
        BY <1>0, <3>1, LenProperties, EmptySeq
    <3>3. Len(queue) = 1
        BY <2>1, <3>2
    <3> QED
        BY <3>1, <3>2, <3>3 DEF Last
  <2>3. queue' = <<>> /\ Range(queue) = {cur.path} \cup {} /\ Range(queue') = {}
      BY <1>0, <2>1, <2>2 DEF Front, Range
  <2>4. DOMAIN files = {cur.path} /\ files[cur.path] = cur.lines
      BY <1>0, <2>1, <2>3 DEF NewestSurvivesEviction, Exists
  <2>5. SizeOf(files, {} \cup {cur.path}) = SizeOf(files, {}) + Len(files[cur.path])
      BY <1>0, <2>4, SizeAdds
  <2>6. SizeOf(files, {}) = 0 /\ SizeOf(files', {}) = 0
      BY SizeOfNone
  <2>7. Len(cur.lines) \in Nat
      BY <1>0, <2>4, FileSize
  <2>8. bytes = Len(cur.lines)
      BY <2>3, <2>4, <2>5, <2>6, <2>7
  <2>9. bytes' = 0
      BY <2>1, <2>7, <2>8
  <2>10. DOMAIN files' = {}
      BY <1>0, <2>1, <2>4 DEF Unlink, Restrict
  <2> QED
      BY <2>1, <2>3, <2>6, <2>9, <2>10
<1>10. CASE StoreAccept
    BY <1>10 DEF StoreAccept
<1>11. CASE StoreDisabled \/ NextBatch
    BY <1>11 DEF StoreDisabled, NextBatch, Exists
<1>12. CASE NextUnreadable
    BY <1>0, <1>12, DropKeepsExact DEF NextUnreadable, DropOldest
<1>13. CASE MarkProcessed
  <2>1. mode = "on"
      BY <1>0, <1>13 DEF MarkProcessed, StoreTypeOK
  <2>2. CASE UNCHANGED <<files, queue, bytes>>
      BY <1>13, <2>2 DEF MarkProcessed
  <2>3. CASE queue # <<>> /\ Head(queue) = pending.path
      BY <1>0, <1>13, <2>1, <2>3, DropKeepsExact DEF MarkProcessed
  <2> QED
      BY <1>13, <2>2, <2>3 DEF MarkProcessed
<1>14. CASE UNCHANGED storeVars
    BY <1>14 DEF storeVars, Exists
<1>15. CASE Vanish
    BY <1>0, <1>15 DEF Vanish
<1> QED
    BY <1>1, <1>2, <1>3, <1>4, <1>5, <1>6, <1>7, <1>8, <1>9, <1>10, <1>11, <1>12, <1>13,
       <1>14, <1>15
    DEF StoreNext, StoreStart, StoreInside

\* The loop of enforce_size_limit() ends within the budget, or at the new batch, which
\* store() takes back.
LEMMA BudgetStep ==
    ASSUME Faults \subseteq {"crash"}
    PROVE  BooksInv /\ ExactBooks /\ Budgeted /\ [StoreNext]_storeVars => Budgeted'
<1> SUFFICES ASSUME BooksInv, ExactBooks, Budgeted, [StoreNext]_storeVars
             PROVE  Budgeted'
    OBVIOUS
<1> USE DEF Budgeted
<1>0. StoreTypeOK /\ bytes \in Int /\ "rmfail" \notin Faults
    BY BooksFacts DEF BooksInv, StoreInv
<1>1. CASE StoreStart
    BY <1>0, <1>1 DEF StoreStart, Initialize, LoadEntry, LoadDone, StoreTypeOK
<1>2. CASE Destroy \/ Crash
    BY <1>2 DEF Destroy, Crash, Forget
<1>3. CASE Vanish \/ StoreDisabled \/ NextBatch \/ UNCHANGED storeVars
    BY <1>3 DEF Vanish, StoreDisabled, NextBatch, storeVars
<1>4. ASSUME NEW lines \in Seq(Line) \ {<<>>}, StoreOpen(lines)
      PROVE  Budgeted'
    BY <1>0, <1>4 DEF StoreOpen, StoreTypeOK
<1>5. CASE StoreWrite \/ StoreWriteFails \/ StoreReject \/ Enforce
    BY <1>5 DEF StoreWrite, StoreWriteFails, StoreReject, Enforce
<1>6. CASE StoreAccept
    BY <1>0, <1>6, StoreAssumption DEF StoreAccept, OverBudget, StoreTypeOK
<1>7. CASE NextUnreadable
  <2>1. bytes' <= bytes /\ bytes' \in Int
    <3>1. StoreTypeOK'
        BY <1>0, TypeStep
    <3> QED
        BY <1>0, <1>7, <3>1, DropKeepsExact DEF NextUnreadable, DropOldest, StoreTypeOK
  <2> QED
      BY <1>0, <1>7, <2>1, StoreAssumption DEF NextUnreadable
<1>8. CASE MarkProcessed
  <2>1. mode = "on" /\ step = "idle" /\ UNCHANGED <<mode, step, ret>>
      BY <1>0, <1>8 DEF MarkProcessed, StoreTypeOK
  <2>2. bytes' <= bytes /\ bytes' \in Int
    <3>1. StoreTypeOK'
        BY <1>0, TypeStep
    <3>2. CASE UNCHANGED <<files, queue, bytes>>
        BY <1>0, <3>2
    <3>3. CASE queue # <<>> /\ Head(queue) = pending.path
        BY <1>0, <1>8, <2>1, <3>1, <3>3, DropKeepsExact DEF MarkProcessed, StoreTypeOK
    <3> QED
        BY <1>8, <3>2, <3>3 DEF MarkProcessed
  <2> QED
      BY <1>0, <2>1, <2>2, StoreAssumption
<1> QED
    BY <1>1, <1>2, <1>3, <1>4, <1>5, <1>6, <1>7, <1>8 DEF StoreNext, StoreInside

LEMMA ExactInit == StoreInit => ExactBooks /\ Budgeted
<1> SUFFICES ASSUME StoreInit PROVE ExactBooks /\ Budgeted
    OBVIOUS
<1>1. Range(queue) = {}
    BY DEF StoreInit, Range
<1>2. SizeOf(files, Range(queue)) = 0
    BY <1>1, SizeOfNone
<1> QED
    BY <1>1, <1>2 DEF StoreInit, ExactBooks, Budgeted

LEMMA ExactIsAccounting == BooksInv /\ ExactBooks => ExactAccounting
<1> SUFFICES ASSUME BooksInv, ExactBooks, mode = "on", step # "write"
             PROVE  Range(queue) = DOMAIN files /\ IsInjective(queue) /\ bytes = DirectorySize
    BY DEF ExactAccounting
<1>1. Range(queue) = DOMAIN files
    BY DEF ExactBooks
<1> QED
    BY <1>1, BooksFacts DEF ExactBooks, DirectorySize

\* load_existing, store, next and mark_processed together: where nothing but crashes
\* happens, the queue lists every file of the directory once, those a crash left
\* behind included, and current_bytes_ is their size.
THEOREM BooksAreExact ==
    ASSUME Faults \subseteq {"crash"}
    PROVE  StoreSpec => []ExactAccounting
<1>1. BooksInv /\ ExactBooks /\ [StoreNext]_storeVars => ExactBooks'
    BY ExactStep
<1> QED
    BY BooksInit, BooksStep, ExactInit, ExactIsAccounting, <1>1, PTL DEF StoreSpec

\* enforce_size_limit() keeps its promise about the directory, and not only about
\* current_bytes_: after a store() that succeeded the files take no more than max_bytes_.
THEOREM BudgetIsKept ==
    ASSUME Faults \subseteq {"crash"}
    PROVE  StoreSpec => []DiskWithinBudget
<1>1. BooksInv /\ ExactBooks /\ [StoreNext]_storeVars => ExactBooks'
    BY ExactStep
<1>2. BooksInv /\ ExactBooks /\ Budgeted /\ [StoreNext]_storeVars => Budgeted'
    BY BudgetStep
<1>3. BooksInv /\ ExactBooks /\ Budgeted => DiskWithinBudget
    BY ExactIsAccounting DEF Budgeted, DiskWithinBudget, ExactAccounting
<1> QED
    BY BooksInit, BooksStep, ExactInit, <1>1, <1>2, <1>3, PTL DEF StoreSpec
=============================================================================
