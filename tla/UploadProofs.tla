----------------------------- MODULE UploadProofs -----------------------------
(***************************************************************************)
(* Theorems about Upload, for any status codes and any number of attempts. *)
(***************************************************************************)
EXTENDS Upload, TLAPS

Messages == {<<>>, <<"status">>, <<"HTTP error">>, <<"status", "reason">>, <<"body">>,
             <<"message">>, <<"curl">>, <<"gzip">>}

\* Why the log announces a loss once: the flag and the count go together, and a worker
\* that sleeps has set the flag.
LossFlagged ==
    /\ losses \in {0, 1}
    /\ lossLogged <=> losses = 1
    /\ pc = "sleep" => lossLogged

\* Why the failures counted are those of the batch in hand: the worker is at the top of its
\* loop only with nothing in hand, and its last POST was then of another batch.
NothingInHand == pc = "top" => failures = 0

UploadInv == UploadTypeOK /\ LossFlagged /\ NothingInHand /\ FateFollowsAnswer /\ FailureVisible

\* The texts that occur.
LEMMA OneWord == ASSUME NEW w \in Words PROVE <<w>> \in Seq(Words)
OBVIOUS
LEMMA TwoWords == ASSUME NEW v \in Words, NEW w \in Words PROVE <<v, w>> \in Seq(Words)
OBVIOUS
LEMMA NoWord == <<>> \in Seq(Words)
OBVIOUS

LEMMA Texts ==
    /\ <<"status">> \in Seq(Words) /\ <<"reason">> \in Seq(Words)
    /\ <<"unknown">> \in Seq(Words) /\ <<"full">> \in Seq(Words)
    /\ <<"network", "curl">> \in Seq(Words)
<1>1. {"status", "reason", "unknown", "full", "network", "curl"} \subseteq Words
  BY DEF Words
<1>. QED
  BY <1>1, OneWord, TwoWords

LEMMA MessagesAreTexts == Messages \subseteq Seq(Words)
<1>1. {"status", "reason", "HTTP error", "body", "message", "curl", "gzip"} \subseteq Words
  BY DEF Words
<1>2. /\ <<"status">> \in Seq(Words) /\ <<"HTTP error">> \in Seq(Words)
      /\ <<"body">> \in Seq(Words) /\ <<"message">> \in Seq(Words)
      /\ <<"curl">> \in Seq(Words) /\ <<"gzip">> \in Seq(Words)
  BY <1>1, OneWord
<1>3. <<"status", "reason">> \in Seq(Words)
  BY <1>1, TwoWords
<1>. QED
  BY <1>2, <1>3, NoWord DEF Messages

-----------------------------------------------------------------------------
\* Lemmas about post(), describe_error() and backoff_duration().

\* What is thrown keeps the answer's status and its class.
LEMMA ThrownFacts ==
    ASSUME NEW a \in Answers
    PROVE  /\ Thrown(a).status = a.status
           /\ Thrown(a).net <=> a.curl = "net"
           /\ Thrown(a).msg \in Messages
<1>1. a \in Answer /\ Possible(a)
  BY DEF Answers
<1>2. a.curl \in {"ok", "http", "net", "zip"} /\ a.sent \in Bodies /\ a.status \in Statuses
  BY <1>1 DEF Answer
<1>3. Captured(a) \in Bodies
  BY <1>2 DEF Captured, Bodies
<1>4. Payload(a) \in Messages
  BY <1>3 DEF Payload, Messages, Bodies
<1>5. CASE a.curl = "ok"
  BY <1>4, <1>5 DEF Thrown
<1>6. CASE a.curl = "http"
  BY <1>4, <1>6 DEF Thrown
<1>7. CASE a.curl = "net"
  BY <1>7 DEF Thrown, Messages
<1>8. CASE a.curl = "zip"
  BY <1>1, <1>8 DEF Thrown, Messages, Possible
<1>. QED
  BY <1>2, <1>5, <1>6, <1>7, <1>8

\* A description is never empty: an error without a message has a status, a CURLcode
\* or nothing at all to describe.
LEMMA Described ==
    ASSUME NEW e, e.msg \in Messages
    PROVE  Describe(e) \in Seq(Words) /\ Describe(e) # <<>>
<1> DEFINE reason == IF HasReason(e.status) THEN <<"reason">> ELSE <<>>
           rest == IF e.msg # <<>> /\ Head(e.msg) = "status" THEN Tail(e.msg) ELSE e.msg
           kept == IF rest = reason THEN <<>> ELSE rest
<1>1. Messages \subseteq Seq(Words)
  BY MessagesAreTexts
<1>2. rest \in Seq(Words)
  <2>1. CASE e.msg # <<>> /\ Head(e.msg) = "status"
    BY <1>1, <2>1
  <2>2. CASE ~(e.msg # <<>> /\ Head(e.msg) = "status")
    BY <1>1, <2>2
  <2>. QED
    BY <2>1, <2>2
<1>3. reason \in Seq(Words) /\ kept \in Seq(Words) /\ <<"status">> \in Seq(Words)
  BY <1>2, Texts
<1>4. CASE e.status > 0
  <2>1. Describe(e) = <<"status">> \o reason \o kept
    BY <1>4 DEF Describe
  <2> HIDE DEF reason, kept
  <2>2. <<"status">> \o reason \in Seq(Words) /\ Len(<<"status">> \o reason) > 0
    BY <1>3
  <2>. QED
    BY <1>3, <2>1, <2>2
<1>5. CASE ~(e.status > 0)
  <2>1. CASE e.failed
    <3>1. Describe(e) = <<"network", "curl">>
      BY <1>5, <2>1 DEF Describe
    <3>. QED
      BY <3>1, Texts
  <2>2. CASE ~e.failed
    <3>1. Describe(e) = IF e.msg # <<>> THEN e.msg ELSE <<"unknown">>
      BY <1>5, <2>2 DEF Describe
    <3>. QED
      BY <1>1, <3>1, Texts
  <2>. QED
    BY <2>1, <2>2
<1>. QED
  BY <1>4, <1>5

Waits == 0 .. 3200

LEMMA BackoffFacts ==
    ASSUME NEW n \in Nat
    PROVE  Backoff(n) \in Waits
<1> DEFINE attempt == IF n = 0 THEN 1 ELSE n
           capped == IF attempt - 1 < 6 THEN attempt - 1 ELSE 6
<1>1. capped \in {0, 1, 2, 3, 4, 5, 6}
  OBVIOUS
<1>2. Backoff(n) = IF 50 * 2^capped < 5000 THEN 50 * 2^capped ELSE 5000
  BY DEF Backoff
<1> HIDE DEF capped
<1>3. 2^capped \in 1 .. 64
  <2>1. CASE capped = 0
    BY <2>1
  <2>2. CASE capped = 1
    BY <2>2
  <2>3. CASE capped = 2
    BY <2>3
  <2>4. CASE capped = 3
    BY <2>4
  <2>5. CASE capped = 4
    BY <2>5
  <2>6. CASE capped = 5
    BY <2>6
  <2>7. CASE capped = 6
    BY <2>7
  <2>. QED
    BY <1>1, <2>1, <2>2, <2>3, <2>4, <2>5, <2>6, <2>7
<1>. QED
  BY <1>2, <1>3 DEF Waits

-----------------------------------------------------------------------------
\* The invariant.

\* A POST succeeds on a complete 2xx, and what fails and is not retryable was answered in
\* full and finally; every other answer is retryable.
LEMMA Endings ==
    ASSUME NEW a \in Answers
    PROVE  /\ Succeeds(a) <=> Complete(a) /\ a.status \in 200 .. 299
           /\ ~Succeeds(a) => (~Retryable(Thrown(a)) <=> Complete(a) /\ Final(a.status))
           /\ Complete(a) /\ Final(a.status) => ~Succeeds(a)
<1>1. a.curl \in {"ok", "http", "net", "zip"} /\ Possible(a) /\ a.status \in Nat
  BY UploadAssumption DEF Answers, Answer
<1>2. Thrown(a).status = a.status /\ (Thrown(a).net <=> a.curl = "net")
  BY ThrownFacts
<1>3. a.curl = "zip" => a.status = 0
  BY <1>1 DEF Possible
<1>4. a.curl = "http" => a.status >= 400
  BY <1>1 DEF Possible
<1>5. Succeeds(a) <=> Complete(a) /\ a.status \in 200 .. 299
  BY <1>1, <1>4 DEF Succeeds, Complete
<1>6. ASSUME ~Succeeds(a)
      PROVE  ~Retryable(Thrown(a)) <=> Complete(a) /\ Final(a.status)
  <2>1. Complete(a) => a.status \notin 200 .. 299
    BY <1>5, <1>6
  <2>2. ~Retryable(Thrown(a)) <=>
           a.curl # "net" /\ a.status # 0 /\ a.status < 500 /\ a.status \notin {408, 429}
    BY <1>1, <1>2 DEF Retryable
  <2>. QED
    BY <1>1, <1>3, <2>1, <2>2 DEF Complete, Final
<1>7. Complete(a) /\ Final(a.status) => ~Succeeds(a)
  BY <1>5 DEF Final
<1>. QED
  BY <1>5, <1>6, <1>7

\* A failed POST leaves a description.
LEMMA FailedPost ==
    ASSUME NEW a \in Answers, SendFails(a)
    PROVE  /\ lastError' \in Seq(Words) /\ lastError' # <<>>
           /\ errorSince' = TRUE /\ hasSuccess' = hasSuccess /\ answer' = {a}
  BY ThrownFacts, Described DEF SendFails

\* The fate of a batch is that of its answer, if it is sent on success, refused on a
\* failure that is not retryable, and else kept, or dropped from memory.
LEMMA FateFollows ==
    ASSUME NEW a \in Answers, answer' = {a},
           fate' = "sent" <=> Succeeds(a),
           fate' = "refused" <=> ~Succeeds(a) /\ ~Retryable(Thrown(a)),
           fate' = "dropped" => ~fromDisk',
           failures' > 0 => fate' = "kept" /\ fromDisk'
    PROVE  FateFollowsAnswer'
  BY Endings DEF FateFollowsAnswer

\* What log_success() and the announcement of a loss leave behind.
LEMMA Announced ==
    ASSUME UploadTypeOK, LossFlagged
    PROVE  /\ LogSuccess => /\ errorSince' = FALSE /\ hasSuccess' = TRUE
                           /\ lossLogged' = FALSE /\ losses' = 0
                           /\ said' \in {"active", "recovered", "debug"}
           /\ AnnounceLoss => /\ lossLogged' = TRUE /\ losses' = 1
                             /\ said' \in {"lost", "still"}
<1>1. lossLogged \in BOOLEAN /\ losses \in {0, 1} /\ (lossLogged <=> losses = 1)
  BY DEF UploadTypeOK, LossFlagged
<1>2. ASSUME AnnounceLoss
      PROVE  lossLogged' = TRUE /\ losses' = 1 /\ said' \in {"lost", "still"}
  <2>1. CASE lossLogged
    BY <1>1, <1>2, <2>1 DEF AnnounceLoss
  <2>2. CASE ~lossLogged
    BY <1>1, <1>2, <2>2 DEF AnnounceLoss
  <2>. QED
    BY <2>1, <2>2
<1>. QED
  BY <1>2 DEF LogSuccess

\* The two outcomes that settle a batch, and the one that does not.
LEMMA Outcomes ==
    ASSUME UploadInv, NEW a \in Answers
    PROVE  /\ SendOk(a) \/ SendRefused(a) =>
                 /\ pc' # "sleep" => LossFlagged'
                 /\ FailureVisible'
                 /\ fate' = "sent" <=> Succeeds(a)
                 /\ fate' = "refused" <=> ~Succeeds(a) /\ ~Retryable(Thrown(a))
                 /\ errorSince' \in BOOLEAN /\ hasSuccess' \in BOOLEAN /\ lossLogged' \in BOOLEAN
                 /\ lastError' \in Seq(Words) /\ losses' \in Nat /\ answer' = {a}
                 /\ said' \in {"active", "recovered", "debug", "discarding"}
                 /\ fate' \in {"sent", "refused"}
           /\ SendRetryable(a) =>
                 /\ FailureVisible'
                 /\ ~Succeeds(a) /\ Retryable(Thrown(a))
                 /\ errorSince' \in BOOLEAN /\ hasSuccess' \in BOOLEAN
                 /\ lastError' \in Seq(Words) /\ answer' = {a}
<1>1. UploadTypeOK /\ LossFlagged /\ hasSuccess \in BOOLEAN /\ lossLogged \in BOOLEAN
  BY DEF UploadInv, UploadTypeOK
<1>2. <<>> \in Seq(Words)
  OBVIOUS
<1>3. ASSUME SendOk(a)
      PROVE  /\ pc' # "sleep" => LossFlagged'
             /\ Succeeds(a) /\ FailureVisible'
             /\ errorSince' \in BOOLEAN /\ hasSuccess' \in BOOLEAN /\ lossLogged' \in BOOLEAN
             /\ lastError' \in Seq(Words) /\ losses' \in Nat /\ answer' = {a}
             /\ said' \in {"active", "recovered", "debug"} /\ fate' = "sent"
  <2>1. Succeeds(a) /\ LogSuccess /\ answer' = {a} /\ fate' = "sent" /\ lastError' = <<>>
    BY <1>3 DEF SendOk
  <2>2. /\ errorSince' = FALSE /\ hasSuccess' = TRUE /\ lossLogged' = FALSE /\ losses' = 0
        /\ said' \in {"active", "recovered", "debug"}
    BY <1>1, <2>1, Announced
  <2>3. pc' # "sleep" => LossFlagged'
    BY <2>2 DEF LossFlagged
  <2>4. FailureVisible'
    BY <2>2 DEF FailureVisible
  <2>. QED
    BY <1>2, <2>1, <2>2, <2>3, <2>4
<1>4. ASSUME SendRefused(a)
      PROVE  /\ pc' # "sleep" => LossFlagged'
             /\ ~Succeeds(a) /\ ~Retryable(Thrown(a)) /\ FailureVisible'
             /\ errorSince' \in BOOLEAN /\ hasSuccess' \in BOOLEAN /\ lossLogged' \in BOOLEAN
             /\ lastError' \in Seq(Words) /\ losses' \in Nat /\ answer' = {a}
             /\ said' = "discarding" /\ fate' = "refused"
  <2>1. SendFails(a) /\ ~Retryable(Thrown(a)) /\ ~Succeeds(a)
    BY <1>4 DEF SendRefused, SendFails
  <2>2. lossLogged' = lossLogged /\ losses' = losses /\ said' = "discarding" /\ fate' = "refused"
    BY <1>4 DEF SendRefused
  <2>3. pc' # "sleep" => LossFlagged'
    BY <1>1, <2>2 DEF LossFlagged
  <2>4. FailureVisible'
    BY <2>1, FailedPost DEF FailureVisible
  <2>5. losses' \in Nat
    BY <1>1, <2>2 DEF UploadTypeOK
  <2>. QED
    BY <1>1, <2>1, <2>2, <2>3, <2>4, <2>5, FailedPost
<1>5. ASSUME SendRetryable(a)
      PROVE  /\ ~Succeeds(a) /\ Retryable(Thrown(a)) /\ FailureVisible'
             /\ errorSince' \in BOOLEAN /\ hasSuccess' \in BOOLEAN
             /\ lastError' \in Seq(Words) /\ answer' = {a}
  <2>1. SendFails(a) /\ ~Succeeds(a) /\ Retryable(Thrown(a))
    BY <1>5 DEF SendRetryable, SendFails
  <2>. QED
    BY <1>1, <2>1, FailedPost DEF FailureVisible
<1>. QED
  BY <1>3, <1>4, <1>5

LEMMA PostKeeps ==
    ASSUME UploadInv, NEW a \in Answers, Posts(a)
    PROVE  UploadInv'
<1>1. UploadTypeOK /\ LossFlagged /\ NothingInHand
  BY DEF UploadInv
<1>2. CASE DiskDone(a)
  <2>1. (SendOk(a) \/ SendRefused(a)) /\ fromDisk' = TRUE /\ failures' = 0
    BY <1>2 DEF DiskDone
  <2>2. FateFollowsAnswer'
    BY <2>1, Outcomes, FateFollows
  <2>. QED
    BY <1>1, <1>2, <2>2, Outcomes, UploadAssumption
    DEF UploadInv, UploadTypeOK, NothingInHand, DiskDone
<1>3. CASE MemoryDone(a)
  <2>1. /\ queued' \in BOOLEAN /\ pc' = "top" /\ (SendOk(a) \/ SendRefused(a))
        /\ failures' = 0 /\ fromDisk' = FALSE
    BY <1>1, <1>3 DEF UploadTypeOK, NothingInHand, MemoryDone
  <2>2. FateFollowsAnswer'
    BY <2>1, Outcomes, FateFollows
  <2>3. UploadTypeOK'
    <3>1. /\ pc' = "top" /\ attempts' \in 0 .. MaxAttempts /\ wait' \in 0 .. 3200
          /\ failures' \in Nat
      BY <1>1, <1>3 DEF UploadTypeOK, MemoryDone
    <3>2. /\ errorSince' \in BOOLEAN /\ hasSuccess' \in BOOLEAN /\ lastError' \in Seq(Words)
          /\ lossLogged' \in BOOLEAN /\ losses' \in Nat /\ fate' \in {"sent", "refused"}
          /\ said' \in {"active", "recovered", "debug", "discarding"} /\ answer' = {a}
      BY <2>1, Outcomes
    <3>4. fromDisk' \in BOOLEAN
      <4>1. fromDisk' = FALSE
        BY <2>1
      <4>. QED
        BY <4>1, Zenon
    <3>. QED
      BY <2>1, <3>1, <3>2, <3>4 DEF UploadTypeOK
  <2>. QED
    BY <2>1, <2>2, <2>3, Outcomes DEF UploadInv, NothingInHand
<1>4. CASE DiskRetry(a)
  <2>1. attempts' \in 0 .. MaxAttempts /\ failures' \in Nat
    BY <1>1, <1>4, UploadAssumption DEF DiskRetry, UploadTypeOK
  <2>2. wait' \in 0 .. 3200
    <3>1. attempts + 1 \in Nat /\ wait' = Backoff(attempts + 1)
      BY <1>1, <1>4 DEF DiskRetry, UploadTypeOK
    <3>2. wait' \in Waits
      BY <3>1, BackoffFacts
    <3>. QED
      BY <3>2 DEF Waits
  <2>3. AnnounceLoss /\ SendRetryable(a) /\ fate' = "kept" /\ fromDisk' = TRUE
    BY <1>4 DEF DiskRetry
  <2>4. lossLogged' = TRUE /\ losses' = 1 /\ said' \in {"lost", "still"}
    BY <1>1, <2>3, Announced
  <2>5. LossFlagged' /\ NothingInHand'
    BY <1>4, <2>4 DEF LossFlagged, NothingInHand, DiskRetry
  <2>6. FateFollowsAnswer'
    BY <2>3, Outcomes, FateFollows
  <2>. QED
    BY <1>4, <2>1, <2>2, <2>3, <2>4, <2>5, <2>6, Outcomes DEF UploadInv, UploadTypeOK, DiskRetry
<1>5. CASE MemoryStored(a)
  <2>1. /\ AnnounceLoss /\ SendRetryable(a) /\ fate' = "kept" /\ fromDisk' = FALSE
        /\ failures' = 0
    BY <1>1, <1>5 DEF MemoryStored, NothingInHand
  <2>2. lossLogged' = TRUE /\ losses' = 1 /\ said' \in {"lost", "still"}
    BY <1>1, <2>1, Announced
  <2>3. LossFlagged' /\ NothingInHand'
    BY <2>1, <2>2 DEF LossFlagged, NothingInHand
  <2>4. FateFollowsAnswer'
    BY <2>1, Outcomes, FateFollows
  <2>5. UploadTypeOK'
    <3>1. /\ pc' = "top" /\ attempts' \in 0 .. MaxAttempts /\ wait' \in 0 .. 3200
          /\ failures' \in Nat
      BY <1>1, <1>5 DEF UploadTypeOK, MemoryStored
    <3>2. /\ errorSince' \in BOOLEAN /\ hasSuccess' \in BOOLEAN /\ lastError' \in Seq(Words)
          /\ answer' = {a}
      BY <2>1, Outcomes
    <3>3. queued' \in BOOLEAN
      BY <1>5 DEF MemoryStored
    <3>4. fromDisk' \in BOOLEAN
      <4>1. fromDisk' = FALSE
        BY <2>1
      <4>. QED
        BY <4>1, Zenon
    <3>. QED
      BY <2>1, <2>2, <3>1, <3>2, <3>3, <3>4 DEF UploadTypeOK
  <2>. QED
    BY <2>1, <2>3, <2>4, <2>5, Outcomes DEF UploadInv
<1>6. CASE MemoryDropped(a)
  <2>1. /\ SendRetryable(a) /\ fate' = "dropped" /\ said' = "dropping" /\ fromDisk' = FALSE
        /\ failures' = 0
    BY <1>1, <1>6 DEF MemoryDropped, NothingInHand
  <2>2. LossFlagged' /\ NothingInHand'
    BY <1>1, <1>6, <2>1 DEF LossFlagged, NothingInHand, MemoryDropped, UploadTypeOK
  <2>3. queued' \in BOOLEAN /\ lossLogged' \in BOOLEAN /\ losses' \in Nat
    <3>1. queued' \in BOOLEAN /\ lossLogged' = lossLogged /\ losses' = losses
      BY <1>6 DEF MemoryDropped
    <3>. QED
      BY <1>1, <3>1 DEF UploadTypeOK
  <2>4. FateFollowsAnswer'
    BY <2>1, Outcomes, FateFollows
  <2>5. UploadTypeOK'
    <3>1. /\ pc' = "top" /\ attempts' \in 0 .. MaxAttempts /\ wait' \in 0 .. 3200
          /\ failures' \in Nat
      BY <1>1, <1>6 DEF UploadTypeOK, MemoryDropped
    <3>2. /\ errorSince' \in BOOLEAN /\ hasSuccess' \in BOOLEAN /\ lastError' \in Seq(Words)
          /\ answer' = {a}
      BY <2>1, Outcomes
    <3>4. fromDisk' \in BOOLEAN
      <4>1. fromDisk' = FALSE
        BY <2>1
      <4>. QED
        BY <4>1, Zenon
    <3>. QED
      BY <2>1, <2>3, <3>1, <3>2, <3>4 DEF UploadTypeOK
  <2>. QED
    BY <2>1, <2>2, <2>4, <2>5, Outcomes DEF UploadInv
<1>. QED
  BY <1>2, <1>3, <1>4, <1>5, <1>6 DEF Posts

LEMMA UploadInit == Init => UploadInv
<1> SUFFICES ASSUME Init PROVE UploadInv
  OBVIOUS
<1>1. UploadTypeOK
  <2>1. lastError \in Seq(Words)
    BY NoWord DEF Init
  <2>2. attempts \in 0 .. MaxAttempts /\ wait \in 0 .. 3200
    BY UploadAssumption DEF Init
  <2>. QED
    BY <2>1, <2>2 DEF Init, UploadTypeOK
<1>2. LossFlagged /\ NothingInHand /\ FateFollowsAnswer /\ FailureVisible
  BY DEF Init, LossFlagged, NothingInHand, FateFollowsAnswer, FailureVisible
<1>. QED
  BY <1>1, <1>2 DEF UploadInv

LEMMA UploadStep == UploadInv /\ [Next]_vars => UploadInv'
<1> SUFFICES ASSUME UploadInv, [Next]_vars
             PROVE  UploadInv'
  OBVIOUS
<1> USE DEF UploadInv, UploadTypeOK, LossFlagged, NothingInHand, FateFollowsAnswer, FailureVisible
<1>1. CASE Fetch
  BY <1>1, UploadAssumption DEF Fetch
<1>2. CASE Wake
  BY <1>2 DEF Wake
<1>3. CASE QueueFull
  BY <1>3, Texts DEF QueueFull
<1>4. CASE NoHandle
  BY <1>4 DEF NoHandle
<1>5. CASE \E a \in Answers : Posts(a)
  BY <1>5, PostKeeps
<1>6. CASE UNCHANGED vars
  BY <1>6 DEF vars
<1>. QED
  BY <1>1, <1>2, <1>3, <1>4, <1>5, <1>6 DEF Next

-----------------------------------------------------------------------------
\* The values the uploads work with stay within their types, and the backoff within 3.2 s.
THEOREM UploadTypes == Spec => []UploadTypeOK
<1>1. UploadInv => UploadTypeOK
  BY DEF UploadInv
<1>. QED
  BY UploadInit, UploadStep, <1>1, PTL DEF Spec

\* post(), send_batch() and run(): every batch fares as its POST ended.  It is sent on a
\* complete 2xx alone and refused on a complete final answer alone; after any other ending
\* it is kept, or was in memory and dropped for want of a working store.
THEOREM FatesFollowAnswers == Spec => []FateFollowsAnswer
<1>1. UploadInv => FateFollowsAnswer
  BY DEF UploadInv
<1>. QED
  BY UploadInit, UploadStep, <1>1, PTL DEF Spec

\* describe_error() and set_last_error(): a failure shows until an upload succeeds.
THEOREM FailuresShow == Spec => []FailureVisible
<1>1. UploadInv => FailureVisible
  BY DEF UploadInv
<1>. QED
  BY UploadInit, UploadStep, <1>1, PTL DEF Spec

\* run() and log_success(): the loss of the connection is announced once per outage.
THEOREM LossesAnnounced == Spec => []LossAnnouncedOnce
<1>1. UploadInv => LossAnnouncedOnce
  BY DEF UploadInv, UploadTypeOK, LossFlagged, LossAnnouncedOnce
<1>. QED
  BY UploadInit, UploadStep, <1>1, PTL DEF Spec

-----------------------------------------------------------------------------
\* The backoff.

\* The waits in full.
LEMMA BackoffValues ==
    /\ Backoff(1) = 50 /\ Backoff(2) = 100 /\ Backoff(3) = 200 /\ Backoff(4) = 400
    /\ Backoff(5) = 800 /\ Backoff(6) = 1600
    /\ \A n \in Nat : n >= 7 => Backoff(n) = 3200
<1>1. /\ 2^0 = 1 /\ 2^1 = 2 /\ 2^2 = 4 /\ 2^3 = 8 /\ 2^4 = 16 /\ 2^5 = 32 /\ 2^6 = 64
    OBVIOUS
<1>2. \A n \in Nat : n >= 7 => Backoff(n) = 3200
  <2> SUFFICES ASSUME NEW n \in Nat, n >= 7 PROVE Backoff(n) = 3200
      OBVIOUS
  <2>1. Backoff(n) = IF 50 * 2^6 < 5000 THEN 50 * 2^6 ELSE 5000
      BY DEF Backoff
  <2> QED
      BY <1>1, <2>1
<1> QED
    BY <1>1, <1>2 DEF Backoff

\* Each wait is twice the one before it, up to 3200 ms.
LEMMA BackoffDoubles ==
    ASSUME NEW n \in Nat \ {0}
    PROVE  Backoff(n) = IF n = 1 THEN 50
                        ELSE IF Backoff(n - 1) = 3200 THEN 3200 ELSE 2 * Backoff(n - 1)
<1>1. n \in {1, 2, 3, 4, 5, 6, 7} \/ n - 1 >= 7
    OBVIOUS
<1>2. CASE n = 1
    BY <1>2, BackoffValues
<1>3. CASE n = 2
    BY <1>3, BackoffValues
<1>4. CASE n = 3
    BY <1>4, BackoffValues
<1>5. CASE n = 4
    BY <1>5, BackoffValues
<1>6. CASE n = 5
    BY <1>6, BackoffValues
<1>7. CASE n = 6
    BY <1>7, BackoffValues
<1>8. CASE n = 7
    BY <1>8, BackoffValues
<1>9. CASE n - 1 >= 7
    BY <1>9, BackoffValues
<1> QED
    BY <1>1, <1>2, <1>3, <1>4, <1>5, <1>6, <1>7, <1>8, <1>9

\* The recursive definition of Doubling has a solution, the backoff itself, so the
\* function Doubling chooses satisfies its equation.
LEMMA DoublingUnfolds ==
    \A n \in Nat \ {0} :
        Doubling[n] = IF n = 1 THEN 50
                      ELSE IF Doubling[n - 1] = 3200 THEN 3200 ELSE 2 * Doubling[n - 1]
<1> DEFINE Solves(f) == f = [n \in Nat \ {0} |->
               IF n = 1 THEN 50 ELSE IF f[n - 1] = 3200 THEN 3200 ELSE 2 * f[n - 1]]
           waits == [n \in Nat \ {0} |-> Backoff(n)]
<1>1. Solves(waits)
  <2>1. \A n \in Nat \ {0} : n # 1 => n - 1 \in Nat \ {0}
      OBVIOUS
  <2> QED
      BY <2>1, BackoffDoubles
<1>2. Doubling = CHOOSE f : Solves(f)
    BY DEF Doubling
<1> HIDE DEF Solves
<1>3. Solves(Doubling)
    BY <1>1, <1>2
<1> QED
    BY <1>3 DEF Solves

\* Why the wait fits the failures: the count the backoff is computed from is reset with
\* every new batch, and the failures of one batch are counted one by one.
BackoffTracks ==
    /\ attempts = failures
    /\ failures > 0 => Doubling[failures] = Backoff(failures)
    /\ pc = "sleep" => failures > 0 /\ wait = Backoff(failures)

LEMMA BackoffStep == UploadInv /\ BackoffTracks /\ [Next]_vars => BackoffTracks'
<1> SUFFICES ASSUME UploadInv, BackoffTracks, [Next]_vars
             PROVE  BackoffTracks'
    OBVIOUS
<1>1. failures \in Nat
    BY DEF UploadInv, UploadTypeOK
<1>2. ASSUME NEW a \in Answers, DiskRetry(a)
      PROVE  BackoffTracks'
  <2>1. /\ attempts' = failures' /\ failures' = failures + 1
        /\ wait' = Backoff(failures') /\ failures' \in Nat \ {0}
      BY <1>1, <1>2 DEF DiskRetry, BackoffTracks
  <2>2. Doubling[failures'] = Backoff(failures')
    <3>1. CASE failures = 0
        BY <2>1, <3>1, DoublingUnfolds, BackoffValues
    <3>2. CASE failures > 0
      <4>1. failures' # 1 /\ failures' - 1 = failures
          BY <1>1, <2>1, <3>2
      <4>2. Doubling[failures] = Backoff(failures)
          BY <3>2 DEF BackoffTracks
      <4> QED
          BY <2>1, <4>1, <4>2, DoublingUnfolds, BackoffDoubles
    <3> QED
        BY <1>1, <3>1, <3>2
  <2> QED
      BY <2>1, <2>2 DEF BackoffTracks
<1>3. CASE Fetch
    BY <1>3 DEF Fetch, BackoffTracks
<1>4. CASE Wake
    BY <1>4 DEF Wake, BackoffTracks
<1>5. CASE QueueFull \/ NoHandle
    BY <1>5 DEF QueueFull, NoHandle, BackoffTracks
<1>6. ASSUME NEW a \in Answers, DiskDone(a)
      PROVE  BackoffTracks'
    BY <1>6 DEF DiskDone, BackoffTracks
<1>7. ASSUME NEW a \in Answers, MemoryDone(a) \/ MemoryStored(a) \/ MemoryDropped(a)
      PROVE  BackoffTracks'
    BY <1>7 DEF MemoryDone, MemoryStored, MemoryDropped, BackoffTracks
<1>8. CASE UNCHANGED vars
    BY <1>8 DEF vars, BackoffTracks
<1> QED
    BY <1>2, <1>3, <1>4, <1>5, <1>6, <1>7, <1>8 DEF Next, Posts

\* backoff_duration() and pending_disk_attempts_: the wait before another attempt doubles
\* with every failed attempt at the same batch, from 50 ms to 3.2 s.
THEOREM BackoffDoublesUp == Spec => []BackoffMatchesFailures
<1>1. Init => BackoffTracks
    BY DEF Init, BackoffTracks
<1>2. BackoffTracks => BackoffMatchesFailures
    BY DEF BackoffTracks, BackoffMatchesFailures
<1> QED
    BY UploadInit, UploadStep, BackoffStep, <1>1, <1>2, PTL DEF Spec
=============================================================================
