-------------------------------- MODULE Upload --------------------------------
(***************************************************************************)
(* The uploads of InfluxWriter: what post() makes of libcurl's result and  *)
(* the server's answer, how send_batch() classifies and describes it, and  *)
(* what run() does with the outcome: when it tries again, what it gives up, *)
(* what last_error() shows and what the log says of an outage.             *)
(*                                                                         *)
(* InfluxWriter has the lines, the threads and the disk; here a batch has  *)
(* no content and the disk queue is empty or not.  A text is a sequence of *)
(* its parts, such as "status" for "HTTP 404".                             *)
(***************************************************************************)
EXTENDS Integers, Sequences

CONSTANTS
    Statuses,       \* the status codes that may come in, 0 for none
    UseGzip,        \* use_gzip_
    MaxAttempts     \* bound on the attempts at one batch

ASSUME UploadAssumption ==
    /\ Statuses \subseteq Nat
    /\ UseGzip \in BOOLEAN
    /\ MaxAttempts \in Nat \ {0}

\* curl: what curl_easy_perform() returns, "http" for CURLE_HTTP_RETURNED_ERROR and "net"
\* for any other error; "zip" stands for a compression that fails before it.
\* sent: the body sent by the server; "echo" repeats the status line, "json" is an
\* application/json object with a message.
Bodies == {"none", "blank", "echo", "text", "json"}
Answer == [curl : {"ok", "http", "net", "zip"}, status : Statuses, sent : Bodies]

\* CURLOPT_FAILONERROR fails from 400 on; only where libcurl itself authenticates, with
\* credentials in the URL or for a proxy, may a 401 or 407 pass.  A transfer that breaks
\* off may have had any status before.
Possible(a) ==
    CASE a.curl = "ok"   -> a.status < 400 \/ a.status \in {401, 407}
      [] a.curl = "http" -> a.status >= 400
      [] a.curl = "net"  -> TRUE
      [] a.curl = "zip"  -> UseGzip /\ a.status = 0 /\ a.sent = "none"

Answers == {a \in Answer : Possible(a)}

\* Under CURLOPT_FAILONERROR the body of a failed request does not reach write_cb.
Captured(a) == IF a.curl = "http" THEN "none" ELSE a.sent

VARIABLES
    pc,             \* "top", "disk", "sleep" or "dead" (the process has ended)
    queued,         \* the disk queue has a batch to give
    attempts,       \* pending_disk_attempts_
    wait,           \* the backoff in ms
    lastError,      \* last_error_
    errorSince,     \* error_since_last_success_
    hasSuccess,     \* has_logged_success_
    lossLogged,     \* logged_connection_loss_
    said,           \* the last log line
    answer,         \* history: the answer of the last POST, if any
    fate,           \* history: what became of its batch: "sent", "kept", "refused", "dropped"
    fromDisk,       \* history: its batch came from the disk queue
    failures,       \* history: failed attempts at the batch in hand
    losses          \* history: times "Lost connection" was said since the last success

vars == <<pc, queued, attempts, wait, lastError, errorSince, hasSuccess, lossLogged,
          said, answer, fate, fromDisk, failures, losses>>

-----------------------------------------------------------------------------
\* post() and its exceptions.

Succeeds(a) == a.curl = "ok" /\ a.status \in 200 .. 299

\* parse_error_payload()
Payload(a) ==
    CASE Captured(a) = "none"  -> <<>>
      [] Captured(a) = "blank" -> IF a.status > 0 THEN <<"status">> ELSE <<"HTTP error">>
      [] Captured(a) = "echo"  -> <<"status", "reason">>
      [] Captured(a) = "text"  -> <<"body">>
      [] Captured(a) = "json"  -> <<"message">>

\* The InfluxError that is thrown: net for an InfluxNetworkError, failed if its CURLcode
\* is not CURLE_OK.
Thrown(a) ==
    CASE a.curl = "ok"   -> [net |-> FALSE, status |-> a.status, failed |-> FALSE, msg |-> Payload(a)]
      [] a.curl = "http" -> [net |-> FALSE, status |-> a.status, failed |-> TRUE,  msg |-> Payload(a)]
      [] a.curl = "net"  -> [net |-> TRUE,  status |-> a.status, failed |-> TRUE,  msg |-> <<"curl">>]
      [] a.curl = "zip"  -> [net |-> FALSE, status |-> 0,        failed |-> FALSE, msg |-> <<"gzip">>]

HasReason(s) == s \in {400, 401, 402, 403, 404, 405, 408, 409, 413, 415, 422, 429,
                       500, 502, 503, 504}

\* Mutant: an error without a message has no description.
DescribeMessageOnly(e) == e.msg

\* describe_error(): what the message repeats of the status line is left out.
Describe(e) ==
    LET reason == IF HasReason(e.status) THEN <<"reason">> ELSE <<>>
        rest == IF e.msg # <<>> /\ Head(e.msg) = "status" THEN Tail(e.msg) ELSE e.msg
    IN  IF e.status > 0 THEN <<"status">> \o reason \o (IF rest = reason THEN <<>> ELSE rest)
        ELSE IF e.failed THEN <<"network", "curl">>
        ELSE IF e.msg # <<>> THEN e.msg
        ELSE <<"unknown">>

\* Mutant: the class of the exception is not looked at.
RetryableByStatus(e) == e.status = 0 \/ e.status >= 500 \/ e.status \in {408, 429}

Retryable(e) == e.net \/ e.status = 0 \/ e.status >= 500 \/ e.status \in {408, 429}

\* Mutant: the exponent is not capped.
BackoffUncapped(n) == IF n < 8 THEN 50 * 2^(IF n = 0 THEN 0 ELSE n - 1) ELSE 5000

\* Mutant: the exponent is the number of attempts.
BackoffEarly(n) ==
    LET capped == IF n < 6 THEN n ELSE 6
    IN  IF 50 * 2^capped < 5000 THEN 50 * 2^capped ELSE 5000

\* backoff_duration()
Backoff(n) ==
    LET attempt == IF n = 0 THEN 1 ELSE n
        capped == IF attempt - 1 < 6 THEN attempt - 1 ELSE 6
    IN  IF 50 * 2^capped < 5000 THEN 50 * 2^capped ELSE 5000

-----------------------------------------------------------------------------
\* send_batch() in run().

\* log_success()
LogSuccess ==
    /\ errorSince' = FALSE
    /\ lossLogged' = FALSE
    /\ hasSuccess' = TRUE
    /\ said' = IF ~hasSuccess THEN "active" ELSE IF errorSince THEN "recovered" ELSE "debug"
    /\ losses' = 0

SendOk(a) ==
    /\ Succeeds(a)
    /\ answer' = {a}
    /\ fate' = "sent"
    /\ lastError' = <<>>
    /\ LogSuccess

SendFails(a) ==
    /\ ~Succeeds(a)
    /\ answer' = {a}
    /\ lastError' = Describe(Thrown(a))
    /\ errorSince' = TRUE
    /\ UNCHANGED hasSuccess

SendRefused(a) ==
    /\ SendFails(a)
    /\ ~Retryable(Thrown(a))
    /\ fate' = "refused"
    /\ said' = "discarding"
    /\ UNCHANGED <<lossLogged, losses>>

SendRetryable(a) == SendFails(a) /\ Retryable(Thrown(a))

\* Mutant: the loss is announced each time.
AnnounceLossAlways ==
    /\ lossLogged' = TRUE
    /\ said' = "lost"
    /\ losses' = losses + 1

\* The first retryable failure of an outage is said to be one.
AnnounceLoss ==
    /\ lossLogged' = TRUE
    /\ said' = IF lossLogged THEN "still" ELSE "lost"
    /\ losses' = IF lossLogged THEN losses ELSE losses + 1

\* next() returns a batch.
Fetch ==
    /\ pc = "top"
    /\ queued
    /\ attempts' = 0
    /\ failures' = 0
    /\ pc' = "disk"
    /\ UNCHANGED <<queued, wait, lastError, errorSince, hasSuccess, lossLogged,
                   said, answer, fate, fromDisk, losses>>

\* The batch is marked as processed, and the loop goes on.
DiskDone(a) ==
    /\ pc = "disk"
    /\ SendOk(a) \/ SendRefused(a)
    /\ fromDisk' = TRUE
    /\ pc' = "top"
    /\ queued' \in BOOLEAN
    /\ attempts' = 0
    /\ failures' = 0
    /\ UNCHANGED wait

\* The batch stays in hand; persist_pending_full_batches() may store more.
DiskRetry(a) ==
    /\ pc = "disk"
    /\ attempts < MaxAttempts
    /\ SendRetryable(a)
    /\ fate' = "kept"
    /\ fromDisk' = TRUE
    /\ attempts' = attempts + 1
    /\ failures' = failures + 1
    /\ wait' = Backoff(attempts + 1)
    /\ AnnounceLoss
    /\ pc' = "sleep"
    /\ queued' \in BOOLEAN

Wake ==
    /\ pc = "sleep"
    /\ pc' = "disk"
    /\ UNCHANGED <<queued, attempts, wait, lastError, errorSince, hasSuccess, lossLogged,
                   said, answer, fate, fromDisk, failures, losses>>

\* From memory the worker uploads when the disk has nothing to give.  If the disk queue
\* had only an unreadable batch, next() has removed it and pending_disk_attempts_ is 0.
MemoryDone(a) ==
    /\ pc = "top"
    /\ SendOk(a) \/ SendRefused(a)
    /\ fromDisk' = FALSE
    /\ queued' \in {b \in BOOLEAN : b => queued}
    /\ UNCHANGED <<pc, attempts, wait, failures>>

\* store() puts the batch on disk.
MemoryStored(a) ==
    /\ pc = "top"
    /\ SendRetryable(a)
    /\ fate' = "kept"
    /\ fromDisk' = FALSE
    /\ AnnounceLoss
    /\ queued' = TRUE
    /\ UNCHANGED <<pc, attempts, wait, failures>>

\* store() fails, or there is no store.
MemoryDropped(a) ==
    /\ pc = "top"
    /\ SendRetryable(a)
    /\ fate' = "dropped"
    /\ fromDisk' = FALSE
    /\ said' = "dropping"
    /\ queued' \in {b \in BOOLEAN : b => queued}
    /\ UNCHANGED <<pc, attempts, wait, lossLogged, failures, losses>>

\* enqueue() finds the queue full.
QueueFull ==
    /\ pc # "dead"
    /\ lastError' = <<"full">>
    /\ UNCHANGED <<pc, queued, attempts, wait, errorSince, hasSuccess, lossLogged,
                   said, answer, fate, fromDisk, failures, losses>>

\* curl_easy_init() fails: send_batch() does not catch what post() throws, and an
\* exception that leaves the thread ends the process.
NoHandle ==
    /\ pc \in {"top", "disk"}
    /\ pc' = "dead"
    /\ UNCHANGED <<queued, attempts, wait, lastError, errorSince, hasSuccess, lossLogged,
                   said, answer, fate, fromDisk, failures, losses>>

Init ==
    /\ pc = "top"
    /\ queued \in BOOLEAN
    /\ attempts = 0
    /\ wait = 0
    /\ lastError = <<>>
    /\ errorSince = FALSE
    /\ hasSuccess = FALSE
    /\ lossLogged = FALSE
    /\ said = "nothing"
    /\ answer = {}
    /\ fate = "none"
    /\ fromDisk = FALSE
    /\ failures = 0
    /\ losses = 0

Posts(a) == DiskDone(a) \/ DiskRetry(a) \/ MemoryDone(a) \/ MemoryStored(a) \/ MemoryDropped(a)

Next == Fetch \/ Wake \/ QueueFull \/ NoHandle \/ \E a \in Answers : Posts(a)

Spec == Init /\ [][Next]_vars

-----------------------------------------------------------------------------
\* Properties.

Words == {"status", "reason", "body", "message", "network", "curl", "gzip", "HTTP error",
          "unknown", "full"}

\* The types; the backoff stays below the 5 s of the code's own bound.
UploadTypeOK ==
    /\ pc \in {"top", "disk", "sleep", "dead"}
    /\ queued \in BOOLEAN /\ errorSince \in BOOLEAN /\ hasSuccess \in BOOLEAN
    /\ lossLogged \in BOOLEAN
    /\ attempts \in 0 .. MaxAttempts
    /\ wait \in 0 .. 3200
    /\ lastError \in Seq(Words)
    /\ said \in {"nothing", "active", "recovered", "debug", "lost", "still",
                 "discarding", "dropping"}
    /\ answer = {} \/ \E a \in Answers : answer = {a}
    /\ fate \in {"none", "sent", "kept", "refused", "dropped"}
    /\ fromDisk \in BOOLEAN
    /\ failures \in Nat /\ losses \in Nat

\* Between two attempts at a batch the worker waits 50 ms, twice as long after every
\* further failure and at most 3.2 s, and starts again at 50 ms with the next batch.
Doubling[n \in Nat \ {0}] ==
    IF n = 1 THEN 50 ELSE IF Doubling[n - 1] = 3200 THEN 3200 ELSE 2 * Doubling[n - 1]
BackoffMatchesFailures == pc = "sleep" => failures > 0 /\ wait = Doubling[failures]

\* What becomes of a batch follows from how its POST ended.  Complete: the server has
\* answered in full.  Final: any answer but 2xx, 408, 429 and 5xx, a 3xx or 1xx among them.
\*   - sent: a complete 2xx, so a transfer that broke off is never taken for a success;
\*   - refused, given up though the writer could keep it: a complete final answer only;
\*   - kept or dropped: all other endings.  Dropped, given up because store() had failed or
\*     there was no store, are lines from memory only: a batch that came from disk stays
\*     there after any number of failures, until it is sent or refused.
Complete(a) == a.curl \notin {"net", "zip"}
Final(s) == s \in 1 .. 499 /\ s \notin 200 .. 299 /\ s \notin {408, 429}
FateFollowsAnswer ==
    /\ \A a \in answer :
          /\ fate = "sent" <=> Complete(a) /\ a.status \in 200 .. 299
          /\ fate = "refused" <=> Complete(a) /\ Final(a.status)
          /\ fate = "dropped" => ~fromDisk
    /\ failures > 0 => fate = "kept" /\ fromDisk

\* A failure is visible in last_error() until an upload succeeds, whatever the exception
\* had to say: "Returns an empty string when no error has been observed."
FailureVisible == errorSince => lastError # <<>>

\* The log speaks of the loss of the connection once per outage: at its first failure
\* that is to be retried, not again before an upload has succeeded, and again after it.
\* (A batch that is dropped for want of a disk is reported each time.)
LossAnnouncedOnce ==
    /\ losses <= 1
    /\ pc = "sleep" => losses = 1
=============================================================================
