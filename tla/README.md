# A verification project for robot_influx_bridge

`robot_influx_bridge` is a ROS 2 node that subscribes to topics, turns messages into
InfluxDB line protocol through translator plugins, and uploads the lines with a
background thread. During an outage the lines go to an on-disk queue that survives
restarts. This directory holds TLA+ modules for the part of the program that keeps
state across threads, failures and restarts, the TLC configurations that check them,
and TLAPS proofs.

All paths below are relative to the repository; `store.cpp`, `writer.cpp` and `node.cpp`
stand for `persistent_batch_store.cpp`, `influx_writer.cpp` and `influx_bridge.cpp` in
`src/robot_influx_bridge/src/`, and `tf.cpp` for
`src/robot_influx_common_interfaces/src/tf_basic_translator.cpp`.

## 1. Inventory

| Component | State | Operations | Hard behaviour |
|---|---|---|---|
| **Persistent batch store** (`store.cpp`) | the directory; `queue_`, `current_bytes_`, `sequence_`, `disabled_` | `initialize`/`load_existing`, `store`, `enforce_size_limit`, `drop_oldest`, `next`, `mark_processed`, `make_filename` | failing file operations, files that vanish, death of the process in the middle of `store`, restarts that recover the queue from file names, eviction of the batch that is being uploaded, unsigned byte accounting |
| **Influx writer** (`writer.cpp`) | `q_`, `stop_`, `batch`, `pending_disk_batch_`, gauges, `last_error_` | constructor, destructor, `enqueue`, `run`, `persist_pending_full_batches`, accessors | producer, worker and destructor interleave; the destructor sets `stop_` and notifies without the mutex; retries; disk and memory queues feed one POST loop |
| **HTTP client and errors** (`writer.cpp` 195-300 and 626-759, `influx_error.cpp`) | `pending_disk_attempts_`, `last_error_`, the flags of the log | `post`, `send_batch`, `describe_error`, `parse_error_payload`, `backoff_duration`, `log_success` | broken and lost answers, retryable and final errors, how often an outage is announced; the worker and `enqueue` both write `last_error_` |
| **Bridge node** (`node.cpp`) | the writer, the loader, the mappings with subscriptions and timers, per-topic `last_emit`, diagnostics | constructor, `add_mapping_from_params`, subscription, timer and diagnostics callbacks, destruction | a constructor that throws half-way; the order of destruction; downsampling against a clock that may be set back; diagnostics that read, one after the other, gauges another thread writes |
| **TF translator** (`tf.cpp`) | buffer, `last_stamp_ns_`, listener | `configure`, `parse_period`, `get_timer_period`, `on_timer` | resets of the clock; conversion of a tiny frequency; a listener that could not be created |
| **Other translators, line protocol helpers** | none | one message to lines | pure formatting |
| **Parameters, packaging, containers** | none | configuration | none |

How they interact: a subscription or timer callback of the node calls
`enqueue(line)` (a call, under the writer's mutex); the writer's thread alone calls the
store (calls, no lock) and the HTTP client; the diagnostics timer of the node reads
the writer's atomics and `last_error()`. The subscriptions and timers call back into the
node and into code of plugin libraries, so the members are declared such that the
mappings are destroyed before the writer, and the writer before the loader; when the
constructor throws, the members built by then are destroyed in the same order.

What makes each component correct:

* store: the queue mirrors the directory and keeps the order of the data; a new file
  never overwrites one; the byte count never falls below what is queued, so that no
  unsigned subtraction wraps; eviction spares the newest batch; finishing a batch
  deletes that batch and nothing else, although eviction may have removed it first.
* writer: an accepted line is in memory, on disk, delivered, or given up where the
  code says so; an outage alone loses, duplicates and reorders nothing; no wake-up is
  lost for good; the destructor returns; an outage does not leave the queue full;
  every line is settled in the end; the gauges are right when they are read.
* HTTP client: a batch counts as uploaded on a complete 2xx only; lines that could be
  kept are given up only on a complete answer that is final, and on a retryable failure
  only lines from memory that no store has taken; a failure has a text; the backoff grows with the failures at one batch and starts again
  with the next; the log announces an outage once.
* node: at most one emission per `min_gap` and topic; a callback finds the writer and the
  library it needs, also when the constructor throws; an entry of the configuration gets
  what it asks for or leaves nothing behind, and takes others down only by an exception
  that ends the constructor; dropped lines end up in the diagnostics.
* TF translator: no stamp reported twice; heard again after the clock was set back.

`PROJECT.json` lists the hazards at their lines, with the properties that cover them.

## 2. Modules

| Module | Models | Composes |
|---|---|---|
| `PersistentBatchStore` | the store and its directory | |
| `InfluxWriter` | the writer, its store, the producer, the owner, the server | `PersistentBatchStore` (extends), `LineCustody`, `WriterPort` (implements) |
| `LineCustody` | abstract: what becomes of an accepted line | |
| `WriterPort` | abstract: the writer as the node sees it | |
| `Upload` | `post`, the errors, retries, `last_error_` and the log | |
| `TfTranslator` | the TF translator and its buffer | |
| `BridgeNode` | the node, its executor and its clock | `WriterPort`, `TfTranslator` |
| `MCPersistentBatchStore`, `MCInfluxWriter`, `MCUpload`, `MCBridgeNode` | callers, inputs and bounds for TLC | their modules |
| `PersistentBatchStoreProofs`, `InfluxWriterProofs`, `UploadProofs`, `BridgeNodeProofs` | proofs | their modules, `TLAPS` |
| `AccountingProofs` | proofs about `current_bytes_`, the queue and the directory | `PersistentBatchStoreProofs` |
| `LineCustodyProofs`, `RefinementProofs` | proofs about and of the refinements | `LineCustody`; `InfluxWriterProofs` |
| `DeliveryProofs` | proofs about order, gauges, redelivery and outages | `RefinementProofs`, `AccountingProofs` |

`InfluxWriter` implements `WriterPort`, and `BridgeNode` uses `WriterPort` in its place:
the node and the writer are composed through a specification of their interface, which
keeps the states of worker and disk out of the node's runs.

Operators called "Mutant" in a comment are not part of the model: each is a plausible
mistake in the definition that follows it, and shows that a property notices it.

### PersistentBatchStore

| Variable | Code |
|---|---|
| `files` | the directory: path -> lines |
| `mode` | no object, inside `load_existing`, running, `disabled_` |
| `unread` | what the sorted list of `load_existing` has left |
| `queue`, `bytes`, `seqno` | `queue_`, `current_bytes_`, `sequence_` |
| `clock` | the millisecond `make_filename` sees |
| `step`, `cur`, `ret` | where `store()` is, its file and lines, its result |
| `pending` | what `next()` gave out and the caller still holds |
| `dropped` | history: lines of evicted, unreadable or vanished files |

Nobody calls the store concurrently, so `next()` and `mark_processed()` are one step.
`store()` is split where the directory changes, because the process may die, or a file
vanish, in between: `StoreOpen` (name, truncating open), `StoreWrite` or
`StoreWriteFails` (serialize, flush, `file_size`, push), `Enforce` per evicted batch,
`StoreAccept` or `StoreReject`. `load_existing` is one `LoadEntry` per file. File names
are pairs of a millisecond and a sequence number, compared as the strings they are
printed as (`DecimalLT`): numerals without padding. The size of files is the number of
their units (`SizeOf`: a set of pairs of path and index and not a sum, so that the laws of
finite sets apply to it), and `DecimalLT` compares numerals of equal width as numbers
without computing a power of the radix. Lines are numbered in the order of
production; a line is one unit of disk; 0 is a line that a crash cut short.

`Faults` selects what the environment may do: `"io"` (a file operation fails: an open or a
scan, a write after none, some or all of the data reached the file, a size that cannot be
had and is not subtracted, `Discount`), `"rmfail"` (`remove` fails), `"vanish"` (somebody
else removes a file), `"crash"`.

Assumed: the system clock, which `make_filename` reads, is not set back, neither across a
restart nor inside a process, and a restart takes at least a millisecond (`Initialize`
advances `clock`). If it were set back across a restart two processes could print the
same name, and `NoOverwrite` would not hold; if it were set back inside a process the
sequence number would keep the names apart, but the next start would sort a younger
batch first, against `BacklogInOrder`.

### InfluxWriter

`wpc` is the worker's place in `run()`: `top` (the test of `stop_` and the disk queue),
`disk` (POST of a persisted batch), `settled` (`mark_processed` and metrics), `drain`,
`drainStore` (`persist_pending_full_batches` and the `store()` in it), `sleep`
(backoff), `lock`, `parking`, `waiting` (`wait_for`), `post`, `flush` (POST of a memory
batch, before and after `stop_`), `persist`, `persistStore` (the `store()` after it).
The mutex is held for one step at a time, except in `parking`: between the test of the
predicate and the wait the worker owns the mutex and `enqueue` is excluded, but the
destructor, which takes no mutex, is not. `life` is the owner's place: `stop_` set
(`stop`), notified (`join`).

POST has the outcomes `send_batch` distinguishes: success, a retryable error, a final
one. A retryable error is a request that never arrived (`"net"`) or one whose answer was
lost (`"lostack"`). `wait_for` may always time out (`TimedOut`), which also covers
spurious wake-ups; durations are otherwise abstracted.

There is one producer: the callbacks of the node and its timers are in the default
mutually exclusive callback group. `Shutdown` needs an idle producer: the
subscriptions and timers are destroyed before the writer.

`Upload` tells how an answer becomes one of these outcomes.

An empty `persistence_path` or a budget of zero (no store object) behaves like a disabled store: `store()`
is not called, nothing is fetched, and the gauges stay zero.

### LineCustody and WriterPort

`LineCustody` is the promise `enqueue()` makes: an accepted line is in `memory`, on
`disk`, `delivered` or `abandoned`. Lines move and copies vanish (`Shelve`), the server
takes lines the worker holds (`Upload`), and somebody decides to give lines up
(`GiveUp`); no step removes the last copy of a line that is not settled, and none makes
one up. In `InfluxWriter`, `memory` is the queue and the two batches in the worker's
hands, `disk` what the files contain, and `abandoned` the two histories of losses.

`WriterPort` has what `influx_bridge.cpp` can see: whether the object exists, the
depth, whether a backlog is reported, and `last_error_` as "none", "full" or "send".
`enqueue()` is two steps when the queue is full (the error is recorded after the mutex
was released), and the destructor returns only with an empty queue. `Level` is what
`publish_diagnostics` makes of the values.

### Upload

| Variable | Code |
|---|---|
| `pc`, `queued` | the place in `run()`; whether the disk queue has a batch |
| `attempts`, `wait` | `pending_disk_attempts_`; what `backoff_duration` returned |
| `lastError` | `last_error_`, as the sequence of its parts |
| `errorSince`, `hasSuccess`, `lossLogged` | the flags behind the log |
| `said` | the last log line, by its kind |
| `answer`, `fate`, `fromDisk`, `failures`, `losses` | histories: the last answer, what became of its batch, where that batch came from, failed attempts at the batch in hand, announcements since the last success |

An answer is a result of curl (`ok`, `http` for `CURLE_HTTP_RETURNED_ERROR`, `net` for any
other error, `zip` for a compression that fails before), a status and a kind of body.
`CURLOPT_FAILONERROR` is modelled by what it does: a request fails at its status line
from 400 on and its body never reaches `write_cb` (`Captured`), so the message of the
server appears in `last_error_` only in the few cases in which curl lets a 401 or 407
through. `Thrown` is the exception `post` makes of an answer, `Describe` its text,
`Retryable` its class. Writer and upload are separate modules because what one tells
apart (lines, threads and disk; codes, texts and flags) is abstract in the other.

### TfTranslator and BridgeNode

| Variable | Code |
|---|---|
| `port`, `depth`, `backlog`, `error` | `writer_`, through `WriterPort` |
| `transform`, `lastStamp` | the buffer's newest transform; `last_stamp_ns_` |
| `place`, `alive` | constructor, running, destructor or unwinding; members that hold something |
| `entry`, `next` | the parameters of the mappings; the one the constructor is at |
| `subs`, `timers` | `mappings_`: which has a subscription, which a timer |
| `gap`, `lastEmit` | `min_gap` and `last_emit` of the `DownsampleState` |
| `cb` | the callback that runs and how far it is |
| `level` | the level `publish_diagnostics` last published |
| `now`, `resets` | the node's clock and how often it was set back |
| `emitted`, `reported`, `heard`, `refused` | histories |

`add_mapping_from_params` is one step per entry: `SkipMapping` (no plugin, or no topic for
a translator that wants one), `AddMappingThrows` (the library cannot be loaded or its
`configure` throws, the name of the topic is not valid) or `AddMapping`. The executor runs one callback at a time, but
the worker goes on between its steps: a callback enqueues one line per step, and
`publish_diagnostics` reads the depth, the backlog and the error in three. A message is
left out when less than `min_gap` has passed, or when the clock was set back behind
`last_emit`. `ClockReset` also empties the TF buffer, as `tf2_ros` does. A conversion
of a floating-point value out of range of `int64_t` may give what x86 or ARM give
(`ToInt64`); integers are otherwise small. Rates and periods are numbers of clock units,
with `IntMax` in the place of the largest integer.

## 3. Checks

| Run | Environment | Shows |
|---|---|---|
| `store_faults` | every fault; 4 lines in batches of 1-2, budget 3, radix 2, clock to 2 | types, the inductive invariant, `BytesCoverBacklog`, `NewestSurvivesEviction`, `PendingFrontOrGone`, `BacklogInOrder`, `NoOverwrite`, `ProcessedWasRead` |
| `store_crashes` | crashes only; 6 lines in batches of 1-4 (one larger than the budget), clock to 4 | the queue is the directory and `bytes` its size (`ExactAccounting`); the directory is within budget after a successful `store()` (`DiskWithinBudget`) |
| `writer_outage` | unreachable server, no other fault; 6 lines, `max_batch` 2, `max_queue` 3, two incarnations | `OutageLosesNothing`, `DeliveredOnce`, `OldestFirst`, `NoLostSignal`, `GaugesCurrent`, `AllClearIsTrue` (diagnostics that say "OK" hide no backlog), types |
| `writer_faults` | failing files and removals, crashes, refused and failed POSTs; budget of one line, 3 lines | `NoLineForgotten`: a line disappears only where the code gives it up; `CustodyInv`: why; `TornFilesWrittenOff`: no line the writer answers for shares a file with half a line |
| `writer_live` | fair threads; failing and vanishing files, lost answers, refused and failed POSTs; 3 lines | `ShutdownCompletes`, `FullQueueRelieved`, `EventuallySettled`; `CustodyRefined` and `PortRefined`: every step is one of `LineCustody` (so no line is forgotten when its file vanishes) and one of `WriterPort` |
| `upload_outcomes` | any answer to any upload, from disk and from memory, up to nine failures at one batch | `FateFollowsAnswer`, `FailureVisible`, `LossAnnouncedOnce`, `BackoffMatchesFailures`, types |
| `node_setup` | two mappings, each any of ten kinds of entry; every exit of the constructor | `CallbacksFindTheirTargets`, `EveryEntryAccounted`, types |
| `node_clock` | one mapping of five kinds that look at the clock, which is set back once; fair callbacks | `EmissionsSpaced`, `StampsIncrease`, `HeardAgain`, `AlarmHolds` |
| `store_eviction_order`, `writer_stale_gauge`, `writer_batching`, `node_default_translator` | see Findings | a counterexample each |

Deadlock is not checked: the bridge may be stopped, or its process may die, for good, and
the bounds below end every behaviour.

### Bounds

* `MaxClock` bounds the milliseconds, and with them names and restarts. Two suffices for
  a restart after files were made (`store_crashes` has four).
* `MaxHanded`/`MaxBatchLen`, `MaxLines` bound what is produced. Three batches are enough
  for an eviction while one is uploaded and another is stored; a batch longer than
  `MaxBytes` is rejected, with and without a backlog. `writer_live` has
  `max_batch = max_queue`, the largest `max_batch` for which `FullQueueRelieved` holds.
* `Radix`: the hazard of string order shows when a sequence number gains a digit. The
  store runs use 2 so that it happens at the second file; the run of the finding uses
  the real 10 and eleven files. The writer runs use 10 and fewer than ten files, so the
  names sort by age there, as in any run of the program with fewer than ten `store()`
  calls per process.
* `MaxBytes` is 1-3 where eviction matters and larger than all data in `writer_outage`,
  whose property is about a disk that suffices.
* `MCStatuses` has one status code of each class the code distinguishes: none,
  informational, success, redirection, 401 (which curl may let through), 408 and 429
  (retried), one without a reason phrase (418), 500 and 507. `MaxAttempts` is nine: the
  exponent is capped after six doublings, at the seventh failure.
* `NMappings` is two in `node_setup`, so that each entry stands before and after every
  other; nothing in the node relates three mappings. It is one in `node_clock`, where
  mappings do not share anything but the clock and the queue. The entries of
  `MCEntries` include an infinite rate (interval 0), an interval that is rounded (7), a
  rate and a frequency whose interval or period exceeds `IntMax`, and a period of zero.
* `MaxNow` is 4 with one reset from at most 2 (`ResetBound`): the gaps are 1 and 2, and
  `HeardAgain` speaks of mappings whose gap ends before the bounded clock does.
* A queue of one line and callbacks of at most one line (`MaxCallback`) reach a full
  queue, refused lines and all three levels; `TfTimer` enqueues its one line always.

### Fairness

`FairSpec` assumes weak fairness of the worker as a whole (a running thread; the timeout
of a wait and the backoff elapse; curl returns within its timeouts), of the rest of an
`enqueue()` that has begun, and of the destructor once begun (`NotifyAll`, `Join`). It
assumes nothing of the server, of producers or of the owner. Which outcome a POST has is
the environment's choice, so `EventuallySettled` has as its antecedent that an upload
from the disk queue succeeds infinitely often if it is attempted infinitely often
(`SF_vars(DiskOk)`); `ShutdownCompletes` and `FullQueueRelieved` need no such thing.
Production is finite (`MaxLines`): with endless production into a budget of lines,
`EventuallySettled` would still hold by eviction, but is not checked.

`FairSpec` of `BridgeNode` assumes weak fairness of `Callback` (a callback that has begun
goes on) and of `Tick`, and strong fairness of `StartReport`: the executor looks
at ready timers before it looks at messages, so messages cannot starve the diagnostics.
`HeardAgain` is about a node that receives something, so it takes as given that topics
and timers keep calling (strong fairness of `Message` and `TfTimer`: they compete for the
executor) and that transforms keep coming (`NewTransform`). Nothing is assumed of the
worker, of `Stop` or of the clock's resets.

`ShutdownCompletes` depends on the timeout of `wait_for`: the destructor's notification
can fall between the worker's test and its wait. The mutant without the timeout fails.

## 4. Findings

1. `store_eviction_order`: recovered files are queued in string order, in which sequence
   number 10 precedes 9; the younger of the two is then evicted first, against "Older
   batches are dropped once the limit is reached" (`bridge_parameters.yaml`).
2. `writer_stale_gauge`: when `next()` discards an unreadable file the gauges are not
   updated; the diagnostics go on reporting a persisted batch that does not exist.
3. `writer_batching`: the first `enqueue` wakes the worker, which uploads what it finds;
   lines are not buffered until `max_batch` or `flush`.
4. `node_default_translator`: an entry without a translator is skipped with an error,
   against "When the `translator` field is empty, the bridge resolves a default translator
   based on the message type" (`README.md`). `EveryEntryAccounted` therefore says of such
   an entry only what the code does with it.

Two more things the models show, which contradict no document: the bytes of a file that
vanished are never subtracted and count against the budget until the process ends (so
`ExactAccounting` is not stated of `store_faults`), and an interval that overflows
`int64_t`, that of a `max_rate` near zero, becomes a gap of one nanosecond on x86, which
is no throttling (`Rounded` in `EveryEntryAccounted` allows it).

## 5. Proofs

`PersistentBatchStoreProofs` proves, for all budgets, radixes, clocks and sets of
faults and for a caller that hands in any non-empty sequence of lines at any time
(`StoreSpec`):

* `StoreTypeCorrect`: types; a disabled or dead store holds nothing.
* `StoreInvariant`: `StoreInv`, the inductive invariant. `PendingFrontOrGone` and
  `NewestSurvivesEviction` are not inductive: that the batch in the caller's hands never
  turns up later in the queue needs that a new file has a new name (`NamesOld`: every
  known path was made earlier; `WritingFresh`: the one being written is in no other
  place), that the queue has no duplicates (`QueuedOnce`, which has to speak of the
  entries `load_existing` has not visited), and that nobody rewrites a file
  (`PendingUnchanged`).
* `PendingIsFrontOrGone`, `NewestIsSpared`, and the action properties
  `NamesAreNotReused` (`NoOverwrite`) and `OnlyReadBatchesAreDeleted`
  (`ProcessedWasRead`) follow from it.

The proof has a lemma per action that needs more than its frame, shared facts about
sequences first, and one case per action in `TypeStep` and `InvStep`. The assumption is
`StoreAssumption` (budgets are positive, a base is at least two).

`InfluxWriterProofs` proves, for all sizes of batches, queue and budget and for all sets
of faults of store and server (`Spec`):

* `WriterTypeCorrect`: `WriterTypeOK`, which ties the worker's place in `run()` to the
  batch in its hands, to `pending` and to the progress of `store()`, and `queue_depth_`
  to the queue. It is inductive as it stands.
* `WriterUsesStore`: every behaviour of the writer is a behaviour of `StoreSpec`. The
  worker stores non-empty batches only, and asks for a new pending batch only after it
  finished the old one. All theorems about the store therefore hold in the writer.
* `NoSignalIsLost`: `NoLostSignal`. Strengthened by `ParkingEmpty`: a worker that has
  found nothing to do still owns the mutex until it waits, so nobody can push.
* `CustodyInvariant` and `NothingIsForgotten`: `NoLineForgotten`, through `CustodyInv`.
  It is not inductive alone: that `mark_processed` may delete a file needs that its
  lines were settled (`FinishedIsSettled`, with `PendingUnchanged` of the store); that
  a failed write costs nothing needs that the file held nothing (`WritesToEmptyFile`,
  with `NoOverwrite`'s argument); that a batch may be forgotten after `store()` needs
  that it is on disk (`AcceptedIsKept`, from `NewestSurvivesEviction`); that the
  destructor may throw the queue away needs that the worker exits with an empty one
  (`ExitsEmpty`). The proof has one lemma per part; `DiskKept` is the common core:
  nothing leaves the disk but what is settled, except the batch a `store()` takes
  back, which the worker still holds.

The assumption is `WriterAssumption` (`max_batch` is positive). `writer_faults` also checks
`CustodyInv`.

The refinements hold for the same constants:

* `WriterKeepsCustody` (`RefinementProofs`): `Spec => CustodyRefined`. The invariant is
  `CustodyInv` and `LinesKnown`: files, batches and histories contain only lines that
  were accepted, and fragments of them. The proof says first what a step may add to the
  disk, to the worker's hands and to the histories, then that each line that leaves
  is settled (that is `DiskKept` again), and then which step of `LineCustody` it is.
* `PromiseAnswersForLines` (`LineCustodyProofs`) is what the promise amounts to: the
  accepted lines are exactly those held or settled. With the former it holds of the
  program.
* `WriterIsPort` (`RefinementProofs`): `Spec => PortRefined`, with the addition that
  between two incarnations depth, gauges and error are those of a new object
  (`OffIsReset`).

`AccountingProofs` proves the books of the store, again for `StoreSpec`:

* `BytesAreEnough`: `BytesCoverBacklog`, under every fault. The strengthening is
  `BytesCover`: in the middle of a `store()` the count covers the other files of the queue
  and the batch being stored, so that the subtraction of a rejected batch does not wrap
  either. `BooksInv` adds to `StoreInv` that the directory is finite.
* `BooksAreExact` and `BudgetIsKept`: `ExactAccounting` and `DiskWithinBudget` where nothing
  happens but crashes. With a failing removal or a vanishing file they are false:
  a vanished file stays counted, and a file that `remove` leaves behind is counted no
  longer. `ExactBooks` has to speak of the constructor's half-read directory and of the
  file a `store()` has opened and not filled.

`DeliveryProofs` proves what the writer promises about order and delivery. A hypothesis on
the faults names exactly those under which the property is false or cannot be kept:

* `QueueIsInOrder`: `BacklogInOrder`, under every fault. `StoreSpec` alone does not imply
  it, since its caller may hand in lines in any order. `OrderInv` puts everything the
  writer holds into one order: lines in memory rise and are younger than the disk
  (`MemoryOrder`), the files are older than the batch in hand unless they hold it
  (`DiskBeforeBatch`, `WriteYoungest`), files are as old as their names (`AgeOrder`),
  the queue follows the names as far as their string order allows (`NamesInOrder`), and
  the pending batch is older than memory (`PendingBefore`).
* `TornFilesAreWrittenOff`: `TornFilesWrittenOff`, under every fault, from `CustodyInv`. A
  step takes files away, opens an empty one or fills one with the batch in hand
  (`FileSteps`); the last may stop inside a line, and then the batch is lost with the
  process or its `store()` returns false (`WrittenOffGrows`).
* `GaugesAreCurrent`: `GaugesCurrent`, without `"io"` and `"vanish"`. With either, `next()`
  discards a batch and nothing refreshes the gauges (`writer_stale_gauge`). From
  `FilesThere` (then every path of the queue has a file) and `GaugesFollow`.
* `AllClearCanBeTrusted`: `AllClearIsTrue`, under the same hypothesis, from `NoOrphans`: a
  file that no path of the queue leads to holds only what is settled or just rejected.
* `LinesAreDeliveredOnce`: `DeliveredOnce`, when no answer is lost, the process does not die
  and files can be removed. Each of the three makes the program send lines again: the
  batch is uploaded and still on disk. From `OrderInv`, `WholeLines`, `PendingQueued` (the
  file of the pending batch is where `mark_processed` removes it), `PendingApart` (no
  other file holds its lines) and `Fresh` (what was delivered is in no other place).
* `OldLinesGoFirst`: `OldestFirst`, without `"io"` and `"vanish"`, in every behaviour in which
  no two queued names of one millisecond differ in width (`SameWidth`). Without that the
  string order of the names may upload the younger batch first (`store_eviction_order`
  shows that order). From `OrderInv`, `BacklogInv`, `DiskFirst` and `PendingOldest`.
* `FewFilesGoInOrder` replaces `SameWidth` by what one can see: as long as no process makes
  more than `Radix` (ten) files, names have sequence numbers of one digit (`ShortNames`).
  It rests on `DigitsUnfold`, that the recursive definition of `Digits` has a solution; the proof
  exhibits one without induction, the size of the least set that contains the number and
  is closed under dropping the last digit (`Roots`).
* `OutageCostsNothing`: `OutageLosesNothing` with no fault but lost answers and retryable
  errors, in every behaviour that stays within the disk budget; `EnoughIsEnough`: a
  budget for all lines that are ever produced is such a budget, since no line is on disk
  twice; `OutageIsFree` is both together.

`UploadProofs` proves, for every set of status codes and any bound on the attempts, from
`UploadInv`: `UploadTypes`, `FatesFollowAnswers`, `FailuresShow` and `LossesAnnounced`. The
strengthening is `LossFlagged`: the flag of the log is set exactly when a loss has been
announced since the last success, and a worker that sleeps has set it. `NothingInHand`: no failure is
counted and no batch counts as fetched while the worker holds none. `BackoffDoublesUp`
proves `BackoffMatchesFailures` from `BackoffTracks`: the counter of attempts is the number
of failures at the batch in hand, and goes back to zero when another batch is fetched.

`BridgeNodeProofs` proves, for any number of mappings, entries, clocks and queues:

* `TargetsThere`: `CallbacksFindTheirTargets`, from `Lifetimes`. What can be called exists
  only from the end of `BuildLoader` to `DestroyMappings`, and the writer is open and
  the loader alive all that time; `Order` is the fact about the order of declaration
  it rests on.
* `RatesHold` and `StampsRise`: `EmissionsSpaced` and `StampsIncrease`, from `Memories`:
  what the code remembers is what happened last, also over resets of the clock.
* `EntriesAccountedFor`: `EveryEntryAccounted`, from `Progress`: the entries taken so far
  do not throw and are honoured, those to come have left nothing, and an unwinding began
  at an entry that throws.
* `NodeTypesHold`: types.

The assumptions are `NodeAssumption`, `TfAssumption` and `UploadAssumption`.

Only model-checked:

* Liveness under fairness (`ShutdownCompletes`, `FullQueueRelieved`, `EventuallySettled`,
  `HeardAgain`, `AlarmHolds`) and anything about ENABLED: out of the provers' reach.
* That `DecimalLT` orders numerals of every width as strings are ordered: it would need
  induction over the digits. The theorems use its meaning for equal widths only; hence
  the exception for `WidthChange` in `BacklogInOrder`.

Every invariant and every action property that a passing run checks is stated by a
theorem; the runs show in addition that the hypotheses are satisfied by behaviours in
which the interesting cases happen.

## 6. Not modelled

* The translators of messages and the helpers for line protocol: stateless formatting of
  one message, which unit tests reach entirely.
* Packaging, launch files and containers: no logic of the bridge.
* Of the node: the text of tags and of `custom_config`, the QoS of a subscription, and the
  callback on parameters, which only logs. Of the diagnostics: the values listed under the
  level.
* Durations: a callback, a POST and a lookup are steps. `lookupTransform` may block the
  executor's only thread for `lookup_timeout` at every tick; what that costs is a
  question of rates that these models do not answer.
* The wording of logs and the flags that select it; the content of gzip; URLs and headers.
* An exception thrown by the directory iterator ends the constructor. One thrown when
  `curl_easy_init` fails ends the process: `NoHandle` in `Upload`, a crash at that place in
  `InfluxWriter`.
* Writing of the atomics by one thread and reading by another: relaxed atomics of one
  word, read for display only.

`PROJECT.json` lists the four hazards without a property, with the reason for each.

## 7. Plan

1. Done: the store, the writer, their runs and proofs.
2. Done: `Upload`: outcomes, retries, errors and the log.
3. Done: `BridgeNode` with `TfTranslator`, composed with the writer through `WriterPort`:
   construction, downsampling, timers, diagnostics, destruction.
4. Done: `LineCustody` and `WriterPort`, and the proofs that `InfluxWriter` implements them.
5. Done: proofs of the accounting of the store, and of order, gauges, redelivery and
   outages in the writer.
6. Open: what the writer promises under the faults that the hypotheses of
   `DeliveryProofs` exclude, for instance which lines a lost answer may duplicate.
7. Not planned: the formatting translators.
