------------------------------ MODULE BridgeNode ------------------------------
(***************************************************************************)
(* The node: class InfluxBridgeNode of influx_bridge.cpp.  Its constructor *)
(* builds the writer, the diagnostics and the plugin loader and adds the   *)
(* mappings one by one; then the executor runs one callback at a time:     *)
(* messages, timers of translators, the diagnostics.  The writer's worker  *)
(* goes on in between (WriterPort).  At the end, or when the constructor   *)
(* throws, the members are destroyed in the reverse of their declaration.  *)
(*                                                                         *)
(* Time is the node's clock in ticks; with use_sim_time it may be set back. *)
(***************************************************************************)
EXTENDS WriterPort, TfTranslator

CONSTANTS
    Entries,        \* the entries a mapping may have
    MaxNow,         \* bound on the clock
    MaxResets,      \* how often the clock is set back ...
    ResetBound,     \* ... which happens no later than this
    MaxCallback     \* bound on the lines a callback enqueues

\* class: "" or "unknown" (the plugin is not declared), "broken" (it is, but it cannot be
\* loaded or its configure() throws), "msg" (driven by a topic), "tf", "both" (a topic and a timer).  topic: "",
\* "good" or "bad" (create_generic_subscription throws).  interval: 1e9 / max_rate in
\* half nanoseconds.  frames: source_frame and target_frame are given.
Entry == [class : {"", "unknown", "broken", "msg", "tf", "both"},
          topic : {"", "good", "bad"}, interval : SUBSET Nat,
          frames : BOOLEAN, freq : SUBSET Int, period : SUBSET Int]

ASSUME NodeAssumption ==
    /\ MaxQueue \in Nat
    /\ Entries \subseteq Entry
    /\ MaxNow \in Nat /\ MaxResets \in Nat /\ ResetBound \in Nat /\ MaxCallback \in Nat

VARIABLES
    place,          \* "setup", "up", "down", "unwinding" (the constructor threw)
    alive,          \* the members that hold something
    entry,          \* the parameters of the mappings
    next,           \* the mapping the constructor is about to add
    subs,           \* mappings with a subscription
    timers,         \* mappings with a timer
    gap,            \* min_gap, 0 without a DownsampleState
    lastEmit,       \* last_emit, missing unless has_last_emit
    cb,             \* the callback that is running
    level,          \* the level last published
    now,            \* the node's clock
    resets,         \* how often it was set back
    emitted,        \* history: when a throttled topic's message was last processed
    reported,       \* history: the stamp of the transform last reported
    heard,          \* history: mappings processed since the clock was set back
    refused         \* history: a line was refused since the last good upload

setupVars == <<place, alive, entry, next, subs, timers, gap>>
throttleVars == <<lastEmit, emitted>>
clockVars == <<now, resets>>
pointVars == <<reported, heard>>
reportVars == <<level, refused>>
nodeVars == <<setupVars, throttleVars, cb, clockVars, pointVars, reportVars>>
vars == <<nodeVars, portVars, tfVars>>
\* What the constructor and the destructor leave alone.
runVars == <<throttleVars, clockVars, pointVars, reportVars, tfVars>>

Idle == [kind |-> "idle"]
Lines(n) == IF n = 0 THEN Idle ELSE [kind |-> "lines", left |-> n]

-----------------------------------------------------------------------------
\* The constructor.

\* Mutant: the result of llround() is used as it is.
MinGapUnclamped(i) == ToInt64((i + 1) \div 2)

\* llround() to whole nanoseconds; what is not positive becomes 1.
MinGap(i) == {IF g <= 0 THEN 1 ELSE g : g \in ToInt64((i + 1) \div 2)}

TopicDriven(e) == e.class \in {"msg", "both"}
Gaps(e) == IF TopicDriven(e) /\ e.interval # {} THEN UNION {MinGap(i) : i \in e.interval}
           ELSE {0}

\* What get_timer_period() may return.  A TF translator whose listener could not be
\* created wants no timer.
TimerPeriods(e) ==
    CASE e.class = "tf" -> {{}} \cup {{p} : p \in ParsePeriod(e.freq, e.period)}
      [] e.class = "both" -> {e.period}
      [] OTHER -> {{}}

Skipped(e) == e.class \in {"", "unknown"} \/ (TopicDriven(e) /\ e.topic = "")

\* createSharedInstance or configure() throws; create_generic_subscription throws.
PluginThrows(e) == e.class = "broken"
SubscriptionThrows(e) == TopicDriven(e) /\ e.topic = "bad"
Throws(e) == PluginThrows(e) \/ SubscriptionThrows(e)

BuildWriter ==
    /\ place = "setup"
    /\ "writer" \notin alive
    /\ Open
    /\ alive' = alive \cup {"writer"}
    /\ UNCHANGED <<place, entry, next, subs, timers, gap, cb, runVars>>

\* The diagnostics timer, and a first report at once.
BuildDiagnostics ==
    /\ place = "setup"
    /\ "writer" \in alive
    /\ "timer" \notin alive
    /\ alive' = alive \cup {"timer"}
    /\ cb' = [kind |-> "report"]
    /\ UNCHANGED <<place, entry, next, subs, timers, gap, runVars, portVars>>

BuildLoader ==
    /\ place = "setup"
    /\ "timer" \in alive
    /\ cb = Idle
    /\ "loader" \notin alive
    /\ alive' = alive \cup {"loader"}
    /\ UNCHANGED <<place, entry, next, subs, timers, gap, cb, runVars, portVars>>

Adding ==
    /\ place = "setup"
    /\ "loader" \in alive
    /\ next \in Mappings

\* An entry without a usable plugin or topic is reported and left out.
SkipMapping ==
    /\ Adding
    /\ Skipped(entry[next])
    /\ next' = next + 1
    /\ UNCHANGED <<place, alive, entry, subs, timers, gap, cb, runVars, portVars>>

\* Nobody catches what is thrown.  What the mapping holds by then, a timer perhaps, is
\* local to add_mapping_from_params and dies first.
AddMappingThrows ==
    /\ Adding
    /\ Throws(entry[next])
    /\ ~Skipped(entry[next])
    /\ place' = "unwinding"
    /\ UNCHANGED <<alive, entry, next, subs, timers, gap, cb, runVars, portVars>>

\* Mutant: the first mapping that is added ends the loop.
AddMappingStops ==
    /\ Adding
    /\ ~Skipped(entry[next]) /\ ~Throws(entry[next])
    /\ \E t \in TimerPeriods(entry[next]) :
          timers' = IF \E p \in t : p > 0 THEN timers \cup {next} ELSE timers
    /\ \E g \in Gaps(entry[next]) : gap' = [gap EXCEPT ![next] = g]
    /\ subs' = IF TopicDriven(entry[next]) THEN subs \cup {next} ELSE subs
    /\ next' = NMappings + 1
    /\ UNCHANGED <<place, alive, entry, cb, runVars, portVars>>

AddMapping ==
    /\ Adding
    /\ ~Skipped(entry[next]) /\ ~Throws(entry[next])
    /\ \E t \in TimerPeriods(entry[next]) :
          timers' = IF \E p \in t : p > 0 THEN timers \cup {next} ELSE timers
    /\ \E g \in Gaps(entry[next]) : gap' = [gap EXCEPT ![next] = g]
    /\ subs' = IF TopicDriven(entry[next]) THEN subs \cup {next} ELSE subs
    /\ next' = next + 1
    /\ UNCHANGED <<place, alive, entry, cb, runVars, portVars>>

Constructed ==
    /\ place = "setup"
    /\ "loader" \in alive
    /\ next \notin Mappings
    /\ place' = "up"
    /\ UNCHANGED <<alive, entry, next, subs, timers, gap, cb, runVars, portVars>>

-----------------------------------------------------------------------------
\* The callbacks.  One runs at a time; the worker may step in between its steps.

\* Mutant: a message that is left out counts as an emission.
MessageDebounced(m) ==
    LET soon == \E t \in lastEmit[m] : now - t < gap[m]
    IN  /\ place = "up" /\ cb = Idle /\ m \in subs
        /\ IF gap[m] > 0 THEN lastEmit' = [lastEmit EXCEPT ![m] = {now}]
                         ELSE UNCHANGED lastEmit
        /\ IF soon THEN UNCHANGED <<cb, heard, emitted>>
           ELSE /\ \E n \in 0 .. MaxCallback : cb' = Lines(n)
                /\ heard' = heard \cup {m}
                /\ emitted' = IF gap[m] > 0 THEN [emitted EXCEPT ![m] = {now}] ELSE emitted
        /\ UNCHANGED <<setupVars, clockVars, reported, reportVars, portVars, tfVars>>

\* Mutant: last_emit is kept only for a message that yields lines.
MessageKeepsLate(m) ==
    LET soon == \E t \in lastEmit[m] : now - t < gap[m]
    IN  /\ place = "up" /\ cb = Idle /\ m \in subs /\ ~soon
        /\ \E n \in 0 .. MaxCallback :
              /\ cb' = Lines(n)
              /\ lastEmit' = IF gap[m] > 0 /\ n > 0 THEN [lastEmit EXCEPT ![m] = {now}]
                             ELSE lastEmit
        /\ emitted' = IF gap[m] > 0 THEN [emitted EXCEPT ![m] = {now}] ELSE emitted
        /\ heard' = heard \cup {m}
        /\ UNCHANGED <<setupVars, clockVars, reported, reportVars, portVars, tfVars>>

\* A message arrives: it is left out if the last emission was less than min_gap ago or
\* lies in the future; otherwise it is translated.
Message(m) ==
    /\ place = "up" /\ cb = Idle /\ m \in subs
    /\ \A t \in lastEmit[m] : now - t >= gap[m]
    /\ IF gap[m] > 0
       THEN /\ lastEmit' = [lastEmit EXCEPT ![m] = {now}]
            /\ emitted' = [emitted EXCEPT ![m] = {now}]
       ELSE UNCHANGED throttleVars
    /\ \E n \in 0 .. MaxCallback : cb' = Lines(n)
    /\ heard' = heard \cup {m}
    /\ UNCHANGED <<setupVars, clockVars, reported, reportVars, portVars, tfVars>>

TfTimer(m) ==
    /\ place = "up" /\ cb = Idle /\ m \in timers
    /\ entry[m].class = "tf" /\ entry[m].frames
    /\ Report(m)
    /\ reported' = [reported EXCEPT ![m] = transform[m]]
    /\ cb' = Lines(1)
    /\ heard' = heard \cup {m}
    /\ UNCHANGED <<setupVars, throttleVars, clockVars, reportVars, portVars>>

CustomTimer(m) ==
    /\ place = "up" /\ cb = Idle /\ m \in timers
    /\ entry[m].class = "both"
    /\ \E n \in 0 .. MaxCallback : cb' = Lines(n)
    /\ UNCHANGED <<setupVars, throttleVars, clockVars, pointVars, reportVars, portVars, tfVars>>

EnqueueLine ==
    /\ cb.kind = "lines"
    /\ Put
    /\ cb' = Lines(cb.left - 1)
    /\ UNCHANGED <<setupVars, runVars>>

EnqueueRefused ==
    /\ cb.kind = "lines"
    /\ depth >= MaxQueue
    /\ cb' = [kind |-> "full", left |-> cb.left]
    /\ refused' = TRUE
    /\ UNCHANGED <<setupVars, throttleVars, clockVars, pointVars, level, portVars, tfVars>>

\* The error is recorded, and the line dropped.
DropLine ==
    /\ cb.kind = "full"
    /\ Complain
    /\ cb' = Lines(cb.left - 1)
    /\ UNCHANGED <<setupVars, runVars>>

\* publish_diagnostics() reads one gauge after the other.
StartReport ==
    /\ place = "up" /\ cb = Idle
    /\ cb' = [kind |-> "report"]
    /\ UNCHANGED <<setupVars, runVars, portVars>>

ReadDepth ==
    /\ cb.kind = "report"
    /\ cb' = [kind |-> "depth", d |-> depth]
    /\ UNCHANGED <<setupVars, runVars, portVars>>

ReadBacklog ==
    /\ cb.kind = "depth"
    /\ cb' = [kind |-> "backlog", d |-> cb.d, b |-> backlog]
    /\ UNCHANGED <<setupVars, runVars, portVars>>

\* Mutant: the error is not looked at.
PublishWithoutError ==
    /\ cb.kind = "backlog"
    /\ level' = Level(cb.d, cb.b, "none")
    /\ cb' = Idle
    /\ UNCHANGED <<setupVars, throttleVars, clockVars, pointVars, refused, portVars, tfVars>>

Publish ==
    /\ cb.kind = "backlog"
    /\ level' = Level(cb.d, cb.b, error)
    /\ cb' = Idle
    /\ UNCHANGED <<setupVars, throttleVars, clockVars, pointVars, refused, portVars, tfVars>>

Callback ==
    \/ EnqueueLine \/ EnqueueRefused \/ DropLine
    \/ ReadDepth \/ ReadBacklog \/ Publish

-----------------------------------------------------------------------------
\* The worker, the clock and the publishers of transforms.

Worker ==
    /\ \/ Take /\ depth' # depth /\ UNCHANGED refused
       \/ Succeed /\ refused' = FALSE
       \/ (Fail \/ Recount) /\ UNCHANGED refused
    /\ UNCHANGED <<setupVars, throttleVars, cb, clockVars, pointVars, level, tfVars>>

Tick ==
    /\ place = "up"
    /\ now < MaxNow
    /\ now' = now + 1
    /\ UNCHANGED <<setupVars, throttleVars, cb, resets, pointVars, reportVars, portVars, tfVars>>

ClockReset ==
    /\ place = "up"
    /\ resets < MaxResets
    /\ now <= ResetBound
    /\ now' \in 0 .. now - 1
    /\ resets' = resets + 1
    /\ ClearBuffers
    /\ heard' = {}
    /\ UNCHANGED <<setupVars, throttleVars, cb, reported, reportVars, portVars>>

NewTransform(m) ==
    /\ place = "up"
    /\ entry[m].class = "tf"
    /\ Receive(m, now)
    /\ UNCHANGED <<setupVars, throttleVars, cb, clockVars, pointVars, reportVars, portVars>>

-----------------------------------------------------------------------------
\* The destructor, and the unwinding of a constructor that threw.

\* Mutant: the writer is declared after the mappings, and so destroyed before them.
DeclaredWriterLater == <<"loader", "mappings", "writer", "timer", "updater">>

Declared == <<"loader", "writer", "mappings", "timer", "updater">>

NextToDie(x) ==
    /\ place \in {"down", "unwinding"}
    /\ \E i \in 1 .. 5 :
          /\ Declared[i] = x
          /\ x \in alive
          /\ \A j \in i + 1 .. 5 : Declared[j] \notin alive

Stop ==
    /\ place = "up" /\ cb = Idle
    /\ place' = "down"
    /\ UNCHANGED <<alive, entry, next, subs, timers, gap, cb, runVars, portVars>>

DestroyMappings ==
    /\ NextToDie("mappings")
    /\ alive' = alive \ {"mappings"}
    /\ subs' = {}
    /\ timers' = {}
    /\ UNCHANGED <<place, entry, next, gap, cb, runVars, portVars>>

\* ~InfluxWriter sets stop_ and waits for the worker.
StopWriter ==
    /\ NextToDie("writer")
    /\ Close
    /\ UNCHANGED <<setupVars, cb, runVars>>

WriterStopped ==
    /\ NextToDie("writer")
    /\ Closed
    /\ alive' = alive \ {"writer"}
    /\ UNCHANGED <<place, entry, next, subs, timers, gap, cb, runVars>>

DestroyOther ==
    /\ \E x \in {"loader", "timer", "updater"} : NextToDie(x) /\ alive' = alive \ {x}
    /\ UNCHANGED <<place, entry, next, subs, timers, gap, cb, runVars, portVars>>

-----------------------------------------------------------------------------
Init ==
    /\ PortInit
    /\ TfInit
    /\ place = "setup"
    /\ alive = {"mappings", "updater"}
    /\ entry \in [Mappings -> Entries]
    /\ next = 1
    /\ subs = {}
    /\ timers = {}
    /\ gap = [m \in Mappings |-> 0]
    /\ lastEmit = [m \in Mappings |-> {}]
    /\ cb = Idle
    /\ level = "OK"
    /\ now = 0
    /\ resets = 0
    /\ emitted = [m \in Mappings |-> {}]
    /\ reported = [m \in Mappings |-> {}]
    /\ heard = {}
    /\ refused = FALSE

Construction ==
    \/ BuildWriter \/ BuildDiagnostics \/ BuildLoader
    \/ SkipMapping \/ AddMapping \/ AddMappingThrows \/ Constructed

Events == \E m \in Mappings : Message(m) \/ TfTimer(m) \/ CustomTimer(m)

Destruction == Stop \/ DestroyMappings \/ StopWriter \/ WriterStopped \/ DestroyOther

Environment == Worker \/ Tick \/ ClockReset \/ \E m \in Mappings : NewTransform(m)

Next == Construction \/ Events \/ StartReport \/ Callback \/ Destruction \/ Environment

Spec == Init /\ [][Next]_vars

\* The executor finishes the callback it runs, and looks at ready timers before it
\* looks at messages; the clock goes on.  Of the environment it is assumed that topics
\* keep sending and transforms keep being published, or nobody could be heard.
FairSpec ==
    /\ Spec
    /\ WF_vars(Callback)
    /\ SF_vars(StartReport)
    /\ WF_vars(Tick)
    /\ \A m \in Mappings :
          SF_vars(Message(m)) /\ SF_vars(TfTimer(m)) /\ WF_vars(NewTransform(m))

-----------------------------------------------------------------------------
\* Properties.

Optional(S) == {{}} \cup {{x} : x \in S}

\* The types, and the constructor's order: nothing is subscribed before the loader
\* and the writer exist, and a mapping not yet reached has no timer, gap or history.
NodeTypeOK ==
    /\ port \in {"closed", "open", "closing"} /\ (port # "closed" <=> "writer" \in alive)
    /\ depth \in 0 .. MaxQueue
    /\ backlog \in BOOLEAN
    /\ error \in {"none", "full", "send"}
    /\ transform \in [Mappings -> Optional(0 .. MaxNow)]
    /\ lastStamp \in [Mappings -> Optional(0 .. MaxNow)]
    /\ place \in {"setup", "up", "down", "unwinding"}
    /\ alive \subseteq {"loader", "writer", "mappings", "timer", "updater"}
    /\ entry \in [Mappings -> Entries]
    /\ next \in 1 .. NMappings + 1
    /\ subs \subseteq 1 .. next - 1
    /\ timers \subseteq 1 .. next - 1
    /\ gap \in [Mappings -> 0 .. IntMax]
    /\ lastEmit \in [Mappings -> Optional(0 .. MaxNow)]
    /\ cb \in {Idle, [kind |-> "report"]}
              \cup [kind : {"lines", "full"}, left : 1 .. MaxCallback + 1]
              \cup [kind : {"depth"}, d : 0 .. MaxQueue]
              \cup [kind : {"backlog"}, d : 0 .. MaxQueue, b : BOOLEAN]
    /\ level \in {"OK", "WARN", "ERROR"}
    /\ now \in 0 .. MaxNow
    /\ resets \in 0 .. MaxResets
    /\ emitted \in [Mappings -> Optional(0 .. MaxNow)]
    /\ reported \in [Mappings -> Optional(0 .. MaxNow)]
    /\ heard \subseteq Mappings
    /\ refused \in BOOLEAN

\* A callback captures the node and calls writer_->enqueue(); its code and its
\* translator's come from a library of the loader.  As long as one can be called, or
\* runs, the writer is open and the loader holds the library: in the destructor, and
\* when the constructor throws at any of the mappings.
CallbacksFindTheirTargets ==
    subs \cup timers # {} \/ cb.kind \in {"lines", "full"} =>
        port = "open" /\ {"writer", "loader"} \subseteq alive

\* What a mapping has once its entry is taken.  The gap is the interval to the nearest
\* nanosecond, halves rounded up, if it fits an int64_t.  One that does not fit, of a rate
\* near zero, is the longest gap or, on x86, one nanosecond: no throttling at all.
Rounded(g, i) ==
    IF i > 2 * IntMax THEN g \in {1, IntMax}
    ELSE IF i = 0 THEN g = 1 ELSE 2 * g - i \in {0, 1}
Honoured(m) ==
    LET e == entry[m]
    IN  /\ m \in subs <=> e.class \in {"msg", "both"} /\ e.topic = "good"
        /\ m \in timers => e.class = "tf" \/ (m \in subs /\ \E p \in e.period : p > 0)
        /\ e.class = "both" /\ m \in subs /\ (\E p \in e.period : p > 0) => m \in timers
        /\ m \notin subs \/ e.interval = {} => gap[m] = 0
        /\ m \in subs /\ e.interval # {} => \E i \in e.interval : Rounded(gap[m], i)

\* Every entry of the configuration is accounted for, however construction ends.  Those
\* before next have what they ask for, whatever stands beside them, for as long as the
\* mappings live, through unwinding too, and one that was left out left nothing behind.
\* The constructor is only left early, taking the entries before and after with it, at an
\* entry that throws; a node that is up, or was, has taken all of them.  (What is asked
\* for by no translator at all is another matter: see DefaultTranslatorFound.)
EveryEntryAccounted ==
    /\ \A m \in 1 .. next - 1 :
          ~Throws(entry[m]) /\ ("mappings" \in alive => Honoured(m))
    /\ place = "unwinding" => next \in Mappings /\ Throws(entry[next])
    /\ place \in {"up", "down"} => next = NMappings + 1

\* "When the `translator` field is empty, the bridge resolves a default translator based
\* on the message type": a topic whose entry names no translator is subscribed.
DefaultTranslatorFound ==
    place = "up" =>
        \A m \in Mappings : entry[m].class = "" /\ entry[m].topic = "good" => m \in subs

\* "Maximum frequency (Hz) at which messages from this topic are processed": messages
\* of a throttled topic are processed at least min_gap apart on the node's clock,
\* whether or not they yield lines, the queue takes them or the clock is set back.  This
\* is the rate of max_rate where its interval fits an int64_t (Rounded), not beyond.
EmissionsSpaced ==
    [][\A m \in Mappings : Message(m) /\ gap[m] > 0 =>
          \A t \in emitted[m], u \in emitted'[m] : u - t >= gap[m]]_vars

\* No transform is reported twice: the stamps of a translator's points increase even
\* over resets of the clock, so that no point overwrites another.
StampsIncrease ==
    [][\A m \in Mappings : TfTimer(m) =>
          \A s \in reported[m], t \in reported'[m] : s < t]_vars

\* After the clock was set back a throttled topic and a TF mapping fall silent, as what
\* they compare with lies in the future, but not for good: everybody is heard again
\* once the clock has caught up.
Audible(m) ==
    /\ m \in subs \/ (m \in timers /\ entry[m].class = "tf" /\ entry[m].frames)
    /\ ResetBound + gap[m] <= MaxNow
HeardAgain ==
    \A m \in Mappings :
        place = "up" /\ Audible(m) /\ m \notin heard ~> m \in heard \/ place # "up"

\* Dropped lines show: if a line was refused and no upload succeeds any more, the
\* diagnostics, which read their gauges at different moments, end up reporting it.
AlarmHolds == <>[](refused /\ place = "up") => <>[](level # "OK")
=============================================================================
