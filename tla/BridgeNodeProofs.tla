--------------------------- MODULE BridgeNodeProofs ---------------------------
(***************************************************************************)
(* Theorems about BridgeNode, for any list of mappings, any clock and any  *)
(* size of the queue.                                                      *)
(***************************************************************************)
EXTENDS BridgeNode, TLAPS

\* Why callbacks find their targets: what can be called exists only between the end of
\* BuildLoader and DestroyMappings, and the writer is open all that time.
Targets == {"loader", "writer", "mappings"}
Lifetimes ==
    /\ subs # {} \/ timers # {} \/ place = "up" => Targets \subseteq alive /\ port = "open"
    /\ cb.kind \in {"lines", "full"} => place = "up"
    /\ cb # Idle => place = "up" \/ (place = "setup" /\ "loader" \notin alive)
    /\ place = "setup" => "mappings" \in alive /\ port # "closing"
    /\ place = "setup" => /\ "loader" \in alive => "timer" \in alive
                          /\ "timer" \in alive => "writer" \in alive
    /\ port = "closed" <=> "writer" \notin alive
    /\ port \in {"closed", "open", "closing"}

\* What a throttled topic and a TF translator remember is what happened last.
Memories ==
    /\ emitted = lastEmit /\ DOMAIN lastEmit = Mappings
    /\ reported = lastStamp /\ DOMAIN lastStamp = Mappings
    /\ DOMAIN transform = Mappings
    /\ \A m \in Mappings : \A s, t \in transform[m] : s = t

NodeInv == Lifetimes /\ Memories

-----------------------------------------------------------------------------
LEMMA Kinds ==
    /\ Idle.kind = "idle"
    /\ \A n : Lines(n) = Idle \/ Lines(n).kind = "lines"
    /\ \A c : c.kind # "idle" => c # Idle
BY DEF Idle, Lines

\* The writer and the loader outlive the mappings.
LEMMA Order ==
    /\ NextToDie("writer") => "mappings" \notin alive /\ place \in {"down", "unwinding"}
    /\ NextToDie("loader") => "mappings" \notin alive /\ place \in {"down", "unwinding"}
    /\ \A x : NextToDie(x) => place \in {"down", "unwinding"}
<1>1. /\ Declared[1] = "loader" /\ Declared[2] = "writer" /\ Declared[3] = "mappings"
      /\ Declared[4] = "timer" /\ Declared[5] = "updater"
  BY DEF Declared
<1>2. ASSUME NEW x \in {"writer", "loader"}, NextToDie(x)
      PROVE  "mappings" \notin alive
  <2>1. PICK i \in 1 .. 5 : Declared[i] = x /\ \A j \in i + 1 .. 5 : Declared[j] \notin alive
    BY <1>2 DEF NextToDie
  <2>2. i \in {1, 2}
    BY <1>1, <2>1
  <2>3. 3 \in i + 1 .. 5
    BY <2>2
  <2>. QED
    BY <1>1, <2>1, <2>3
<1>. QED
  BY <1>2 DEF NextToDie

LEMMA NodeInvInit == Init => NodeInv
BY DEF Init, NodeInv, Lifetimes, Memories, PortInit, TfInit, Idle, Targets

\* The constructor's steps.
LEMMA ConstructionKeeps == NodeInv /\ Construction => NodeInv'
<1> SUFFICES ASSUME NodeInv, Construction PROVE NodeInv'
  OBVIOUS
<1>1. UNCHANGED <<emitted, lastEmit, reported, lastStamp, transform>>
  BY DEF Construction, BuildWriter, BuildDiagnostics, BuildLoader, SkipMapping, AddMapping,
         AddMappingThrows, Constructed, runVars, throttleVars, pointVars, tfVars
<1>2. Memories'
  BY <1>1 DEF NodeInv, Memories
<1>3. Lifetimes
  BY DEF NodeInv
<1>4. ASSUME BuildWriter PROVE Lifetimes'
  BY <1>3, <1>4 DEF Lifetimes, BuildWriter, Open, Targets
<1>5. ASSUME BuildDiagnostics PROVE Lifetimes'
  BY <1>3, <1>5, Kinds DEF Lifetimes, BuildDiagnostics, Targets, portVars
<1>6. ASSUME BuildLoader PROVE Lifetimes'
  BY <1>3, <1>6 DEF Lifetimes, BuildLoader, Targets, portVars
<1>7. ASSUME SkipMapping PROVE Lifetimes'
  BY <1>3, <1>7 DEF Lifetimes, SkipMapping, Adding, Targets, portVars
<1>8. ASSUME AddMapping PROVE Lifetimes'
  BY <1>3, <1>8 DEF Lifetimes, AddMapping, Adding, Targets, portVars
<1>9. ASSUME AddMappingThrows PROVE Lifetimes'
  BY <1>3, <1>9 DEF Lifetimes, AddMappingThrows, Adding, Targets, portVars
<1>10. ASSUME Constructed PROVE Lifetimes'
  BY <1>3, <1>10 DEF Lifetimes, Constructed, Targets, portVars
<1>. QED
  BY <1>2, <1>4, <1>5, <1>6, <1>7, <1>8, <1>9, <1>10 DEF Construction, NodeInv

\* The events of a node that is up.
LEMMA EventsKeep == NodeInv /\ Events => NodeInv'
<1> SUFFICES ASSUME NodeInv, NEW m \in Mappings, Message(m) \/ TfTimer(m) \/ CustomTimer(m)
             PROVE  NodeInv'
  BY DEF Events
<1>1. place = "up" /\ place' = "up" /\ UNCHANGED <<alive, subs, timers, port>>
  BY DEF Message, TfTimer, CustomTimer, setupVars, portVars
<1>2. Lifetimes'
  BY <1>1 DEF NodeInv, Lifetimes
<1>3. ASSUME Message(m) PROVE Memories'
  BY <1>3 DEF NodeInv, Memories, Message, tfVars, throttleVars
<1>4. ASSUME TfTimer(m) PROVE Memories'
  BY <1>4 DEF NodeInv, Memories, TfTimer, Report, throttleVars
<1>5. ASSUME CustomTimer(m) PROVE Memories'
  BY <1>5 DEF NodeInv, Memories, CustomTimer, tfVars, throttleVars, pointVars
<1>6. Memories'
  BY <1>3, <1>4, <1>5
<1>. QED
  BY <1>2, <1>6 DEF NodeInv

\* The steps of the callback that runs.
LEMMA CallbackKeeps == NodeInv /\ (Callback \/ StartReport) => NodeInv'
<1> SUFFICES ASSUME NodeInv, Callback \/ StartReport PROVE NodeInv'
  OBVIOUS
<1>1. UNCHANGED <<emitted, lastEmit, reported, lastStamp, transform>>
  BY DEF Callback, EnqueueLine, EnqueueRefused, DropLine, StartReport, ReadDepth, ReadBacklog,
         Publish, runVars, throttleVars, pointVars, tfVars
<1>2. Memories'
  BY <1>1 DEF NodeInv, Memories
<1>3. UNCHANGED <<place, alive, subs, timers, port>>
  BY DEF Callback, EnqueueLine, EnqueueRefused, DropLine, StartReport, ReadDepth, ReadBacklog,
         Publish, Put, Complain, setupVars, portVars
<1>4. cb'.kind \in {"lines", "full"} => place = "up"
  <2>1. ASSUME EnqueueLine \/ EnqueueRefused \/ DropLine \/ StartReport PROVE place = "up"
    BY <2>1 DEF NodeInv, Lifetimes, EnqueueLine, EnqueueRefused, DropLine, StartReport
  <2>2. ASSUME ReadDepth \/ ReadBacklog \/ Publish PROVE cb'.kind \notin {"lines", "full"}
    BY <2>2 DEF ReadDepth, ReadBacklog, Publish, Idle
  <2>. QED
    BY <2>1, <2>2 DEF Callback
<1>5. cb' # Idle => place = "up" \/ (place = "setup" /\ "loader" \notin alive)
  <2>1. CASE StartReport
    BY <2>1 DEF StartReport
  <2>2. CASE Callback
    <3>1. cb.kind # "idle"
      BY <2>2 DEF Callback, EnqueueLine, EnqueueRefused, DropLine, ReadDepth, ReadBacklog, Publish
    <3>. QED
      BY <3>1, Kinds DEF NodeInv, Lifetimes
  <2>. QED
    BY <2>1, <2>2
<1>6. Lifetimes'
  BY <1>3, <1>4, <1>5 DEF NodeInv, Lifetimes
<1>. QED
  BY <1>2, <1>6 DEF NodeInv

\* The destructor's steps.
LEMMA DestructionKeeps == NodeInv /\ Destruction => NodeInv'
<1> SUFFICES ASSUME NodeInv, Destruction PROVE NodeInv'
  OBVIOUS
<1>1. UNCHANGED <<emitted, lastEmit, reported, lastStamp, transform, cb>>
  BY DEF Destruction, Stop, DestroyMappings, StopWriter, WriterStopped, DestroyOther,
         runVars, throttleVars, pointVars, tfVars
<1>2. Memories'
  BY <1>1 DEF NodeInv, Memories
<1>3. Lifetimes
  BY DEF NodeInv
<1>4. ASSUME Stop PROVE Lifetimes'
  BY <1>1, <1>3, <1>4, Kinds DEF Lifetimes, Stop, portVars
<1>5. ASSUME DestroyMappings PROVE Lifetimes'
  BY <1>1, <1>3, <1>5, Order DEF Lifetimes, DestroyMappings, portVars
<1>6. ASSUME StopWriter PROVE Lifetimes'
  BY <1>1, <1>3, <1>6, Order DEF Lifetimes, StopWriter, Close, setupVars, Targets
<1>7. ASSUME WriterStopped PROVE Lifetimes'
  BY <1>1, <1>3, <1>7, Order DEF Lifetimes, WriterStopped, Closed, Reset, Targets
<1>8. ASSUME DestroyOther PROVE Lifetimes'
  <2>1. PICK x \in {"loader", "timer", "updater"} : NextToDie(x) /\ alive' = alive \ {x}
    BY <1>8 DEF DestroyOther
  <2>2. UNCHANGED <<place, subs, timers, port>>
    BY <1>8 DEF DestroyOther, portVars
  <2>3. place \in {"down", "unwinding"} /\ (x = "loader" => "mappings" \notin alive)
    BY <2>1, Order
  <2>. QED
    BY <1>1, <1>3, <2>1, <2>2, <2>3 DEF Lifetimes, Targets
<1>. QED
  BY <1>2, <1>4, <1>5, <1>6, <1>7, <1>8 DEF Destruction, NodeInv

\* The worker, the clock and the publishers.
LEMMA EnvironmentKeeps == NodeInv /\ Environment => NodeInv'
<1> SUFFICES ASSUME NodeInv, Environment PROVE NodeInv'
  OBVIOUS
<1>1. UNCHANGED <<emitted, lastEmit, reported, lastStamp, cb, place, alive, subs, timers, port>>
  BY DEF Environment, Worker, Tick, ClockReset, NewTransform, Take, Succeed, Fail, Recount,
         Receive, ClearBuffers, setupVars, throttleVars, pointVars, portVars, tfVars
<1>2. Lifetimes'
  BY <1>1 DEF NodeInv, Lifetimes
<1>3. ASSUME Worker \/ Tick PROVE Memories'
  BY <1>1, <1>3 DEF NodeInv, Memories, Worker, Tick, tfVars
<1>4. ASSUME ClockReset PROVE Memories'
  BY <1>1, <1>4 DEF NodeInv, Memories, ClockReset, ClearBuffers
<1>5. ASSUME \E m \in Mappings : NewTransform(m) PROVE Memories'
  BY <1>1, <1>5 DEF NodeInv, Memories, NewTransform, Receive
<1>6. Memories'
  BY <1>3, <1>4, <1>5 DEF Environment
<1>. QED
  BY <1>2, <1>6 DEF NodeInv

LEMMA NodeInvStep == NodeInv /\ [Next]_vars => NodeInv'
<1> SUFFICES ASSUME NodeInv, [Next]_vars PROVE NodeInv'
  OBVIOUS
<1>1. CASE UNCHANGED vars
  BY <1>1 DEF vars, nodeVars, setupVars, throttleVars, pointVars, portVars, tfVars, NodeInv,
              Lifetimes, Memories
<1>. QED
  BY <1>1, ConstructionKeeps, EventsKeep, CallbackKeeps, DestructionKeeps, EnvironmentKeeps
     DEF Next

-----------------------------------------------------------------------------
\* influx_bridge.hpp: members are destroyed in the reverse of their declaration, and every
\* callback finds the writer and its translator's library, also when the constructor throws.
THEOREM TargetsThere == Spec => []CallbacksFindTheirTargets
<1>1. NodeInv => CallbacksFindTheirTargets
  BY DEF NodeInv, Lifetimes, Targets, CallbacksFindTheirTargets
<1>. QED
  BY NodeInvInit, NodeInvStep, <1>1, PTL DEF Spec

\* The subscription callback: max_rate holds between any two emissions.
THEOREM RatesHold == Spec => EmissionsSpaced
<1>1. NodeInv /\ [Next]_vars =>
        [\A m \in Mappings : Message(m) /\ gap[m] > 0 =>
            \A t \in emitted[m], u \in emitted'[m] : u - t >= gap[m]]_vars
  <2> SUFFICES ASSUME NodeInv, NEW m \in Mappings, Message(m), gap[m] > 0,
                      NEW t \in emitted[m], NEW u \in emitted'[m]
               PROVE  u - t >= gap[m]
    OBVIOUS
  <2>1. u = now
    BY DEF NodeInv, Memories, Message
  <2>. QED
    BY <2>1 DEF NodeInv, Memories, Message
<1>. QED
  BY NodeInvInit, NodeInvStep, <1>1, PTL DEF Spec, EmissionsSpaced

\* on_timer(): no two points of a TF mapping have the same stamp.
THEOREM StampsRise == Spec => StampsIncrease
<1>1. NodeInv /\ [Next]_vars =>
        [\A m \in Mappings : TfTimer(m) => \A s \in reported[m], t \in reported'[m] : s < t]_vars
  <2> SUFFICES ASSUME NodeInv, NEW m \in Mappings, TfTimer(m),
                      NEW s \in reported[m], NEW t \in reported'[m]
               PROVE  s < t
    OBVIOUS
  <2>1. t \in transform[m] /\ Fresh(m)
    BY DEF NodeInv, Memories, TfTimer, Report
  <2>. QED
    BY <2>1 DEF NodeInv, Memories, Fresh
<1>. QED
  BY NodeInvInit, NodeInvStep, <1>1, PTL DEF Spec, StampsIncrease
-----------------------------------------------------------------------------
\* The mappings that were added are as their entries say; the others left nothing.
Progress ==
    /\ next \in 1 .. NMappings + 1
    /\ entry \in [Mappings -> Entries]
    /\ subs \subseteq 1 .. next - 1 /\ timers \subseteq 1 .. next - 1
    /\ gap \in [Mappings -> 0 .. IntMax]
    /\ \A m \in Mappings : m >= next => gap[m] = 0
    /\ \A m \in 1 .. next - 1 : ~Throws(entry[m]) /\ ("mappings" \in alive => Honoured(m))
    /\ place = "setup" => "mappings" \in alive
    /\ place = "unwinding" => next \in Mappings /\ Throws(entry[next])
    /\ place \in {"up", "down"} => next = NMappings + 1

\* llround() and the clamp: the nearest nanosecond and at least one, or what a build makes
\* of an interval that does not fit.
LEMMA GapFacts ==
    ASSUME NEW e \in Entries, NEW g \in Gaps(e)
    PROVE  /\ g \in 0 .. IntMax
           /\ TopicDriven(e) /\ e.interval # {} => \E i \in e.interval : Rounded(g, i)
           /\ ~(TopicDriven(e) /\ e.interval # {}) => g = 0
<1>1. e.interval \subseteq Nat
  BY NodeAssumption DEF Entry
<1>2. CASE TopicDriven(e) /\ e.interval # {}
  <2>1. PICK i \in e.interval : g \in MinGap(i)
    BY <1>2 DEF Gaps
  <2>2. PICK x \in ToInt64((i + 1) \div 2) : g = IF x <= 0 THEN 1 ELSE x
    BY <2>1 DEF MinGap
  <2>3. i \in Nat /\ (i + 1) \div 2 \in Nat /\ 2 * ((i + 1) \div 2) - i \in {0, 1}
    BY <1>1
  <2>4. x \in Int /\ x <= IntMax
    BY <2>2, <2>3, TfAssumption DEF ToInt64
  <2>5. g \in 1 .. IntMax
    BY <2>2, <2>4, TfAssumption
  <2>6. CASE i > 2 * IntMax
    <3>1. x \in {-IntMax - 1, IntMax}
      BY <2>2, <2>3, <2>6, TfAssumption DEF ToInt64
    <3>2. g \in {1, IntMax}
      BY <2>2, <3>1, TfAssumption
    <3>. QED
      BY <1>2, <2>5, <2>6, <3>2 DEF Rounded
  <2>7. CASE i <= 2 * IntMax
    <3>1. x = (i + 1) \div 2
      BY <2>2, <2>3, <2>7, TfAssumption DEF ToInt64
    <3>2. Rounded(g, i)
      BY <2>2, <2>3, <2>5, <2>7, <3>1, TfAssumption DEF Rounded
    <3>. QED
      BY <1>2, <2>5, <3>2
  <2>. QED
    BY <2>3, <2>6, <2>7, TfAssumption
<1>3. CASE ~(TopicDriven(e) /\ e.interval # {})
  BY <1>3, TfAssumption DEF Gaps
<1>. QED
  BY <1>2, <1>3

LEMMA ProgressInit == Init => Progress
BY TfAssumption DEF Init, Progress, Mappings

LEMMA ProgressStep == Progress /\ [Next]_vars => Progress'
<1> SUFFICES ASSUME Progress, [Next]_vars PROVE Progress'
  OBVIOUS
<1>1. ASSUME UNCHANGED <<place, entry, next, subs, timers, gap>>,
             "mappings" \in alive' <=> "mappings" \in alive
      PROVE  Progress'
  BY <1>1 DEF Progress, Honoured
<1>2. CASE SkipMapping
  <2>1. next \in Mappings /\ place = "setup" /\ Skipped(entry[next]) /\ next' = next + 1
    BY <1>2 DEF SkipMapping, Adding
  <2>2. UNCHANGED <<place, alive, entry, subs, timers, gap>>
    BY <1>2 DEF SkipMapping
  <2>3. next \notin subs /\ next \notin timers /\ gap[next] = 0 /\ next \in Nat
    BY <2>1, TfAssumption DEF Progress, Mappings
  <2>4. Honoured(next)
    <3>1. gap[next] = 0 /\ next \notin subs /\ next \notin timers
      BY <2>3
    <3>2. ~(entry[next].class \in {"msg", "both"} /\ entry[next].topic = "good")
      BY <2>1 DEF Skipped, TopicDriven
    <3>. QED
      BY <3>1, <3>2 DEF Honoured
  <2>5. \A m \in 1 .. next : ~Throws(entry[m]) /\ Honoured(m)
    <3>1. ~Throws(entry[next])
      BY <2>1 DEF Skipped, Throws, PluginThrows, SubscriptionThrows, TopicDriven
    <3>. QED
      BY <2>1, <2>3, <2>4, <3>1 DEF Progress
  <2>6. \A m \in 1 .. next' - 1 : ~Throws(entry'[m]) /\ Honoured(m)'
    <3> SUFFICES ASSUME NEW m \in 1 .. next' - 1 PROVE ~Throws(entry'[m]) /\ Honoured(m)'
      OBVIOUS
    <3>1. Honoured(m) /\ ~Throws(entry[m])
      BY <2>1, <2>3, <2>5
    <3>. QED
      BY <2>2, <3>1 DEF Honoured
  <2>7. /\ next' \in 1 .. NMappings + 1
        /\ subs' \subseteq 1 .. next' - 1 /\ timers' \subseteq 1 .. next' - 1
    BY <2>1, <2>2, <2>3, TfAssumption DEF Progress, Mappings
  <2>8. \A m \in Mappings : m >= next' => gap'[m] = 0
    BY <2>1, <2>2, <2>3 DEF Progress, Mappings
  <2>. QED
    BY <2>1, <2>2, <2>6, <2>7, <2>8 DEF Progress
<1>3. CASE AddMapping
  <2> DEFINE e == entry[next]
  <2>1. next \in Mappings /\ place = "setup" /\ ~Skipped(e) /\ ~Throws(e) /\ next' = next + 1
    BY <1>3 DEF AddMapping, Adding
  <2>2. UNCHANGED <<place, alive, entry>>
    BY <1>3 DEF AddMapping
  <2>3. subs' = IF TopicDriven(e) THEN subs \cup {next} ELSE subs
    BY <1>3 DEF AddMapping
  <2>4. PICK t \in TimerPeriods(e) :
            timers' = IF \E p \in t : p > 0 THEN timers \cup {next} ELSE timers
    BY <1>3 DEF AddMapping
  <2>5. PICK g \in Gaps(e) : gap' = [gap EXCEPT ![next] = g]
    BY <1>3 DEF AddMapping
  <2>6. e \in Entries /\ next \in Nat /\ next >= 1 /\ next <= NMappings
    BY <2>1, TfAssumption DEF Progress, Mappings
  <2>7. /\ g \in 0 .. IntMax
        /\ TopicDriven(e) /\ e.interval # {} => \E i \in e.interval : Rounded(g, i)
        /\ ~(TopicDriven(e) /\ e.interval # {}) => g = 0
    BY <2>5, <2>6, GapFacts
  <2>8. next \notin subs /\ next \notin timers
    BY <2>6 DEF Progress
  <2>9. ASSUME NEW k, k = next PROVE Honoured(k)'
    <3>1. gap'[k] = g
      BY <2>1, <2>5, <2>9 DEF Progress
    <3>2. k \in subs' <=> TopicDriven(e)
      BY <2>3, <2>8, <2>9
    <3>3. k \in timers' <=> \E p \in t : p > 0
      BY <2>4, <2>8, <2>9
    <3>4. e.class = "both" => t = e.period
      BY <2>4 DEF TimerPeriods
    <3>5. e.class \notin {"both", "tf"} => t = {}
      BY <2>4 DEF TimerPeriods
    <3>6. TopicDriven(e) => e.topic = "good"
      BY <2>1, <2>6, NodeAssumption DEF Skipped, Throws, SubscriptionThrows, Entry
    <3>7. entry'[k] = e
      BY <2>2, <2>9
    <3> HIDE DEF e
    <3>8. k \in subs' <=> e.class \in {"msg", "both"} /\ e.topic = "good"
      BY <3>2, <3>6 DEF TopicDriven
    <3>9. /\ k \notin subs' \/ e.interval = {} => gap'[k] = 0
          /\ k \in subs' /\ e.interval # {} => \E i \in e.interval : Rounded(gap'[k], i)
      BY <2>7, <3>1, <3>2
    <3>10. k \in timers' => e.class = "tf" \/ (k \in subs' /\ \E p \in e.period : p > 0)
      BY <3>2, <3>3, <3>4, <3>5 DEF TopicDriven
    <3>11. e.class = "both" /\ k \in subs' /\ (\E p \in e.period : p > 0) => k \in timers'
      BY <3>3, <3>4
    <3>. QED
      BY <3>7, <3>8, <3>9, <3>10, <3>11 DEF Honoured
  <2>10. \A m \in Mappings : m # next =>
            gap'[m] = gap[m] /\ (m \in subs' <=> m \in subs) /\ (m \in timers' <=> m \in timers)
    BY <2>3, <2>4, <2>5 DEF Progress
  <2>11. ASSUME NEW m \in 1 .. next - 1 PROVE ~Throws(entry'[m]) /\ Honoured(m)'
    <3>1. m \in Mappings /\ m # next /\ Honoured(m) /\ ~Throws(entry[m])
      BY <2>1, <2>6, TfAssumption DEF Progress, Mappings
    <3>2. Honoured(m)'
      BY <2>2, <2>10, <3>1 DEF Honoured
    <3>. QED
      BY <2>2, <3>1, <3>2
  <2>12. \A m \in 1 .. next' - 1 : ~Throws(entry'[m]) /\ Honoured(m)'
    <3> SUFFICES ASSUME NEW m \in 1 .. next' - 1 PROVE ~Throws(entry'[m]) /\ Honoured(m)'
      OBVIOUS
    <3>1. m \in 1 .. next - 1 \/ m = next
      BY <2>1, <2>6
    <3>2. ~Throws(entry'[next])
      BY <2>1, <2>2
    <3>. QED
      BY <2>9, <2>11, <3>1, <3>2
  <2>13. gap' \in [Mappings -> 0 .. IntMax]
    BY <2>5, <2>7 DEF Progress
  <2>14. \A m \in Mappings : m >= next' => gap'[m] = 0
    <3>1. \A m \in Mappings : m >= next' => m # next /\ m >= next
      BY <2>1, <2>6, TfAssumption DEF Mappings
    <3>. QED
      BY <2>10, <3>1 DEF Progress
  <2>15. /\ next' \in 1 .. NMappings + 1
         /\ subs' \subseteq 1 .. next' - 1 /\ timers' \subseteq 1 .. next' - 1
    BY <2>1, <2>3, <2>4, <2>6, TfAssumption DEF Progress
  <2>. QED
    BY <2>1, <2>2, <2>12, <2>13, <2>14, <2>15 DEF Progress
<1>4. CASE Constructed
  <2>1. place = "setup" /\ place' = "up" /\ next \notin Mappings
        /\ UNCHANGED <<alive, entry, next, subs, timers, gap>>
    BY <1>4 DEF Constructed
  <2>2. next = NMappings + 1
    BY <2>1, TfAssumption DEF Progress, Mappings
  <2>3. \A m \in 1 .. next' - 1 : ~Throws(entry'[m]) /\ ("mappings" \in alive' => Honoured(m)')
    BY <2>1 DEF Progress, Honoured
  <2>. QED
    BY <2>1, <2>2, <2>3 DEF Progress
<1>5. CASE AddMappingThrows
  <2>1. /\ next \in Mappings /\ Throws(entry[next]) /\ place' = "unwinding"
        /\ UNCHANGED <<alive, entry, next, subs, timers, gap>>
    BY <1>5 DEF AddMappingThrows, Adding
  <2>2. \A m \in 1 .. next' - 1 : ~Throws(entry'[m]) /\ ("mappings" \in alive' => Honoured(m)')
    BY <2>1 DEF Progress, Honoured
  <2>. QED
    BY <2>1, <2>2 DEF Progress
<1>11. CASE Stop
  <2>1. place = "up" /\ place' = "down" /\ UNCHANGED <<alive, entry, next, subs, timers, gap>>
    BY <1>11 DEF Stop
  <2>2. \A m \in 1 .. next' - 1 : ~Throws(entry'[m]) /\ ("mappings" \in alive' => Honoured(m)')
    BY <2>1 DEF Progress, Honoured
  <2>. QED
    BY <2>1, <2>2 DEF Progress
<1>12. CASE DestroyMappings
  <2>1. /\ place \in {"down", "unwinding"} /\ "mappings" \notin alive'
        /\ UNCHANGED <<place, entry, next, gap>> /\ subs' = {} /\ timers' = {}
    BY <1>12 DEF DestroyMappings, NextToDie
  <2>. QED
    BY <2>1 DEF Progress
<1>6. CASE UNCHANGED vars
  BY <1>1, <1>6 DEF vars, nodeVars, setupVars
<1>7. CASE BuildWriter \/ BuildDiagnostics \/ BuildLoader
  BY <1>1, <1>7 DEF BuildWriter, BuildDiagnostics, BuildLoader
<1>8. CASE Events \/ StartReport \/ Callback
  BY <1>1, <1>8 DEF Events, Message, TfTimer, CustomTimer, StartReport, Callback, EnqueueLine,
                    EnqueueRefused, DropLine, ReadDepth, ReadBacklog, Publish, setupVars
<1>9. CASE StopWriter \/ WriterStopped \/ DestroyOther
  BY <1>1, <1>9 DEF StopWriter, WriterStopped, DestroyOther, setupVars
<1>10. CASE Environment
  BY <1>1, <1>10 DEF Environment, Worker, Tick, ClockReset, NewTransform, setupVars
<1>. QED
  BY <1>2, <1>3, <1>4, <1>5, <1>6, <1>7, <1>8, <1>9, <1>10, <1>11, <1>12
  DEF Next, Construction, Destruction

\* The constructor and add_mapping_from_params(): entries before the one that is added have
\* what they ask for, however construction ends, and only an entry that throws ends it early.
THEOREM EntriesAccountedFor == Spec => []EveryEntryAccounted
<1>1. Progress => EveryEntryAccounted
  BY DEF Progress, EveryEntryAccounted
<1>. QED
  BY ProgressInit, ProgressStep, <1>1, PTL DEF Spec
-----------------------------------------------------------------------------
\* Type correctness, group by group.
Stamps == Optional(0 .. MaxNow)
PortTypes ==
    /\ depth \in 0 .. MaxQueue
    /\ backlog \in BOOLEAN
    /\ error \in {"none", "full", "send"}
TimeTypes ==
    /\ now \in 0 .. MaxNow
    /\ resets \in 0 .. MaxResets
    /\ transform \in [Mappings -> Stamps] /\ lastStamp \in [Mappings -> Stamps]
    /\ lastEmit \in [Mappings -> Stamps] /\ emitted \in [Mappings -> Stamps]
    /\ reported \in [Mappings -> Stamps]
    /\ heard \subseteq Mappings
Frames ==
    {Idle, [kind |-> "report"]}
    \cup [kind : {"lines", "full"}, left : 1 .. MaxCallback + 1]
    \cup [kind : {"depth"}, d : 0 .. MaxQueue]
    \cup [kind : {"backlog"}, d : 0 .. MaxQueue, b : BOOLEAN]
FrameTypes ==
    /\ cb \in Frames
    /\ level \in {"OK", "WARN", "ERROR"}
    /\ refused \in BOOLEAN
LifeTypes ==
    /\ place \in {"setup", "up", "down", "unwinding"}
    /\ alive \subseteq {"loader", "writer", "mappings", "timer", "updater"}

NodeTypes == NodeInv /\ Progress /\ PortTypes /\ TimeTypes /\ FrameTypes /\ LifeTypes

LEMMA NodeTypesSuffice == NodeTypes => NodeTypeOK
BY DEF NodeTypes, NodeInv, Lifetimes, Progress, PortTypes, TimeTypes, FrameTypes, LifeTypes,
       Frames, Stamps, NodeTypeOK

LEMMA StampFacts ==
    /\ {} \in Stamps
    /\ now \in 0 .. MaxNow => {now} \in Stamps
BY DEF Stamps, Optional

LEMMA LinesFacts ==
    ASSUME NEW n \in 0 .. MaxCallback + 1
    PROVE  Lines(n) \in Frames
BY NodeAssumption DEF Lines, Frames

LEMMA NodeTypesInit == Init => NodeTypes
<1> SUFFICES ASSUME Init PROVE NodeTypes
  OBVIOUS
<1>1. PortTypes
  <2>1. depth = 0 /\ backlog = FALSE /\ error = "none"
    BY DEF Init, PortInit
  <2>2. MaxQueue \in Nat
    BY NodeAssumption
  <2>3. depth \in 0 .. MaxQueue
    BY <2>1, <2>2
  <2>4. backlog \in BOOLEAN /\ error \in {"none", "full", "send"}
    BY <2>1
  <2>. QED
    BY <2>3, <2>4 DEF PortTypes
<1>2. TimeTypes
  BY NodeAssumption, StampFacts DEF Init, TfInit, TimeTypes
<1>3. FrameTypes /\ LifeTypes
  BY DEF Init, FrameTypes, Frames, LifeTypes
<1>. QED
  BY <1>1, <1>2, <1>3, NodeInvInit, ProgressInit DEF NodeTypes

LEMMA PortTypesStep == NodeTypes /\ [Next]_vars => PortTypes'
<1> SUFFICES ASSUME NodeTypes, [Next]_vars PROVE PortTypes'
  OBVIOUS
<1>1. PortTypes
  BY DEF NodeTypes
<1>2. CASE UNCHANGED portVars
  BY <1>1, <1>2 DEF PortTypes, portVars
<1>3. CASE Open \/ Put \/ Complain \/ Take \/ Succeed \/ Fail \/ Recount \/ Close \/ Reset
  <2>1. MaxQueue \in Nat /\ depth \in 0 .. MaxQueue
    BY <1>1, NodeAssumption DEF PortTypes
  <2>2. CASE Put \/ Take
    BY <1>1, <2>1, <2>2 DEF PortTypes, Put, Take
  <2>3. CASE Open \/ Complain \/ Succeed \/ Fail \/ Recount \/ Close
    BY <1>1, <2>3 DEF PortTypes, Open, Complain, Succeed, Fail, Recount, Close
  <2>4. CASE Reset
    <3>1. depth' = 0 /\ backlog' = FALSE /\ error' = "none"
      BY <2>4 DEF Reset
    <3>2. depth' \in 0 .. MaxQueue
      BY <2>1, <3>1
    <3>3. backlog' \in BOOLEAN /\ error' \in {"none", "full", "send"}
      BY <3>1
    <3>. QED
      BY <3>2, <3>3 DEF PortTypes
  <2>. QED
    BY <1>3, <2>2, <2>3, <2>4
<1>4. CASE Construction
  BY <1>2, <1>3, <1>4 DEF Construction, BuildWriter, BuildDiagnostics, BuildLoader, SkipMapping,
                          AddMapping, AddMappingThrows, Constructed
<1>5. CASE Events \/ StartReport
  BY <1>2, <1>5 DEF Events, Message, TfTimer, CustomTimer, StartReport
<1>6. CASE Callback
  BY <1>2, <1>3, <1>6 DEF Callback, EnqueueLine, EnqueueRefused, DropLine, ReadDepth,
                          ReadBacklog, Publish
<1>7. CASE Destruction
  BY <1>2, <1>3, <1>7 DEF Destruction, Stop, DestroyMappings, StopWriter, WriterStopped, Closed,
                          DestroyOther
<1>8. CASE Environment
  BY <1>2, <1>3, <1>8 DEF Environment, Worker, Tick, ClockReset, NewTransform
<1>9. CASE UNCHANGED vars
  BY <1>2, <1>9 DEF vars
<1>. QED
  BY <1>4, <1>5, <1>6, <1>7, <1>8, <1>9 DEF Next

LEMMA TimeTypesStep == NodeTypes /\ [Next]_vars => TimeTypes'
<1> SUFFICES ASSUME NodeTypes, [Next]_vars PROVE TimeTypes'
  OBVIOUS
<1>1. TimeTypes /\ now \in Nat
  BY NodeAssumption DEF NodeTypes, TimeTypes
<1>2. CASE UNCHANGED <<throttleVars, clockVars, pointVars, tfVars>>
  BY <1>1, <1>2 DEF TimeTypes, throttleVars, clockVars, pointVars, tfVars
<1>3. CASE Events
  <2>1. PICK m \in Mappings : Message(m) \/ TfTimer(m) \/ CustomTimer(m)
    BY <1>3 DEF Events
  <2>2. CASE Message(m)
    BY <1>1, <2>2, StampFacts DEF TimeTypes, Message, throttleVars, clockVars, tfVars
  <2>3. CASE TfTimer(m)
    BY <1>1, <2>3 DEF TimeTypes, TfTimer, Report, throttleVars, clockVars
  <2>4. CASE CustomTimer(m)
    BY <1>2, <2>4 DEF CustomTimer
  <2>. QED
    BY <2>1, <2>2, <2>3, <2>4
<1>4. CASE Tick
  <2>1. now' \in 0 .. MaxNow
    BY <1>1, <1>4, NodeAssumption DEF Tick
  <2>. QED
    BY <1>1, <1>4, <2>1 DEF TimeTypes, Tick, throttleVars, pointVars, tfVars
<1>5. CASE ClockReset
  <2>1. now' \in 0 .. MaxNow /\ resets' \in 0 .. MaxResets
    BY <1>1, <1>5, NodeAssumption DEF TimeTypes, ClockReset
  <2>2. transform' \in [Mappings -> Stamps]
    BY <1>5, StampFacts DEF ClockReset, ClearBuffers
  <2>. QED
    BY <1>1, <1>5, <2>1, <2>2 DEF TimeTypes, ClockReset, ClearBuffers, throttleVars
<1>6. CASE \E m \in Mappings : NewTransform(m)
  BY <1>1, <1>6, StampFacts DEF TimeTypes, NewTransform, Receive, throttleVars, clockVars, pointVars
<1>7. CASE Construction
  BY <1>2, <1>7 DEF Construction, BuildWriter, BuildDiagnostics, BuildLoader, SkipMapping,
                    AddMapping, AddMappingThrows, Constructed, runVars
<1>8. CASE StartReport \/ Callback
  BY <1>2, <1>8 DEF StartReport, Callback, EnqueueLine, EnqueueRefused, DropLine, ReadDepth,
                    ReadBacklog, Publish, runVars
<1>9. CASE Destruction
  BY <1>2, <1>9 DEF Destruction, Stop, DestroyMappings, StopWriter, WriterStopped,
                    DestroyOther, runVars
<1>10. CASE Worker \/ UNCHANGED vars
  BY <1>2, <1>10 DEF Worker, vars, nodeVars
<1>. QED
  BY <1>3, <1>4, <1>5, <1>6, <1>7, <1>8, <1>9, <1>10 DEF Next, Environment

LEMMA FrameTypesStep == NodeTypes /\ [Next]_vars => FrameTypes'
<1> SUFFICES ASSUME NodeTypes, [Next]_vars PROVE FrameTypes'
  OBVIOUS
<1>1. FrameTypes /\ PortTypes
  BY DEF NodeTypes
<1>2. CASE UNCHANGED <<cb, reportVars>>
  BY <1>1, <1>2 DEF FrameTypes, reportVars
<1>3. CASE cb' \in Frames /\ UNCHANGED reportVars
  BY <1>1, <1>3 DEF FrameTypes, reportVars
<1>4. \A n \in 0 .. MaxCallback : Lines(n) \in Frames
  BY LinesFacts, NodeAssumption
<1>5. CASE Events
  <2>1. PICK m \in Mappings : Message(m) \/ TfTimer(m) \/ CustomTimer(m)
    BY <1>5 DEF Events
  <2>2. Lines(1) \in Frames
    BY LinesFacts, NodeAssumption
  <2>. QED
    BY <1>3, <1>4, <2>1, <2>2 DEF Message, TfTimer, CustomTimer
<1>6. CASE BuildDiagnostics \/ StartReport
  BY <1>3, <1>6 DEF BuildDiagnostics, StartReport, Frames, runVars
<1>7. ASSUME cb.kind \in {"lines", "full"}
      PROVE  cb.left \in 1 .. MaxCallback + 1
  BY <1>1, <1>7 DEF FrameTypes, Frames, Idle
<1>8. CASE EnqueueLine \/ DropLine
  <2>1. cb.kind \in {"lines", "full"} /\ cb' = Lines(cb.left - 1) /\ UNCHANGED reportVars
    BY <1>8 DEF EnqueueLine, DropLine, runVars
  <2>2. cb.left - 1 \in 0 .. MaxCallback
    BY <1>7, <2>1, NodeAssumption
  <2>. QED
    BY <1>3, <1>4, <2>1, <2>2
<1>9. CASE EnqueueRefused
  <2>1. cb' = [kind |-> "full", left |-> cb.left] /\ cb.left \in 1 .. MaxCallback + 1
    BY <1>7, <1>9 DEF EnqueueRefused
  <2>2. cb' \in Frames
    BY <2>1 DEF Frames
  <2>. QED
    BY <1>1, <1>9, <2>2 DEF FrameTypes, EnqueueRefused
<1>10. CASE ReadDepth
  BY <1>1, <1>3, <1>10 DEF PortTypes, ReadDepth, Frames, runVars
<1>11. CASE ReadBacklog
  <2>1. cb.d \in 0 .. MaxQueue
    BY <1>1, <1>11 DEF FrameTypes, Frames, Idle, ReadBacklog
  <2>. QED
    BY <1>1, <1>3, <1>11, <2>1 DEF PortTypes, ReadBacklog, Frames, runVars
<1>12. CASE Publish
  BY <1>1, <1>12 DEF FrameTypes, Publish, Level, Frames
<1>13. CASE Construction /\ ~BuildDiagnostics
  BY <1>2, <1>13 DEF Construction, BuildWriter, BuildLoader, SkipMapping, AddMapping,
                     AddMappingThrows, Constructed, runVars
<1>14. CASE Destruction
  BY <1>2, <1>14 DEF Destruction, Stop, DestroyMappings, StopWriter, WriterStopped,
                     DestroyOther, runVars
<1>15. CASE Environment
  BY <1>1, <1>15 DEF Environment, Worker, Tick, ClockReset, NewTransform, FrameTypes, reportVars
<1>16. CASE UNCHANGED vars
  BY <1>2, <1>16 DEF vars, nodeVars
<1>. QED
  BY <1>5, <1>6, <1>8, <1>9, <1>10, <1>11, <1>12, <1>13, <1>14, <1>15, <1>16 DEF Next, Callback

LEMMA LifeTypesStep == NodeTypes /\ [Next]_vars => LifeTypes'
<1> SUFFICES ASSUME NodeTypes, [Next]_vars PROVE LifeTypes'
  OBVIOUS
<1>1. LifeTypes
  BY DEF NodeTypes
<1>2. CASE UNCHANGED setupVars
  BY <1>1, <1>2 DEF LifeTypes, setupVars
<1>3. CASE Construction
  BY <1>1, <1>3 DEF LifeTypes, Construction, BuildWriter, BuildDiagnostics, BuildLoader,
                    SkipMapping, AddMapping, AddMappingThrows, Constructed
<1>4. CASE Destruction
  BY <1>1, <1>4 DEF LifeTypes, Destruction, Stop, DestroyMappings, StopWriter, WriterStopped,
                    DestroyOther, setupVars
<1>5. CASE Events \/ StartReport \/ Callback
  BY <1>2, <1>5 DEF Events, Message, TfTimer, CustomTimer, StartReport, Callback, EnqueueLine,
                    EnqueueRefused, DropLine, ReadDepth, ReadBacklog, Publish
<1>6. CASE Environment
  BY <1>2, <1>6 DEF Environment, Worker, Tick, ClockReset, NewTransform
<1>7. CASE UNCHANGED vars
  BY <1>2, <1>7 DEF vars, nodeVars
<1>. QED
  BY <1>3, <1>4, <1>5, <1>6, <1>7 DEF Next

\* The values the node works with stay within their types.
THEOREM NodeTypesHold == Spec => []NodeTypeOK
<1>1. NodeTypes /\ [Next]_vars => NodeTypes'
  BY NodeInvStep, ProgressStep, PortTypesStep, TimeTypesStep, FrameTypesStep, LifeTypesStep
     DEF NodeTypes
<1>. QED
  BY NodeTypesInit, <1>1, NodeTypesSuffice, PTL DEF Spec
=============================================================================
