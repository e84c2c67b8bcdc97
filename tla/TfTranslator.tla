----------------------------- MODULE TfTranslator -----------------------------
(***************************************************************************)
(* The timer-driven translator of tf_basic_translator.cpp, one instance    *)
(* per mapping that asks for it.  Each has a buffer that a listener thread *)
(* fills with transforms; a timer of the node looks the newest one up and  *)
(* reports it unless its stamp is not newer than the last one reported.    *)
(*                                                                         *)
(* A value that may be missing is a set with at most one element.          *)
(***************************************************************************)
EXTENDS Integers

CONSTANTS
    NMappings,      \* the number of entries of mappings_ids
    IntMax,         \* the largest int64_t
    DefaultPeriod   \* 20 ms

Mappings == 1 .. NMappings

ASSUME TfAssumption ==
    /\ NMappings \in Nat
    /\ IntMax \in Nat \ {0}
    /\ DefaultPeriod \in 1 .. IntMax

VARIABLES
    transform,      \* the stamp of the newest transform the buffer can compute
    lastStamp       \* last_stamp_ns_, missing unless has_last_stamp_

tfVars == <<transform, lastStamp>>

\* The values a build may give to a double converted to int64_t: x86 yields the least
\* value for anything out of range, ARM the nearest.
ToInt64(x) == IF x <= IntMax THEN {x} ELSE {-IntMax - 1, IntMax}

\* parse_period(): freq is 1e9 / frequency_hz and period is period_ns, rounded down to
\* whole nanoseconds; missing stands for an option that is absent, no number or (as a
\* frequency) not positive.
ParsePeriod(freq, period) ==
    IF freq # {} THEN UNION {IF p >= 1 THEN ToInt64(p) ELSE {1} : p \in freq}
    ELSE IF \E p \in period : p >= 1 THEN UNION {ToInt64(p) : p \in period}
    ELSE {DefaultPeriod}

Fresh(m) == \E s \in transform[m] : \A l \in lastStamp[m] : s > l

\* Mutant: the last stamp is not kept.
ReportForgets(m) ==
    /\ Fresh(m)
    /\ UNCHANGED tfVars

\* on_timer(): lookupTransform() throws while the buffer is empty.
Report(m) ==
    /\ Fresh(m)
    /\ lastStamp' = [lastStamp EXCEPT ![m] = transform[m]]
    /\ UNCHANGED transform

\* The listener thread receives a transform.
Receive(m, stamp) ==
    /\ transform' = [transform EXCEPT ![m] = {stamp}]
    /\ UNCHANGED lastStamp

\* tf2_ros::Buffer empties itself when the clock goes back.
ClearBuffers ==
    /\ transform' = [m \in Mappings |-> {}]
    /\ UNCHANGED lastStamp

TfInit ==
    /\ transform = [m \in Mappings |-> {}]
    /\ lastStamp = [m \in Mappings |-> {}]
=============================================================================
