------------------------------ MODULE WriterPort ------------------------------
(***************************************************************************)
(* The InfluxWriter as the node sees it: enqueue(), the destructor and the *)
(* accessors the diagnostics poll.  The worker behind it takes lines out of *)
(* the queue, reports how its uploads went and moves batches to and from   *)
(* disk.  InfluxWriter implements this specification                       *)
(* (InfluxWriter!PortRefined); BridgeNode uses it in place of InfluxWriter. *)
(***************************************************************************)
EXTENDS Naturals

CONSTANT MaxQueue   \* max_queue_

VARIABLES
    port,           \* the object: "closed", "open" or "closing" (in its destructor)
    depth,          \* queue_depth_
    backlog,        \* pending_persisted_batches_ > 0
    error           \* last_error_: "none", "full" or "send"

portVars == <<port, depth, backlog, error>>

\* publish_diagnostics(), from what it read: a queue 95 % full is an error; one 75 %
\* full, a backlog on disk and an error are warnings.  A queue of size 0 is never full.
Level(d, b, e) ==
    IF MaxQueue > 0 /\ 100 * d >= 95 * MaxQueue THEN "ERROR"
    ELSE IF (MaxQueue > 0 /\ 100 * d >= 75 * MaxQueue) \/ b \/ e # "none" THEN "WARN"
    ELSE "OK"

\* The constructor: what an earlier process left on disk is found again.
Open ==
    /\ port = "closed"
    /\ port' = "open"
    /\ backlog' \in BOOLEAN
    /\ UNCHANGED <<depth, error>>

\* enqueue() pushes the line, or records that the queue is full.
Put ==
    /\ port = "open"
    /\ depth < MaxQueue
    /\ depth' = depth + 1
    /\ UNCHANGED <<port, backlog, error>>

Complain ==
    /\ port = "open"
    /\ error' = "full"
    /\ UNCHANGED <<port, depth, backlog>>

\* The worker.
Take ==
    /\ port # "closed"
    /\ depth' \in 0 .. depth
    /\ UNCHANGED <<port, backlog, error>>

Succeed ==
    /\ port # "closed"
    /\ error' = "none"
    /\ UNCHANGED <<port, depth, backlog>>

Fail ==
    /\ port # "closed"
    /\ error' = "send"
    /\ UNCHANGED <<port, depth, backlog>>

Recount ==
    /\ port # "closed"
    /\ backlog' \in BOOLEAN
    /\ UNCHANGED <<port, depth, error>>

\* The destructor begins, and returns when the queue has been flushed.
Close ==
    /\ port = "open"
    /\ port' = "closing"
    /\ UNCHANGED <<depth, backlog, error>>

Reset ==
    /\ port' = "closed"
    /\ depth' = 0
    /\ backlog' = FALSE
    /\ error' = "none"

Closed ==
    /\ port = "closing"
    /\ depth = 0
    /\ Reset

Died ==
    /\ port # "closed"
    /\ Reset

PortInit ==
    /\ port = "closed"
    /\ depth = 0
    /\ backlog = FALSE
    /\ error = "none"

PortNext ==
    \/ Open \/ Put \/ Complain \/ Take \/ Succeed \/ Fail \/ Recount
    \/ Close \/ Closed \/ Died

PortSpec == PortInit /\ [][PortNext]_portVars
=============================================================================
