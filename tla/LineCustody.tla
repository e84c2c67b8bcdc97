----------------------------- MODULE LineCustody -----------------------------
(***************************************************************************)
(* What the writer promises to whoever calls enqueue(): once a line is     *)
(* accepted somebody answers for it.  It is in the memory of the process,  *)
(* in a file of the disk queue, with the server, or written off at a place *)
(* where the program decides to.  InfluxWriter implements this             *)
(* specification (InfluxWriter!CustodyRefined).                            *)
(***************************************************************************)
EXTENDS Naturals

VARIABLES
    accepted,       \* the lines accepted so far are 1 .. accepted
    memory,         \* lines that die with the process
    disk,           \* lines that survive it
    delivered,      \* lines the server has taken
    abandoned       \* lines somebody decided to give up, or a crash wiped out

vars == <<accepted, memory, disk, delivered, abandoned>>

Held == memory \cup disk
Settled == delivered \cup abandoned

\* Lines move between memory and disk, and copies of them go away; the last copy
\* of a line goes only when the line is settled, and no line comes from nowhere.
Keeps ==
    /\ memory' \cup disk' \subseteq Held
    /\ Held \ (memory' \cup disk') \subseteq delivered' \cup abandoned'

Accept ==
    /\ accepted' = accepted + 1
    /\ memory' = memory \cup {accepted'}
    /\ UNCHANGED <<disk, delivered, abandoned>>

\* The server is sent lines from memory only; it may take them without our knowing.
Upload ==
    /\ \E lines \in SUBSET memory : delivered' = delivered \cup lines
    /\ Keeps
    /\ UNCHANGED <<accepted, disk, abandoned>>

Shelve ==
    /\ Keeps
    /\ UNCHANGED <<accepted, delivered, abandoned>>

GiveUp ==
    /\ \E lines \in SUBSET Held : abandoned' = abandoned \cup lines
    /\ Keeps
    /\ UNCHANGED <<accepted, delivered>>

Init ==
    /\ accepted = 0
    /\ memory = {}
    /\ disk = {}
    /\ delivered = {}
    /\ abandoned = {}

Next == Accept \/ Upload \/ Shelve \/ GiveUp

Spec == Init /\ [][Next]_vars

-----------------------------------------------------------------------------
\* What the promise amounts to: no accepted line is ever unaccounted for, and
\* nothing is held or reported that was not accepted.
EveryLineAnsweredFor == 1 .. accepted = Held \cup Settled
=============================================================================
