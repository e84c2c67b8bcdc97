----------------------- MODULE MCPersistentBatchStore -----------------------
(***************************************************************************)
(* PersistentBatchStore with a caller that hands it fresh lines in the     *)
(* order of their production and otherwise calls in any order the          *)
(* interface allows.  MaxHanded and MaxBatchLen bound the caller;          *)
(* restarts and names are bounded by MaxClock.                             *)
(***************************************************************************)
EXTENDS PersistentBatchStore

CONSTANTS MaxHanded, MaxBatchLen

VARIABLE handed     \* the number of lines handed to store() so far

mcVars == <<storeVars, handed>>

Store(n) ==
    /\ handed + n <= MaxHanded
    /\ handed' = handed + n
    /\ StoreOpen([i \in 1 .. n |-> handed + i])

MCInit == StoreInit /\ handed = 0

MCNext ==
    \/ \E n \in 1 .. MaxBatchLen : Store(n)
    \/ /\ \/ StoreStart \/ Destroy \/ Crash \/ Vanish
          \/ StoreDisabled
          \/ StoreInside
          \/ NextBatch \/ NextUnreadable \/ MarkProcessed
       /\ UNCHANGED handed

MCSpec == MCInit /\ [][MCNext]_mcVars
=============================================================================
