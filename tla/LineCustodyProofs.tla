--------------------------- MODULE LineCustodyProofs ---------------------------
(***************************************************************************)
(* What the promise of LineCustody amounts to.                             *)
(***************************************************************************)
EXTENDS LineCustody, TLAPS

LedgerOK == accepted \in Nat /\ EveryLineAnsweredFor

LEMMA LedgerOKInit == Init => LedgerOK
    BY DEF Init, LedgerOK, EveryLineAnsweredFor, Held, Settled

LEMMA LedgerOKStep == LedgerOK /\ [Next]_vars => LedgerOK'
<1> SUFFICES ASSUME LedgerOK, [Next]_vars PROVE LedgerOK'
    OBVIOUS
<1> USE DEF LedgerOK, EveryLineAnsweredFor, Held, Settled
<1>1. CASE Accept
  <2>1. 1 .. accepted' = 1 .. accepted \cup {accepted'} /\ accepted' \in Nat
      BY <1>1 DEF Accept
  <2>2. Held' = Held \cup {accepted'} /\ Settled' = Settled
      BY <1>1 DEF Accept
  <2> QED
      BY <2>1, <2>2
<1>2. CASE Upload
    BY <1>2 DEF Upload, Keeps
<1>3. CASE Shelve
    BY <1>3 DEF Shelve, Keeps
<1>4. CASE GiveUp
    BY <1>4 DEF GiveUp, Keeps
<1>5. CASE UNCHANGED vars
    BY <1>5 DEF vars
<1> QED
    BY <1>1, <1>2, <1>3, <1>4, <1>5 DEF Next

\* Whoever keeps the promise accounts for every accepted line, and for no other.
THEOREM PromiseAnswersForLines == Spec => []EveryLineAnsweredFor
<1>1. LedgerOK => EveryLineAnsweredFor
    BY DEF LedgerOK
<1> QED
    BY <1>1, LedgerOKInit, LedgerOKStep, PTL DEF Spec
=============================================================================
