------------------------------- MODULE LoanLedger -------------------------------
(***************************************************************************)
(* What the circulation desk promises about copies, whatever happens to    *)
(* fines, reservations and requests: each copy is free or on one loan, a   *)
(* loan keeps its reader, renewing replaces the current loan by one of the *)
(* same reader, and undo gives a free copy back to one of its past loans.  *)
(***************************************************************************)
CONSTANTS Holdings, Users, Loans, Free

VARIABLES
  loan,    \* per copy: its current loan, or Free
  past,    \* per copy: its closed loans
  reader   \* per loan: who borrowed, Free before it is made

vars == <<loan, past, reader>>

TypeOK ==
  /\ loan \in [Holdings -> Loans \cup {Free}]
  /\ past \in [Holdings -> SUBSET Loans]
  /\ reader \in [Loans -> Users \cup {Free}]

Init ==
  /\ loan = [h \in Holdings |-> Free]
  /\ past = [h \in Holdings |-> {}]
  /\ reader = [i \in Loans |-> Free]

New(i, u) == reader[i] = Free /\ reader' = [reader EXCEPT ![i] = u]

Lend(h, i, u) ==
  /\ loan[h] = Free /\ New(i, u)
  /\ loan' = [loan EXCEPT ![h] = i]
  /\ UNCHANGED past

Renew(h, i) ==
  /\ loan[h] # Free /\ New(i, reader[loan[h]])
  /\ loan' = [loan EXCEPT ![h] = i]
  /\ past' = [past EXCEPT ![h] = @ \cup {loan[h]}]

Return(h) ==
  /\ loan[h] # Free
  /\ loan' = [loan EXCEPT ![h] = Free]
  /\ past' = [past EXCEPT ![h] = @ \cup {loan[h]}]
  /\ UNCHANGED reader

Undo(h, i) ==
  /\ loan[h] = Free /\ i \in past[h]
  /\ loan' = [loan EXCEPT ![h] = i]
  /\ past' = [past EXCEPT ![h] = @ \ {i}]
  /\ UNCHANGED reader

Next ==
  \E h \in Holdings :
    \/ Return(h)
    \/ \E i \in Loans : Renew(h, i) \/ Undo(h, i) \/ \E u \in Users : Lend(h, i, u)

Spec == Init /\ [][Next]_vars
=============================================================================
