----------------------------- MODULE MCCirculation -----------------------------
(* Small libraries for TLC: one tick per day, every loan lasts LoanDays.   *)
EXTENDS Circulation, TLC

CONSTANTS h1, h2, t1, LastInstant, LoanDays, HoldDays, Limit, Rate

MCInstants     == 0 .. LastInstant
MCOneTitle     == [h \in Holdings |-> t1]
MCLimit        == [u \in Users |-> Limit]
MCFineRate     == [u \in Users |-> Rate]
MCDayOf        == [t \in Instants |-> t]
MCLendingDue   == [u \in Users |-> [t \in Instants |-> t + LoanDays]]
MCReservationDue == [u \in Users |-> [t \in Instants |-> t + HoldDays]]

Symmetry == Permutations(Users) \cup Permutations(Requests)
=============================================================================
