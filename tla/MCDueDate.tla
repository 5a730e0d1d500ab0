------------------------------- MODULE MCDueDate -------------------------------
(* An instance of DueDate for TLC.                                         *)
EXTENDS DueDate

\* Every way to choose business days of a library that closes on Sundays (1),
\* the empty one among them, and four of libraries that open on Sundays.
SomeConfigs == SUBSET (2 .. 7) \cup {{1}, {1, 7}, {1, 4, 6}, 1 .. 7}

\* A call on another weekday sees the week of business days rotated.
Mondays    == {1}

\* No limit, one below a full week of seven business days, and one above two;
\* between them they are and are not multiples of the business days of a week.
SomeDays   == {0, 6, 15}

=============================================================================
