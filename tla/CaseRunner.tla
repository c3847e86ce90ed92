----------------------------- MODULE CaseRunner -----------------------------
(***************************************************************************)
(* What a run of a test suite promises, with no threads, slots or devices: *)
(* every case is reported once, and the run ends when all are.             *)
(* TestScheduler.tla implements this specification.                        *)
(***************************************************************************)
EXTENDS Naturals

CONSTANT Cases        \* the cases of the suite

VARIABLES
  reports,            \* how many results each case has
  ended               \* whether the run has ended

RInit == reports = [c \in Cases |-> 0] /\ ended = FALSE

Report(c) ==
  /\ ~ended
  /\ reports[c] = 0
  /\ reports' = [reports EXCEPT ![c] = 1]
  /\ UNCHANGED ended

End ==
  /\ \A c \in Cases : reports[c] = 1
  /\ ended' = TRUE
  /\ UNCHANGED reports

RNext == (\E c \in Cases : Report(c)) \/ End

RSpec == RInit /\ [][RNext]_<<reports, ended>>
=============================================================================
