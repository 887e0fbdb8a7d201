----------------------------- MODULE MCWalkForward -----------------------------
(***************************************************************************)
(* Two executors of one study of two cycles: one bootstrap week, two weeks *)
(* of validation, one-week steps and tests, three rows a week trained in   *)
(* batches of two, a grid of two options, and two possible scores.         *)
(***************************************************************************)
EXTENDS WalkForward

MCScores == {0, 1}

InLastTest == {<<2, "measure_test">>}

\* Weeks of training that end where the plan starts, or two weeks later.
Ordinary == [status |-> "completed", role |-> None, train |-> Weeks(-4, 0), validated |-> TRUE]
MCAncestries ==
    {<<Ordinary, Ordinary>>,
     <<Ordinary, [Ordinary EXCEPT !.train = Weeks(-2, 2)]>>,
     <<Ordinary, [Ordinary EXCEPT !.role = "refit"]>>,
     <<[Ordinary EXCEPT !.status = "failed"]>>,
     <<[Ordinary EXCEPT !.validated = FALSE]>>}
=============================================================================
