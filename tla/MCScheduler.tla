---------------------------- MODULE MCScheduler -----------------------------
(***************************************************************************)
(* The workloads the scheduler is checked on.                              *)
(***************************************************************************)
EXTENDS Scheduler

\* Tight memory: two runs of one target, and another target that wants the
\* resource of the first.
Tight ==
    [queued |-> {1, 2, 3}, late |-> {},
     uid |-> <<1, 1, 2, 2>>, repo |-> <<1, 1, 2, 2>>, name |-> <<"a", "a", "b", "b">>,
     priority |-> <<0, 1, 0, 0>>, age |-> <<1, 2, 2, 2>>,
     uidCharge |-> <<1, 1, 1, 1>>, repoCharge |-> <<1, 1, 1, 1>>,
     exclusive |-> <<{"db"}, {}, {"db"}, {}>>,
     appetite |-> <<2, 2, 1, 0>>, total |-> 4, shrinks |-> FALSE]

\* Two of them, one submitted late, when executions give memory back.
Breathing == [Tight EXCEPT !.queued = {1}, !.late = {3}, !.shrinks = TRUE]

\* Ample memory: two owners of different weights share the daemon; what an
\* execution uses does not matter.
Ample ==
    [queued |-> {1, 2, 3, 4}, late |-> {},
     uid |-> <<1, 1, 1, 2>>, repo |-> <<1, 1, 2, 2>>, name |-> <<"a", "a", "a", "a">>,
     priority |-> <<0, 0, 0, 0>>, age |-> <<1, 1, 1, 2>>,
     uidCharge |-> <<2, 2, 2, 3>>, repoCharge |-> <<1, 2, 1, 1>>,
     exclusive |-> <<{}, {}, {}, {}>>,
     appetite |-> <<0, 0, 0, 0>>, total |-> 20, shrinks |-> FALSE]

AllWorkloads == {Tight, Breathing, Ample}
=============================================================================
