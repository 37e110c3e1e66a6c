--------------------------- MODULE RunStateProofs ---------------------------
(***************************************************************************)
(* Facts about the reconciliation of one run, for every set of rows, names *)
(* and dependencies: what it changes, when it concludes a run, and that    *)
(* its closure over dependents leaves no row waiting for a failed one.     *)
(***************************************************************************)
EXTENDS RunState, TLAPS

-----------------------------------------------------------------------------
(***************************************************************************)
(* The pure part of the reconciliation                                     *)
(***************************************************************************)

\* _reconcile_run changes queued rows only, only into cancelled ones, and
\* none of a cancelling run's.
LEMMA ReconciledRowsFacts ==
    ASSUME NEW rs \in RunStates, NEW ts \in [Row -> TargetStates]
    PROVE  /\ ReconciledRows(rs, ts) \in [Row -> TargetStates]
           /\ \A x \in Row :
                \/ ReconciledRows(rs, ts)[x] = ts[x]
                \/ /\ ts[x] = "queued"
                   /\ ReconciledRows(rs, ts)[x] = "cancelled"
                   /\ rs # "cancelling"
           /\ rs = "cancelling" => ReconciledRows(rs, ts) = ts
<1>1. CASE rs = "cancelling"
    BY <1>1 DEF ReconciledRows
<1>2. CASE rs # "cancelling"
    <2> DEFINE D == CancelledDependents(ts)
    <2>1. ReconciledRows(rs, ts) = CancelQueued(ts, D)
        BY <1>2 DEF ReconciledRows
    <2> HIDE DEF D
    <2> QED
        BY <1>2, <2>1 DEF CancelQueued, TargetStates, TerminalTargetStates,
                          UnfinishedTargetStates
<1> QED
    BY <1>1, <1>2

\* The precedence of failures picks a terminal run state that is a failure.
LEMMA DominantFailureFacts ==
    ASSUME NEW S
    PROVE  DominantFailure(S) \in TerminalRunStates \ {"succeeded"}
BY DEF DominantFailure, TerminalRunStates

\* _reconcile_run leaves the run's state alone or concludes it, and a
\* conclusion is backed by the rows.
LEMMA ReconciledRunFacts ==
    ASSUME NEW rs \in RunStates, NEW ts \in [Row -> TargetStates]
    PROVE  \/ ReconciledRun(rs, ts) = rs
           \/ /\ rs = "cancelling"
              /\ ReconciledRun(rs, ts) = "cancelled"
              /\ \A x \in Row : ts[x] \notin ActiveTargetStates
           \/ /\ rs # "cancelling"
              /\ ReconciledRun(rs, ts) \in TerminalRunStates \ {"succeeded"}
              /\ FailedRows(ts) # {}
              /\ \A x \in Row : ts[x] \notin UnfinishedTargetStates
           \/ /\ rs # "cancelling"
              /\ ReconciledRun(rs, ts) = "succeeded"
              /\ RowsOf(ts) # {}
              /\ \A x \in RowsOf(ts) : ts[x] = "succeeded"
<1> DEFINE states == {ts[x] : x \in Row}
<1>1. DominantFailure(states) \in TerminalRunStates \ {"succeeded"}
    BY DominantFailureFacts
<1> HIDE DEF states
<1>2. ReconciledRun(rs, ts) =
        IF rs = "cancelling"
        THEN IF \E x \in Row : ts[x] \in ActiveTargetStates
             THEN rs ELSE "cancelled"
        ELSE IF FailedRows(ts) # {}
        THEN IF \E x \in Row : ts[x] \in UnfinishedTargetStates
             THEN rs ELSE DominantFailure(states)
        ELSE IF RowsOf(ts) # {} /\ \A x \in RowsOf(ts) : ts[x] = "succeeded"
        THEN "succeeded"
        ELSE rs
    BY DEF ReconciledRun, states
<1> QED
    BY <1>1, <1>2, Zenon

\* The state a reconciliation gives a run is a run state.
LEMMA ReconciledRunType ==
    ASSUME NEW rs \in RunStates, NEW ts \in [Row -> TargetStates]
    PROVE  ReconciledRun(rs, ts) \in RunStates
BY ReconciledRunFacts DEF RunStates, TerminalRunStates

\* request_cancel leaves no row queued and changes no finished row.
LEMMA CancelledRowsFacts ==
    ASSUME NEW ts \in [Row -> TargetStates]
    PROVE  /\ CancelledRows(ts) \in [Row -> TargetStates]
           /\ \A x \in Row :
                \/ /\ ts[x] \notin {"queued", "starting", "running"}
                   /\ CancelledRows(ts)[x] = ts[x]
                \/ ts[x] = "queued" /\ CancelledRows(ts)[x] = "cancelled"
                \/ /\ ts[x] \in {"starting", "running"}
                   /\ CancelledRows(ts)[x] = "stopping"
BY DEF CancelledRows, TargetStates, UnfinishedTargetStates,
       ActiveTargetStates, TerminalTargetStates

-----------------------------------------------------------------------------
(***************************************************************************)
(* Settled runs                                                            *)
(***************************************************************************)

\* Nothing of an unknown run exists, a cancelling run has nothing queued,
\* and a concluded run has nothing unfinished and the conclusion its rows
\* support.
RunSettled(rs, ts) ==
    /\ rs = "none" => \A x \in Row : ts[x] = "none"
    /\ rs = "cancelling" => \A x \in Row : ts[x] # "queued"
    /\ rs \in TerminalRunStates =>
        /\ \A x \in Row : ts[x] \notin UnfinishedTargetStates
        /\ rs # "cancelled" =>
            (rs = "succeeded" <=> \A x \in RowsOf(ts) : ts[x] = "succeeded")

\* Rows are never added to or dropped from a run, finished rows keep their
\* conclusion, and nothing is queued again.
RowsAdvance(ts, us) ==
    \A x \in Row :
        /\ us[x] = "none" <=> ts[x] = "none"
        /\ ts[x] \in TerminalTargetStates => us[x] = ts[x]
        /\ us[x] = "queued" => ts[x] = "queued"

\* Reconciling the rows of an active run settles the run.
LEMMA ReconcileSettles ==
    ASSUME NEW rs \in ActiveRunStates, NEW ts \in [Row -> TargetStates],
           rs = "cancelling" => \A x \in Row : ts[x] # "queued"
    PROVE  LET us == ReconciledRows(rs, ts)
               qs == ReconciledRun(rs, us)
           IN  /\ qs \in ActiveRunStates \cup TerminalRunStates
               /\ RowsAdvance(ts, us)
               /\ RunSettled(qs, us)
<1> DEFINE us == ReconciledRows(rs, ts)
           qs == ReconciledRun(rs, us)
<1>1. rs \in RunStates
    BY DEF RunStates
<1>2. /\ us \in [Row -> TargetStates]
      /\ \A x \in Row :
            \/ us[x] = ts[x]
            \/ ts[x] = "queued" /\ us[x] = "cancelled" /\ rs # "cancelling"
      /\ rs = "cancelling" => us = ts
    BY <1>1, ReconciledRowsFacts
<1>3. \/ qs = rs
      \/ /\ rs = "cancelling"
         /\ qs = "cancelled"
         /\ \A x \in Row : us[x] \notin ActiveTargetStates
      \/ /\ rs # "cancelling"
         /\ qs \in TerminalRunStates \ {"succeeded"}
         /\ FailedRows(us) # {}
         /\ \A x \in Row : us[x] \notin UnfinishedTargetStates
      \/ /\ rs # "cancelling"
         /\ qs = "succeeded"
         /\ RowsOf(us) # {}
         /\ \A x \in RowsOf(us) : us[x] = "succeeded"
    BY <1>1, <1>2, ReconciledRunFacts
<1> HIDE DEF us, qs
<1>4. qs \in ActiveRunStates \cup TerminalRunStates
    BY <1>3 DEF TerminalRunStates
<1>5. RowsAdvance(ts, us)
    BY <1>2 DEF RowsAdvance, TerminalTargetStates
<1>6. RunSettled(qs, us)
    <2>1. CASE qs = rs
        BY <1>2, <2>1 DEF RunSettled, ActiveRunStates, TerminalRunStates
    <2>2. CASE /\ rs = "cancelling"
               /\ qs = "cancelled"
               /\ \A x \in Row : us[x] \notin ActiveTargetStates
        BY <1>2, <2>2 DEF RunSettled, UnfinishedTargetStates
    <2>3. CASE /\ rs # "cancelling"
               /\ qs \in TerminalRunStates \ {"succeeded"}
               /\ FailedRows(us) # {}
               /\ \A x \in Row : us[x] \notin UnfinishedTargetStates
        <3>1. PICK x \in Row : us[x] \in TerminalTargetStates \ {"succeeded"}
            BY <2>3 DEF FailedRows
        <3>2. x \in RowsOf(us) /\ us[x] # "succeeded"
            BY <3>1 DEF RowsOf, TerminalTargetStates
        <3> QED
            BY <2>3, <3>2 DEF RunSettled, TerminalRunStates
    <2>4. CASE /\ rs # "cancelling"
               /\ qs = "succeeded"
               /\ RowsOf(us) # {}
               /\ \A x \in RowsOf(us) : us[x] = "succeeded"
        BY <2>4 DEF RunSettled, RowsOf, UnfinishedTargetStates,
                    ActiveTargetStates
    <2> QED
        BY <1>3, <2>1, <2>2, <2>3, <2>4
<1> QED
    BY <1>4, <1>5, <1>6 DEF us, qs

\* RowsAdvance composes.
LEMMA RowsAdvanceTransitive ==
    ASSUME NEW ts, NEW us, NEW vs, RowsAdvance(ts, us), RowsAdvance(us, vs)
    PROVE  RowsAdvance(ts, vs)
BY DEF RowsAdvance

\* A run whose rows advance keeps its targets, hence its fingerprint.
LEMMA RowsAdvanceKeepsNames ==
    ASSUME NEW ts, NEW us, RowsAdvance(ts, us)
    PROVE  RowsOf(us) = RowsOf(ts) /\ NamesOf(us) = NamesOf(ts)
<1>1. RowsOf(us) = RowsOf(ts)
    BY DEF RowsAdvance, RowsOf
<1> QED
    BY <1>1 DEF NamesOf

\* Advancing rows keeps satisfied dependencies satisfied.
LEMMA DependenciesStay ==
    ASSUME NEW ts, NEW us, RowsAdvance(ts, us), NEW x \in Row,
           TargetDependenciesSucceeded(ts, x)
    PROVE  TargetDependenciesSucceeded(us, x)
<1>1. RowsOf(us) = RowsOf(ts) /\ NamesOf(us) = NamesOf(ts)
    BY RowsAdvanceKeepsNames
<1>2. SUFFICES ASSUME NEW y \in RowsOf(ts),
                      NameOf[y] \in ExactDependencies(ts, NameOf[x])
               PROVE  us[y] = "succeeded"
    BY <1>1 DEF TargetDependenciesSucceeded, ExactDependencies
<1>3. y \in Row /\ ts[y] = "succeeded"
    BY <1>2 DEF TargetDependenciesSucceeded, RowsOf
<1> QED
    BY <1>3 DEF RowsAdvance, TerminalTargetStates

-----------------------------------------------------------------------------
(***************************************************************************)
(* The closure over dependents                                             *)
(*                                                                         *)
(* B stands for the rows that ever owned an execution.  A failed row       *)
(* without one was cancelled by propagation, together with every queued    *)
(* row of its name; that is why a name that is already unavailable, whose  *)
(* queued rows the loop leaves alone, has no failed dependency.            *)
(***************************************************************************)
Failure == TerminalTargetStates \ {"succeeded"}

Unavailable(ts) == {NameOf[x] : x \in FailedRows(ts)}

\* Executing and passed rows own an execution, none was granted to a queued
\* row, and each respects the dependencies.
RowsBegun(ts, B) ==
    \A x \in Row :
        /\ ts[x] \in ActiveTargetStates \cup {"succeeded"} => x \in B
        /\ x \in B => /\ ts[x] \notin {"none", "queued"}
                      /\ TargetDependenciesSucceeded(ts, x)

\* A shard that failed beside a queued one had been executed.
SiblingsBegun(ts, B) ==
    \A x, z \in Row :
        ts[x] = "queued" /\ ts[z] \in Failure /\ NameOf[z] = NameOf[x] => z \in B

\* No queued row waits for a failed one.
QueueUnblocked(ts) ==
    \A x, y \in Row :
        ts[x] = "queued" /\ NameOf[y] \in Deps[NameOf[x]] => ts[y] \notin Failure

\* The loop of _reconcile_run computes the least closed set, and adds a name
\* to it only on account of one of its dependencies.
LEMMA CancelledDependentsFacts ==
    ASSUME NEW ts \in [Row -> TargetStates]
    PROVE  LET U == Unavailable(ts)
               D == CancelledDependents(ts)
           IN  /\ U \subseteq NamesOf(ts)
               /\ D \subseteq NamesOf(ts) \ U
               /\ DependentsClosed(ts, U \cup D)
               /\ \A S \in SUBSET NamesOf(ts) :
                    U \subseteq S /\ DependentsClosed(ts, S) => D \subseteq S
               /\ \A n \in D : ExactDependencies(ts, n) \cap (U \cup D) # {}
<1> DEFINE U == Unavailable(ts)
           D == CancelledDependents(ts)
           N == NamesOf(ts)
<1>1. U \subseteq N
    <2>1. FailedRows(ts) \subseteq RowsOf(ts)
        BY DEF FailedRows, RowsOf, TerminalTargetStates
    <2> QED
        BY <2>1 DEF Unavailable, NamesOf
<1>2. D = {n \in N \ U :
            \A S \in SUBSET N :
                U \subseteq S /\ DependentsClosed(ts, S) => n \in S}
    BY DEF CancelledDependents, Unavailable
<1> HIDE DEF U, D, N
<1>3. D \subseteq N \ U
    BY <1>2
<1>4. \A S \in SUBSET N :
        U \subseteq S /\ DependentsClosed(ts, S) => D \subseteq S
    BY <1>2
<1>5. DependentsClosed(ts, U \cup D)
    <2> SUFFICES ASSUME NEW n \in N, ExactDependencies(ts, n) \cap (U \cup D) # {},
                        n \notin U
                 PROVE  n \in D
        BY DEF DependentsClosed, N
    <2> SUFFICES ASSUME NEW S \in SUBSET N, U \subseteq S,
                        DependentsClosed(ts, S)
                 PROVE  n \in S
        BY <1>2
    <2>1. ExactDependencies(ts, n) \cap S # {}
        BY <1>4
    <2> QED
        BY <2>1 DEF DependentsClosed, N
<1>6. ASSUME NEW n \in D, ExactDependencies(ts, n) \cap (U \cup D) = {}
      PROVE  FALSE
    <2> DEFINE S == (U \cup D) \ {n}
    <2>1. S \in SUBSET N /\ U \subseteq S
        BY <1>1, <1>3
    <2>2. DependentsClosed(ts, S)
        <3> SUFFICES ASSUME NEW m \in N, ExactDependencies(ts, m) \cap S # {}
                     PROVE  m \in S
            BY DEF DependentsClosed, N
        <3>1. m \in U \cup D
            BY <1>5 DEF DependentsClosed, N
        <3>2. m # n
            BY <1>6
        <3> QED
            BY <3>1, <3>2
    <2>3. D \subseteq S
        BY <1>4, <2>1, <2>2
    <2> QED
        BY <1>6, <2>3
<1> QED
    BY <1>1, <1>3, <1>4, <1>5, <1>6 DEF U, D, N

\* A name is in the run exactly when one of its rows is.
LEMMA RowOfName ==
    ASSUME NEW ts, NEW n
    PROVE  n \in NamesOf(ts) <=> \E x \in Row : ts[x] # "none" /\ NameOf[x] = n
BY DEF NamesOf, RowsOf

\* Every row of an exact dependency of a begun row succeeded.
LEMMA BegunDependency ==
    ASSUME NEW ts, NEW B, RowsBegun(ts, B), NEW x \in B, x \in Row,
           NEW y \in Row, ts[y] # "none", NameOf[y] \in Deps[NameOf[x]]
    PROVE  ts[y] = "succeeded"
<1>1. NameOf[y] \in ExactDependencies(ts, NameOf[x])
    BY RowOfName DEF ExactDependencies
<1>2. y \in RowsOf(ts)
    BY DEF RowsOf
<1> QED
    BY <1>1, <1>2 DEF RowsBegun, TargetDependenciesSucceeded

\* The closure cancels only names none of whose rows was ever started.
LEMMA DependentsNotBegun ==
    ASSUME NEW ts \in [Row -> TargetStates], NEW B \in SUBSET Row,
           RowsBegun(ts, B),
           NEW x \in Row, NameOf[x] \in CancelledDependents(ts)
    PROVE  ts[x] \in {"queued", "none"} /\ x \notin B
<1> DEFINE U == Unavailable(ts)
           D == CancelledDependents(ts)
           Started == {n \in D : \E z \in B : NameOf[z] = n}
           S == (U \cup D) \ Started
<1>1. /\ U \subseteq NamesOf(ts)
      /\ D \subseteq NamesOf(ts) \ U
      /\ DependentsClosed(ts, U \cup D)
      /\ \A T \in SUBSET NamesOf(ts) :
            U \subseteq T /\ DependentsClosed(ts, T) => D \subseteq T
    BY CancelledDependentsFacts
<1>2. \A n : n \in U <=> \E z \in Row : ts[z] \in Failure /\ NameOf[z] = n
    BY DEF Unavailable, FailedRows, Failure
<1> HIDE DEF U, D
<1>3. S \in SUBSET NamesOf(ts) /\ U \subseteq S
    BY <1>1
<1>4. DependentsClosed(ts, S)
    <2> SUFFICES ASSUME NEW n \in NamesOf(ts), NEW m \in S,
                        m \in ExactDependencies(ts, n), n \in Started
                 PROVE  FALSE
        BY <1>1 DEF DependentsClosed
    <2>1. PICK z \in B : NameOf[z] = n
        OBVIOUS
    <2>2. m \in Deps[n] /\ m \in NamesOf(ts)
        BY DEF ExactDependencies
    <2>3. \A y \in Row : ts[y] # "none" /\ NameOf[y] = m => ts[y] = "succeeded"
        BY <2>1, <2>2, BegunDependency
    <2>4. m \notin U
        BY <1>2, <2>3 DEF Failure, TerminalTargetStates
    <2>5. PICK y \in Row : ts[y] # "none" /\ NameOf[y] = m
        BY <2>2, RowOfName
    <2>6. y \in B
        BY <2>3, <2>5 DEF RowsBegun
    <2> QED
        BY <2>4, <2>5, <2>6
<1>5. Started = {}
    BY <1>1, <1>3, <1>4
<1>6. x \notin B
    BY <1>5 DEF D
<1>7. ts[x] \notin Failure
    BY <1>1, <1>2 DEF D
<1>8. ts[x] \notin ActiveTargetStates \cup {"succeeded"}
    BY <1>6 DEF RowsBegun
<1> QED
    BY <1>6, <1>7, <1>8 DEF Failure, TargetStates, UnfinishedTargetStates

\* Reconciling leaves no queued row behind a failed one, and gives a row up
\* only behind a row that has failed.
LEMMA ReconcileUnblocks ==
    ASSUME NEW ts \in [Row -> TargetStates], NEW B \in SUBSET Row,
           RowsBegun(ts, B), SiblingsBegun(ts, B),
           NEW rs \in {"queued", "running"}
    PROVE  LET us == ReconciledRows(rs, ts)
           IN  /\ RowsBegun(us, B)
               /\ SiblingsBegun(us, B)
               /\ QueueUnblocked(us)
               /\ \A x \in Row :
                    us[x] # ts[x] =>
                        \E y \in Row : /\ NameOf[y] \in Deps[NameOf[x]]
                                       /\ us[y] \in Failure
<1> DEFINE U == Unavailable(ts)
           D == CancelledDependents(ts)
           us == ReconciledRows(rs, ts)
<1>1. /\ U \subseteq NamesOf(ts)
      /\ D \subseteq NamesOf(ts) \ U
      /\ DependentsClosed(ts, U \cup D)
      /\ \A n \in D : ExactDependencies(ts, n) \cap (U \cup D) # {}
    BY CancelledDependentsFacts
<1>2. \A n : n \in U <=> \E z \in Row : ts[z] \in Failure /\ NameOf[z] = n
    BY DEF Unavailable, FailedRows, Failure
<1>3. \A x \in Row :
        NameOf[x] \in D => ts[x] \in {"queued", "none"} /\ x \notin B
    BY DependentsNotBegun
<1>4. us = CancelQueued(ts, D)
    BY DEF ReconciledRows
<1> HIDE DEF U, D, us
<1>5. \A x \in Row : us[x] = IF ts[x] = "queued" /\ NameOf[x] \in D
                             THEN "cancelled" ELSE ts[x]
    BY <1>4 DEF CancelQueued
<1>6. RowsAdvance(ts, us)
    BY <1>5 DEF RowsAdvance, TerminalTargetStates
<1>7. RowsBegun(us, B)
    <2> SUFFICES ASSUME NEW x \in Row
                 PROVE  /\ us[x] \in ActiveTargetStates \cup {"succeeded"} => x \in B
                        /\ x \in B => /\ us[x] \notin {"none", "queued"}
                                      /\ TargetDependenciesSucceeded(us, x)
        BY DEF RowsBegun
    <2>1. us[x] \in ActiveTargetStates \cup {"succeeded"} => x \in B
        BY <1>5 DEF RowsBegun, ActiveTargetStates
    <2>2. ASSUME x \in B
          PROVE  /\ us[x] \notin {"none", "queued"}
                 /\ TargetDependenciesSucceeded(us, x)
        BY <1>5, <1>6, <2>2, DependenciesStay DEF RowsBegun
    <2> QED
        BY <2>1, <2>2
<1>8. \A x \in Row : us[x] = "queued" => ts[x] = "queued" /\ NameOf[x] \notin D
    BY <1>5
<1>9. \A y \in Row : us[y] \in Failure =>
        ts[y] \in Failure \/ (ts[y] = "queued" /\ NameOf[y] \in D)
    BY <1>5
<1>10. SiblingsBegun(us, B)
    <2> SUFFICES ASSUME NEW x \in Row, NEW z \in Row, us[x] = "queued",
                        us[z] \in Failure, NameOf[z] = NameOf[x]
                 PROVE  z \in B
        BY DEF SiblingsBegun
    <2> QED
        BY <1>8, <1>9 DEF SiblingsBegun
<1>11. QueueUnblocked(us)
    <2> SUFFICES ASSUME NEW x \in Row, NEW y \in Row, us[x] = "queued",
                        NameOf[y] \in Deps[NameOf[x]], us[y] \in Failure
                 PROVE  FALSE
        BY DEF QueueUnblocked
    <2>1. ts[x] = "queued" /\ NameOf[x] \notin D
        BY <1>8
    <2>2. NameOf[y] \in U \cup D /\ ts[y] # "none"
        BY <1>2, <1>9 DEF Failure, TerminalTargetStates
    <2>3. NameOf[x] \in NamesOf(ts) /\ NameOf[y] \in NamesOf(ts)
        BY <2>1, <2>2, RowOfName
    <2>4. NameOf[x] \in U
        BY <1>1, <2>1, <2>2, <2>3 DEF DependentsClosed, ExactDependencies
    <2>5. PICK z \in Row : ts[z] \in Failure /\ NameOf[z] = NameOf[x]
        BY <1>2, <2>4
    <2>6. z \in B
        BY <2>1, <2>5 DEF SiblingsBegun
    <2>7. ts[y] = "succeeded"
        BY <2>2, <2>5, <2>6, BegunDependency
    <2> QED
        BY <1>9, <2>7 DEF Failure
<1>12. ASSUME NEW x \in Row, us[x] # ts[x]
       PROVE  \E y \in Row : /\ NameOf[y] \in Deps[NameOf[x]]
                             /\ us[y] \in Failure
    <2>1. NameOf[x] \in D
        BY <1>5, <1>12
    <2>2. PICK m \in U \cup D : m \in Deps[NameOf[x]]
        BY <1>1, <2>1 DEF ExactDependencies
    <2>3. CASE m \in U
        <3>1. PICK y \in Row : ts[y] \in Failure /\ NameOf[y] = m
            BY <1>2, <2>3
        <3>2. us[y] = ts[y]
            BY <1>5, <3>1 DEF Failure, TerminalTargetStates
        <3> QED
            BY <2>2, <3>1, <3>2
    <2>4. CASE m \in D
        <3>1. PICK y \in Row : ts[y] # "none" /\ NameOf[y] = m
            BY <1>1, <2>4, RowOfName
        <3>2. us[y] = "cancelled"
            BY <1>3, <1>5, <2>4, <3>1
        <3> QED
            BY <2>2, <3>1, <3>2 DEF Failure, TerminalTargetStates
    <2> QED
        BY <2>3, <2>4
<1> QED
    BY <1>7, <1>10, <1>11, <1>12 DEF us

\* Reconciling again has nothing to cancel.
LEMMA UnblockedIsReconciled ==
    ASSUME NEW ts \in [Row -> TargetStates], NEW B \in SUBSET Row,
           RowsBegun(ts, B), QueueUnblocked(ts), NEW rs
    PROVE  ReconciledRows(rs, ts) = ts
<1> DEFINE U == Unavailable(ts)
           D == CancelledDependents(ts)
<1>1. /\ U \subseteq NamesOf(ts)
      /\ D \subseteq NamesOf(ts) \ U
      /\ \A S \in SUBSET NamesOf(ts) :
            U \subseteq S /\ DependentsClosed(ts, S) => D \subseteq S
    BY CancelledDependentsFacts
<1>2. \A n : n \in U <=> \E z \in Row : ts[z] \in Failure /\ NameOf[z] = n
    BY DEF Unavailable, FailedRows, Failure
<1>3. DependentsClosed(ts, U)
    <2> SUFFICES ASSUME NEW n \in NamesOf(ts), NEW m \in U,
                        m \in ExactDependencies(ts, n), n \notin U
                 PROVE  FALSE
        BY DEF DependentsClosed
    <2>1. PICK y \in Row : ts[y] \in Failure /\ NameOf[y] = m
        BY <1>2
    <2>2. PICK x \in Row : ts[x] # "none" /\ NameOf[x] = n
        BY RowOfName
    <2>3. NameOf[y] \in Deps[NameOf[x]]
        BY <2>1, <2>2 DEF ExactDependencies
    <2>4. ts[x] \notin Failure /\ ts[x] # "queued"
        BY <1>2, <2>1, <2>2, <2>3 DEF QueueUnblocked
    <2>5. ts[x] \in ActiveTargetStates \cup {"succeeded"}
        BY <2>2, <2>4 DEF TargetStates, UnfinishedTargetStates, Failure
    <2>6. x \in B
        BY <2>5 DEF RowsBegun
    <2>7. ts[y] # "none"
        BY <2>1 DEF Failure, TerminalTargetStates
    <2> QED
        BY <2>1, <2>3, <2>6, <2>7, BegunDependency DEF Failure
<1>4. D = {}
    BY <1>1, <1>3
<1>5. CancelQueued(ts, {}) = ts
    BY DEF CancelQueued
<1> QED
    BY <1>4, <1>5 DEF ReconciledRows

\* With rows queued, none executing and none blocked, a row that waits for
\* no queued name can start: dependencies are well founded.
LEMMA SomeRowCanStart ==
    ASSUME NEW ts \in [Row -> TargetStates], QueueUnblocked(ts),
           \A x \in Row : ts[x] \notin ActiveTargetStates,
           \E x \in Row : ts[x] = "queued"
    PROVE  \E x \in Row : ts[x] = "queued" /\ TargetDependenciesSucceeded(ts, x)
<1> DEFINE Q == {NameOf[x] : x \in {y \in Row : ts[y] = "queued"}}
<1>1. Q \in SUBSET Name /\ Q # {}
    BY NameOfAssumption
<1>2. PICK n \in Q : Deps[n] \cap Q = {}
    BY <1>1, DepsAssumption
<1>3. PICK x \in Row : ts[x] = "queued" /\ NameOf[x] = n
    OBVIOUS
<1>4. ASSUME NEW y \in RowsOf(ts),
             NameOf[y] \in ExactDependencies(ts, NameOf[x])
      PROVE  ts[y] = "succeeded"
    <2>1. /\ y \in Row /\ ts[y] # "none"
          /\ NameOf[y] \in Deps[NameOf[x]]
        BY <1>4 DEF RowsOf, ExactDependencies
    <2>2. ts[y] # "queued"
        BY <1>2, <1>3, <2>1
    <2>3. ts[y] \notin Failure
        BY <1>3, <2>1 DEF QueueUnblocked
    <2> QED
        BY <2>1, <2>2, <2>3 DEF TargetStates, UnfinishedTargetStates, Failure
<1> QED
    BY <1>3, <1>4 DEF TargetDependenciesSucceeded

-----------------------------------------------------------------------------
(***************************************************************************)
(* When a run stays open                                                   *)
(***************************************************************************)

\* An executing row keeps its run open.
LEMMA ExecutingKeepsOpen ==
    ASSUME NEW rs \in ActiveRunStates, NEW ts \in [Row -> TargetStates],
           NEW x \in Row, ts[x] \in ActiveTargetStates
    PROVE  ReconciledRun(rs, ts) = rs
<1>1. /\ x \in RowsOf(ts) /\ ts[x] # "succeeded"
      /\ ts[x] \in UnfinishedTargetStates
    BY DEF RowsOf, ActiveTargetStates, UnfinishedTargetStates
<1>2. rs \in RunStates
    BY DEF RunStates
<1> QED
    BY <1>1, <1>2, ReconciledRunFacts

\* A run that reconciliation leaves open has an unfinished row; when it is
\* cancelling, an executing one.
LEMMA OpenHasUnfinished ==
    ASSUME NEW rs \in ActiveRunStates, NEW ts \in [Row -> TargetStates],
           ReconciledRun(rs, ts) = rs, RowsOf(ts) # {}
    PROVE  \E x \in Row : /\ ts[x] \in UnfinishedTargetStates
                          /\ rs = "cancelling" => ts[x] \in ActiveTargetStates
<1> DEFINE states == {ts[x] : x \in Row}
<1>1. DominantFailure(states) \in TerminalRunStates
    BY DominantFailureFacts
<1> HIDE DEF states
<1>2. ReconciledRun(rs, ts) =
        IF rs = "cancelling"
        THEN IF \E x \in Row : ts[x] \in ActiveTargetStates
             THEN rs ELSE "cancelled"
        ELSE IF FailedRows(ts) # {}
        THEN IF \E x \in Row : ts[x] \in UnfinishedTargetStates
             THEN rs ELSE DominantFailure(states)
        ELSE IF RowsOf(ts) # {} /\ \A x \in RowsOf(ts) : ts[x] = "succeeded"
        THEN "succeeded"
        ELSE rs
    BY DEF ReconciledRun, states
<1>3. rs \notin TerminalRunStates /\ rs # "cancelled" /\ rs # "succeeded"
    BY DEF ActiveRunStates, TerminalRunStates
<1>4. CASE rs = "cancelling"
    BY <1>2, <1>3, <1>4 DEF UnfinishedTargetStates
<1>5. CASE rs # "cancelling" /\ FailedRows(ts) # {}
    BY <1>1, <1>2, <1>3, <1>5
<1>6. CASE rs # "cancelling" /\ FailedRows(ts) = {}
    <2>1. PICK x \in RowsOf(ts) : ts[x] # "succeeded"
        BY <1>2, <1>3, <1>6
    <2>2. ts[x] \notin TerminalTargetStates
        BY <1>6, <2>1 DEF FailedRows, RowsOf
    <2> QED
        BY <1>6, <2>1, <2>2 DEF RowsOf, TargetStates
<1> QED
    BY <1>4, <1>5, <1>6

\* A conclusion leaves executions and dependencies as they were.
LEMMA ConclusionKeepsBegun ==
    ASSUME NEW ts \in [Row -> TargetStates], NEW B \in SUBSET Row,
           RowsBegun(ts, B), NEW x \in Row, ts[x] \in ActiveTargetStates,
           NEW end \in TerminalTargetStates
    PROVE  LET us == [ts EXCEPT ![x] = end]
           IN  /\ us \in [Row -> TargetStates]
               /\ RowsAdvance(ts, us)
               /\ RowsBegun(us, B)
               /\ SiblingsBegun(ts, B) => SiblingsBegun(us, B)
<1> DEFINE us == [ts EXCEPT ![x] = end]
<1>1. us \in [Row -> TargetStates]
    BY DEF TargetStates
<1>2. us[x] = end /\ \A y \in Row \ {x} : us[y] = ts[y]
    OBVIOUS
<1> HIDE DEF us
<1>3. RowsAdvance(ts, us)
    BY <1>2 DEF RowsAdvance, TerminalTargetStates, ActiveTargetStates
<1>4. x \in B
    BY DEF RowsBegun
<1>5. RowsBegun(us, B)
    <2> SUFFICES ASSUME NEW y \in Row
                 PROVE  /\ us[y] \in ActiveTargetStates \cup {"succeeded"} => y \in B
                        /\ y \in B => /\ us[y] \notin {"none", "queued"}
                                      /\ TargetDependenciesSucceeded(us, y)
        BY DEF RowsBegun
    <2>1. us[y] \in ActiveTargetStates \cup {"succeeded"} => y \in B
        BY <1>2, <1>4 DEF RowsBegun
    <2>2. ASSUME y \in B
          PROVE  us[y] \notin {"none", "queued"}
        BY <1>2, <2>2 DEF RowsBegun, TerminalTargetStates
    <2>3. ASSUME y \in B
          PROVE  TargetDependenciesSucceeded(us, y)
        BY <1>3, <2>3, DependenciesStay DEF RowsBegun
    <2> QED
        BY <2>1, <2>2, <2>3
<1>6. SiblingsBegun(ts, B) => SiblingsBegun(us, B)
    BY <1>2, <1>4 DEF SiblingsBegun, TerminalTargetStates
<1> QED
    BY <1>1, <1>3, <1>5, <1>6 DEF us

\* A run that a reconciliation leaves active keeps its state.
LEMMA ReconciledRunIdempotent ==
    ASSUME NEW rs \in ActiveRunStates, NEW ts \in [Row -> TargetStates],
           ReconciledRun(rs, ts) \in ActiveRunStates
    PROVE  ReconciledRun(rs, ts) = rs
<1>1. rs \in RunStates
    BY DEF RunStates
<1> QED
    BY <1>1, ReconciledRunFacts DEF ActiveRunStates, TerminalRunStates

-----------------------------------------------------------------------------
(***************************************************************************)
(* Runs that stay reconciled                                               *)
(*                                                                         *)
(* The invariant of one run: executions respect the dependencies, no       *)
(* queued row is behind a failed one, and an active run is active for a    *)
(* reason.  Each operation on a run keeps it.                              *)
(***************************************************************************)
Reconciled(rs, ts, B) ==
    /\ RowsBegun(ts, B)
    /\ rs \in ActiveRunStates => RowsOf(ts) # {} /\ ReconciledRun(rs, ts) = rs
    /\ rs \in {"queued", "running"} => SiblingsBegun(ts, B) /\ QueueUnblocked(ts)

\* A fresh run over queued rows is reconciled.
LEMMA FreshReconciled ==
    ASSUME NEW ts \in [Row -> {"queued", "none"}], RowsOf(ts) # {}
    PROVE  Reconciled("queued", ts, {})
<1>1. \A x \in Row : ts[x] \in {"queued", "none"}
    OBVIOUS
<1>2. ts \in [Row -> TargetStates] /\ "queued" \in RunStates
    BY DEF TargetStates, UnfinishedTargetStates, RunStates, ActiveRunStates
<1>3. RowsBegun(ts, {})
    BY <1>1 DEF RowsBegun, ActiveTargetStates
<1>4. SiblingsBegun(ts, {}) /\ QueueUnblocked(ts) /\ FailedRows(ts) = {}
    BY <1>1 DEF SiblingsBegun, QueueUnblocked, Failure, FailedRows,
                TerminalTargetStates
<1>5. \E x \in RowsOf(ts) : ts[x] # "succeeded"
    BY <1>1 DEF RowsOf
<1>6. ReconciledRun("queued", ts) = "queued"
    BY <1>2, <1>4, <1>5, ReconciledRunFacts
<1> QED
    BY <1>3, <1>4, <1>6 DEF Reconciled

\* _reconcile_run has nothing to do for a reconciled run.
LEMMA ReconciledAlready ==
    ASSUME NEW rs \in ActiveRunStates, NEW ts \in [Row -> TargetStates],
           NEW B \in SUBSET Row, Reconciled(rs, ts, B)
    PROVE  ReconciledRows(rs, ts) = ts /\ ReconciledRun(rs, ts) = rs
<1>1. CASE rs = "cancelling"
    BY <1>1 DEF Reconciled, ReconciledRows
<1>2. CASE rs \in {"queued", "running"}
    BY <1>2, UnblockedIsReconciled DEF Reconciled
<1> QED
    BY <1>1, <1>2 DEF ActiveRunStates

\* A reconciled run that is not cancelling and executes nothing has a row
\* that can start.
LEMMA ReconciledCanGoOn ==
    ASSUME NEW rs \in {"queued", "running"}, NEW ts \in [Row -> TargetStates],
           NEW B, Reconciled(rs, ts, B),
           \A x \in Row : ts[x] \notin ActiveTargetStates
    PROVE  \E x \in Row : ts[x] = "queued" /\ TargetDependenciesSucceeded(ts, x)
<1>1. rs \in ActiveRunStates
    BY DEF ActiveRunStates
<1>2. QueueUnblocked(ts) /\ RowsOf(ts) # {} /\ ReconciledRun(rs, ts) = rs
    BY <1>1 DEF Reconciled
<1>3. \E x \in Row : ts[x] = "queued"
    BY <1>1, <1>2, OpenHasUnfinished DEF UnfinishedTargetStates
<1> QED
    BY <1>2, <1>3, SomeRowCanStart

\* begin_execution.
LEMMA BeginReconciles ==
    ASSUME NEW rs \in {"queued", "running"}, NEW ts \in [Row -> TargetStates],
           NEW B \in SUBSET Row, Reconciled(rs, ts, B),
           NEW x \in Row, ts[x] = "queued", TargetDependenciesSucceeded(ts, x)
    PROVE  LET us == [ts EXCEPT ![x] = "starting"]
           IN  /\ us \in [Row -> TargetStates]
               /\ RowsAdvance(ts, us)
               /\ Reconciled("running", us, B \cup {x})
<1> DEFINE us == [ts EXCEPT ![x] = "starting"]
<1>1. /\ us \in [Row -> TargetStates]
      /\ us[x] = "starting" /\ \A y \in Row \ {x} : us[y] = ts[y]
    BY DEF TargetStates, UnfinishedTargetStates, ActiveTargetStates
<1> HIDE DEF us
<1>2. RowsAdvance(ts, us)
    BY <1>1 DEF RowsAdvance, TerminalTargetStates
<1>3. RowsBegun(ts, B) /\ SiblingsBegun(ts, B) /\ QueueUnblocked(ts)
    BY DEF Reconciled
<1>4. RowsBegun(us, B \cup {x})
    <2> SUFFICES ASSUME NEW y \in Row
                 PROVE  /\ us[y] \in ActiveTargetStates \cup {"succeeded"}
                            => y \in B \cup {x}
                        /\ y \in B \cup {x} =>
                            /\ us[y] \notin {"none", "queued"}
                            /\ TargetDependenciesSucceeded(us, y)
        BY DEF RowsBegun
    <2>1. us[y] \in ActiveTargetStates \cup {"succeeded"} => y \in B \cup {x}
        BY <1>1, <1>3 DEF RowsBegun
    <2>2. y \in B \cup {x} => us[y] \notin {"none", "queued"}
        BY <1>1, <1>3 DEF RowsBegun
    <2>3. y \in B \cup {x} => TargetDependenciesSucceeded(ts, y)
        BY <1>3 DEF RowsBegun
    <2> QED
        BY <1>2, <2>1, <2>2, <2>3, DependenciesStay
<1>5. SiblingsBegun(us, B \cup {x}) /\ QueueUnblocked(us)
    BY <1>1, <1>3 DEF SiblingsBegun, QueueUnblocked, Failure,
                      TerminalTargetStates
<1>6. RowsOf(us) # {}
    BY <1>1 DEF RowsOf
<1>7. ReconciledRun("running", us) = "running"
    BY <1>1, ExecutingKeepsOpen DEF ActiveTargetStates, ActiveRunStates
<1> QED
    BY <1>1, <1>2, <1>4, <1>5, <1>6, <1>7 DEF Reconciled, us

\* record_started.
LEMMA StartReconciles ==
    ASSUME NEW rs \in ActiveRunStates, NEW ts \in [Row -> TargetStates],
           NEW B \in SUBSET Row, Reconciled(rs, ts, B),
           NEW x \in Row, ts[x] = "starting"
    PROVE  LET us == [ts EXCEPT ![x] = "running"]
           IN  /\ us \in [Row -> TargetStates]
               /\ RowsAdvance(ts, us)
               /\ Reconciled(rs, us, B)
<1> DEFINE us == [ts EXCEPT ![x] = "running"]
<1>1. /\ us \in [Row -> TargetStates]
      /\ us[x] = "running" /\ \A y \in Row \ {x} : us[y] = ts[y]
    BY DEF TargetStates, UnfinishedTargetStates, ActiveTargetStates
<1> HIDE DEF us
<1>2. RowsAdvance(ts, us)
    BY <1>1 DEF RowsAdvance, TerminalTargetStates
<1>3. RowsBegun(ts, B) /\ x \in B
    BY DEF Reconciled, RowsBegun, ActiveTargetStates
<1>4. RowsBegun(us, B)
    <2> SUFFICES ASSUME NEW y \in Row
                 PROVE  /\ us[y] \in ActiveTargetStates \cup {"succeeded"} => y \in B
                        /\ y \in B => /\ us[y] \notin {"none", "queued"}
                                      /\ TargetDependenciesSucceeded(us, y)
        BY DEF RowsBegun
    <2>1. us[y] \in ActiveTargetStates \cup {"succeeded"} => y \in B
        BY <1>1, <1>3 DEF RowsBegun
    <2>2. y \in B => us[y] \notin {"none", "queued"}
        BY <1>1, <1>3 DEF RowsBegun
    <2>3. y \in B => TargetDependenciesSucceeded(ts, y)
        BY <1>3 DEF RowsBegun
    <2> QED
        BY <1>2, <2>1, <2>2, <2>3, DependenciesStay
<1>5. /\ SiblingsBegun(ts, B) => SiblingsBegun(us, B)
      /\ QueueUnblocked(ts) => QueueUnblocked(us)
    BY <1>1 DEF SiblingsBegun, QueueUnblocked, Failure, TerminalTargetStates
<1>6. RowsOf(us) # {}
    BY <1>1 DEF RowsOf
<1>7. ReconciledRun(rs, us) = rs
    BY <1>1, ExecutingKeepsOpen DEF ActiveTargetStates
<1> QED
    BY <1>1, <1>2, <1>4, <1>5, <1>6, <1>7 DEF Reconciled, us

\* The rows after a conclusion and the reconciliation that follows it.
RowsAfter(rs, ts, x, end) == ReconciledRows(rs, [ts EXCEPT ![x] = end])

\* A conclusion with the reconciliation that follows it; a row it gives up
\* is behind a failed one.
LEMMA ConclusionReconciles ==
    ASSUME NEW rs \in ActiveRunStates, NEW ts \in [Row -> TargetStates],
           NEW B \in SUBSET Row, Reconciled(rs, ts, B), RunSettled(rs, ts),
           NEW x \in Row, ts[x] \in ActiveTargetStates,
           NEW end \in TerminalTargetStates
    PROVE  LET us == RowsAfter(rs, ts, x, end)
               qs == ReconciledRun(rs, us)
           IN  /\ us \in [Row -> TargetStates]
               /\ us[x] = end
               /\ RowsAdvance(ts, us)
               /\ \A y \in Row \ {x} :
                    \/ us[y] = ts[y]
                    \/ /\ ts[y] = "queued" /\ us[y] = "cancelled"
                       /\ \E z \in Row : /\ NameOf[z] \in Deps[NameOf[y]]
                                         /\ us[z] \in Failure
               /\ QueueUnblocked(us)
               /\ RowsOf(us) # {}
               /\ qs \in ActiveRunStates \cup TerminalRunStates
               /\ RunSettled(qs, us)
               /\ Reconciled(qs, us, B)
<1> DEFINE cs == [ts EXCEPT ![x] = end]
           us == RowsAfter(rs, ts, x, end)
           qs == ReconciledRun(rs, us)
<1>0. us = ReconciledRows(rs, cs) /\ qs = ReconciledRun(rs, us)
    BY DEF RowsAfter
<1>1. /\ cs \in [Row -> TargetStates]
      /\ RowsAdvance(ts, cs)
      /\ RowsBegun(cs, B)
      /\ SiblingsBegun(ts, B) => SiblingsBegun(cs, B)
    BY ConclusionKeepsBegun DEF Reconciled
<1>2. cs[x] = end /\ \A y \in Row \ {x} : cs[y] = ts[y]
    OBVIOUS
<1> HIDE DEF cs, us, qs
<1>3. rs \in RunStates
    BY DEF RunStates
<1>4. /\ us \in [Row -> TargetStates]
      /\ \A y \in Row :
            \/ us[y] = cs[y]
            \/ cs[y] = "queued" /\ us[y] = "cancelled" /\ rs # "cancelling"
      /\ rs = "cancelling" => us = cs
    BY <1>0, <1>1, <1>3, ReconciledRowsFacts
<1>5. rs = "cancelling" => \A y \in Row : cs[y] # "queued"
    BY <1>2 DEF RunSettled, TerminalTargetStates
<1>6. /\ qs \in ActiveRunStates \cup TerminalRunStates
      /\ RowsAdvance(cs, us)
      /\ RunSettled(qs, us)
    BY <1>0, <1>1, <1>5, ReconcileSettles
<1>7. qs \in ActiveRunStates => qs = rs
    BY <1>0, <1>4, ReconciledRunIdempotent
<1>8. /\ RowsBegun(us, B)
      /\ rs # "cancelling" => SiblingsBegun(us, B)
      /\ QueueUnblocked(us)
      /\ \A y \in Row :
            us[y] # cs[y] => \E z \in Row : /\ NameOf[z] \in Deps[NameOf[y]]
                                            /\ us[z] \in Failure
    <2>1. CASE rs = "cancelling"
        BY <1>1, <1>4, <1>5, <2>1 DEF QueueUnblocked
    <2>2. CASE rs \in {"queued", "running"}
        <3>1. SiblingsBegun(cs, B)
            BY <1>1, <2>2 DEF Reconciled
        <3> QED
            BY <1>0, <1>1, <2>2, <3>1, ReconcileUnblocks
    <2> QED
        BY <2>1, <2>2 DEF ActiveRunStates
<1>9. us[x] = end
    BY <1>2, <1>4 DEF TerminalTargetStates
<1>10. RowsAdvance(ts, us)
    BY <1>1, <1>6, RowsAdvanceTransitive
<1>11. RowsOf(us) # {}
    BY <1>10, RowsAdvanceKeepsNames DEF Reconciled
<1>12. \A y \in Row \ {x} :
        \/ us[y] = ts[y]
        \/ /\ ts[y] = "queued" /\ us[y] = "cancelled"
           /\ \E z \in Row : NameOf[z] \in Deps[NameOf[y]] /\ us[z] \in Failure
    BY <1>2, <1>4, <1>8
<1>13. Reconciled(qs, us, B)
    <2>1. CASE qs \in ActiveRunStates
        <3>1. qs = rs /\ ReconciledRun(qs, us) = qs
            BY <1>0, <1>7, <2>1
        <3> QED
            BY <1>8, <1>11, <3>1 DEF Reconciled
    <2>2. CASE qs \notin ActiveRunStates
        BY <1>8, <2>2 DEF Reconciled, ActiveRunStates
    <2> QED
        BY <2>1, <2>2
<1> QED
    BY <1>4, <1>6, <1>8, <1>9, <1>10, <1>11, <1>12, <1>13 DEF us, qs

\* request_cancel.
LEMMA WithdrawalReconciles ==
    ASSUME NEW rs \in ActiveRunStates, NEW ts \in [Row -> TargetStates],
           NEW B \in SUBSET Row, Reconciled(rs, ts, B)
    PROVE  LET us == CancelledRows(ts)
               qs == ReconciledRun("cancelling", us)
           IN  /\ us \in [Row -> TargetStates]
               /\ \A x \in Row :
                    \/ /\ ts[x] \notin {"queued", "starting", "running"}
                       /\ us[x] = ts[x]
                    \/ ts[x] = "queued" /\ us[x] = "cancelled"
                    \/ ts[x] \in {"starting", "running"} /\ us[x] = "stopping"
               /\ RowsAdvance(ts, us)
               /\ RowsOf(us) # {}
               /\ qs \in ActiveRunStates \cup TerminalRunStates
               /\ RunSettled(qs, us)
               /\ Reconciled(qs, us, B)
<1> DEFINE us == CancelledRows(ts)
           qs == ReconciledRun("cancelling", us)
<1>1. /\ us \in [Row -> TargetStates]
      /\ \A x \in Row :
            \/ /\ ts[x] \notin {"queued", "starting", "running"}
               /\ us[x] = ts[x]
            \/ ts[x] = "queued" /\ us[x] = "cancelled"
            \/ ts[x] \in {"starting", "running"} /\ us[x] = "stopping"
    BY CancelledRowsFacts
<1>2. "cancelling" \in ActiveRunStates
    BY DEF ActiveRunStates
<1>3. \A x \in Row : us[x] # "queued"
    BY <1>1
<1>4. ReconciledRows("cancelling", us) = us
    BY DEF ReconciledRows
<1>5. qs \in ActiveRunStates \cup TerminalRunStates /\ RunSettled(qs, us)
    BY <1>1, <1>2, <1>3, <1>4, ReconcileSettles
<1>6. qs \in ActiveRunStates =>
        qs = "cancelling" /\ ReconciledRun(qs, us) = qs
    BY <1>1, <1>2, ReconciledRunIdempotent
<1> HIDE DEF us, qs
<1>7. RowsAdvance(ts, us)
    BY <1>1 DEF RowsAdvance, TerminalTargetStates
<1>8. RowsOf(us) # {}
    BY <1>7, RowsAdvanceKeepsNames DEF Reconciled
<1>9. RowsBegun(us, B)
    <2> SUFFICES ASSUME NEW y \in Row
                 PROVE  /\ us[y] \in ActiveTargetStates \cup {"succeeded"} => y \in B
                        /\ y \in B => /\ us[y] \notin {"none", "queued"}
                                      /\ TargetDependenciesSucceeded(us, y)
        BY DEF RowsBegun
    <2>0. RowsBegun(ts, B)
        BY DEF Reconciled
    <2>1. us[y] \in ActiveTargetStates \cup {"succeeded"} => y \in B
        BY <1>1, <2>0 DEF RowsBegun, ActiveTargetStates
    <2>2. y \in B => us[y] \notin {"none", "queued"}
        BY <1>1, <2>0 DEF RowsBegun
    <2>3. y \in B => TargetDependenciesSucceeded(ts, y)
        BY <2>0 DEF RowsBegun
    <2> QED
        BY <1>7, <2>1, <2>2, <2>3, DependenciesStay
<1>10. Reconciled(qs, us, B)
    BY <1>6, <1>8, <1>9 DEF Reconciled, ActiveRunStates
<1> QED
    BY <1>1, <1>5, <1>7, <1>8, <1>10 DEF us, qs

-----------------------------------------------------------------------------
(***************************************************************************)
(* Slots and verdicts of RunContract                                       *)
(***************************************************************************)

\* The abstraction tells the states of a row apart by what happened to it.
LEMMA SlotFacts ==
    ASSUME NEW ts \in [Row -> TargetStates]
    PROVE  /\ SlotsFor(ts) \in
                [Row -> {"absent", "waiting", "held", "passed", "failed"}]
           /\ \A x \in Row :
                /\ SlotsFor(ts)[x] = "absent" <=> ts[x] = "none"
                /\ SlotsFor(ts)[x] = "waiting" <=> ts[x] = "queued"
                /\ SlotsFor(ts)[x] = "held" <=> ts[x] \in ActiveTargetStates
                /\ SlotsFor(ts)[x] = "passed" <=> ts[x] = "succeeded"
                /\ SlotsFor(ts)[x] = "failed" <=> ts[x] \in Failure
BY DEF SlotsFor, TargetStates, UnfinishedTargetStates, ActiveTargetStates,
       TerminalTargetStates, Failure

\* The run's state after a reconciliation is one its rows allow.
LEMMA VerdictAllowed ==
    ASSUME NEW rs \in ActiveRunStates, NEW ts \in [Row -> TargetStates],
           RowsOf(ts) # {},
           rs = "cancelling" => \A x \in Row : ts[x] # "queued"
    PROVE  LET verdict == VerdictFor(ReconciledRun(rs, ts))
           IN  IF \E x \in Row : ts[x] \in UnfinishedTargetStates
               THEN verdict = "open"
               ELSE \/ verdict = "failed"
                    \/ /\ verdict = "passed"
                       /\ \A x \in RowsOf(ts) : ts[x] = "succeeded"
<1> DEFINE qs == ReconciledRun(rs, ts)
<1>1. rs \in RunStates
    BY DEF RunStates
<1>2. \/ qs = rs
      \/ /\ rs = "cancelling"
         /\ qs = "cancelled"
         /\ \A x \in Row : ts[x] \notin ActiveTargetStates
      \/ /\ rs # "cancelling"
         /\ qs \in TerminalRunStates \ {"succeeded"}
         /\ FailedRows(ts) # {}
         /\ \A x \in Row : ts[x] \notin UnfinishedTargetStates
      \/ /\ rs # "cancelling"
         /\ qs = "succeeded"
         /\ RowsOf(ts) # {}
         /\ \A x \in RowsOf(ts) : ts[x] = "succeeded"
    BY <1>1, ReconciledRunFacts
<1>3. qs = rs => \E x \in Row : ts[x] \in UnfinishedTargetStates
    BY OpenHasUnfinished
<1> HIDE DEF qs
<1>4. CASE qs = rs
    <2>1. VerdictFor(qs) = "open"
        BY <1>4 DEF VerdictFor, ActiveRunStates
    <2> QED
        BY <1>3, <1>4, <2>1 DEF qs
<1>5. CASE /\ rs = "cancelling"
           /\ qs = "cancelled"
           /\ \A x \in Row : ts[x] \notin ActiveTargetStates
    <2>1. VerdictFor(qs) = "failed"
        BY <1>5 DEF VerdictFor, ActiveRunStates
    <2>2. ~\E x \in Row : ts[x] \in UnfinishedTargetStates
        BY <1>5 DEF UnfinishedTargetStates
    <2> QED
        BY <2>1, <2>2 DEF qs
<1>6. CASE /\ qs \in TerminalRunStates \ {"succeeded"}
           /\ \A x \in Row : ts[x] \notin UnfinishedTargetStates
    <2>1. VerdictFor(qs) = "failed"
        BY <1>6 DEF VerdictFor, ActiveRunStates, TerminalRunStates
    <2> QED
        BY <1>6, <2>1 DEF qs
<1>7. CASE qs = "succeeded" /\ \A x \in RowsOf(ts) : ts[x] = "succeeded"
    <2>1. VerdictFor(qs) = "passed"
        BY <1>7 DEF VerdictFor, ActiveRunStates
    <2>2. ~\E x \in Row : ts[x] \in UnfinishedTargetStates
        BY <1>7 DEF RowsOf, UnfinishedTargetStates, ActiveTargetStates
    <2> QED
        BY <1>7, <2>1, <2>2 DEF qs
<1> QED
    BY <1>2, <1>4, <1>5, <1>6, <1>7

\* What the steps of RunContract say of the slots before and after them: one
\* is taken, or some are settled under verdict v.
SlotTaken(s, t, x) ==
    /\ s[x] = "waiting"
    /\ \A y \in Row :
        NameOf[y] \in Deps[NameOf[x]] => s[y] \in {"absent", "passed"}
    /\ t = [s EXCEPT ![x] = "held"]

SlotsSettle(s, t, v) ==
    /\ t \in [Row -> {"absent", "waiting", "held", "passed", "failed"}]
    /\ \A x \in Row :
        \/ t[x] = s[x]
        \/ s[x] = "held" /\ t[x] \in {"passed", "failed"}
        \/ /\ s[x] = "waiting" /\ t[x] = "failed"
           /\ \/ \A y \in Row : t[y] # "waiting"
              \/ \E y \in Row : NameOf[y] \in Deps[NameOf[x]] /\ t[y] = "failed"
    /\ \A x, y \in Row :
        s[x] = "held" /\ s[y] = "held" => x = y \/ t[x] = s[x] \/ t[y] = s[y]
    /\ \A x, y \in Row :
        t[x] = "waiting" /\ NameOf[y] \in Deps[NameOf[x]] => t[y] # "failed"
    /\ v \in IF ~\A x \in Row : t[x] \notin {"waiting", "held"} THEN {"open"}
             ELSE IF \A x \in Row : t[x] \in {"absent", "passed"}
             THEN {"passed", "failed"} ELSE {"failed"}

\* Beginning an execution takes a waiting slot.
LEMMA BeginTakesSlot ==
    ASSUME NEW ts \in [Row -> TargetStates], NEW x \in Row, ts[x] = "queued",
           TargetDependenciesSucceeded(ts, x)
    PROVE  SlotTaken(SlotsFor(ts), SlotsFor([ts EXCEPT ![x] = "starting"]), x)
<1> DEFINE us == [ts EXCEPT ![x] = "starting"]
<1>1. SlotsFor(ts)[x] = "waiting"
    BY SlotFacts
<1>2. ASSUME NEW y \in Row, NameOf[y] \in Deps[NameOf[x]]
      PROVE  SlotsFor(ts)[y] \in {"absent", "passed"}
    <2>1. CASE ts[y] = "none"
        BY <2>1, SlotFacts
    <2>2. CASE ts[y] # "none"
        <3>1. y \in RowsOf(ts)
            BY <2>2 DEF RowsOf
        <3>2. NameOf[y] \in ExactDependencies(ts, NameOf[x])
            BY <1>2, <2>2, RowOfName DEF ExactDependencies
        <3>3. ts[y] = "succeeded"
            BY <3>1, <3>2 DEF TargetDependenciesSucceeded
        <3> QED
            BY <3>3, SlotFacts
    <2> QED
        BY <2>1, <2>2
<1>3. us[x] = "starting" /\ \A y \in Row \ {x} : us[y] = ts[y]
    OBVIOUS
<1> HIDE DEF us
<1>4. SlotsFor(us) = [SlotsFor(ts) EXCEPT ![x] = "held"]
    BY <1>3 DEF SlotsFor, ActiveTargetStates
<1> QED
    BY <1>1, <1>2, <1>4 DEF SlotTaken, us

\* Recording a start does not show in the slots.
LEMMA StartKeepsSlots ==
    ASSUME NEW ts \in [Row -> TargetStates], NEW x \in Row, ts[x] = "starting"
    PROVE  SlotsFor([ts EXCEPT ![x] = "running"]) = SlotsFor(ts)
BY DEF SlotsFor, ActiveTargetStates

\* What the rows must do for a step to settle the slots.
LEMMA RowsSettle ==
    ASSUME NEW ts \in [Row -> TargetStates], NEW us \in [Row -> TargetStates],
           NEW v,
           \A x \in Row :
             \/ us[x] = ts[x]
             \/ ts[x] \in ActiveTargetStates
                /\ us[x] \in ActiveTargetStates \cup TerminalTargetStates
             \/ /\ ts[x] = "queued" /\ us[x] \in Failure
                /\ \/ \A y \in Row : us[y] # "queued"
                   \/ \E y \in Row : /\ NameOf[y] \in Deps[NameOf[x]]
                                     /\ us[y] \in Failure,
           \A x, y \in Row :
             ts[x] \in ActiveTargetStates /\ ts[y] \in ActiveTargetStates
               => \/ x = y
                  \/ us[x] \in ActiveTargetStates
                  \/ us[y] \in ActiveTargetStates,
           QueueUnblocked(us),
           IF \E x \in Row : us[x] \in UnfinishedTargetStates
           THEN v = "open"
           ELSE \/ v = "failed"
                \/ v = "passed" /\ \A x \in RowsOf(us) : us[x] = "succeeded"
    PROVE  SlotsSettle(SlotsFor(ts), SlotsFor(us), v)
<1> DEFINE s == SlotsFor(ts)
           t == SlotsFor(us)
<1>1. /\ s \in [Row -> {"absent", "waiting", "held", "passed", "failed"}]
      /\ t \in [Row -> {"absent", "waiting", "held", "passed", "failed"}]
    BY SlotFacts
<1>2. \A x \in Row :
        /\ s[x] = "waiting" <=> ts[x] = "queued"
        /\ s[x] = "held" <=> ts[x] \in ActiveTargetStates
        /\ t[x] = "absent" <=> us[x] = "none"
        /\ t[x] = "waiting" <=> us[x] = "queued"
        /\ t[x] = "held" <=> us[x] \in ActiveTargetStates
        /\ t[x] = "passed" <=> us[x] = "succeeded"
        /\ t[x] = "failed" <=> us[x] \in Failure
        /\ us[x] = ts[x] => t[x] = s[x]
    <2>1. \A x \in Row : us[x] = ts[x] => t[x] = s[x]
        BY DEF SlotsFor
    <2> QED
        BY <2>1, SlotFacts
<1> HIDE DEF s, t
<1>3. ASSUME NEW x \in Row
      PROVE  \/ t[x] = s[x]
             \/ s[x] = "held" /\ t[x] \in {"passed", "failed"}
             \/ /\ s[x] = "waiting" /\ t[x] = "failed"
                /\ \/ \A y \in Row : t[y] # "waiting"
                   \/ \E y \in Row : /\ NameOf[y] \in Deps[NameOf[x]]
                                     /\ t[y] = "failed"
    <2>1. CASE us[x] = ts[x]
        BY <1>2, <2>1
    <2>2. CASE ts[x] \in ActiveTargetStates /\ us[x] \in ActiveTargetStates
        BY <1>2, <2>2
    <2>3. CASE ts[x] \in ActiveTargetStates /\ us[x] \in TerminalTargetStates
        <3>1. us[x] = "succeeded" \/ us[x] \in Failure
            BY <2>3 DEF Failure
        <3> QED
            BY <1>2, <2>3, <3>1
    <2>4. CASE /\ ts[x] = "queued" /\ us[x] \in Failure
               /\ \/ \A y \in Row : us[y] # "queued"
                  \/ \E y \in Row : /\ NameOf[y] \in Deps[NameOf[x]]
                                    /\ us[y] \in Failure
        <3>1. s[x] = "waiting" /\ t[x] = "failed"
            BY <1>2, <2>4
        <3>2. CASE \A y \in Row : us[y] # "queued"
            BY <1>2, <3>1, <3>2
        <3>3. CASE \E y \in Row : /\ NameOf[y] \in Deps[NameOf[x]]
                                  /\ us[y] \in Failure
            BY <1>2, <3>1, <3>3
        <3> QED
            BY <2>4, <3>2, <3>3
    <2> QED
        BY <2>1, <2>2, <2>3, <2>4
<1>4. \A x, y \in Row :
        s[x] = "held" /\ s[y] = "held" => x = y \/ t[x] = s[x] \/ t[y] = s[y]
    BY <1>2
<1>5. \A x, y \in Row :
        t[x] = "waiting" /\ NameOf[y] \in Deps[NameOf[x]] => t[y] # "failed"
    BY <1>2 DEF QueueUnblocked
<1>6. v \in
        IF ~\A x \in Row : t[x] \notin {"waiting", "held"} THEN {"open"}
        ELSE IF \A x \in Row : t[x] \in {"absent", "passed"}
        THEN {"passed", "failed"} ELSE {"failed"}
    <2>1. (\E x \in Row : us[x] \in UnfinishedTargetStates) <=>
            ~\A x \in Row : t[x] \notin {"waiting", "held"}
        BY <1>2 DEF UnfinishedTargetStates
    <2>2. (\A x \in RowsOf(us) : us[x] = "succeeded") =>
            \A x \in Row : t[x] \in {"absent", "passed"}
        BY <1>2 DEF RowsOf
    <2> QED
        BY <2>1, <2>2
<1> QED
    BY <1>1, <1>3, <1>4, <1>5, <1>6 DEF SlotsSettle, s, t

\* Concluding a row settles the slots: the row gets its result, and the rows
\* given up with it are behind a failed one.
LEMMA ConclusionSettlesSlots ==
    ASSUME NEW rs \in ActiveRunStates, NEW ts \in [Row -> TargetStates],
           NEW B \in SUBSET Row, Reconciled(rs, ts, B), RunSettled(rs, ts),
           NEW x \in Row, ts[x] \in ActiveTargetStates,
           NEW end \in TerminalTargetStates
    PROVE  LET us == RowsAfter(rs, ts, x, end)
           IN  SlotsSettle(SlotsFor(ts), SlotsFor(us),
                           VerdictFor(ReconciledRun(rs, us)))
<1> DEFINE us == RowsAfter(rs, ts, x, end)
           v == VerdictFor(ReconciledRun(rs, us))
<1>1. /\ us \in [Row -> TargetStates]
      /\ us[x] = end
      /\ \A y \in Row \ {x} :
            \/ us[y] = ts[y]
            \/ /\ ts[y] = "queued" /\ us[y] = "cancelled"
               /\ \E z \in Row : /\ NameOf[z] \in Deps[NameOf[y]]
                                 /\ us[z] \in Failure
      /\ QueueUnblocked(us)
      /\ RowsOf(us) # {}
    BY ConclusionReconciles
<1> HIDE DEF us
<1>2. \A y \in Row :
        \/ us[y] = ts[y]
        \/ ts[y] \in ActiveTargetStates
           /\ us[y] \in ActiveTargetStates \cup TerminalTargetStates
        \/ /\ ts[y] = "queued" /\ us[y] \in Failure
           /\ \/ \A z \in Row : us[z] # "queued"
              \/ \E z \in Row : /\ NameOf[z] \in Deps[NameOf[y]]
                                /\ us[z] \in Failure
    <2>1. "cancelled" \in Failure
        BY DEF Failure, TerminalTargetStates
    <2> QED
        BY <1>1, <2>1
<1>3. \A y, z \in Row :
        ts[y] \in ActiveTargetStates /\ ts[z] \in ActiveTargetStates
            => \/ y = z
               \/ us[y] \in ActiveTargetStates
               \/ us[z] \in ActiveTargetStates
    BY <1>1 DEF ActiveTargetStates
<1>4. rs = "cancelling" => \A y \in Row : us[y] # "queued"
    BY <1>1 DEF RunSettled, TerminalTargetStates
<1>5. IF \E y \in Row : us[y] \in UnfinishedTargetStates
      THEN v = "open"
      ELSE \/ v = "failed"
           \/ v = "passed" /\ \A y \in RowsOf(us) : us[y] = "succeeded"
    BY <1>1, <1>4, VerdictAllowed
<1> HIDE DEF v
<1>6. SlotsSettle(SlotsFor(ts), SlotsFor(us), v)
    BY <1>1, <1>2, <1>3, <1>5, RowsSettle
<1> QED
    BY <1>6 DEF us, v

\* Withdrawing a run settles its slots: nothing is left waiting.
LEMMA WithdrawalSettlesSlots ==
    ASSUME NEW rs \in ActiveRunStates, NEW ts \in [Row -> TargetStates],
           NEW B \in SUBSET Row, Reconciled(rs, ts, B)
    PROVE  LET us == CancelledRows(ts)
           IN  SlotsSettle(SlotsFor(ts), SlotsFor(us),
                           VerdictFor(ReconciledRun("cancelling", us)))
<1> DEFINE us == CancelledRows(ts)
           v == VerdictFor(ReconciledRun("cancelling", us))
<1>1. /\ us \in [Row -> TargetStates]
      /\ \A x \in Row :
            \/ /\ ts[x] \notin {"queued", "starting", "running"}
               /\ us[x] = ts[x]
            \/ ts[x] = "queued" /\ us[x] = "cancelled"
            \/ ts[x] \in {"starting", "running"} /\ us[x] = "stopping"
      /\ RowsOf(us) # {}
    BY WithdrawalReconciles
<1> HIDE DEF us
<1>2. \A x \in Row : us[x] # "queued"
    BY <1>1
<1>3. \A x \in Row :
        \/ us[x] = ts[x]
        \/ ts[x] \in ActiveTargetStates
           /\ us[x] \in ActiveTargetStates \cup TerminalTargetStates
        \/ /\ ts[x] = "queued" /\ us[x] \in Failure
           /\ \/ \A y \in Row : us[y] # "queued"
              \/ \E y \in Row : /\ NameOf[y] \in Deps[NameOf[x]]
                                /\ us[y] \in Failure
    BY <1>1, <1>2 DEF ActiveTargetStates, Failure, TerminalTargetStates
<1>4. \A x, y \in Row :
        ts[x] \in ActiveTargetStates /\ ts[y] \in ActiveTargetStates
            => \/ x = y
               \/ us[x] \in ActiveTargetStates
               \/ us[y] \in ActiveTargetStates
    BY <1>1 DEF ActiveTargetStates
<1>5. QueueUnblocked(us)
    BY <1>2 DEF QueueUnblocked
<1>6. "cancelling" \in ActiveRunStates
    BY DEF ActiveRunStates
<1>7. IF \E x \in Row : us[x] \in UnfinishedTargetStates
      THEN v = "open"
      ELSE \/ v = "failed"
           \/ v = "passed" /\ \A x \in RowsOf(us) : us[x] = "succeeded"
    BY <1>1, <1>2, <1>6, VerdictAllowed
<1> HIDE DEF v
<1>8. SlotsSettle(SlotsFor(ts), SlotsFor(us), v)
    BY <1>1, <1>3, <1>4, <1>5, <1>7, RowsSettle
<1> QED
    BY <1>8 DEF us, v
=============================================================================
