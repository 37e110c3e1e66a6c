----------------------------- MODULE TestdProofs ----------------------------
(***************************************************************************)
(* Proofs about the test engine daemon, the broker adapter and the root    *)
(* authority, for every set of rows, names and outcomes and every bound on *)
(* faults: no unit runs under a concluded row and a measured result is     *)
(* kept, units follow the dependencies, a unit starts once and its         *)
(* evidence outlives it, and the run implements RunContract.               *)
(*                                                                         *)
(* Every action is first shown to be one of a few effects on each row of   *)
(* the host, on each thread and on the run; the inductive invariant is     *)
(* then shown to be kept by the effects.                                   *)
(***************************************************************************)
EXTENDS Testd, RunStateProofs

-----------------------------------------------------------------------------
(***************************************************************************)
(* The inductive invariant                                                 *)
(***************************************************************************)

\* The rows that own an execution, read off the rows themselves.
Begun(ts) ==
    {x \in Row : /\ ts[x] \notin {"none", "queued"}
                 /\ TargetDependenciesSucceeded(ts, x)}

\* The run is settled and reconciled, so the reconciliation of schedule and
\* of restart cleanup finds nothing to do.
RunInv == RunSettled(run, rows) /\ Reconciled(run, rows, Begun(rows))

LaunchPending(x) == [row |-> x, op |-> "launch"] \in pending
CollectPending(x) == [row |-> x, op |-> "collect"] \in pending

\* The loop began x and has not asked for its launch.
AtStart(x) == thread["loop"].at = "start" /\ thread["loop"].row = x

\* The authority has nothing of x.
Unlaunched(x) ==
    /\ evidence[x] = "none" /\ x \notin known
    /\ launching[x] = "idle" /\ unit[x] = "none" /\ package[x] = "none"

\* No unit of x runs and no launch of x can start one any more.
Quiet(x) ==
    /\ unit[x] # "active" /\ launching[x] \in {"idle", "ran"}
    /\ ~LaunchPending(x) /\ ~AtStart(x)

Concluded(x) == rows[x] \in TerminalTargetStates

\* What the files and the handlers of the authority say of the unit.  A launch
\* that was undone may leave a package, and no evidence of it.
EvidenceInv(x) ==
    /\ unit[x] = "none" => package[x] = "none" \/ evidence[x] = "none"
    /\ launching[x] = "files" => evidence[x] = "launch" /\ unit[x] = "none"
    /\ launching[x] = "prepared" => evidence[x] = "prepared" /\ unit[x] = "none"
    /\ launching[x] = "ran" => evidence[x] \in {"prepared", "started"}
    /\ launching[x] = "ran" \/ evidence[x] = "started" => unit[x] # "none"

\* What the row says of the host.
HostInv(x) ==
    /\ rows[x] = "queued" \/ AtStart(x) \/ LaunchPending(x) => Unlaunched(x)
    /\ rows[x] = "queued" \/ AtStart(x) => ~LaunchPending(x)
    /\ rows[x] = "queued" => ~AtStart(x)
    /\ Concluded(x) => Quiet(x)
    /\ CollectPending(x) \/ x \in committed => Concluded(x)
    /\ Concluded(x) /\ evidence[x] # "none" =>
        /\ package[x] = "pass" => rows[x] = "succeeded"
        /\ package[x] = "fail" => rows[x] = "test_failed"
    /\ unit[x] # "none" => TargetDependenciesSucceeded(rows, x)

\* The places where a thread carries an observation.
Working == {"record", "started", "decide", "stop", "stopped", "settle"}

\* An observation may be old when it is used; what it says of a stopped unit
\* and its package is final all the same, unless the launch is undone.
ThreadInv(t) ==
    LET x == thread[t].row
        obs == thread[t].obs
    IN  /\ thread[t].at \in Working =>
            /\ obs.state \in {"running", "exited", "absent"}
            /\ rows[x] # "queued"
            /\ obs.state = "running" => obs.package = "none"
            /\ obs.state # "running" =>
                /\ Quiet(x)
                /\ rows[x] \in ActiveTargetStates =>
                    obs.package = package[x] \/ evidence[x] = "none"
        /\ thread[t].at = "settle" => obs.state # "running"
        /\ thread[t].at = "stop" =>
            thread[t].why \in {"deadline", "cancel", "restart", "restart_late"}
        /\ thread[t].at = "collect" => Concluded(x)

Inv ==
    /\ RunTypeOK
    /\ RunInv
    /\ \A x \in Row : EvidenceInv(x) /\ HostInv(x)
    /\ \A t \in Thread : ThreadInv(t)

-----------------------------------------------------------------------------
(***************************************************************************)
(* Effects of a step                                                       *)
(***************************************************************************)

\* On the host, for one row: nothing new is started.  A status or stop call
\* may complete the evidence of a loaded unit, the unit may end, a handler
\* may end or be lost in a crash.
HostKeeps(x) ==
    /\ \/ unit'[x] = unit[x]
       \/ unit[x] # "none" /\ unit'[x] = "dead"
    /\ package'[x] = package[x]
    /\ launching'[x] \in {launching[x], "idle"}
    /\ \/ evidence'[x] = evidence[x]
       \/ HasNativeContext(x) /\ evidence'[x] = "started"
    /\ x \in known' => x \in known \/ evidence[x] # "none"
    /\ LaunchPending(x)' => LaunchPending(x)

\* A concluded execution is collected.
HostCollects(x) ==
    /\ Concluded(x)
    /\ launching'[x] = launching[x] /\ launching[x] = "idle"
    /\ evidence'[x] = "none" /\ unit'[x] = "none" /\ package'[x] = "none"
    /\ LaunchPending(x)' => LaunchPending(x)

\* The loop asks for a launch.
HostAsked(x) ==
    /\ AtStart(x) /\ ~AtStart(x)'
    /\ unit'[x] = unit[x] /\ package'[x] = package[x]
    /\ launching'[x] = launching[x] /\ evidence'[x] = evidence[x]
    /\ x \in known' => x \in known

\* The steps of a launch.
HostAccepts(x) ==
    /\ LaunchPending(x) /\ ~LaunchPending(x)'
    /\ launching'[x] = "files" /\ evidence'[x] = "launch"
    /\ unit'[x] = unit[x] /\ package'[x] = package[x]

HostPrepares(x) ==
    /\ launching[x] = "files"
    /\ launching'[x] = "prepared" /\ evidence'[x] = "prepared"
    /\ unit'[x] = unit[x] /\ package'[x] = package[x]
    /\ LaunchPending(x)' => LaunchPending(x)

HostRuns(x) ==
    /\ launching[x] = "prepared"
    /\ \/ launching'[x] = "ran" /\ evidence'[x] = evidence[x] /\ unit'[x] = "active"
       \/ /\ launching'[x] = "idle" /\ evidence'[x] = "none"
          /\ unit'[x] = unit[x]
    /\ package'[x] = package[x]
    /\ LaunchPending(x)' => LaunchPending(x)

\* A launch that had started its unit fails and removes its material.
HostUndoes(x) ==
    /\ launching[x] = "ran"
    /\ launching'[x] = "idle" /\ evidence'[x] = "none"
    /\ unit'[x] \in {"none", "dead", unit[x]}
    /\ package'[x] \in {"none", package[x]}
    /\ LaunchPending(x)' => LaunchPending(x)

\* The runner publishes.
HostPublishes(x) ==
    /\ unit[x] = "active" /\ package[x] = "none"
    /\ unit'[x] = unit[x] /\ evidence'[x] = evidence[x]
    /\ launching'[x] = launching[x] /\ (x \in known' => x \in known)
    /\ LaunchPending(x)' => LaunchPending(x)

HostEffect(x) ==
    \/ HostKeeps(x) \/ HostCollects(x) \/ HostAsked(x) \/ HostAccepts(x)
    \/ HostPrepares(x) \/ HostRuns(x) \/ HostUndoes(x) \/ HostPublishes(x)

\* On a thread: it has nothing in hand afterwards, collects a concluded row,
\* is about to launch the row it began, holds a new observation, or carries
\* on with the one it had.
ThreadDrops(t) ==
    thread'[t].at \notin Working \cup {"collect", "start"}

ThreadCollects(t) ==
    /\ thread'[t].at = "collect"
    /\ rows'[thread'[t].row] \in TerminalTargetStates

ThreadBegins(t) ==
    /\ t = "loop" /\ thread'[t].at = "start"
    /\ rows[thread'[t].row] = "queued" /\ rows'[thread'[t].row] = "starting"

ThreadObserves(t) ==
    LET x == thread'[t].row
        obs == thread'[t].obs
    IN  /\ thread'[t].at \in {"record", "stop", "settle"}
        /\ obs = Observed(x) /\ obs.state # "refused"
        /\ thread'[t].at = "settle" => obs.state # "running"
        /\ thread'[t].at = "stop" =>
            thread'[t].why \in {"deadline", "cancel", "restart", "restart_late"}
        /\ UNCHANGED <<unit, package, launching, pending, run, rows>>

ThreadCarries(t) ==
    /\ thread[t].at \in Working /\ thread'[t].at \in Working
    /\ thread'[t].row = thread[t].row /\ thread'[t].obs = thread[t].obs
    /\ thread'[t].at = "settle" => thread[t].obs.state # "running"
    /\ thread'[t].at = "stop" =>
        thread'[t].why \in {"deadline", "cancel", "restart", "restart_late"}

ThreadEffect(t) ==
    \/ thread'[t] = thread[t]
    \/ ThreadDrops(t) \/ ThreadCollects(t) \/ ThreadBegins(t)
    \/ ThreadObserves(t) \/ ThreadCarries(t)

\* On the run.
RowBegins(x) ==
    /\ run \in {"queued", "running"}
    /\ rows[x] = "queued"
    /\ TargetDependenciesSucceeded(rows, x)
    /\ run' = "running"
    /\ rows' = [rows EXCEPT ![x] = "starting"]
    /\ AtStart(x)'

RowStarts(x) ==
    /\ rows[x] = "starting"
    /\ run' = run
    /\ rows' = [rows EXCEPT ![x] = "running"]

RowConcludes(x, end) ==
    /\ rows[x] \in ActiveTargetStates
    /\ Quiet(x)
    /\ evidence[x] # "none" => /\ package[x] = "pass" => end = "succeeded"
                               /\ package[x] = "fail" => end = "test_failed"
    /\ rows' = RowsAfter(run, rows, x, end)
    /\ run' = ReconciledRun(run, rows')

RunWithdrawn ==
    /\ run \in ActiveRunStates
    /\ rows' = CancelledRows(rows)
    /\ run' = ReconciledRun("cancelling", rows')

RunMoves ==
    \/ \E x \in Row : RowBegins(x)
    \/ \E x \in Row : RowStarts(x)
    \/ \E x \in Row, end \in TerminalTargetStates : RowConcludes(x, end)
    \/ RunWithdrawn

\* A step changes the run or the host, never both.
StepEffect ==
    /\ RunTypeOK'
    /\ \A t \in Thread : ThreadEffect(t)
    /\ \A x \in committed' : x \in committed \/ Concluded(x)'
    /\ \A x \in Row : CollectPending(x)' => CollectPending(x) \/ Concluded(x)
    /\ \/ UNCHANGED <<run, rows>> /\ \A x \in Row : HostEffect(x)
       \/ UNCHANGED authorityVars /\ RunMoves

-----------------------------------------------------------------------------
(***************************************************************************)
(* The effects keep the invariant                                          *)
(***************************************************************************)

\* A row that is neither queued nor concluded executes.
LEMMA RowStateCases ==
    ASSUME RunTypeOK, NEW x \in Row
    PROVE  \/ rows[x] = "queued"
           \/ rows[x] \in ActiveTargetStates
           \/ Concluded(x)
BY DEF RunTypeOK, TargetStates, UnfinishedTargetStates, Concluded

\* Nothing of the host makes the loop ready to launch.
LEMMA StartIsOld ==
    ASSUME StepEffect, UNCHANGED rows, NEW x \in Row, AtStart(x)'
    PROVE  AtStart(x)
<1>1. ThreadEffect("loop")
    BY DEF StepEffect, Thread
<1>2. thread'["loop"].at = "start" /\ thread'["loop"].row = x
    BY DEF AtStart
<1> QED
    BY <1>1, <1>2 DEF AtStart, ThreadEffect, ThreadDrops, ThreadCollects,
                      ThreadBegins, ThreadObserves, ThreadCarries, Working

\* A quiet row stays quiet, and keeps its package and its evidence until it
\* is concluded, or loses its evidence for good.
LEMMA QuietStays ==
    ASSUME Inv, StepEffect, UNCHANGED rows, NEW x \in Row, HostEffect(x),
           Quiet(x)
    PROVE  /\ Quiet(x)'
           /\ rows[x] \in ActiveTargetStates =>
                \/ package'[x] = package[x]
                   /\ (evidence[x] = "none" => evidence'[x] = "none")
                \/ evidence'[x] = "none"
<1>0. EvidenceInv(x)
    BY DEF Inv
<1>1. ~AtStart(x)'
    BY StartIsOld DEF Quiet
<1>2. rows[x] \in ActiveTargetStates => ~Concluded(x)
    BY DEF Concluded, ActiveTargetStates, TerminalTargetStates
<1>3. CASE HostKeeps(x)
    BY <1>1, <1>3 DEF Quiet, HostKeeps, HasNativeContext
<1>4. CASE HostCollects(x)
    BY <1>1, <1>2, <1>4 DEF Quiet, HostCollects
<1>5. ~HostAsked(x) /\ ~HostAccepts(x) /\ ~HostPrepares(x) /\ ~HostRuns(x)
      /\ ~HostPublishes(x)
    BY DEF Quiet, HostAsked, HostAccepts, HostPrepares, HostRuns, HostPublishes
<1>6. CASE HostUndoes(x)
    BY <1>1, <1>6 DEF Quiet, HostUndoes
<1> QED
    BY <1>3, <1>4, <1>5, <1>6 DEF HostEffect

LEMMA EvidenceKept ==
    ASSUME RunTypeOK, NEW x \in Row, EvidenceInv(x), HostEffect(x),
           LaunchPending(x) => Unlaunched(x)
    PROVE  EvidenceInv(x)'
<1>1. CASE HostKeeps(x)
    BY <1>1 DEF EvidenceInv, HostKeeps, HasNativeContext
<1>2. CASE HostCollects(x)
    BY <1>2 DEF EvidenceInv, HostCollects
<1>3. CASE HostAsked(x)
    BY <1>3 DEF EvidenceInv, HostAsked
<1>4. CASE HostAccepts(x)
    BY <1>4 DEF EvidenceInv, HostAccepts, Unlaunched
<1>5. CASE HostPrepares(x)
    BY <1>5 DEF EvidenceInv, HostPrepares
<1>6. CASE HostRuns(x)
    BY <1>6 DEF EvidenceInv, HostRuns
<1>7. CASE HostPublishes(x)
    BY <1>7 DEF EvidenceInv, HostPublishes
<1>8. CASE HostUndoes(x)
    BY <1>8 DEF EvidenceInv, HostUndoes
<1> QED
    BY <1>1, <1>2, <1>3, <1>4, <1>5, <1>6, <1>7, <1>8 DEF HostEffect

\* A row keeps its relation to the host.
LEMMA HostKept ==
    ASSUME Inv, StepEffect, UNCHANGED <<run, rows>>, NEW x \in Row, HostEffect(x)
    PROVE  HostInv(x)'
<1>1. HostInv(x) /\ EvidenceInv(x) /\ RunTypeOK /\ RunInv
    BY DEF Inv
<1>2. AtStart(x)' => AtStart(x)
    BY StartIsOld
<1>3. Concluded(x)' <=> Concluded(x)
    BY DEF Concluded
<1>4. Concluded(x) => rows[x] # "queued" /\ rows[x] \notin ActiveTargetStates
    BY DEF Concluded, TerminalTargetStates, ActiveTargetStates
<1>5. rows[x] \in ActiveTargetStates => TargetDependenciesSucceeded(rows, x)
    BY <1>1 DEF RunInv, Reconciled, RowsBegun
<1>6. Concluded(x) => Quiet(x)'
    BY <1>1, QuietStays DEF HostInv
<1>7. CollectPending(x)' \/ x \in committed' => Concluded(x)
    BY <1>1, <1>3 DEF HostInv, StepEffect
<1>8. /\ rows[x] = "queued" \/ AtStart(x)' \/ LaunchPending(x)' => Unlaunched(x)'
      /\ rows[x] = "queued" \/ AtStart(x)' => ~LaunchPending(x)'
    <2>1. CASE HostKeeps(x)
        BY <1>1, <1>2, <2>1 DEF HostInv, HostKeeps, Unlaunched, HasNativeContext
    <2>2. CASE HostCollects(x)
        BY <1>1, <1>2, <1>4, <2>2 DEF HostInv, HostCollects, Quiet
    <2>3. CASE HostAsked(x)
        BY <1>1, <1>2, <2>3 DEF HostInv, HostAsked, Unlaunched
    <2>4. CASE HostAccepts(x)
        BY <1>1, <1>2, <2>4 DEF HostInv, HostAccepts
    <2>5. CASE HostPrepares(x)
        BY <1>1, <1>2, <2>5 DEF HostInv, HostPrepares, Unlaunched
    <2>6. CASE HostRuns(x)
        BY <1>1, <1>2, <2>6 DEF HostInv, HostRuns, Unlaunched
    <2>7. CASE HostPublishes(x)
        BY <1>1, <1>2, <2>7 DEF HostInv, HostPublishes, Unlaunched
    <2>8. CASE HostUndoes(x)
        BY <1>1, <1>2, <2>8 DEF HostInv, HostUndoes, Unlaunched
    <2> QED
        BY <2>1, <2>2, <2>3, <2>4, <2>5, <2>6, <2>7, <2>8 DEF HostEffect
<1>9. Concluded(x) /\ evidence'[x] # "none" =>
        /\ package'[x] = "pass" => rows[x] = "succeeded"
        /\ package'[x] = "fail" => rows[x] = "test_failed"
    <2> SUFFICES ASSUME Concluded(x), evidence'[x] # "none"
                 PROVE  evidence[x] # "none" /\ package'[x] \in {package[x], "none"}
        BY <1>1 DEF HostInv
    <2>1. Quiet(x)
        BY <1>1 DEF HostInv
    <2> QED
        BY <2>1 DEF HostEffect, HostKeeps, HostCollects, HostAsked, HostAccepts,
                    HostPrepares, HostRuns, HostUndoes, HostPublishes, Quiet,
                    HasNativeContext
<1>10. unit'[x] # "none" => TargetDependenciesSucceeded(rows, x)
    <2>1. ASSUME HostRuns(x)
          PROVE  rows[x] \in ActiveTargetStates
        BY <1>1, <2>1, RowStateCases DEF HostInv, HostRuns, Unlaunched, Quiet
    <2>2. ~HostRuns(x) /\ unit'[x] # "none" => unit[x] # "none"
        BY <1>1 DEF HostEffect, HostKeeps, HostCollects, HostAsked, HostAccepts,
               HostPrepares, HostUndoes, HostPublishes, EvidenceInv
    <2> QED
        BY <1>1, <1>5, <2>1, <2>2 DEF HostInv
<1> QED
    BY <1>1, <1>2, <1>3, <1>6, <1>7, <1>8, <1>9, <1>10 DEF HostInv

\* What STATUS replies of a row is true of it, and final unless it runs.
LEMMA ObservedFacts ==
    ASSUME RunTypeOK, NEW x \in Row, EvidenceInv(x), HostInv(x),
           Observed(x).state # "refused"
    PROVE  /\ Observed(x).state \in {"running", "exited", "absent"}
           /\ rows[x] # "queued"
           /\ Observed(x).state = "running" => Observed(x).package = "none"
           /\ Observed(x).state # "running" =>
                /\ Quiet(x)
                /\ Observed(x).package = package[x] \/ evidence[x] = "none"
<1>1. CASE HasNativeContext(x)
    <2>1. rows[x] # "queued" /\ ~AtStart(x) /\ ~LaunchPending(x)
          /\ launching[x] \in {"idle", "ran"}
        BY <1>1 DEF HasNativeContext, EvidenceInv, HostInv, Unlaunched, RunTypeOK,
                    AuthorityTypeOK
    <2> QED
        BY <1>1, <2>1 DEF Observed, Quiet
<1>2. CASE ~HasNativeContext(x)
    <2>1. /\ evidence[x] = "none" /\ x \in known /\ unit[x] = "none"
          /\ Observed(x) = [state |-> "absent", package |-> "none"]
        BY <1>2 DEF Observed, Refused
    <2>2. rows[x] # "queued" /\ ~AtStart(x) /\ ~LaunchPending(x)
          /\ launching[x] \in {"idle", "ran"}
        BY <2>1 DEF EvidenceInv, HostInv, Unlaunched, RunTypeOK, AuthorityTypeOK
    <2> QED
        BY <2>1, <2>2 DEF EvidenceInv, Quiet
<1> QED
    BY <1>1, <1>2

\* A thread keeps its relation to the host while the run does not change.
LEMMA ThreadKept ==
    ASSUME Inv, StepEffect, UNCHANGED <<run, rows>>,
           \A x \in Row : HostEffect(x), NEW t \in Thread
    PROVE  ThreadInv(t)'
<1>0. /\ RunTypeOK /\ ThreadInv(t) /\ ThreadEffect(t)
      /\ thread[t].row \in Row /\ thread'[t].row \in Row
    BY DEF Inv, StepEffect, RunTypeOK
<1>x. PICK x \in Row : x = thread[t].row
    BY <1>0
<1>y. PICK y \in Row : y = thread'[t].row
    BY <1>0
<1>1. /\ RunTypeOK /\ ThreadInv(t) /\ ThreadEffect(t)
      /\ x = thread[t].row /\ y = thread'[t].row
    BY <1>0, <1>x, <1>y
<1>2. \A z \in Row : Concluded(z)' <=> Concluded(z)
    BY DEF Concluded
<1>3. Quiet(x) => /\ Quiet(x)'
                  /\ rows[x] \in ActiveTargetStates =>
                        \/ package'[x] = package[x]
                           /\ (evidence[x] = "none" => evidence'[x] = "none")
                        \/ evidence'[x] = "none"
    BY <1>1, QuietStays
<1>4. CASE thread'[t] = thread[t]
    BY <1>1, <1>2, <1>3, <1>4 DEF ThreadInv
<1>5. CASE ThreadDrops(t)
    BY <1>5 DEF ThreadDrops, ThreadInv, Working
<1>6. CASE ThreadCollects(t)
    BY <1>6 DEF ThreadCollects, ThreadInv, Working, Concluded
<1>7. ~ThreadBegins(t)
    BY DEF ThreadBegins
<1>8. CASE ThreadObserves(t)
    <2>1. EvidenceInv(y) /\ HostInv(y) /\ HostEffect(y)
        BY <1>1 DEF Inv
    <2>2. /\ thread'[t].obs = Observed(y) /\ Observed(y).state # "refused"
          /\ thread'[t].at \notin {"collect"}
          /\ package' = package /\ rows' = rows
          /\ launching' = launching
        BY <1>1, <1>8 DEF ThreadObserves
    <2>3. /\ Observed(y).state \in {"running", "exited", "absent"}
          /\ rows[y] # "queued"
          /\ Observed(y).state = "running" => Observed(y).package = "none"
          /\ Observed(y).state # "running" =>
                /\ Quiet(y)
                /\ Observed(y).package = package[y] \/ evidence[y] = "none"
        BY <1>1, <2>1, <2>2, ObservedFacts
    <2>4. Quiet(y) => /\ Quiet(y)'
                      /\ rows[y] \in ActiveTargetStates =>
                            (evidence[y] = "none" => evidence'[y] = "none")
        BY <1>1, <2>1, QuietStays
    <2> QED
        BY <1>1, <1>8, <2>2, <2>3, <2>4 DEF ThreadObserves, ThreadInv
<1>9. CASE ThreadCarries(t)
    BY <1>1, <1>2, <1>3, <1>9 DEF ThreadCarries, ThreadInv, Working
<1> QED
    BY <1>1, <1>4, <1>5, <1>6, <1>7, <1>8, <1>9 DEF ThreadEffect

LEMMA HostStepKeeps ==
    ASSUME Inv, StepEffect, UNCHANGED <<run, rows>>, \A x \in Row : HostEffect(x)
    PROVE  Inv'
<1>1. RunTypeOK'
    BY DEF StepEffect
<1>2. RunInv'
    BY DEF Inv, RunInv
<1>3. ASSUME NEW x \in Row
      PROVE  EvidenceInv(x)' /\ HostInv(x)'
    BY EvidenceKept, HostKept DEF Inv, HostInv
<1>4. \A t \in Thread : ThreadInv(t)'
    BY ThreadKept
<1> QED
    BY <1>1, <1>2, <1>3, <1>4 DEF Inv

\* The executions of a reconciled run can be read off its rows.
LEMMA BegunFromRows ==
    ASSUME NEW rs, NEW ts, NEW B \in SUBSET Row, Reconciled(rs, ts, B)
    PROVE  Reconciled(rs, ts, Begun(ts))
<1>1. B \subseteq Begun(ts)
    BY DEF Reconciled, RowsBegun, Begun
<1>2. RowsBegun(ts, Begun(ts))
    BY <1>1 DEF Reconciled, RowsBegun, Begun
<1>3. SiblingsBegun(ts, B) => SiblingsBegun(ts, Begun(ts))
    BY <1>1 DEF SiblingsBegun
<1> QED
    BY <1>2, <1>3 DEF Reconciled

\* The run of an executing row is active.
LEMMA ExecutingIsOpen ==
    ASSUME Inv, NEW x \in Row, rows[x] \in ActiveTargetStates
    PROVE  run \in ActiveRunStates
BY DEF Inv, RunTypeOK, RunInv, RunSettled, RunStates, UnfinishedTargetStates

\* What a move of the run does to one row.
RowEffect(x) ==
    \/ rows'[x] = rows[x]
    \/ rows[x] = "queued" /\ rows'[x] = "starting" /\ AtStart(x)'
    \/ rows[x] = "queued" /\ rows'[x] = "cancelled"
    \/ rows[x] \in ActiveTargetStates /\ rows'[x] \in ActiveTargetStates
    \/ /\ rows[x] \in ActiveTargetStates /\ rows'[x] \in TerminalTargetStates
       /\ Quiet(x)
       /\ evidence[x] # "none" =>
            /\ package[x] = "pass" => rows'[x] = "succeeded"
            /\ package[x] = "fail" => rows'[x] = "test_failed"

LEMMA RunMovesKeep ==
    ASSUME Inv, RunMoves
    PROVE  /\ run' \in RunStates \ {"none"}
           /\ rows' \in [Row -> TargetStates \ {"none"}]
           /\ RunInv'
           /\ RowsAdvance(rows, rows')
           /\ \A x \in Row : RowEffect(x)
<1> DEFINE B == Begun(rows)
<1>1. /\ rows \in [Row -> TargetStates] /\ B \in SUBSET Row
      /\ Reconciled(run, rows, B) /\ RunSettled(run, rows)
    BY DEF Inv, RunTypeOK, RunInv, Begun
<1> HIDE DEF B
<1>0. ActiveRunStates \cup TerminalRunStates \subseteq RunStates \ {"none"}
    BY DEF RunStates, ActiveRunStates, TerminalRunStates
<1>2. ASSUME NEW C \in SUBSET Row, Reconciled(run', rows', C),
             RunSettled(run', rows')
      PROVE  RunInv'
    BY <1>2, BegunFromRows DEF RunInv
<1>3. ASSUME NEW x \in Row, RowBegins(x)
      PROVE  /\ run' \in RunStates \ {"none"}
             /\ rows' \in [Row -> TargetStates]
             /\ RunInv'
             /\ RowsAdvance(rows, rows')
             /\ \A y \in Row : RowEffect(y)
    <2>1. /\ run' \in RunStates \ {"none"}
          /\ rows' \in [Row -> TargetStates]
          /\ RowsAdvance(rows, rows')
          /\ Reconciled(run', rows', B \cup {x})
        BY <1>1, <1>3, BeginReconciles DEF RowBegins, RunStates,
                                              ActiveRunStates
    <2>2. RunSettled(run', rows')
        BY <1>3 DEF RowBegins, RunSettled, TerminalRunStates
    <2>3. \A y \in Row : RowEffect(y)
        BY <1>1, <1>3 DEF RowBegins, RowEffect
    <2> QED
        BY <1>1, <1>2, <2>1, <2>2, <2>3
<1>4. ASSUME NEW x \in Row, RowStarts(x)
      PROVE  /\ run' \in RunStates \ {"none"}
             /\ rows' \in [Row -> TargetStates]
             /\ RunInv'
             /\ RowsAdvance(rows, rows')
             /\ \A y \in Row : RowEffect(y)
    <2>1. run \in ActiveRunStates
        BY <1>4, ExecutingIsOpen DEF RowStarts, ActiveTargetStates
    <2>2. /\ run' \in RunStates \ {"none"}
          /\ rows' \in [Row -> TargetStates]
          /\ RowsAdvance(rows, rows')
          /\ Reconciled(run', rows', B)
        BY <1>1, <1>4, <2>1, StartReconciles DEF RowStarts, RunStates,
                                                 ActiveRunStates
    <2>3. RunSettled(run', rows')
        BY <1>1, <1>4, <2>1, <2>2 DEF RowStarts, RunSettled, TerminalRunStates,
                                ActiveRunStates, RowsAdvance
    <2>4. \A y \in Row : RowEffect(y)
        BY <1>1, <1>4 DEF RowStarts, RowEffect, ActiveTargetStates
    <2> QED
        BY <1>1, <1>2, <2>2, <2>3, <2>4
<1>5. ASSUME NEW x \in Row, NEW end \in TerminalTargetStates,
             RowConcludes(x, end)
      PROVE  /\ run' \in RunStates \ {"none"}
             /\ rows' \in [Row -> TargetStates]
             /\ RunInv'
             /\ RowsAdvance(rows, rows')
             /\ \A y \in Row : RowEffect(y)
    <2>1. run \in ActiveRunStates
        BY <1>5, ExecutingIsOpen DEF RowConcludes
    <2>2. /\ run' \in ActiveRunStates \cup TerminalRunStates
          /\ rows' \in [Row -> TargetStates]
          /\ rows'[x] = end
          /\ RowsAdvance(rows, rows')
          /\ \A y \in Row \ {x} :
                \/ rows'[y] = rows[y]
                \/ rows[y] = "queued" /\ rows'[y] = "cancelled"
          /\ RunSettled(run', rows')
          /\ Reconciled(run', rows', B)
        BY <1>1, <1>5, <2>1, ConclusionReconciles DEF RowConcludes
    <2>3. \A y \in Row : RowEffect(y)
        BY <1>5, <2>2 DEF RowConcludes, RowEffect
    <2> QED
        BY <1>0, <1>1, <1>2, <2>2, <2>3
<1>6. ASSUME RunWithdrawn
      PROVE  /\ run' \in RunStates \ {"none"}
             /\ rows' \in [Row -> TargetStates]
             /\ RunInv'
             /\ RowsAdvance(rows, rows')
             /\ \A y \in Row : RowEffect(y)
    <2>1. /\ run' \in ActiveRunStates \cup TerminalRunStates
          /\ rows' \in [Row -> TargetStates]
          /\ RowsAdvance(rows, rows')
          /\ \A y \in Row :
                \/ rows'[y] = rows[y]
                \/ rows[y] = "queued" /\ rows'[y] = "cancelled"
                \/ rows[y] \in {"starting", "running"} /\ rows'[y] = "stopping"
          /\ RunSettled(run', rows')
          /\ Reconciled(run', rows', B)
        BY <1>1, <1>6, WithdrawalReconciles DEF RunWithdrawn
    <2>2. \A y \in Row : RowEffect(y)
        BY <2>1 DEF RowEffect, ActiveTargetStates
    <2> QED
        BY <1>0, <1>1, <1>2, <2>1, <2>2
<1>7. /\ run' \in RunStates \ {"none"}
      /\ rows' \in [Row -> TargetStates]
      /\ RunInv'
      /\ RowsAdvance(rows, rows')
      /\ \A x \in Row : RowEffect(x)
    BY <1>3, <1>4, <1>5, <1>6 DEF RunMoves
<1>8. \A x \in Row : rows'[x] # "none"
    BY <1>7 DEF RowsAdvance, Inv, RunTypeOK
<1> QED
    BY <1>7, <1>8

\* The loop is ready to launch only the row it has just begun.
LEMMA StartIsBegun ==
    ASSUME StepEffect, NEW x \in Row, AtStart(x)'
    PROVE  AtStart(x) \/ (rows[x] = "queued" /\ rows'[x] = "starting")
<1>1. ThreadEffect("loop")
    BY DEF StepEffect, Thread
<1>2. thread'["loop"].at = "start" /\ thread'["loop"].row = x
    BY DEF AtStart
<1> QED
    BY <1>1, <1>2 DEF AtStart, ThreadEffect, ThreadDrops, ThreadCollects,
                      ThreadBegins, ThreadObserves, ThreadCarries, Working

LEMMA RunStepKeeps ==
    ASSUME Inv, StepEffect, UNCHANGED authorityVars, RunMoves
    PROVE  Inv'
<1>1. /\ UNCHANGED <<known, pending, launching, evidence, unit, package>>
      /\ RunInv' /\ RunTypeOK' /\ RunTypeOK
      /\ RowsAdvance(rows, rows')
      /\ \A x \in Row : RowEffect(x)
    BY RunMovesKeep DEF StepEffect, authorityVars, authorityMemory, hostState, Inv
<1>2. ASSUME NEW x \in Row
      PROVE  /\ EvidenceInv(x)'
             /\ HostInv(x)'
             /\ Quiet(x) /\ rows[x] # "queued" => Quiet(x)'
    <2>1. EvidenceInv(x) /\ HostInv(x) /\ RowEffect(x)
        BY <1>1 DEF Inv
    <2>2. EvidenceInv(x)'
        BY <1>1, <2>1 DEF EvidenceInv
    <2>3. AtStart(x)' =>
            AtStart(x) \/ (rows[x] = "queued" /\ rows'[x] = "starting")
        BY StartIsBegun
    <2>4. Quiet(x) /\ rows[x] # "queued" => Quiet(x)'
        BY <1>1, <2>3 DEF Quiet, LaunchPending
    <2>5. /\ LaunchPending(x)' <=> LaunchPending(x)
          /\ CollectPending(x)' <=> CollectPending(x)
          /\ Unlaunched(x)' <=> Unlaunched(x)
        BY <1>1 DEF LaunchPending, CollectPending, Unlaunched
    <2>6. rows'[x] = "queued" => rows[x] = "queued"
        BY <1>1 DEF RowsAdvance
    <2>7. Concluded(x) => Concluded(x)'
        BY <1>1 DEF Concluded, RowsAdvance
    <2>8. Concluded(x)' => Quiet(x)'
        <3> SUFFICES ASSUME Concluded(x)'
                     PROVE  Quiet(x)'
            OBVIOUS
        <3>1. rows'[x] \in TerminalTargetStates /\ rows'[x] # "starting"
            BY DEF Concluded, TerminalTargetStates
        <3>2. CASE rows'[x] = rows[x]
            <4>1. Concluded(x) /\ rows[x] # "queued"
                BY <3>1, <3>2 DEF Concluded, TerminalTargetStates
            <4> QED
                BY <2>1, <2>4, <4>1 DEF HostInv
        <3>3. CASE rows[x] = "queued"
            <4>1. Unlaunched(x) /\ ~LaunchPending(x) /\ ~AtStart(x)
                BY <2>1, <3>3 DEF HostInv
            <4> QED
                BY <1>1, <2>3, <2>5, <3>1, <4>1 DEF Unlaunched, Quiet
        <3>4. CASE rows[x] \in ActiveTargetStates /\ rows'[x] # rows[x]
            <4>1. Quiet(x) /\ rows[x] # "queued"
                BY <2>1, <3>1, <3>4 DEF RowEffect, ActiveTargetStates,
                                        TerminalTargetStates
            <4> QED
                BY <2>4, <4>1
        <3> QED
            BY <2>1, <3>2, <3>3, <3>4 DEF RowEffect
    <2>9. Concluded(x)' /\ evidence'[x] # "none" =>
            /\ package'[x] = "pass" => rows'[x] = "succeeded"
            /\ package'[x] = "fail" => rows'[x] = "test_failed"
        <3>1. CASE rows'[x] = rows[x]
            BY <1>1, <2>1, <3>1 DEF HostInv, Concluded
        <3>2. CASE rows[x] = "queued"
            BY <1>1, <2>1, <3>2 DEF HostInv, Unlaunched, EvidenceInv
        <3>3. CASE rows[x] \in ActiveTargetStates /\ rows'[x] # rows[x]
            BY <1>1, <2>1, <3>3 DEF RowEffect, Concluded, ActiveTargetStates,
                                    TerminalTargetStates
        <3> QED
            BY <2>1, <3>1, <3>2, <3>3 DEF RowEffect
    <2>10. unit'[x] # "none" => TargetDependenciesSucceeded(rows', x)
        BY <1>1, <2>1, DependenciesStay DEF HostInv
    <2>11. CollectPending(x)' \/ x \in committed' => Concluded(x)'
        BY <2>1, <2>5, <2>7 DEF HostInv, StepEffect
    <2>12. /\ rows'[x] = "queued" \/ AtStart(x)' \/ LaunchPending(x)'
                => Unlaunched(x)'
           /\ rows'[x] = "queued" \/ AtStart(x)' => ~LaunchPending(x)'
           /\ rows'[x] = "queued" => ~AtStart(x)'
        BY <2>1, <2>3, <2>5, <2>6 DEF HostInv
    <2>13. HostInv(x)'
        BY <2>8, <2>9, <2>10, <2>11, <2>12 DEF HostInv
    <2> QED
        BY <2>2, <2>4, <2>13
<1>3. ASSUME NEW t \in Thread
      PROVE  ThreadInv(t)'
    <2>0. ThreadInv(t) /\ ThreadEffect(t)
          /\ thread[t].row \in Row /\ thread'[t].row \in Row
        BY <1>1 DEF Inv, StepEffect, RunTypeOK
    <2>x. PICK x \in Row : x = thread[t].row
        BY <2>0
    <2>y. PICK y \in Row : y = thread'[t].row
        BY <2>0
    <2>1. \A z \in Row :
            /\ Quiet(z) /\ rows[z] # "queued" => Quiet(z)'
            /\ rows[z] # "queued" =>
                /\ rows'[z] # "queued"
                /\ rows'[z] \in ActiveTargetStates =>
                    rows[z] \in ActiveTargetStates
            /\ Concluded(z) => Concluded(z)'
        <3> SUFFICES ASSUME NEW z \in Row, rows[z] # "queued"
                     PROVE  /\ rows'[z] # "queued"
                            /\ rows'[z] \in ActiveTargetStates =>
                                rows[z] \in ActiveTargetStates
            BY <1>1, <1>2 DEF RowsAdvance, Concluded
        <3> QED
            BY <1>1 DEF RowEffect, RowsAdvance
    <2>2. CASE thread'[t] = thread[t] \/ ThreadCarries(t)
        <3>1. /\ thread'[t].row = x /\ thread'[t].obs = thread[t].obs
              /\ thread'[t].at \in Working => thread[t].at \in Working
              /\ thread'[t].at = "settle" => thread[t].obs.state # "running"
              /\ thread'[t].at = "stop" =>
                    thread'[t].why \in
                        {"deadline", "cancel", "restart", "restart_late"}
              /\ thread'[t].at = "collect" => thread[t].at = "collect"
            BY <2>0, <2>x, <2>2 DEF ThreadInv, ThreadCarries, Working
        <3> QED
            BY <1>1, <2>0, <2>x, <2>1, <3>1 DEF ThreadInv
    <2>3. CASE ThreadDrops(t)
        BY <2>3 DEF ThreadDrops, ThreadInv, Working
    <2>4. CASE ThreadCollects(t)
        BY <2>4 DEF ThreadCollects, ThreadInv, Working, Concluded
    <2>5. CASE ThreadBegins(t)
        BY <2>5 DEF ThreadBegins, ThreadInv, Working
    <2>6. CASE ThreadObserves(t)
        <3>1. /\ thread'[t].obs = Observed(y) /\ Observed(y).state # "refused"
              /\ thread'[t].at \notin {"collect"}
              /\ rows' = rows
            BY <2>y, <2>6 DEF ThreadObserves
        <3>2. EvidenceInv(y) /\ HostInv(y)
            BY DEF Inv
        <3>3. /\ Observed(y).state \in {"running", "exited", "absent"}
              /\ rows[y] # "queued"
              /\ Observed(y).state = "running" => Observed(y).package = "none"
              /\ Observed(y).state # "running" =>
                    /\ Quiet(y)
                    /\ Observed(y).package = package[y] \/ evidence[y] = "none"
            BY <1>1, <3>1, <3>2, ObservedFacts
        <3> QED
            BY <1>1, <2>y, <2>1, <2>6, <3>1, <3>3 DEF ThreadObserves, ThreadInv
    <2> QED
        BY <2>0, <2>2, <2>3, <2>4, <2>5, <2>6 DEF ThreadEffect
<1> QED
    BY <1>1, <1>2, <1>3 DEF Inv

-----------------------------------------------------------------------------
(***************************************************************************)
(* Effects of the calls to the authority and of its own steps              *)
(***************************************************************************)

\* What a step of the authority leaves behind.
AuthorityEffect ==
    /\ AuthorityTypeOK'
    /\ \A x \in Row : HostEffect(x)
    /\ \A x \in Row : CollectPending(x)' => CollectPending(x) \/ Concluded(x)

LEMMA FaultType ==
    ASSUME AuthorityTypeOK, Fault \/ NoFault
    PROVE  faults' \in 0..MaxFaults
BY MaxFaultsAssumption DEF AuthorityTypeOK, Fault, NoFault, MaxFaultsAssumption

\* A call that is lost, or arrives when nobody waits for it any more.
LEMMA CallEffect ==
    ASSUME AuthorityTypeOK, NoAnswer \/ NoFault \/ Fault,
           UNCHANGED <<up, ticket, known, cache, launching, hostState>>,
           \/ pending' = pending
           \/ \E x \in Row, op \in CachedOp :
                /\ pending' = pending \cup {[row |-> x, op |-> op]}
                /\ op = "collect" => Concluded(x)
    PROVE  AuthorityEffect
<1>1. faults' \in 0..MaxFaults
    BY FaultType DEF NoAnswer
<1>2. "launch" \notin CachedOp
    BY DEF CachedOp, StopReason
<1>3. /\ pending' \subseteq [row : Row, op : CachedOp \cup {"launch"}]
      /\ \A x \in Row : LaunchPending(x)' => LaunchPending(x)
      /\ \A x \in Row : CollectPending(x)' => CollectPending(x) \/ Concluded(x)
    <2>1. CASE pending' = pending
        BY <2>1 DEF AuthorityTypeOK, LaunchPending, CollectPending
    <2>2. ASSUME NEW x \in Row, NEW op \in CachedOp,
                 pending' = pending \cup {[row |-> x, op |-> op]},
                 op = "collect" => Concluded(x)
          PROVE  /\ pending' \subseteq [row : Row, op : CachedOp \cup {"launch"}]
                 /\ \A y \in Row : LaunchPending(y)' => LaunchPending(y)
                 /\ \A y \in Row :
                        CollectPending(y)' => CollectPending(y) \/ Concluded(y)
        BY <1>2, <2>2 DEF AuthorityTypeOK, LaunchPending, CollectPending
    <2> QED
        BY <2>1, <2>2
<1>4. AuthorityTypeOK'
    BY <1>1, <1>3 DEF AuthorityTypeOK, hostState
<1>5. \A x \in Row : HostKeeps(x)
    BY <1>3 DEF HostKeeps, hostState, AuthorityTypeOK
<1> QED
    BY <1>3, <1>4, <1>5 DEF AuthorityEffect, HostEffect

LEMMA RepairedFacts ==
    ASSUME AuthorityTypeOK, NEW x \in Row
    PROVE  /\ RepairedEvidence(x) \in
                [Row -> {"none", "launch", "prepared", "started"}]
           /\ \A y \in Row :
                \/ RepairedEvidence(x)[y] = evidence[y]
                \/ HasNativeContext(y) /\ RepairedEvidence(x)[y] = "started"
           /\ RememberDescriptor(x) \subseteq Row
           /\ \A y \in RememberDescriptor(x) : y \in known \/ evidence[y] # "none"
BY DEF AuthorityTypeOK, RepairedEvidence, RememberDescriptor

LEMMA StatusEffect ==
    ASSUME AuthorityTypeOK, NEW x \in Row, TestAttemptStatus(x)
    PROVE  AuthorityEffect /\ UNCHANGED <<unit, package, launching, pending>>
<1>1. faults' \in 0..MaxFaults
    BY FaultType DEF TestAttemptStatus
<1>2. /\ known' = RememberDescriptor(x) /\ evidence' = RepairedEvidence(x)
      /\ UNCHANGED <<up, ticket, cache, pending, launching, unit, package>>
    BY DEF TestAttemptStatus
<1>3. AuthorityTypeOK'
    BY <1>1, <1>2, RepairedFacts DEF AuthorityTypeOK
<1>4. /\ \A y \in Row : LaunchPending(y)' => LaunchPending(y)
      /\ \A y \in Row : CollectPending(y)' => CollectPending(y)
    BY <1>2 DEF LaunchPending, CollectPending
<1>5. \A y \in Row : HostKeeps(y)
    BY <1>2, <1>4, RepairedFacts DEF HostKeeps
<1> QED
    BY <1>2, <1>3, <1>4, <1>5 DEF AuthorityEffect, HostEffect

\* A stop or collect call that is executed or replayed; only a concluded
\* execution is collected.
LEMMA MutationEffect ==
    ASSUME AuthorityTypeOK, \A y \in Row : EvidenceInv(y),
           NEW x \in Row, NEW op \in CachedOp, NEW ok \in BOOLEAN,
           op = "collect" => Concluded(x),
           ExecuteMutation(x, op, ok), pending' \subseteq pending
    PROVE  AuthorityEffect
<1>1. /\ \A y \in Row : LaunchPending(y)' => LaunchPending(y)
      /\ \A y \in Row : CollectPending(y)' => CollectPending(y)
      /\ launching[x] = "idle" /\ launching' = launching
      /\ up' = up
      /\ pending' \subseteq [row : Row, op : CachedOp \cup {"launch"}]
    BY DEF LaunchPending, CollectPending, ExecuteMutation, AuthorityTypeOK
<1>2. Remember(x, op, ok) =>
        cache' \in [Row -> [CachedOp -> {"none", "ok", "error"}]]
    BY DEF Remember, AuthorityTypeOK
<1>3. CASE ReplayCompleted(x, op, ok)
    <2>1. faults' \in 0..MaxFaults
        BY <1>3, FaultType DEF ReplayCompleted
    <2>2. UNCHANGED <<ticket, known, cache, evidence, unit, package>>
        BY <1>3 DEF ReplayCompleted, hostState
    <2>3. AuthorityTypeOK'
        BY <1>1, <2>1, <2>2 DEF AuthorityTypeOK
    <2>4. \A y \in Row : HostKeeps(y)
        BY <1>1, <2>2 DEF HostKeeps
    <2> QED
        BY <1>1, <2>3, <2>4 DEF AuthorityEffect, HostEffect
<1>4. CASE op \in StopReason /\ ExecuteCancel(x, op, ok)
    <2>1. faults' \in 0..MaxFaults
        BY <1>4, FaultType DEF ExecuteCancel
    <2>2. /\ known' = RememberDescriptor(x) /\ UNCHANGED <<ticket, package>>
          /\ cache' \in [Row -> [CachedOp -> {"none", "ok", "error"}]]
          /\ evidence' = evidence \/ evidence' = RepairedEvidence(x)
          /\ \/ unit' = unit
             \/ HasNativeContext(x) /\ unit' = [unit EXCEPT ![x] = "dead"]
        BY <1>2, <1>4 DEF ExecuteCancel, hostState
    <2>3. HasNativeContext(x) => unit[x] # "none"
        BY DEF HasNativeContext, EvidenceInv
    <2>4. AuthorityTypeOK'
        BY <1>1, <2>1, <2>2, RepairedFacts DEF AuthorityTypeOK
    <2>5. \A y \in Row : HostKeeps(y)
        BY <1>1, <2>2, <2>3, RepairedFacts DEF HostKeeps, AuthorityTypeOK
    <2> QED
        BY <1>1, <2>4, <2>5 DEF AuthorityEffect, HostEffect
<1>5. CASE op = "collect" /\ ExecuteCollect(x, ok)
    <2>1. faults' \in 0..MaxFaults
        BY <1>5, FaultType DEF ExecuteCollect
    <2>2. cache' \in [Row -> [CachedOp -> {"none", "ok", "error"}]]
        BY <1>2, <1>5 DEF ExecuteCollect
    <2>3. CASE /\ known' = known \/ known' = RememberDescriptor(x)
               /\ UNCHANGED <<ticket, evidence, unit, package>>
        <3>1. AuthorityTypeOK'
            BY <1>1, <2>1, <2>2, <2>3, RepairedFacts DEF AuthorityTypeOK
        <3>2. \A y \in Row : HostKeeps(y)
            BY <1>1, <2>3, RepairedFacts DEF HostKeeps
        <3> QED
            BY <1>1, <3>1, <3>2 DEF AuthorityEffect, HostEffect
    <2>4. CASE /\ known' = known \ {x}
               /\ ticket' = [ticket EXCEPT ![x] = "none"]
               /\ evidence' = [evidence EXCEPT ![x] = "none"]
               /\ unit' = [unit EXCEPT ![x] = "none"]
               /\ package' = [package EXCEPT ![x] = "none"]
        <3>1. AuthorityTypeOK'
            BY <1>1, <2>1, <2>2, <2>4 DEF AuthorityTypeOK, PackageKind
        <3>2. \A y \in Row : HostKeeps(y) \/ HostCollects(y)
            BY <1>1, <1>5, <2>4 DEF HostKeeps, HostCollects, AuthorityTypeOK
        <3> QED
            BY <1>1, <3>1, <3>2 DEF AuthorityEffect, HostEffect
    <2> QED
        BY <1>5, <2>3, <2>4 DEF ExecuteCollect, hostState
<1> QED
    BY <1>3, <1>4, <1>5 DEF ExecuteMutation

\* The steps of a launch.
LEMMA LaunchEffect ==
    ASSUME AuthorityTypeOK, \A y \in Row : EvidenceInv(y), NEW x \in Row,
           LaunchStep(x)
    PROVE  AuthorityEffect
<1>1. \A y \in Row : CollectPending(y)' => CollectPending(y)
    BY DEF LaunchStep, LaunchAccept, LaunchPrepare, LaunchRun, LaunchUndo,
           LaunchAcknowledge, CollectPending
<1>2. faults' \in 0..MaxFaults
    <2>1. Fault \/ NoFault
        BY DEF LaunchStep, LaunchAccept, LaunchPrepare, LaunchRun, LaunchUndo,
               LaunchAcknowledge
    <2> QED
        BY <2>1, FaultType
<1>3. ASSUME LaunchAccept(x)
      PROVE  AuthorityTypeOK' /\ \A y \in Row : HostEffect(y)
    <2>1. /\ UNCHANGED <<up, ticket, known, cache, unit, package>>
          /\ LaunchPending(x)
          /\ pending' = pending \ {[row |-> x, op |-> "launch"]}
          /\ \/ UNCHANGED <<launching, evidence>>
             \/ /\ launching' = [launching EXCEPT ![x] = "files"]
                /\ evidence' = [evidence EXCEPT ![x] = "launch"]
        BY <1>3 DEF LaunchAccept, LaunchPending
    <2>2. AuthorityTypeOK'
        BY <1>2, <2>1 DEF AuthorityTypeOK
    <2>3. (\A y \in Row : LaunchPending(y)' => LaunchPending(y))
          /\ ~LaunchPending(x)'
        BY <2>1 DEF LaunchPending
    <2>4. \A y \in Row : HostKeeps(y) \/ HostAccepts(y)
        BY <2>1, <2>3 DEF HostKeeps, HostAccepts, AuthorityTypeOK
    <2> QED
        BY <2>2, <2>4 DEF HostEffect
<1>4. ASSUME LaunchPrepare(x)
      PROVE  AuthorityTypeOK' /\ \A y \in Row : HostEffect(y)
    <2>1. /\ UNCHANGED <<up, ticket, known, cache, pending, unit, package>>
          /\ launching[x] = "files"
          /\ \/ /\ launching' = [launching EXCEPT ![x] = "prepared"]
                /\ evidence' = [evidence EXCEPT ![x] = "prepared"]
             \/ /\ launching' = [launching EXCEPT ![x] = "idle"]
                /\ UNCHANGED evidence
        BY <1>4 DEF LaunchPrepare
    <2>2. AuthorityTypeOK'
        BY <1>2, <2>1 DEF AuthorityTypeOK
    <2>3. \A y \in Row : LaunchPending(y)' => LaunchPending(y)
        BY <2>1 DEF LaunchPending
    <2>4. \A y \in Row : HostKeeps(y) \/ HostPrepares(y)
        BY <2>1, <2>3 DEF HostKeeps, HostPrepares, AuthorityTypeOK
    <2> QED
        BY <2>2, <2>4 DEF HostEffect
<1>5. ASSUME LaunchRun(x)
      PROVE  AuthorityTypeOK' /\ \A y \in Row : HostEffect(y)
    <2>1. /\ UNCHANGED <<up, ticket, known, cache, pending, package>>
          /\ launching[x] = "prepared"
          /\ \/ /\ launching' = [launching EXCEPT ![x] = "ran"]
                /\ UNCHANGED evidence
                /\ unit' = [unit EXCEPT ![x] = "active"]
             \/ /\ launching' = [launching EXCEPT ![x] = "idle"]
                /\ evidence' = [evidence EXCEPT ![x] = "none"]
                /\ UNCHANGED unit
        BY <1>5 DEF LaunchRun
    <2>2. AuthorityTypeOK'
        <3>1. unit' \in [Row -> {"none", "active", "dead"}]
            BY <2>1 DEF AuthorityTypeOK
        <3>2. launching' \in [Row -> {"idle", "files", "prepared", "ran"}]
            BY <2>1 DEF AuthorityTypeOK
        <3>3. evidence' \in [Row -> {"none", "launch", "prepared", "started"}]
            BY <2>1 DEF AuthorityTypeOK
        <3> QED
            BY <1>2, <2>1, <3>1, <3>2, <3>3 DEF AuthorityTypeOK
    <2>3. \A y \in Row : LaunchPending(y)' => LaunchPending(y)
        BY <2>1 DEF LaunchPending
    <2>4. \A y \in Row : HostKeeps(y) \/ HostRuns(y)
        BY <2>1, <2>3 DEF HostKeeps, HostRuns, AuthorityTypeOK
    <2> QED
        BY <2>2, <2>4 DEF HostEffect
<1>6. ASSUME LaunchAcknowledge(x)
      PROVE  AuthorityTypeOK' /\ \A y \in Row : HostEffect(y)
    <2>1. /\ UNCHANGED <<up, cache, pending, unit, package>>
          /\ launching[x] = "ran"
          /\ launching' = [launching EXCEPT ![x] = "idle"]
          /\ \/ /\ evidence' = [evidence EXCEPT ![x] = "started"]
                /\ known' = known \cup {x}
                /\ ticket' = [ticket EXCEPT ![x] = "spent"]
             \/ UNCHANGED <<evidence, known, ticket>>
        BY <1>6 DEF LaunchAcknowledge
    <2>2. AuthorityTypeOK'
        BY <1>2, <2>1 DEF AuthorityTypeOK
    <2>3. \A y \in Row : LaunchPending(y)' => LaunchPending(y)
        BY <2>1 DEF LaunchPending
    <2>4. HasNativeContext(x) /\ evidence[x] # "none"
        BY <2>1 DEF EvidenceInv, HasNativeContext
    <2>5. \A y \in Row : HostKeeps(y)
        BY <2>1, <2>3, <2>4 DEF HostKeeps, AuthorityTypeOK
    <2> QED
        BY <2>2, <2>5 DEF HostEffect
<1>7. ASSUME LaunchUndo(x)
      PROVE  AuthorityTypeOK' /\ \A y \in Row : HostEffect(y)
    <2>1. /\ UNCHANGED <<up, ticket, known, cache, pending>>
          /\ launching[x] = "ran"
          /\ launching' = [launching EXCEPT ![x] = "idle"]
          /\ evidence' = [evidence EXCEPT ![x] = "none"]
          /\ \E u \in {"none", "dead", unit[x]} : unit' = [unit EXCEPT ![x] = u]
          /\ package' = [package EXCEPT ![x] = "none"] \/ UNCHANGED package
        BY <1>7 DEF LaunchUndo
    <2>2. AuthorityTypeOK'
        <3>1. unit' \in [Row -> {"none", "active", "dead"}]
            BY <2>1 DEF AuthorityTypeOK
        <3>2. /\ launching' \in [Row -> {"idle", "files", "prepared", "ran"}]
              /\ evidence' \in [Row -> {"none", "launch", "prepared", "started"}]
              /\ package' \in [Row -> PackageKind]
            BY <2>1 DEF AuthorityTypeOK, PackageKind
        <3> QED
            BY <1>2, <2>1, <3>1, <3>2 DEF AuthorityTypeOK
    <2>3. \A y \in Row : LaunchPending(y)' => LaunchPending(y)
        BY <2>1 DEF LaunchPending
    <2>4. \A y \in Row : HostKeeps(y) \/ HostUndoes(y)
        BY <2>1, <2>3 DEF HostKeeps, HostUndoes, AuthorityTypeOK
    <2> QED
        BY <2>2, <2>4 DEF HostEffect
<1> QED
    BY <1>1, <1>3, <1>4, <1>5, <1>6, <1>7 DEF LaunchStep, AuthorityEffect

\* Tickets, crashes and restarts of the authority.
LEMMA AuthorityItselfEffect ==
    ASSUME AuthorityTypeOK,
           \/ \E x \in Row : IssueTicket(x) \/ ExpireTicket(x)
           \/ AuthorityCrash \/ AuthorityRestart
    PROVE  AuthorityEffect
<1>1. faults' \in 0..MaxFaults
    <2>1. Fault \/ NoFault
        BY DEF IssueTicket, ExpireTicket, AuthorityCrash, AuthorityRestart,
               NoFault
    <2> QED
        BY <2>1, FaultType
<1>2. UNCHANGED <<evidence, unit, package>>
    BY DEF IssueTicket, ExpireTicket, AuthorityCrash, AuthorityRestart, hostState
<1>3. CASE \E x \in Row : IssueTicket(x) \/ ExpireTicket(x)
    <2>1. /\ UNCHANGED <<up, known, cache, pending, launching>>
          /\ ticket' \in [Row -> {"none", "issued", "spent"}]
        BY <1>3 DEF IssueTicket, ExpireTicket, AuthorityTypeOK
    <2>2. AuthorityTypeOK'
        BY <1>1, <1>2, <2>1 DEF AuthorityTypeOK
    <2>3. \A x \in Row : /\ LaunchPending(x)' => LaunchPending(x)
                         /\ CollectPending(x)' => CollectPending(x)
        BY <2>1 DEF LaunchPending, CollectPending
    <2>4. \A x \in Row : HostKeeps(x)
        BY <1>2, <2>1, <2>3 DEF HostKeeps
    <2> QED
        BY <2>2, <2>3, <2>4 DEF AuthorityEffect, HostEffect
<1>4. CASE AuthorityCrash
    <2>1. /\ up' = FALSE
          /\ ticket' = [x \in Row |-> "none"]
          /\ known' = {} /\ pending' = {}
          /\ cache' = [x \in Row |-> [o \in CachedOp |-> "none"]]
          /\ launching' = [x \in Row |-> "idle"]
        BY <1>4 DEF AuthorityCrash
    <2>2. AuthorityTypeOK'
        BY <1>1, <1>2, <2>1 DEF AuthorityTypeOK
    <2>3. \A x \in Row : ~LaunchPending(x)' /\ ~CollectPending(x)'
        BY <2>1 DEF LaunchPending, CollectPending
    <2>4. \A x \in Row : HostKeeps(x)
        BY <1>2, <2>1, <2>3 DEF HostKeeps
    <2> QED
        BY <2>2, <2>3, <2>4 DEF AuthorityEffect, HostEffect
<1>5. CASE AuthorityRestart
    <2>1. UNCHANGED <<ticket, known, cache, pending, launching>> /\ up' = TRUE
        BY <1>5 DEF AuthorityRestart
    <2>2. AuthorityTypeOK'
        BY <1>1, <1>2, <2>1 DEF AuthorityTypeOK
    <2>3. \A x \in Row : /\ LaunchPending(x)' => LaunchPending(x)
                         /\ CollectPending(x)' => CollectPending(x)
        BY <2>1 DEF LaunchPending, CollectPending
    <2>4. \A x \in Row : HostKeeps(x)
        BY <1>2, <2>1, <2>3 DEF HostKeeps
    <2> QED
        BY <2>2, <2>3, <2>4 DEF AuthorityEffect, HostEffect
<1> QED
    BY <1>3, <1>4, <1>5

LEMMA RunnerEffect ==
    ASSUME AuthorityTypeOK, RunnerStep
    PROVE  AuthorityEffect
<1>1. PICK x \in Row : RunnerPublish(x) \/ RunnerExit(x)
    BY DEF RunnerStep
<1>2. /\ UNCHANGED <<up, ticket, known, cache, pending, launching, evidence, faults>>
      /\ unit[x] = "active"
    BY <1>1 DEF RunnerPublish, RunnerExit, authorityMemory
<1>3. \/ /\ package[x] = "none" /\ unit' = unit
         /\ \E p \in PackageKind : package' = [package EXCEPT ![x] = p]
      \/ package' = package /\ unit' = [unit EXCEPT ![x] = "dead"]
    BY <1>1, OutcomeAssumption DEF RunnerPublish, RunnerExit, OutcomeAssumption
<1>4. AuthorityTypeOK'
    BY <1>2, <1>3 DEF AuthorityTypeOK
<1>5. \A y \in Row : /\ LaunchPending(y)' => LaunchPending(y)
                     /\ CollectPending(y)' => CollectPending(y)
    BY <1>2 DEF LaunchPending, CollectPending
<1>6. \A y \in Row : HostKeeps(y) \/ HostPublishes(y)
    BY <1>2, <1>3, <1>5 DEF HostKeeps, HostPublishes, AuthorityTypeOK
<1> QED
    BY <1>4, <1>5, <1>6 DEF AuthorityEffect, HostEffect

LEMMA AuthorityIdle ==
    ASSUME AuthorityTypeOK, UNCHANGED authorityVars
    PROVE  AuthorityEffect
<1>1. UNCHANGED <<up, ticket, known, cache, pending, launching, evidence, unit,
                  package, faults>>
    BY DEF authorityVars, authorityMemory, hostState
<1>2. AuthorityTypeOK'
    BY <1>1 DEF AuthorityTypeOK
<1>3. \A x \in Row : HostKeeps(x)
    BY <1>1 DEF HostKeeps, LaunchPending
<1> QED
    BY <1>1, <1>2, <1>3 DEF AuthorityEffect, HostEffect, CollectPending

-----------------------------------------------------------------------------
(***************************************************************************)
(* Effects of the steps of the daemon                                      *)
(***************************************************************************)
ThreadRecord ==
    [at : Place, todo : SUBSET Row, row : Row, obs : Observation, why : Why]

StoreTypeOK ==
    /\ run \in RunStates \ {"none"}
    /\ rows \in [Row -> TargetStates \ {"none"}]
    /\ deadline \in [Row -> {"none", "set", "passed"}]

EngineTypeOK ==
    /\ phase \in {"down", "starting", "serving"}
    /\ active \subseteq Row /\ committed \subseteq Row /\ context \subseteq Row
    /\ thread \in [Thread -> ThreadRecord]

LEMMA TypeParts == RunTypeOK <=> AuthorityTypeOK /\ StoreTypeOK /\ EngineTypeOK
BY DEF RunTypeOK, StoreTypeOK, EngineTypeOK, ThreadRecord

\* A thread without work in hand.
LEMMA AtFacts ==
    ASSUME NEW place \in Place, NEW todo \in SUBSET Row
    PROVE  /\ At(place, todo) \in ThreadRecord
           /\ At(place, todo).at = place /\ At(place, todo).todo = todo
<1>1. Nowhere \in Row
    BY RowAssumption, Zenon DEF Nowhere, RowAssumption
<1> HIDE DEF Nowhere
<1> QED
    BY <1>1 DEF At, ThreadRecord, NoObservation, Observation, PackageKind, Why

LEMMA SetThread ==
    ASSUME EngineTypeOK, NEW t \in Thread, NEW rec \in ThreadRecord,
           thread' = [thread EXCEPT ![t] = rec]
    PROVE  /\ thread' \in [Thread -> ThreadRecord]
           /\ thread'[t] = rec
           /\ \A u \in Thread \ {t} : thread'[u] = thread[u]
BY DEF EngineTypeOK

\* Going to another place with the work in hand.
LEMMA GotoFacts ==
    ASSUME EngineTypeOK, NEW t \in Thread, NEW place \in Place, Goto(t, place)
    PROVE  /\ thread' \in [Thread -> ThreadRecord]
           /\ thread'[t].at = place
           /\ thread'[t].row = thread[t].row
           /\ thread'[t].obs = thread[t].obs
           /\ thread'[t].why = thread[t].why
           /\ \A u \in Thread \ {t} : thread'[u] = thread[u]
<1>1. thread[t] \in ThreadRecord
    BY DEF EngineTypeOK
<1> DEFINE rec == [thread[t] EXCEPT !.at = place]
<1>2. thread' = [thread EXCEPT ![t] = rec]
    BY DEF Goto, EngineTypeOK
<1>3. /\ rec \in ThreadRecord
      /\ rec.at = place /\ rec.row = thread[t].row
      /\ rec.obs = thread[t].obs /\ rec.why = thread[t].why
    BY <1>1 DEF ThreadRecord
<1> HIDE DEF rec
<1> QED
    BY <1>2, <1>3, SetThread

\* An exception, and a thread that goes on with the rest of its snapshot,
\* leave nothing in hand.
LEMMA ResumeFacts ==
    ASSUME EngineTypeOK, NEW t \in Thread,
           NEW place \in Place \ (Working \cup {"collect", "start"}),
           Resume(t, place)
    PROVE  /\ thread' \in [Thread -> ThreadRecord]
           /\ \A u \in Thread : ThreadEffect(u)
<1>1. thread[t].todo \in SUBSET Row
    BY DEF EngineTypeOK, ThreadRecord
<1>2. /\ At(place, thread[t].todo) \in ThreadRecord
      /\ At(place, thread[t].todo).at = place
    BY <1>1, AtFacts
<1>3. thread' = [thread EXCEPT ![t] = At(place, thread[t].todo)]
    BY DEF Resume
<1> QED
    BY <1>2, <1>3, SetThread DEF ThreadEffect, ThreadDrops

LEMMA EngineExitFacts ==
    ASSUME EngineTypeOK, EngineExit
    PROVE  /\ EngineTypeOK' /\ committed' \subseteq committed
           /\ \A u \in Thread : ThreadEffect(u)
<1>1. "idle" \in Place /\ {} \in SUBSET Row /\ "idle" \notin Working
    BY DEF Place, Working
<1>2. At("idle", {}) \in ThreadRecord /\ At("idle", {}).at = "idle"
    BY <1>1, AtFacts
<1>3. thread' = [t \in Thread |-> At("idle", {})]
    BY DEF EngineExit
<1>4. \A u \in Thread : ThreadDrops(u)
    BY <1>1, <1>2, <1>3 DEF ThreadDrops
<1>5. EngineTypeOK'
    BY <1>2, <1>3 DEF EngineExit, EngineTypeOK
<1> QED
    BY <1>4, <1>5 DEF EngineExit, ThreadEffect

LEMMA RaiseFacts ==
    ASSUME EngineTypeOK, NEW t \in Thread, Raise(t)
    PROVE  /\ EngineTypeOK' /\ committed' \subseteq committed
           /\ \A u \in Thread : ThreadEffect(u)
<1>1. CASE phase = "starting"
    BY <1>1, EngineExitFacts DEF Raise
<1>2. CASE phase # "starting"
    <2>1. PICK place \in {"launch", "scan"} : Resume(t, place)
        BY <1>2 DEF Raise
    <2>2. place \in Place \ (Working \cup {"collect", "start"})
        BY DEF Place, Working
    <2>3. /\ thread' \in [Thread -> ThreadRecord]
          /\ \A u \in Thread : ThreadEffect(u)
        BY <2>1, <2>2, ResumeFacts
    <2>4. UNCHANGED <<phase, active, committed, context>>
        BY <1>2 DEF Raise, engineVars
    <2> QED
        BY <2>3, <2>4 DEF EngineTypeOK
<1> QED
    BY <1>1, <1>2

\* How the parts of a step that leaves the run alone fit together.
LEMMA HostStepEffect ==
    ASSUME Inv, AuthorityEffect, EngineTypeOK', UNCHANGED <<run, rows>>,
           deadline' \in [Row -> {"none", "set", "passed"}],
           \A t \in Thread : ThreadEffect(t),
           \A x \in committed' : x \in committed \/ Concluded(x)
    PROVE  StepEffect
<1>1. RunTypeOK'
    <2>1. AuthorityTypeOK' /\ StoreTypeOK'
        BY TypeParts DEF AuthorityEffect, StoreTypeOK, Inv
    <2> QED
        BY <2>1 DEF RunTypeOK, StoreTypeOK, EngineTypeOK, ThreadRecord
<1>2. \A x \in Row : Concluded(x)' <=> Concluded(x)
    BY DEF Concluded
<1>3. committed' \subseteq Row
    BY DEF EngineTypeOK
<1> QED
    BY <1>1, <1>2, <1>3 DEF StepEffect, AuthorityEffect

\* Facts every step of the daemon starts from.
LEMMA InvFacts ==
    ASSUME Inv
    PROVE  /\ AuthorityTypeOK /\ StoreTypeOK /\ EngineTypeOK
           /\ deadline \in [Row -> {"none", "set", "passed"}]
           /\ \A y \in Row : EvidenceInv(y)
           /\ \A t \in Thread :
                /\ ThreadInv(t) /\ thread[t] \in ThreadRecord
                /\ thread[t].row \in Row /\ thread[t].todo \in SUBSET Row
<1>1. AuthorityTypeOK /\ StoreTypeOK /\ EngineTypeOK
    BY TypeParts DEF Inv
<1>2. \A t \in Thread : thread[t] \in ThreadRecord
    BY <1>1 DEF EngineTypeOK
<1> QED
    BY <1>1, <1>2 DEF StoreTypeOK, Inv, ThreadRecord

\* A step that only moves a thread to a place without work in hand.
LEMMA MoveEffect ==
    ASSUME Inv, NEW t \in Thread, UNCHANGED <<authorityVars, run, rows, deadline>>,
           phase' \in {"down", "starting", "serving"},
           UNCHANGED <<active, committed, context>>,
           NEW place \in Place \ (Working \cup {"collect", "start"}),
           \/ Goto(t, place)
           \/ \E todo \in SUBSET Row : thread' = [thread EXCEPT ![t] = At(place, todo)]
    PROVE  StepEffect
<1>1. EngineTypeOK /\ AuthorityEffect /\ deadline' = deadline
    BY InvFacts, AuthorityIdle
<1>2. thread' \in [Thread -> ThreadRecord] /\ \A u \in Thread : ThreadEffect(u)
    <2>1. CASE Goto(t, place)
        BY <1>1, <2>1, GotoFacts DEF ThreadEffect, ThreadDrops
    <2>2. ASSUME NEW todo \in SUBSET Row,
                 thread' = [thread EXCEPT ![t] = At(place, todo)]
          PROVE  /\ thread' \in [Thread -> ThreadRecord]
                 /\ \A u \in Thread : ThreadEffect(u)
        <3>1. At(place, todo) \in ThreadRecord /\ At(place, todo).at = place
            BY AtFacts
        <3> QED
            BY <1>1, <2>2, <3>1, SetThread DEF ThreadEffect, ThreadDrops
    <2> QED
        BY <2>1, <2>2
<1>3. EngineTypeOK'
    BY <1>1, <1>2 DEF EngineTypeOK
<1> QED
    BY <1>1, <1>2, <1>3, InvFacts, HostStepEffect

\* _reconcile_run finds nothing to do, in restart cleanup and in schedule.
LEMMA ReconcileIdle ==
    ASSUME Inv, ReconcileNonterminalRuns
    PROVE  UNCHANGED <<run, rows>>
<1>1. /\ rows \in [Row -> TargetStates] /\ Begun(rows) \in SUBSET Row
      /\ Reconciled(run, rows, Begun(rows))
    BY DEF Inv, RunTypeOK, RunInv, Begun
<1>2. CASE run \in ActiveRunStates
    <2>1. ReconciledRows(run, rows) = rows /\ ReconciledRun(run, rows) = run
        BY <1>1, <1>2, ReconciledAlready
    <2>2. run \notin TerminalRunStates
        BY <1>2 DEF ActiveRunStates, TerminalRunStates
    <2> QED
        BY <2>1, <2>2 DEF ReconcileNonterminalRuns
<1>3. CASE run \notin ActiveRunStates
    BY <1>3 DEF ReconcileNonterminalRuns
<1> QED
    BY <1>2, <1>3

\* The steps that only move a thread.
LEMMA PlaceEffect ==
    ASSUME Inv, \/ TestdStart \/ CleanupDone \/ Schedule \/ ScheduleEnd
                \/ \E t \in Thread : HeartbeatBegin(t) \/ HeartbeatEnd(t)
    PROVE  StepEffect
<1>1. "loop" \in Thread
    BY DEF Thread
<1>2. /\ {"scan", "beat", "schedule", "idle", "launch"} \subseteq
            Place \ (Working \cup {"collect", "start"})
      /\ phase \in {"down", "starting", "serving"}
    BY InvFacts DEF Place, Working, EngineTypeOK
<1>3. CASE TestdStart
    <2>1. /\ UNCHANGED <<authorityVars, run, rows, deadline, active, committed, context>>
          /\ phase' = "starting" /\ ActiveRows \in SUBSET Row
          /\ thread' = [thread EXCEPT !["loop"] = At("scan", ActiveRows)]
        BY <1>3 DEF TestdStart, storeVars, ActiveRows
    <2> QED
        BY <1>1, <1>2, <2>1, MoveEffect
<1>4. CASE CleanupDone
    <2>1. /\ UNCHANGED <<authorityVars, run, rows, deadline, active, committed, context>>
          /\ phase' = "serving"
          /\ thread' = [thread EXCEPT !["loop"] = At("beat", {})]
        BY <1>4, ReconcileIdle DEF CleanupDone
    <2> QED
        BY <1>1, <1>2, <2>1, MoveEffect
<1>5. CASE Schedule
    <2>1. /\ UNCHANGED <<authorityVars, run, rows, deadline, active, committed, context>>
          /\ phase' = phase
        BY <1>5, ReconcileIdle DEF Schedule, engineVars
    <2>2. \E S \in SUBSET Row : thread' = [thread EXCEPT !["loop"] = At("launch", S)]
        BY <1>5 DEF Schedule, Runnable
    <2> QED
        BY <1>1, <1>2, <2>1, <2>2, MoveEffect
<1>6. CASE ScheduleEnd
    <2>1. /\ UNCHANGED <<authorityVars, run, rows, deadline, active, committed, context>>
          /\ phase' = phase /\ Goto("loop", "beat")
        BY <1>6 DEF ScheduleEnd, storeVars, engineVars
    <2> QED
        BY <1>1, <1>2, <2>1, MoveEffect
<1>7. ASSUME NEW t \in Thread, HeartbeatBegin(t)
      PROVE  StepEffect
    <2>1. /\ UNCHANGED <<authorityVars, run, rows, deadline, active, committed, context>>
          /\ phase' = phase /\ active \in SUBSET Row
          /\ thread' = [thread EXCEPT ![t] = At("scan", active)]
        BY <1>7, InvFacts DEF HeartbeatBegin, storeVars, engineVars, EngineTypeOK
    <2> QED
        BY <1>2, <2>1, MoveEffect
<1>8. ASSUME NEW t \in Thread, HeartbeatEnd(t)
      PROVE  StepEffect
    <2>1. /\ UNCHANGED <<authorityVars, run, rows, deadline, active, committed, context>>
          /\ phase' = phase
          /\ Goto(t, "schedule") \/ Goto(t, "idle")
        BY <1>8 DEF HeartbeatEnd, storeVars, engineVars
    <2> QED
        BY <1>2, <2>1, MoveEffect
<1> QED
    BY <1>3, <1>4, <1>5, <1>6, <1>7, <1>8

\* An exception over a step of the authority, and an exit of the process.
LEMMA RaiseEffect ==
    ASSUME Inv, AuthorityEffect, UNCHANGED storeVars,
           EngineExit \/ \E t \in Thread : Raise(t)
    PROVE  StepEffect
<1>1. EngineTypeOK' /\ committed' \subseteq committed
      /\ \A u \in Thread : ThreadEffect(u)
    BY InvFacts, EngineExitFacts, RaiseFacts
<1>2. UNCHANGED <<run, rows>> /\ deadline' \in [Row -> {"none", "set", "passed"}]
    BY InvFacts DEF storeVars
<1> QED
    BY <1>1, <1>2, HostStepEffect

\* A step that goes on with the observation in hand.
LEMMA CarryEffect ==
    ASSUME Inv, AuthorityEffect, UNCHANGED storeVars,
           UNCHANGED <<phase, active, committed, context>>,
           NEW t \in Thread, NEW place \in Working, thread[t].at \in Working,
           Goto(t, place), place \notin {"settle", "stop"}
    PROVE  StepEffect
<1>1. EngineTypeOK /\ place \in Place
    BY InvFacts DEF Working, Place
<1>2. /\ thread' \in [Thread -> ThreadRecord]
      /\ thread'[t].at = place
      /\ thread'[t].row = thread[t].row
      /\ thread'[t].obs = thread[t].obs
      /\ \A u \in Thread \ {t} : thread'[u] = thread[u]
    BY <1>1, GotoFacts
<1>3. \A u \in Thread : ThreadEffect(u)
    BY <1>2 DEF ThreadEffect, ThreadCarries
<1>4. EngineTypeOK'
    BY <1>1, <1>2 DEF EngineTypeOK
<1>5. UNCHANGED <<run, rows>> /\ deadline' \in [Row -> {"none", "set", "passed"}]
    BY InvFacts DEF storeVars
<1> QED
    BY <1>3, <1>4, <1>5, HostStepEffect

\* A step that gives one thread new work.
LEMMA HandEffect ==
    ASSUME Inv, AuthorityEffect, UNCHANGED storeVars, NEW t \in Thread,
           NEW rec \in ThreadRecord, thread' = [thread EXCEPT ![t] = rec],
           ThreadEffect(t),
           phase' = phase, active' \subseteq Row, context' \subseteq Row,
           committed' \subseteq committed
    PROVE  StepEffect
<1>1. /\ thread' \in [Thread -> ThreadRecord]
      /\ \A u \in Thread \ {t} : thread'[u] = thread[u]
    BY InvFacts, SetThread
<1>2. \A u \in Thread : ThreadEffect(u)
    BY <1>1 DEF ThreadEffect
<1>3. EngineTypeOK'
    BY <1>1, InvFacts DEF EngineTypeOK
<1>4. UNCHANGED <<run, rows>> /\ deadline' \in [Row -> {"none", "set", "passed"}]
    BY InvFacts DEF storeVars
<1> QED
    BY <1>2, <1>3, <1>4, HostStepEffect

LEMMA ObservedType ==
    ASSUME AuthorityTypeOK, NEW x \in Row
    PROVE  Observed(x) \in Observation
<1>1. package[x] \in PackageKind /\ "none" \in PackageKind
    BY DEF AuthorityTypeOK, PackageKind
<1> QED
    BY <1>1 DEF Observed, Refused, Observation

\* submitter.stop: the call, then the observation that ends it.
LEMMA StopEffect ==
    ASSUME Inv, NEW t \in Thread, Stop(t)
    PROVE  StepEffect
<1>x. PICK x \in Row : x = thread[t].row
    BY InvFacts
<1>o. PICK op \in CachedOp : op = StopReasonOf(thread[t].why) /\ op # "collect"
    <2>1. thread[t].why \in {"deadline", "cancel", "restart", "restart_late"}
        BY InvFacts DEF Stop, ThreadInv
    <2> QED
        BY <2>1 DEF StopReasonOf, CachedOp, StopReason
<1>1. /\ thread[t].at = "stop" /\ UNCHANGED storeVars
      /\ AuthorityTypeOK /\ \A y \in Row : EvidenceInv(y)
    BY InvFacts DEF Stop
<1>2. ASSUME NEW ok \in BOOLEAN, ExecuteMutation(x, op, ok), UNCHANGED pending
      PROVE  AuthorityEffect
    BY <1>1, <1>2, <1>o, MutationEffect
<1>3. CASE ExecuteMutation(x, op, TRUE) /\ Goto(t, "stopped")
           /\ UNCHANGED <<pending, engineVars>>
    <2>1. "stopped" \in Working /\ "stop" \in Working
        BY DEF Working
    <2>2. UNCHANGED <<phase, active, committed, context>>
        BY <1>3 DEF engineVars
    <2>3. AuthorityEffect
        BY <1>2, <1>3
    <2> QED
        BY <1>1, <1>3, <2>1, <2>2, <2>3, CarryEffect
<1>4. CASE ExecuteMutation(x, op, FALSE) /\ Raise(t) /\ UNCHANGED pending
    <2>1. AuthorityEffect
        BY <1>2, <1>4
    <2> QED
        BY <1>1, <1>4, <2>1, RaiseEffect
<1>5. CASE Raise(t) /\ UNCHANGED authorityVars
    BY <1>1, <1>5, AuthorityIdle, RaiseEffect
<1>6. CASE /\ NoAnswer
           /\ \/ UNCHANGED pending
              \/ pending' = pending \cup {[row |-> x, op |-> op]}
           /\ Raise(t)
           /\ UNCHANGED <<up, ticket, known, cache, launching, hostState>>
    <2>1. AuthorityEffect
        BY <1>1, <1>6, <1>o, CallEffect
    <2> QED
        BY <1>1, <1>6, <2>1, RaiseEffect
<1> QED
    BY <1>x, <1>o, <1>3, <1>4, <1>5, <1>6 DEF Stop

LEMMA ObserveStoppedEffect ==
    ASSUME Inv, NEW t \in Thread, ObserveStopped(t)
    PROVE  StepEffect
<1>x. PICK x \in Row : x = thread[t].row
    BY InvFacts
<1>1. /\ thread[t].at = "stopped" /\ UNCHANGED storeVars
      /\ AuthorityTypeOK /\ EngineTypeOK /\ thread[t] \in ThreadRecord
    BY InvFacts DEF ObserveStopped
<1>2. CASE /\ TestAttemptStatus(x)
           /\ Observed(x).state \in {"exited", "absent"}
           /\ thread' = [thread EXCEPT ![t].obs = Observed(x), ![t].at = "settle"]
           /\ UNCHANGED engineVars
    <2> DEFINE rec == [thread[t] EXCEPT !.obs = Observed(x), !.at = "settle"]
    <2>1. AuthorityEffect /\ UNCHANGED <<unit, package, launching, pending>>
        BY <1>1, <1>2, StatusEffect
    <2>2. thread' = [thread EXCEPT ![t] = rec]
        BY <1>1, <1>2 DEF EngineTypeOK
    <2>3. /\ rec \in ThreadRecord /\ rec.at = "settle" /\ rec.row = x
          /\ rec.obs = Observed(x)
        BY <1>x, <1>1, ObservedType DEF ThreadRecord, Place
    <2> HIDE DEF rec
    <2>4. thread'[t] = rec
        BY <1>1, <2>2, <2>3, SetThread
    <2>5. ThreadObserves(t)
        BY <1>1, <1>2, <2>1, <2>3, <2>4 DEF ThreadObserves, storeVars
    <2>6. UNCHANGED <<phase, active, committed, context>>
        BY <1>2 DEF engineVars
    <2> QED
        BY <1>1, <2>1, <2>2, <2>3, <2>5, <2>6, HandEffect DEF ThreadEffect,
                                                              EngineTypeOK
<1>3. CASE TestAttemptStatus(x) /\ Raise(t)
    BY <1>1, <1>3, StatusEffect, RaiseEffect
<1>4. CASE NoAnswer \/ NoFault
    <2>1. CASE Raise(t) /\ UNCHANGED <<authorityMemory, hostState>>
        <3>1. UNCHANGED <<up, ticket, known, cache, pending, launching, hostState>>
            BY <2>1 DEF authorityMemory
        <3>2. AuthorityEffect
            BY <1>1, <1>4, <3>1, CallEffect
        <3> QED
            BY <1>1, <2>1, <3>2, RaiseEffect
    <2>2. CASE ~(Raise(t) /\ UNCHANGED <<authorityMemory, hostState>>)
        BY <1>x, <1>2, <1>3, <2>2 DEF ObserveStopped
    <2> QED
        BY <2>1, <2>2
<1> QED
    BY <1>x, <1>2, <1>3, <1>4 DEF ObserveStopped

\* submitter.collect.
LEMMA CollectEffect ==
    ASSUME Inv, NEW t \in Thread, Collect(t)
    PROVE  StepEffect
<1>x. PICK x \in Row : x = thread[t].row
    BY InvFacts
<1>1. /\ UNCHANGED storeVars /\ Concluded(x)
      /\ AuthorityTypeOK /\ EngineTypeOK /\ \A y \in Row : EvidenceInv(y)
    BY <1>x, InvFacts DEF Collect, ThreadInv
<1>o. PICK op \in CachedOp : op = "collect"
    BY DEF CachedOp
<1>2. ASSUME NEW ok \in BOOLEAN, ExecuteMutation(x, op, ok), UNCHANGED pending
      PROVE  AuthorityEffect
    BY <1>1, <1>2, MutationEffect
<1>3. CASE /\ ExecuteMutation(x, op, TRUE) /\ Resume(t, "scan")
           /\ active' = active \ {x} /\ context' = context \ {x}
           /\ UNCHANGED <<pending, phase, committed>>
    <2>1. AuthorityEffect
        BY <1>2, <1>3
    <2>2. "scan" \in Place \ (Working \cup {"collect", "start"})
        BY DEF Place, Working
    <2>3. /\ thread' \in [Thread -> ThreadRecord]
          /\ \A u \in Thread : ThreadEffect(u)
        BY <1>1, <1>3, <2>2, ResumeFacts
    <2>4. EngineTypeOK'
        BY <1>1, <1>3, <2>3 DEF EngineTypeOK
    <2>5. UNCHANGED <<run, rows>>
          /\ deadline' \in [Row -> {"none", "set", "passed"}]
        BY <1>1, InvFacts DEF storeVars
    <2> QED
        BY <1>3, <2>1, <2>3, <2>4, <2>5, HostStepEffect
<1>4. CASE ExecuteMutation(x, op, FALSE) /\ Raise(t) /\ UNCHANGED pending
    <2>1. AuthorityEffect
        BY <1>2, <1>4
    <2> QED
        BY <1>1, <1>4, <2>1, RaiseEffect
<1>5. CASE Raise(t) /\ UNCHANGED authorityVars
    BY <1>1, <1>5, AuthorityIdle, RaiseEffect
<1>6. CASE /\ NoAnswer
           /\ \/ UNCHANGED pending
              \/ pending' = pending \cup {[row |-> x, op |-> op]}
           /\ Raise(t)
           /\ UNCHANGED <<up, ticket, known, cache, launching, hostState>>
    <2>1. AuthorityEffect
        BY <1>1, <1>6, <1>o, CallEffect
    <2> QED
        BY <1>1, <1>6, <2>1, RaiseEffect
<1> QED
    BY <1>x, <1>o, <1>3, <1>4, <1>5, <1>6 DEF Collect

\* A lost call, while the rest of the host stands still.
LEMMA LostEffect ==
    ASSUME Inv, NoAnswer \/ NoFault \/ Fault, UNCHANGED <<authorityMemory, hostState>>
    PROVE  AuthorityEffect
<1>1. UNCHANGED <<up, ticket, known, cache, pending, launching, hostState>>
    BY DEF authorityMemory
<1> QED
    BY <1>1, InvFacts, CallEffect

LEMMA CleanupAttachEffect ==
    ASSUME Inv, CleanupAttach
    PROVE  StepEffect
<1>1. /\ "loop" \in Thread /\ UNCHANGED storeVars
      /\ AuthorityTypeOK /\ EngineTypeOK
      /\ thread["loop"].todo \in SUBSET Row
    BY InvFacts DEF Thread, CleanupAttach
<1>2. PICK x \in thread["loop"].todo :
        LET obs == Observed(x)
            why == IF deadline[x] = "passed" THEN "restart_late" ELSE "restart"
            rest == thread["loop"].todo \ {x}
        IN  \/ /\ TestAttemptStatus(x)
               /\ obs.state # "refused"
               /\ active' = active \cup {x}
               /\ context' = context \cup {x}
               /\ thread' = [thread EXCEPT !["loop"] =
                     [at |-> IF obs.state = "running" THEN "stop" ELSE "settle",
                      todo |-> rest, row |-> x, obs |-> obs, why |-> why]]
               /\ UNCHANGED <<phase, committed>>
            \/ TestAttemptStatus(x) /\ EngineExit
            \/ /\ NoAnswer
               /\ EngineExit
               /\ UNCHANGED <<authorityMemory, hostState>>
    BY DEF CleanupAttach
<1>3. x \in Row
    BY <1>1
<1>4. CASE TestAttemptStatus(x) /\ EngineExit
    BY <1>1, <1>3, <1>4, StatusEffect, RaiseEffect
<1>5. CASE NoAnswer /\ EngineExit /\ UNCHANGED <<authorityMemory, hostState>>
    BY <1>1, <1>5, LostEffect, RaiseEffect
<1>6. ASSUME NEW place, NEW rest, NEW why,
             place = IF Observed(x).state = "running" THEN "stop" ELSE "settle",
             why \in {"restart_late", "restart"},
             rest = thread["loop"].todo \ {x},
             TestAttemptStatus(x), Observed(x).state # "refused",
             active' = active \cup {x}, context' = context \cup {x},
             thread' = [thread EXCEPT !["loop"] =
                 [at |-> place, todo |-> rest, row |-> x, obs |-> Observed(x),
                  why |-> why]],
             UNCHANGED <<phase, committed>>
      PROVE  StepEffect
    <2> DEFINE rec == [at |-> place, todo |-> rest, row |-> x,
                       obs |-> Observed(x), why |-> why]
    <2>1. AuthorityEffect /\ UNCHANGED <<unit, package, launching, pending>>
        BY <1>1, <1>3, <1>6, StatusEffect
    <2>2. /\ rec \in ThreadRecord /\ rec.at = place /\ rec.row = x
          /\ rec.obs = Observed(x) /\ rec.why = why
        BY <1>1, <1>3, <1>6, ObservedType DEF ThreadRecord, Place, Why
    <2>3. thread' = [thread EXCEPT !["loop"] = rec]
        BY <1>6
    <2> HIDE DEF rec
    <2>4. thread'["loop"] = rec
        BY <1>1, <2>2, <2>3, SetThread
    <2>5. ThreadObserves("loop")
        BY <1>1, <1>6, <2>1, <2>2, <2>4 DEF ThreadObserves, storeVars
    <2>6. active' \subseteq Row /\ context' \subseteq Row
        BY <1>1, <1>3, <1>6 DEF EngineTypeOK
    <2> QED
        BY <1>1, <1>6, <2>1, <2>2, <2>3, <2>5, <2>6, HandEffect DEF ThreadEffect
<1> QED
    BY <1>2, <1>4, <1>5, <1>6

\* The work a thread takes from its snapshot.
LEMMA ObserveEffect ==
    ASSUME Inv, NEW t \in Thread, Observe(t)
    PROVE  StepEffect
<1>1. /\ UNCHANGED storeVars /\ UNCHANGED <<phase, active, committed, context>>
      /\ AuthorityTypeOK /\ EngineTypeOK
      /\ thread[t].todo \in SUBSET Row
    BY InvFacts DEF Observe, engineVars
<1>2. PICK x \in thread[t].todo :
        LET rest == At("scan", thread[t].todo \ {x})
            obs == Observed(x)
        IN  \/ /\ x \in committed
               /\ thread' = [thread EXCEPT ![t] =
                     [rest EXCEPT !.at = "collect", !.row = x]]
               /\ UNCHANGED authorityVars
            \/ /\ TestAttemptStatus(x)
               /\ thread' = [thread EXCEPT ![t] =
                     IF obs.state = "refused" THEN rest
                     ELSE [rest EXCEPT !.at = "record", !.row = x, !.obs = obs]]
            \/ /\ NoAnswer \/ NoFault
               /\ thread' = [thread EXCEPT ![t] = rest]
               /\ UNCHANGED <<authorityMemory, hostState>>
    BY DEF Observe
<1> DEFINE rest == At("scan", thread[t].todo \ {x})
           r == [rest EXCEPT !.at = "collect", !.row = x]
           s == [rest EXCEPT !.at = "record", !.row = x, !.obs = Observed(x)]
<1>3. /\ x \in Row /\ thread[t].todo \ {x} \in SUBSET Row
      /\ {"scan", "collect", "record"} \subseteq Place
      /\ "scan" \notin Working \cup {"collect", "start"}
      /\ Observed(x) \in Observation
    BY <1>1, ObservedType DEF Place, Working
<1>5. \/ x \in committed /\ thread' = [thread EXCEPT ![t] = r]
         /\ UNCHANGED authorityVars
      \/ TestAttemptStatus(x) /\ thread' = [thread EXCEPT ![t] = rest]
      \/ TestAttemptStatus(x) /\ thread' = [thread EXCEPT ![t] = s]
         /\ Observed(x).state # "refused"
      \/ /\ NoAnswer \/ NoFault
         /\ thread' = [thread EXCEPT ![t] = rest]
         /\ UNCHANGED <<authorityMemory, hostState>>
    BY <1>2
<1>r. rest \in ThreadRecord /\ rest.at = "scan"
    BY <1>3, AtFacts
<1> HIDE DEF rest
<1>4. /\ rest \in ThreadRecord /\ rest.at = "scan"
      /\ r \in ThreadRecord /\ r.at = "collect" /\ r.row = x
      /\ s \in ThreadRecord /\ s.at = "record" /\ s.row = x
      /\ s.obs = Observed(x)
    BY <1>3, <1>r DEF ThreadRecord
<1> HIDE DEF r, s
<1>6. ASSUME NEW rec \in ThreadRecord, thread' = [thread EXCEPT ![t] = rec],
             AuthorityEffect, thread'[t] = rec => ThreadEffect(t)
      PROVE  StepEffect
    <2>1. thread'[t] = rec
        BY <1>1, <1>6, SetThread
    <2> QED
        BY <1>1, <1>6, <2>1, HandEffect DEF EngineTypeOK
<1>7. thread'[t] = rest => ThreadEffect(t)
    BY <1>3, <1>4 DEF ThreadEffect, ThreadDrops
<1>8. CASE x \in committed /\ thread' = [thread EXCEPT ![t] = r]
           /\ UNCHANGED authorityVars
    <2>1. rows'[x] \in TerminalTargetStates
        BY <1>1, <1>3, <1>8 DEF Inv, HostInv, Concluded, storeVars
    <2>2. thread'[t] = r => ThreadEffect(t)
        BY <1>4, <2>1 DEF ThreadEffect, ThreadCollects
    <2> QED
        BY <1>1, <1>4, <1>6, <1>8, <2>2, AuthorityIdle
<1>9. CASE TestAttemptStatus(x) /\ thread' = [thread EXCEPT ![t] = rest]
    BY <1>1, <1>3, <1>4, <1>6, <1>7, <1>9, StatusEffect
<1>10. CASE TestAttemptStatus(x) /\ thread' = [thread EXCEPT ![t] = s]
            /\ Observed(x).state # "refused"
    <2>1. AuthorityEffect /\ UNCHANGED <<unit, package, launching, pending>>
        BY <1>1, <1>3, <1>10, StatusEffect
    <2>2. thread'[t] = s => ThreadObserves(t)
        BY <1>1, <1>4, <1>10, <2>1 DEF ThreadObserves, storeVars
    <2> QED
        BY <1>4, <1>6, <1>10, <2>1, <2>2 DEF ThreadEffect
<1>11. CASE /\ NoAnswer \/ NoFault
            /\ thread' = [thread EXCEPT ![t] = rest]
            /\ UNCHANGED <<authorityMemory, hostState>>
    BY <1>4, <1>6, <1>7, <1>11, LostEffect
<1> QED
    BY <1>5, <1>8, <1>9, <1>10, <1>11

LEMMA RecordObservationEffect ==
    ASSUME Inv, NEW t \in Thread, RecordObservation(t)
    PROVE  StepEffect
<1>1. /\ UNCHANGED storeVars /\ AuthorityEffect
      /\ thread[t].at \in Working
      /\ {"started", "decide"} \subseteq Working \ {"settle", "stop"}
    BY InvFacts, AuthorityIdle DEF RecordObservation, Working
<1>2. \/ Raise(t)
      \/ /\ Goto(t, "started") \/ Goto(t, "decide")
         /\ UNCHANGED <<phase, active, committed, context>>
    BY DEF RecordObservation, engineVars
<1> QED
    BY <1>1, <1>2, RaiseEffect, CarryEffect

LEMMA DecideEffect ==
    ASSUME Inv, NEW t \in Thread, Decide(t)
    PROVE  StepEffect
<1> DEFINE obs == thread[t].obs
<1>1. /\ UNCHANGED storeVars /\ AuthorityEffect
      /\ thread[t].at = "decide"
      /\ UNCHANGED <<phase, active, committed, context>>
      /\ EngineTypeOK /\ thread[t] \in ThreadRecord /\ obs \in Observation
    BY InvFacts, AuthorityIdle DEF Decide, engineVars, ThreadRecord
<1>2. CASE Resume(t, "scan")
    <2>1. "scan" \in Place \ (Working \cup {"collect", "start"})
        BY DEF Place, Working
    <2>2. /\ thread' \in [Thread -> ThreadRecord]
          /\ \A u \in Thread : ThreadEffect(u)
        BY <1>1, <1>2, <2>1, ResumeFacts
    <2>3. EngineTypeOK'
        BY <1>1, <2>2 DEF EngineTypeOK
    <2>4. UNCHANGED <<run, rows>> /\ deadline' \in [Row -> {"none", "set", "passed"}]
        BY <1>1, InvFacts DEF storeVars
    <2> QED
        BY <1>1, <2>2, <2>3, <2>4, HostStepEffect
<1>3. ASSUME NEW why \in Why, BeginSettle(t, thread[t].row, obs, why),
             obs.state = "running" => why \in {"deadline", "cancel"}
      PROVE  StepEffect
    <2> DEFINE place == IF obs.state = "running" THEN "stop" ELSE "settle"
               rec == [thread[t] EXCEPT !.row = thread[t].row, !.obs = obs,
                                        !.why = why, !.at = place]
    <2>1. thread' = [thread EXCEPT ![t] = rec]
        BY <1>1, <1>3 DEF BeginSettle, EngineTypeOK
    <2>2. /\ rec \in ThreadRecord /\ rec.at = place
          /\ rec.row = thread[t].row /\ rec.obs = obs /\ rec.why = why
        BY <1>1, <1>3 DEF ThreadRecord, Place
    <2> HIDE DEF rec
    <2>3. thread'[t] = rec
        BY <1>1, <2>1, <2>2, SetThread
    <2>4. ThreadCarries(t)
        BY <1>1, <1>3, <2>2, <2>3 DEF ThreadCarries, Working
    <2> QED
        BY <1>1, <2>1, <2>2, <2>4, HandEffect DEF ThreadEffect, EngineTypeOK
<1>4. \/ Resume(t, "scan")
      \/ \E why \in Why : /\ BeginSettle(t, thread[t].row, obs, why)
                          /\ obs.state = "running" => why \in {"deadline", "cancel"}
    BY DEF Decide, Why
<1> QED
    BY <1>2, <1>3, <1>4

\* A step that moves the run.
LEMMA RunStepEffect ==
    ASSUME Inv, RunMoves, UNCHANGED authorityVars, EngineTypeOK',
           deadline' \in [Row -> {"none", "set", "passed"}],
           \A t \in Thread : ThreadEffect(t),
           \A x \in committed' : x \in committed \/ Concluded(x)'
    PROVE  StepEffect
<1>1. AuthorityTypeOK'
    BY InvFacts, AuthorityIdle DEF AuthorityEffect
<1>2. run' \in RunStates \ {"none"} /\ rows' \in [Row -> TargetStates \ {"none"}]
    BY RunMovesKeep
<1>3. RunTypeOK'
    BY <1>1, <1>2 DEF RunTypeOK, EngineTypeOK, ThreadRecord
<1>4. \A x \in Row : CollectPending(x)' => CollectPending(x)
    BY DEF CollectPending, authorityVars, authorityMemory
<1> QED
    BY <1>3, <1>4 DEF StepEffect

\* record_started.
LEMMA RecordStartedEffect ==
    ASSUME Inv, NEW t \in Thread, RecordStarted(t)
    PROVE  StepEffect
<1>x. PICK x \in Row : x = thread[t].row
    BY InvFacts
<1>1. /\ thread[t].at \in Working /\ UNCHANGED authorityVars /\ run' = run
      /\ AuthorityEffect /\ EngineTypeOK
      /\ "decide" \in Working \ {"settle", "stop"} /\ "decide" \in Place
      /\ deadline \in [Row -> {"none", "set", "passed"}]
    BY InvFacts, AuthorityIdle DEF RecordStarted, Working, Place
<1>2. CASE /\ rows[x] = "starting"
           /\ rows' = [rows EXCEPT ![x] = "running"]
           /\ deadline' = [deadline EXCEPT ![x] = "set"]
           /\ Goto(t, "decide")
           /\ UNCHANGED engineVars
    <2>1. /\ thread' \in [Thread -> ThreadRecord]
          /\ thread'[t].at = "decide"
          /\ thread'[t].row = thread[t].row
          /\ thread'[t].obs = thread[t].obs
          /\ \A u \in Thread \ {t} : thread'[u] = thread[u]
        BY <1>1, <1>2, GotoFacts
    <2>2. \A u \in Thread : ThreadEffect(u)
        BY <1>1, <2>1 DEF ThreadEffect, ThreadCarries
    <2>3. EngineTypeOK' /\ committed' = committed
        BY <1>1, <1>2, <2>1 DEF EngineTypeOK, engineVars
    <2>4. RunMoves
        BY <1>1, <1>2 DEF RunMoves, RowStarts
    <2>5. deadline' \in [Row -> {"none", "set", "passed"}]
        BY <1>1, <1>2
    <2> QED
        BY <1>1, <2>2, <2>3, <2>4, <2>5, RunStepEffect
<1>3. CASE Goto(t, "decide") /\ UNCHANGED <<rows, deadline, engineVars>>
    <2>1. UNCHANGED storeVars /\ UNCHANGED <<phase, active, committed, context>>
        BY <1>1, <1>3 DEF storeVars, engineVars
    <2> QED
        BY <1>1, <1>3, <2>1, CarryEffect
<1>4. CASE Raise(t) /\ UNCHANGED <<rows, deadline>>
    <2>1. UNCHANGED storeVars
        BY <1>1, <1>4 DEF storeVars
    <2> QED
        BY <1>1, <1>4, <2>1, RaiseEffect
<1> QED
    BY <1>x, <1>2, <1>3, <1>4 DEF RecordStarted

\* A conclusion is a finished state, and the one a complete package measured.
LEMMA PackageConclusionFacts ==
    ASSUME NEW p, NEW why, NEW c \in PackageConclusion(p, Fallback(why))
    PROVE  /\ c \in TerminalTargetStates
           /\ p = "pass" => c = "succeeded"
           /\ p = "fail" => c = "test_failed"
<1>1. Fallback(why) \in TerminalTargetStates
    BY DEF Fallback, TerminalTargetStates
<1> QED
    BY <1>1 DEF PackageConclusion, TerminalTargetStates

LEMMA CompleteEffect ==
    ASSUME Inv, NEW t \in Thread, Complete(t)
    PROVE  StepEffect
<1>x. PICK x \in Row : x = thread[t].row
    BY InvFacts
<1> DEFINE p == thread[t].obs.package
<1>1. PICK c \in PackageConclusion(p, Fallback(thread[t].why)) :
        \/ /\ rows[x] \in ActiveTargetStates
           /\ rows' = ReconciledRows(run, [rows EXCEPT ![x] = c])
           /\ run' = ReconciledRun(run, rows')
           /\ committed' = committed \cup {x}
           /\ Goto(t, "collect")
           /\ UNCHANGED <<deadline, phase, active, context>>
        \/ /\ rows[x] = c
           /\ committed' = committed \cup {x}
           /\ Goto(t, "collect")
           /\ UNCHANGED <<storeVars, phase, active, context>>
        \/ Raise(t) /\ UNCHANGED storeVars
    BY <1>x DEF Complete
<1>2. /\ c \in TerminalTargetStates
      /\ p = "pass" => c = "succeeded"
      /\ p = "fail" => c = "test_failed"
    BY PackageConclusionFacts
<1>3. /\ UNCHANGED authorityVars /\ AuthorityEffect /\ EngineTypeOK
      /\ Quiet(x)
      /\ rows[x] \in ActiveTargetStates =>
            p = package[x] \/ evidence[x] = "none"
      /\ "collect" \in Place
      /\ deadline \in [Row -> {"none", "set", "passed"}]
    BY <1>x, InvFacts, AuthorityIdle DEF Complete, ThreadInv, Working, Place
<1> HIDE DEF p
<1>4. ASSUME Goto(t, "collect"), committed' = committed \cup {x},
             UNCHANGED <<phase, active, context>>,
             rows'[x] \in TerminalTargetStates
      PROVE  /\ EngineTypeOK'
             /\ \A u \in Thread : ThreadEffect(u)
    <2>1. /\ thread' \in [Thread -> ThreadRecord]
          /\ thread'[t].at = "collect" /\ thread'[t].row = x
          /\ \A u \in Thread \ {t} : thread'[u] = thread[u]
        BY <1>x, <1>3, <1>4, GotoFacts
    <2> QED
        BY <1>3, <1>4, <2>1 DEF EngineTypeOK, ThreadEffect, ThreadCollects
<1>5. CASE /\ rows[x] \in ActiveTargetStates
           /\ rows' = ReconciledRows(run, [rows EXCEPT ![x] = c])
           /\ run' = ReconciledRun(run, rows')
           /\ committed' = committed \cup {x}
           /\ Goto(t, "collect")
           /\ UNCHANGED <<deadline, phase, active, context>>
    <2>1. RowConcludes(x, c)
        BY <1>2, <1>3, <1>5 DEF RowConcludes, RowsAfter
    <2>2. RunMoves
        BY <1>2, <2>1 DEF RunMoves
    <2>3. rows'[x] \in TerminalTargetStates
        <3>1. /\ run \in ActiveRunStates /\ rows \in [Row -> TargetStates]
              /\ Begun(rows) \in SUBSET Row
              /\ Reconciled(run, rows, Begun(rows)) /\ RunSettled(run, rows)
            BY <1>5, ExecutingIsOpen DEF Inv, RunTypeOK, RunInv, Begun
        <3>2. rows' = RowsAfter(run, rows, x, c)
            BY <2>1 DEF RowConcludes
        <3> QED
            BY <1>2, <1>5, <3>1, <3>2, ConclusionReconciles
    <2>4. EngineTypeOK' /\ \A u \in Thread : ThreadEffect(u)
        BY <1>4, <1>5, <2>3
    <2>5. \A y \in committed' : y \in committed \/ Concluded(y)'
        BY <1>5, <2>3 DEF Concluded
    <2> QED
        BY <1>3, <1>5, <2>2, <2>4, <2>5, RunStepEffect
<1>6. CASE /\ rows[x] = c
           /\ committed' = committed \cup {x}
           /\ Goto(t, "collect")
           /\ UNCHANGED <<storeVars, phase, active, context>>
    <2>1. UNCHANGED <<run, rows, deadline>> /\ Concluded(x)
          /\ rows'[x] \in TerminalTargetStates
        BY <1>2, <1>6 DEF storeVars, Concluded
    <2>2. EngineTypeOK' /\ \A u \in Thread : ThreadEffect(u)
        BY <1>4, <1>6, <2>1
    <2>3. \A y \in committed' : y \in committed \/ Concluded(y)
        BY <1>6, <2>1
    <2> QED
        BY <1>3, <2>1, <2>2, <2>3, HostStepEffect
<1>7. CASE Raise(t) /\ UNCHANGED storeVars
    BY <1>3, <1>7, RaiseEffect
<1> QED
    BY <1>1, <1>5, <1>6, <1>7

-----------------------------------------------------------------------------
(***************************************************************************)
(* The steps of schedule, cancel_run and the environment                   *)
(***************************************************************************)
LEMMA IssueLaunchTicketEffect ==
    ASSUME Inv, IssueLaunchTicket
    PROVE  StepEffect
<1>1. /\ "loop" \in Thread /\ UNCHANGED storeVars
      /\ UNCHANGED <<phase, active, committed, context>>
      /\ AuthorityTypeOK /\ EngineTypeOK
      /\ thread["loop"].todo \in SUBSET Row
    BY InvFacts DEF Thread, IssueLaunchTicket, engineVars
<1>2. PICK x \in thread["loop"].todo :
        LET rest == At("launch", thread["loop"].todo \ {x})
        IN  \/ /\ IssueTicket(x)
               /\ thread' = [thread EXCEPT !["loop"] =
                     [rest EXCEPT !.at = "begin", !.row = x]]
            \/ /\ NoAnswer
               /\ thread' = [thread EXCEPT !["loop"] = rest]
               /\ UNCHANGED <<authorityMemory, hostState>>
    BY DEF IssueLaunchTicket
<1> DEFINE rest == At("launch", thread["loop"].todo \ {x})
           r == [rest EXCEPT !.at = "begin", !.row = x]
<1>3. /\ x \in Row /\ thread["loop"].todo \ {x} \in SUBSET Row
      /\ {"launch", "begin"} \subseteq Place
      /\ {"launch", "begin"} \cap (Working \cup {"collect", "start"}) = {}
    BY <1>1 DEF Place, Working
<1>4. \/ IssueTicket(x) /\ thread' = [thread EXCEPT !["loop"] = r]
      \/ /\ NoAnswer
         /\ thread' = [thread EXCEPT !["loop"] = rest]
         /\ UNCHANGED <<authorityMemory, hostState>>
    BY <1>2
<1>5. rest \in ThreadRecord /\ rest.at = "launch"
    BY <1>3, AtFacts
<1> HIDE DEF rest
<1>6. r \in ThreadRecord /\ r.at = "begin"
    BY <1>3, <1>5 DEF ThreadRecord
<1> HIDE DEF r
<1>7. ASSUME NEW rec \in ThreadRecord, thread' = [thread EXCEPT !["loop"] = rec],
             AuthorityEffect, rec.at \in {"launch", "begin"}
      PROVE  StepEffect
    <2>1. thread'["loop"] = rec
        BY <1>1, <1>7, SetThread
    <2>2. ThreadEffect("loop")
        BY <1>3, <1>7, <2>1 DEF ThreadEffect, ThreadDrops
    <2> QED
        BY <1>1, <1>7, <2>2, HandEffect DEF EngineTypeOK
<1>8. IssueTicket(x) => AuthorityEffect
    BY <1>1, <1>3, AuthorityItselfEffect
<1> QED
    BY <1>4, <1>5, <1>6, <1>7, <1>8, LostEffect

LEMMA BeginExecutionEffect ==
    ASSUME Inv, BeginExecution
    PROVE  StepEffect
<1>1. /\ "loop" \in Thread /\ UNCHANGED authorityVars
      /\ AuthorityEffect /\ EngineTypeOK /\ "start" \in Place
      /\ deadline \in [Row -> {"none", "set", "passed"}]
    BY InvFacts, AuthorityIdle DEF Thread, BeginExecution, Place
<1>x. PICK x \in Row : x = thread["loop"].row
    BY <1>1, InvFacts
<1>2. CASE /\ x \in Runnable
           /\ rows' = [rows EXCEPT ![x] = "starting"]
           /\ run' = "running"
           /\ active' = active \cup {x}
           /\ Goto("loop", "start")
           /\ UNCHANGED <<deadline, phase, committed, context>>
    <2>1. /\ thread' \in [Thread -> ThreadRecord]
          /\ thread'["loop"].at = "start"
          /\ thread'["loop"].row = x
          /\ \A u \in Thread \ {"loop"} : thread'[u] = thread[u]
        BY <1>1, <1>x, <1>2, GotoFacts
    <2>2. rows \in [Row -> TargetStates \ {"none"}]
        BY DEF Inv, RunTypeOK
    <2>3. RowBegins(x) /\ rows'[x] = "starting"
        BY <1>2, <2>1, <2>2 DEF RowBegins, Runnable, AtStart
    <2>4. \A u \in Thread : ThreadEffect(u)
        BY <2>1, <2>3 DEF ThreadEffect, ThreadBegins, RowBegins
    <2>5. EngineTypeOK' /\ committed' = committed
        BY <1>1, <1>2, <2>1 DEF EngineTypeOK
    <2>6. RunMoves
        BY <2>3 DEF RunMoves
    <2> QED
        BY <1>1, <1>2, <2>4, <2>5, <2>6, RunStepEffect
<1>3. CASE Raise("loop") /\ UNCHANGED storeVars
    BY <1>1, <1>3, RaiseEffect
<1> QED
    BY <1>x, <1>2, <1>3 DEF BeginExecution

LEMMA StartPreparedEffect ==
    ASSUME Inv, StartPrepared
    PROVE  StepEffect
<1>1. /\ "loop" \in Thread /\ UNCHANGED storeVars
      /\ AuthorityTypeOK /\ EngineTypeOK
      /\ thread["loop"].at = "start"
      /\ UNCHANGED <<up, ticket, known, cache, launching, evidence, unit, package>>
      /\ UNCHANGED <<phase, active, committed>>
      /\ "launch" \in Place \ (Working \cup {"collect", "start"})
    BY InvFacts DEF Thread, StartPrepared, hostState, Place, Working
<1>x. PICK x \in Row : x = thread["loop"].row
    BY <1>1, InvFacts
<1>2. /\ context' = context \cup {x}
      /\ Resume("loop", "launch")
      /\ \/ pending' = pending
         \/ pending' = pending \cup {[row |-> x, op |-> "launch"]}
      /\ Fault \/ NoFault
    BY <1>x DEF StartPrepared, NoAnswer
<1>3. /\ thread' \in [Thread -> ThreadRecord]
      /\ \A u \in Thread : ThreadEffect(u)
    BY <1>1, <1>2, ResumeFacts
<1>4. thread'["loop"].at = "launch"
    <2>1. /\ At("launch", thread["loop"].todo) \in ThreadRecord
          /\ At("launch", thread["loop"].todo).at = "launch"
        BY <1>1, InvFacts, AtFacts
    <2> QED
        BY <1>1, <1>2, <2>1, SetThread DEF Resume
<1>5. faults' \in 0..MaxFaults
    BY <1>1, <1>2, FaultType
<1>6. AuthorityTypeOK'
    BY <1>1, <1>2, <1>5 DEF AuthorityTypeOK
<1>7. \A y \in Row : CollectPending(y)' => CollectPending(y)
    BY <1>2 DEF CollectPending
<1>8. HostAsked(x)
    BY <1>1, <1>x, <1>4 DEF HostAsked, AtStart
<1>9. \A y \in Row \ {x} : HostKeeps(y)
    BY <1>1, <1>2 DEF HostKeeps, LaunchPending
<1>10. AuthorityEffect
    BY <1>6, <1>7, <1>8, <1>9 DEF AuthorityEffect, HostEffect
<1>11. EngineTypeOK'
    BY <1>1, <1>2, <1>3 DEF EngineTypeOK
<1>12. UNCHANGED <<run, rows>> /\ deadline' \in [Row -> {"none", "set", "passed"}]
    BY <1>1, InvFacts DEF storeVars
<1> QED
    BY <1>1, <1>3, <1>10, <1>11, <1>12, HostStepEffect

LEMMA CancelRunEffect ==
    ASSUME Inv, CancelRun
    PROVE  StepEffect
<1>1. /\ "request" \in Thread /\ UNCHANGED authorityVars
      /\ Goto("request", "beat") /\ deadline' = deadline
      /\ UNCHANGED <<phase, active, committed, context>>
      /\ EngineTypeOK
      /\ "beat" \in Place \ (Working \cup {"collect", "start"})
      /\ deadline \in [Row -> {"none", "set", "passed"}]
      /\ phase \in {"down", "starting", "serving"}
    BY InvFacts DEF Thread, CancelRun, engineVars, Place, Working, EngineTypeOK
<1>2. CASE UNCHANGED <<run, rows>>
    <2>1. UNCHANGED <<authorityVars, run, rows, deadline>>
        BY <1>1, <1>2
    <2> QED
        BY <1>1, <2>1, MoveEffect
<1>3. CASE RunWithdrawn
    <2>1. /\ thread' \in [Thread -> ThreadRecord]
          /\ thread'["request"].at = "beat"
          /\ \A u \in Thread \ {"request"} : thread'[u] = thread[u]
        BY <1>1, GotoFacts
    <2>2. \A u \in Thread : ThreadEffect(u)
        BY <1>1, <2>1 DEF ThreadEffect, ThreadDrops
    <2>3. EngineTypeOK'
        BY <1>1, <2>1 DEF EngineTypeOK
    <2> QED
        BY <1>1, <1>3, <2>2, <2>3, RunStepEffect DEF RunMoves
<1> QED
    BY <1>2, <1>3 DEF CancelRun, RunWithdrawn

\* A step that leaves the engine alone.
LEMMA OutsideEffect ==
    ASSUME Inv, AuthorityEffect, UNCHANGED <<run, rows, engineVars, thread>>,
           deadline' \in [Row -> {"none", "set", "passed"}]
    PROVE  StepEffect
<1>1. EngineTypeOK
    BY InvFacts
<1>2. EngineTypeOK' /\ committed' = committed
    BY <1>1 DEF EngineTypeOK, engineVars
<1>3. \A u \in Thread : ThreadEffect(u)
    BY DEF ThreadEffect
<1> QED
    BY <1>2, <1>3, HostStepEffect

LEMMA LateMutationEffect ==
    ASSUME Inv, ExecuteLateMutation
    PROVE  AuthorityEffect
<1>1. AuthorityTypeOK /\ \A y \in Row : EvidenceInv(y) /\ HostInv(y)
    BY InvFacts DEF Inv
<1>2. PICK q \in pending, ok \in BOOLEAN :
        /\ q.op # "launch"
        /\ ExecuteMutation(q.row, q.op, ok)
        /\ pending' = pending \ {q}
    BY DEF ExecuteLateMutation
<1>3. q \in [row : Row, op : CachedOp \cup {"launch"}]
    BY <1>1 DEF AuthorityTypeOK
<1>4. q.row \in Row /\ q.op \in CachedOp
    BY <1>2, <1>3
<1>5. q.op = "collect" => Concluded(q.row)
    <2>1. q.op = "collect" => q = [row |-> q.row, op |-> "collect"]
        BY <1>3
    <2> QED
        BY <1>1, <1>2, <1>4, <2>1 DEF HostInv, CollectPending
<1> QED
    BY <1>1, <1>2, <1>4, <1>5, MutationEffect

\* The process ends, by itself or in a restart cleanup.
LEMMA ExitEffect ==
    ASSUME Inv, TestdCrash \/ CleanupRefused
    PROVE  StepEffect
<1>1. CASE TestdCrash
    <2>1. /\ EngineExit /\ UNCHANGED storeVars
          /\ UNCHANGED <<authorityMemory, hostState>> /\ Fault
        BY <1>1 DEF TestdCrash
    <2> QED
        BY <2>1, LostEffect, RaiseEffect
<1>2. CASE CleanupRefused
    <2>1. EngineExit /\ UNCHANGED storeVars /\ UNCHANGED authorityVars
        BY <1>2 DEF CleanupRefused
    <2>2. AuthorityEffect
        BY <2>1, InvFacts, AuthorityIdle
    <2> QED
        BY <2>1, <2>2, RaiseEffect
<1> QED
    BY <1>1, <1>2

LEMMA EnvironmentEffect ==
    ASSUME Inv, EnvironmentStep
    PROVE  StepEffect
<1>1. /\ AuthorityTypeOK /\ \A y \in Row : EvidenceInv(y)
      /\ deadline \in [Row -> {"none", "set", "passed"}]
    BY InvFacts
<1>2. AuthorityStep \/ RunnerStep => AuthorityEffect
    BY <1>1, LaunchEffect, AuthorityItselfEffect, LateMutationEffect,
       RunnerEffect DEF AuthorityStep
<1>3. CASE /\ AuthorityStep \/ RunnerStep
           /\ UNCHANGED <<storeVars, engineVars, thread>>
    <2>1. UNCHANGED <<run, rows, engineVars, thread>> /\ deadline' = deadline
        BY <1>3 DEF storeVars
    <2> QED
        BY <1>1, <1>2, <1>3, <2>1, OutsideEffect
<1>4. CASE \E x \in Row : DeadlinePasses(x)
    <2>1. /\ UNCHANGED <<run, rows, engineVars, thread>> /\ UNCHANGED authorityVars
          /\ deadline' \in [Row -> {"none", "set", "passed"}]
        BY <1>1, <1>4 DEF DeadlinePasses
    <2> QED
        BY <1>1, <2>1, OutsideEffect, AuthorityIdle
<1> QED
    BY <1>3, <1>4 DEF EnvironmentStep

-----------------------------------------------------------------------------
(***************************************************************************)
(* The invariant and what follows from it                                  *)
(***************************************************************************)

\* Every step of the daemon, of the authority and of the environment is one
\* of the effects.
LEMMA StepHasEffect ==
    ASSUME Inv, [Next]_vars
    PROVE  StepEffect
<1>1. CASE UNCHANGED vars
    <2>1. /\ UNCHANGED authorityVars /\ deadline' = deadline
          /\ UNCHANGED <<run, rows, engineVars, thread>>
        BY <1>1 DEF vars, daemonVars, storeVars
    <2>2. AuthorityEffect
        BY <2>1, InvFacts, AuthorityIdle
    <2> QED
        BY <2>1, <2>2, InvFacts, OutsideEffect
<1>2. ASSUME NEW t \in Thread, HeartbeatStep(t)
      PROVE  StepEffect
    BY <1>2, PlaceEffect, ObserveEffect, RecordObservationEffect,
       RecordStartedEffect, DecideEffect, StopEffect, ObserveStoppedEffect,
       CompleteEffect, CollectEffect DEF HeartbeatStep, SettleStep
<1>3. CASE LoopStep
    <2>1. "loop" \in Thread
        BY DEF Thread
    <2> QED
        BY <1>2, <1>3, <2>1, PlaceEffect, ExitEffect, CleanupAttachEffect,
           IssueLaunchTicketEffect, BeginExecutionEffect, StartPreparedEffect
           DEF LoopStep
<1>4. CASE HeartbeatStep("request")
    BY <1>2, <1>4 DEF Thread
<1> QED
    BY <1>1, <1>3, <1>4, CancelRunEffect, EnvironmentEffect, ExitEffect DEF Next

LEMMA InvStep ==
    ASSUME Inv, [Next]_vars
    PROVE  Inv'
BY StepHasEffect, HostStepKeeps, RunStepKeeps DEF StepEffect

LEMMA InvInit ==
    ASSUME Init
    PROVE  Inv
<1>1. /\ run = "queued" /\ rows = [x \in Row |-> "queued"]
      /\ pending = {} /\ committed = {} /\ known = {}
      /\ thread = [t \in Thread |-> At("idle", {})]
      /\ \A x \in Row : /\ launching[x] = "idle" /\ evidence[x] = "none"
                        /\ unit[x] = "none" /\ package[x] = "none"
    BY DEF Init, AuthorityInit
<1>2. "idle" \in Place /\ {} \in SUBSET Row
    BY DEF Place
<1>3. At("idle", {}) \in ThreadRecord /\ At("idle", {}).at = "idle"
    BY <1>2, AtFacts
<1>4. \A t \in Thread : thread[t].at = "idle"
    BY <1>1, <1>3
<1>5. RunTypeOK
    <2>1. AuthorityTypeOK
        BY MaxFaultsAssumption DEF Init, AuthorityInit, AuthorityTypeOK,
           MaxFaultsAssumption, PackageKind
    <2>2. StoreTypeOK
        BY DEF Init, StoreTypeOK, RunStates, ActiveRunStates, TargetStates,
               UnfinishedTargetStates
    <2>3. EngineTypeOK
        BY <1>1, <1>3 DEF Init, EngineTypeOK
    <2> QED
        BY <2>1, <2>2, <2>3, TypeParts
<1>6. RunInv
    <2>1. /\ rows \in [Row -> {"queued", "none"}]
          /\ rows \in [Row -> TargetStates] /\ RowsOf(rows) = Row
        BY <1>1 DEF RowsOf, TargetStates, UnfinishedTargetStates
    <2>2. Reconciled(run, rows, {})
        BY <1>1, <2>1, FreshReconciled, RowAssumption DEF RowAssumption
    <2>3. Reconciled(run, rows, Begun(rows))
        BY <2>2, BegunFromRows
    <2> QED
        BY <1>1, <2>3 DEF RunInv, RunSettled, TerminalRunStates
<1>7. \A x \in Row : EvidenceInv(x) /\ HostInv(x)
    <2>1. "loop" \in Thread
        BY DEF Thread
    <2> QED
        BY <1>1, <1>4, <2>1 DEF EvidenceInv, HostInv, Unlaunched, AtStart,
           LaunchPending, CollectPending, Concluded, TerminalTargetStates
<1>8. \A t \in Thread : ThreadInv(t)
    BY <1>4 DEF ThreadInv, Working
<1> QED
    BY <1>5, <1>6, <1>7, <1>8 DEF Inv

LEMMA TestdInv == Spec => []Inv
BY InvInit, InvStep, PTL DEF Spec

\* Only a crash changes what is known of the other runs.
LEMMA TestdOrphan == Spec => [](orphan \in BOOLEAN)
<1>1. Init => orphan \in BOOLEAN
    BY DEF Init
<1>2. orphan \in BOOLEAN /\ [Next]_vars => (orphan \in BOOLEAN)'
    BY DEF Next, TestdCrash, vars, daemonVars
<1> QED
    BY <1>1, <1>2, PTL DEF Spec

\* No unit runs under a concluded row, and a complete package decides the
\* conclusion, whatever crashes, calls that get lost or arrive late, cached
\* answers and the other thread do in between: the observation _settle acts
\* on may be old, but what it says of a stopped unit is final.
THEOREM TestdConclusionsSound == Spec => []ConclusionsSound
<1>1. Inv /\ orphan \in BOOLEAN => ConclusionsSound
    BY DEF Inv, HostInv, Concluded, Quiet, ConclusionsSound, TypeOK,
           NoUnitOutlivesItsRow, MeasuredResultWins
<1> QED
    BY <1>1, TestdInv, TestdOrphan, PTL

\* A unit exists only for a row whose dependencies succeeded, and a run is
\* concluded only when none of its units runs, a cancellation on the request
\* thread included.
THEOREM TestdUnitsMatchRun == Spec => []UnitsMatchRun
<1>1. ASSUME Inv
      PROVE  UnitsMatchRun
    <2>1. UnitStartsAfterDependencies
        BY <1>1 DEF Inv, HostInv, UnitStartsAfterDependencies
    <2>2. ASSUME run \in TerminalRunStates, NEW x \in Row
          PROVE  unit[x] # "active"
        <3>1. rows[x] \notin UnfinishedTargetStates
            BY <1>1, <2>2 DEF Inv, RunInv, RunSettled
        <3>2. Concluded(x)
            BY <1>1, <3>1 DEF Inv, RunTypeOK, TargetStates, Concluded
        <3> QED
            BY <1>1, <3>2 DEF Inv, HostInv, Quiet
    <2> QED
        BY <2>1, <2>2 DEF UnitsMatchRun, RunEndsQuiet
<1> QED
    BY <1>1, TestdInv, PTL

\* A unit starts once, after BEGIN and before the conclusion of its row:
\* neither a late LAUNCH nor a restart starts a second one.
THEOREM TestdUnitStartsOnce == Spec => UnitStartsOnce
<1> DEFINE Once == \A x \in Row :
                    unit'[x] = "active" /\ unit[x] # "active" =>
                        unit[x] = "none" /\ rows[x] \in ActiveTargetStates
<1>1. ASSUME Inv, [Next]_vars
      PROVE  Once
    <2> SUFFICES ASSUME NEW x \in Row, unit'[x] = "active", unit[x] # "active"
                 PROVE  unit[x] = "none" /\ rows[x] \in ActiveTargetStates
        OBVIOUS
    <2>1. RunTypeOK /\ EvidenceInv(x) /\ HostInv(x)
        BY <1>1 DEF Inv
    <2>2. HostEffect(x)
        BY <1>1, StepHasEffect DEF StepEffect, authorityVars, hostState
    <2>3. launching[x] = "prepared"
        BY <2>2 DEF HostEffect, HostKeeps, HostCollects, HostAsked, HostAccepts,
                    HostPrepares, HostRuns, HostUndoes, HostPublishes
    <2> QED
        BY <2>1, <2>3, RowStateCases DEF EvidenceInv, HostInv, Unlaunched, Quiet
<1> QED
    BY <1>1, TestdInv, PTL DEF Spec, UnitStartsOnce

\* Nothing a started execution left behind goes away before the store holds
\* its conclusion, by a late or repeated COLLECT, a stop or a crash: only its
\* own LAUNCH, before it is acknowledged, may take it back.
THEOREM TestdEvidenceOutlivesTheExecution == Spec => EvidenceOutlivesTheExecution
<1> DEFINE Kept == \A x \in Row :
                    \/ evidence[x] = "started" /\ evidence'[x] # "started"
                    \/ package[x] # "none" /\ package'[x] # package[x]
                    => rows[x] \in TerminalTargetStates \/ launching[x] = "ran"
<1>1. ASSUME Inv, [Next]_vars
      PROVE  Kept
    <2> SUFFICES ASSUME NEW x \in Row,
                        \/ evidence[x] = "started" /\ evidence'[x] # "started"
                        \/ package[x] # "none" /\ package'[x] # package[x]
                 PROVE  rows[x] \in TerminalTargetStates \/ launching[x] = "ran"
        OBVIOUS
    <2>1. EvidenceInv(x) /\ HostInv(x)
        BY <1>1 DEF Inv
    <2>2. HostEffect(x)
        BY <1>1, StepHasEffect DEF StepEffect, authorityVars, hostState
    <2>3. HostCollects(x) \/ HostUndoes(x)
        BY <2>1, <2>2 DEF HostEffect, HostKeeps, HostAsked, HostAccepts,
            HostPrepares, HostRuns, HostPublishes, EvidenceInv, HostInv, Unlaunched
    <2> QED
        BY <2>3 DEF HostCollects, HostUndoes, Concluded
<1> QED
    BY <1>1, TestdInv, PTL DEF Spec, EvidenceOutlivesTheExecution

\* An active run whose slots settle takes a step of its contract.
LEMMA RunSettles ==
    ASSUME run \in ActiveRunStates,
           SlotsSettle(SlotsFor(rows), SlotsFor(rows'), VerdictFor(run'))
    PROVE  Contract!Settle
<1>1. VerdictFor(run) = "open"
    BY DEF VerdictFor, ActiveRunStates
<1> QED
    BY <1>1 DEF SlotsSettle, Contract!Settle, Contract!GivenUp,
                Contract!DependsOn, Contract!VerdictOf, Contract!Decided,
                Contract!AllPassed, Contract!SlotState

\* The run implements RunContract: with two threads, crashes of either
\* process and calls that are lost, late or repeated, a target is taken at
\* most once and in dependency order, gets one result, and the run is decided
\* in the step that decides its last target.
THEOREM TestdRunKeepsContract == Spec => RunKeepsContract
<1>1. ASSUME Init
      PROVE  Contract!Init
    <2>1. VerdictFor(run) = "open"
        BY <1>1 DEF Init, VerdictFor, ActiveRunStates
    <2>2. SlotsFor(rows) = [x \in Row |-> "waiting"]
        BY <1>1 DEF Init, SlotsFor, ActiveTargetStates
    <2> QED
        BY <2>1, <2>2 DEF Contract!Init
<1>2. ASSUME Inv, [Next]_vars
      PROVE  [Contract!Next]_(Contract!vars)
    <2>1. /\ rows \in [Row -> TargetStates] /\ Begun(rows) \in SUBSET Row
          /\ Reconciled(run, rows, Begun(rows)) /\ RunSettled(run, rows)
        BY <1>2 DEF Inv, RunTypeOK, RunInv, Begun
    <2>2. CASE UNCHANGED <<run, rows>>
        BY <2>2 DEF Contract!vars
    <2>3. ASSUME NEW x \in Row, RowBegins(x)
          PROVE  Contract!Next
        <3>1. VerdictFor(run) = "open" /\ VerdictFor(run') = "open"
            BY <2>3 DEF RowBegins, VerdictFor, ActiveRunStates
        <3>2. SlotTaken(SlotsFor(rows), SlotsFor(rows'), x)
            BY <2>1, <2>3, BeginTakesSlot DEF RowBegins
        <3>3. Contract!Take(x)
            BY <3>1, <3>2 DEF SlotTaken, Contract!Take, Contract!DependsOn
        <3> QED
            BY <3>3 DEF Contract!Next
    <2>4. ASSUME NEW x \in Row, RowStarts(x)
          PROVE  UNCHANGED Contract!vars
        <3>1. SlotsFor(rows') = SlotsFor(rows)
            BY <2>1, <2>4, StartKeepsSlots DEF RowStarts
        <3> QED
            BY <2>4, <3>1 DEF RowStarts, Contract!vars
    <2>5. ASSUME NEW x \in Row, NEW end \in TerminalTargetStates,
                 RowConcludes(x, end)
          PROVE  Contract!Next
        <3>1. /\ run \in ActiveRunStates /\ rows[x] \in ActiveTargetStates
              /\ rows' = RowsAfter(run, rows, x, end)
              /\ run' = ReconciledRun(run, rows')
            BY <1>2, <2>5, ExecutingIsOpen DEF RowConcludes
        <3>2. SlotsSettle(SlotsFor(rows), SlotsFor(rows'), VerdictFor(run'))
            BY <2>1, <3>1, ConclusionSettlesSlots
        <3> QED
            BY <3>1, <3>2, RunSettles DEF Contract!Next
    <2>6. CASE RunWithdrawn
        <3>1. SlotsSettle(SlotsFor(rows), SlotsFor(rows'), VerdictFor(run'))
            BY <2>1, <2>6, WithdrawalSettlesSlots DEF RunWithdrawn
        <3> QED
            BY <2>6, <3>1, RunSettles DEF RunWithdrawn, Contract!Next
    <2>7. UNCHANGED <<run, rows>> \/ RunMoves
        BY <1>2, StepHasEffect DEF StepEffect
    <2> QED
        BY <2>2, <2>3, <2>4, <2>5, <2>6, <2>7 DEF RunMoves
<1> QED
    BY <1>1, <1>2, TestdInv, PTL DEF Spec, RunKeepsContract, Contract!Spec
=============================================================================
