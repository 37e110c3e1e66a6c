------------------------------- MODULE Testd --------------------------------
(***************************************************************************)
(* The test engine daemon: universal_testd.py (TestdEngine and its loop),  *)
(* the broker adapter of universal_test_broker.py, the store transactions  *)
(* the engine calls, and the root authority of TestAuthority.              *)
(*                                                                         *)
(* One run is modelled; of the others, whether one has left an execution   *)
(* that the authority knows nothing of.  Two threads share the engine      *)
(* without a lock: the loop (heartbeat, then schedule, for ever) and a     *)
(* request thread that cancels the run and then runs a heartbeat of its    *)
(* own.  Every store transaction and every call to the authority is one    *)
(* step; any of them may interleave with the other thread's.  An exception *)
(* ends the work on one execution while serving, and ends the process      *)
(* during restart cleanup; systemd starts the process again.               *)
(***************************************************************************)
EXTENDS TestAuthority

\* The run has a row: the store concludes an empty selection at once.
ASSUME RowAssumption == Row # {}

VARIABLES
    run,        \* state of the run
    rows,       \* states of its target rows
    deadline,   \* deadline_at of each row, and whether it has passed
    orphan,     \* an execution of another run began and was never launched
    phase,      \* of the testd process
    active,     \* _active
    committed,  \* executions with terminal_committed set
    context,    \* _v8_runtimes of the broker adapter
    thread      \* where each thread is

storeVars == <<run, rows, deadline>>
engineVars == <<phase, active, committed, context>>
daemonVars == <<storeVars, orphan, engineVars, thread>>
vars == <<authorityVars, daemonVars>>

Thread == {"loop", "request"}
Place == {"idle", "beat", "scan", "record", "started", "decide", "stop",
          "stopped", "settle", "collect", "schedule", "launch", "begin",
          "start"}

\* Why an execution is settled; it decides the fallback conclusion and the
\* reason of the stop.
Why == {"none", "deadline", "cancel", "published", "exited", "restart",
        "restart_late"}

Observation == [state : {"none", "refused", "running", "exited", "absent"},
                package : PackageKind]
NoObservation == [state |-> "none", package |-> "none"]

\* A row of a thread without work in hand is an arbitrary fixed one.
Nowhere == CHOOSE x \in Row : TRUE
At(place, todo) ==
    [at |-> place, todo |-> todo, row |-> Nowhere, obs |-> NoObservation,
     why |-> "none"]

\* Columns of the store, the places of both threads and what they carry.
RunTypeOK ==
    /\ AuthorityTypeOK
    /\ run \in RunStates \ {"none"}
    /\ rows \in [Row -> TargetStates \ {"none"}]
    /\ deadline \in [Row -> {"none", "set", "passed"}]
    /\ phase \in {"down", "starting", "serving"}
    /\ active \subseteq Row /\ committed \subseteq Row /\ context \subseteq Row
    /\ thread \in [Thread -> [at : Place, todo : SUBSET Row, row : Row,
                              obs : Observation, why : Why]]

\* The state of the run, and what is known of the others.
TypeOK == RunTypeOK /\ orphan \in BOOLEAN

Init ==
    /\ AuthorityInit
    /\ run = "queued"
    /\ rows = [x \in Row |-> "queued"]
    /\ deadline = [x \in Row |-> "none"]
    /\ orphan = FALSE
    /\ phase = "down"
    /\ active = {} /\ committed = {} /\ context = {}
    /\ thread = [t \in Thread |-> At("idle", {})]

ActiveRows == {x \in Row : rows[x] \in ActiveTargetStates}

-----------------------------------------------------------------------------
(***************************************************************************)
(* The process                                                             *)
(***************************************************************************)
EngineExit ==
    /\ phase' = "down"
    /\ active' = {} /\ committed' = {} /\ context' = {}
    /\ thread' = [t \in Thread |-> At("idle", {})]

\* Where thread t goes next.
Goto(t, place) == thread' = [thread EXCEPT ![t].at = place]
Resume(t, place) == thread' = [thread EXCEPT ![t] = At(place, thread[t].todo)]

\* An exception while t works on one execution or candidate.
Raise(t) ==
    IF phase = "starting" THEN EngineExit
    ELSE /\ Resume(t, IF thread[t].at \in {"launch", "begin", "start"}
                      THEN "launch" ELSE "scan")
         /\ UNCHANGED engineVars

\* A call to the authority that gets no answer: nobody listens, or the
\* transport fails.
NoAnswer == IF up THEN Fault ELSE NoFault


TestdStart ==
    /\ phase = "down"
    /\ phase' = "starting"
    /\ thread' = [thread EXCEPT !["loop"] = At("scan", ActiveRows)]
    /\ UNCHANGED <<authorityVars, storeVars, active, committed, context>>

\* A process that dies while it goes through the candidates may die between
\* begin_execution and LAUNCH of a candidate of another run.
TestdCrash ==
    /\ phase # "down"
    /\ \/ orphan' = orphan
       \/ thread["loop"].at = "launch" /\ orphan' = TRUE
    /\ EngineExit
    /\ Fault
    /\ UNCHANGED <<authorityMemory, hostState, storeVars>>

-----------------------------------------------------------------------------
(***************************************************************************)
(* _settle and what it calls                                               *)
(***************************************************************************)
StopReasonOf(why) ==
    IF why \in {"restart", "restart_late"} THEN "restart" ELSE why

Fallback(why) ==
    CASE why \in {"deadline", "restart_late"} -> "timed_out"
      [] why \in {"cancel", "restart"} -> "cancelled"
      [] why = "published" -> "incomplete"
      [] OTHER -> "infrastructure_failed"

\* Mutant: a competing cancellation or deadline beats a complete package.
PackageConclusionLoses(p, fallback) ==
    CASE p = "none" \/ fallback \in {"timed_out", "cancelled"} -> {fallback}
      [] p = "partial" -> {"incomplete"}
      [] p \in {"late", "contested"} -> {"timed_out"}
      [] p = "fail" -> {"test_failed"}
      [] OTHER -> {"succeeded"}

\* _package_conclusion.  The runner's own classification is looked at before
\* the counts of failed cases.
PackageConclusion(p, fallback) ==
    CASE p = "none" -> {fallback}
      [] p = "partial" -> {IF fallback \in {"timed_out", "cancelled"}
                           THEN fallback ELSE "incomplete"}
      [] p = "late" -> {"timed_out"}
      [] p = "contested" -> {"timed_out", "infrastructure_failed"}
      [] p = "fail" -> {"test_failed"}
      [] OTHER -> {"succeeded"}

\* complete_from_package refuses another conclusion of a measured failure.
ConclusionAllowed(p, c) == p \in {"fail", "contested"} => c = "test_failed"

\* Settling begins: a unit that is not stopped yet is stopped first.
BeginSettle(t, x, obs, why) ==
    thread' = [thread EXCEPT ![t].row = x, ![t].obs = obs, ![t].why = why,
                             ![t].at = IF obs.state = "running" THEN "stop"
                                       ELSE "settle"]

\* submitter.stop: CANCEL, whose answer only matters as success or error.
Stop(t) ==
    LET x == thread[t].row
        op == StopReasonOf(thread[t].why)
    IN  /\ thread[t].at = "stop"
        /\ UNCHANGED storeVars
        /\ \/ /\ x \in context
              /\ ExecuteMutation(x, op, TRUE)
              /\ Goto(t, "stopped")
              /\ UNCHANGED <<pending, engineVars>>
           \/ /\ x \in context
              /\ ExecuteMutation(x, op, FALSE)
              /\ Raise(t)
              /\ UNCHANGED pending
           \/ /\ x \notin context
              /\ Raise(t)
              /\ UNCHANGED authorityVars
           \/ /\ x \in context
              /\ NoAnswer
              /\ \/ UNCHANGED pending
                 \/ up /\ pending' = pending \cup {[row |-> x, op |-> op]}
              /\ Raise(t)
              /\ UNCHANGED <<up, ticket, known, cache, launching, hostState>>

\* The observation that ends submitter.stop replaces the first one.
ObserveStopped(t) ==
    LET x == thread[t].row
        obs == Observed(x)
    IN  /\ thread[t].at = "stopped"
        /\ UNCHANGED storeVars
        /\ \/ /\ x \in context
              /\ TestAttemptStatus(x)
              /\ IF obs.state \in {"exited", "absent"}
                 THEN /\ thread' = [thread EXCEPT ![t].obs = obs,
                                                  ![t].at = "settle"]
                      /\ UNCHANGED engineVars
                 ELSE Raise(t)
           \/ /\ IF x \in context THEN NoAnswer ELSE NoFault
              /\ Raise(t)
              /\ UNCHANGED <<authorityMemory, hostState>>

\* Resolve the package file, conclude, and complete in the store.
Complete(t) ==
    LET x == thread[t].row
        p == thread[t].obs.package
    IN  /\ thread[t].at = "settle"
        /\ UNCHANGED authorityVars
        /\ \E c \in PackageConclusion(p, Fallback(thread[t].why)) :
            LET concluded == [rows EXCEPT ![x] = c]
                settled == ReconciledRows(run, concluded)
            IN  \/ /\ package[x] = p \/ p = "none"
                   /\ rows[x] \in ActiveTargetStates
                   /\ ConclusionAllowed(p, c)
                   /\ rows' = settled
                   /\ run' = ReconciledRun(run, settled)
                   /\ committed' = committed \cup {x}
                   /\ Goto(t, "collect")
                   /\ UNCHANGED <<deadline, phase, active, context>>
                \/ /\ package[x] = p \/ p = "none"
                   /\ rows[x] = c              \* replayed by operation_id
                   /\ committed' = committed \cup {x}
                   /\ Goto(t, "collect")
                   /\ UNCHANGED <<storeVars, phase, active, context>>
                \/ /\ \/ package[x] # p /\ p # "none"
                      \/ rows[x] \notin ActiveTargetStates
                      \/ ~ConclusionAllowed(p, c)
                   /\ Raise(t)
                   /\ UNCHANGED storeVars

\* submitter.collect; the adapter and the engine forget the execution.
Collect(t) ==
    LET x == thread[t].row
    IN  /\ thread[t].at = "collect"
        /\ UNCHANGED storeVars
        /\ \/ /\ x \in context
              /\ ExecuteMutation(x, "collect", TRUE)
              /\ active' = active \ {x}
              /\ context' = context \ {x}
              /\ Resume(t, "scan")
              /\ UNCHANGED <<pending, phase, committed>>
           \/ /\ x \in context
              /\ ExecuteMutation(x, "collect", FALSE)
              /\ Raise(t)
              /\ UNCHANGED pending
           \/ /\ x \notin context
              /\ Raise(t)
              /\ UNCHANGED authorityVars
           \/ /\ x \in context
              /\ NoAnswer
              /\ \/ UNCHANGED pending
                 \/ up /\ pending' = pending \cup {[row |-> x, op |-> "collect"]}
              /\ Raise(t)
              /\ UNCHANGED <<up, ticket, known, cache, launching, hostState>>

-----------------------------------------------------------------------------
(***************************************************************************)
(* _restart_cleanup: one binding at a time, any failure ends the process   *)
(***************************************************************************)
CleanupAttach ==
    \E x \in thread["loop"].todo :
        LET obs == Observed(x)
            why == IF deadline[x] = "passed" THEN "restart_late" ELSE "restart"
            rest == thread["loop"].todo \ {x}
        IN  /\ phase = "starting"
            /\ thread["loop"].at = "scan"
            /\ UNCHANGED storeVars
            /\ \/ /\ TestAttemptStatus(x)
                  /\ obs.state # "refused"
                  /\ active' = active \cup {x}
                  /\ context' = context \cup {x}
                  /\ thread' = [thread EXCEPT !["loop"] =
                        [at |-> IF obs.state = "running" THEN "stop" ELSE "settle",
                         todo |-> rest, row |-> x, obs |-> obs, why |-> why]]
                  /\ UNCHANGED <<phase, committed>>
               \/ /\ TestAttemptStatus(x)
                  /\ obs.state = "refused"
                  /\ EngineExit
               \/ /\ NoAnswer
                  /\ EngineExit
                  /\ UNCHANGED <<authorityMemory, hostState>>

ReconcileNonterminalRuns ==
    \/ /\ run \in ActiveRunStates
       /\ rows' = ReconciledRows(run, rows)
       /\ run' = ReconciledRun(run, rows')
    \/ /\ run \in TerminalRunStates
       /\ UNCHANGED <<run, rows>>

\* The bindings of every run are attached, and the authority refuses STATUS of
\* an execution it never heard of.
CleanupRefused ==
    /\ phase = "starting"
    /\ thread["loop"].at = "scan"
    /\ orphan
    /\ EngineExit
    /\ UNCHANGED <<authorityVars, storeVars>>

\* Nothing is left active: the engine loop and the server start.
CleanupDone ==
    /\ phase = "starting"
    /\ ~orphan
    /\ thread["loop"] = At("scan", {})
    /\ ActiveRows = {}
    /\ ReconcileNonterminalRuns
    /\ phase' = "serving"
    /\ thread' = [thread EXCEPT !["loop"] = At("beat", {})]
    /\ UNCHANGED <<authorityVars, deadline, active, committed, context>>

-----------------------------------------------------------------------------
(***************************************************************************)
(* heartbeat                                                               *)
(***************************************************************************)
HeartbeatBegin(t) ==
    /\ phase = "serving"
    /\ thread[t].at = "beat"
    /\ thread' = [thread EXCEPT ![t] = At("scan", active)]
    /\ UNCHANGED <<authorityVars, storeVars, engineVars>>

\* The next execution of the snapshot.
Observe(t) ==
    \E x \in thread[t].todo :
        LET rest == At("scan", thread[t].todo \ {x})
            obs == Observed(x)
        IN  /\ phase = "serving"
            /\ thread[t].at = "scan"
            /\ UNCHANGED <<storeVars, engineVars>>
            /\ \/ /\ x \in committed
                  /\ thread' = [thread EXCEPT ![t] =
                        [rest EXCEPT !.at = "collect", !.row = x]]
                  /\ UNCHANGED authorityVars
               \/ /\ x \notin committed /\ x \in context
                  /\ TestAttemptStatus(x)
                  /\ thread' = [thread EXCEPT ![t] =
                        IF obs.state = "refused" THEN rest
                        ELSE [rest EXCEPT !.at = "record", !.row = x,
                                          !.obs = obs]]
               \/ /\ x \notin committed
                  /\ IF x \in context THEN NoAnswer ELSE NoFault
                  /\ thread' = [thread EXCEPT ![t] = rest]
                  /\ UNCHANGED <<authorityMemory, hostState>>

\* _record_start_if_observed reads the retained state and _record_progress
\* insists on an active execution; an unconfirmed launch records nothing.
RecordObservation(t) ==
    LET x == thread[t].row
        obs == thread[t].obs
    IN  /\ thread[t].at = "record"
        /\ IF obs.state # "absent" /\ rows[x] = "starting"
           THEN Goto(t, "started") /\ UNCHANGED engineVars
           ELSE IF obs.state = "running" /\ rows[x] \notin ActiveTargetStates
           THEN Raise(t)
           ELSE Goto(t, "decide") /\ UNCHANGED engineVars
        /\ UNCHANGED <<authorityVars, storeVars>>

\* record_started; the execution may have changed since it was read.
RecordStarted(t) ==
    LET x == thread[t].row
    IN  /\ thread[t].at = "started"
        /\ \/ /\ rows[x] = "starting"
              /\ rows' = [rows EXCEPT ![x] = "running"]
              /\ deadline' = [deadline EXCEPT ![x] = "set"]
              /\ Goto(t, "decide")
              /\ UNCHANGED engineVars
           \/ /\ rows[x] = "running"
              /\ Goto(t, "decide")
              /\ UNCHANGED <<rows, deadline, engineVars>>
           \/ /\ rows[x] # "starting"
              /\ Raise(t)
              /\ UNCHANGED <<rows, deadline>>
        /\ UNCHANGED <<authorityVars, run>>

Decide(t) ==
    LET x == thread[t].row
        obs == thread[t].obs
        late == deadline[x] = "passed"
        cancelling == run = "cancelling" \/ rows[x] = "stopping"
        why == IF late THEN "deadline"
               ELSE IF cancelling THEN "cancel"
               ELSE IF obs.package # "none" THEN "published"
               ELSE "exited"
    IN  /\ thread[t].at = "decide"
        /\ IF late \/ cancelling \/ obs.state # "running"
           THEN BeginSettle(t, x, obs, why)
           ELSE Resume(t, "scan")
        /\ UNCHANGED <<authorityVars, storeVars, engineVars>>

HeartbeatEnd(t) ==
    /\ phase = "serving"
    /\ thread[t] = At("scan", {})
    /\ Goto(t, IF t = "loop" THEN "schedule" ELSE "idle")
    /\ UNCHANGED <<authorityVars, storeVars, engineVars>>

-----------------------------------------------------------------------------
(***************************************************************************)
(* schedule                                                                *)
(***************************************************************************)

Runnable ==
    {x \in Row : /\ rows[x] = "queued"
                 /\ run \in {"queued", "running"}
                 /\ TargetDependenciesSucceeded(rows, x)}

\* The run is reconciled, then its runnable targets are read.  The scheduler
\* may admit any of them, or none: memory, fairness between repositories and
\* exclusive resources are abstracted.
Schedule ==
    /\ thread["loop"].at = "schedule"
    /\ ReconcileNonterminalRuns
    /\ \E S \in SUBSET Runnable' :
        thread' = [thread EXCEPT !["loop"] = At("launch", S)]
    /\ UNCHANGED <<authorityVars, deadline, engineVars>>

IssueLaunchTicket ==
    \E x \in thread["loop"].todo :
        LET rest == At("launch", thread["loop"].todo \ {x})
        IN  /\ thread["loop"].at = "launch"
            /\ \/ /\ IssueTicket(x)
                  /\ thread' = [thread EXCEPT !["loop"] =
                        [rest EXCEPT !.at = "begin", !.row = x]]
               \/ /\ NoAnswer
                  /\ thread' = [thread EXCEPT !["loop"] = rest]
                  /\ UNCHANGED <<authorityMemory, hostState>>
            /\ UNCHANGED <<storeVars, engineVars>>

\* Mutant: a candidate selected before a cancellation is begun after it.
BeginStaleCandidate ==
    LET x == thread["loop"].row
    IN  /\ thread["loop"].at = "begin"
        /\ rows' = [rows EXCEPT ![x] = "starting"]
        /\ active' = active \cup {x}
        /\ Goto("loop", "start")
        /\ UNCHANGED <<authorityVars, run, deadline, phase, committed, context>>

BeginExecution ==
    LET x == thread["loop"].row
    IN  /\ thread["loop"].at = "begin"
        /\ \/ /\ x \in Runnable
              /\ rows' = [rows EXCEPT ![x] = "starting"]
              /\ run' = "running"
              /\ active' = active \cup {x}
              /\ Goto("loop", "start")
              /\ UNCHANGED <<deadline, phase, committed, context>>
           \/ /\ x \notin Runnable
              /\ Raise("loop")
              /\ UNCHANGED storeVars
        /\ UNCHANGED authorityVars

\* prepare, then LAUNCH.  The reply does not matter to the engine, so the
\* loop goes on as it does after a timeout.
StartPrepared ==
    LET x == thread["loop"].row
    IN  /\ thread["loop"].at = "start"
        /\ context' = context \cup {x}
        /\ Resume("loop", "launch")
        /\ \/ /\ up
              /\ pending' = pending \cup {[row |-> x, op |-> "launch"]}
              /\ NoFault
           \/ /\ NoAnswer
              /\ UNCHANGED pending
        /\ UNCHANGED <<up, ticket, known, cache, launching, hostState>>
        /\ UNCHANGED <<storeVars, phase, active, committed>>

ScheduleEnd ==
    /\ thread["loop"] = At("launch", {})
    /\ Goto("loop", "beat")
    /\ UNCHANGED <<authorityVars, storeVars, engineVars>>

-----------------------------------------------------------------------------

\* Mutant: a cancelled run is terminal while its executions stop.
CancelRunAtOnce ==
    /\ phase = "serving"
    /\ thread["request"].at = "idle"
    /\ run \in ActiveRunStates
    /\ rows' = CancelledRows(rows)
    /\ run' = "cancelled"
    /\ Goto("request", "beat")
    /\ UNCHANGED <<authorityVars, deadline, engineVars>>

\* cancel_run on the request thread: request_cancel, then a heartbeat.
CancelRun ==
    /\ phase = "serving"
    /\ thread["request"].at = "idle"
    /\ \/ /\ run \in TerminalRunStates
          /\ UNCHANGED <<run, rows>>
       \/ /\ run \in ActiveRunStates
          /\ rows' = CancelledRows(rows)
          /\ run' = ReconciledRun("cancelling", rows')
    /\ Goto("request", "beat")
    /\ UNCHANGED <<authorityVars, deadline, engineVars>>

DeadlinePasses(x) ==
    /\ deadline[x] = "set"
    /\ deadline' = [deadline EXCEPT ![x] = "passed"]
    /\ UNCHANGED <<authorityVars, run, rows, engineVars, thread>>

SettleStep(t) == Stop(t) \/ ObserveStopped(t) \/ Complete(t) \/ Collect(t)

HeartbeatStep(t) ==
    \/ HeartbeatBegin(t)
    \/ Observe(t)
    \/ RecordObservation(t)
    \/ RecordStarted(t)
    \/ Decide(t)
    \/ SettleStep(t)
    \/ HeartbeatEnd(t)

LoopStep ==
    \/ TestdStart
    \/ CleanupAttach
    \/ CleanupRefused
    \/ CleanupDone
    \/ HeartbeatStep("loop")
    \/ Schedule
    \/ IssueLaunchTicket
    \/ BeginExecution
    \/ StartPrepared
    \/ ScheduleEnd

EnvironmentStep ==
    \/ (AuthorityStep \/ RunnerStep) /\ UNCHANGED <<storeVars, engineVars, thread>>
    \/ \E x \in Row : DeadlinePasses(x)

Next ==
    \/ (LoopStep \/ HeartbeatStep("request") \/ CancelRun \/ EnvironmentStep)
       /\ UNCHANGED orphan
    \/ TestdCrash

Spec == Init /\ [][Next]_vars

\* systemd restarts both services (Restart=always), bounds every unit by
\* RuntimeMaxSec and the clock moves; the daemon's threads and the handlers
\* of the authority run to their end.
Fairness ==
    /\ WF_vars(LoopStep /\ UNCHANGED orphan)
    /\ WF_vars(HeartbeatStep("request") /\ UNCHANGED orphan)
    /\ WF_vars(AuthorityRestart /\ UNCHANGED daemonVars)
    /\ WF_vars(ExecuteLateMutation /\ UNCHANGED daemonVars)
    /\ \A x \in Row :
        /\ WF_vars(LaunchStep(x) /\ UNCHANGED daemonVars)
        /\ WF_vars(RunnerExit(x) /\ UNCHANGED daemonVars)
        /\ WF_vars(DeadlinePasses(x) /\ UNCHANGED orphan)

FairSpec == Spec /\ Fairness

-----------------------------------------------------------------------------
(***************************************************************************)
(* Properties                                                              *)
(***************************************************************************)

\* _settle concludes an execution only with stopped and empty proof, so no
\* unit runs under a concluded row, whatever launch, stop or status calls
\* were late, lost or cached.
NoUnitOutlivesItsRow ==
    \A x \in Row : rows[x] \in TerminalTargetStates => unit[x] # "active"

\* A complete package published before the unit ended decides the row's
\* conclusion, although a cancellation, a deadline or a restart competes.
\* A package whose evidence a failing LAUNCH has removed decides nothing.
MeasuredResultWins ==
    \A x \in Row :
        rows[x] \in TerminalTargetStates /\ evidence[x] # "none" =>
            /\ package[x] = "pass" => rows[x] = "succeeded"
            /\ package[x] = "fail" => rows[x] = "test_failed"

\* What the store retains of an execution is a legal state, is recorded over
\* a stopped unit and agrees with the published package.
ConclusionsSound == TypeOK /\ NoUnitOutlivesItsRow /\ MeasuredResultWins

\* A row begins before its unit starts, a unit starts once, and never for a
\* row that is queued or concluded: restart launches no replacement under an
\* old execution identity.
UnitStartsOnce ==
    [][\A x \in Row :
        unit'[x] = "active" /\ unit[x] # "active" =>
            unit[x] = "none" /\ rows[x] \in ActiveTargetStates]_vars

\* A unit runs only for a row whose dependencies succeeded, and still have.
UnitStartsAfterDependencies ==
    \A x \in Row : unit[x] # "none" => TargetDependenciesSucceeded(rows, x)

\* A run is concluded only when no unit of it runs: cancel_run turns a run
\* terminal at once only if none of its executions began.
RunEndsQuiet ==
    run \in TerminalRunStates => \A x \in Row : unit[x] # "active"

\* Units and rows agree from the first launch to the end of the run.
UnitsMatchRun == UnitStartsAfterDependencies /\ RunEndsQuiet

\* The contract of the run.
Contract ==
    INSTANCE RunContract WITH Slot <- Row, verdict <- VerdictFor(run),
                              slot <- SlotsFor(rows)

\* The two threads, a restart and the faults together do to the run only
\* what RunContract allows.
RunKeepsContract == Contract!Spec

\* The evidence of a started execution and its package are removed only
\* after the conclusion is in the store: a result is never lost between the
\* stop and the commit.  The execution's own LAUNCH, while it is not
\* acknowledged, may remove what STATUS has completed behind its back.
EvidenceOutlivesTheExecution ==
    [][\A x \in Row :
        \/ evidence[x] = "started" /\ evidence'[x] # "started"
        \/ package[x] # "none" /\ package'[x] # package[x]
        => rows[x] \in TerminalTargetStates \/ launching[x] = "ran"]_vars

\* A row in hand whose execution STATUS refuses to describe.
Unobservable(y) == rows[y] \in ActiveTargetStates /\ Observed(y) = Refused


\* "a complete measured test failure must win a competing conclusion": a
\* published complete failure becomes the row's conclusion.
MeasuredFailureConcludes ==
    \A x \in Row :
        package[x] \in {"fail", "contested"} ~> rows[x] = "test_failed"
=============================================================================
