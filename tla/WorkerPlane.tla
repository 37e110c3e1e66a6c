----------------------------- MODULE WorkerPlane -----------------------------
(***************************************************************************)
(* One supervised worker and everything that acts on it: the runner        *)
(* (worker_runner.py) with its exit journal and its child process, the     *)
(* systemd unit of the runner (worker_native.py), the lifecycle requests   *)
(* and the startup thread of the broker (worker_control.py,                *)
(* broker_cli.py), and the store of WorkerSupervision.                     *)
(*                                                                         *)
(* Lifecycle requests of one worker hold its resource lock, so one runs at *)
(* a time; callbacks of the runner and the startup thread do not take it.  *)
(* Every transaction, native command and file replacement is one step.     *)
(***************************************************************************)
EXTENDS WorkerSupervision

CONSTANTS
    MaxRestarts,     \* bound on starts of the broker
    MaxFaults,       \* bound on crashes, failed commands and lost replies
    MaxAutostarts,   \* STARTUP_AUTOSTART_ATTEMPTS
    FenceValues      \* what the fence of the repository may become

ASSUME PlaneAssumption ==
    /\ {MaxRestarts, MaxFaults, MaxAutostarts} \subseteq Nat
    /\ FenceValues \subseteq BOOLEAN
    /\ 1 .. MaxRestarts + 1 \subseteq Epochs

VARIABLES
    broker,    \* phase of the broker process
    epoch,     \* epoch of the broker process
    request,   \* the lifecycle request in hand
    startup,   \* the startup thread
    runner,    \* the runner process and its unit
    child,     \* attempt whose process lives, or 0
    journal,   \* the pending exit on disk
    faults

hostVars == <<runner, child, journal>>
vars == <<storeVars, broker, epoch, request, startup, hostVars, faults>>

NoToken == [definition |-> 0, policy |-> 0, supervisor |-> 0, epoch |-> 0]
NoExit == [attempt |-> 0, kind |-> "none"]

RunnerPlace == {"off", "restarting", "replay", "lookup", "candidate", "begin",
                "spawn", "report", "run", "stage", "persist"}
RequestPlace == {"idle", "configure", "start", "epoch", "launch", "stop",
                 "signal", "await", "settle", "confirm", "failed"}
StartupPlace == {"idle", "failed", "fence", "remove", "removing", "settle",
                 "normalize", "check", "claim", "clear", "clearing", "close",
                 "rest", "launch"}

Runner(place) ==
    [at |-> place, token |-> NoToken, attempt |-> 0, kind |-> "none",
     signal |-> FALSE, settled |-> FALSE]
Idle == [at |-> "idle", generation |-> 0, keep |-> FALSE, rearm |-> FALSE]
NoStartup == [at |-> "idle", expected |-> FALSE, attempt |-> 0,
              launched |-> FALSE, late |-> FALSE, count |-> 0]

\* The places of runner, request and startup thread and what they carry.
TypeOK ==
    /\ StoreTypeOK
    /\ broker \in {"down", "starting", "serving", "stopping"}
    /\ epoch \in 0 .. MaxRestarts + 1
    /\ request \in [at : RequestPlace, generation : Nat, keep : BOOLEAN,
                    rearm : BOOLEAN]
    /\ startup \in [at : StartupPlace, expected : BOOLEAN, attempt : Nat,
                    launched : BOOLEAN, late : BOOLEAN,
                    count : 0 .. MaxAutostarts]
    /\ runner \in [at : RunnerPlace, token : Token, attempt : Nat,
                   kind : ExitKind \cup {"none"}, signal : BOOLEAN,
                   settled : BOOLEAN]
    /\ child \in Nat
    /\ journal \in [attempt : Nat, kind : ExitKind \cup {"none"}]
    /\ faults \in 0 .. MaxFaults

Init ==
    /\ StoreInit
    /\ broker = "serving" /\ epoch = 1
    /\ request = Idle /\ startup = NoStartup
    /\ runner = Runner("off") /\ child = 0 /\ journal = NoExit
    /\ faults = 0

Fault == faults < MaxFaults /\ faults' = faults + 1
NoFault == UNCHANGED faults
BrokerUnchanged == UNCHANGED <<broker, epoch, request, startup>>

-----------------------------------------------------------------------------
(***************************************************************************)
(* The unit and its processes                                              *)
(***************************************************************************)
UnitActive == runner.at # "off"

Goto(place) == runner' = [runner EXCEPT !.at = place]

\* The runner process ends without error; the unit is collected.
RunnerReturns == runner' = Runner("off")

\* The runner process ends with an error: Restart=on-failure, unless the
\* unit is being stopped.
RunnerRaises ==
    runner' = Runner(IF runner.signal THEN "off" ELSE "restarting")

\* An active unit gets SIGTERM; one waiting for its restart just ends.
\* Before run() installs its handlers the signal ends the runner.
SignalUnit ==
    IF runner.at \in {"off", "restarting", "replay", "lookup"}
    THEN RunnerReturns
    ELSE runner' = [runner EXCEPT !.signal = TRUE]

\* TimeoutStopSec, or the KILL of worker_native.stop: the control group goes.
UnitKilled ==
    /\ runner.signal
    /\ RunnerReturns /\ child' = 0
    /\ UNCHANGED <<storeVars, broker, epoch, request, startup, journal, faults>>

RunnerCrash ==
    /\ runner.at \notin {"off", "restarting"}
    /\ RunnerRaises /\ child' = 0
    /\ Fault
    /\ UNCHANGED <<storeVars, broker, epoch, request, startup, journal>>

UnitRestarts ==
    /\ runner.at = "restarting"
    /\ runner' = Runner("replay")
    /\ UNCHANGED <<storeVars, broker, epoch, request, startup, child, journal,
                   faults>>

ChildExits ==
    /\ child # 0
    /\ child' = 0
    /\ UNCHANGED <<storeVars, broker, epoch, request, startup, runner, journal,
                   faults>>

-----------------------------------------------------------------------------
(***************************************************************************)
(* The runner                                                              *)
(***************************************************************************)
\* What the runner does after its exit is acknowledged.
Continue(restart) ==
    IF restart /\ ~runner.signal THEN runner' = Runner("candidate")
    ELSE RunnerReturns

Acknowledge(restart) ==
    /\ journal' = NoExit
    /\ Continue(restart)

\* _authoritative_fence_acknowledgement.
FenceAcknowledges(a) ==
    /\ attempts[a].state = "exited"
    /\ attempts[a].kind = "supervisor_lost"
    /\ attempts[a].class = "stale_generation"

OwnExit(exit) ==
    /\ attempts[exit.attempt].state = "exited"
    /\ attempts[exit.attempt].by = "runner"
    /\ attempts[exit.attempt].kind = exit.kind

\* _replay_pending_exit.  An unreachable broker is retried for ever.
Replay ==
    /\ runner.at = "replay"
    /\ \/ /\ journal = NoExit
          /\ Goto("lookup")
          /\ UNCHANGED <<storeVars, journal>>
       \/ /\ journal # NoExit
          /\ broker = "serving"
          /\ CanRecordExit(journal.attempt, journal.kind)
          /\ RecordExit(journal.attempt, "runner", journal.kind)
          /\ journal' = NoExit
          /\ IF attempts'[journal.attempt].restart THEN Goto("lookup")
             ELSE RunnerReturns
       \/ /\ journal # NoExit
          /\ \/ /\ broker = "serving"
                /\ ~CanRecordExit(journal.attempt, journal.kind)
             \/ broker = "starting"
          /\ IF \/ OwnExit(journal) /\ broker = "serving"
                \/ FenceAcknowledges(journal.attempt)
             THEN /\ journal' = NoExit
                  /\ IF attempts[journal.attempt].restart THEN Goto("lookup")
                     ELSE RunnerReturns
             ELSE RunnerReturns /\ UNCHANGED journal
          /\ UNCHANGED storeVars
    /\ BrokerUnchanged
    /\ UNCHANGED <<child, faults>>

\* active_attempt and _recover_absent_attempt.
Lookup ==
    /\ runner.at = "lookup"
    /\ CASE broker = "down" -> RunnerRaises
         [] broker # "down" /\ sup.current = 0 -> Goto("candidate")
         [] broker # "down" /\ sup.current # 0
            /\ attempts[sup.current].state = "running" ->
                runner' = [Runner("stage") EXCEPT !.attempt = sup.current,
                                                  !.kind = "supervisor_lost"]
         [] OTHER -> RunnerReturns
    /\ BrokerUnchanged
    /\ UNCHANGED <<storeVars, child, journal, faults>>

\* The head of the loop of run.
Candidate ==
    /\ runner.at = "candidate"
    /\ CASE runner.signal -> RunnerReturns
         [] ~runner.signal /\ broker = "down" -> RunnerRaises
         [] ~runner.signal /\ broker # "down" /\ sup.epoch # 0
            /\ Launchable(sup.epoch) ->
                runner' = [runner EXCEPT !.at = "begin",
                                         !.token = CurrentToken]
         [] OTHER -> RunnerReturns
    /\ BrokerUnchanged
    /\ UNCHANGED <<storeVars, child, journal, faults>>

\* An outcome that was committed and not answered: it is asked for again
\* under the same operation identity.  When the broker had settled the
\* operation's row the recorded outcome is repeated, otherwise the operation
\* runs again.
Unanswered(a) ==
    /\ Fault
    /\ \E settled \in BOOLEAN :
        runner' = [runner EXCEPT !.attempt = a, !.settled = settled]

Answered(place) ==
    runner' = [runner EXCEPT !.at = place, !.settled = FALSE]

\* _persist_begin.
Begin ==
    /\ runner.at = "begin"
    /\ \/ /\ broker = "serving" /\ runner.attempt = 0 /\ CanBegin(runner.token)
          /\ Len(attempts) < MaxAttempts
          /\ BeginAttempt(runner.token)
          /\ \/ NoFault /\ runner' = [runner EXCEPT !.attempt = Len(attempts'),
                                                    !.at = "spawn"]
             \/ Unanswered(Len(attempts'))
       \/ /\ \/ broker = "starting"
             \/ /\ broker = "serving" /\ runner.attempt = 0
                /\ ~CanBegin(runner.token)
             \/ /\ broker = "serving" /\ runner.attempt # 0
                /\ attempts[runner.attempt].state # "reserved"
                /\ ~runner.settled
          /\ RunnerReturns
          /\ UNCHANGED <<storeVars, faults>>
       \/ /\ broker = "serving" /\ runner.attempt # 0
          /\ attempts[runner.attempt].state = "reserved" \/ runner.settled
          /\ Answered("spawn")
          /\ UNCHANGED <<storeVars, faults>>
    /\ BrokerUnchanged
    /\ UNCHANGED <<child, journal>>

Spawn ==
    /\ runner.at = "spawn"
    /\ \/ child' = runner.attempt /\ Goto("report")
       \/ /\ runner' = [runner EXCEPT !.at = "stage", !.kind = "launch_failure"]
          /\ UNCHANGED child
    /\ BrokerUnchanged
    /\ UNCHANGED <<storeVars, journal, faults>>

\* The runner terminates the child it cannot report and calls it a failed
\* launch.
LaunchFails ==
    /\ runner' = [runner EXCEPT !.at = "stage", !.kind = "launch_failure",
                               !.settled = FALSE]
    /\ child' = 0

\* The runner terminates the child of a fenced launch and ends.
LaunchRefused == RunnerReturns /\ child' = 0

\* _persist_launch.
Report ==
    /\ runner.at = "report"
    /\ LET a == runner.attempt
           fenced == /\ attempts[a].state = "exited"
                     /\ attempts[a].kind = "launch_failure"
       IN
       \/ /\ broker = "serving"
          /\ MarkLaunched(a)
          /\ (NoFault /\ Goto("run")) \/ Unanswered(a)
          /\ UNCHANGED child
       \/ /\ broker = "serving"
          /\ FenceLaunch(a)
          /\ \/ NoFault /\ LaunchRefused
             \/ Unanswered(a) /\ UNCHANGED child
       \/ /\ broker = "serving"
          /\ \/ attempts[a].state = "running"
             \/ attempts[a].state = "exited" /\ runner.settled /\ ~fenced
          /\ Answered("run")
          /\ UNCHANGED <<storeVars, child, faults>>
       \/ /\ broker = "serving" /\ runner.settled /\ fenced
          /\ LaunchRefused
          /\ UNCHANGED <<storeVars, faults>>
       \/ /\ \/ broker = "starting"
             \/ /\ broker = "serving" /\ attempts[a].state = "exited"
                /\ ~runner.settled
          /\ LaunchFails
          /\ UNCHANGED <<storeVars, faults>>
    /\ BrokerUnchanged
    /\ UNCHANGED journal

\* process.wait returns, and the rest of the process group is gone.
Wait ==
    /\ runner.at = "run" /\ child = 0
    /\ runner' = [runner EXCEPT !.at = "stage", !.kind = "exit"]
    /\ BrokerUnchanged
    /\ UNCHANGED <<storeVars, child, journal, faults>>

Stage ==
    /\ runner.at = "stage"
    /\ journal' = [attempt |-> runner.attempt, kind |-> runner.kind]
    /\ Goto("persist")
    /\ BrokerUnchanged
    /\ UNCHANGED <<storeVars, child, faults>>

\* _record_exit_durably after the journal is staged.  A rejection leaves the
\* journal and raises out of run.
Persist ==
    /\ runner.at = "persist"
    /\ \/ /\ broker = "serving" /\ CanRecordExit(journal.attempt, journal.kind)
          /\ RecordExit(journal.attempt, "runner", journal.kind)
          /\ \/ NoFault /\ Acknowledge(attempts'[journal.attempt].restart)
             \/ Fault /\ UNCHANGED <<runner, journal>>
       \/ /\ broker = "serving" /\ OwnExit(journal)
          /\ Acknowledge(attempts[journal.attempt].restart)
          /\ UNCHANGED <<storeVars, faults>>
       \/ /\ \/ broker = "starting"
             \/ /\ broker = "serving"
                /\ ~CanRecordExit(journal.attempt, journal.kind)
                /\ ~OwnExit(journal)
          /\ RunnerRaises
          /\ UNCHANGED <<storeVars, journal, faults>>
    /\ BrokerUnchanged
    /\ UNCHANGED child

RunnerStep ==
    \/ Replay \/ Lookup \/ Candidate \/ Begin \/ Spawn \/ Report \/ Wait
    \/ Stage \/ Persist

-----------------------------------------------------------------------------
(***************************************************************************)
(* Lifecycle requests                                                      *)
(***************************************************************************)
NoRequest == request.at \in {"idle", "failed"}
RequestEnds == request' = Idle

\* The request ended because the native stop failed before it signalled.
RequestFails == request' = [Idle EXCEPT !.at = "failed"]
RequestAt(place) == request' = [request EXCEPT !.at = place]
OutsideRequest == UNCHANGED <<broker, epoch, startup, child, journal>>

\* start, with or without a change of keep_alive.
StartRequested ==
    /\ NoRequest /\ broker = "serving" /\ ~fence
    /\ policy.generation < MaxPolicy
    /\ \E keep, rearm \in BOOLEAN :
        request' = [at |-> IF keep = policy.keep THEN "start" ELSE "configure",
                    generation |-> policy.generation, keep |-> keep,
                    rearm |-> rearm]
    /\ OutsideRequest
    /\ UNCHANGED <<storeVars, runner, faults>>

Configure ==
    /\ request.at = "configure"
    /\ \/ /\ ConfigurePolicy(request.keep, request.generation)
          /\ request' = [request EXCEPT !.at = "start",
                                        !.generation = policy'.generation]
       \/ /\ ~ConfigureAdmitted(request.keep, request.generation)
          /\ RequestEnds
          /\ UNCHANGED storeVars
    /\ OutsideRequest
    /\ UNCHANGED <<runner, faults>>

Start ==
    /\ request.at = "start"
    /\ \/ /\ RequestStart(request.rearm, request.generation)
          /\ RequestAt("epoch")
       \/ /\ ~StartAdmitted(request.rearm, request.generation)
          /\ RequestEnds
          /\ UNCHANGED storeVars
    /\ OutsideRequest
    /\ UNCHANGED <<runner, faults>>

\* Mutant: the epoch is installed without a new supervisor generation.
EnsureEpochOnly ==
    /\ request.at = "epoch"
    /\ sup' = [sup EXCEPT !.epoch = IF @ = 0 THEN epoch ELSE @]
    /\ RequestAt("launch")
    /\ OutsideRequest
    /\ UNCHANGED <<policy, attempts, fence, definition, observed, runner, faults>>

\* _ensure_epoch.
EnsureEpoch ==
    /\ request.at = "epoch"
    /\ IF sup.epoch = 0 THEN FenceStartup(epoch) ELSE UNCHANGED storeVars
    /\ RequestAt("launch")
    /\ OutsideRequest
    /\ UNCHANGED <<runner, faults>>

\* The unit is started unless it is active; the wait that follows reads only.
Launch ==
    /\ request.at = "launch"
    /\ \/ /\ runner' = IF UnitActive THEN runner ELSE Runner("replay")
          /\ NoFault
       \/ UNCHANGED runner /\ Fault
    /\ RequestEnds
    /\ OutsideRequest
    /\ UNCHANGED storeVars

StopRequested ==
    /\ NoRequest /\ broker = "serving" /\ ~fence
    /\ policy.generation < MaxPolicy
    /\ request' = [Idle EXCEPT !.at = "stop", !.generation = policy.generation]
    /\ OutsideRequest
    /\ UNCHANGED <<storeVars, runner, faults>>

Stop ==
    /\ request.at = "stop"
    /\ \/ RequestStop(request.generation) /\ RequestAt("signal")
       \/ /\ request.generation # policy.generation
          /\ RequestEnds
          /\ UNCHANGED storeVars
    /\ OutsideRequest
    /\ UNCHANGED <<runner, faults>>

\* The native stop reads the unit and its control group and has systemd stop
\* it; what fails before that is raised again, with the unit untouched.
Signal ==
    /\ request.at = "signal"
    /\ \/ SignalUnit /\ RequestAt("await") /\ NoFault
       \/ UNCHANGED runner /\ RequestFails /\ Fault
    /\ OutsideRequest
    /\ UNCHANGED storeVars

\* Mutant: the signal is taken for the end of the unit.
AwaitSignalOnly ==
    /\ request.at = "await"
    /\ RequestAt("settle")
    /\ OutsideRequest
    /\ UNCHANGED <<storeVars, runner, faults>>

\* The native stop proves the unit inactive and its group empty, or fails.
Await ==
    /\ request.at = "await"
    /\ \/ ~UnitActive /\ RequestAt("settle") /\ NoFault
       \/ RequestEnds /\ Fault
    /\ OutsideRequest
    /\ UNCHANGED <<storeVars, runner>>

\* _settle_stopped_runner.
SettleStoppedRunner ==
    IF sup.current = 0 THEN UNCHANGED storeVars
    ELSE RecordExit(sup.current, "manager",
                    IF attempts[sup.current].state = "reserved"
                    THEN "launch_failure" ELSE "supervisor_lost")

Settle ==
    /\ request.at = "settle"
    /\ SettleStoppedRunner
    /\ RequestAt("confirm")
    /\ OutsideRequest
    /\ UNCHANGED <<runner, faults>>

\* _wait_for_policy_state: "stopped" is reached, or the timeout.
Confirm ==
    /\ request.at = "confirm"
    /\ RequestEnds
    /\ OutsideRequest
    /\ UNCHANGED <<storeVars, runner, faults>>

RequestStep ==
    \/ Configure \/ Start \/ EnsureEpoch \/ Launch \/ Stop \/ Signal \/ Await
    \/ Settle \/ Confirm

-----------------------------------------------------------------------------
(***************************************************************************)
(* The broker process and its startup                                      *)
(***************************************************************************)
\* begin_shutdown: admitted requests go on, callbacks are turned away.
BrokerStops ==
    /\ broker = "serving" /\ epoch <= MaxRestarts
    /\ broker' = "stopping"
    /\ UNCHANGED <<storeVars, epoch, request, startup, hostVars, faults>>

BrokerEnds ==
    /\ broker # "down" /\ epoch <= MaxRestarts
    /\ IF broker = "stopping" /\ NoRequest THEN NoFault ELSE Fault
    /\ broker' = "down"
    /\ request' = Idle /\ startup' = NoStartup
    /\ UNCHANGED <<storeVars, epoch, hostVars>>

\* The listener answers reads; the registrations are read before the fence.
BrokerStarts ==
    /\ broker = "down"
    /\ broker' = "starting"
    /\ epoch' = epoch + 1
    /\ startup' = [NoStartup EXCEPT !.at = "fence",
            !.expected = policy.keep /\ policy.desired = "running"
                         /\ policy.breaker = "armed",
            !.attempt = sup.current]
    /\ UNCHANGED <<storeVars, request, hostVars, faults>>

StartupAt(place) == startup' = [startup EXCEPT !.at = place]
OutsideStartup == UNCHANGED <<epoch, request, child, journal>>

\* begin_mutation_admission; the startup thread goes on if it is expected to
\* and ends in rest otherwise.
AdmitAnd(rest) ==
    /\ broker' = "serving"
    /\ startup' = IF startup.expected THEN [startup EXCEPT !.at = "check"]
                  ELSE rest

Admit == AdmitAnd(NoStartup)

FenceOldRunners ==
    /\ startup.at = "fence"
    /\ FenceStartup(epoch)
    /\ StartupAt("remove")
    /\ OutsideStartup
    /\ UNCHANGED <<broker, runner, faults>>

\* Mutant: only the runners that are to be started again are removed.
RemoveExpectedRunner ==
    /\ startup.at = "remove"
    /\ IF startup.expected THEN SignalUnit /\ StartupAt("removing")
       ELSE StartupAt("normalize") /\ UNCHANGED runner
    /\ OutsideStartup
    /\ UNCHANGED <<storeVars, broker, faults>>

\* Mutant: the startup waits for the old runner to end by itself.
RemoveByWaiting ==
    /\ startup.at = "remove"
    /\ StartupAt("removing")
    /\ OutsideStartup
    /\ UNCHANGED <<storeVars, broker, runner, faults>>

\* The native removal signals the unit, or fails before: the worker goes to
\* the errors of the startup, and to the startup thread if it is expected.
RemoveOldRunner ==
    /\ startup.at = "remove"
    /\ \/ SignalUnit /\ StartupAt("removing") /\ NoFault /\ UNCHANGED broker
       \/ /\ UNCHANGED runner
          /\ AdmitAnd([NoStartup EXCEPT !.at = "failed"])
          /\ Fault
    /\ OutsideStartup
    /\ UNCHANGED storeVars

\* A unit that is not proved gone is left to the startup thread.
OldRunnerRemoved ==
    /\ startup.at = "removing"
    /\ \/ ~UnitActive /\ StartupAt("settle") /\ NoFault /\ UNCHANGED broker
       \/ Admit /\ Fault
    /\ OutsideStartup
    /\ UNCHANGED <<storeVars, runner>>

SettleOldRunner ==
    /\ startup.at = "settle"
    /\ IF startup.attempt = 0 THEN UNCHANGED storeVars ELSE SettleStoppedRunner
    /\ StartupAt("normalize")
    /\ OutsideStartup
    /\ UNCHANGED <<broker, runner, faults>>

NormalizeOldRunner ==
    /\ startup.at = "normalize"
    /\ IF AbsenceProvable(epoch) THEN NormalizeStartupAbsence(epoch)
       ELSE UNCHANGED storeVars
    /\ Admit
    /\ OutsideStartup
    /\ UNCHANGED <<runner, faults>>

\* autostart_fenced: the worker runs under this epoch.
Converged ==
    /\ UnitActive
    /\ sup.current # 0
    /\ attempts[sup.current].state = "running"
    /\ attempts[sup.current].token.epoch = epoch

\* A launched unit that has not registered a running attempt yet.
Registering ==
    /\ startup.launched /\ UnitActive
    /\ sup.current # 0 => /\ attempts[sup.current].state = "reserved"
                          /\ attempts[sup.current].token.epoch = epoch

\* One round for the worker: done, wait, or clean up.  The deadline may have
\* passed at any round; then a current reservation is cleaned up as well.
StartupCheck ==
    /\ startup.at = "check"
    /\ \/ Converged /\ startup' = NoStartup
       \/ /\ ~Converged
          /\ startup' = [startup EXCEPT !.at = "claim",
                                        !.attempt = sup.current]
    /\ OutsideStartup
    /\ UNCHANGED <<storeVars, broker, runner, faults>>

\* The deadline passed: the rounds end, with the errors reported.
StartupGivesUp ==
    /\ startup.at \in {"check", "launch"}
    /\ ~Converged
    /\ startup' = NoStartup
    /\ OutsideStartup
    /\ UNCHANGED <<storeVars, broker, runner, faults>>

\* The next round, unless the deadline passed.
StartupAgain(launched) ==
    startup' = IF startup.late THEN NoStartup
               ELSE [startup EXCEPT !.at = "check", !.launched = launched]

StartupClaim ==
    /\ startup.at = "claim"
    /\ \E late \in BOOLEAN :
        LET a == startup.attempt
            ownActive == /\ UnitActive /\ a # 0
                         /\ attempts[a].state # "exited"
                         /\ attempts[a].token.epoch = epoch
        IN  /\ Registering => late
            /\ IF (~ownActive \/ late) /\ Claimable(epoch, a, late)
               THEN /\ sup.generation < MaxSupervisor
                    /\ ClaimCleanup(epoch, a, late)
                    /\ startup' = [startup EXCEPT !.at = "clear",
                                                  !.late = late]
               ELSE /\ startup' = IF late THEN NoStartup
                                  ELSE [startup EXCEPT !.at = "check",
                                                       !.launched = TRUE]
                    /\ UNCHANGED storeVars
    /\ OutsideStartup
    /\ UNCHANGED <<broker, runner, faults>>

\* The native removal, which may fail before it signals the unit.
StartupClear ==
    /\ startup.at = "clear"
    /\ \/ /\ IF UnitActive \/ startup.launched THEN SignalUnit
             ELSE UNCHANGED runner
          /\ StartupAt("clearing")
          /\ NoFault
       \/ /\ UNCHANGED runner
          /\ StartupAgain(startup.launched)
          /\ Fault
    /\ OutsideStartup
    /\ UNCHANGED <<storeVars, broker>>

\* The unit is gone and the attempt is still the one that was claimed; an
\* attempt of this epoch that won is left alone; anything else is an error,
\* and so is a unit that cannot be observed.
StartupCleared ==
    /\ startup.at = "clearing"
    /\ LET won == /\ sup.current \notin {0, startup.attempt}
                  /\ attempts[sup.current].token.epoch = epoch
       IN
       \/ /\ ~UnitActive /\ sup.current = startup.attempt
          /\ StartupAt("close")
          /\ NoFault
       \/ /\ UnitActive \/ sup.current # startup.attempt
          /\ StartupAgain(startup.launched \/ won)
          /\ NoFault
       \/ /\ StartupAgain(startup.launched)
          /\ Fault
    /\ OutsideStartup
    /\ UNCHANGED <<storeVars, broker, runner>>

\* _settle_stopped_runner for the attempt that was claimed.
StartupClose ==
    /\ startup.at = "close"
    /\ \/ /\ sup.current = 0 \/ startup.attempt = 0
          /\ StartupAt("rest")
          /\ UNCHANGED storeVars
       \/ /\ startup.attempt # 0 /\ sup.current = startup.attempt
          /\ SettleStoppedRunner
          /\ StartupAt("rest")
       \/ /\ startup.attempt # 0 /\ sup.current \notin {0, startup.attempt}
          /\ StartupAgain(startup.launched)
          /\ UNCHANGED storeVars
    /\ OutsideStartup
    /\ UNCHANGED <<broker, runner, faults>>

\* normalize_startup_absence; the last launch that was cleaned up ends it.
StartupRest ==
    /\ startup.at = "rest"
    /\ \/ /\ NormalizeStartupAbsence(epoch)
          /\ startup' =
                IF \/ startup.late
                   \/ startup.launched /\ startup.count >= MaxAutostarts
                THEN NoStartup
                ELSE [startup EXCEPT !.at = "launch", !.launched = FALSE]
       \/ /\ ~AbsenceProvable(epoch)
          /\ StartupAgain(startup.launched)
          /\ UNCHANGED storeVars
    /\ OutsideStartup
    /\ UNCHANGED <<broker, runner, faults>>

\* STARTUP_AUTOSTART_ATTEMPTS.
AutostartAllowed == startup.count < MaxAutostarts

\* startup_candidates and the native start.
StartupLaunch ==
    /\ startup.at = "launch"
    /\ \/ /\ policy.keep /\ Launchable(epoch)
          /\ AutostartAllowed
          /\ \/ /\ ~UnitActive
                /\ runner' = Runner("replay")
                /\ startup' = [startup EXCEPT !.at = "check",
                                    !.launched = TRUE, !.count = @ + 1]
                /\ NoFault
             \/ /\ startup' = [startup EXCEPT !.at = "check",
                                    !.launched = UnitActive, !.count = @ + 1]
                /\ UNCHANGED runner
                /\ IF UnitActive THEN NoFault ELSE Fault
       \/ /\ ~(policy.keep /\ Launchable(epoch))
          /\ StartupAt("check")
          /\ UNCHANGED <<runner, faults>>
    /\ OutsideStartup
    /\ UNCHANGED <<storeVars, broker>>

StartupStep ==
    \/ FenceOldRunners \/ RemoveOldRunner \/ OldRunnerRemoved
    \/ SettleOldRunner \/ NormalizeOldRunner \/ StartupCheck \/ StartupGivesUp
    \/ StartupClaim \/ StartupClear \/ StartupCleared \/ StartupClose
    \/ StartupRest \/ StartupLaunch

-----------------------------------------------------------------------------
Environment ==
    /\ \/ \E value \in FenceValues : SetFence(value)
       \/ WindowPasses
    /\ UNCHANGED <<broker, epoch, request, startup, hostVars, faults>>

Next ==
    \/ RunnerStep \/ RequestStep \/ StartupStep
    \/ StartRequested \/ StopRequested
    \/ UnitKilled \/ RunnerCrash \/ UnitRestarts \/ ChildExits
    \/ BrokerStops \/ BrokerEnds \/ BrokerStarts
    \/ Environment

Spec == Init /\ [][Next]_vars

\* Threads of the broker and of the runner go on; systemd restarts a failed
\* unit, kills a signalled one at TimeoutStopSec and starts the broker again;
\* a broker that shuts down drains; the deadline of the startup passes.
Fairness ==
    /\ WF_vars(RunnerStep) /\ WF_vars(RequestStep) /\ WF_vars(StartupStep)
    /\ WF_vars(UnitKilled) /\ WF_vars(UnitRestarts)
    /\ WF_vars(BrokerStarts) /\ WF_vars(broker = "stopping" /\ BrokerEnds)
    /\ SF_vars(StartupGivesUp)

FairSpec == Spec /\ Fairness

-----------------------------------------------------------------------------
(***************************************************************************)
(* Properties                                                              *)
(***************************************************************************)

\* Whatever the runner, the requests and the startup thread do, and wherever
\* one of them is cut off, the store sees only its own operations under
\* current tokens: what holds of the store whoever calls it holds of the
\* plane.
ImplementsStore == [][StoreOperation]_storeVars

\* A process of the worker lives only under the newest attempt, and that
\* attempt is open, or was closed because its launch was refused and the
\* runner has yet to end the process.  "Every exit becomes an immutable
\* attempt ... before a restart is allowed."
ProcessHasOpenAttempt ==
    child # 0 =>
        /\ child = Len(attempts)
        /\ attempts[child].state = "exited" => runner.at = "report"

\* Once a stop has settled, no process lives, and none appears before the
\* next start: late units, startup and restarts of the broker included.
StoppedMeansNoProcess ==
    policy.desired = "stopped" /\ Active = {} =>
        child = 0 \/ runner.at = "report"

\* The journal holds the exit of the newest attempt only, and no process
\* lives beside it: no older exit is replayed after a newer launch.
JournalIsNewest ==
    journal # NoExit => /\ journal.attempt = Len(attempts)
                        /\ child = 0

\* The process, the attempts, the policy and the journal agree.
ProcessUnderControl ==
    TypeOK /\ ProcessHasOpenAttempt /\ StoppedMeansNoProcess /\ JournalIsNewest

\* The last attempt to stop the unit, by a request or by the startup, failed
\* before it signalled: the caller or the startup report has the error, and
\* nobody tries again by himself.
StopFailed ==
    /\ ~runner.signal
    /\ request.at = "failed" \/ (request.at = "idle" /\ startup.at = "failed")

\* A stopped worker loses its process, although the broker, the request or
\* the runner may fail between the transaction and the signal: the next
\* start of the broker or the next stop makes good what was cut off, and only
\* a native stop that reported its failure leaves the process to them.
StopEndsTheProcess ==
    policy.desired = "stopped" ~>
        child = 0 \/ policy.desired = "running" \/ StopFailed

\* The broker admits requests again after every restart, however its old
\* runners behave while they are fenced.
BrokerServesAgain == broker # "serving" ~> broker = "serving"
=============================================================================
