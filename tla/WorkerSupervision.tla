-------------------------- MODULE WorkerSupervision --------------------------
(***************************************************************************)
(* The durable authority over one supervised worker:                       *)
(* worker_supervision.py.  Every operation is one immediate transaction on *)
(* the worker's policy, its supervisor row, its attempts and the observed  *)
(* process, so every operation is one action here.  Who calls them, and    *)
(* in which order, is left open: WorkerPlane composes the callers.         *)
(*                                                                         *)
(* An attempt carries the tokens it was reserved under: the generations of *)
(* the definition, the policy and the supervisor, and the broker's epoch.  *)
(* Attempts are numbered in the order of their reservation; 0 is none.     *)
(***************************************************************************)
EXTENDS Integers, Sequences, FiniteSets

CONSTANTS
    CrashLimit,     \* crash_limit
    Epochs,         \* the epochs of the processes of the broker, in order
    MaxAttempts,    \* bound on reservations
    MaxPolicy,      \* bound on the policy generation
    MaxDefinition,  \* bound on the definition generation
    MaxSupervisor   \* bound on the supervisor generation

ASSUME BoundsAssumption ==
    /\ CrashLimit \in Nat \ {0}
    /\ Epochs \subseteq Nat \ {0}
    /\ MaxAttempts \in Nat
    /\ {MaxPolicy, MaxDefinition, MaxSupervisor} \subseteq Nat

VARIABLES
    policy,      \* worker_policies
    sup,         \* worker_supervisor_states
    attempts,    \* worker_attempts and worker_exit_decisions
    fence,       \* does _fence_reason return a reason
    definition,  \* generation of the server definition
    observed     \* attempt whose process server_observations shows running

storeVars == <<policy, sup, attempts, fence, definition, observed>>

SupervisorState == {"stopped", "idle", "launching", "running", "stopping",
                    "backoff", "tripped", "fenced"}
ExitKind == {"exit", "launch_failure", "supervisor_lost"}
Reporter == {"runner", "manager"}
Classification == {"crash", "intentional", "fenced", "stale_generation"}

Token == [definition : Nat, policy : Nat, supervisor : Nat, epoch : Nat]
Attempt ==
    [token : Token, state : {"reserved", "running", "exited"},
     kind : ExitKind \cup {"none"}, by : Reporter \cup {"none"},
     class : Classification \cup {"none"}, counts : BOOLEAN,
     recent : BOOLEAN, restart : BOOLEAN]

StoreTypeOK ==
    /\ policy \in [keep : BOOLEAN, desired : {"stopped", "running"},
                   breaker : {"armed", "tripped"}, generation : Nat]
    /\ sup \in [state : SupervisorState, epoch : Nat, generation : Nat,
                current : Nat]
    /\ attempts \in Seq(Attempt)
    /\ fence \in BOOLEAN
    /\ definition \in Nat
    /\ observed \in Nat

\* A policy as configure_policy installs it; the supervisor has no epoch.
StoreInit ==
    /\ \E keep \in BOOLEAN :
        policy = [keep |-> keep, desired |-> "stopped", breaker |-> "armed",
                  generation |-> 0]
    /\ sup = [state |-> "stopped", epoch |-> 0, generation |-> 0, current |-> 0]
    /\ attempts = << >>
    /\ fence = FALSE
    /\ definition = 0
    /\ observed = 0

-----------------------------------------------------------------------------
Active == {a \in DOMAIN attempts : attempts[a].state # "exited"}

CurrentToken ==
    [definition |-> definition, policy |-> policy.generation,
     supervisor |-> sup.generation, epoch |-> sup.epoch]

\* _resting_state under policy p.
RestingState(p) ==
    CASE p.breaker = "tripped" -> "tripped"
      [] p.breaker # "tripped" /\ p.desired = "stopped" -> "stopped"
      [] p.breaker # "tripped" /\ p.desired # "stopped" /\ fence -> "fenced"
      [] OTHER -> "idle"

\* _restart_allowed under policy p; also what makes a worker eligible for
\* normalisation and for automatic start.
RestartAllowed(p) ==
    p.keep /\ p.desired = "running" /\ p.breaker = "armed" /\ ~fence

\* _launch_candidate finds the worker launchable under an epoch.
Launchable(epoch) ==
    /\ ~fence
    /\ policy.desired = "running" /\ policy.breaker = "armed"
    /\ sup.epoch = epoch /\ sup.state \in {"idle", "backoff"}
    /\ sup.current = 0 /\ Active = {}

-----------------------------------------------------------------------------
(***************************************************************************)
(* What clients of the broker ask                                          *)
(***************************************************************************)
ConfigureAdmitted(keep, expected) ==
    ~fence /\ keep # policy.keep /\ expected = policy.generation

ConfigurePolicy(keep, expected) ==
    /\ ConfigureAdmitted(keep, expected)
    /\ policy' = [policy EXCEPT !.keep = keep, !.generation = @ + 1]
    /\ sup' = IF Active = {} THEN [sup EXCEPT !.state = RestingState(policy')]
              ELSE sup
    /\ UNCHANGED <<attempts, fence, definition, observed>>

StartAdmitted(rearm, expected) ==
    /\ ~fence
    /\ expected = policy.generation
    /\ rearm <=> policy.breaker = "tripped"
    /\ rearm => Active = {}

StartUnchanged(rearm) ==
    Active # {} \/ (policy.desired = "running" /\ ~rearm)

RequestStart(rearm, expected) ==
    /\ StartAdmitted(rearm, expected)
    /\ \/ StartUnchanged(rearm) /\ UNCHANGED storeVars
       \/ /\ ~StartUnchanged(rearm)
          /\ policy' = [policy EXCEPT !.desired = "running",
                                      !.breaker = "armed",
                                      !.generation = @ + 1]
          /\ sup' = [sup EXCEPT !.state = "idle", !.current = 0]
          /\ UNCHANGED <<attempts, fence, definition, observed>>

StopUnchanged == policy.desired = "stopped" /\ Active = {}

RequestStop(expected) ==
    /\ expected = policy.generation
    /\ \/ StopUnchanged /\ UNCHANGED storeVars
       \/ /\ ~StopUnchanged
          /\ policy' = [policy EXCEPT !.desired = "stopped",
                                      !.generation = @ + 1]
          /\ sup' = [sup EXCEPT !.state = IF sup.current = 0 THEN "stopped"
                                          ELSE "stopping"]
          /\ UNCHANGED <<attempts, fence, definition, observed>>

\* _commit_replacement_definition of worker_control.py.
ReplaceDefinition ==
    /\ sup.current = 0 /\ observed = 0
    /\ definition' = definition + 1
    /\ UNCHANGED <<policy, sup, attempts, fence, observed>>

\* The repository is fenced, retired or removed, or released again.
SetFence(value) ==
    /\ fence # value
    /\ fence' = value
    /\ UNCHANGED <<policy, sup, attempts, definition, observed>>

-----------------------------------------------------------------------------
(***************************************************************************)
(* Startup of the broker                                                   *)
(***************************************************************************)
FenceStartup(epoch) ==
    /\ sup' = IF sup.epoch = epoch THEN sup
              ELSE [sup EXCEPT !.state = IF sup.current # 0 THEN "fenced"
                                         ELSE RestingState(policy),
                               !.epoch = epoch,
                               !.generation = @ + 1]
    /\ UNCHANGED <<policy, attempts, fence, definition, observed>>

AbsenceProvable(epoch) ==
    sup.epoch = epoch /\ sup.current = 0 /\ Active = {}

NormalizeStartupAbsence(epoch) ==
    /\ AbsenceProvable(epoch)
    /\ sup' = [sup EXCEPT !.state = IF RestartAllowed(policy) THEN "idle"
                                    ELSE @]
    /\ UNCHANGED <<policy, attempts, fence, definition, observed>>

\* claim_cleanup_boundary of autostart_fenced, for the attempt it expects to
\* be current.
Claimable(epoch, expected, allowReserved) ==
    /\ sup.epoch = epoch
    /\ sup.current = expected
    /\ expected # 0 /\ attempts[expected].token.epoch = epoch =>
        /\ attempts[expected].state # "running"
        /\ attempts[expected].state = "reserved" => allowReserved

ClaimCleanup(epoch, expected, allowReserved) ==
    /\ Claimable(epoch, expected, allowReserved)
    /\ sup' = [sup EXCEPT !.state = "fenced", !.generation = @ + 1]
    /\ UNCHANGED <<policy, attempts, fence, definition, observed>>

-----------------------------------------------------------------------------
(***************************************************************************)
(* What the runner reports                                                 *)
(***************************************************************************)
CanBegin(token) ==
    /\ ~fence
    /\ policy.desired = "running" /\ policy.breaker = "armed"
    /\ token = CurrentToken
    /\ sup.state \in {"idle", "backoff"}
    /\ Active = {}
    /\ sup.current = 0

BeginAttempt(token) ==
    /\ CanBegin(token)
    /\ attempts' = Append(attempts,
            [token |-> token, state |-> "reserved", kind |-> "none",
             by |-> "none", class |-> "none", counts |-> FALSE,
             recent |-> FALSE, restart |-> FALSE])
    /\ sup' = [sup EXCEPT !.state = "launching", !.current = Len(attempts) + 1]
    /\ UNCHANGED <<policy, fence, definition, observed>>

\* _launch_fence_reason finds a reason.
LaunchIsFenced(a) ==
    \/ policy.desired # "running"
    \/ fence
    \/ policy.breaker # "armed"
    \/ attempts[a].token # CurrentToken
    \/ sup.current # a

\* mark_attempt_launched commits the process, or cancels the attempt.
MarkLaunched(a) ==
    /\ attempts[a].state = "reserved"
    /\ ~LaunchIsFenced(a)
    /\ attempts' = [attempts EXCEPT ![a].state = "running"]
    /\ sup' = [sup EXCEPT !.state = "running"]
    /\ observed' = a
    /\ UNCHANGED <<policy, fence, definition>>

\* Mutant: the cancelled attempt stays current.
FenceLaunchInPlace(a) ==
    /\ attempts[a].state = "reserved" /\ LaunchIsFenced(a)
    /\ attempts' = [attempts EXCEPT ![a].state = "exited"]
    /\ sup' = [sup EXCEPT !.state = "fenced"]
    /\ UNCHANGED <<policy, fence, definition, observed>>

\* _finalize_unlaunched.
FenceLaunch(a) ==
    /\ attempts[a].state = "reserved"
    /\ LaunchIsFenced(a)
    /\ attempts' = [attempts EXCEPT ![a] =
            [@ EXCEPT !.state = "exited", !.kind = "launch_failure",
                      !.by = "manager",
                      !.class = IF policy.desired # "running"
                                THEN "intentional" ELSE "fenced"]]
    /\ sup' = IF sup.current = a
              THEN [sup EXCEPT !.state = "fenced", !.current = 0] ELSE sup
    /\ UNCHANGED <<policy, fence, definition, observed>>

\* _classify_exit.
ClassifyExit(a) ==
    CASE policy.desired = "stopped" -> "intentional"
      [] policy.desired # "stopped" /\ fence -> "fenced"
      [] policy.desired # "stopped" /\ ~fence
         /\ attempts[a].token # CurrentToken -> "stale_generation"
      [] OTHER -> "crash"

\* The counted crashes of a policy generation inside the window.
RecentCrashes(generation) ==
    {a \in DOMAIN attempts : /\ attempts[a].counts /\ attempts[a].recent
                             /\ attempts[a].token.policy = generation}

CanRecordExit(a, kind) ==
    \/ attempts[a].state = "running"
    \/ attempts[a].state = "reserved" /\ kind = "launch_failure"

\* The policy after an exit of this class: the breaker trips at the limit.
PolicyAfterExit(a, class) ==
    IF /\ class = "crash" /\ policy.keep
       /\ Cardinality(RecentCrashes(attempts[a].token.policy) \cup {a})
            >= CrashLimit
       /\ policy.generation = attempts[a].token.policy
       /\ policy.breaker = "armed"
    THEN [policy EXCEPT !.breaker = "tripped", !.generation = @ + 1]
    ELSE policy

\* _settle_supervisor_after_exit under the policy p that the exit leaves.
SupervisorAfterExit(a, class, p) ==
    IF sup.current # a THEN sup
    ELSE [sup EXCEPT
            !.current = 0,
            !.state = CASE p.breaker = "tripped" -> "tripped"
                        [] p.breaker # "tripped" /\ class = "crash" /\ p.keep
                            -> "backoff"
                        [] OTHER -> RestingState(p)]

\* _record_exited_observation.  An attempt without a pid clears it too.
ObservedAfterExit(a) ==
    IF observed # 0 /\ attempts[a].state = "running" /\ observed # a
    THEN observed ELSE 0

RecordExit(a, by, kind) ==
    /\ CanRecordExit(a, kind)
    /\ LET class == ClassifyExit(a)
           p     == PolicyAfterExit(a, class)
       IN  /\ policy' = p
           /\ sup' = SupervisorAfterExit(a, class, p)
           /\ attempts' = [attempts EXCEPT ![a] =
                [@ EXCEPT !.state = "exited", !.kind = kind, !.by = by,
                          !.class = class,
                          !.counts = class = "crash" /\ policy.keep,
                          !.recent = class = "crash" /\ policy.keep,
                          !.restart = RestartAllowed(p)]]
    /\ observed' = ObservedAfterExit(a)
    /\ UNCHANGED <<fence, definition>>

\* crash_window_seconds pass since the oldest crash that still counts.
WindowPasses ==
    \E a \in DOMAIN attempts :
        /\ attempts[a].recent
        /\ \A b \in 1 .. a - 1 : ~attempts[b].recent
        /\ attempts' = [attempts EXCEPT ![a].recent = FALSE]
        /\ UNCHANGED <<policy, sup, fence, definition, observed>>

-----------------------------------------------------------------------------
\* Any caller, in any order, with the tokens the operation admits.
StoreOperation ==
    \/ \E keep \in BOOLEAN : ConfigurePolicy(keep, policy.generation)
    \/ \E rearm \in BOOLEAN : RequestStart(rearm, policy.generation)
    \/ RequestStop(policy.generation)
    \/ ReplaceDefinition
    \/ \E value \in BOOLEAN : SetFence(value)
    \/ \E epoch \in Epochs : epoch > sup.epoch /\ FenceStartup(epoch)
    \/ NormalizeStartupAbsence(sup.epoch)
    \/ \E allow \in BOOLEAN : ClaimCleanup(sup.epoch, sup.current, allow)
    \/ BeginAttempt(CurrentToken)
    \/ \E a \in DOMAIN attempts :
        \/ MarkLaunched(a)
        \/ FenceLaunch(a)
        \/ \E kind \in ExitKind : RecordExit(a, "runner", kind)
        \/ \E kind \in ExitKind \ {"exit"} : RecordExit(a, "manager", kind)
    \/ WindowPasses

\* The bounds of model checking; a trip adds one to the policy generation.
Bounded ==
    /\ Len(attempts) <= MaxAttempts
    /\ policy.generation <= MaxPolicy
    /\ definition <= MaxDefinition
    /\ sup.generation <= MaxSupervisor

StoreNext == StoreOperation /\ Bounded'

StoreSpec == StoreInit /\ [][StoreNext]_storeVars

-----------------------------------------------------------------------------
(***************************************************************************)
(* Properties                                                              *)
(***************************************************************************)

\* The supervisor row names the one attempt that has not exited: no exit,
\* fence, restart of the broker or stale report leaves an attempt behind or
\* lets a second one in.
OneActiveAttempt == Active = {sup.current} \ {0}

\* The label of the supervisor row is never ahead of its attempt: a launched
\* worker has a running attempt, a launching one a reserved attempt, and a
\* worker ready to launch has none.
LabelMatchesAttempt ==
    /\ sup.state = "running" => /\ sup.current \in Active
                                /\ attempts[sup.current].state = "running"
    /\ sup.state = "launching" => /\ sup.current \in Active
                                  /\ attempts[sup.current].state = "reserved"
    /\ sup.state \in {"idle", "backoff", "tripped", "stopped"} => Active = {}

\* The breaker is armed exactly while the crashes of the policy generation
\* inside the window stay below the limit: an exit of another generation
\* neither counts nor disarms.
ArmedBelowLimit ==
    policy.breaker = "armed" =>
        Cardinality(RecentCrashes(policy.generation)) < CrashLimit

\* server_observations shows a process as running only while its attempt
\* runs.
ObservedProcessRuns ==
    observed # 0 => observed \in Active /\ attempts[observed].state = "running"

\* The rows of a worker agree with each other after every operation.
AttemptsConsistent ==
    /\ OneActiveAttempt /\ LabelMatchesAttempt
    /\ ArmedBelowLimit /\ ObservedProcessRuns
=============================================================================
