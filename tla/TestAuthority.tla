--------------------------- MODULE TestAuthority ----------------------------
(***************************************************************************)
(* The root authority as the test plane uses it: the serialized mutation   *)
(* writer of broker.py with its cache of completed operations, the         *)
(* BrokerTestAttemptCoordinator and SystemdTestAttemptManager of           *)
(* universal_test_runtime.py, and the transient systemd unit with the      *)
(* runner that publishes a result package.                                 *)
(*                                                                         *)
(* One execution belongs to one row, so executions are named by rows.      *)
(* LAUNCH, CANCEL and COLLECT of one execution hold its resource lock;     *)
(* STATUS takes no lock.  LAUNCH is the only long handler, so it is four   *)
(* steps, the third of which can be undone, and the others are one.        *)
(*                                                                         *)
(* Everything that goes wrong by itself (a crash, a lost or late call, a   *)
(* failing launch, a unit that resists its stop) is counted in faults.     *)
(***************************************************************************)
EXTENDS RunState, Naturals

CONSTANTS
    Outcome,    \* what a runner can publish
    MaxFaults   \* bound on faults of the environment

\* A package is one of
\*   partial    its reporter did not complete;
\*   pass, fail a complete report without, or with, measured failures;
\*   late       complete, no measured failure, the runner hit its deadline;
\*   contested  complete with measured failures, and the runner classified
\*              the execution as timed out or as an infrastructure failure.
PackageKind == {"none", "partial", "pass", "fail", "late", "contested"}

ASSUME OutcomeAssumption == Outcome \subseteq PackageKind \ {"none"}
ASSUME MaxFaultsAssumption == MaxFaults \in Nat

VARIABLES
    up,         \* the authority process runs
    ticket,     \* _tickets: launch ticket of each execution
    known,      \* executions whose descriptor is in coordinator memory
    cache,      \* _completed: outcome of each stop or collect operation
    pending,    \* received calls whose caller may have stopped waiting
    launching,  \* progress of the LAUNCH handler of each execution
    evidence,   \* launch.json and native.json on disk
    unit,       \* the transient systemd unit
    package,    \* the result package the runner published
    faults

authorityMemory == <<up, ticket, known, cache, pending, launching>>
hostState == <<evidence, unit, package>>
authorityVars == <<authorityMemory, hostState, faults>>

StopReason == {"deadline", "cancel", "restart"}
CachedOp == StopReason \cup {"collect"}
AuthorityTypeOK ==
    /\ up \in BOOLEAN
    /\ ticket \in [Row -> {"none", "issued", "spent"}]
    /\ known \subseteq Row
    /\ cache \in [Row -> [CachedOp -> {"none", "ok", "error"}]]
    /\ pending \subseteq [row : Row, op : CachedOp \cup {"launch"}]
    /\ launching \in [Row -> {"idle", "files", "prepared", "ran"}]
    /\ evidence \in [Row -> {"none", "launch", "prepared", "started"}]
    /\ unit \in [Row -> {"none", "active", "dead"}]
    /\ package \in [Row -> PackageKind]
    /\ faults \in 0..MaxFaults

AuthorityInit ==
    /\ up = TRUE
    /\ ticket = [x \in Row |-> "none"]
    /\ known = {}
    /\ cache = [x \in Row |-> [o \in CachedOp |-> "none"]]
    /\ pending = {}
    /\ launching = [x \in Row |-> "idle"]
    /\ evidence = [x \in Row |-> "none"]
    /\ unit = [x \in Row |-> "none"]
    /\ package = [x \in Row |-> "none"]
    /\ faults = 0

Fault == faults < MaxFaults /\ faults' = faults + 1
NoFault == UNCHANGED faults

-----------------------------------------------------------------------------
(***************************************************************************)
(* Native evidence and STATUS                                              *)
(***************************************************************************)

\* _native_context yields an identity: the prepared record is completed from
\* a loaded unit, and refused as long as systemd does not know the unit.
HasNativeContext(x) ==
    evidence[x] = "started" \/ (evidence[x] = "prepared" /\ unit[x] # "none")

RepairedEvidence(x) ==
    IF HasNativeContext(x) THEN [evidence EXCEPT ![x] = "started"] ELSE evidence

\* runtime_descriptor: coordinator memory first, then launch.json, which is
\* remembered.
HasDescriptor(x) == x \in known \/ evidence[x] # "none"
RememberDescriptor(x) == IF evidence[x] # "none" THEN known \cup {x} ELSE known

Refused == [state |-> "refused", package |-> "none"]

\* Mutant: an unknown execution is reported absent.
ObservedUnknownAbsent(x) ==
    IF HasNativeContext(x)
    THEN IF unit[x] = "active"
         THEN [state |-> "running", package |-> "none"]
         ELSE [state |-> "exited", package |-> package[x]]
    ELSE IF evidence[x] = "none" /\ unit[x] = "none"
    THEN [state |-> "absent", package |-> "none"]
    ELSE Refused

\* What STATUS replies.  The package is finalized only once the unit is
\* inactive; a descriptor without launch evidence and without a unit is the
\* only way to an absence.
Observed(x) ==
    IF HasNativeContext(x)
    THEN IF unit[x] = "active"
         THEN [state |-> "running", package |-> "none"]
         ELSE [state |-> "exited", package |-> package[x]]
    ELSE IF evidence[x] = "none" /\ x \in known /\ unit[x] = "none"
    THEN [state |-> "absent", package |-> "none"]
    ELSE Refused

TestAttemptStatus(x) ==
    /\ up
    /\ known' = RememberDescriptor(x)
    /\ evidence' = RepairedEvidence(x)
    /\ UNCHANGED <<up, ticket, cache, pending, launching, unit, package>>
    /\ NoFault

(***************************************************************************)
(* CANCEL and COLLECT behind the operation cache                           *)
(***************************************************************************)

\* Outcomes other than the transient error codes are remembered under the
\* operation identity, errors too.
Remember(x, op, ok) ==
    cache' = [cache EXCEPT ![x][op] = IF ok THEN "ok" ELSE "error"]

ReplayCompleted(x, op, ok) ==
    /\ cache[x][op] # "none"
    /\ ok = (cache[x][op] = "ok")
    /\ UNCHANGED <<ticket, known, cache, hostState>>
    /\ NoFault

\* Mutant: stopping the unit also removes what it left behind.
ExecuteCancelAndClean(x, op, ok) ==
    /\ cache[x][op] = "none"
    /\ Remember(x, op, ok)
    /\ ok = HasNativeContext(x)
    /\ IF ok
       THEN /\ evidence' = [evidence EXCEPT ![x] = "none"]
            /\ unit' = [unit EXCEPT ![x] = "none"]
            /\ package' = [package EXCEPT ![x] = "none"]
            /\ known' = known \cup {x}
       ELSE UNCHANGED <<known, hostState>>
    /\ NoFault
    /\ UNCHANGED ticket

\* Cancelling what was never launched is a success only if no unit exists;
\* otherwise the exact unit is stopped and must end inactive and empty.
ExecuteCancel(x, op, ok) ==
    /\ cache[x][op] = "none"
    /\ Remember(x, op, ok)
    /\ known' = RememberDescriptor(x)
    /\ \/ /\ ~HasDescriptor(x)
          /\ ok = (unit[x] = "none")
          /\ UNCHANGED hostState
          /\ NoFault
       \/ /\ HasDescriptor(x) /\ ~HasNativeContext(x)
          /\ ~ok
          /\ UNCHANGED hostState
          /\ NoFault
       \/ /\ HasNativeContext(x)
          /\ ok
          /\ evidence' = RepairedEvidence(x)
          /\ unit' = [unit EXCEPT ![x] = "dead"]
          /\ UNCHANGED package
          /\ NoFault
       \/ /\ HasNativeContext(x) /\ unit[x] = "active"
          /\ ~ok                              \* transitional after stop
          /\ evidence' = RepairedEvidence(x)
          /\ UNCHANGED <<unit, package>>
          /\ Fault
    /\ UNCHANGED ticket

\* Private material goes away only with stopped and empty proof.
ExecuteCollect(x, ok) ==
    LET stopped == Observed(x).state \in {"exited", "absent"}
    IN  /\ cache[x]["collect"] = "none"
        /\ Remember(x, "collect", ok)
        /\ \/ /\ ~HasDescriptor(x)
              /\ ok = (unit[x] = "none")
              /\ UNCHANGED <<ticket, known, hostState>>
           \/ /\ HasDescriptor(x) /\ ~stopped
              /\ ~ok
              /\ known' = RememberDescriptor(x)
              /\ UNCHANGED <<ticket, hostState>>
           \/ /\ HasDescriptor(x) /\ stopped
              /\ ok
              /\ known' = known \ {x}
              /\ ticket' = [ticket EXCEPT ![x] = "none"]
              /\ evidence' = [evidence EXCEPT ![x] = "none"]
              /\ unit' = [unit EXCEPT ![x] = "none"]
              /\ package' = [package EXCEPT ![x] = "none"]
        /\ NoFault

\* SerializedMutationWriter.execute for a stop or collect call.
ExecuteMutation(x, op, ok) ==
    /\ up
    /\ launching[x] = "idle"
    /\ \/ ReplayCompleted(x, op, ok)
       \/ op \in StopReason /\ ExecuteCancel(x, op, ok)
       \/ op = "collect" /\ ExecuteCollect(x, ok)
    /\ UNCHANGED <<up, launching>>

\* A call whose caller timed out is still executed.
ExecuteLateMutation ==
    \E q \in pending, ok \in BOOLEAN :
        /\ q.op # "launch"
        /\ ExecuteMutation(q.row, q.op, ok)
        /\ pending' = pending \ {q}

(***************************************************************************)
(* LAUNCH                                                                  *)
(***************************************************************************)
IssueTicket(x) ==
    /\ up
    /\ ticket' = [ticket EXCEPT ![x] = "issued"]
    /\ UNCHANGED <<up, known, cache, pending, launching, hostState>>
    /\ NoFault

\* Accept one LAUNCH: refuse it without its ticket, or provision and publish
\* launch.json, or fail before anything is left on disk.
LaunchAccept(x) ==
    LET q == [row |-> x, op |-> "launch"]
    IN  /\ up
        /\ q \in pending
        /\ launching[x] = "idle"
        /\ pending' = pending \ {q}
        /\ \/ /\ ticket[x] = "issued"
              /\ launching' = [launching EXCEPT ![x] = "files"]
              /\ evidence' = [evidence EXCEPT ![x] = "launch"]
              /\ NoFault
           \/ /\ ticket[x] # "issued"
              /\ UNCHANGED <<launching, evidence>>
              /\ NoFault
           \/ /\ ticket[x] = "issued"
              /\ UNCHANGED <<launching, evidence>>
              /\ Fault
        /\ UNCHANGED <<up, ticket, known, cache, unit, package>>

\* native.json is published without a control group before systemd-run; when
\* that fails, launch.json stays behind.
LaunchPrepare(x) ==
    /\ up
    /\ launching[x] = "files"
    /\ \/ /\ launching' = [launching EXCEPT ![x] = "prepared"]
          /\ evidence' = [evidence EXCEPT ![x] = "prepared"]
          /\ NoFault
       \/ /\ launching' = [launching EXCEPT ![x] = "idle"]
          /\ UNCHANGED evidence
          /\ Fault
    /\ UNCHANGED <<up, ticket, known, cache, pending, unit, package>>

\* systemd-run starts the unit, or fails and the material is removed again.
LaunchRun(x) ==
    /\ up
    /\ launching[x] = "prepared"
    /\ \/ /\ launching' = [launching EXCEPT ![x] = "ran"]
          /\ unit' = [unit EXCEPT ![x] = "active"]
          /\ UNCHANGED evidence
          /\ NoFault
       \/ /\ launching' = [launching EXCEPT ![x] = "idle"]
          /\ evidence' = [evidence EXCEPT ![x] = "none"]
          /\ UNCHANGED unit
          /\ Fault
    /\ UNCHANGED <<up, ticket, known, cache, pending, package>>

\* systemd-run reports a failure of a unit that runs, or the fixture namespace
\* is refused after the start: the material is removed although STATUS may
\* have completed the evidence by now.  The stop is unchecked, and a package
\* that STATUS finalized stays where it was copied to.
LaunchUndo(x) ==
    /\ up
    /\ launching[x] = "ran"
    /\ launching' = [launching EXCEPT ![x] = "idle"]
    /\ evidence' = [evidence EXCEPT ![x] = "none"]
    /\ \E u \in {"none", "dead", unit[x]} : unit' = [unit EXCEPT ![x] = u]
    /\ \/ package' = [package EXCEPT ![x] = "none"]
       \/ evidence[x] = "started" /\ unit[x] = "dead" /\ UNCHANGED package
    /\ Fault
    /\ UNCHANGED <<up, ticket, known, cache, pending>>

\* The launch is acknowledged, or systemd did not show the unit and the
\* handler raises with the unit running.
LaunchAcknowledge(x) ==
    /\ up
    /\ launching[x] = "ran"
    /\ launching' = [launching EXCEPT ![x] = "idle"]
    /\ \/ /\ evidence' = [evidence EXCEPT ![x] = "started"]
          /\ known' = known \cup {x}
          /\ ticket' = [ticket EXCEPT ![x] = "spent"]
          /\ NoFault
       \/ /\ UNCHANGED <<evidence, known, ticket>>
          /\ Fault
    /\ UNCHANGED <<up, cache, pending, unit, package>>

ExpireTicket(x) ==
    /\ up
    /\ ticket[x] = "issued"
    /\ launching[x] = "idle"
    /\ ticket' = [ticket EXCEPT ![x] = "none"]
    /\ UNCHANGED <<up, known, cache, pending, launching, hostState>>
    /\ Fault

(***************************************************************************)
(* The unit, and crashes of the authority                                  *)
(***************************************************************************)

\* The runner publishes one package by atomic rename, then exits; it may
\* also die, or be ended by RuntimeMaxSec, without one.  RemainAfterExit
\* keeps the unit loaded.
RunnerPublish(x) ==
    /\ unit[x] = "active"
    /\ package[x] = "none"
    /\ \E p \in Outcome : package' = [package EXCEPT ![x] = p]
    /\ UNCHANGED <<authorityMemory, evidence, unit, faults>>

RunnerExit(x) ==
    /\ unit[x] = "active"
    /\ unit' = [unit EXCEPT ![x] = "dead"]
    /\ UNCHANGED <<authorityMemory, evidence, package, faults>>

AuthorityCrash ==
    /\ up
    /\ up' = FALSE
    /\ ticket' = [x \in Row |-> "none"]
    /\ known' = {}
    /\ cache' = [x \in Row |-> [o \in CachedOp |-> "none"]]
    /\ pending' = {}
    /\ launching' = [x \in Row |-> "idle"]
    /\ UNCHANGED hostState
    /\ Fault

AuthorityRestart ==
    /\ ~up
    /\ up' = TRUE
    /\ UNCHANGED <<ticket, known, cache, pending, launching, hostState, faults>>

LaunchStep(x) ==
    \/ LaunchAccept(x)
    \/ LaunchPrepare(x)
    \/ LaunchRun(x)
    \/ LaunchUndo(x)
    \/ LaunchAcknowledge(x)

AuthorityStep ==
    \/ \E x \in Row : LaunchStep(x) \/ ExpireTicket(x)
    \/ ExecuteLateMutation
    \/ AuthorityCrash
    \/ AuthorityRestart

RunnerStep == \E x \in Row : RunnerPublish(x) \/ RunnerExit(x)
=============================================================================
