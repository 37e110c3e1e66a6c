------------------------- MODULE EphemeralContainers -------------------------
(***************************************************************************)
(* One ephemeral container run with a broker-managed credential: its       *)
(* journal row, its port lease, its volatile credential file, the          *)
(* container in Docker and the operations start, renew and finish of       *)
(* ephemeral_containers.py and ephemeral_secrets.py.                       *)
(*                                                                         *)
(* One mutation lock serializes requests, their repeats, startup recovery  *)
(* and the reaper, so at most one job is under way; a job is a sequence of *)
(* transactions, file writes and Docker calls, and the broker may die, a   *)
(* step may fail and Docker, the clock, the administrator, the port        *)
(* lifecycle and the host observer of host_observation.py, which writes    *)
(* the row without that lock, may act between any two of them.             *)
(***************************************************************************)
EXTENDS Integers

CONSTANTS
    Ttl,        \* lifetimes a caller may ask for, in ticks
    Grace,      \* ticks for which a container must stay absent
    MaxFaults   \* crashes, failures and interventions

ASSUME EphemeralAssumption ==
    /\ Ttl \subseteq Nat \ {0}
    /\ \E t \in Ttl : \A u \in Ttl : u <= t
    /\ Grace \in Nat \ {0}
    /\ MaxFaults \in Nat

VARIABLES
    broker,     \* the broker process: down, listening (reads only) or open
    row,        \* the row of ephemeral_container_runs
    ops,        \* status of the durable operation rows
    lease,      \* status of the run's row in leases; lost: expired or released by a client
    secret,     \* the credential file under /run
    box,        \* the container
    sound,      \* whether the container has the sealed safety profile
    late,       \* age of a create that may still take effect, or NotLate
    overdue,    \* history: it took effect where no listing within the grace shows it
    permitted,  \* template enabled, repository installed and not fenced
    clock,      \* ticks since the start
    job,        \* the job that holds the mutation lock
    faults      \* faults so far

durable == <<row, ops, lease>>
docker == <<box, sound, late, overdue>>
world == <<broker, permitted, clock, faults>>
vars == <<durable, secret, docker, world, job>>

------------------------------------------------------------------------------
Op == {"start", "renew", "finish"}
Ended == {"cleaned", "failed"}
ActiveRunStates == {"reserved", "creating", "attributed", "starting", "running",
                    "cleanup_pending", "stopping", "removing", "needs_attention"}
CleanupStates == {"cleanup_pending", "stopping", "removing"}

\* A run is renewed once, before its first expiry: no later expiry exists.
Horizon == 2 * (CHOOSE t \in Ttl : \A u \in Ttl : u <= t) - 1
NotLate == Grace + 1

NoRenewal == [phase |-> "none", old |-> 0, new |-> 0]
NoRow == [status |-> "none", cleanup |-> FALSE, known |-> FALSE, lease |-> FALSE,
          expiry |-> 0, renewal |-> NoRenewal, absences |-> 0, elapsed |-> 0]
NoSecret == [held |-> FALSE, expiry |-> 0, next |-> 0]
NotSeen == [status |-> "none", cleanup |-> FALSE, known |-> FALSE]
Idle == [kind |-> "idle", op |-> "start", at |-> "idle", seen |-> NotSeen]

Active == row.status \in ActiveRunStates

Init ==
    /\ broker = "open"
    /\ row = NoRow
    /\ ops = [o \in Op |-> "none"]
    /\ lease = "none"
    /\ secret = NoSecret
    /\ box = "absent" /\ sound = TRUE /\ late = NotLate /\ overdue = FALSE
    /\ permitted = TRUE
    /\ clock = 0
    /\ job = Idle
    /\ faults = 0

------------------------------------------------------------------------------
(* The job under way                                                       *)

At(p) == job.at = p
Go(p) == job' = [job EXCEPT !.at = p, !.seen = NotSeen]
GoSeeing(p, r) ==
    job' = [job EXCEPT !.at = p, !.seen = [status |-> r.status, cleanup |-> r.cleanup,
                                           known |-> r.known]]
Done == job' = Idle

(* What an exception leads to.  A start that has not invoked Docker is     *)
(* ended; an operation that wrote nothing is refused; all else leaves the  *)
(* run for recovery.  The recovery of a repeat swallows its exception.     *)
Handler ==
    CASE job.kind = "start" /\ job.at \in {"prepare", "provision", "bind", "fail", "creating"}
            -> "terminalize"
      [] job.at \in {"journal", "request", "terminalize", "distrust"} -> "reject"
      [] OTHER -> "attention"

Raise ==
    IF job.kind = "retry" \/ job.at \in {"attention", "reject"} THEN Done ELSE Go(Handler)

Free == broker = "open" /\ job = Idle

(* Reservation of an operation, under the lock and before its first step.  *)
Begin(o, first) ==
    /\ Free
    /\ ops[o] = "none"
    /\ IF o = "start" THEN permitted ELSE row.status # "none"
    /\ ops' = [ops EXCEPT ![o] = "running"]
    /\ job' = [Idle EXCEPT !.kind = o, !.op = o, !.at = first]
    /\ UNCHANGED <<row, lease, secret, docker, world>>

BeginStart == Begin("start", "prepare")
BeginRenew == Begin("renew", "journal")
BeginFinish == Begin("finish", "request")

(* A caller repeats an operation whose outcome it does not know.           *)
Retry ==
    /\ Free
    /\ row.status # "none"
    /\ \E o \in Op : ops[o] = "running"
    /\ job' = [Idle EXCEPT !.kind = "retry", !.at = "read"]
    /\ UNCHANGED <<durable, secret, docker, world>>

\* Mutant: the reaper leaves runs that need attention to an operator.
ReapHealthy ==
    /\ broker # "down" /\ job = Idle
    /\ Active /\ row.status # "needs_attention"
    /\ job' = [Idle EXCEPT !.kind = "reap", !.at = "read"]
    /\ UNCHANGED <<durable, secret, docker, world>>

(* The reaper takes a run that is due; it starts before mutations are      *)
(* admitted.                                                               *)
Reap ==
    /\ broker # "down" /\ job = Idle
    /\ Active
    /\ job' = [Idle EXCEPT !.kind = "reap", !.at = "read"]
    /\ UNCHANGED <<durable, secret, docker, world>>

(* A step raises before it has changed anything.                           *)
StepFails ==
    /\ job # Idle /\ ~At("preflight")
    /\ faults < MaxFaults
    /\ faults' = faults + 1
    /\ Raise
    /\ UNCHANGED <<durable, secret, docker, broker, permitted, clock>>

------------------------------------------------------------------------------
(* The credential file                                                     *)

Mounted ==
    /\ secret.held
    /\ secret.next = 0
    /\ secret.expiry = row.expiry
    /\ secret.expiry > clock

InspectExpiryRenewal ==
    IF ~secret.held THEN "missing"
    ELSE CASE secret.expiry = row.renewal.old /\ secret.next = 0 -> "old"
           [] secret.expiry = row.renewal.old /\ secret.next = row.renewal.new -> "prepared"
           [] secret.expiry = row.renewal.new /\ secret.next = 0 -> "new"
           [] OTHER -> "invalid"

\* Mutant: only the material of an open renewal is inspected.
RenewalMaterialIsProven ==
    CASE row.renewal.phase = "none" -> TRUE
      [] row.renewal.phase = "prepared" -> InspectExpiryRenewal \in {"old", "prepared"}
      [] row.renewal.phase = "committing" -> InspectExpiryRenewal \in {"prepared", "new"}

PolicyMaterialIsProven ==
    CASE row.renewal.phase = "none" -> Mounted
      [] row.renewal.phase = "prepared" -> InspectExpiryRenewal \in {"old", "prepared"}
      [] row.renewal.phase = "committing" -> InspectExpiryRenewal \in {"prepared", "new"}

------------------------------------------------------------------------------
(* Transactions on the row that several jobs share                         *)

FailRunning(o) == [ops EXCEPT ![o] = IF @ = "running" THEN "failed" ELSE @]
ReleasedLease == IF row.lease /\ lease = "active" THEN "released" ELSE lease

CleanupIntent(r) ==
    IF r.status \in Ended THEN r
    ELSE [r EXCEPT !.cleanup = TRUE, !.status = "cleanup_pending"]

RecordedContainer(r) ==
    IF r.status \in Ended \cup {"stopping", "removing"} THEN r
    ELSE [r EXCEPT !.known = TRUE,
                   !.status = IF r.cleanup THEN "cleanup_pending" ELSE "attributed",
                   !.absences = 0, !.elapsed = 0]

(* A run that never had a container ends, with its lease and credential.   *)
FailBeforeCreate ==
    /\ row' = [row EXCEPT !.status = "failed"]
    /\ lease' = ReleasedLease
    /\ secret' = NoSecret
    /\ ops' = FailRunning("start")

Attention ==
    /\ At("attention") \/ At("distrust")
    /\ row' = IF Active THEN [row EXCEPT !.status = "needs_attention"] ELSE row
    /\ IF At("attention") THEN Done ELSE Go("reject")
    /\ UNCHANGED <<ops, lease, secret, docker, world>>

Reject ==
    /\ At("reject")
    /\ ops' = FailRunning(job.op)
    /\ Done
    /\ UNCHANGED <<row, lease, secret, docker, world>>

Terminalize ==
    /\ At("terminalize")
    /\ Go("reject")
    /\ IF row.status = "reserved" /\ ~row.known
       THEN FailBeforeCreate
       ELSE UNCHANGED <<durable, secret>>
    /\ UNCHANGED <<docker, world>>

Fail ==
    /\ At("fail")
    /\ CASE Active /\ row.known -> Raise
         [] ~(Active /\ row.known) /\ job.kind = "start" -> Go("reject")
         [] OTHER -> Done
    /\ IF Active /\ ~row.known THEN FailBeforeCreate ELSE UNCHANGED <<durable, secret>>
    /\ UNCHANGED <<docker, world>>

------------------------------------------------------------------------------
(* start                                                                   *)

Prepare ==
    /\ At("prepare")
    /\ IF permitted
       THEN /\ \E t \in Ttl : row' = [NoRow EXCEPT !.status = "reserved", !.expiry = clock + t]
            /\ Go("provision")
       ELSE Raise /\ UNCHANGED row
    /\ UNCHANGED <<ops, lease, secret, docker, world>>

Provision ==
    /\ At("provision")
    /\ IF row.expiry > clock
       THEN secret' = [held |-> TRUE, expiry |-> row.expiry, next |-> 0] /\ Go("bind")
       ELSE Raise /\ UNCHANGED secret
    /\ UNCHANGED <<durable, docker, world>>

PortUnavailable ==
    /\ At("bind")
    /\ Go("fail")
    /\ UNCHANGED <<durable, secret, docker, world>>

(* The lease is inserted whatever the row's status; the row names it only  *)
(* while it is still reserved.                                             *)
BindPort ==
    /\ At("bind")
    /\ IF permitted
       THEN /\ lease' = "active"
            /\ row' = [row EXCEPT !.lease = row.status = "reserved"]
            /\ Go("creating")
       ELSE Raise /\ UNCHANGED <<row, lease>>
    /\ UNCHANGED <<ops, secret, docker, world>>

Creating ==
    /\ At("creating")
    /\ IF row.status = "reserved"
       THEN row' = [row EXCEPT !.status = "creating"] /\ Go("create")
       ELSE Raise /\ UNCHANGED row
    /\ UNCHANGED <<ops, lease, secret, docker, world>>

Create ==
    /\ At("create")
    /\ box' = "created"
    /\ sound' \in BOOLEAN
    /\ Go(IF sound' THEN "record" ELSE "reject")
    /\ UNCHANGED <<durable, secret, late, overdue, world>>

CreateFails ==
    /\ At("create")
    /\ faults < MaxFaults
    /\ faults' = faults + 1
    /\ late' = 0
    /\ Raise
    /\ UNCHANGED <<durable, secret, box, sound, overdue, broker, permitted, clock>>

Record ==
    /\ At("record")
    /\ \/ /\ row' = RecordedContainer(row)
          /\ Go(IF clock >= row.expiry \/ ~permitted THEN "intent" ELSE "starting")
       \/ ~permitted /\ Raise /\ UNCHANGED row
    /\ UNCHANGED <<ops, lease, secret, docker, world>>

Starting ==
    /\ At("starting")
    /\ IF \/ row.status = "attributed"
          \/ job.kind # "start" /\ row.status \in {"starting", "needs_attention", "creating"}
       THEN row' = [row EXCEPT !.status = "starting"] /\ Go("run")
       ELSE Raise /\ UNCHANGED row
    /\ UNCHANGED <<ops, lease, secret, docker, world>>

(* docker_start_ephemeral, which proves the safety profile first.          *)
Run ==
    /\ At("run")
    /\ CASE ~Mounted /\ job.kind # "start" -> Go("intent") /\ UNCHANGED box
         [] ~Mounted /\ job.kind = "start" -> Raise /\ UNCHANGED box
         [] Mounted /\ box = "absent" -> Raise /\ UNCHANGED box
         [] Mounted /\ box # "absent" /\ ~sound ->
                (IF job.kind = "start" THEN Go("reject") ELSE Raise) /\ UNCHANGED box
         [] OTHER -> box' = "running" /\ Go("publish")
    /\ UNCHANGED <<durable, secret, sound, late, overdue, world>>

RunFails ==
    /\ At("run") /\ Mounted /\ sound
    /\ box \in {"created", "exited"}
    /\ faults < MaxFaults
    /\ faults' = faults + 1
    /\ box' = "running"
    /\ Raise
    /\ UNCHANGED <<durable, secret, sound, late, overdue, broker, permitted, clock>>

CompleteRunning ==
    /\ At("publish")
    /\ IF row.cleanup \/ (job.kind = "start" /\ ~permitted)
       THEN Raise /\ UNCHANGED <<row, ops>>
       ELSE /\ row' = [row EXCEPT !.status = "running"]
            /\ ops' = [ops EXCEPT !["start"] = IF @ = "running" THEN "succeeded" ELSE @]
            /\ Done
    /\ UNCHANGED <<lease, secret, docker, world>>

StartStep ==
    \/ Prepare \/ Provision \/ PortUnavailable \/ BindPort \/ Creating
    \/ Create \/ CreateFails \/ Record \/ Starting \/ Run \/ RunFails
    \/ CompleteRunning

------------------------------------------------------------------------------
(* renew                                                                   *)

LeaseInvariant == row.lease => lease = "active"

PrepareRenewalJournal ==
    /\ At("journal")
    /\ CASE row.status # "running" -> Go("reject") /\ UNCHANGED row
         [] row.status = "running" /\ row.renewal.phase # "none" -> Done /\ UNCHANGED row
         [] row.status = "running" /\ row.renewal.phase = "none" /\ clock >= row.expiry ->
                Go("reject") /\ UNCHANGED row
         [] row.status = "running" /\ row.renewal.phase = "none" /\ clock < row.expiry
              /\ ~LeaseInvariant -> Go("distrust") /\ UNCHANGED row
         [] OTHER -> \E t \in Ttl :
                IF clock + t = row.expiry THEN Go("reject") /\ UNCHANGED row
                ELSE /\ row' = [row EXCEPT !.renewal =
                                    [phase |-> "prepared", old |-> row.expiry, new |-> clock + t]]
                     /\ Go("stage")
    /\ UNCHANGED <<ops, lease, secret, docker, world>>

PrepareExpiryRenewal ==
    /\ At("stage")
    /\ IF secret.held /\ secret.expiry = row.renewal.old
       THEN secret' = [secret EXCEPT !.next = row.renewal.new] /\ Go("commit")
       ELSE Raise /\ UNCHANGED secret
    /\ UNCHANGED <<durable, docker, world>>

CommitRenewalJournal ==
    /\ At("commit")
    /\ IF row.status = "running" /\ LeaseInvariant
       THEN /\ row' = [row EXCEPT !.expiry = row.renewal.new, !.renewal.phase = "committing"]
            /\ Go("apply")
       ELSE Raise /\ UNCHANGED row
    /\ UNCHANGED <<ops, lease, secret, docker, world>>

(* Recovery applies a committed renewal by the current time; the renewal   *)
(* itself by the time it began at.                                         *)
CommitExpiryRenewal ==
    /\ At("apply")
    /\ LET staged == secret.held /\ secret.next = row.renewal.new IN
       CASE job.kind = "renew" /\ ~staged -> Raise /\ UNCHANGED secret
         [] job.kind # "renew" /\ (~staged \/ row.renewal.new <= clock) ->
              Go("intent") /\ UNCHANGED secret
         [] OTHER -> /\ secret' = [secret EXCEPT !.expiry = row.renewal.new, !.next = 0]
                     /\ Go("finalize")
    /\ UNCHANGED <<durable, docker, world>>

FinalizeRenewal ==
    /\ At("finalize")
    /\ row' = [row EXCEPT !.status = "running", !.renewal = NoRenewal]
    /\ ops' = [ops EXCEPT !["renew"] = "succeeded"]
    /\ IF job.kind = "renew" THEN Done ELSE GoSeeing("look", row')
    /\ UNCHANGED <<lease, secret, docker, world>>

RenewStep ==
    \/ PrepareRenewalJournal \/ PrepareExpiryRenewal \/ CommitRenewalJournal
    \/ CommitExpiryRenewal \/ FinalizeRenewal

------------------------------------------------------------------------------
(* cleanup, of a finish, of a start that came too late and of recovery     *)

PrepareCleanup ==
    /\ At("request")
    /\ IF row.status = "cleaned"
       THEN ops' = [ops EXCEPT !["finish"] = "succeeded"] /\ Done /\ UNCHANGED row
       ELSE /\ row' = [row EXCEPT !.status = "cleanup_pending", !.cleanup = TRUE]
            /\ Go("intent")
            /\ UNCHANGED ops
    /\ UNCHANGED <<lease, secret, docker, world>>

PersistCleanupIntent ==
    /\ At("intent")
    /\ row' = CleanupIntent(row)
    /\ Go("drop")
    /\ UNCHANGED <<ops, lease, secret, docker, world>>

(* _cancel_renewal_for_cleanup: a renewal never survives a cleanup.        *)
DropRenewal ==
    /\ row' = IF Active /\ row.cleanup
              THEN [row EXCEPT !.status = "cleanup_pending", !.renewal = NoRenewal]
              ELSE row
    /\ ops' = IF Active /\ row.cleanup /\ row.renewal # NoRenewal THEN FailRunning("renew") ELSE ops

CancelRenewalForCleanup ==
    /\ At("drop")
    /\ DropRenewal
    /\ GoSeeing("find", row')
    /\ UNCHANGED <<lease, secret, docker, world>>

Find ==
    /\ At("find")
    /\ row' = IF box # "absent" /\ ~job.seen.known THEN RecordedContainer(row) ELSE row
    /\ Go(CASE box = "running" -> "stopping"
            [] box \in {"created", "exited"} -> "removing"
            [] box = "absent" /\ job.seen.known -> "release"
            [] box = "absent" /\ ~job.seen.known -> "absence")
    /\ UNCHANGED <<ops, lease, secret, docker, world>>

\* Mutant: two observations suffice, however close to each other.
AbsenceSeenTwice == row.absences >= 1

(* _record_create_absence: two observations, a full grace apart.           *)
AbsenceIsStable == row.absences >= 1 /\ row.elapsed >= Grace
AbsenceCounts == ~row.known /\ (row.cleanup \/ row.status \in {"creating", "needs_attention"})

RecordCreateAbsence ==
    /\ job.at \in {"absence", "await", "settle"}
    /\ LET stable == AbsenceCounts /\ AbsenceIsStable IN
       /\ row' = IF AbsenceCounts THEN [row EXCEPT !.absences = IF @ = 0 THEN 1 ELSE 2] ELSE row
       /\ CASE stable -> Go(IF At("await") THEN "fail" ELSE "release")
            [] ~stable /\ At("absence") -> Raise
            [] ~stable /\ ~At("absence") -> Done
    /\ UNCHANGED <<ops, lease, secret, docker, world>>

Stopping ==
    /\ At("stopping")
    /\ row' = [row EXCEPT !.status = "stopping"]
    /\ Go("stop")
    /\ UNCHANGED <<ops, lease, secret, docker, world>>

Stop ==
    /\ At("stop")
    /\ IF box = "absent" THEN Raise /\ UNCHANGED box
       ELSE box' = (IF box = "running" THEN "exited" ELSE box) /\ Go("removing")
    /\ UNCHANGED <<durable, secret, sound, late, overdue, world>>

Removing ==
    /\ At("removing")
    /\ row' = [row EXCEPT !.status = "removing"]
    /\ Go("remove")
    /\ UNCHANGED <<ops, lease, secret, docker, world>>

Remove ==
    /\ At("remove")
    /\ IF box \in {"created", "exited"} THEN box' = "absent" /\ Go("verify")
       ELSE Raise /\ UNCHANGED box
    /\ UNCHANGED <<durable, secret, sound, late, overdue, world>>

(* A stop or a remove takes effect although its command fails.             *)
CommandFails ==
    /\ faults < MaxFaults
    /\ faults' = faults + 1
    /\ \/ At("stop") /\ box = "running" /\ box' = "exited"
       \/ At("remove") /\ box \in {"created", "exited"} /\ box' = "absent"
    /\ Raise
    /\ UNCHANGED <<durable, secret, sound, late, overdue, broker, permitted, clock>>

Verify ==
    /\ At("verify")
    /\ IF box = "absent" THEN Go("release") ELSE Raise
    /\ UNCHANGED <<durable, secret, docker, world>>

ReleaseRunSecret ==
    /\ At("release")
    /\ secret' = NoSecret
    /\ Go("close")
    /\ UNCHANGED <<durable, docker, world>>

CompleteCleanup ==
    /\ At("close")
    /\ row' = [row EXCEPT !.status = "cleaned", !.renewal = NoRenewal]
    /\ lease' = ReleasedLease
    /\ ops' = [o \in Op |->
                  CASE ops[o] # "running" -> ops[o]
                    [] ops[o] = "running" /\ o = "finish" -> "succeeded"
                    [] ops[o] = "running" /\ o = "start" -> "failed"
                    [] ops[o] = "running" /\ o = "renew" ->
                         IF row.renewal # NoRenewal THEN "failed" ELSE "running"]
    /\ Done
    /\ UNCHANGED <<secret, docker, world>>

CleanupStep ==
    \/ PrepareCleanup \/ PersistCleanupIntent \/ CancelRenewalForCleanup \/ Find
    \/ RecordCreateAbsence \/ Stopping \/ Stop \/ Removing \/ Remove
    \/ CommandFails \/ Verify \/ ReleaseRunSecret \/ CompleteCleanup

------------------------------------------------------------------------------
(* recovery, by startup, the reaper or a repeated operation                *)

RecoverTarget ==
    /\ At("read")
    /\ CASE row.status \in Ended -> Done
         [] row.status \notin Ended /\ row.cleanup -> Go("intent")
         [] row.status \notin Ended /\ ~row.cleanup /\ row.renewal.phase # "none" -> Go("inspect_renewal")
         [] OTHER -> GoSeeing("look", row)
    /\ UNCHANGED <<durable, secret, docker, world>>

\* Mutant: a committed renewal is answered as cancelled.
RecoverAsCancelled ==
    /\ At("inspect_renewal")
    /\ LET observed == InspectExpiryRenewal IN
       Go(CASE row.renewal.phase = "prepared" /\ observed = "prepared" -> "rollback"
            [] observed = "old" \/ (row.renewal.phase = "committing" /\ observed = "new") -> "cancel"
            [] row.renewal.phase = "committing" /\ observed = "prepared" -> "apply"
            [] OTHER -> "intent")
    /\ UNCHANGED <<durable, secret, docker, world>>

RecoverCredentialRenewal ==
    /\ At("inspect_renewal")
    /\ LET observed == InspectExpiryRenewal IN
       Go(CASE row.renewal.phase = "prepared" /\ observed = "prepared" -> "rollback"
            [] row.renewal.phase = "prepared" /\ observed = "old" -> "cancel"
            [] row.renewal.phase = "committing" /\ observed = "prepared" -> "apply"
            [] row.renewal.phase = "committing" /\ observed = "new" -> "finalize"
            [] OTHER -> "intent")
    /\ UNCHANGED <<durable, secret, docker, world>>

RollbackExpiryRenewal ==
    /\ At("rollback")
    /\ secret' = [secret EXCEPT !.next = 0]
    /\ Go("cancel")
    /\ UNCHANGED <<durable, docker, world>>

CancelPreparedRenewal ==
    /\ At("cancel")
    /\ row' = [row EXCEPT !.status = "running", !.renewal = NoRenewal]
    /\ ops' = FailRunning("renew")
    /\ GoSeeing("look", row')
    /\ UNCHANGED <<lease, secret, docker, world>>

(* docker_find_ephemeral, and what its answer leads to.                    *)
Look ==
    /\ At("look")
    /\ LET seen == job.seen
           cleaning == seen.cleanup \/ seen.status \in CleanupStates IN
       CASE box = "absent" /\ seen.status = "running" -> Go("vanished")
         [] box = "absent" /\ seen.status # "running" /\ seen.known -> Go("release")
         [] box = "absent" /\ seen.status # "running" /\ ~seen.known /\ cleaning -> Go("settle")
         [] box = "absent" /\ ~seen.known /\ ~cleaning
              /\ seen.status \in {"creating", "needs_attention"} -> Go("await")
         [] box = "absent" /\ ~seen.known /\ ~cleaning
              /\ seen.status \in {"reserved", "attributed", "starting"} -> Go("fail")
         [] OTHER -> job' = [job EXCEPT !.at = "identify"]
    /\ UNCHANGED <<durable, secret, docker, world>>

Identify ==
    /\ At("identify")
    /\ row' = IF job.seen.known THEN row ELSE RecordedContainer(row)
    /\ IF row'.cleanup \/ row'.status \in CleanupStates \/ clock >= row.expiry \/ ~permitted
       THEN Go("intent")
       ELSE GoSeeing("inspect", row')
    /\ UNCHANGED <<ops, lease, secret, docker, world>>

Inspect ==
    /\ At("inspect")
    /\ CASE ~Mounted \/ (box # "absent" /\ ~sound) -> Go("intent")
         [] Mounted /\ box = "absent" -> Raise
         [] Mounted /\ sound /\ box = "running" -> Go("publish")
         [] Mounted /\ sound /\ box \in {"created", "exited"} ->
              Go(IF job.seen.status = "running" THEN "exited" ELSE "starting")
    /\ UNCHANGED <<durable, secret, docker, world>>

RecordUnexpectedExit ==
    /\ At("vanished") \/ At("exited")
    /\ row' = IF row.status = "running" THEN CleanupIntent(row) ELSE row
    /\ Go(IF At("exited") THEN "intent" ELSE "release")
    /\ UNCHANGED <<ops, lease, secret, docker, world>>

(* Credential material or a safety profile that cannot be proved ends the  *)
(* run instead of keeping it.                                              *)
FailRenewalMaterialRecovery ==
    /\ job.kind # "renew"
    /\ job.at \in {"inspect_renewal", "rollback", "apply", "inspect"}
    /\ faults < MaxFaults
    /\ faults' = faults + 1
    /\ Go("intent")
    /\ UNCHANGED <<durable, secret, docker, broker, permitted, clock>>

RecoverStep ==
    \/ RecoverTarget \/ RecoverCredentialRenewal \/ RollbackExpiryRenewal
    \/ CancelPreparedRenewal \/ FailRenewalMaterialRecovery
    \/ Look \/ Identify \/ Inspect \/ RecordUnexpectedExit

------------------------------------------------------------------------------
(* The broker process                                                      *)

BrokerStarts ==
    /\ broker = "down"
    /\ broker' = "listening"
    /\ job' = [Idle EXCEPT !.kind = "startup", !.at = "preflight"]
    /\ UNCHANGED <<durable, secret, docker, permitted, clock, faults>>

(* Every run without provable material is fenced before admission; the     *)
(* Docker half of recovery covers a bounded batch and may defer this run.  *)
Preflight ==
    /\ At("preflight")
    /\ CASE ~Active -> Done /\ UNCHANGED <<row, ops>>
         [] Active /\ row.cleanup -> DropRenewal /\ (Done \/ Go("read"))
         [] Active /\ ~row.cleanup /\ PolicyMaterialIsProven ->
              (Done \/ Go("read")) /\ UNCHANGED <<row, ops>>
         [] OTHER -> row' = CleanupIntent(row) /\ UNCHANGED <<ops, job>>
    /\ UNCHANGED <<lease, secret, docker, world>>

BeginMutationAdmission ==
    /\ broker = "listening"
    /\ job.kind # "startup"
    /\ broker' = "open"
    /\ UNCHANGED <<durable, secret, docker, permitted, clock, faults, job>>

(* The broker dies; with the host, everything under /run and every running *)
(* process is lost as well.                                                *)
Crash ==
    /\ broker # "down"
    /\ faults < MaxFaults
    /\ faults' = faults + 1
    /\ broker' = "down"
    /\ Done
    /\ late' = IF At("create") THEN 0 ELSE late
    /\ UNCHANGED <<durable, secret, box, sound, overdue, permitted, clock>>

Reboot ==
    /\ broker # "down"
    /\ faults < MaxFaults
    /\ faults' = faults + 1
    /\ broker' = "down"
    /\ Done
    /\ secret' = NoSecret
    /\ box' = IF box = "running" THEN "exited" ELSE box
    /\ late' = NotLate
    /\ UNCHANGED <<durable, sound, overdue, permitted, clock>>

------------------------------------------------------------------------------
(* What happens around the broker                                          *)

(* A create whose command was given up takes effect or not, at any time.   *)
(* It is overdue after the grace, and between a listing that did not show  *)
(* it and the record of that absence, which carries the later time.        *)
LateCreate ==
    /\ late # NotLate
    /\ late' = NotLate
    /\ \/ /\ box' = "created" /\ sound' \in BOOLEAN
          /\ overdue' = (late = Grace \/ job.at \in {"absence", "await", "settle"})
       \/ UNCHANGED <<box, sound, overdue>>
    /\ UNCHANGED <<durable, secret, world, job>>

(* _ephemeral_repository_attribution: an observation of the host, by a     *)
(* client or an administrator, records the identity of the container, and  *)
(* reopens a run that failed because its create was not found, the only    *)
(* failure that a container can follow.  A sample that has become stale    *)
(* does what it did before the container vanished.                         *)
ObserveContainer ==
    /\ box # "absent"
    /\ \/ Active /\ ~row.known /\ row' = [row EXCEPT !.known = TRUE]
       \/ /\ row.status = "failed"
          /\ row' = [row EXCEPT !.known = TRUE, !.cleanup = TRUE, !.status = "cleanup_pending"]
    /\ UNCHANGED <<ops, lease, secret, docker, world, job>>

ContainerExits ==
    /\ box = "running"
    /\ box' = "exited"
    /\ UNCHANGED <<durable, secret, sound, late, overdue, world, job>>

ContainerVanishes ==
    /\ box # "absent"
    /\ faults < MaxFaults
    /\ faults' = faults + 1
    /\ box' = "absent"
    /\ UNCHANGED <<durable, secret, sound, late, overdue, broker, permitted, clock, job>>

(* Time passes between any two steps.  An absence is dated when it is      *)
(* recorded, after the listing that observed it.                           *)
Tick ==
    /\ row.status # "none"
    /\ clock < Horizon \/ (row.absences > 0 /\ row.elapsed < Grace) \/ late < Grace
    /\ clock' = IF clock < Horizon THEN clock + 1 ELSE clock
    /\ row' = IF row.absences > 0 /\ row.elapsed < Grace THEN [row EXCEPT !.elapsed = @ + 1] ELSE row
    /\ late' = IF late < Grace THEN late + 1 ELSE late
    /\ UNCHANGED <<ops, lease, secret, box, sound, overdue, broker, permitted, faults, job>>

(* The administrator changes the credential policy of the template.        *)
RevokePolicy ==
    /\ Active
    /\ faults < MaxFaults
    /\ faults' = faults + 1
    /\ row' = CleanupIntent(row)
    /\ UNCHANGED <<ops, lease, secret, docker, broker, permitted, clock, job>>

Disable ==
    /\ permitted
    /\ faults < MaxFaults
    /\ faults' = faults + 1
    /\ permitted' = FALSE
    /\ UNCHANGED <<durable, secret, docker, broker, clock, job>>

(* The port lifecycle retires a lease whose time is up.                    *)
ExpireLease ==
    /\ lease = "active"
    /\ clock >= row.expiry
    /\ lease' = "lost"
    /\ UNCHANGED <<row, ops, secret, docker, world, job>>

(* A client of the repository releases the port of the run.                *)
ClientReleasesPort ==
    /\ lease = "active"
    /\ faults < MaxFaults
    /\ faults' = faults + 1
    /\ lease' = "lost"
    /\ UNCHANGED <<row, ops, secret, docker, broker, permitted, clock, job>>

JobStep ==
    \/ Attention \/ Reject \/ Terminalize \/ Fail
    \/ StartStep \/ RenewStep \/ CleanupStep \/ RecoverStep \/ Preflight

Next ==
    \/ BeginStart \/ BeginRenew \/ BeginFinish \/ Retry \/ Reap
    \/ JobStep \/ StepFails
    \/ BrokerStarts \/ BeginMutationAdmission \/ Crash \/ Reboot
    \/ LateCreate \/ ObserveContainer \/ ContainerExits \/ ContainerVanishes \/ Tick
    \/ RevokePolicy \/ Disable \/ ExpireLease \/ ClientReleasesPort

Spec == Init /\ [][Next]_vars

FairSpec ==
    /\ Spec
    /\ WF_vars(JobStep)
    /\ WF_vars(Reap)
    /\ WF_vars(BrokerStarts)
    /\ SF_vars(Tick)

------------------------------------------------------------------------------
(* Properties                                                              *)

Step == {"idle", "prepare", "provision", "bind", "fail", "creating", "create", "record",
         "starting", "run", "publish", "journal", "stage", "commit", "apply", "finalize",
         "request", "intent", "drop", "find", "absence", "await", "settle", "stopping", "stop",
         "removing", "remove", "verify", "release", "close", "read", "inspect_renewal",
         "rollback", "cancel", "look", "identify", "inspect", "vanished", "exited",
         "preflight", "terminalize", "reject", "distrust", "attention"}
Time == 0..Horizon

(* Types, and the facts of the schema that bind columns to each other: an  *)
(* open renewal has two different expiries of which the row holds the one  *)
(* of its phase, and a run that runs has a container identity.             *)
TypeOK ==
    /\ broker \in {"down", "listening", "open"}
    /\ row \in [status : ActiveRunStates \cup Ended \cup {"none"}, cleanup : BOOLEAN,
                known : BOOLEAN, lease : BOOLEAN, expiry : Time,
                renewal : [phase : {"none", "prepared", "committing"}, old : Time, new : Time],
                absences : 0..2, elapsed : 0..Grace]
    /\ row.renewal # NoRenewal =>
          /\ row.renewal.old # row.renewal.new
          /\ row.expiry = IF row.renewal.phase = "prepared" THEN row.renewal.old ELSE row.renewal.new
    /\ row.status = "running" => row.known
    /\ ops \in [Op -> {"none", "running", "succeeded", "failed"}]
    /\ lease \in {"none", "active", "released", "lost"}
    /\ secret \in [held : BOOLEAN, expiry : Time, next : Time]
    /\ box \in {"absent", "created", "running", "exited"}
    /\ sound \in BOOLEAN /\ permitted \in BOOLEAN
    /\ late \in 0..NotLate /\ overdue \in BOOLEAN
    /\ clock \in Time
    /\ job.kind \in Op \cup {"idle", "retry", "reap", "startup"}
    /\ job.at \in Step
    /\ faults \in 0..MaxFaults

(* No container but one that was created after all listings and never      *)
(* started: it runs nothing and binds no port.                             *)
NoContainerButOverdue ==
    \/ box = "absent" /\ late >= Grace
    \/ box = "created" /\ overdue

(* _complete_cleanup and _fail_before_create: a run that is recorded as    *)
(* ended has no credential file, the lease it names is no longer held, and *)
(* no container of it exists or is still to come, except one whose create  *)
(* took effect after the grace or behind the back of the last listing; and *)
(* that one is never started, also when the host observer reopens the run. *)
EndedLeavesNothing ==
    row.status \in Ended =>
        /\ NoContainerButOverdue
        /\ ~secret.held
        /\ row.lease => lease # "active"

(* The broker gives the port back only after the container that publishes  *)
(* it is gone, whichever job, failure or restart came between.             *)
LeaseOutlivesContainer == lease = "released" => NoContainerButOverdue

(* Container, credential and port are given up in order and completely.    *)
NothingOutlivesTheRun == TypeOK /\ EndedLeavesNothing /\ LeaseOutlivesContainer

(* What recovery and renewal promise a client that reads the status of an  *)
(* admitted broker: a run that is running, is not being cleaned up and has *)
(* no renewal under way has its credential, for exactly its own expiry.    *)
CredentialMatchesRun ==
    broker = "open" /\ row.status = "running" /\ ~row.cleanup /\ row.renewal = NoRenewal
        => secret = [held |-> TRUE, expiry |-> row.expiry, next |-> 0]

(* A start that was answered as failed never has a running run afterwards. *)
FailedStartNeverRuns ==
    ops["start"] = "failed" => row.status # "running"

(* A run that is shown as running was started and can be used.             *)
RunningMeansUsable == CredentialMatchesRun /\ FailedStartNeverRuns

(* When a renewal is answered and the run lives on, row and credential     *)
(* both have the new expiry after a success and both the old one after a   *)
(* failure, whatever interrupted it in between.                            *)
RenewalIsAllOrNothing ==
    [][ops["renew"] = "running" /\ ops'["renew"] # "running"
          /\ row'.status = "running" /\ ~row'.cleanup
        => /\ secret' = [held |-> TRUE, expiry |-> row'.expiry, next |-> 0]
           /\ row'.expiry = IF ops'["renew"] = "succeeded" THEN row.renewal.new
                            ELSE IF row.renewal.phase = "none" THEN row.expiry
                            ELSE row.renewal.old]_vars

(* Every run ends: its time passes, and the reaper or the repeats of its   *)
(* callers remove what is left of it.                                      *)
RunEnds == row.status \in ActiveRunStates ~> row.status \in Ended
=============================================================================
