--------------------------- MODULE EphemeralProofs ---------------------------
(***************************************************************************)
(* Proofs about EphemeralContainers: container, credential and port are    *)
(* given up in order and completely, a run that is shown as running was    *)
(* started and can be used, and a renewal is all or nothing, for every set *)
(* of lifetimes, every grace and any number of crashes, failures and       *)
(* interventions.                                                          *)
(***************************************************************************)
EXTENDS EphemeralContainers, TLAPS

-----------------------------------------------------------------------------
(* Places of the jobs.                                                     *)

\* Docker has not been asked for a container yet.
EarlyAt == {"prepare", "provision", "bind", "creating", "create", "terminalize"}
CleanupAt == {"intent", "drop", "find", "absence", "stopping", "stop", "removing", "remove",
              "verify", "release", "close"}
StartAt == EarlyAt \cup {"fail", "record", "starting", "run", "publish", "reject", "attention"}
                   \cup CleanupAt
WorkAt == EarlyAt \cup {"fail", "record", "starting", "run", "publish"}
RenewAt == {"journal", "stage", "commit", "apply", "finalize", "reject", "distrust", "attention"}
FinishAt == {"request", "reject", "attention"} \cup CleanupAt
RecoverAt == {"preflight", "read", "inspect_renewal", "rollback", "cancel", "apply", "finalize",
              "look", "identify", "inspect", "vanished", "exited", "await", "settle", "fail",
              "starting", "run", "publish", "attention"} \cup CleanupAt
\* A job at one of these places works on a run that has not ended.
ActiveAt == {"provision", "bind", "fail", "creating", "create", "record", "starting", "run",
             "publish", "stage", "commit", "apply", "finalize", "await", "settle",
             "inspect_renewal", "rollback", "cancel", "look", "identify", "inspect", "vanished",
             "exited"} \cup CleanupAt
\* Places a job may be at while there is no row.
RowlessAt == {"idle", "preflight", "prepare", "terminalize", "reject"}
\* The cleanup has begun and is journaled.
CleaningAt == {"drop", "find", "absence", "stopping", "stop", "removing", "remove", "verify"}
KnownAt == {"inspect", "starting", "run", "publish", "stopping", "stop", "removing", "remove", "verify"}
GoneAt == {"fail", "vanished", "release", "close"}
\* A listing has not shown the container.
ListedAt == {"absence", "await", "settle"}
\* Where a job may be once the lease is released: it cleans up or does nothing.
ReleasedAt == {"idle", "preflight", "read", "request", "journal", "reject", "attention"} \cup CleanupAt

-----------------------------------------------------------------------------
(* The inductive invariant.                                                *)

Longest == CHOOSE t \in Ttl : \A u \in Ttl : u <= t
Statuses == ActiveRunStates \cup Ended \cup {"none"}
Renewals == [phase : {"none", "prepared", "committing"}, old : Time, new : Time]
RowType == [status : Statuses, cleanup : BOOLEAN, known : BOOLEAN, lease : BOOLEAN,
            expiry : Time, renewal : Renewals, absences : 0..2, elapsed : 0..Grace]
JobType == [kind : Op \cup {"idle", "retry", "reap", "startup"}, op : Op, at : Step,
            seen : [status : Statuses, cleanup : BOOLEAN, known : BOOLEAN]]

Typed ==
    /\ broker \in {"down", "listening", "open"}
    /\ row \in RowType
    /\ ops \in [Op -> {"none", "running", "succeeded", "failed"}]
    /\ lease \in {"none", "active", "released", "lost"}
    /\ secret \in [held : BOOLEAN, expiry : Time, next : Time]
    /\ box \in {"absent", "created", "running", "exited"}
    /\ sound \in BOOLEAN /\ permitted \in BOOLEAN
    /\ late \in 0..NotLate /\ overdue \in BOOLEAN
    /\ clock \in Time
    /\ job \in JobType
    /\ faults \in 0..MaxFaults

\* Which job may be where, and in which broker.
KindHolds ==
    /\ job.kind = "idle" \/ job.at = "idle" => job = Idle
    /\ job.kind = "start" => job.op = "start" /\ job.at \in StartAt
    /\ job.kind = "renew" => job.op = "renew" /\ job.at \in RenewAt
    /\ job.kind = "finish" => job.op = "finish" /\ job.at \in FinishAt
    /\ job.kind \in {"retry", "reap", "startup"} => job.at \in RecoverAt
    /\ job.at = "preflight" => job.kind = "startup" /\ broker = "listening"
    /\ broker = "down" => job = Idle

\* No container exists and none is on its way.
NoContainer == box = "absent" /\ late = NotLate

Sealed(expiry) == [held |-> TRUE, expiry |-> expiry, next |-> 0]

\* A start that is answered as failed cannot be completed by a recovery.
Dead == /\ row.status # "running"
        /\ row.cleanup \/ row.status \in Ended \/ (late = NotLate /\ (box = "absent" \/ ~sound))

\* Columns of the row, the container and the lease.
RowHolds ==
    /\ row.status = "reserved" => NoContainer /\ ~row.known
    /\ row.status \in {"attributed", "starting", "running", "stopping", "removing"} => row.known
    /\ row.status = "cleanup_pending" => row.cleanup
    /\ row.known \/ box # "absent" => late = NotLate
    /\ lease = "released" => NoContainerButOverdue /\ row.status # "running"
                              /\ (row.cleanup \/ row.status \in Ended)
    /\ row.status \in Ended => NoContainerButOverdue /\ ~secret.held /\ (row.lease => lease # "active")
    /\ row.absences = 0 => row.elapsed = 0
    /\ row.absences > 0 /\ late # NotLate => row.elapsed <= late

\* Before the row is written nothing else exists.
NoneHolds ==
    /\ ops["start"] = "none" => row.status = "none"
    /\ row.status = "none" =>
          row = NoRow /\ NoContainer /\ lease = "none" /\ ~secret.held /\ clock = 0

\* An open renewal, and the time that remains for the first one.
RenewalHolds ==
    /\ row.renewal.phase = "none" => row.renewal = NoRenewal
    /\ row.renewal # NoRenewal =>
          /\ row.renewal.old # row.renewal.new
          /\ row.expiry = IF row.renewal.phase = "prepared" THEN row.renewal.old ELSE row.renewal.new
    /\ ops["renew"] = "none" => row.renewal = NoRenewal /\ row.expiry <= Longest

\* What is true of the start operation.
StartHolds ==
    /\ row.status = "running" \/ row.renewal # NoRenewal => ops["start"] = "succeeded" /\ row.known
    /\ ops["start"] = "failed" => Dead

\* What recovery re-establishes and every other job preserves.
MaterialHolds ==
    broker # "down" /\ job.at # "preflight" =>
        (row.status = "running" /\ ~row.cleanup /\ row.renewal = NoRenewal => secret = Sealed(row.expiry))

\* What a job relies on at its place, as far as the row and the container go.
PlaceHolds ==
    /\ ops["start"] = "none" => job.at \in {"idle", "preflight"}
    /\ row.status = "none" => job.at \in RowlessAt
    /\ job.kind = "start" /\ job.at \in WorkAt => ops["start"] = "running"
    /\ job.at \in ActiveAt => Active
    /\ job.at \in EarlyAt \/ (job.at = "fail" /\ job.kind = "start") =>
          NoContainer /\ ~row.known /\ lease # "released" /\ row.absences = 0 /\ row.status # "running"
    /\ job.at = "prepare" => row.status = "none"
    /\ job.at = "create" => row.status # "reserved"
    /\ job.at \in {"record", "identify"} => late = NotLate
    /\ job.at \in KnownAt => row.known
    /\ job.at \in GoneAt => NoContainerButOverdue
    /\ lease = "released" => job.at \in ReleasedAt
    /\ job.at = "close" => ~secret.held
    /\ job.at \in CleaningAt => row.cleanup /\ row.status \in CleanupStates
    /\ job.at \in {"release", "close", "settle"} => row.status # "running"
    /\ job.at \in ListedAt => box = "absent" \/ (box = "created" /\ overdue)
    /\ job.at \in {"find", "look", "identify"} /\ job.seen.known => row.known
    /\ job.at = "look" =>
          /\ row.status = job.seen.status \/ row.status = "cleanup_pending"
          /\ job.seen.status \in ActiveRunStates
          /\ job.seen.status \in {"attributed", "starting", "running", "stopping", "removing"}
                => job.seen.known
          /\ job.seen.status = "reserved" => NoContainer
    /\ job.at = "publish" => secret = Sealed(row.expiry) /\ (ops["start"] # "failed" \/ row.cleanup)
    /\ job.at = "reject" /\ job.kind = "start" => Dead

\* What a job that renews, or recovers a renewal, relies on.
RenewingHolds ==
    /\ job.at = "journal" =>
          ops["renew"] # "none" /\ row.renewal = NoRenewal /\ row.expiry <= Longest
    /\ job.at \in {"stage", "commit", "rollback", "cancel"} => row.renewal.phase = "prepared"
    /\ job.at \in {"apply", "finalize"} => row.renewal.phase = "committing"
    /\ job.at = "inspect_renewal" => row.renewal.phase # "none"
    /\ job.at = "rollback" =>
          secret = [held |-> TRUE, expiry |-> row.renewal.old, next |-> row.renewal.new]
    /\ job.at = "cancel" => secret = Sealed(row.renewal.old)
    /\ job.at = "finalize" => secret = Sealed(row.renewal.new)
    /\ job.at = "distrust" \/ (job.at = "reject" /\ job.kind = "renew") => row.renewal = NoRenewal

RunInv == /\ Typed /\ KindHolds /\ RowHolds /\ NoneHolds /\ RenewalHolds /\ StartHolds
          /\ MaterialHolds /\ PlaceHolds /\ RenewingHolds

-----------------------------------------------------------------------------
(* Lemmas about the operators of the model.                                *)

USE DEF EarlyAt, CleanupAt, StartAt, WorkAt, RenewAt, FinishAt, RecoverAt, ActiveAt, RowlessAt,
        CleaningAt, KnownAt, GoneAt, ListedAt, ReleasedAt, NoContainerButOverdue, ActiveRunStates, Ended, CleanupStates, Statuses, At

\* Times are natural numbers; a renewal ends before twice the longest lifetime.
LEMMA TimeFacts ==
    /\ Longest \in Ttl /\ Longest \in Nat /\ Horizon = 2 * Longest - 1
    /\ \A t \in Ttl : t \in Nat /\ t > 0 /\ t <= Longest
    /\ Grace \in Nat /\ Grace > 0 /\ MaxFaults \in Nat
    /\ 0 \in Time /\ \A c \in Time : c \in Nat
<1>1. \E t \in Ttl : \A u \in Ttl : u <= t
  BY EphemeralAssumption DEF EphemeralAssumption
<1>2. Longest \in Ttl /\ \A u \in Ttl : u <= Longest
  BY <1>1 DEF Longest
<1>3. Ttl \subseteq Nat \ {0} /\ Grace \in Nat \ {0} /\ MaxFaults \in Nat
  BY EphemeralAssumption DEF EphemeralAssumption
<1>4. Horizon = 2 * Longest - 1
  BY DEF Horizon, Longest
<1> QED
  BY <1>2, <1>3, <1>4 DEF Time

\* The constants of the model have their types.
LEMMA ConstantFacts ==
    /\ Idle \in JobType /\ Idle.at = "idle" /\ Idle.kind = "idle" /\ Idle.op = "start"
    /\ NoRow \in RowType /\ NoRow.renewal = NoRenewal /\ NoRow.status = "none"
    /\ ~NoRow.cleanup /\ ~NoRow.known /\ ~NoRow.lease
    /\ NoRow.expiry = 0 /\ NoRow.absences = 0 /\ NoRow.elapsed = 0
    /\ NoRenewal \in Renewals /\ NoRenewal.phase = "none"
    /\ NoSecret \in [held : BOOLEAN, expiry : Time, next : Time] /\ ~NoSecret.held
    /\ NotSeen \in [status : Statuses, cleanup : BOOLEAN, known : BOOLEAN]
    /\ NotLate \in 0..NotLate /\ NotLate = Grace + 1 /\ NotLate > Grace
<1>1. NotSeen \in [status : Statuses, cleanup : BOOLEAN, known : BOOLEAN]
  BY DEF NotSeen
<1>2. Idle \in JobType /\ Idle.at = "idle" /\ Idle.kind = "idle" /\ Idle.op = "start"
  BY <1>1 DEF Idle, JobType, Op, Step
<1>3. NoRenewal \in Renewals /\ NoRenewal.phase = "none"
  BY TimeFacts DEF NoRenewal, Renewals
<1>4. NotLate \in 0..NotLate /\ NotLate = Grace + 1 /\ NotLate > Grace /\ 0 \in 0..Grace
  BY TimeFacts DEF NotLate
<1>5. /\ NoRow.renewal = NoRenewal /\ NoRow.status = "none"
      /\ ~NoRow.cleanup /\ ~NoRow.known /\ ~NoRow.lease
      /\ NoRow.expiry = 0 /\ NoRow.absences = 0 /\ NoRow.elapsed = 0
  BY DEF NoRow
<1>6. NoRow \in RowType
  BY <1>3, <1>4, TimeFacts DEF NoRow, RowType
<1>7. NoSecret \in [held : BOOLEAN, expiry : Time, next : Time] /\ ~NoSecret.held
  BY TimeFacts DEF NoSecret
<1> QED
  BY <1>1, <1>2, <1>3, <1>4, <1>5, <1>6, <1>7

\* A step to a place keeps the job's kind and operation.
LEMMA GoFacts ==
    ASSUME job \in JobType, NEW p \in Step, Go(p)
    PROVE  /\ job' \in JobType /\ job'.at = p /\ job'.kind = job.kind /\ job'.op = job.op
BY ConstantFacts DEF Go, JobType

\* A step that remembers what the row said.
LEMMA GoSeeingFacts ==
    ASSUME job \in JobType, NEW p \in Step, NEW r \in RowType, GoSeeing(p, r)
    PROVE  /\ job' \in JobType /\ job'.at = p /\ job'.kind = job.kind /\ job'.op = job.op
           /\ job'.seen.status = r.status /\ job'.seen.known = r.known
<1>1. r.status \in Statuses /\ r.cleanup \in BOOLEAN /\ r.known \in BOOLEAN
  BY DEF RowType
<1> QED
  BY <1>1 DEF GoSeeing, JobType

\* The end of a job.
LEMMA DoneFacts ==
    ASSUME Done
    PROVE  job' = Idle /\ job' \in JobType /\ job'.at = "idle" /\ job'.kind = "idle"
BY ConstantFacts DEF Done

\* Where an exception leads.
LEMMA RaiseFacts ==
    ASSUME job \in JobType, KindHolds, UNCHANGED broker, job.at \notin {"idle", "preflight"}, Raise
    PROVE  /\ job' \in JobType /\ KindHolds'
           /\ \/ job' = Idle /\ job'.at = "idle" /\ job'.kind = "idle"
              \/ job'.at = "attention" /\ job'.kind = job.kind
                   /\ job.at \notin {"prepare", "terminalize", "reject"}
              \/ /\ job'.at = "terminalize" /\ job'.kind = "start" /\ job.kind = "start"
                 /\ job.at \in {"prepare", "provision", "bind", "fail", "creating"}
              \/ /\ job'.at = "reject" /\ job'.kind = job.kind /\ job'.op = job.op
                 /\ job.at \in {"journal", "request", "terminalize", "distrust"}
<1>1. CASE Done
  BY <1>1, DoneFacts DEF KindHolds
<1>2. CASE /\ job.kind # "retry" /\ job.at \notin {"attention", "reject"} /\ Go(Handler)
  <2>1. CASE /\ job.kind = "start" /\ job.at \in {"prepare", "provision", "bind", "fail", "creating"}
    <3>1. Handler = "terminalize"
      BY <2>1 DEF Handler
    <3>2. Go("terminalize") /\ "terminalize" \in Step
      BY <1>2, <3>1 DEF Step
    <3> QED
      BY <2>1, <3>2, GoFacts, ConstantFacts DEF KindHolds
  <2>2. CASE job.at \in {"journal", "request", "terminalize", "distrust"}
    <3>1. Handler = "reject"
      BY <2>2 DEF Handler
    <3>2. Go("reject") /\ "reject" \in Step
      BY <1>2, <3>1 DEF Step
    <3> QED
      BY <2>2, <3>2, GoFacts, ConstantFacts DEF KindHolds
  <2>3. CASE /\ job.at \notin {"journal", "request", "terminalize", "distrust"}
             /\ ~(job.kind = "start" /\ job.at \in {"prepare", "provision", "bind", "fail", "creating"})
    <3>1. Handler = "attention"
      BY <2>3 DEF Handler
    <3>2. Go("attention") /\ "attention" \in Step
      BY <1>2, <3>1 DEF Step
    <3>3. job.at # "prepare"
      BY <2>3, ConstantFacts DEF KindHolds, JobType, Op
    <3> QED
      BY <1>2, <2>3, <3>2, <3>3, GoFacts, ConstantFacts DEF KindHolds, JobType, Op
  <2> QED
    BY <2>1, <2>2, <2>3
<1> QED
  BY <1>1, <1>2 DEF Raise

-----------------------------------------------------------------------------
(* Steps that only move the job.                                           *)

\* Only the job and the count of faults change.
Still == UNCHANGED <<row, ops, lease, secret, box, sound, late, overdue, broker, permitted, clock>>

\* What does not mention the job is kept.
LEMMA StillKeeps ==
    ASSUME RunInv, Still, faults' \in 0..MaxFaults, job' \in JobType,
           KindHolds', PlaceHolds', RenewingHolds', job.at = "preflight" => job'.at = "preflight"
    PROVE  RunInv'
<1>1. Typed'
  BY DEF RunInv, Still, Typed
<1>2. RowHolds' /\ NoneHolds' /\ RenewalHolds' /\ StartHolds'
  BY DEF RunInv, Still, RowHolds, NoneHolds, RenewalHolds, StartHolds, Dead, NoContainer
<1>3. MaterialHolds'
  BY DEF RunInv, Still, MaterialHolds
<1> QED
  BY <1>1, <1>2, <1>3 DEF RunInv

\* A job that ends without another effect.
LEMMA DoneKeeps ==
    ASSUME RunInv, Still, faults' \in 0..MaxFaults, Done, job.at # "preflight"
    PROVE  RunInv'
<1>1. job' = Idle /\ job' \in JobType /\ job'.at = "idle" /\ job'.kind = "idle"
  BY DoneFacts
<1>2. KindHolds' /\ RenewingHolds'
  BY <1>1 DEF KindHolds, RenewingHolds
<1>3. PlaceHolds'
  BY <1>1 DEF PlaceHolds
<1> QED
  BY <1>1, <1>2, <1>3, StillKeeps

\* An exception before anything was changed.
LEMMA RaiseKeeps ==
    ASSUME RunInv, Still, faults' \in 0..MaxFaults, job.at \notin {"idle", "preflight"}, Raise
    PROVE  RunInv'
<1>1. /\ job' \in JobType /\ KindHolds'
      /\ \/ job' = Idle /\ job'.at = "idle" /\ job'.kind = "idle"
         \/ job'.at = "attention" /\ job'.kind = job.kind
              /\ job.at \notin {"prepare", "terminalize", "reject"}
         \/ /\ job'.at = "terminalize" /\ job'.kind = "start" /\ job.kind = "start"
            /\ job.at \in {"prepare", "provision", "bind", "fail", "creating"}
         \/ /\ job'.at = "reject" /\ job'.kind = job.kind /\ job'.op = job.op
            /\ job.at \in {"journal", "request", "terminalize", "distrust"}
  BY RaiseFacts DEF RunInv, Typed, Still
<1>2. RenewingHolds'
  BY <1>1 DEF RunInv, KindHolds, RenewingHolds, Still
<1>3. PlaceHolds'
  BY <1>1 DEF RunInv, KindHolds, PlaceHolds, Still, Dead, NoContainer
<1> QED
  BY <1>1, <1>2, <1>3, StillKeeps

\* A step to another place.
LEMMA GoKeeps ==
    ASSUME RunInv, Still, faults' \in 0..MaxFaults, NEW p \in Step, Go(p), job.at # "preflight",
           KindHolds', PlaceHolds', RenewingHolds'
    PROVE  RunInv'
<1>1. job' \in JobType
  BY GoFacts DEF RunInv, Typed
<1> QED
  BY <1>1, StillKeeps

\* A step raises before it has changed anything.
LEMMA StepFailsKeeps ==
    ASSUME RunInv, StepFails
    PROVE  RunInv'
<1>1. job.at \notin {"idle", "preflight"}
  BY DEF StepFails, RunInv, KindHolds
<1>2. Still /\ faults' \in 0..MaxFaults
  BY TimeFacts DEF StepFails, Still, durable, docker, RunInv, Typed
<1> QED
  BY <1>1, <1>2, RaiseKeeps DEF StepFails

\* A job moves to a place it may be at.
LEMMA MoveKeeps ==
    ASSUME RunInv, Still, faults' \in 0..MaxFaults, NEW p \in Step, Go(p),
           job.at \notin {"idle", "preflight"}, row.status # "none",
           /\ job.kind = "start" => p \in StartAt /\ (p \in WorkAt => ops["start"] = "running")
           /\ job.kind = "renew" => p \in RenewAt
           /\ job.kind = "finish" => p \in FinishAt
           /\ job.kind \in {"retry", "reap", "startup"} => p \in RecoverAt,
           p \notin EarlyAt \cup {"idle", "preflight", "look", "journal", "distrust", "publish", "reject", "close", "find", "identify"},
           p \in ActiveAt => Active,
           p \in GoneAt => NoContainerButOverdue,
           lease = "released" => p \in ReleasedAt,
           p = "fail" /\ job.kind = "start" =>
              NoContainer /\ ~row.known /\ lease # "released" /\ row.absences = 0 /\ row.status # "running",
           p = "record" => late = NotLate,
           p \in KnownAt => row.known,
           p \in CleaningAt => row.cleanup /\ row.status \in CleanupStates,
           p \in {"release", "settle"} => row.status # "running",
           p \in ListedAt => box = "absent",
           p \in {"stage", "commit", "rollback", "cancel"} => row.renewal.phase = "prepared",
           p \in {"apply", "finalize"} => row.renewal.phase = "committing",
           p = "inspect_renewal" => row.renewal.phase # "none",
           p = "rollback" =>
              secret = [held |-> TRUE, expiry |-> row.renewal.old, next |-> row.renewal.new],
           p = "cancel" => secret = Sealed(row.renewal.old),
           p = "finalize" => secret = Sealed(row.renewal.new)
    PROVE  RunInv'
<1>1. job' \in JobType /\ job'.at = p /\ job'.kind = job.kind /\ job'.op = job.op
  BY GoFacts DEF RunInv, Typed
<1>2. job.kind # "idle" /\ broker # "down"
  BY ConstantFacts DEF RunInv, KindHolds
<1>3. KindHolds'
  BY <1>1, <1>2 DEF RunInv, KindHolds, Still
<1>4. PlaceHolds'
  BY <1>1 DEF RunInv, PlaceHolds, Still, NoContainer, Dead, Active, AbsenceIsStable
<1>5. RenewingHolds'
  BY <1>1 DEF RenewingHolds, Still
<1> QED
  BY <1>1, <1>3, <1>4, <1>5, StillKeeps

\* A job that stands at a place works on a row.
LEMMA RowAt ==
    ASSUME RunInv, job.at \in ActiveAt
    PROVE  Active /\ row.status # "none" /\ job.at \notin {"idle", "preflight"}
BY DEF RunInv, PlaceHolds, Active

\* Most places belong to one kind of job.
LEMMA KindAt ==
    ASSUME RunInv
    PROVE  /\ job.at # "idle" => job.kind # "idle" /\ broker # "down"
           /\ job.at \in EarlyAt \cup {"record"} => job.kind = "start"
           /\ job.at \in {"journal", "stage", "commit", "distrust"} => job.kind = "renew"
           /\ job.at = "request" => job.kind = "finish"
           /\ job.at \in {"read", "inspect_renewal", "rollback", "cancel", "look", "identify",
                         "inspect", "vanished", "exited", "await", "settle"}
                => job.kind \in {"retry", "reap", "startup"}
<1>1. job.kind \in {"start", "renew", "finish", "idle", "retry", "reap", "startup"}
  BY DEF RunInv, Typed, JobType, Op
<1>2. job.at # "idle" => job.kind # "idle" /\ broker # "down"
  BY ConstantFacts DEF RunInv, KindHolds
<1> QED
  BY <1>1, <1>2 DEF RunInv, KindHolds

\* What a listing that finds nothing proves.
LEMMA AbsenceFacts ==
    ASSUME RunInv
    PROVE  /\ row.known \/ box # "absent" => late = NotLate
           /\ box = "absent" /\ row.known => NoContainer
           /\ NoContainer => NoContainerButOverdue
           /\ AbsenceIsStable => late >= Grace
<1>1. late \in 0..NotLate /\ row \in RowType
  BY DEF RunInv, Typed
<1>2. row.absences > 0 /\ late # NotLate => row.elapsed <= late
  BY DEF RunInv, RowHolds
<1>3. AbsenceIsStable => late >= Grace
  BY <1>1, <1>2, TimeFacts DEF AbsenceIsStable, NotLate, RowType
<1>4. NoContainer => NoContainerButOverdue
  BY TimeFacts DEF NoContainer, NotLate
<1> QED
  BY <1>3, <1>4 DEF RunInv, RowHolds, NoContainer

\* Once the lease is released the run only waits for its cleanup.
LEMMA ReleasedFacts ==
    ASSUME RunInv
    PROVE  /\ lease = "released" =>
                 row.status # "running" /\ (row.cleanup \/ row.status \in Ended) /\ job.at \in ReleasedAt
           /\ NoContainer => NoContainerButOverdue
BY AbsenceFacts DEF RunInv, RowHolds, PlaceHolds

\* A repeat and the reaper begin by reading the row.
LEMMA ReadKeeps ==
    ASSUME RunInv, Retry \/ Reap
    PROVE  RunInv'
<1>1. /\ Still /\ UNCHANGED faults /\ broker # "down" /\ job.at = "idle" /\ row.status # "none"
  <2>1. CASE Retry
    BY <2>1, ConstantFacts DEF Retry, Free, Still, durable, docker, world
  <2>2. CASE Reap
    BY <2>2, ConstantFacts DEF Reap, Active, Still, durable, docker, world
  <2> QED
    BY <2>1, <2>2
<1>3. job' \in JobType /\ job'.at = "read" /\ job'.kind \in {"retry", "reap"}
  <2>1. CASE Retry
    BY <2>1, ConstantFacts DEF Retry, JobType, Step
  <2>2. CASE Reap
    BY <2>2, ConstantFacts DEF Reap, JobType, Step
  <2> QED
    BY <2>1, <2>2
<1>4. KindHolds' /\ RenewingHolds'
  BY <1>1, <1>3 DEF KindHolds, RenewingHolds, Still
<1>5. PlaceHolds'
  BY <1>1, <1>3 DEF RunInv, NoneHolds, PlaceHolds, Still
<1>6. faults' \in 0..MaxFaults
  BY <1>1 DEF RunInv, Typed
<1> QED
  BY <1>1, <1>3, <1>4, <1>5, <1>6, StillKeeps

\* No port is left: nothing was bound and nothing was created.
LEMMA PortUnavailableKeeps ==
    ASSUME RunInv, PortUnavailable
    PROVE  RunInv'
<1>1. job.at = "bind" /\ Go("fail") /\ Still /\ faults' \in 0..MaxFaults
  BY DEF PortUnavailable, Still, durable, docker, world, RunInv, Typed
<1>2. "fail" \in Step /\ Active /\ row.status # "none"
  BY <1>1, RowAt DEF Step
<1>3. /\ NoContainer /\ ~row.known /\ lease # "released" /\ row.absences = 0 /\ row.status # "running"
      /\ job.kind = "start" => ops["start"] = "running"
  BY <1>1 DEF RunInv, PlaceHolds
<1>4. job.kind = "start"
  BY <1>1, ConstantFacts DEF RunInv, KindHolds, Typed, JobType, Op
<1> QED
  BY <1>1, <1>2, <1>3, <1>4, MoveKeeps, ReleasedFacts

\* The container is gone after its removal, or the removal is repeated later.
LEMMA VerifyKeeps ==
    ASSUME RunInv, Verify
    PROVE  RunInv'
<1>1. job.at = "verify" /\ Still /\ faults' \in 0..MaxFaults
  BY DEF Verify, Still, durable, docker, world, RunInv, Typed
<1>2. Active /\ row.status # "none"
  BY <1>1, RowAt
<1>3. CASE box = "absent" /\ Go("release")
  <2>1. NoContainer /\ row.status # "running"
    BY <1>1, <1>3 DEF RunInv, PlaceHolds, RowHolds, NoContainer
  <2>2. "release" \in Step
    BY DEF Step
  <2> QED
    BY <1>1, <1>2, <1>3, <2>1, <2>2, MoveKeeps, ReleasedFacts DEF RunInv, KindHolds
<1>4. CASE Raise
  BY <1>1, <1>4, RaiseKeeps
<1> QED
  BY <1>3, <1>4 DEF Verify

\* Recovery reads the row and chooses its way.
LEMMA RecoverTargetKeeps ==
    ASSUME RunInv, RecoverTarget
    PROVE  RunInv'
<1>1. job.at = "read" /\ Still /\ faults' \in 0..MaxFaults
  BY DEF RecoverTarget, Still, durable, docker, world, RunInv, Typed
<1>2. row.status # "none" /\ job.kind \in {"retry", "reap", "startup"}
  BY <1>1, KindAt DEF RunInv, PlaceHolds
<1>3. row \in RowType /\ row.status \in Statuses
  BY DEF RunInv, Typed, RowType
<1>4. CASE Done
  BY <1>1, <1>4, DoneKeeps
<1>5. CASE row.status \notin Ended /\ Go("intent")
  <2>1. "intent" \in Step /\ Active
    BY <1>2, <1>3, <1>5 DEF Step, Active
  <2> QED
    BY <1>1, <1>2, <1>5, <2>1, MoveKeeps
<1>6. CASE row.status \notin Ended /\ ~row.cleanup /\ row.renewal.phase # "none" /\ Go("inspect_renewal")
  <2>1. "inspect_renewal" \in Step /\ Active
    BY <1>2, <1>3, <1>6 DEF Step, Active
  <2> QED
    BY <1>1, <1>2, <1>6, <2>1, MoveKeeps, ReleasedFacts
<1>7. CASE row.status \notin Ended /\ ~row.cleanup /\ GoSeeing("look", row)
  <2>1. Active
    BY <1>2, <1>3, <1>7 DEF Active
  <2>2. /\ job' \in JobType /\ job'.at = "look" /\ job'.kind = job.kind
        /\ job'.seen.status = row.status /\ job'.seen.known = row.known
    BY <1>3, <1>7, GoSeeingFacts DEF RunInv, Typed, Step
  <2>3. KindHolds' /\ RenewingHolds'
    BY <1>1, <1>2, <2>2, ConstantFacts DEF RunInv, KindHolds, RenewingHolds, Still
  <2>4. PlaceHolds'
    <3>1. lease # "released"
      BY <1>7, ReleasedFacts
    <3> QED
      BY <1>1, <1>2, <2>1, <2>2, <3>1 DEF RunInv, PlaceHolds, RowHolds, Still, NoContainer, Active
  <2> QED
    BY <1>1, <2>2, <2>3, <2>4, StillKeeps
<1> QED
  BY <1>4, <1>5, <1>6, <1>7 DEF RecoverTarget

\* The credential file tells how far an interrupted renewal came.
LEMMA RecoverCredentialRenewalKeeps ==
    ASSUME RunInv, RecoverCredentialRenewal
    PROVE  RunInv'
<1>1. job.at = "inspect_renewal" /\ Still /\ faults' \in 0..MaxFaults
  BY DEF RecoverCredentialRenewal, Still, durable, docker, world, RunInv, Typed
<1>2. Active /\ row.status # "none" /\ job.kind \in {"retry", "reap", "startup"}
  BY <1>1, RowAt, KindAt
<1>3. /\ secret \in [held : BOOLEAN, expiry : Time, next : Time]
      /\ row.renewal.old # row.renewal.new
  BY <1>1, ConstantFacts DEF RunInv, Typed, RenewalHolds, RenewingHolds
<1>4. {"rollback", "cancel", "apply", "finalize", "intent"} \subseteq Step
  BY DEF Step
<1>5. CASE Go("intent")
  BY <1>1, <1>2, <1>4, <1>5, MoveKeeps
<1>6. CASE row.renewal.phase = "prepared" /\ InspectExpiryRenewal = "prepared" /\ Go("rollback")
  <2>1. secret = [held |-> TRUE, expiry |-> row.renewal.old, next |-> row.renewal.new]
    <3>1. secret.held /\ secret.expiry = row.renewal.old /\ secret.next = row.renewal.new
      BY <1>3, <1>6 DEF InspectExpiryRenewal
    <3> QED
      BY <1>3, <3>1
  <2> QED
    BY <1>1, <1>2, <1>4, <1>6, <2>1, MoveKeeps, ReleasedFacts
<1>7. CASE row.renewal.phase = "prepared" /\ InspectExpiryRenewal = "old" /\ Go("cancel")
  <2>1. secret = Sealed(row.renewal.old)
    <3>1. secret.held /\ secret.expiry = row.renewal.old /\ secret.next = 0
      BY <1>3, <1>7 DEF InspectExpiryRenewal
    <3> QED
      BY <1>3, <3>1 DEF Sealed
  <2> QED
    BY <1>1, <1>2, <1>4, <1>7, <2>1, MoveKeeps, ReleasedFacts
<1>8. CASE row.renewal.phase = "committing" /\ Go("apply")
  BY <1>1, <1>2, <1>4, <1>8, MoveKeeps, ReleasedFacts
<1>9. CASE row.renewal.phase = "committing" /\ InspectExpiryRenewal = "new" /\ Go("finalize")
  <2>1. secret = Sealed(row.renewal.new)
    <3>1. secret.held /\ secret.expiry = row.renewal.new /\ secret.next = 0
      BY <1>3, <1>9 DEF InspectExpiryRenewal
    <3> QED
      BY <1>3, <3>1 DEF Sealed
  <2> QED
    BY <1>1, <1>2, <1>4, <1>9, <2>1, MoveKeeps, ReleasedFacts
<1> QED
  BY <1>5, <1>6, <1>7, <1>8, <1>9 DEF RecoverCredentialRenewal

\* Material that cannot be proved sends the run to its cleanup.
LEMMA FailRenewalMaterialRecoveryKeeps ==
    ASSUME RunInv, FailRenewalMaterialRecovery
    PROVE  RunInv'
<1>1. /\ job.kind # "renew" /\ job.at \in {"inspect_renewal", "rollback", "apply", "inspect"}
      /\ Go("intent") /\ Still /\ faults' \in 0..MaxFaults
  BY TimeFacts DEF FailRenewalMaterialRecovery, Still, durable, docker, RunInv, Typed
<1>2. Active /\ row.status # "none" /\ "intent" \in Step
  BY <1>1, RowAt DEF Step
<1>3. job.kind \in {"retry", "reap", "startup"}
  BY <1>1 DEF RunInv, KindHolds, Typed, JobType, Op, Idle
<1> QED
  BY <1>1, <1>2, <1>3, MoveKeeps

\* What the listing says, and where that leads.
LEMMA LookKeeps ==
    ASSUME RunInv, Look
    PROVE  RunInv'
<1>1. job.at = "look" /\ Still /\ faults' \in 0..MaxFaults
  BY DEF Look, Still, durable, docker, world, RunInv, Typed
<1>2. Active /\ row.status # "none" /\ job.kind \in {"retry", "reap", "startup"}
  BY <1>1, RowAt, KindAt
<1>3. /\ row.status = job.seen.status \/ row.status = "cleanup_pending"
      /\ job.seen.status \in ActiveRunStates
      /\ job.seen.status \in {"attributed", "starting", "running", "stopping", "removing"} => job.seen.known
      /\ job.seen.known => row.known
      /\ job.seen.status = "reserved" => NoContainer
      /\ lease # "released"
  BY <1>1 DEF RunInv, PlaceHolds
<1>4. /\ row.known \/ box # "absent" => late = NotLate
      /\ box = "absent" /\ row.known => NoContainer
      /\ NoContainer => NoContainerButOverdue
  BY AbsenceFacts
<1>5. {"vanished", "release", "settle", "await", "fail", "identify"} \subseteq Step
  BY DEF Step
<1>6. CASE box = "absent" /\ job.seen.status = "running" /\ Go("vanished")
  BY <1>1, <1>2, <1>3, <1>4, <1>5, <1>6, MoveKeeps
<1>7. CASE box = "absent" /\ job.seen.status # "running" /\ job.seen.known /\ Go("release")
  BY <1>1, <1>2, <1>3, <1>4, <1>5, <1>7, MoveKeeps
<1>8. CASE box = "absent" /\ job.seen.status # "running" /\ Go("settle")
  BY <1>1, <1>2, <1>3, <1>4, <1>5, <1>8, MoveKeeps
<1>9. CASE box = "absent" /\ Go("await")
  BY <1>1, <1>2, <1>3, <1>4, <1>5, <1>9, MoveKeeps
<1>10. CASE /\ box = "absent" /\ ~job.seen.known /\ Go("fail")
            /\ job.seen.status \in {"reserved", "attributed", "starting"}
  <2>1. NoContainer
    BY <1>3, <1>10
  <2> QED
    BY <1>1, <1>2, <1>3, <1>4, <1>5, <1>10, <2>1, MoveKeeps
<1>11. CASE box # "absent" /\ job' = [job EXCEPT !.at = "identify"]
  <2>1. /\ job' \in JobType /\ job'.at = "identify" /\ job'.kind = job.kind
        /\ job'.seen = job.seen
    BY <1>5, <1>11 DEF RunInv, Typed, JobType
  <2>2. KindHolds' /\ RenewingHolds'
    BY <1>1, <1>2, <2>1, ConstantFacts DEF RunInv, KindHolds, RenewingHolds, Still
  <2>3. PlaceHolds'
    BY <1>1, <1>2, <1>3, <1>4, <1>11, <2>1 DEF RunInv, PlaceHolds, Still, Active
  <2> QED
    BY <1>1, <2>1, <2>2, <2>3, StillKeeps
<1> QED
  BY <1>3, <1>6, <1>7, <1>8, <1>9, <1>10, <1>11 DEF Look

\* A container that is known is inspected.
LEMMA InspectKeeps ==
    ASSUME RunInv, Inspect
    PROVE  RunInv'
<1>1. job.at = "inspect" /\ Still /\ faults' \in 0..MaxFaults
  BY DEF Inspect, Still, durable, docker, world, RunInv, Typed
<1>2. Active /\ row.status # "none" /\ row.known /\ job.kind \in {"retry", "reap", "startup"}
  BY <1>1, RowAt, KindAt DEF RunInv, PlaceHolds
<1>3. {"intent", "publish", "exited", "starting"} \subseteq Step
  BY DEF Step
<1>4. CASE Raise
  BY <1>1, <1>4, RaiseKeeps
<1>5. CASE Go("intent") \/ Go("exited") \/ Go("starting")
  BY <1>1, <1>2, <1>3, <1>5, MoveKeeps, ReleasedFacts
<1>6. CASE Mounted /\ sound /\ box = "running" /\ Go("publish")
  <2>1. job' \in JobType /\ job'.at = "publish" /\ job'.kind = job.kind
    BY <1>3, <1>6, GoFacts DEF RunInv, Typed
  <2>2. secret = Sealed(row.expiry)
    BY <1>6 DEF RunInv, Typed, Mounted, Sealed
  <2>3. ops["start"] # "failed" \/ row.cleanup
    BY <1>2, <1>6 DEF RunInv, StartHolds, Dead, Active
  <2>4. KindHolds' /\ RenewingHolds'
    BY <1>1, <1>2, <2>1, ConstantFacts DEF RunInv, KindHolds, RenewingHolds, Still
  <2>5. PlaceHolds'
    BY <1>1, <1>2, <2>1, <2>2, <2>3 DEF RunInv, PlaceHolds, Still, Active, Sealed
  <2> QED
    BY <1>1, <2>1, <2>4, <2>5, StillKeeps
<1>7. sound \in BOOLEAN /\ box \in {"absent", "created", "running", "exited"}
  BY DEF RunInv, Typed
<1> QED
  BY <1>4, <1>5, <1>6, <1>7 DEF Inspect

-----------------------------------------------------------------------------
(* Steps that change the row, the operations or what stands behind them.   *)

\* A step to a place that belongs to the job.
LEMMA GoKind ==
    ASSUME RunInv, UNCHANGED broker, NEW p \in Step, Go(p), job.at \notin {"idle", "preflight"},
           p \notin {"idle", "preflight"},
           job.kind = "start" => p \in StartAt,
           job.kind = "renew" => p \in RenewAt,
           job.kind = "finish" => p \in FinishAt,
           job.kind \in {"retry", "reap", "startup"} => p \in RecoverAt
    PROVE  /\ job' \in JobType /\ job'.at = p /\ job'.kind = job.kind /\ job'.op = job.op
           /\ KindHolds'
<1>1. job' \in JobType /\ job'.at = p /\ job'.kind = job.kind /\ job'.op = job.op
  BY GoFacts DEF RunInv, Typed
<1> QED
  BY <1>1, KindAt DEF RunInv, KindHolds

\* The end of a job in a broker that stays.
LEMMA DoneKind ==
    ASSUME Done
    PROVE  /\ job' = Idle /\ job' \in JobType /\ job'.at = "idle" /\ job'.kind = "idle"
           /\ KindHolds'
BY DoneFacts DEF KindHolds

\* A row whose status changes keeps its other columns.
LEMMA StatusFacts ==
    ASSUME row \in RowType, NEW s \in Statuses, row' = [row EXCEPT !.status = s]
    PROVE  /\ row' \in RowType /\ row'.status = s
           /\ row'.cleanup = row.cleanup /\ row'.known = row.known /\ row'.lease = row.lease
           /\ row'.expiry = row.expiry /\ row'.renewal = row.renewal
           /\ row'.absences = row.absences /\ row'.elapsed = row.elapsed
BY DEF RowType

\* A cleanup that is journaled changes the status and the intent.
LEMMA IntentFacts ==
    ASSUME row \in RowType, row' = [row EXCEPT !.cleanup = TRUE, !.status = "cleanup_pending"]
    PROVE  /\ row' \in RowType /\ row'.status = "cleanup_pending" /\ row'.cleanup
           /\ row'.known = row.known /\ row'.lease = row.lease
           /\ row'.expiry = row.expiry /\ row'.renewal = row.renewal
           /\ row'.absences = row.absences /\ row'.elapsed = row.elapsed
BY DEF RowType

\* An operation that is still running is answered as failed.
LEMMA FailRunningFacts ==
    ASSUME ops \in [Op -> {"none", "running", "succeeded", "failed"}], NEW o \in Op,
           ops' = FailRunning(o)
    PROVE  /\ ops' \in [Op -> {"none", "running", "succeeded", "failed"}]
           /\ \A q \in Op : q # o => ops'[q] = ops[q]
           /\ ops[o] = "running" => ops'[o] = "failed"
           /\ ops[o] # "running" => ops'[o] = ops[o]
BY DEF FailRunning

\* An operation is reserved.
LEMMA BeginKeeps ==
    ASSUME RunInv, BeginStart \/ BeginRenew \/ BeginFinish
    PROVE  RunInv'
<1> USE DEF Op
<1>1. PICK o \in Op, first \in {"prepare", "journal", "request"} :
         /\ Begin(o, first)
         /\ o = "start" <=> first = "prepare"
         /\ o = "renew" <=> first = "journal"
  BY DEF BeginStart, BeginRenew, BeginFinish
<1>2. /\ broker = "open" /\ job = Idle /\ ops[o] = "none"
      /\ o # "start" => row.status # "none"
      /\ UNCHANGED <<row, lease, secret, box, sound, late, overdue, broker, permitted, clock, faults>>
      /\ ops' = [ops EXCEPT ![o] = "running"]
      /\ job' = [Idle EXCEPT !.kind = o, !.op = o, !.at = first]
  BY <1>1 DEF Begin, Free, docker, world
<1>3. /\ ops \in [Op -> {"none", "running", "succeeded", "failed"}] /\ job.at = "idle"
      /\ job' \in JobType /\ job'.at = first /\ job'.kind = o /\ job'.op = o
  BY <1>2, ConstantFacts DEF RunInv, Typed, JobType, Step
<1>4. /\ ops' \in [Op -> {"none", "running", "succeeded", "failed"}]
      /\ ops'[o] = "running" /\ \A q \in Op : q # o => ops'[q] = ops[q]
  BY <1>2, <1>3
<1>5. o # "start" => ops["start"] # "none"
  BY <1>2 DEF RunInv, NoneHolds
<1>6. Typed'
  BY <1>2, <1>3, <1>4 DEF RunInv, Typed
<1>7. KindHolds'
  BY <1>1, <1>2, <1>3 DEF KindHolds
<1>8. RowHolds' /\ NoneHolds'
  BY <1>2, <1>4, <1>5 DEF RunInv, RowHolds, NoneHolds, NoContainer
<1>9. RenewalHolds'
  BY <1>2, <1>4 DEF RunInv, RenewalHolds
<1>10. StartHolds'
  BY <1>2, <1>4 DEF RunInv, StartHolds, Dead
<1>11. MaterialHolds'
  BY <1>2, <1>3 DEF RunInv, MaterialHolds
<1>12. PlaceHolds'
  BY <1>1, <1>2, <1>3, <1>4, <1>5, ConstantFacts DEF RunInv, NoneHolds, PlaceHolds, NoContainer
<1>13. RenewingHolds'
  BY <1>1, <1>2, <1>3, <1>4 DEF RunInv, RenewalHolds, RenewingHolds
<1> QED
  BY <1>6, <1>7, <1>8, <1>9, <1>10, <1>11, <1>12, <1>13 DEF RunInv

\* The run is left for recovery.
LEMMA AttentionKeeps ==
    ASSUME RunInv, Attention
    PROVE  RunInv'
<1>1. /\ job.at \in {"attention", "distrust"}
      /\ row' = IF Active THEN [row EXCEPT !.status = "needs_attention"] ELSE row
      /\ UNCHANGED <<ops, lease, secret, box, sound, late, overdue, broker, permitted, clock, faults>>
  BY DEF Attention, docker, world
<1>2. /\ job' \in JobType /\ KindHolds'
      /\ \/ job'.at = "idle" /\ job' = Idle
         \/ job'.at = "reject" /\ job'.kind = "renew" /\ row.renewal = NoRenewal
  <2>1. CASE job.at = "attention" /\ Done
    BY <2>1, DoneKind
  <2>2. CASE job.at = "distrust" /\ Go("reject")
    <3>1. "reject" \in Step /\ job.kind = "renew" /\ row.renewal = NoRenewal
      BY <2>2, KindAt DEF Step, RunInv, RenewingHolds
    <3> QED
      BY <1>1, <2>2, <3>1, GoKind
  <2> QED
    BY <1>1, <2>1, <2>2 DEF Attention
<1>3. row \in RowType /\ ops["start"] # "none"
  BY <1>1 DEF RunInv, Typed, PlaceHolds
<1>4. /\ row' \in RowType
      /\ row'.status = row.status \/ row'.status = "needs_attention"
      /\ row.status \in ActiveRunStates <=> row'.status = "needs_attention"
      /\ row'.cleanup = row.cleanup /\ row'.known = row.known /\ row'.lease = row.lease
      /\ row'.expiry = row.expiry /\ row'.renewal = row.renewal
      /\ row'.absences = row.absences /\ row'.elapsed = row.elapsed
      /\ row'.status # "needs_attention" => row' = row
  <2>1. CASE Active
    BY <1>1, <1>3, <2>1, StatusFacts DEF Active
  <2>2. CASE ~Active
    BY <1>1, <1>3, <2>2 DEF Active
  <2> QED
    BY <2>1, <2>2
<1>5. Typed'
  BY <1>1, <1>2, <1>4 DEF RunInv, Typed
<1>6. RowHolds'
  BY <1>1, <1>4 DEF RunInv, RowHolds, NoContainer
<1>7. NoneHolds' /\ RenewalHolds'
  BY <1>1, <1>4 DEF RunInv, NoneHolds, RenewalHolds, NoContainer
<1>8. StartHolds' /\ MaterialHolds'
  BY <1>1, <1>4 DEF RunInv, StartHolds, Dead, MaterialHolds
<1>9. PlaceHolds' /\ RenewingHolds'
  BY <1>1, <1>2, <1>3, <1>4 DEF PlaceHolds, RenewingHolds
<1> QED
  BY <1>2, <1>5, <1>6, <1>7, <1>8, <1>9 DEF RunInv

\* An operation is refused.
LEMMA RejectKeeps ==
    ASSUME RunInv, Reject
    PROVE  RunInv'
<1> USE DEF Op
<1>1. /\ job.at = "reject" /\ Done /\ ops' = FailRunning(job.op)
      /\ UNCHANGED <<row, lease, secret, box, sound, late, overdue, broker, permitted, clock, faults>>
  BY DEF Reject, docker, world
<1>2. /\ ops \in [Op -> {"none", "running", "succeeded", "failed"}]
      /\ job.op \in Op
      /\ job.op = "start" => Dead
  <2>1. job.kind \in {"start", "renew", "finish"}
    BY <1>1, KindAt DEF RunInv, Typed, JobType, KindHolds
  <2>2. job.op = job.kind /\ (job.kind = "start" => Dead)
    BY <1>1, <2>1 DEF RunInv, KindHolds, PlaceHolds
  <2> QED
    BY <2>1, <2>2 DEF RunInv, Typed
<1>3. /\ ops' \in [Op -> {"none", "running", "succeeded", "failed"}]
      /\ \A q \in Op : ops'[q] = "none" <=> ops[q] = "none"
      /\ \A q \in Op : ops[q] # "running" => ops'[q] = ops[q]
      /\ ops'["start"] = "failed" => Dead
  BY <1>1, <1>2, FailRunningFacts DEF RunInv, StartHolds
<1>4. /\ job' = Idle /\ job' \in JobType /\ job'.at = "idle" /\ job'.kind = "idle"
      /\ KindHolds'
  BY <1>1, DoneKind
<1>5. Typed'
  BY <1>1, <1>3, <1>4 DEF RunInv, Typed
<1>6. RowHolds' /\ NoneHolds' /\ RenewalHolds'
  BY <1>1, <1>3 DEF RunInv, RowHolds, NoneHolds, RenewalHolds, NoContainer
<1>7. StartHolds' /\ MaterialHolds'
  BY <1>1, <1>3 DEF RunInv, StartHolds, Dead, MaterialHolds
<1>8. PlaceHolds' /\ RenewingHolds'
  BY <1>4 DEF PlaceHolds, RenewingHolds
<1> QED
  BY <1>4, <1>5, <1>6, <1>7, <1>8 DEF RunInv

\* A run that never had a container ends.
LEMMA FailBeforeCreateKeeps ==
    ASSUME RunInv, FailBeforeCreate, NoContainerButOverdue, row.status # "none",
           job'.at = "reject" => NoContainer,
           UNCHANGED <<box, sound, late, overdue, broker, permitted, clock, faults>>,
           job' \in JobType, KindHolds',
           job'.at = "idle" \/ (job'.at = "reject" /\ job'.kind = "start")
    PROVE  RunInv'
<1> USE DEF Op
<1>1. /\ row' = [row EXCEPT !.status = "failed"] /\ lease' = ReleasedLease
      /\ secret' = NoSecret /\ ops' = FailRunning("start")
      /\ row \in RowType /\ ops \in [Op -> {"none", "running", "succeeded", "failed"}]
  BY DEF FailBeforeCreate, RunInv, Typed
<1>2. /\ row' \in RowType /\ row'.status = "failed"
      /\ row'.cleanup = row.cleanup /\ row'.known = row.known /\ row'.lease = row.lease
      /\ row'.expiry = row.expiry /\ row'.renewal = row.renewal
      /\ row'.absences = row.absences /\ row'.elapsed = row.elapsed
  BY <1>1, StatusFacts
<1>3. /\ ops' \in [Op -> {"none", "running", "succeeded", "failed"}]
      /\ \A q \in Op : ops'[q] = "none" <=> ops[q] = "none"
      /\ \A q \in Op : ops[q] # "running" => ops'[q] = ops[q]
      /\ ops["start"] # "none"
  BY <1>1, FailRunningFacts DEF RunInv, NoneHolds
<1>4. /\ lease' \in {"none", "active", "released", "lost"}
      /\ row'.lease => lease' # "active"
  BY <1>1, <1>2 DEF ReleasedLease, RunInv, Typed
<1>5. Typed'
  BY <1>1, <1>2, <1>3, <1>4, ConstantFacts DEF RunInv, Typed
<1>6. RowHolds'
  BY <1>1, <1>2, <1>4, ConstantFacts DEF RunInv, RowHolds, NoContainer
<1>7. NoneHolds' /\ RenewalHolds'
  BY <1>2, <1>3 DEF RunInv, NoneHolds, RenewalHolds
<1>8. StartHolds' /\ MaterialHolds'
  BY <1>2, <1>3 DEF RunInv, StartHolds, Dead, MaterialHolds
<1>9. PlaceHolds' /\ RenewingHolds'
  BY <1>2, <1>3 DEF PlaceHolds, RenewingHolds, Dead
<1> QED
  BY <1>5, <1>6, <1>7, <1>8, <1>9 DEF RunInv

\* A start that has not invoked Docker ends its run.
LEMMA TerminalizeKeeps ==
    ASSUME RunInv, Terminalize
    PROVE  RunInv'
<1>1. /\ job.at = "terminalize" /\ Go("reject")
      /\ UNCHANGED <<box, sound, late, overdue, broker, permitted, clock, faults>>
  BY DEF Terminalize, docker, world
<1>2. job.kind = "start" /\ "reject" \in Step
  BY <1>1, KindAt DEF Step
<1>3. /\ job' \in JobType /\ job'.at = "reject" /\ job'.kind = "start" /\ KindHolds'
  BY <1>1, <1>2, GoKind
<1>4. NoContainer /\ row.status # "running" /\ ops["start"] # "none"
  BY <1>1 DEF RunInv, PlaceHolds
<1>5. CASE row.status = "reserved" /\ FailBeforeCreate
  BY <1>1, <1>3, <1>4, <1>5, FailBeforeCreateKeeps, ReleasedFacts
<1>6. CASE UNCHANGED <<durable, secret>>
  <2>1. Still /\ faults' \in 0..MaxFaults
    BY <1>1, <1>6 DEF Still, durable, RunInv, Typed
  <2>2. PlaceHolds' /\ RenewingHolds'
    BY <1>3, <1>4, <2>1 DEF PlaceHolds, RenewingHolds, Dead, NoContainer, Still
  <2> QED
    BY <1>1, <1>3, <2>1, <2>2, StillKeeps
<1> QED
  BY <1>5, <1>6 DEF Terminalize

\* A start without a port, and a recovery that found nothing, end the run.
LEMMA FailKeeps ==
    ASSUME RunInv, Fail
    PROVE  RunInv'
<1>1. job.at = "fail" /\ UNCHANGED <<box, sound, late, overdue, broker, permitted, clock, faults>>
  BY DEF Fail, docker, world
<1>2. /\ Active /\ row.status # "none" /\ NoContainerButOverdue
      /\ job.kind = "start" => NoContainer /\ ~row.known
  BY <1>1, RowAt DEF RunInv, PlaceHolds
<1>3. CASE row.known
  <2>1. Raise /\ UNCHANGED <<durable, secret>>
    BY <1>2, <1>3 DEF Fail
  <2>2. Still /\ faults' \in 0..MaxFaults
    BY <1>1, <2>1 DEF Still, durable, RunInv, Typed
  <2> QED
    BY <1>1, <2>1, <2>2, RaiseKeeps
<1>4. CASE ~row.known
  <2>1. /\ FailBeforeCreate
        /\ (job.kind = "start" /\ Go("reject")) \/ Done
    BY <1>2, <1>4 DEF Fail
  <2>2. /\ job' \in JobType /\ KindHolds'
        /\ job'.at = "idle" \/ (job'.at = "reject" /\ job'.kind = "start" /\ NoContainer)
    <3>1. CASE job.kind = "start" /\ Go("reject")
      <4>1. "reject" \in Step
        BY DEF Step
      <4> QED
        BY <1>1, <1>2, <3>1, <4>1, GoKind
    <3>2. CASE Done
      BY <1>1, <3>2, DoneKind
    <3> QED
      BY <2>1, <3>1, <3>2
  <2> QED
    BY <1>1, <1>2, <2>1, <2>2, FailBeforeCreateKeeps
<1> QED
  BY <1>2, <1>3, <1>4

-----------------------------------------------------------------------------
(* start                                                                   *)

\* A step that raised before it changed anything.
LEMMA RaisedKeeps ==
    ASSUME RunInv, Raise, job.at \notin {"idle", "preflight"},
           UNCHANGED <<row, ops, lease, secret, box, sound, late, overdue, broker, permitted, clock, faults>>
    PROVE  RunInv'
<1>1. Still /\ faults' \in 0..MaxFaults
  BY DEF Still, RunInv, Typed
<1> QED
  BY <1>1, RaiseKeeps

\* The row is reserved for a lifetime that begins now.
LEMMA PrepareKeeps ==
    ASSUME RunInv, Prepare
    PROVE  RunInv'
<1>1. /\ job.at = "prepare"
      /\ UNCHANGED <<ops, lease, secret, box, sound, late, overdue, broker, permitted, clock, faults>>
  BY DEF Prepare, docker, world
<1>2. CASE Raise /\ UNCHANGED row
  BY <1>1, <1>2, RaisedKeeps
<1>3. ASSUME NEW t \in Ttl, Go("provision"),
             row' = [NoRow EXCEPT !.status = "reserved", !.expiry = clock + t]
      PROVE  RunInv'
  <2>1. /\ NoContainer /\ lease = "none" /\ ~secret.held /\ clock = 0
        /\ job.kind = "start" /\ ops["start"] = "running"
    BY <1>1, KindAt DEF RunInv, PlaceHolds, NoneHolds
  <2>2. /\ row' \in RowType /\ row'.status = "reserved" /\ row'.expiry <= Longest
        /\ row'.cleanup = FALSE /\ row'.known = FALSE /\ row'.lease = FALSE
        /\ row'.renewal = NoRenewal /\ row'.absences = 0 /\ row'.elapsed = 0
    <3>1. t \in Nat /\ t <= Longest /\ clock + t = t /\ t \in Time
      BY <2>1, TimeFacts DEF Time
    <3> QED
      BY <1>3, <3>1, ConstantFacts DEF RowType, NoRow
  <2>3. "provision" \in Step
    BY DEF Step
  <2>4. job' \in JobType /\ job'.at = "provision" /\ job'.kind = "start" /\ KindHolds'
    BY <1>1, <1>3, <2>1, <2>3, GoKind
  <2>5. Typed'
    BY <1>1, <2>2, <2>4 DEF RunInv, Typed
  <2>6. RowHolds' /\ NoneHolds'
    BY <1>1, <2>1, <2>2 DEF RowHolds, NoneHolds, NoContainer
  <2>7. RenewalHolds' /\ StartHolds' /\ MaterialHolds'
    BY <1>1, <2>1, <2>2 DEF RenewalHolds, StartHolds, MaterialHolds
  <2>8. PlaceHolds' /\ RenewingHolds'
    BY <1>1, <2>1, <2>2, <2>4 DEF PlaceHolds, RenewingHolds, NoContainer, Active
  <2> QED
    BY <2>4, <2>5, <2>6, <2>7, <2>8 DEF RunInv
<1> QED
  BY <1>2, <1>3 DEF Prepare

\* What a start knows before Docker is asked for a container.
LEMMA EarlyFacts ==
    ASSUME RunInv, job.at \in {"provision", "bind", "creating", "create"}
    PROVE  /\ job.kind = "start" /\ ops["start"] = "running" /\ Active /\ NoContainer
           /\ ~row.known /\ lease # "released" /\ row.absences = 0 /\ row.status # "running"
           /\ row \in RowType
<1>1. job.kind = "start" /\ Active
  BY KindAt, RowAt
<1> QED
  BY <1>1 DEF RunInv, PlaceHolds, Typed

\* The credential file is written.
LEMMA ProvisionKeeps ==
    ASSUME RunInv, Provision
    PROVE  RunInv'
<1>1. /\ job.at = "provision"
      /\ UNCHANGED <<row, ops, lease, box, sound, late, overdue, broker, permitted, clock, faults>>
  BY DEF Provision, durable, docker, world
<1>2. CASE Raise /\ UNCHANGED secret
  BY <1>1, <1>2, RaisedKeeps
<1>3. CASE secret' = [held |-> TRUE, expiry |-> row.expiry, next |-> 0] /\ Go("bind")
  <2>1. /\ job.kind = "start" /\ ops["start"] = "running" /\ Active /\ NoContainer
        /\ ~row.known /\ lease # "released" /\ row.absences = 0 /\ row.status # "running"
        /\ row \in RowType
    BY <1>1, EarlyFacts
  <2>2. secret' \in [held : BOOLEAN, expiry : Time, next : Time] /\ "bind" \in Step
    BY <1>3, <2>1, TimeFacts DEF RowType, Step
  <2>3. job' \in JobType /\ job'.at = "bind" /\ job'.kind = "start" /\ KindHolds'
    BY <1>1, <1>3, <2>1, <2>2, GoKind
  <2>4. Typed'
    BY <1>1, <2>2, <2>3 DEF RunInv, Typed
  <2>5. RowHolds' /\ NoneHolds'
    BY <1>1, <2>1 DEF RunInv, RowHolds, NoneHolds, NoContainer, Active
  <2>6. RenewalHolds' /\ StartHolds' /\ MaterialHolds'
    BY <1>1, <2>1 DEF RunInv, RenewalHolds, StartHolds, MaterialHolds, Dead
  <2>7. PlaceHolds' /\ RenewingHolds'
    BY <1>1, <2>1, <2>3 DEF PlaceHolds, RenewingHolds, NoContainer, Active
  <2> QED
    BY <2>3, <2>4, <2>5, <2>6, <2>7 DEF RunInv
<1> QED
  BY <1>2, <1>3 DEF Provision

\* The port is leased, and the row names the lease while it is reserved.
LEMMA BindPortKeeps ==
    ASSUME RunInv, BindPort
    PROVE  RunInv'
<1>1. /\ job.at = "bind"
      /\ UNCHANGED <<ops, secret, box, sound, late, overdue, broker, permitted, clock, faults>>
  BY DEF BindPort, docker, world
<1>2. CASE Raise /\ UNCHANGED <<row, lease>>
  BY <1>1, <1>2, RaisedKeeps
<1>3. CASE /\ lease' = "active" /\ row' = [row EXCEPT !.lease = row.status = "reserved"]
           /\ Go("creating")
  <2>1. /\ job.kind = "start" /\ ops["start"] = "running" /\ Active /\ NoContainer
        /\ ~row.known /\ lease # "released" /\ row.absences = 0 /\ row.status # "running"
        /\ row \in RowType
    BY <1>1, EarlyFacts
  <2>2. /\ row' \in RowType /\ row'.status = row.status
        /\ row'.cleanup = row.cleanup /\ row'.known = row.known
        /\ row'.expiry = row.expiry /\ row'.renewal = row.renewal
        /\ row'.absences = row.absences /\ row'.elapsed = row.elapsed
    <3>1. (row.status = "reserved") \in BOOLEAN
      OBVIOUS
    <3> QED
      BY <1>3, <2>1, <3>1 DEF RowType
  <2>3. "creating" \in Step
    BY DEF Step
  <2>4. job' \in JobType /\ job'.at = "creating" /\ job'.kind = "start" /\ KindHolds'
    BY <1>1, <1>3, <2>1, <2>3, GoKind
  <2>5. Typed'
    BY <1>1, <1>3, <2>2, <2>4 DEF RunInv, Typed
  <2>6. RowHolds' /\ NoneHolds'
    BY <1>1, <1>3, <2>1, <2>2 DEF RunInv, RowHolds, NoneHolds, NoContainer, Active
  <2>7. RenewalHolds' /\ StartHolds' /\ MaterialHolds'
    BY <1>1, <2>1, <2>2 DEF RunInv, RenewalHolds, StartHolds, MaterialHolds, Dead
  <2>8. PlaceHolds' /\ RenewingHolds'
    BY <1>1, <1>3, <2>1, <2>2, <2>4 DEF PlaceHolds, RenewingHolds, NoContainer, Active
  <2> QED
    BY <2>4, <2>5, <2>6, <2>7, <2>8 DEF RunInv
<1> QED
  BY <1>2, <1>3 DEF BindPort

\* The intent to create is journaled.
LEMMA CreatingKeeps ==
    ASSUME RunInv, Creating
    PROVE  RunInv'
<1>1. /\ job.at = "creating"
      /\ UNCHANGED <<ops, lease, secret, box, sound, late, overdue, broker, permitted, clock, faults>>
  BY DEF Creating, docker, world
<1>2. CASE Raise /\ UNCHANGED row
  BY <1>1, <1>2, RaisedKeeps
<1>3. CASE row' = [row EXCEPT !.status = "creating"] /\ Go("create")
  <2>1. /\ job.kind = "start" /\ ops["start"] = "running" /\ Active /\ NoContainer
        /\ ~row.known /\ lease # "released" /\ row.absences = 0 /\ row.status # "running"
        /\ row \in RowType
    BY <1>1, EarlyFacts
  <2>2. /\ row' \in RowType /\ row'.status = "creating"
        /\ row'.cleanup = row.cleanup /\ row'.known = row.known /\ row'.lease = row.lease
        /\ row'.expiry = row.expiry /\ row'.renewal = row.renewal
        /\ row'.absences = row.absences /\ row'.elapsed = row.elapsed
    BY <1>3, <2>1, StatusFacts
  <2>3. "create" \in Step
    BY DEF Step
  <2>4. job' \in JobType /\ job'.at = "create" /\ job'.kind = "start" /\ KindHolds'
    BY <1>1, <1>3, <2>1, <2>3, GoKind
  <2>5. Typed'
    BY <1>1, <2>2, <2>4 DEF RunInv, Typed
  <2>6. RowHolds' /\ NoneHolds'
    BY <1>1, <2>1, <2>2 DEF RunInv, RowHolds, NoneHolds, NoContainer, Active
  <2>7. RenewalHolds' /\ StartHolds' /\ MaterialHolds'
    BY <1>1, <2>1, <2>2 DEF RunInv, RenewalHolds, StartHolds, MaterialHolds, Dead
  <2>8. PlaceHolds' /\ RenewingHolds'
    BY <1>1, <2>1, <2>2, <2>4 DEF PlaceHolds, RenewingHolds, NoContainer, Active
  <2> QED
    BY <2>4, <2>5, <2>6, <2>7, <2>8 DEF RunInv
<1> QED
  BY <1>2, <1>3 DEF Creating

\* The container is created; one without the safety profile is never started.
LEMMA CreateKeeps ==
    ASSUME RunInv, Create
    PROVE  RunInv'
<1>1. /\ job.at = "create" /\ box' = "created" /\ sound' \in BOOLEAN
      /\ UNCHANGED <<row, ops, lease, secret, late, overdue, broker, permitted, clock, faults>>
  BY DEF Create, durable, world
<1>2. /\ job.kind = "start" /\ ops["start"] = "running" /\ Active /\ NoContainer
      /\ ~row.known /\ lease # "released" /\ row.absences = 0 /\ row.status # "running"
      /\ row \in RowType
  BY <1>1, EarlyFacts
<1>3. row.status # "reserved"
  BY <1>1 DEF RunInv, PlaceHolds
<1>4. /\ job' \in JobType /\ job'.kind = "start" /\ KindHolds'
      /\ job'.at = "record" \/ (job'.at = "reject" /\ ~sound')
  <2>1. "record" \in Step /\ "reject" \in Step
    BY DEF Step
  <2>2. CASE sound' /\ Go("record")
    BY <1>1, <1>2, <2>1, <2>2, GoKind
  <2>3. CASE ~sound' /\ Go("reject")
    BY <1>1, <1>2, <2>1, <2>3, GoKind
  <2> QED
    BY <2>2, <2>3 DEF Create
<1>5. Typed'
  BY <1>1, <1>4, ConstantFacts DEF RunInv, Typed
<1>6. RowHolds' /\ NoneHolds'
  BY <1>1, <1>2, <1>3 DEF RunInv, RowHolds, NoneHolds, NoContainer, Active
<1>7. RenewalHolds' /\ StartHolds' /\ MaterialHolds'
  BY <1>1, <1>2 DEF RunInv, RenewalHolds, StartHolds, MaterialHolds
<1>8. PlaceHolds' /\ RenewingHolds'
  BY <1>1, <1>2, <1>4 DEF PlaceHolds, RenewingHolds, NoContainer, Active, Dead
<1> QED
  BY <1>4, <1>5, <1>6, <1>7, <1>8 DEF RunInv

\* A create that timed out may still take effect.
LEMMA CreateFailsKeeps ==
    ASSUME RunInv, CreateFails
    PROVE  RunInv'
<1>1. /\ job.at = "create" /\ late' = 0 /\ Raise /\ faults' \in 0..MaxFaults
      /\ UNCHANGED <<row, ops, lease, secret, box, sound, overdue, broker, permitted, clock>>
  BY TimeFacts DEF CreateFails, durable, RunInv, Typed
<1>2. /\ job.kind = "start" /\ ops["start"] = "running" /\ Active /\ NoContainer
      /\ ~row.known /\ lease # "released" /\ row.absences = 0 /\ row.status # "running"
      /\ row \in RowType
  BY <1>1, EarlyFacts
<1>3. row.status # "reserved"
  BY <1>1 DEF RunInv, PlaceHolds
<1>4. /\ job' \in JobType /\ KindHolds'
      /\ job'.at \in {"idle", "attention"}
  BY <1>1, RaiseFacts DEF RunInv, Typed
<1>5. Typed'
  BY <1>1, <1>4, TimeFacts, ConstantFacts DEF RunInv, Typed
<1>6. RowHolds' /\ NoneHolds'
  BY <1>1, <1>2, <1>3 DEF RunInv, RowHolds, NoneHolds, NoContainer, Active
<1>7. RenewalHolds' /\ StartHolds' /\ MaterialHolds'
  BY <1>1, <1>2 DEF RunInv, RenewalHolds, StartHolds, MaterialHolds
<1>8. PlaceHolds' /\ RenewingHolds'
  BY <1>1, <1>2, <1>4 DEF PlaceHolds, RenewingHolds, Active
<1> QED
  BY <1>4, <1>5, <1>6, <1>7, <1>8 DEF RunInv

\* What recording a container identity makes of a run that has not ended.
LEMMA RecordedFacts ==
    ASSUME row \in RowType, Active, RowHolds, row' = RecordedContainer(row)
    PROVE  /\ row' \in RowType /\ Active' /\ row'.known
           /\ row'.cleanup = row.cleanup /\ row'.lease = row.lease
           /\ row'.expiry = row.expiry /\ row'.renewal = row.renewal
           /\ row'.status \in {"cleanup_pending", "attributed", "stopping", "removing"}
           /\ row'.status = "cleanup_pending" => row'.cleanup
           /\ row'.status \in {"stopping", "removing"} => row' = row
           /\ row.cleanup /\ row.status \in CleanupStates => row'.status \in CleanupStates
           /\ row'.absences = 0 => row'.elapsed = 0
           /\ row'.absences = 0 \/ (row'.absences = row.absences /\ row'.elapsed = row.elapsed)
<1>1. CASE row.status \in {"stopping", "removing"}
  <2>1. row' = row
    BY <1>1 DEF RecordedContainer
  <2> QED
    BY <1>1, <2>1 DEF RowHolds, Active
<1>2. CASE row.status \notin {"stopping", "removing"}
  <2>1. /\ row' = [row EXCEPT !.known = TRUE,
                              !.status = IF row.cleanup THEN "cleanup_pending" ELSE "attributed",
                              !.absences = 0, !.elapsed = 0]
    BY <1>2 DEF RecordedContainer, Active
  <2>2. 0 \in 0..2 /\ 0 \in 0..Grace
    BY TimeFacts
  <2>3. CASE row.cleanup
    BY <2>1, <2>2, <2>3 DEF RowType, Active
  <2>4. CASE ~row.cleanup
    BY <2>1, <2>2, <2>4 DEF RowType, Active
  <2> QED
    BY <2>3, <2>4
<1> QED
  BY <1>1, <1>2

\* The identity of the container is journaled.
LEMMA RecordKeeps ==
    ASSUME RunInv, Record
    PROVE  RunInv'
<1>1. /\ job.at = "record"
      /\ UNCHANGED <<ops, lease, secret, box, sound, late, overdue, broker, permitted, clock, faults>>
  BY DEF Record, docker, world
<1>2. CASE Raise /\ UNCHANGED row
  BY <1>1, <1>2, RaisedKeeps
<1>3. CASE /\ row' = RecordedContainer(row)
           /\ Go(IF clock >= row.expiry \/ ~permitted THEN "intent" ELSE "starting")
  <2>1. job.kind = "start" /\ Active /\ row.status # "none"
    BY <1>1, KindAt, RowAt
  <2>2. row \in RowType /\ RowHolds /\ ops["start"] = "running" /\ late = NotLate
    BY <1>1, <2>1 DEF RunInv, Typed, PlaceHolds
  <2>3. /\ row' \in RowType /\ Active' /\ row'.known
        /\ row'.cleanup = row.cleanup /\ row'.lease = row.lease
        /\ row'.expiry = row.expiry /\ row'.renewal = row.renewal
        /\ row'.status \in {"cleanup_pending", "attributed", "stopping", "removing"}
        /\ row'.status = "cleanup_pending" => row'.cleanup
        /\ row'.absences = 0 => row'.elapsed = 0
    BY <1>3, <2>1, <2>2, RecordedFacts
  <2>4. {"intent", "starting"} \subseteq Step
    BY DEF Step
  <2>5. PICK p \in {"intent", "starting"} : Go(p)
    BY <1>3
  <2>6. job' \in JobType /\ job'.at = p /\ job'.kind = "start" /\ KindHolds'
    BY <1>1, <2>1, <2>4, <2>5, GoKind
  <2>7. Typed'
    BY <1>1, <2>3, <2>6 DEF RunInv, Typed
  <2>8. RowHolds' /\ NoneHolds'
    BY <1>1, <2>1, <2>2, <2>3 DEF RowHolds, NoneHolds, NoContainer, Active
  <2>9. RenewalHolds' /\ StartHolds' /\ MaterialHolds'
    BY <1>1, <2>2, <2>3 DEF RunInv, RenewalHolds, StartHolds, MaterialHolds
  <2>10. PlaceHolds' /\ RenewingHolds'
    BY <1>1, <2>2, <2>3, <2>6, ReleasedFacts DEF PlaceHolds, RenewingHolds
  <2> QED
    BY <2>6, <2>7, <2>8, <2>9, <2>10 DEF RunInv
<1> QED
  BY <1>2, <1>3 DEF Record

\* The intent to start the container is journaled.
LEMMA StartingKeeps ==
    ASSUME RunInv, Starting
    PROVE  RunInv'
<1>1. /\ job.at = "starting"
      /\ UNCHANGED <<ops, lease, secret, box, sound, late, overdue, broker, permitted, clock, faults>>
  BY DEF Starting, docker, world
<1>2. CASE Raise /\ UNCHANGED row
  BY <1>1, <1>2, RaisedKeeps
<1>3. CASE row' = [row EXCEPT !.status = "starting"] /\ Go("run")
  <2>1. Active /\ row.status # "none"
    BY <1>1, RowAt
  <2>2. /\ row \in RowType /\ row.known /\ ops["start"] # "none"
        /\ job.kind = "start" => ops["start"] = "running"
    BY <1>1 DEF RunInv, Typed, PlaceHolds
  <2>3. /\ row' \in RowType /\ row'.status = "starting"
        /\ row'.cleanup = row.cleanup /\ row'.known = row.known /\ row'.lease = row.lease
        /\ row'.expiry = row.expiry /\ row'.renewal = row.renewal
        /\ row'.absences = row.absences /\ row'.elapsed = row.elapsed
    BY <1>3, <2>2, StatusFacts
  <2>4. "run" \in Step
    BY DEF Step
  <2>5. job' \in JobType /\ job'.at = "run" /\ job'.kind = job.kind /\ KindHolds'
    BY <1>1, <1>3, <2>4, GoKind DEF RunInv, KindHolds
  <2>6. Typed'
    BY <1>1, <2>3, <2>5 DEF RunInv, Typed
  <2>7. RowHolds' /\ NoneHolds'
    BY <1>1, <2>1, <2>2, <2>3 DEF RunInv, RowHolds, NoneHolds, NoContainer, Active
  <2>8. RenewalHolds' /\ MaterialHolds'
    BY <1>1, <2>3 DEF RunInv, RenewalHolds, MaterialHolds
  <2>9. StartHolds'
    BY <1>1, <2>1, <2>2, <2>3 DEF RunInv, StartHolds, Dead, Active
  <2>10. PlaceHolds' /\ RenewingHolds'
    BY <1>1, <2>2, <2>3, <2>5, ReleasedFacts DEF PlaceHolds, RenewingHolds, Active
  <2> QED
    BY <2>5, <2>6, <2>7, <2>8, <2>9, <2>10 DEF RunInv
<1> QED
  BY <1>2, <1>3 DEF Starting

\* The container is started, whether its command reports so or not.
LEMMA StartedKeeps ==
    ASSUME RunInv, job.at = "run", Mounted, sound, box # "absent", box' = "running",
           UNCHANGED <<row, ops, lease, secret, sound, late, overdue, broker, permitted, clock>>,
           faults' \in 0..MaxFaults, job' \in JobType, KindHolds',
           job'.at \in {"idle", "attention", "publish"}, job'.at = "publish" => job'.kind = job.kind
    PROVE  RunInv'
<1>1. Active /\ row.status # "none"
  BY RowAt
<1>2. /\ row \in RowType /\ row.known /\ ops["start"] # "none" /\ late = NotLate
      /\ lease # "released" /\ row.status # "reserved"
      /\ job.kind = "start" => ops["start"] = "running"
      /\ ops["start"] # "failed" \/ row.cleanup
  BY <1>1 DEF RunInv, Typed, PlaceHolds, RowHolds, NoContainer, StartHolds, Dead, Active
<1>3. secret = Sealed(row.expiry)
  BY DEF RunInv, Typed, Mounted, Sealed
<1>4. Typed'
  BY DEF RunInv, Typed
<1>5. RowHolds' /\ NoneHolds'
  BY <1>1, <1>2 DEF RunInv, RowHolds, NoneHolds, NoContainer, Active
<1>6. RenewalHolds' /\ MaterialHolds'
  BY DEF RunInv, RenewalHolds, MaterialHolds
<1>7. StartHolds'
  BY <1>2 DEF RunInv, StartHolds, Dead
<1>8. PlaceHolds' /\ RenewingHolds'
  BY <1>1, <1>2, <1>3 DEF PlaceHolds, RenewingHolds, Active, Sealed
<1> QED
  BY <1>4, <1>5, <1>6, <1>7, <1>8 DEF RunInv

\* docker_start_ephemeral.
LEMMA RunKeeps ==
    ASSUME RunInv, Run
    PROVE  RunInv'
<1>1. /\ job.at = "run"
      /\ UNCHANGED <<row, ops, lease, secret, sound, late, overdue, broker, permitted, clock, faults>>
  BY DEF Run, durable, world
<1>2. Active /\ row.status # "none" /\ {"intent", "reject", "publish"} \subseteq Step
  BY <1>1, RowAt DEF Step
<1>3. CASE Raise /\ UNCHANGED box
  BY <1>1, <1>3, RaisedKeeps
<1>4. CASE Go("intent") /\ UNCHANGED box /\ job.kind # "start"
  <2>1. Still /\ faults' \in 0..MaxFaults
    BY <1>1, <1>4 DEF Still, RunInv, Typed
  <2> QED
    BY <1>1, <1>2, <1>4, <2>1, MoveKeeps DEF RunInv, KindHolds
<1>5. CASE Go("reject") /\ UNCHANGED box /\ job.kind = "start" /\ ~sound
  <2>1. Still /\ faults' \in 0..MaxFaults
    BY <1>1, <1>5 DEF Still, RunInv, Typed
  <2>2. job' \in JobType /\ job'.at = "reject" /\ job'.kind = job.kind /\ KindHolds'
    BY <1>1, <1>2, <1>5, GoKind
  <2>3. row.known /\ late = NotLate /\ row.status # "running" /\ ops["start"] # "none"
    BY <1>1, <1>5 DEF RunInv, PlaceHolds, RowHolds, StartHolds
  <2>4. PlaceHolds' /\ RenewingHolds'
    BY <1>1, <1>2, <1>5, <2>1, <2>2, <2>3 DEF PlaceHolds, RenewingHolds, Dead, Still
  <2> QED
    BY <1>1, <2>1, <2>2, <2>4, StillKeeps
<1>6. CASE Mounted /\ sound /\ box # "absent" /\ box' = "running" /\ Go("publish")
  <2>1. job' \in JobType /\ job'.at = "publish" /\ job'.kind = job.kind /\ KindHolds'
    BY <1>1, <1>2, <1>6, GoKind DEF RunInv, KindHolds
  <2>2. faults' \in 0..MaxFaults
    BY <1>1 DEF RunInv, Typed
  <2> QED
    BY <1>1, <1>6, <2>1, <2>2, StartedKeeps
<1> QED
  BY <1>3, <1>4, <1>5, <1>6 DEF Run

\* The container runs although the command that started it failed.
LEMMA RunFailsKeeps ==
    ASSUME RunInv, RunFails
    PROVE  RunInv'
<1>1. /\ job.at = "run" /\ Mounted /\ sound /\ box # "absent" /\ box' = "running" /\ Raise
      /\ UNCHANGED <<row, ops, lease, secret, sound, late, overdue, broker, permitted, clock>>
      /\ faults' \in 0..MaxFaults
  BY TimeFacts DEF RunFails, durable, RunInv, Typed
<1>2. job' \in JobType /\ KindHolds' /\ job'.at \in {"idle", "attention"}
  BY <1>1, RaiseFacts DEF RunInv, Typed
<1> QED
  BY <1>1, <1>2, StartedKeeps

\* The run is published as running.
LEMMA CompleteRunningKeeps ==
    ASSUME RunInv, CompleteRunning
    PROVE  RunInv'
<1> USE DEF Op
<1>1. /\ job.at = "publish"
      /\ UNCHANGED <<lease, secret, box, sound, late, overdue, broker, permitted, clock, faults>>
  BY DEF CompleteRunning, docker, world
<1>2. CASE Raise /\ UNCHANGED <<row, ops>>
  BY <1>1, <1>2, RaisedKeeps
<1>3. CASE /\ ~row.cleanup
           /\ row' = [row EXCEPT !.status = "running"]
           /\ ops' = [ops EXCEPT !["start"] = IF @ = "running" THEN "succeeded" ELSE @]
           /\ Done
  <2>1. Active /\ row.status # "none"
    BY <1>1, RowAt
  <2>2. /\ row \in RowType /\ ops \in [Op -> {"none", "running", "succeeded", "failed"}]
        /\ row.known /\ ops["start"] # "none" /\ ops["start"] # "failed"
        /\ secret = Sealed(row.expiry)
    BY <1>1, <1>3 DEF RunInv, Typed, PlaceHolds
  <2>3. /\ row' \in RowType /\ row'.status = "running"
        /\ row'.cleanup = row.cleanup /\ row'.known = row.known /\ row'.lease = row.lease
        /\ row'.expiry = row.expiry /\ row'.renewal = row.renewal
        /\ row'.absences = row.absences /\ row'.elapsed = row.elapsed
    BY <1>3, <2>2, StatusFacts
  <2>4. /\ ops' \in [Op -> {"none", "running", "succeeded", "failed"}]
        /\ ops'["start"] = "succeeded" /\ ops'["renew"] = ops["renew"]
    BY <1>3, <2>2
  <2>5. job' \in JobType /\ job'.at = "idle" /\ KindHolds'
    BY <1>3, DoneKind
  <2>6. Typed'
    BY <1>1, <2>3, <2>4, <2>5 DEF RunInv, Typed
  <2>7. RowHolds' /\ NoneHolds'
    BY <1>1, <2>1, <2>2, <2>3, <2>4, ReleasedFacts DEF RunInv, RowHolds, NoneHolds, NoContainer, Active
  <2>8. RenewalHolds' /\ StartHolds'
    BY <2>2, <2>3, <2>4 DEF RunInv, RenewalHolds, StartHolds
  <2>9. MaterialHolds'
    BY <1>1, <2>2, <2>3 DEF MaterialHolds, Sealed
  <2>10. PlaceHolds' /\ RenewingHolds'
    BY <2>3, <2>4, <2>5 DEF PlaceHolds, RenewingHolds
  <2> QED
    BY <2>5, <2>6, <2>7, <2>8, <2>9, <2>10 DEF RunInv
<1> QED
  BY <1>2, <1>3 DEF CompleteRunning

\* The steps of a start.
LEMMA StartStepKeeps ==
    ASSUME RunInv, StartStep
    PROVE  RunInv'
BY PrepareKeeps, ProvisionKeeps, PortUnavailableKeeps, BindPortKeeps, CreatingKeeps,
   CreateKeeps, CreateFailsKeeps, RecordKeeps, StartingKeeps, RunKeeps, RunFailsKeeps,
   CompleteRunningKeeps
   DEF StartStep

-----------------------------------------------------------------------------
(* renew                                                                   *)

\* A renewal is journaled before the credential is touched.
LEMMA PrepareRenewalJournalKeeps ==
    ASSUME RunInv, PrepareRenewalJournal
    PROVE  RunInv'
<1>1. /\ job.at = "journal"
      /\ UNCHANGED <<ops, lease, secret, box, sound, late, overdue, broker, permitted, clock, faults>>
  BY DEF PrepareRenewalJournal, docker, world
<1>2. /\ job.kind = "renew" /\ row.renewal = NoRenewal /\ row.expiry <= Longest
      /\ ops["start"] # "none" /\ ops["renew"] # "none" /\ row \in RowType
      /\ row.status # "none" /\ clock \in Time
  BY <1>1, KindAt DEF RunInv, PlaceHolds, RenewingHolds, Typed
<1>3. {"reject", "distrust", "stage"} \subseteq Step
  BY DEF Step
<1>4. CASE UNCHANGED row /\ (Go("reject") \/ (row.status = "running" /\ Go("distrust")))
  <2>1. Still /\ faults' \in 0..MaxFaults
    BY <1>1, <1>4 DEF Still, RunInv, Typed
  <2>2. /\ job' \in JobType /\ job'.at \in {"reject", "distrust"} /\ job'.kind = "renew"
        /\ KindHolds' /\ (job'.at = "distrust" => row.status = "running")
    BY <1>1, <1>2, <1>3, <1>4, GoKind
  <2>3. PlaceHolds' /\ RenewingHolds'
    BY <1>2, <2>1, <2>2, ReleasedFacts DEF PlaceHolds, RenewingHolds, Still
  <2> QED
    BY <1>1, <2>1, <2>2, <2>3, StillKeeps
<1>5. ASSUME NEW t \in Ttl, row.status = "running", clock < row.expiry, clock + t # row.expiry,
             Go("stage"),
             row' = [row EXCEPT !.renewal =
                        [phase |-> "prepared", old |-> row.expiry, new |-> clock + t]]
      PROVE  RunInv'
  <2>1. clock + t \in Time /\ row.expiry \in Time
    BY <1>2, <1>5, TimeFacts DEF Time, RowType
  <2> DEFINE R == [phase |-> "prepared", old |-> row.expiry, new |-> clock + t]
  <2>2. /\ R \in Renewals /\ R.phase = "prepared" /\ R.old = row.expiry /\ R.old # R.new
    BY <1>5, <2>1 DEF Renewals
  <2>3. row' = [row EXCEPT !.renewal = R]
    BY <1>5
  <2> HIDE DEF R
  <2>4. /\ row' \in RowType /\ row'.status = "running" /\ row'.renewal = R
        /\ row'.cleanup = row.cleanup /\ row'.known = row.known /\ row'.lease = row.lease
        /\ row'.expiry = row.expiry
        /\ row'.absences = row.absences /\ row'.elapsed = row.elapsed
    BY <1>2, <1>5, <2>2, <2>3 DEF RowType
  <2>5. job' \in JobType /\ job'.at = "stage" /\ job'.kind = "renew" /\ KindHolds'
    BY <1>1, <1>2, <1>3, <1>5, GoKind
  <2>6. Typed'
    BY <1>1, <2>4, <2>5 DEF RunInv, Typed
  <2>7. RowHolds' /\ NoneHolds'
    BY <1>1, <1>2, <1>5, <2>4 DEF RunInv, RowHolds, NoneHolds, NoContainer
  <2>8. RenewalHolds'
    BY <1>1, <1>2, <2>2, <2>4, ConstantFacts DEF RenewalHolds
  <2>9. StartHolds'
    BY <1>1, <1>5, <2>4 DEF RunInv, StartHolds
  <2>10. MaterialHolds'
    BY <2>2, <2>4, ConstantFacts DEF MaterialHolds
  <2>11. PlaceHolds' /\ RenewingHolds'
    BY <1>1, <1>2, <1>5, <2>2, <2>4, <2>5, ReleasedFacts DEF PlaceHolds, RenewingHolds, Active
  <2> QED
    BY <2>5, <2>6, <2>7, <2>8, <2>9, <2>10, <2>11 DEF RunInv
<1>6. row.renewal.phase = "none" /\ row.expiry \in Nat /\ clock \in Nat
  BY <1>2, ConstantFacts, TimeFacts DEF RowType
<1>7. ASSUME row.status = "running", clock < row.expiry, LeaseInvariant
      PROVE  RunInv'
  <2>1. PICK t \in Ttl :
          IF clock + t = row.expiry THEN Go("reject") /\ UNCHANGED row
          ELSE /\ row' = [row EXCEPT !.renewal =
                             [phase |-> "prepared", old |-> row.expiry, new |-> clock + t]]
               /\ Go("stage")
    BY <1>6, <1>7 DEF PrepareRenewalJournal
  <2> QED
    BY <1>4, <1>5, <1>7, <2>1
<1>8. CASE row.status # "running" \/ ~(clock < row.expiry) \/ ~LeaseInvariant
  <2>1. UNCHANGED row /\ (Go("reject") \/ (row.status = "running" /\ Go("distrust")))
    BY <1>6, <1>8 DEF PrepareRenewalJournal
  <2> QED
    BY <1>4, <2>1
<1> QED
  BY <1>7, <1>8

\* The new expiry is staged beside the credential.
LEMMA PrepareExpiryRenewalKeeps ==
    ASSUME RunInv, PrepareExpiryRenewal
    PROVE  RunInv'
<1>1. /\ job.at = "stage"
      /\ UNCHANGED <<row, ops, lease, box, sound, late, overdue, broker, permitted, clock, faults>>
  BY DEF PrepareExpiryRenewal, durable, docker, world
<1>2. CASE Raise /\ UNCHANGED secret
  BY <1>1, <1>2, RaisedKeeps
<1>3. CASE secret' = [secret EXCEPT !.next = row.renewal.new] /\ Go("commit")
  <2>1. /\ job.kind = "renew" /\ Active /\ row.status # "none" /\ ops["start"] # "none"
        /\ row.renewal.phase = "prepared" /\ row \in RowType
        /\ secret \in [held : BOOLEAN, expiry : Time, next : Time]
    BY <1>1, KindAt, RowAt DEF RunInv, PlaceHolds, RenewingHolds, Typed
  <2>2. secret' \in [held : BOOLEAN, expiry : Time, next : Time] /\ "commit" \in Step
    BY <1>3, <2>1 DEF RowType, Renewals, Step
  <2>3. job' \in JobType /\ job'.at = "commit" /\ job'.kind = "renew" /\ KindHolds'
    BY <1>1, <1>3, <2>1, <2>2, GoKind
  <2>4. Typed'
    BY <1>1, <2>2, <2>3 DEF RunInv, Typed
  <2>5. RowHolds' /\ NoneHolds'
    BY <1>1, <2>1 DEF RunInv, RowHolds, NoneHolds, NoContainer, Active
  <2>6. RenewalHolds' /\ StartHolds'
    BY <1>1 DEF RunInv, RenewalHolds, StartHolds, Dead
  <2>7. MaterialHolds'
    BY <1>1, <2>1, ConstantFacts DEF MaterialHolds
  <2>8. PlaceHolds' /\ RenewingHolds'
    BY <1>1, <2>1, <2>3, ReleasedFacts DEF PlaceHolds, RenewingHolds, Active
  <2> QED
    BY <2>3, <2>4, <2>5, <2>6, <2>7, <2>8 DEF RunInv
<1> QED
  BY <1>2, <1>3 DEF PrepareExpiryRenewal

\* The renewal is committed in the journal.
LEMMA CommitRenewalJournalKeeps ==
    ASSUME RunInv, CommitRenewalJournal
    PROVE  RunInv'
<1>1. /\ job.at = "commit"
      /\ UNCHANGED <<ops, lease, secret, box, sound, late, overdue, broker, permitted, clock, faults>>
  BY DEF CommitRenewalJournal, docker, world
<1>2. CASE Raise /\ UNCHANGED row
  BY <1>1, <1>2, RaisedKeeps
<1>3. CASE /\ row' = [row EXCEPT !.expiry = row.renewal.new, !.renewal.phase = "committing"]
           /\ Go("apply")
  <2>1. /\ job.kind = "renew" /\ Active /\ row.status # "none" /\ ops["start"] # "none"
        /\ row.renewal.phase = "prepared" /\ row \in RowType
    BY <1>1, KindAt, RowAt DEF RunInv, PlaceHolds, RenewingHolds, Typed
  <2>2. /\ row.renewal # NoRenewal /\ row.renewal \in Renewals
        /\ row.renewal.old # row.renewal.new /\ ops["renew"] # "none"
    BY <2>1, ConstantFacts DEF RunInv, RenewalHolds, RowType
  <2>3. /\ row' \in RowType /\ row'.status = row.status
        /\ row'.renewal.phase = "committing" /\ row'.renewal.old = row.renewal.old
        /\ row'.renewal.new = row.renewal.new
        /\ row'.cleanup = row.cleanup /\ row'.known = row.known /\ row'.lease = row.lease
        /\ row'.expiry = row.renewal.new
        /\ row'.absences = row.absences /\ row'.elapsed = row.elapsed
    <3> DEFINE R == [row.renewal EXCEPT !.phase = "committing"]
    <3>1. /\ R \in Renewals /\ R.phase = "committing" /\ R.old = row.renewal.old
          /\ R.new = row.renewal.new /\ row.renewal.new \in Time
      BY <2>2 DEF Renewals
    <3>2. row' = [row EXCEPT !.expiry = row.renewal.new, !.renewal = R]
      BY <1>3
    <3> HIDE DEF R
    <3> QED
      BY <2>1, <3>1, <3>2 DEF RowType
  <2>4. "apply" \in Step
    BY DEF Step
  <2>5. job' \in JobType /\ job'.at = "apply" /\ job'.kind = "renew" /\ KindHolds'
    BY <1>1, <1>3, <2>1, <2>4, GoKind
  <2>6. Typed'
    BY <1>1, <2>3, <2>5 DEF RunInv, Typed
  <2>7. RowHolds' /\ NoneHolds'
    BY <1>1, <2>1, <2>3 DEF RunInv, RowHolds, NoneHolds, NoContainer, Active
  <2>8. RenewalHolds'
    BY <1>1, <2>2, <2>3 DEF RenewalHolds
  <2>9. StartHolds'
    BY <1>1, <2>2, <2>3 DEF RunInv, StartHolds
  <2>10. MaterialHolds'
    BY <2>3, ConstantFacts DEF MaterialHolds
  <2>11. PlaceHolds' /\ RenewingHolds'
    BY <1>1, <2>1, <2>3, <2>5, ReleasedFacts DEF PlaceHolds, RenewingHolds, Active
  <2> QED
    BY <2>5, <2>6, <2>7, <2>8, <2>9, <2>10, <2>11 DEF RunInv
<1> QED
  BY <1>2, <1>3 DEF CommitRenewalJournal

\* The credential takes its new expiry, or the run goes to its cleanup.
LEMMA CommitExpiryRenewalKeeps ==
    ASSUME RunInv, CommitExpiryRenewal
    PROVE  RunInv'
<1>1. /\ job.at = "apply"
      /\ UNCHANGED <<row, ops, lease, box, sound, late, overdue, broker, permitted, clock, faults>>
  BY DEF CommitExpiryRenewal, durable, docker, world
<1>2. /\ Active /\ row.status # "none" /\ ops["start"] # "none"
      /\ row.renewal.phase = "committing" /\ row \in RowType
      /\ secret \in [held : BOOLEAN, expiry : Time, next : Time]
      /\ {"intent", "finalize"} \subseteq Step
  BY <1>1, RowAt DEF RunInv, PlaceHolds, RenewingHolds, Typed, Step
<1>3. CASE Raise /\ UNCHANGED secret
  BY <1>1, <1>3, RaisedKeeps
<1>4. CASE job.kind # "renew" /\ Go("intent") /\ UNCHANGED secret
  <2>1. Still /\ faults' \in 0..MaxFaults
    BY <1>1, <1>4 DEF Still, RunInv, Typed
  <2> QED
    BY <1>1, <1>2, <1>4, <2>1, MoveKeeps DEF RunInv, KindHolds
<1>5. CASE /\ secret.held /\ Go("finalize")
           /\ secret' = [secret EXCEPT !.expiry = row.renewal.new, !.next = 0]
  <2>1. /\ secret' \in [held : BOOLEAN, expiry : Time, next : Time]
        /\ secret' = Sealed(row.renewal.new)
    BY <1>2, <1>5, TimeFacts DEF RowType, Renewals, Sealed
  <2>2. job' \in JobType /\ job'.at = "finalize" /\ job'.kind = job.kind /\ KindHolds'
    BY <1>1, <1>2, <1>5, GoKind DEF RunInv, KindHolds
  <2>3. Typed'
    BY <1>1, <2>1, <2>2 DEF RunInv, Typed
  <2>4. RowHolds' /\ NoneHolds'
    BY <1>1, <1>2 DEF RunInv, RowHolds, NoneHolds, NoContainer, Active
  <2>5. RenewalHolds' /\ StartHolds'
    BY <1>1 DEF RunInv, RenewalHolds, StartHolds, Dead
  <2>6. MaterialHolds'
    BY <1>1, <1>2, ConstantFacts DEF MaterialHolds
  <2>7. PlaceHolds' /\ RenewingHolds'
    BY <1>1, <1>2, <2>1, <2>2, ReleasedFacts DEF PlaceHolds, RenewingHolds, Active, Sealed
  <2> QED
    BY <2>2, <2>3, <2>4, <2>5, <2>6, <2>7 DEF RunInv
<1> QED
  BY <1>3, <1>4, <1>5 DEF CommitExpiryRenewal

\* A row that runs with no renewal under way.
LEMMA SettledFacts ==
    ASSUME row \in RowType, row' = [row EXCEPT !.status = "running", !.renewal = NoRenewal]
    PROVE  /\ row' \in RowType /\ row'.status = "running" /\ row'.renewal = NoRenewal
           /\ row'.cleanup = row.cleanup /\ row'.known = row.known /\ row'.lease = row.lease
           /\ row'.expiry = row.expiry
           /\ row'.absences = row.absences /\ row'.elapsed = row.elapsed
BY ConstantFacts DEF RowType

\* A renewal is over, with row and credential at the same expiry.
LEMMA SettledKeeps ==
    ASSUME RunInv, row.renewal.phase # "none", Active, secret = Sealed(row.expiry), lease # "released",
           row' = [row EXCEPT !.status = "running", !.renewal = NoRenewal],
           UNCHANGED <<lease, secret, box, sound, late, overdue, broker, permitted, clock, faults>>,
           ops' \in [Op -> {"none", "running", "succeeded", "failed"}],
           ops'["start"] = ops["start"], ops'["renew"] # "none",
           job' \in JobType, KindHolds',
           job'.at = "idle" \/ (job'.at = "look" /\ job'.seen.status = "running" /\ job'.seen.known)
    PROVE  RunInv'
<1>1. row \in RowType /\ row.known /\ ops["start"] = "succeeded" /\ row.status # "none"
  BY ConstantFacts DEF RunInv, Typed, StartHolds, Active
<1>2. /\ row' \in RowType /\ row'.status = "running" /\ row'.renewal = NoRenewal
      /\ row'.cleanup = row.cleanup /\ row'.known = row.known /\ row'.lease = row.lease
      /\ row'.expiry = row.expiry
      /\ row'.absences = row.absences /\ row'.elapsed = row.elapsed
  BY <1>1, SettledFacts
<1>3. Typed'
  BY <1>2 DEF RunInv, Typed
<1>4. RowHolds' /\ NoneHolds'
  BY <1>1, <1>2, ReleasedFacts DEF RunInv, RowHolds, NoneHolds, NoContainer
<1>5. RenewalHolds' /\ StartHolds'
  BY <1>1, <1>2 DEF RenewalHolds, StartHolds
<1>6. MaterialHolds'
  BY <1>2 DEF MaterialHolds, Sealed
<1>7. PlaceHolds' /\ RenewingHolds'
  BY <1>1, <1>2, ReleasedFacts DEF PlaceHolds, RenewingHolds, Active
<1> QED
  BY <1>3, <1>4, <1>5, <1>6, <1>7 DEF RunInv

\* The renewal is answered as done.
LEMMA FinalizeRenewalKeeps ==
    ASSUME RunInv, FinalizeRenewal
    PROVE  RunInv'
<1> USE DEF Op
<1>1. /\ job.at = "finalize" /\ row' = [row EXCEPT !.status = "running", !.renewal = NoRenewal]
      /\ ops' = [ops EXCEPT !["renew"] = "succeeded"]
      /\ UNCHANGED <<lease, secret, box, sound, late, overdue, broker, permitted, clock, faults>>
  BY DEF FinalizeRenewal, docker, world
<1>2. /\ Active /\ row.renewal.phase = "committing" /\ row \in RowType
      /\ secret = Sealed(row.renewal.new)
      /\ ops \in [Op -> {"none", "running", "succeeded", "failed"}]
  BY <1>1, RowAt DEF RunInv, RenewingHolds, Typed
<1>3. secret = Sealed(row.expiry)
  BY <1>2, ConstantFacts DEF RunInv, RenewalHolds
<1>4. /\ ops' \in [Op -> {"none", "running", "succeeded", "failed"}]
      /\ ops'["start"] = ops["start"] /\ ops'["renew"] # "none"
  BY <1>1, <1>2
<1>5. row' \in RowType /\ row'.status = "running" /\ row'.known /\ lease # "released"
  BY <1>1, <1>2, SettledFacts, ReleasedFacts, ConstantFacts DEF RunInv, StartHolds
<1>6. /\ job' \in JobType /\ KindHolds'
      /\ job'.at = "idle" \/ (job'.at = "look" /\ job'.seen.status = "running" /\ job'.seen.known)
  <2>1. CASE Done
    BY <2>1, DoneKind
  <2>2. CASE job.kind # "renew" /\ GoSeeing("look", row')
    <3>1. "look" \in Step /\ job \in JobType
      BY DEF Step, RunInv, Typed
    <3>2. /\ job' \in JobType /\ job'.at = "look" /\ job'.kind = job.kind
          /\ job'.seen.status = row'.status /\ job'.seen.known = row'.known
      BY <1>5, <2>2, <3>1, GoSeeingFacts
    <3> QED
      BY <1>1, <1>5, <2>2, <3>2, KindAt DEF RunInv, KindHolds
  <2> QED
    BY <2>1, <2>2 DEF FinalizeRenewal
<1> QED
  BY <1>1, <1>2, <1>3, <1>4, <1>5, <1>6, SettledKeeps

\* The steps of a renewal.
LEMMA RenewStepKeeps ==
    ASSUME RunInv, RenewStep
    PROVE  RunInv'
BY PrepareRenewalJournalKeeps, PrepareExpiryRenewalKeeps, CommitRenewalJournalKeeps,
   CommitExpiryRenewalKeeps, FinalizeRenewalKeeps
   DEF RenewStep

-----------------------------------------------------------------------------
(* cleanup                                                                 *)

\* The intent to clean up is journaled for a run that has not ended.
LEMMA IntentKeeps ==
    ASSUME RunInv, Active, row' = CleanupIntent(row),
           UNCHANGED <<ops, lease, secret, box, sound, late, overdue, clock>>
    PROVE  /\ row' \in RowType /\ row'.status = "cleanup_pending" /\ row'.cleanup
           /\ row'.known = row.known /\ row'.lease = row.lease
           /\ row'.expiry = row.expiry /\ row'.renewal = row.renewal
           /\ row'.absences = row.absences /\ row'.elapsed = row.elapsed
           /\ RowHolds' /\ NoneHolds' /\ RenewalHolds' /\ StartHolds' /\ MaterialHolds'
<1>1. row \in RowType /\ row.status # "none"
  BY DEF RunInv, Typed, Active
<1>2. row' = [row EXCEPT !.cleanup = TRUE, !.status = "cleanup_pending"]
  BY DEF CleanupIntent, Active
<1>3. /\ row' \in RowType /\ row'.status = "cleanup_pending" /\ row'.cleanup
      /\ row'.known = row.known /\ row'.lease = row.lease
      /\ row'.expiry = row.expiry /\ row'.renewal = row.renewal
      /\ row'.absences = row.absences /\ row'.elapsed = row.elapsed
  BY <1>1, <1>2, IntentFacts
<1>4. RowHolds' /\ NoneHolds'
  BY <1>1, <1>3, ReleasedFacts DEF RunInv, RowHolds, NoneHolds, NoContainer
<1>5. RenewalHolds' /\ StartHolds' /\ MaterialHolds'
  BY <1>3 DEF RunInv, RenewalHolds, StartHolds, MaterialHolds, Dead
<1> QED
  BY <1>3, <1>4, <1>5

\* A finish asks for the cleanup, of a run that failed as well.
LEMMA PrepareCleanupKeeps ==
    ASSUME RunInv, PrepareCleanup
    PROVE  RunInv'
<1> USE DEF Op
<1>1. /\ job.at = "request"
      /\ UNCHANGED <<lease, secret, box, sound, late, overdue, broker, permitted, clock, faults>>
  BY DEF PrepareCleanup, docker, world
<1>2. /\ row \in RowType /\ ops \in [Op -> {"none", "running", "succeeded", "failed"}]
      /\ job.kind = "finish" /\ row.status # "none" /\ ops["start"] # "none"
  BY <1>1, KindAt DEF RunInv, Typed, PlaceHolds
<1>3. CASE ops' = [ops EXCEPT !["finish"] = "succeeded"] /\ Done /\ UNCHANGED row
  <2>1. /\ ops' \in [Op -> {"none", "running", "succeeded", "failed"}]
        /\ ops'["start"] = ops["start"] /\ ops'["renew"] = ops["renew"]
    BY <1>2, <1>3
  <2>2. job' \in JobType /\ job'.at = "idle" /\ KindHolds'
    BY <1>3, DoneKind
  <2>3. Typed'
    BY <1>1, <1>3, <2>1, <2>2 DEF RunInv, Typed
  <2>4. RowHolds' /\ NoneHolds' /\ RenewalHolds' /\ StartHolds' /\ MaterialHolds'
    BY <1>1, <1>3, <2>1 DEF RunInv, RowHolds, NoneHolds, RenewalHolds, StartHolds,
                            MaterialHolds, Dead, NoContainer
  <2>5. PlaceHolds' /\ RenewingHolds'
    BY <2>2 DEF PlaceHolds, RenewingHolds
  <2> QED
    BY <2>2, <2>3, <2>4, <2>5 DEF RunInv
<1>4. CASE /\ row' = [row EXCEPT !.status = "cleanup_pending", !.cleanup = TRUE]
           /\ Go("intent") /\ UNCHANGED ops
  <2>1. /\ row' \in RowType /\ row'.status = "cleanup_pending" /\ row'.cleanup
        /\ row'.known = row.known /\ row'.lease = row.lease
        /\ row'.expiry = row.expiry /\ row'.renewal = row.renewal
        /\ row'.absences = row.absences /\ row'.elapsed = row.elapsed
    BY <1>2, <1>4 DEF RowType
  <2>2. "intent" \in Step
    BY DEF Step
  <2>3. job' \in JobType /\ job'.at = "intent" /\ job'.kind = "finish" /\ KindHolds'
    BY <1>1, <1>2, <1>4, <2>2, GoKind
  <2>4. Typed'
    BY <1>1, <1>4, <2>1, <2>3 DEF RunInv, Typed
  <2>5. RowHolds' /\ NoneHolds'
    BY <1>1, <1>2, <1>4, <2>1 DEF RunInv, RowHolds, NoneHolds, NoContainer
  <2>6. RenewalHolds' /\ StartHolds' /\ MaterialHolds'
    BY <1>1, <1>4, <2>1 DEF RunInv, RenewalHolds, StartHolds, MaterialHolds, Dead
  <2>7. PlaceHolds' /\ RenewingHolds'
    BY <1>2, <1>4, <2>1, <2>3 DEF PlaceHolds, RenewingHolds, Active
  <2> QED
    BY <2>3, <2>4, <2>5, <2>6, <2>7 DEF RunInv
<1> QED
  BY <1>3, <1>4 DEF PrepareCleanup

\* The cleanup begins with its intent.
LEMMA PersistCleanupIntentKeeps ==
    ASSUME RunInv, PersistCleanupIntent
    PROVE  RunInv'
<1>1. /\ job.at = "intent" /\ row' = CleanupIntent(row) /\ Go("drop")
      /\ UNCHANGED <<ops, lease, secret, box, sound, late, overdue, broker, permitted, clock, faults>>
  BY DEF PersistCleanupIntent, docker, world
<1>2. Active /\ ops["start"] # "none" /\ "drop" \in Step
  BY <1>1, RowAt DEF RunInv, PlaceHolds, Step
<1>3. /\ row' \in RowType /\ row'.status = "cleanup_pending" /\ row'.cleanup
      /\ RowHolds' /\ NoneHolds' /\ RenewalHolds' /\ StartHolds' /\ MaterialHolds'
  BY <1>1, <1>2, IntentKeeps
<1>4. job' \in JobType /\ job'.at = "drop" /\ job'.kind = job.kind /\ KindHolds'
  BY <1>1, <1>2, GoKind DEF RunInv, KindHolds
<1>5. Typed'
  BY <1>1, <1>3, <1>4 DEF RunInv, Typed
<1>6. PlaceHolds' /\ RenewingHolds'
  BY <1>1, <1>2, <1>3, <1>4 DEF PlaceHolds, RenewingHolds, Active
<1> QED
  BY <1>3, <1>4, <1>5, <1>6 DEF RunInv

\* A renewal never survives a cleanup.
LEMMA DropRenewalKeeps ==
    ASSUME RunInv, Active, row.cleanup, DropRenewal,
           UNCHANGED <<lease, secret, box, sound, late, overdue, clock>>
    PROVE  /\ row' \in RowType /\ row'.status = "cleanup_pending" /\ row'.cleanup
           /\ ops' \in [Op -> {"none", "running", "succeeded", "failed"}]
           /\ ops'["start"] = ops["start"]
           /\ RowHolds' /\ NoneHolds' /\ RenewalHolds' /\ StartHolds' /\ MaterialHolds'
<1> USE DEF Op
<1>1. /\ row \in RowType /\ row.status # "none"
      /\ ops \in [Op -> {"none", "running", "succeeded", "failed"}]
  BY DEF RunInv, Typed, Active
<1>2. row' = [row EXCEPT !.status = "cleanup_pending", !.renewal = NoRenewal]
  BY DEF DropRenewal
<1>3. /\ row' \in RowType /\ row'.status = "cleanup_pending" /\ row'.renewal = NoRenewal
      /\ row'.cleanup = row.cleanup /\ row'.known = row.known /\ row'.lease = row.lease
      /\ row'.expiry = row.expiry
      /\ row'.absences = row.absences /\ row'.elapsed = row.elapsed
  BY <1>1, <1>2, ConstantFacts DEF RowType
<1>4. /\ ops' \in [Op -> {"none", "running", "succeeded", "failed"}]
      /\ ops'["start"] = ops["start"] /\ (ops'["renew"] = "none" => ops["renew"] = "none")
  BY <1>1, FailRunningFacts DEF DropRenewal
<1>5. RowHolds' /\ NoneHolds'
  BY <1>1, <1>3, <1>4, ReleasedFacts DEF RunInv, RowHolds, NoneHolds, NoContainer
<1>6. RenewalHolds' /\ StartHolds' /\ MaterialHolds'
  BY <1>3, <1>4 DEF RunInv, RenewalHolds, StartHolds, MaterialHolds, Dead
<1> QED
  BY <1>3, <1>4, <1>5, <1>6

\* A cleanup cancels the renewal that is open.
LEMMA CancelRenewalForCleanupKeeps ==
    ASSUME RunInv, CancelRenewalForCleanup
    PROVE  RunInv'
<1>1. /\ job.at = "drop" /\ DropRenewal /\ GoSeeing("find", row')
      /\ UNCHANGED <<lease, secret, box, sound, late, overdue, broker, permitted, clock, faults>>
  BY DEF CancelRenewalForCleanup, docker, world
<1>2. Active /\ row.cleanup /\ ops["start"] # "none" /\ "find" \in Step
  BY <1>1, RowAt DEF RunInv, PlaceHolds, Step
<1>3. /\ row' \in RowType /\ row'.status = "cleanup_pending" /\ row'.cleanup
      /\ ops' \in [Op -> {"none", "running", "succeeded", "failed"}]
      /\ ops'["start"] = ops["start"]
      /\ RowHolds' /\ NoneHolds' /\ RenewalHolds' /\ StartHolds' /\ MaterialHolds'
  BY <1>1, <1>2, DropRenewalKeeps
<1>4. /\ job' \in JobType /\ job'.at = "find" /\ job'.kind = job.kind /\ job'.op = job.op
      /\ job'.seen.known = row'.known
  BY <1>1, <1>2, <1>3, GoSeeingFacts DEF RunInv, Typed
<1>7. KindHolds'
  BY <1>1, <1>4, ConstantFacts DEF RunInv, KindHolds
<1>5. Typed'
  BY <1>1, <1>3, <1>4 DEF RunInv, Typed
<1>6. PlaceHolds' /\ RenewingHolds'
  BY <1>1, <1>2, <1>3, <1>4 DEF RunInv, PlaceHolds, RenewingHolds, Active
<1> QED
  BY <1>3, <1>4, <1>5, <1>6, <1>7 DEF RunInv

\* The listing of a cleanup, and the identity it may reveal.
LEMMA FindKeeps ==
    ASSUME RunInv, Find
    PROVE  RunInv'
<1>1. /\ job.at = "find"
      /\ row' = IF box # "absent" /\ ~job.seen.known THEN RecordedContainer(row) ELSE row
      /\ UNCHANGED <<ops, lease, secret, box, sound, late, overdue, broker, permitted, clock, faults>>
  BY DEF Find, docker, world
<1>2. /\ Active /\ row.cleanup /\ row.status \in CleanupStates /\ ops["start"] # "none"
      /\ row \in RowType /\ RowHolds
      /\ box \in {"absent", "created", "running", "exited"}
      /\ job.seen.known => row.known
  BY <1>1, RowAt DEF RunInv, PlaceHolds, Typed
<1>3. /\ row' \in RowType /\ row'.cleanup /\ row'.status \in CleanupStates
      /\ row'.lease = row.lease /\ row'.expiry = row.expiry /\ row'.renewal = row.renewal
      /\ row'.known => row.known \/ box # "absent"
      /\ box # "absent" => row'.known
      /\ box = "absent" => row' = row
      /\ row'.status \in {"stopping", "removing"} => row'.known
      /\ row'.absences = 0 => row'.elapsed = 0
      /\ row'.absences = 0 \/ (row'.absences = row.absences /\ row'.elapsed = row.elapsed)
  <2>1. CASE box # "absent" /\ ~job.seen.known
    BY <1>1, <1>2, <2>1, RecordedFacts DEF RowHolds
  <2>2. CASE ~(box # "absent" /\ ~job.seen.known)
    BY <1>1, <1>2, <2>2 DEF RowHolds
  <2> QED
    BY <2>1, <2>2
<1>4. PICK p \in {"stopping", "removing", "release", "absence"} :
         /\ Go(p)
         /\ p \in {"stopping", "removing"} => box # "absent"
         /\ p = "release" => box = "absent" /\ job.seen.known
         /\ p = "absence" => box = "absent"
  BY <1>2 DEF Find
<1>5. {"stopping", "removing", "release", "absence"} \subseteq Step
  BY DEF Step
<1>6. job' \in JobType /\ job'.at = p /\ job'.kind = job.kind /\ KindHolds'
  BY <1>1, <1>4, <1>5, GoKind DEF RunInv, KindHolds
<1>7. /\ row.known \/ box # "absent" => late = NotLate
      /\ box = "absent" /\ row.known => NoContainer
      /\ NoContainer => NoContainerButOverdue
  BY AbsenceFacts
<1>8. Typed'
  BY <1>1, <1>3, <1>6 DEF RunInv, Typed
<1>9. RowHolds' /\ NoneHolds'
  BY <1>1, <1>2, <1>3, <1>7 DEF RowHolds, NoneHolds, NoContainer
<1>10. RenewalHolds' /\ StartHolds' /\ MaterialHolds'
  BY <1>1, <1>3 DEF RunInv, RenewalHolds, StartHolds, MaterialHolds, Dead
<1>11. PlaceHolds' /\ RenewingHolds'
  BY <1>1, <1>2, <1>3, <1>4, <1>6, <1>7
     DEF RunInv, PlaceHolds, RenewingHolds, Active, NoContainer
<1> QED
  BY <1>6, <1>8, <1>9, <1>10, <1>11 DEF RunInv

\* An absence is recorded; two of them a command timeout apart are believed.
LEMMA RecordCreateAbsenceKeeps ==
    ASSUME RunInv, RecordCreateAbsence
    PROVE  RunInv'
<1>1. /\ job.at \in ListedAt
      /\ row' = IF AbsenceCounts THEN [row EXCEPT !.absences = IF @ = 0 THEN 1 ELSE 2] ELSE row
      /\ UNCHANGED <<ops, lease, secret, box, sound, late, overdue, broker, permitted, clock, faults>>
  BY DEF RecordCreateAbsence, docker, world
<1>2. /\ Active /\ row.status # "none" /\ ops["start"] # "none" /\ row \in RowType
      /\ AbsenceIsStable => NoContainerButOverdue
      /\ job.at \in {"absence", "settle"} => row.status # "running"
      /\ lease = "released" => job.at = "absence"
      /\ late \in 0..NotLate
  BY <1>1, RowAt, AbsenceFacts DEF RunInv, PlaceHolds, Typed
<1>3. /\ row' \in RowType /\ row'.status = row.status
      /\ row'.absences = row.absences \/ row'.absences \in {1, 2}
      /\ row'.cleanup = row.cleanup /\ row'.known = row.known /\ row'.lease = row.lease
      /\ row'.expiry = row.expiry /\ row'.renewal = row.renewal /\ row'.elapsed = row.elapsed
  <2>1. CASE AbsenceCounts
    BY <1>1, <1>2, <2>1 DEF RowType
  <2>2. CASE ~AbsenceCounts
    BY <1>1, <1>2, <2>2
  <2> QED
    BY <2>1, <2>2
<1>4. /\ job' \in JobType /\ KindHolds' /\ job'.at \in {"fail", "release", "idle", "attention"}
      /\ job'.at \in {"fail", "release"} => NoContainerButOverdue
      /\ job'.at = "fail" => job'.kind # "start" /\ job.at = "await"
      /\ job'.at = "release" => row.status # "running"
  <2>1. CASE AbsenceIsStable /\ job.at = "await" /\ Go("fail")
    <3>1. job.kind \in {"retry", "reap", "startup"} /\ "fail" \in Step
      BY <2>1, KindAt DEF Step
    <3> QED
      BY <1>1, <1>2, <2>1, <3>1, GoKind
  <2>2. CASE AbsenceIsStable /\ job.at # "await" /\ Go("release")
    <3>1. "release" \in Step
      BY DEF Step
    <3>2. job' \in JobType /\ job'.at = "release" /\ KindHolds'
      BY <1>1, <2>2, <3>1, GoKind DEF RunInv, KindHolds
    <3> QED
      BY <1>1, <1>2, <2>2, <3>2
  <2>3. CASE Raise
    BY <1>1, <2>3, RaiseFacts DEF RunInv, Typed
  <2>4. CASE Done
    BY <2>4, DoneKind
  <2> QED
    BY <1>1, <2>1, <2>2, <2>3, <2>4 DEF RecordCreateAbsence
<1>5. Typed'
  BY <1>1, <1>3, <1>4 DEF RunInv, Typed
<1>6. row'.absences > 0 /\ late' # NotLate' => row'.elapsed <= late'
  <2>1. CASE row.absences = 0
    BY <1>1, <1>2, <1>3, <2>1, TimeFacts DEF RunInv, RowHolds
  <2>2. CASE row.absences # 0
    BY <1>1, <1>2, <1>3, <2>2 DEF RunInv, RowHolds, RowType, NotLate
  <2> QED
    BY <2>1, <2>2
<1>7. RowHolds' /\ NoneHolds'
  BY <1>1, <1>2, <1>3, <1>6 DEF RunInv, RowHolds, NoneHolds, NoContainer
<1>8. RenewalHolds' /\ StartHolds' /\ MaterialHolds'
  BY <1>1, <1>3, <1>4 DEF RunInv, RenewalHolds, StartHolds, MaterialHolds, Dead
<1>9. PlaceHolds' /\ RenewingHolds'
  BY <1>1, <1>2, <1>3, <1>4 DEF PlaceHolds, RenewingHolds, Active, NoContainer
<1> QED
  BY <1>4, <1>5, <1>7, <1>8, <1>9 DEF RunInv

\* The intents to stop and to remove the container are journaled.
LEMMA StoppingKeeps ==
    ASSUME RunInv, Stopping \/ Removing
    PROVE  RunInv'
<1>1. PICK s \in {"stopping", "removing"}, p \in {"stop", "remove"} :
         /\ job.at = s /\ row' = [row EXCEPT !.status = s] /\ Go(p)
         /\ UNCHANGED <<ops, lease, secret, box, sound, late, overdue, broker, permitted, clock, faults>>
  BY DEF Stopping, Removing, docker, world
<1>2. /\ Active /\ row.cleanup /\ row.known /\ ops["start"] # "none" /\ row \in RowType
      /\ {"stop", "remove"} \subseteq Step
  BY <1>1, RowAt DEF RunInv, PlaceHolds, Typed, Step
<1>3. /\ row' \in RowType /\ row'.status = s
      /\ row'.cleanup = row.cleanup /\ row'.known = row.known /\ row'.lease = row.lease
      /\ row'.expiry = row.expiry /\ row'.renewal = row.renewal
      /\ row'.absences = row.absences /\ row'.elapsed = row.elapsed
  BY <1>1, <1>2, StatusFacts
<1>4. job' \in JobType /\ job'.at = p /\ job'.kind = job.kind /\ KindHolds'
  BY <1>1, <1>2, GoKind DEF RunInv, KindHolds
<1>5. Typed'
  BY <1>1, <1>3, <1>4 DEF RunInv, Typed
<1>6. RowHolds' /\ NoneHolds'
  BY <1>1, <1>2, <1>3 DEF RunInv, RowHolds, NoneHolds, NoContainer
<1>7. RenewalHolds' /\ StartHolds' /\ MaterialHolds'
  BY <1>1, <1>2, <1>3 DEF RunInv, RenewalHolds, StartHolds, MaterialHolds, Dead
<1>8. PlaceHolds' /\ RenewingHolds'
  BY <1>1, <1>2, <1>3, <1>4 DEF PlaceHolds, RenewingHolds, Active
<1> QED
  BY <1>4, <1>5, <1>6, <1>7, <1>8 DEF RunInv

\* A container stops or disappears.
LEMMA BoxKeeps ==
    ASSUME RunInv, box # "absent", box' \in {box, "exited", "absent"},
           box' = "exited" => box \in {"running", "exited"},
           UNCHANGED <<row, ops, lease, secret, sound, late, overdue, broker, permitted, clock>>
    PROVE  /\ late = NotLate /\ row.status # "none"
           /\ NoContainerButOverdue => NoContainerButOverdue'
           /\ box' = "absent" => late' >= Grace
           /\ RowHolds' /\ NoneHolds' /\ RenewalHolds' /\ StartHolds'
           /\ (job.at = "preflight" => job'.at = "preflight") => MaterialHolds'
           /\ Dead => Dead'
<1>1. late = NotLate /\ row.status # "none"
  BY DEF RunInv, RowHolds, NoneHolds, NoContainer
<1>6. /\ NoContainerButOverdue => NoContainerButOverdue'
      /\ box' = "absent" => late' >= Grace
  BY <1>1, ConstantFacts, TimeFacts
<1>2. RowHolds' /\ NoneHolds'
  BY <1>1, <1>6 DEF RunInv, RowHolds, NoneHolds, NoContainer
<1>3. Dead => Dead'
  BY <1>1 DEF Dead
<1>4. RenewalHolds' /\ StartHolds'
  BY <1>3 DEF RunInv, RenewalHolds, StartHolds
<1>5. (job.at = "preflight" => job'.at = "preflight") => MaterialHolds'
  BY DEF RunInv, MaterialHolds
<1> QED
  BY <1>1, <1>2, <1>3, <1>4, <1>5, <1>6

\* A stop or a removal takes effect, whether its command reports so or not.
LEMMA StoppedKeeps ==
    ASSUME RunInv, job.at \in {"stop", "remove"}, box # "absent",
           box' \in {box, "exited", "absent"}, box' = "exited" => box \in {"running", "exited"},
           UNCHANGED <<row, ops, lease, secret, sound, late, overdue, broker, permitted, clock>>,
           faults' \in 0..MaxFaults, job' \in JobType, KindHolds',
           job'.at \in {"idle", "attention", "removing", "verify"}
    PROVE  RunInv'
<1>1. /\ RowHolds' /\ NoneHolds' /\ RenewalHolds' /\ StartHolds' /\ MaterialHolds'
  BY BoxKeeps
<1>2. /\ Active /\ row.cleanup /\ row.status \in CleanupStates /\ row.known
      /\ ops["start"] # "none"
  BY RowAt DEF RunInv, PlaceHolds
<1>3. Typed'
  BY DEF RunInv, Typed
<1>4. PlaceHolds' /\ RenewingHolds'
  BY <1>2, ReleasedFacts DEF PlaceHolds, RenewingHolds, Active
<1> QED
  BY <1>1, <1>3, <1>4 DEF RunInv

\* The container is stopped.
LEMMA StopKeeps ==
    ASSUME RunInv, Stop
    PROVE  RunInv'
<1>1. /\ job.at = "stop" /\ faults' \in 0..MaxFaults
      /\ UNCHANGED <<row, ops, lease, secret, sound, late, overdue, broker, permitted, clock, faults>>
  BY DEF Stop, durable, world, RunInv, Typed
<1>2. CASE Raise /\ UNCHANGED box
  BY <1>1, <1>2, RaisedKeeps
<1>3. CASE box # "absent" /\ box' = (IF box = "running" THEN "exited" ELSE box) /\ Go("removing")
  <2>1. "removing" \in Step
    BY DEF Step
  <2>2. job' \in JobType /\ job'.at = "removing" /\ KindHolds'
    BY <1>1, <1>3, <2>1, GoKind DEF RunInv, KindHolds
  <2> QED
    BY <1>1, <1>3, <2>2, StoppedKeeps
<1> QED
  BY <1>2, <1>3 DEF Stop

\* The container is removed.
LEMMA RemoveKeeps ==
    ASSUME RunInv, Remove
    PROVE  RunInv'
<1>1. /\ job.at = "remove" /\ faults' \in 0..MaxFaults
      /\ UNCHANGED <<row, ops, lease, secret, sound, late, overdue, broker, permitted, clock, faults>>
  BY DEF Remove, durable, world, RunInv, Typed
<1>2. CASE Raise /\ UNCHANGED box
  BY <1>1, <1>2, RaisedKeeps
<1>3. CASE box # "absent" /\ box' = "absent" /\ Go("verify")
  <2>1. "verify" \in Step
    BY DEF Step
  <2>2. job' \in JobType /\ job'.at = "verify" /\ KindHolds'
    BY <1>1, <1>3, <2>1, GoKind DEF RunInv, KindHolds
  <2> QED
    BY <1>1, <1>3, <2>2, StoppedKeeps
<1> QED
  BY <1>2, <1>3 DEF Remove

\* A stop or a removal takes effect although its command fails.
LEMMA CommandFailsKeeps ==
    ASSUME RunInv, CommandFails
    PROVE  RunInv'
<1>1. /\ job.at \in {"stop", "remove"} /\ box # "absent" /\ box' \in {"exited", "absent"} /\ Raise
      /\ box' = "exited" => box = "running"
      /\ UNCHANGED <<row, ops, lease, secret, sound, late, overdue, broker, permitted, clock>>
      /\ faults' \in 0..MaxFaults
  BY TimeFacts DEF CommandFails, durable, RunInv, Typed
<1>2. job' \in JobType /\ KindHolds' /\ job'.at \in {"idle", "attention"}
  BY <1>1, RaiseFacts DEF RunInv, Typed
<1> QED
  BY <1>1, <1>2, StoppedKeeps

\* The credential file is removed once the container is gone.
LEMMA ReleaseRunSecretKeeps ==
    ASSUME RunInv, ReleaseRunSecret
    PROVE  RunInv'
<1>1. /\ job.at = "release" /\ secret' = NoSecret /\ Go("close")
      /\ UNCHANGED <<row, ops, lease, box, sound, late, overdue, broker, permitted, clock, faults>>
  BY DEF ReleaseRunSecret, durable, docker, world
<1>2. /\ Active /\ NoContainerButOverdue /\ row.status # "running" /\ ops["start"] # "none"
      /\ "close" \in Step
  BY <1>1, RowAt DEF RunInv, PlaceHolds, Step
<1>3. job' \in JobType /\ job'.at = "close" /\ KindHolds'
  BY <1>1, <1>2, GoKind DEF RunInv, KindHolds
<1>4. Typed'
  BY <1>1, <1>3, ConstantFacts DEF RunInv, Typed
<1>5. RowHolds' /\ NoneHolds'
  BY <1>1, <1>2, ConstantFacts DEF RunInv, RowHolds, NoneHolds, NoContainer
<1>6. RenewalHolds' /\ StartHolds' /\ MaterialHolds'
  BY <1>1, <1>2 DEF RunInv, RenewalHolds, StartHolds, MaterialHolds, Dead
<1>7. PlaceHolds' /\ RenewingHolds'
  BY <1>1, <1>2, <1>3, ConstantFacts, ReleasedFacts DEF PlaceHolds, RenewingHolds, Active, NoContainer
<1> QED
  BY <1>3, <1>4, <1>5, <1>6, <1>7 DEF RunInv

\* The run is closed: its lease is given back and its operations are answered.
LEMMA CompleteCleanupKeeps ==
    ASSUME RunInv, CompleteCleanup
    PROVE  RunInv'
<1> USE DEF Op
<1>1. /\ job.at = "close" /\ Done /\ lease' = ReleasedLease
      /\ row' = [row EXCEPT !.status = "cleaned", !.renewal = NoRenewal]
      /\ UNCHANGED <<secret, box, sound, late, overdue, broker, permitted, clock, faults>>
  BY DEF CompleteCleanup, docker, world
<1>2. /\ NoContainerButOverdue /\ ~secret.held /\ ops["start"] # "none" /\ row \in RowType
      /\ ops \in [Op -> {"none", "running", "succeeded", "failed"}]
  BY <1>1 DEF RunInv, PlaceHolds, Typed
<1>3. /\ ops' \in [Op -> {"none", "running", "succeeded", "failed"}]
      /\ \A q \in Op : ops'[q] = "none" <=> ops[q] = "none"
  BY <1>2 DEF CompleteCleanup
<1>4. /\ row' \in RowType /\ row'.status = "cleaned" /\ row'.renewal = NoRenewal
      /\ row'.cleanup = row.cleanup /\ row'.known = row.known /\ row'.lease = row.lease
      /\ row'.expiry = row.expiry
      /\ row'.absences = row.absences /\ row'.elapsed = row.elapsed
  BY <1>1, <1>2, ConstantFacts DEF RowType
<1>5. /\ lease' \in {"none", "active", "released", "lost"}
      /\ row'.lease => lease' # "active"
  BY <1>1, <1>4 DEF ReleasedLease, RunInv, Typed
<1>6. job' \in JobType /\ job'.at = "idle" /\ KindHolds'
  BY <1>1, DoneKind
<1>7. Typed'
  BY <1>1, <1>3, <1>4, <1>5, <1>6 DEF RunInv, Typed
<1>8. RowHolds' /\ NoneHolds'
  BY <1>1, <1>2, <1>3, <1>4, <1>5, ReleasedFacts DEF RunInv, RowHolds, NoneHolds, NoContainer
<1>9. RenewalHolds' /\ StartHolds' /\ MaterialHolds'
  BY <1>3, <1>4 DEF RunInv, RenewalHolds, StartHolds, MaterialHolds, Dead
<1>10. PlaceHolds' /\ RenewingHolds'
  BY <1>4, <1>6 DEF PlaceHolds, RenewingHolds
<1> QED
  BY <1>6, <1>7, <1>8, <1>9, <1>10 DEF RunInv

\* The steps of a cleanup.
LEMMA CleanupStepKeeps ==
    ASSUME RunInv, CleanupStep
    PROVE  RunInv'
BY PrepareCleanupKeeps, PersistCleanupIntentKeeps, CancelRenewalForCleanupKeeps, FindKeeps,
   RecordCreateAbsenceKeeps, StoppingKeeps, StopKeeps, RemoveKeeps, CommandFailsKeeps,
   VerifyKeeps, ReleaseRunSecretKeeps, CompleteCleanupKeeps
   DEF CleanupStep

-----------------------------------------------------------------------------
(* recovery                                                                *)

\* A renewal that was not committed is taken back.
LEMMA RollbackExpiryRenewalKeeps ==
    ASSUME RunInv, RollbackExpiryRenewal
    PROVE  RunInv'
<1>1. /\ job.at = "rollback" /\ secret' = [secret EXCEPT !.next = 0] /\ Go("cancel")
      /\ UNCHANGED <<row, ops, lease, box, sound, late, overdue, broker, permitted, clock, faults>>
  BY DEF RollbackExpiryRenewal, durable, docker, world
<1>2. /\ Active /\ row.renewal.phase = "prepared" /\ row.status # "none" /\ ops["start"] # "none"
      /\ secret \in [held : BOOLEAN, expiry : Time, next : Time]
      /\ secret = [held |-> TRUE, expiry |-> row.renewal.old, next |-> row.renewal.new]
      /\ job.kind \in {"retry", "reap", "startup"} /\ "cancel" \in Step
  BY <1>1, RowAt, KindAt DEF RunInv, PlaceHolds, RenewingHolds, Typed, Step
<1>3. /\ secret' \in [held : BOOLEAN, expiry : Time, next : Time]
      /\ secret' = Sealed(row.renewal.old)
  BY <1>1, <1>2, TimeFacts DEF Sealed
<1>4. job' \in JobType /\ job'.at = "cancel" /\ job'.kind = job.kind /\ KindHolds'
  BY <1>1, <1>2, GoKind
<1>5. Typed'
  BY <1>1, <1>3, <1>4 DEF RunInv, Typed
<1>6. RowHolds' /\ NoneHolds'
  BY <1>1, <1>2 DEF RunInv, RowHolds, NoneHolds, NoContainer, Active
<1>7. RenewalHolds' /\ StartHolds'
  BY <1>1 DEF RunInv, RenewalHolds, StartHolds, Dead
<1>8. MaterialHolds'
  BY <1>1, <1>2, ConstantFacts DEF MaterialHolds
<1>9. PlaceHolds' /\ RenewingHolds'
  BY <1>1, <1>2, <1>3, <1>4, ReleasedFacts DEF PlaceHolds, RenewingHolds, Active, Sealed
<1> QED
  BY <1>4, <1>5, <1>6, <1>7, <1>8, <1>9 DEF RunInv

\* The renewal is answered as not done.
LEMMA CancelPreparedRenewalKeeps ==
    ASSUME RunInv, CancelPreparedRenewal
    PROVE  RunInv'
<1> USE DEF Op
<1>1. /\ job.at = "cancel" /\ row' = [row EXCEPT !.status = "running", !.renewal = NoRenewal]
      /\ ops' = FailRunning("renew") /\ GoSeeing("look", row')
      /\ UNCHANGED <<lease, secret, box, sound, late, overdue, broker, permitted, clock, faults>>
  BY DEF CancelPreparedRenewal, docker, world
<1>2. /\ Active /\ row.renewal.phase = "prepared" /\ row \in RowType
      /\ secret = Sealed(row.renewal.old)
      /\ ops \in [Op -> {"none", "running", "succeeded", "failed"}]
      /\ job.kind \in {"retry", "reap", "startup"} /\ "look" \in Step /\ job \in JobType
  BY <1>1, RowAt, KindAt DEF RunInv, RenewingHolds, Typed, Step
<1>3. secret = Sealed(row.expiry) /\ ops["renew"] # "none"
  BY <1>2, ConstantFacts DEF RunInv, RenewalHolds
<1>4. /\ ops' \in [Op -> {"none", "running", "succeeded", "failed"}]
      /\ ops'["start"] = ops["start"] /\ ops'["renew"] # "none"
  BY <1>1, <1>2, <1>3, FailRunningFacts
<1>5. row' \in RowType /\ row'.status = "running" /\ row'.known /\ lease # "released"
  BY <1>1, <1>2, SettledFacts, ReleasedFacts, ConstantFacts DEF RunInv, StartHolds
<1>6. /\ job' \in JobType /\ job'.at = "look" /\ job'.kind = job.kind
      /\ job'.seen.status = row'.status /\ job'.seen.known = row'.known
  BY <1>1, <1>2, <1>5, GoSeeingFacts
<1>7. KindHolds'
  BY <1>1, <1>2, <1>6, KindAt DEF RunInv, KindHolds
<1> QED
  BY <1>1, <1>2, <1>3, <1>4, <1>5, <1>6, <1>7, SettledKeeps

\* A container that was found is identified.
LEMMA IdentifyKeeps ==
    ASSUME RunInv, Identify
    PROVE  RunInv'
<1>1. /\ job.at = "identify" /\ row' = IF job.seen.known THEN row ELSE RecordedContainer(row)
      /\ UNCHANGED <<ops, lease, secret, box, sound, late, overdue, broker, permitted, clock, faults>>
  BY DEF Identify, docker, world
<1>2. /\ Active /\ row.status # "none" /\ late = NotLate /\ ops["start"] # "none"
      /\ row \in RowType /\ RowHolds /\ job \in JobType
      /\ job.seen.known => row.known
      /\ lease # "released"
      /\ job.kind \in {"retry", "reap", "startup"} /\ {"intent", "inspect"} \subseteq Step
  BY <1>1, RowAt, KindAt DEF RunInv, PlaceHolds, Typed, Step
<1>3. /\ row' \in RowType /\ Active' /\ row'.known
      /\ row'.cleanup = row.cleanup /\ row'.lease = row.lease
      /\ row'.expiry = row.expiry /\ row'.renewal = row.renewal
      /\ row'.status = "cleanup_pending" => row'.cleanup
      /\ row'.status \in {"running", "reserved"} => row' = row
      /\ row'.absences = 0 => row'.elapsed = 0
  <2>1. CASE job.seen.known
    BY <1>1, <1>2, <2>1 DEF RowHolds, Active
  <2>2. CASE ~job.seen.known
    BY <1>1, <1>2, <2>2, RecordedFacts DEF RowHolds
  <2> QED
    BY <2>1, <2>2
<1>4. job' \in JobType /\ job'.at \in {"intent", "inspect"} /\ job'.kind = job.kind
  <2>1. CASE Go("intent")
    BY <1>2, <2>1, GoFacts
  <2>2. CASE GoSeeing("inspect", row')
    BY <1>2, <1>3, <2>2, GoSeeingFacts
  <2> QED
    BY <2>1, <2>2 DEF Identify
<1>5. KindHolds'
  BY <1>1, <1>2, <1>4, KindAt DEF RunInv, KindHolds
<1>6. Typed'
  BY <1>1, <1>3, <1>4 DEF RunInv, Typed
<1>7. RowHolds' /\ NoneHolds'
  BY <1>1, <1>2, <1>3 DEF RowHolds, NoneHolds, NoContainer, Active
<1>8. RenewalHolds' /\ MaterialHolds'
  BY <1>1, <1>3, <1>4 DEF RunInv, RenewalHolds, MaterialHolds
<1>9. StartHolds'
  BY <1>1, <1>2, <1>3 DEF RunInv, StartHolds, Dead, Active
<1>10. PlaceHolds' /\ RenewingHolds'
  BY <1>1, <1>2, <1>3, <1>4 DEF PlaceHolds, RenewingHolds, Active
<1> QED
  BY <1>4, <1>5, <1>6, <1>7, <1>8, <1>9, <1>10 DEF RunInv

\* A run whose container ended by itself goes to its cleanup.
LEMMA RecordUnexpectedExitKeeps ==
    ASSUME RunInv, RecordUnexpectedExit
    PROVE  RunInv'
<1>1. /\ job.at \in {"vanished", "exited"}
      /\ row' = IF row.status = "running" THEN CleanupIntent(row) ELSE row
      /\ Go(IF job.at = "exited" THEN "intent" ELSE "release")
      /\ UNCHANGED <<ops, lease, secret, box, sound, late, overdue, broker, permitted, clock, faults>>
  BY DEF RecordUnexpectedExit, docker, world
<1>2. /\ Active /\ row.status # "none" /\ ops["start"] # "none"
      /\ job.at = "vanished" => NoContainerButOverdue
      /\ job.kind \in {"retry", "reap", "startup"} /\ {"intent", "release"} \subseteq Step
  BY <1>1, RowAt, KindAt DEF RunInv, PlaceHolds, Step
<1>3. /\ job' \in JobType /\ job'.at \in {"intent", "release"} /\ job'.kind = job.kind
      /\ KindHolds' /\ (job'.at = "release" => NoContainerButOverdue)
  <2>1. PICK p \in {"intent", "release"} : Go(p) /\ (p = "release" => job.at = "vanished")
    BY <1>1
  <2>2. job' \in JobType /\ job'.at = p /\ job'.kind = job.kind /\ KindHolds'
    BY <1>1, <1>2, <2>1, GoKind
  <2> QED
    BY <1>2, <2>1, <2>2
<1>4. CASE row.status = "running"
  <2>1. /\ row' \in RowType /\ row'.status = "cleanup_pending" /\ row'.cleanup
        /\ RowHolds' /\ NoneHolds' /\ RenewalHolds' /\ StartHolds' /\ MaterialHolds'
    BY <1>1, <1>2, <1>4, IntentKeeps
  <2>2. Typed'
    BY <1>1, <1>3, <2>1 DEF RunInv, Typed
  <2>3. PlaceHolds' /\ RenewingHolds'
    BY <1>1, <1>2, <1>3, <2>1, ReleasedFacts DEF PlaceHolds, RenewingHolds, Active, NoContainer
  <2> QED
    BY <1>3, <2>1, <2>2, <2>3 DEF RunInv
<1>5. CASE row.status # "running"
  <2>1. Still /\ faults' \in 0..MaxFaults /\ row' = row
    BY <1>1, <1>5 DEF Still, RunInv, Typed
  <2>2. PlaceHolds' /\ RenewingHolds'
    BY <1>1, <1>2, <1>3, <1>5, <2>1, ReleasedFacts DEF PlaceHolds, RenewingHolds, Active, NoContainer
  <2> QED
    BY <1>1, <1>3, <2>1, <2>2, StillKeeps
<1> QED
  BY <1>4, <1>5

\* The steps of a recovery.
LEMMA RecoverStepKeeps ==
    ASSUME RunInv, RecoverStep
    PROVE  RunInv'
BY RecoverTargetKeeps, RecoverCredentialRenewalKeeps, RollbackExpiryRenewalKeeps,
   CancelPreparedRenewalKeeps, FailRenewalMaterialRecoveryKeeps, LookKeeps, IdentifyKeeps,
   InspectKeeps, RecordUnexpectedExitKeeps
   DEF RecoverStep

-----------------------------------------------------------------------------
(* The broker process                                                      *)

\* The broker comes up and looks at every run before it admits mutations.
LEMMA BrokerStartsKeeps ==
    ASSUME RunInv, BrokerStarts
    PROVE  RunInv'
<1>1. /\ broker = "down" /\ broker' = "listening" /\ UNCHANGED faults
      /\ job' = [Idle EXCEPT !.kind = "startup", !.at = "preflight"]
      /\ UNCHANGED <<row, ops, lease, secret, box, sound, late, overdue, permitted, clock>>
  BY DEF BrokerStarts, durable, docker
<1>2. job' \in JobType /\ job'.at = "preflight" /\ job'.kind = "startup"
  BY <1>1, ConstantFacts DEF JobType, Step
<1>3. Typed' /\ KindHolds'
  BY <1>1, <1>2, ConstantFacts DEF RunInv, Typed, KindHolds
<1>4. RowHolds' /\ NoneHolds' /\ RenewalHolds' /\ StartHolds'
  BY <1>1, ReleasedFacts DEF RunInv, RowHolds, NoneHolds, RenewalHolds, StartHolds, Dead, NoContainer
<1>5. MaterialHolds' /\ PlaceHolds' /\ RenewingHolds'
  BY <1>2 DEF MaterialHolds, PlaceHolds, RenewingHolds
<1> QED
  BY <1>3, <1>4, <1>5 DEF RunInv

\* A run is fenced, or its material is proved, before its recovery goes on.
LEMMA PreflightKeeps ==
    ASSUME RunInv, Preflight
    PROVE  RunInv'
<1>1. /\ job.at = "preflight" /\ job.kind = "startup" /\ broker = "listening"
      /\ UNCHANGED <<lease, secret, box, sound, late, overdue, broker, permitted, clock, faults>>
  BY DEF Preflight, docker, world, RunInv, KindHolds
<1>2. /\ row \in RowType /\ job \in JobType /\ "read" \in Step
      /\ Active => ops["start"] # "none"
  BY DEF RunInv, Typed, Step, NoneHolds, Active
<1>3. ASSUME Done \/ (Active /\ Go("read"))
      PROVE  job' \in JobType /\ job'.at \in {"idle", "read"} /\ KindHolds'
                /\ (job'.at = "read" => Active)
  <2>1. CASE Done
    BY <2>1, DoneKind
  <2>2. CASE Active /\ Go("read")
    <3>1. job' \in JobType /\ job'.at = "read" /\ job'.kind = "startup"
      BY <1>1, <1>2, <2>2, GoFacts
    <3> QED
      BY <1>1, <2>2, <3>1 DEF KindHolds
  <2> QED
    BY <1>3, <2>1, <2>2
<1>4. CASE /\ Active /\ row.cleanup /\ DropRenewal /\ (Done \/ Go("read"))
  <2>1. job' \in JobType /\ job'.at \in {"idle", "read"} /\ KindHolds'
    BY <1>3, <1>4
  <2>2. /\ row' \in RowType /\ row'.status = "cleanup_pending" /\ row'.cleanup
        /\ ops' \in [Op -> {"none", "running", "succeeded", "failed"}]
        /\ ops'["start"] = ops["start"]
        /\ RowHolds' /\ NoneHolds' /\ RenewalHolds' /\ StartHolds' /\ MaterialHolds'
    BY <1>1, <1>4, DropRenewalKeeps
  <2>3. Typed'
    BY <1>1, <2>1, <2>2 DEF RunInv, Typed
  <2>4. PlaceHolds' /\ RenewingHolds'
    BY <1>2, <1>4, <2>1, <2>2 DEF PlaceHolds, RenewingHolds
  <2> QED
    BY <2>1, <2>2, <2>3, <2>4 DEF RunInv
<1>5. ASSUME UNCHANGED <<row, ops>>, Done \/ (Active /\ Go("read")),
             ~Active \/ row.cleanup \/ PolicyMaterialIsProven
      PROVE  RunInv'
  <2>1. /\ job' \in JobType /\ job'.at \in {"idle", "read"} /\ KindHolds'
        /\ (job'.at = "read" => Active)
    BY <1>3, <1>5
  <2>2. Typed'
    BY <1>1, <1>5, <2>1 DEF RunInv, Typed
  <2>3. RowHolds' /\ NoneHolds' /\ RenewalHolds' /\ StartHolds'
    BY <1>1, <1>5 DEF RunInv, RowHolds, NoneHolds, RenewalHolds, StartHolds, Dead, NoContainer
  <2>4. MaterialHolds'
    <3>1. SUFFICES ASSUME row.status = "running", ~row.cleanup, row.renewal = NoRenewal
                   PROVE  secret = Sealed(row.expiry)
      BY <1>1, <1>5 DEF MaterialHolds, Sealed
    <3>2. Mounted
      BY <1>5, <3>1, ConstantFacts DEF PolicyMaterialIsProven, Active
    <3> QED
      BY <3>2 DEF Mounted, Sealed, RunInv, Typed
  <2>5. PlaceHolds' /\ RenewingHolds'
    BY <1>2, <1>5, <2>1 DEF PlaceHolds, RenewingHolds, Active
  <2> QED
    BY <2>1, <2>2, <2>3, <2>4, <2>5 DEF RunInv
<1>6. CASE Active /\ row' = CleanupIntent(row) /\ UNCHANGED <<ops, job>>
  <2>1. /\ row' \in RowType /\ row'.status = "cleanup_pending"
        /\ RowHolds' /\ NoneHolds' /\ RenewalHolds' /\ StartHolds' /\ MaterialHolds'
    BY <1>1, <1>6, IntentKeeps
  <2>2. Typed' /\ KindHolds'
    BY <1>1, <1>6, <2>1 DEF RunInv, Typed, KindHolds
  <2>3. PlaceHolds' /\ RenewingHolds'
    BY <1>1, <1>6 DEF PlaceHolds, RenewingHolds
  <2> QED
    BY <2>1, <2>2, <2>3 DEF RunInv
<1>7. CASE ~Active
  <2>1. Done /\ UNCHANGED <<row, ops>>
    BY <1>7 DEF Preflight
  <2> QED
    BY <1>5, <1>7, <2>1
<1>8. CASE Active /\ row.cleanup
  <2>1. DropRenewal /\ (Done \/ Go("read"))
    BY <1>8 DEF Preflight
  <2> QED
    BY <1>4, <1>8, <2>1
<1>9. CASE Active /\ ~row.cleanup
  <2>1. CASE PolicyMaterialIsProven
    <3>1. (Done \/ Go("read")) /\ UNCHANGED <<row, ops>>
      BY <1>9, <2>1 DEF Preflight
    <3> QED
      BY <1>5, <1>9, <2>1, <3>1
  <2>2. CASE ~PolicyMaterialIsProven
    <3>1. row' = CleanupIntent(row) /\ UNCHANGED <<ops, job>>
      BY <1>9, <2>2 DEF Preflight
    <3> QED
      BY <1>6, <1>9, <3>1
  <2> QED
    BY <2>1, <2>2
<1> QED
  BY <1>7, <1>8, <1>9

\* Mutations are admitted once startup has looked at the run.
LEMMA BeginMutationAdmissionKeeps ==
    ASSUME RunInv, BeginMutationAdmission
    PROVE  RunInv'
<1>1. /\ broker = "listening" /\ broker' = "open" /\ job.kind # "startup"
      /\ UNCHANGED <<row, ops, lease, secret, box, sound, late, overdue, permitted, clock, faults, job>>
  BY DEF BeginMutationAdmission, durable, docker
<1>2. job.at # "preflight"
  BY <1>1 DEF RunInv, KindHolds
<1>3. Typed' /\ KindHolds' /\ MaterialHolds'
  BY <1>1, <1>2, ConstantFacts DEF RunInv, Typed, KindHolds, MaterialHolds
<1>4. RowHolds' /\ NoneHolds' /\ RenewalHolds' /\ StartHolds'
  BY <1>1, ReleasedFacts DEF RunInv, RowHolds, NoneHolds, RenewalHolds, StartHolds, Dead, NoContainer
<1>5. PlaceHolds' /\ RenewingHolds'
  BY <1>1, ReleasedFacts DEF RunInv, PlaceHolds, RenewingHolds, Dead, NoContainer, Active, AbsenceIsStable
<1> QED
  BY <1>3, <1>4, <1>5 DEF RunInv

\* The broker dies: a create under way may still take effect.
LEMMA CrashKeeps ==
    ASSUME RunInv, Crash
    PROVE  RunInv'
<1>1. /\ broker' = "down" /\ Done /\ late' = (IF job.at = "create" THEN 0 ELSE late)
      /\ faults' \in 0..MaxFaults
      /\ UNCHANGED <<row, ops, lease, secret, box, sound, overdue, permitted, clock>>
  BY TimeFacts DEF Crash, durable, RunInv, Typed
<1>2. job' \in JobType /\ job'.at = "idle" /\ KindHolds'
  BY <1>1, DoneKind
<1>3. Typed'
  <2>1. late \in 0..NotLate
    BY DEF RunInv, Typed
  <2>2. late' \in 0..NotLate
    BY <1>1, <2>1, TimeFacts DEF NotLate
  <2>3. Typed
    BY DEF RunInv
  <2> QED
    BY <1>1, <1>2, <2>2, <2>3 DEF Typed
<1>4. MaterialHolds' /\ PlaceHolds' /\ RenewingHolds'
  BY <1>1, <1>2 DEF MaterialHolds, PlaceHolds, RenewingHolds
<1>5. RowHolds' /\ NoneHolds' /\ RenewalHolds' /\ StartHolds'
  <2>1. CASE job.at = "create"
    <3>1. /\ ops["start"] = "running" /\ Active /\ NoContainer /\ ~row.known
          /\ lease # "released" /\ row.absences = 0 /\ row.status # "running"
      BY <2>1, EarlyFacts
    <3>2. row.status # "reserved"
      BY <2>1 DEF RunInv, PlaceHolds
    <3> QED
      BY <1>1, <3>1, <3>2 DEF RunInv, RowHolds, NoneHolds, RenewalHolds, StartHolds,
                              NoContainer, Active
  <2>2. CASE job.at # "create"
    BY <1>1, <2>2 DEF RunInv, RowHolds, NoneHolds, RenewalHolds, StartHolds, Dead, NoContainer
  <2> QED
    BY <2>1, <2>2
<1> QED
  BY <1>2, <1>3, <1>4, <1>5 DEF RunInv

\* The host restarts: the credential and every process are lost.
LEMMA RebootKeeps ==
    ASSUME RunInv, Reboot
    PROVE  RunInv'
<1>1. /\ broker' = "down" /\ Done /\ late' = NotLate /\ secret' = NoSecret
      /\ box' = IF box = "running" THEN "exited" ELSE box
      /\ faults' \in 0..MaxFaults
      /\ UNCHANGED <<row, ops, lease, sound, overdue, permitted, clock>>
  BY TimeFacts DEF Reboot, durable, RunInv, Typed
<1>2. job' \in JobType /\ job'.at = "idle" /\ KindHolds'
  BY <1>1, DoneKind
<1>3. Typed'
  BY <1>1, <1>2, ConstantFacts DEF RunInv, Typed
<1>4. MaterialHolds' /\ PlaceHolds' /\ RenewingHolds'
  BY <1>1, <1>2 DEF MaterialHolds, PlaceHolds, RenewingHolds
<1>5. RowHolds' /\ NoneHolds'
  BY <1>1, ConstantFacts, TimeFacts, ReleasedFacts DEF RunInv, RowHolds, NoneHolds, NoContainer
<1>6. RenewalHolds' /\ StartHolds'
  BY <1>1 DEF RunInv, RenewalHolds, StartHolds, Dead
<1> QED
  BY <1>2, <1>3, <1>4, <1>5, <1>6 DEF RunInv

-----------------------------------------------------------------------------
(* What happens around the broker                                          *)

\* A create that was given up takes effect, or never will.
LEMMA LateCreateKeeps ==
    ASSUME RunInv, LateCreate
    PROVE  RunInv'
<1>1. /\ late # NotLate /\ late' = NotLate
      /\ \/ /\ box' = "created" /\ sound' \in BOOLEAN
            /\ overdue' = (late = Grace \/ job.at \in ListedAt)
         \/ UNCHANGED <<box, sound, overdue>>
      /\ UNCHANGED <<row, ops, lease, secret, broker, permitted, clock, faults, job>>
  BY DEF LateCreate, durable, world
<1>2. /\ ~row.known /\ box = "absent" /\ ~NoContainer
      /\ row.status \notin {"none", "reserved", "running"}
      /\ Dead => row.cleanup \/ row.status \in Ended
      /\ late \in 0..NotLate
      /\ NoContainerButOverdue => late = Grace
      /\ NoContainerButOverdue \/ job.at \in ListedAt =>
            (box' = "created" /\ overdue') \/ (box' = "absent" /\ late' >= Grace)
  <2>1. late \in 0..NotLate
    BY DEF RunInv, Typed
  <2>2. /\ ~row.known /\ box = "absent" /\ ~NoContainer
        /\ row.status \notin {"none", "reserved", "running"}
        /\ Dead => row.cleanup \/ row.status \in Ended
    BY <1>1 DEF RunInv, RowHolds, NoneHolds, NoContainer, Dead
  <2>3. NoContainerButOverdue => late = Grace
    BY <1>1, <2>1, <2>2, TimeFacts DEF NotLate
  <2>4. CASE box' = "created" /\ overdue' = (late = Grace \/ job.at \in ListedAt)
    <3>1. NoContainerButOverdue \/ job.at \in ListedAt => overdue'
      BY <2>3, <2>4
    <3> QED
      BY <2>1, <2>2, <2>3, <2>4, <3>1
  <2>5. CASE UNCHANGED <<box, sound, overdue>>
    <3>1. late' >= Grace
      BY <1>1, ConstantFacts, TimeFacts
    <3> QED
      BY <2>1, <2>2, <2>3, <2>5, <3>1
  <2> QED
    BY <1>1, <2>4, <2>5
<1>3. Typed'
  <2>1. overdue' \in BOOLEAN
    BY <1>1 DEF RunInv, Typed
  <2> QED
    BY <1>1, <2>1, ConstantFacts DEF RunInv, Typed
<1>4. KindHolds' /\ MaterialHolds' /\ RenewalHolds' /\ RenewingHolds'
  BY <1>1 DEF RunInv, KindHolds, MaterialHolds, RenewalHolds, RenewingHolds
<1>5. RowHolds' /\ NoneHolds'
  BY <1>1, <1>2 DEF RunInv, RowHolds, NoneHolds, NoContainer
<1>6. StartHolds'
  BY <1>1, <1>2 DEF RunInv, StartHolds, Dead
<1>7. PlaceHolds'
  BY <1>1, <1>2 DEF RunInv, PlaceHolds, NoContainer, Dead, Active, AbsenceIsStable
<1> QED
  BY <1>3, <1>4, <1>5, <1>6, <1>7 DEF RunInv

\* An observation of the host records the container, or reopens the run.
LEMMA ObserveContainerKeeps ==
    ASSUME RunInv, ObserveContainer
    PROVE  RunInv'
<1>1. /\ box # "absent" /\ row.status # "none" /\ row \in RowType /\ late = NotLate
      /\ row' = IF row.status = "failed"
                THEN [row EXCEPT !.known = TRUE, !.cleanup = TRUE, !.status = "cleanup_pending"]
                ELSE [row EXCEPT !.known = TRUE]
      /\ row.status # "failed" => Active
      /\ UNCHANGED <<ops, lease, secret, box, sound, late, overdue, broker, permitted, clock, faults, job>>
  BY DEF ObserveContainer, Active, docker, world, RunInv, Typed, RowHolds
<1>2. /\ row' \in RowType /\ row'.known /\ Active'
      /\ row'.lease = row.lease /\ row'.expiry = row.expiry /\ row'.renewal = row.renewal
      /\ row'.absences = row.absences /\ row'.elapsed = row.elapsed
      /\ \/ /\ row.status = "failed" /\ row'.status = "cleanup_pending" /\ row'.cleanup
         \/ Active /\ row'.status = row.status /\ row'.cleanup = row.cleanup
  BY <1>1 DEF RowType, Active
<1>3. Typed' /\ KindHolds'
  BY <1>1, <1>2 DEF RunInv, Typed, KindHolds
<1>4. RowHolds' /\ NoneHolds' /\ RenewalHolds' /\ MaterialHolds'
  BY <1>1, <1>2 DEF RunInv, RowHolds, NoneHolds, RenewalHolds, MaterialHolds, NoContainer, Active
<1>5. StartHolds'
  BY <1>1, <1>2 DEF RunInv, StartHolds, Dead, Active
<1>6. job.at \in ActiveAt => Active
  BY DEF RunInv, PlaceHolds
<1>7. PlaceHolds' /\ RenewingHolds'
  BY <1>1, <1>2, <1>6 DEF RunInv, PlaceHolds, RenewingHolds, NoContainer, Dead, Active, Sealed
<1> QED
  BY <1>2, <1>3, <1>4, <1>5, <1>7 DEF RunInv

\* A container exits or is removed by somebody else.
LEMMA ContainerEndsKeeps ==
    ASSUME RunInv, ContainerExits \/ ContainerVanishes
    PROVE  RunInv'
<1>1. /\ box # "absent" /\ box' \in {"exited", "absent"} /\ faults' \in 0..MaxFaults
      /\ box' = "exited" => box = "running"
      /\ UNCHANGED <<row, ops, lease, secret, sound, late, overdue, broker, permitted, clock, job>>
  BY TimeFacts DEF ContainerExits, ContainerVanishes, durable, world, RunInv, Typed
<1>2. /\ late = NotLate /\ row.status # "none"
      /\ NoContainerButOverdue => NoContainerButOverdue'
      /\ RowHolds' /\ NoneHolds' /\ RenewalHolds' /\ StartHolds' /\ MaterialHolds'
      /\ Dead => Dead'
  BY <1>1, BoxKeeps
<1>3. Typed' /\ KindHolds' /\ RenewingHolds'
  BY <1>1 DEF RunInv, Typed, KindHolds, RenewingHolds
<1>4. PlaceHolds'
  BY <1>1, <1>2 DEF RunInv, PlaceHolds, NoContainer, Active, AbsenceIsStable
<1> QED
  BY <1>2, <1>3, <1>4 DEF RunInv

\* Time passes; an absence that was observed ages with the create it waits for.
LEMMA TickKeeps ==
    ASSUME RunInv, Tick
    PROVE  RunInv'
<1>1. /\ row.status # "none"
      /\ clock' = IF clock < Horizon THEN clock + 1 ELSE clock
      /\ row' = IF row.absences > 0 /\ row.elapsed < Grace THEN [row EXCEPT !.elapsed = @ + 1] ELSE row
      /\ late' = IF late < Grace THEN late + 1 ELSE late
      /\ UNCHANGED <<ops, lease, secret, box, sound, overdue, broker, permitted, faults, job>>
  BY DEF Tick
<1>2. row \in RowType /\ late \in 0..NotLate /\ clock \in Time
  BY DEF RunInv, Typed
<1>3. /\ row' \in RowType /\ row'.status = row.status
      /\ row'.cleanup = row.cleanup /\ row'.known = row.known /\ row'.lease = row.lease
      /\ row'.expiry = row.expiry /\ row'.renewal = row.renewal
      /\ row'.absences = row.absences
      /\ row.absences = 0 => row'.elapsed = row.elapsed
      /\ row'.elapsed = row.elapsed \/ row'.elapsed = row.elapsed + 1
      /\ row.elapsed \in Nat
  <2>1. CASE row.absences > 0 /\ row.elapsed < Grace
    BY <1>1, <1>2, <2>1, TimeFacts DEF RowType
  <2>2. CASE ~(row.absences > 0 /\ row.elapsed < Grace)
    BY <1>1, <1>2, <2>2 DEF RowType
  <2> QED
    BY <2>1, <2>2
<1>4. /\ late' \in 0..NotLate /\ clock' \in Time /\ NotLate' = NotLate
      /\ late' = NotLate <=> late = NotLate
      /\ late \in Nat /\ (late >= Grace => late' >= Grace)
      /\ late < Grace => late' = late + 1
      /\ late = Grace => late' = Grace
  BY <1>1, <1>2, TimeFacts DEF NotLate, Time
<1>5. Typed'
  BY <1>1, <1>3, <1>4 DEF RunInv, Typed
<1>6. KindHolds' /\ MaterialHolds' /\ RenewalHolds' /\ RenewingHolds'
  BY <1>1, <1>3 DEF RunInv, KindHolds, MaterialHolds, RenewalHolds, RenewingHolds, Sealed
<1>7. row'.absences > 0 /\ late' # NotLate => row'.elapsed <= late'
  <2>1. row.absences > 0 /\ late # NotLate => row.elapsed <= late
    BY DEF RunInv, RowHolds
  <2>2. late # NotLate => late <= Grace
    BY <1>2, TimeFacts DEF NotLate
  <2>3. row'.elapsed <= Grace
    BY <1>3, TimeFacts DEF RowType
  <2> QED
    BY <1>3, <1>4, <2>1, <2>2, <2>3, TimeFacts
<1>8. RowHolds' /\ NoneHolds'
  BY <1>1, <1>3, <1>4, <1>7 DEF RunInv, RowHolds, NoneHolds, NoContainer
<1>9. StartHolds'
  BY <1>1, <1>3, <1>4 DEF RunInv, StartHolds, Dead
<1>10. PlaceHolds'
  BY <1>1, <1>3, <1>4 DEF RunInv, PlaceHolds, NoContainer, Dead, Active, Sealed
<1> QED
  BY <1>5, <1>6, <1>8, <1>9, <1>10 DEF RunInv

\* The administrator revokes the policy of the run.
LEMMA RevokePolicyKeeps ==
    ASSUME RunInv, RevokePolicy
    PROVE  RunInv'
<1>1. /\ Active /\ row' = CleanupIntent(row) /\ faults' \in 0..MaxFaults
      /\ UNCHANGED <<ops, lease, secret, box, sound, late, overdue, broker, permitted, clock, job>>
  BY TimeFacts DEF RevokePolicy, docker, RunInv, Typed
<1>2. /\ row' \in RowType /\ row'.status = "cleanup_pending" /\ row'.cleanup
      /\ row'.known = row.known /\ row'.lease = row.lease
      /\ row'.expiry = row.expiry /\ row'.renewal = row.renewal
      /\ row'.absences = row.absences /\ row'.elapsed = row.elapsed
      /\ RowHolds' /\ NoneHolds' /\ RenewalHolds' /\ StartHolds' /\ MaterialHolds'
  BY <1>1, IntentKeeps
<1>3. Typed' /\ KindHolds' /\ RenewingHolds'
  BY <1>1, <1>2 DEF RunInv, Typed, KindHolds, RenewingHolds, Sealed
<1>4. PlaceHolds'
  BY <1>1, <1>2 DEF RunInv, PlaceHolds, NoContainer, Active, AbsenceIsStable, Dead, Sealed
<1> QED
  BY <1>2, <1>3, <1>4 DEF RunInv

\* The template is disabled, and the port is lost to its lifecycle or to a client.
LEMMA OutsideKeeps ==
    ASSUME RunInv, Disable \/ ExpireLease \/ ClientReleasesPort
    PROVE  RunInv'
<1>1. /\ lease' = lease \/ (lease = "active" /\ lease' = "lost")
      /\ permitted' \in BOOLEAN /\ faults' \in 0..MaxFaults
      /\ UNCHANGED <<row, ops, secret, box, sound, late, overdue, broker, clock, job>>
  <2>1. permitted \in BOOLEAN /\ faults \in 0..MaxFaults
    BY DEF RunInv, Typed
  <2>2. CASE Disable
    <3>1. permitted' \in BOOLEAN
      BY <2>2, Zenon DEF Disable
    <3> QED
      BY <2>1, <2>2, <3>1, TimeFacts DEF Disable, durable, docker
  <2>3. CASE ExpireLease
    BY <2>1, <2>3 DEF ExpireLease, docker, world
  <2>4. CASE ClientReleasesPort
    BY <2>1, <2>4, TimeFacts DEF ClientReleasesPort, docker
  <2> QED
    BY <2>2, <2>3, <2>4
<1>2. Typed' /\ KindHolds' /\ MaterialHolds' /\ RenewalHolds' /\ RenewingHolds'
  BY <1>1 DEF RunInv, Typed, KindHolds, MaterialHolds, RenewalHolds, RenewingHolds
<1>3. RowHolds' /\ NoneHolds' /\ StartHolds'
  BY <1>1 DEF RunInv, RowHolds, NoneHolds, StartHolds, Dead, NoContainer
<1>4. PlaceHolds'
  BY <1>1 DEF RunInv, PlaceHolds, NoContainer, Active, AbsenceIsStable, Dead
<1> QED
  BY <1>2, <1>3, <1>4 DEF RunInv

-----------------------------------------------------------------------------
(* Every step, and the theorems.                                           *)

\* A run begins with nothing.
LEMMA InitHolds ==
    ASSUME Init
    PROVE  RunInv
<1> USE DEF Op
<1>1. Typed
  <2>1. row \in RowType /\ job \in JobType /\ late \in 0..NotLate /\ clock \in Time
    BY ConstantFacts, TimeFacts DEF Init
  <2>2. secret \in [held : BOOLEAN, expiry : Time, next : Time] /\ faults \in 0..MaxFaults
    BY ConstantFacts, TimeFacts DEF Init
  <2>3. sound \in BOOLEAN /\ permitted \in BOOLEAN /\ overdue \in BOOLEAN
    BY DEF Init
  <2> QED
    BY <2>1, <2>2, <2>3 DEF Init, Typed
<1>2. KindHolds /\ RowHolds /\ RenewalHolds /\ StartHolds /\ MaterialHolds
  BY ConstantFacts, TimeFacts
     DEF Init, KindHolds, RowHolds, RenewalHolds, StartHolds, MaterialHolds, NoContainer, Dead
<1>3. NoneHolds /\ PlaceHolds /\ RenewingHolds
  BY ConstantFacts DEF Init, NoneHolds, PlaceHolds, RenewingHolds, NoContainer
<1> QED
  BY <1>1, <1>2, <1>3 DEF RunInv

\* Every step of the broker, its jobs and their surroundings keeps the invariant.
LEMMA NextKeeps ==
    ASSUME RunInv, [Next]_vars
    PROVE  RunInv'
<1>1. CASE BeginStart \/ BeginRenew \/ BeginFinish \/ Retry \/ Reap
  BY <1>1, BeginKeeps, ReadKeeps
<1>2. CASE JobStep \/ StepFails
  BY <1>2, AttentionKeeps, RejectKeeps, TerminalizeKeeps, FailKeeps, StartStepKeeps,
     RenewStepKeeps, CleanupStepKeeps, RecoverStepKeeps, PreflightKeeps, StepFailsKeeps
     DEF JobStep
<1>3. CASE BrokerStarts \/ BeginMutationAdmission \/ Crash \/ Reboot
  BY <1>3, BrokerStartsKeeps, BeginMutationAdmissionKeeps, CrashKeeps, RebootKeeps
<1>4. CASE LateCreate \/ ObserveContainer \/ ContainerExits \/ ContainerVanishes \/ Tick
  BY <1>4, LateCreateKeeps, ObserveContainerKeeps, ContainerEndsKeeps, TickKeeps
<1>5. CASE RevokePolicy \/ Disable \/ ExpireLease \/ ClientReleasesPort
  BY <1>5, RevokePolicyKeeps, OutsideKeeps
<1>6. CASE UNCHANGED vars
  <2>1. UNCHANGED <<row, ops, lease, secret, box, sound, late, overdue, broker, permitted, clock, faults, job>>
    BY <1>6 DEF vars, durable, docker, world
  <2>2. Typed' /\ KindHolds' /\ MaterialHolds' /\ RenewalHolds' /\ RenewingHolds'
    BY <2>1 DEF RunInv, Typed, KindHolds, MaterialHolds, RenewalHolds, RenewingHolds
  <2>3. RowHolds' /\ NoneHolds' /\ StartHolds'
    BY <2>1 DEF RunInv, RowHolds, NoneHolds, StartHolds, Dead, NoContainer
  <2>4. PlaceHolds'
    BY <2>1 DEF RunInv, PlaceHolds, NoContainer, Active, AbsenceIsStable, Dead
  <2> QED
    BY <2>2, <2>3, <2>4 DEF RunInv
<1> QED
  BY <1>1, <1>2, <1>3, <1>4, <1>5, <1>6 DEF Next

\* The inductive invariant holds throughout a run.
THEOREM RunInvariant ==
    Spec => []RunInv
<1>1. Init => RunInv
  BY InitHolds
<1>2. RunInv /\ [Next]_vars => RunInv'
  BY NextKeeps
<1> QED
  BY <1>1, <1>2, PTL DEF Spec

\* _complete_cleanup, _fail_before_create and the jobs around them: a run that
\* is recorded as ended has left no container, credential or lease behind, and
\* a port is given back only after its container is gone.
THEOREM RunLeavesNothing ==
    Spec => []NothingOutlivesTheRun
<1>1. RunInv => NothingOutlivesTheRun
  <2> SUFFICES ASSUME RunInv PROVE NothingOutlivesTheRun
    OBVIOUS
  <2>1. TypeOK
    <3>1. job.kind \in Op \cup {"idle", "retry", "reap", "startup"} /\ job.at \in Step
      BY DEF RunInv, Typed, JobType
    <3>2. row.renewal # NoRenewal =>
             /\ row.renewal.old # row.renewal.new
             /\ row.expiry = IF row.renewal.phase = "prepared" THEN row.renewal.old ELSE row.renewal.new
      BY DEF RunInv, RenewalHolds
    <3>3. row.status = "running" => row.known
      BY DEF RunInv, RowHolds
    <3> QED
      BY <3>1, <3>2, <3>3 DEF RunInv, Typed, TypeOK, RowType, Renewals
  <2>2. EndedLeavesNothing /\ LeaseOutlivesContainer
    BY DEF RunInv, RowHolds, NoContainer, EndedLeavesNothing, LeaseOutlivesContainer
  <2> QED
    BY <2>1, <2>2 DEF NothingOutlivesTheRun
<1> QED
  BY <1>1, RunInvariant, PTL

\* Recovery and renewal: a run that an admitted broker shows as running has its
\* credential for exactly its own expiry, and its start was not refused.
THEOREM RunningUsable ==
    Spec => []RunningMeansUsable
<1>1. RunInv => RunningMeansUsable
  <2> SUFFICES ASSUME RunInv PROVE RunningMeansUsable
    OBVIOUS
  <2>1. broker = "open" => job.at # "preflight"
    BY DEF RunInv, KindHolds
  <2>2. CredentialMatchesRun
    BY <2>1 DEF RunInv, MaterialHolds, CredentialMatchesRun, Sealed
  <2>3. FailedStartNeverRuns
    BY DEF RunInv, StartHolds, Dead, FailedStartNeverRuns
  <2> QED
    BY <2>2, <2>3 DEF RunningMeansUsable
<1> QED
  BY <1>1, RunInvariant, PTL

\* The steps that answer a renewal of a run that lives on.
LEMMA RenewalAnswers ==
    ASSUME RunInv, [Next]_vars, ops["renew"] = "running", ops'["renew"] # "running",
           row'.status = "running", ~row'.cleanup
    PROVE  Reject \/ FinalizeRenewal \/ CancelPreparedRenewal
<1> USE DEF Op
<1>1. ops \in [Op -> {"none", "running", "succeeded", "failed"}] /\ row \in RowType
  BY DEF RunInv, Typed
<1>2. ops' # ops
  OBVIOUS
<1>3. ~BeginStart /\ ~BeginRenew /\ ~BeginFinish
  BY <1>1 DEF BeginStart, BeginRenew, BeginFinish, Begin
<1>4. ~Retry /\ ~Reap /\ ~StepFails /\ ~BrokerStarts /\ ~BeginMutationAdmission /\ ~Crash /\ ~Reboot
  BY <1>2 DEF Retry, Reap, StepFails, BrokerStarts, BeginMutationAdmission, Crash, Reboot, durable
<1>5. ~LateCreate /\ ~ContainerExits /\ ~ContainerVanishes /\ ~Tick
  BY <1>2 DEF LateCreate, ContainerExits, ContainerVanishes, Tick, durable
<1>6. ~RevokePolicy /\ ~Disable /\ ~ExpireLease /\ ~ClientReleasesPort /\ ~(UNCHANGED vars)
  BY <1>2 DEF RevokePolicy, Disable, ExpireLease, ClientReleasesPort, durable, vars
<1>7. ~FailBeforeCreate
  BY <1>1, FailRunningFacts DEF FailBeforeCreate
<1>8. ~Attention /\ ~Terminalize /\ ~Fail
  BY <1>2, <1>7 DEF Attention, Terminalize, Fail, durable
<1>9. ~StartStep
  <2>1. ~CompleteRunning
    BY <1>1 DEF CompleteRunning
  <2> QED
    BY <1>2, <2>1 DEF StartStep, Prepare, Provision, PortUnavailable, BindPort, Creating,
                      Create, CreateFails, Record, Starting, Run, RunFails, durable
<1>10. RenewStep => FinalizeRenewal
  BY <1>2 DEF RenewStep, PrepareRenewalJournal, PrepareExpiryRenewal, CommitRenewalJournal,
              CommitExpiryRenewal, durable
<1>11. ~DropRenewal
  <2>1. CASE Active /\ row.cleanup
    BY <1>1, <2>1 DEF DropRenewal, RowType
  <2>2. CASE ~(Active /\ row.cleanup)
    BY <1>2, <2>2 DEF DropRenewal
  <2> QED
    BY <2>1, <2>2
<1>12. ~CleanupStep
  <2>1. ~PrepareCleanup
    BY <1>1, <1>2 DEF PrepareCleanup
  <2>2. ~CompleteCleanup
    BY <1>1 DEF CompleteCleanup, RowType
  <2> QED
    BY <1>2, <1>11, <2>1, <2>2
       DEF CleanupStep, PersistCleanupIntent, CancelRenewalForCleanup, Find,
           RecordCreateAbsence, Stopping, Stop, Removing, Remove, CommandFails, Verify,
           ReleaseRunSecret, durable
<1>13. RecoverStep => CancelPreparedRenewal
  BY <1>2 DEF RecoverStep, RecoverTarget, RecoverCredentialRenewal, RollbackExpiryRenewal,
              FailRenewalMaterialRecovery, Look, Identify, Inspect, RecordUnexpectedExit, durable
<1>14. ~Preflight
  BY <1>2, <1>11 DEF Preflight
<1>16. ~ObserveContainer
  BY <1>2 DEF ObserveContainer
<1>15. JobStep
  BY <1>3, <1>4, <1>5, <1>6, <1>16 DEF Next
<1> QED
  BY <1>8, <1>9, <1>10, <1>12, <1>13, <1>14, <1>15 DEF JobStep

\* renew and its recovery: a renewal that is answered while the run lives on has
\* moved row and credential to the new expiry, or left both at the old one.
THEOREM RenewalAllOrNothing ==
    Spec => RenewalIsAllOrNothing
<1> USE DEF Op
<1>1. ASSUME RunInv, [Next]_vars, ops["renew"] = "running", ops'["renew"] # "running",
             row'.status = "running", ~row'.cleanup
      PROVE  /\ secret' = [held |-> TRUE, expiry |-> row'.expiry, next |-> 0]
             /\ row'.expiry = IF ops'["renew"] = "succeeded" THEN row.renewal.new
                              ELSE IF row.renewal.phase = "none" THEN row.expiry
                              ELSE row.renewal.old
  <2>1. row \in RowType /\ ops \in [Op -> {"none", "running", "succeeded", "failed"}]
    BY <1>1 DEF RunInv, Typed
  <2>2. CASE Reject
    <3>1. /\ job.at = "reject" /\ ops' = FailRunning(job.op)
          /\ UNCHANGED <<row, secret>>
      BY <2>2 DEF Reject
    <3>2. job.op \in Op /\ job.op = "renew" /\ ops'["renew"] = "failed"
      <4>1. job.op \in Op
        BY <1>1 DEF RunInv, Typed, JobType
      <4> QED
        BY <1>1, <2>1, <3>1, <4>1, FailRunningFacts
    <3>3. job.kind = "renew" /\ broker # "down"
      <4>1. job.kind \in {"start", "renew", "finish"}
        BY <1>1, <3>1, KindAt DEF RunInv, Typed, JobType, KindHolds
      <4> QED
        BY <1>1, <3>1, <3>2, <4>1, KindAt DEF RunInv, KindHolds
    <3>4. row.renewal = NoRenewal
      BY <1>1, <3>1, <3>3 DEF RunInv, RenewingHolds
    <3>5. secret = Sealed(row.expiry)
      BY <1>1, <3>1, <3>3, <3>4 DEF RunInv, MaterialHolds
    <3> QED
      BY <3>1, <3>2, <3>4, <3>5, ConstantFacts DEF Sealed
  <2>3. CASE FinalizeRenewal
    <3>1. /\ job.at = "finalize" /\ row' = [row EXCEPT !.status = "running", !.renewal = NoRenewal]
          /\ ops' = [ops EXCEPT !["renew"] = "succeeded"] /\ UNCHANGED secret
      BY <2>3 DEF FinalizeRenewal
    <3>2. row.renewal.phase = "committing" /\ secret = Sealed(row.renewal.new)
      BY <1>1, <3>1 DEF RunInv, RenewingHolds
    <3>3. row'.expiry = row.expiry /\ row.expiry = row.renewal.new
      BY <1>1, <2>1, <3>1, <3>2, SettledFacts, ConstantFacts DEF RunInv, RenewalHolds
    <3> QED
      BY <2>1, <3>1, <3>2, <3>3 DEF Sealed
  <2>4. CASE CancelPreparedRenewal
    <3>1. /\ job.at = "cancel" /\ row' = [row EXCEPT !.status = "running", !.renewal = NoRenewal]
          /\ ops' = FailRunning("renew") /\ UNCHANGED secret
      BY <2>4 DEF CancelPreparedRenewal
    <3>2. row.renewal.phase = "prepared" /\ secret = Sealed(row.renewal.old)
      BY <1>1, <3>1 DEF RunInv, RenewingHolds
    <3>3. row'.expiry = row.expiry /\ row.expiry = row.renewal.old
      BY <1>1, <2>1, <3>1, <3>2, SettledFacts, ConstantFacts DEF RunInv, RenewalHolds
    <3>4. ops'["renew"] = "failed"
      BY <1>1, <2>1, <3>1, FailRunningFacts
    <3> QED
      BY <3>1, <3>2, <3>3, <3>4 DEF Sealed
  <2> QED
    BY <1>1, <2>2, <2>3, <2>4, RenewalAnswers
<1>2. RunInv /\ [Next]_vars =>
        [ops["renew"] = "running" /\ ops'["renew"] # "running"
            /\ row'.status = "running" /\ ~row'.cleanup
          => /\ secret' = [held |-> TRUE, expiry |-> row'.expiry, next |-> 0]
             /\ row'.expiry = IF ops'["renew"] = "succeeded" THEN row.renewal.new
                              ELSE IF row.renewal.phase = "none" THEN row.expiry
                              ELSE row.renewal.old]_vars
  BY <1>1
<1> QED
  BY <1>2, RunInvariant, PTL DEF Spec, RenewalIsAllOrNothing

==============================================================================
