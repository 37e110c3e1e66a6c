----------------------------- MODULE Scheduler ------------------------------
(***************************************************************************)
(* The target scheduler of testd: WeightedFairScheduler.select of          *)
(* universal_test_scheduler.py, TestdEngine.schedule that feeds and obeys  *)
(* it, and the store's projections it decides on (runnable_targets,        *)
(* active_allocations, the learned resource profile).                      *)
(*                                                                         *)
(* A turn reads the candidates, then the active executions, then the       *)
(* host's available memory, and only then chooses; it launches what it     *)
(* chose one by one.  Meanwhile executions grow, are sampled and end, and  *)
(* callers submit and cancel.  Memory is counted in whole units (MiB in    *)
(* the code); source_mode is "immutable" for every row the store hands     *)
(* out, so the live-worktree gate never closes and is left out.            *)
(***************************************************************************)
EXTENDS Integers, FiniteSets, FiniteSetsExt, Sequences, SequencesExt

CONSTANTS
    Target,         \* targets, as the integers that order their identifiers
    Workloads,      \* what callers may have submitted, and on which host
    MinReserve, MaxReserve,
    ColdStart,      \* estimate of a target without a profile
    Recent,         \* measured peaks a profile remembers
    LaunchBatch,
    MaxFaults       \* bound on failed launches and daemon restarts

ASSUME SchedulerAssumption ==
    /\ Target \subseteq Nat /\ IsFiniteSet(Target)
    /\ {ColdStart, Recent, LaunchBatch} \subseteq Nat \ {0}
    /\ {MinReserve, MaxReserve, MaxFaults} \subseteq Nat
    /\ \A w \in Workloads :
          /\ w.queued \cup w.late \subseteq Target
          /\ w.appetite \in [Target -> Nat]
          /\ w.total \in Nat \ {0} /\ w.shrinks \in BOOLEAN

VARIABLES
    workload,   \* the workload of this behaviour
    row,        \* state of each target row
    commitment, \* memory_commitment_mib of each row
    sample,     \* current_memory_bytes of each row, Unknown when NULL
    wait,       \* wait_code of each row
    peaks,      \* measured peaks of each (repository, target name), newest first
    resident,   \* memory each unit really holds
    high,       \* the most it has held: its cgroup's peak
    vuid,       \* _uid_vruntime
    vrepo,      \* _repo_vruntime
    turn,       \* the scheduling turn in progress
    faults

storeVars == <<row, commitment, sample, wait, peaks>>
hostVars == <<resident, high>>
fairVars == <<vuid, vrepo>>
vars == <<workload, storeVars, hostVars, fairVars, turn, faults>>

Uid == workload.uid             \* owner_uid of each target
Repo == workload.repo           \* repository_id
Name == workload.name           \* target_name
Priority == workload.priority   \* priority of its run
Age == workload.age             \* queued_at
UidCharge == workload.uidCharge     \* cost divided by the weight of its uid
RepoCharge == workload.repoCharge   \* cost divided by the weight of its repository
Exclusive == workload.exclusive     \* its exclusive_resources
Appetite == workload.appetite       \* memory the target grows to when it runs
Total == workload.total             \* MemTotal
MayShrink == workload.shrinks       \* an execution may return memory before it ends

Unknown == -1
Key(t) == <<Repo[t], Name[t]>>
Keys == {Key(t) : t \in Target}
Uids == {Uid[t] : t \in Target}
Repos == {Repo[t] : t \in Target}
Resources == UNION {Exclusive[t] : t \in Target}

RunningStates == {"starting", "running"}
Active == {t \in Target : row[t] \in RunningStates}
Places == {"cleanup", "idle", "candidates", "active", "choose", "launch"}

WaitCode == {"none", "host_memory", "exclusive_resource_busy"}

NoTurn(place) ==
    [at |-> place, candidates |-> {}, estimate |-> [t \in Target |-> 0],
     owed |-> 0, held |-> {}, left |-> 0, picked |-> <<>>,
     refused |-> [t \in Target |-> "none"]]

\* Columns of the rows, the turn in hand and the counters of fairness.
TypeOK ==
    /\ workload \in Workloads
    /\ row \in [Target -> {"none", "queued", "done"} \cup RunningStates]
    /\ commitment \in [Target -> Nat]
    /\ sample \in [Target -> Nat \cup {Unknown}]
    /\ wait \in [Target -> WaitCode]
    /\ peaks \in [Keys -> Seq(Nat)]
    /\ resident \in [Target -> Nat] /\ high \in [Target -> Nat]
    /\ vuid \in [Uids -> Nat] /\ vrepo \in [Repos -> Nat]
    /\ turn \in [at : Places, candidates : SUBSET Target,
                 estimate : [Target -> Nat], owed : Nat,
                 held : SUBSET Resources, left : Nat, picked : Seq(Target),
                 refused : [Target -> WaitCode]]
    /\ faults \in 0..MaxFaults

Init ==
    /\ workload \in Workloads
    /\ row = [t \in Target |-> CASE t \in workload.queued -> "queued"
                                 [] t \in workload.late -> "none"
                                 [] OTHER -> "done"]
    /\ commitment = [t \in Target |-> 0]
    /\ sample = [t \in Target |-> Unknown]
    /\ wait = [t \in Target |-> "none"]
    /\ peaks = [k \in Keys |-> <<>>]
    /\ resident = [t \in Target |-> 0] /\ high = [t \in Target |-> 0]
    /\ vuid = [u \in Uids |-> 0] /\ vrepo = [r \in Repos |-> 0]
    /\ turn = NoTurn("idle")
    /\ faults = 0

-----------------------------------------------------------------------------
(***************************************************************************)
(* Measures                                                                *)
(***************************************************************************)
\* host_memory_reserve_mib: five percent, rounded up, within its bounds.
Reserve == Max({MinReserve, Min({MaxReserve, (Total + 19) \div 20})})

\* MemAvailable.  Nothing else on the host competes for memory.
Available == LET used == MapThenSumSet(LAMBDA t : resident[t], Target)
             IN  IF used > Total THEN 0 ELSE Total - used

\* The learned peak of a target, or the cold-start default.
Estimate(t) == LET known == peaks[Key(t)]
               IN  IF known = <<>> THEN ColdStart ELSE Max({1} \cup Range(known))

\* Mutant: an execution without a sample owes nothing.
UnrealizedSampled(t) ==
    IF sample[t] = Unknown THEN 0 ELSE Max({0, commitment[t] - sample[t]})

\* _unrealized_memory_mib: what an active execution may still come to use.
Unrealized(t) ==
    IF sample[t] = Unknown THEN commitment[t]
    ELSE Max({0, commitment[t] - sample[t]})

\* Mutant: the time of queueing comes before the virtual runtimes.
FairKeyByAge(t) ==
    <<-Priority[t], Age[t], vuid[Uid[t]], vrepo[Repo[t]], Repo[t], t>>

\* _fair_key, compared lexicographically as a tuple.
FairKey(t) == <<-Priority[t], vuid[Uid[t]], vrepo[Repo[t]], Age[t], Repo[t], t>>
Precedes(a, b) ==
    \E i \in 1..Len(a) : a[i] < b[i] /\ \A j \in 1..(i - 1) : a[j] = b[j]

\* Candidates of the turn that are not chosen yet, and why one is refused.
Pending == turn.candidates \ Range(turn.picked)
Refusal(t) ==
    CASE Exclusive[t] \cap turn.held # {} -> "exclusive_resource_busy"
      [] Exclusive[t] \cap turn.held = {} /\ turn.estimate[t] > turn.left -> "host_memory"
      [] OTHER -> "none"
Admissible == {t \in Pending : Refusal(t) = "none"}
BatchFull == Len(turn.picked) >= LaunchBatch

-----------------------------------------------------------------------------
(***************************************************************************)
(* One turn of TestdEngine.schedule                                        *)
(***************************************************************************)
\* runnable_targets, with the estimates of that moment.
ReadCandidates ==
    /\ turn.at = "idle"
    /\ LET queued == {t \in Target : row[t] = "queued"}
       IN  turn' = [NoTurn("candidates") EXCEPT
                        !.candidates = queued,
                        !.estimate = [t \in Target |->
                                        IF t \in queued THEN Estimate(t) ELSE 0]]
    /\ UNCHANGED <<storeVars, hostVars, fairVars, faults>>

\* Mutant: executions that have ended are still counted.
ReadActiveEver ==
    /\ turn.at = "candidates"
    /\ LET begun == {t \in Target : row[t] \notin {"none", "queued"}}
       IN  turn' = [turn EXCEPT !.at = "active",
                                !.owed = MapThenSumSet(Unrealized, begun),
                                !.held = UNION {Exclusive[t] : t \in begun}]
    /\ UNCHANGED <<storeVars, hostVars, fairVars, faults>>

\* active_allocations: the unrealized commitments and the held resources.
ReadActive ==
    /\ turn.at = "candidates"
    /\ turn' = [turn EXCEPT !.at = "active",
                            !.owed = MapThenSumSet(Unrealized, Active),
                            !.held = UNION {Exclusive[t] : t \in Active}]
    /\ UNCHANGED <<storeVars, hostVars, fairVars, faults>>

\* The memory probe, and what is left of it for this turn.
Probe ==
    /\ turn.at = "active"
    /\ turn' = [turn EXCEPT !.at = "choose",
                            !.left = Max({0, Available - Reserve - turn.owed})]
    /\ UNCHANGED <<storeVars, hostVars, fairVars, faults>>

\* Choose the admissible candidate with the least key, and charge its owner
\* and its repository at once, whether or not it will be launched.  Those
\* before it in the order were refused on the way.
Admit(t) ==
    /\ turn.at = "choose" /\ ~BatchFull
    /\ t \in Admissible
    /\ \A u \in Admissible \ {t} : Precedes(FairKey(t), FairKey(u))
    /\ turn' = [turn EXCEPT !.picked = Append(@, t),
                            !.left = @ - turn.estimate[t],
                            !.held = @ \cup Exclusive[t],
                            !.refused = [u \in Target |->
                                IF u \in Pending /\ Precedes(FairKey(u), FairKey(t))
                                THEN Refusal(u)
                                ELSE IF u = t THEN "none" ELSE @[u]]]
    /\ vuid' = [vuid EXCEPT ![Uid[t]] = @ + UidCharge[t]]
    /\ vrepo' = [vrepo EXCEPT ![Repo[t]] = @ + RepoCharge[t]]
    /\ UNCHANGED <<storeVars, hostVars, faults>>

\* Mutant: only refusals passed over on the way to a choice are recorded.
RecordDecisionPassed ==
    /\ turn.at = "choose"
    /\ BatchFull \/ Admissible = {}
    /\ wait' = [t \in Target |-> IF row[t] = "queued" THEN turn.refused[t] ELSE wait[t]]
    /\ turn' = [turn EXCEPT !.at = "launch"]
    /\ UNCHANGED <<row, commitment, sample, peaks, hostVars, fairVars, faults>>

\* The loop ends with the batch full, or with a pass that refuses all that
\* is pending; record_schedule_decision writes the reasons to the rows.
\* What a full batch kept the loop from reaching keeps its old wait code.
RecordDecision ==
    /\ turn.at = "choose"
    /\ BatchFull \/ Admissible = {}
    /\ LET refused == [t \in Target |->
                IF t \in Pending /\ ~BatchFull THEN Refusal(t) ELSE turn.refused[t]]
       IN  wait' = [t \in Target |->
                IF row[t] = "queued"
                   /\ (t \in Range(turn.picked) \/ refused[t] # "none")
                THEN refused[t] ELSE wait[t]]
    /\ turn' = [turn EXCEPT !.at = "launch"]
    /\ UNCHANGED <<row, commitment, sample, peaks, hostVars, fairVars, faults>>

\* _launch of the next choice: begin_execution commits its estimate, and is
\* refused when the row has left the queue since it was read.
Launch ==
    /\ turn.at = "launch" /\ turn.picked # <<>>
    /\ LET t == Head(turn.picked)
       IN  IF row[t] = "queued"
           THEN /\ row' = [row EXCEPT ![t] = "starting"]
                /\ commitment' = [commitment EXCEPT ![t] = turn.estimate[t]]
                /\ wait' = [wait EXCEPT ![t] = "none"]
           ELSE UNCHANGED <<row, commitment, wait>>
    /\ turn' = [turn EXCEPT !.picked = Tail(@)]
    /\ UNCHANGED <<sample, peaks, hostVars, fairVars, faults>>

\* The ticket is refused before begin_execution: the row stays queued.
LaunchFails ==
    /\ turn.at = "launch" /\ turn.picked # <<>>
    /\ faults < MaxFaults
    /\ faults' = faults + 1
    /\ turn' = [turn EXCEPT !.picked = Tail(@)]
    /\ UNCHANGED <<storeVars, hostVars, fairVars>>

EndTurn ==
    /\ turn.at = "launch" /\ turn.picked = <<>>
    /\ turn' = NoTurn("idle")
    /\ UNCHANGED <<storeVars, hostVars, fairVars, faults>>

-----------------------------------------------------------------------------
(***************************************************************************)
(* Heartbeats, callers and the host                                        *)
(***************************************************************************)
\* The unit starts and uses more memory.
Grow(t) ==
    /\ row[t] \in RunningStates /\ resident[t] < Appetite[t]
    /\ row' = [row EXCEPT ![t] = "running"]
    /\ resident' = [resident EXCEPT ![t] = @ + 1]
    /\ high' = [high EXCEPT ![t] = Max({@, resident[t] + 1})]
    /\ UNCHANGED <<commitment, sample, wait, peaks, fairVars, turn, faults>>

\* The unit returns memory to the host.
Shrink(t) ==
    /\ MayShrink
    /\ row[t] = "running" /\ resident[t] > 0
    /\ resident' = [resident EXCEPT ![t] = @ - 1]
    /\ UNCHANGED <<storeVars, high, fairVars, turn, faults>>

\* record_progress: a heartbeat records what the cgroup uses, or that it
\* could not be read.
Sample(t, known) ==
    /\ row[t] = "running"
    /\ sample' = [sample EXCEPT ![t] = IF known THEN resident[t] ELSE Unknown]
    /\ UNCHANGED <<row, commitment, wait, peaks, hostVars, fairVars, turn, faults>>

\* complete_execution: the unit is gone; its measured peak, when there is
\* one, joins the profile, which keeps the most recent.
Finish(t, measured) ==
    /\ row[t] \in RunningStates
    /\ row' = [row EXCEPT ![t] = "done"]
    /\ peaks' = IF measured
                THEN [peaks EXCEPT ![Key(t)] = SubSeq(<<high[t]>> \o @, 1,
                                                     Min({Recent, Len(@) + 1}))]
                ELSE peaks
    /\ resident' = [resident EXCEPT ![t] = 0]
    /\ UNCHANGED <<commitment, sample, wait, high, fairVars, turn, faults>>

Submit(t) ==
    /\ row[t] = "none"
    /\ row' = [row EXCEPT ![t] = "queued"]
    /\ UNCHANGED <<commitment, sample, wait, peaks, hostVars, fairVars, turn, faults>>

\* The run of a queued target is cancelled.
Withdraw(t) ==
    /\ row[t] = "queued"
    /\ row' = [row EXCEPT ![t] = "done"]
    /\ UNCHANGED <<commitment, sample, wait, peaks, hostVars, fairVars, turn, faults>>

\* The daemon dies: the turn and the virtual runtimes were in its memory.
Crash ==
    /\ faults < MaxFaults
    /\ faults' = faults + 1
    /\ turn' = NoTurn("cleanup")
    /\ vuid' = [u \in Uids |-> 0] /\ vrepo' = [r \in Repos |-> 0]
    /\ UNCHANGED <<storeVars, hostVars>>

\* restart_cleanup settles every execution before the first turn.
CleanupEnds ==
    /\ turn.at = "cleanup" /\ Active = {}
    /\ turn' = NoTurn("idle")
    /\ UNCHANGED <<storeVars, hostVars, fairVars, faults>>

Turn ==
    \/ ReadCandidates \/ ReadActive \/ Probe \/ RecordDecision
    \/ Launch \/ EndTurn \/ CleanupEnds
    \/ \E t \in Target : Admit(t)

Next ==
    /\ \/ Turn \/ LaunchFails \/ Crash
       \/ \E t \in Target :
            \/ Grow(t) \/ Shrink(t) \/ Submit(t) \/ Withdraw(t)
            \/ \E b \in BOOLEAN : Sample(t, b) \/ Finish(t, b)
    /\ UNCHANGED workload

Spec == Init /\ [][Next]_vars

\* The loop thread takes its next step; a unit ends, by itself or at the
\* deadline of its target.
Fairness ==
    /\ WF_vars(Turn /\ UNCHANGED workload)
    /\ \A t \in Target : WF_vars((\E b \in BOOLEAN : Finish(t, b)) /\ UNCHANGED workload)
FairSpec == Spec /\ Fairness
-----------------------------------------------------------------------------
(***************************************************************************)
(* Properties                                                              *)
(***************************************************************************)
\* Two active executions never share an exclusive resource, although the
\* active ones are read before the choice and the launches come after it.
ExclusiveHeldOnce ==
    \A t, u \in Active : t # u => Exclusive[t] \cap Exclusive[u] = {}

\* While every execution stays within the estimate it was admitted with, the
\* tests together leave the host its reserve, whatever was sampled, grew or
\* ended between the three reads of a turn and its launches.
ReserveKept ==
    ~MayShrink /\ (\A t \in Active : resident[t] <= commitment[t])
        => Available >= Reserve

\* What the running tests hold never exceeds what the host can give.
HostWithinLimits == TypeOK /\ ExclusiveHeldOnce /\ ReserveKept

\* What a turn with room left behind says why it waits.
WaitsAreExplained ==
    [][(turn.at = "choose" /\ turn'.at = "launch" /\ ~BatchFull)
        => \A t \in Pending : row[t] = "queued" => wait'[t] # "none"]_vars

\* Nothing but fairness decides who goes first.
Uncontested ==
    /\ \A t, u \in Target : Priority[t] = Priority[u]
    /\ Resources = {} /\ Range(Appetite) = {0}
    /\ Total >= Reserve + ColdStart * Cardinality(Target)

\* Owner u has work the turn has not picked.
Backlogged(u) ==
    \E t \in workload.queued :
        /\ Uid[t] = u /\ row[t] = "queued"
        /\ t \notin Range(turn.picked)
        /\ turn.at = "choose" => t \in turn.candidates

\* With memory for every target at once, one priority and no contested
\* resource, two owners with work queued since the start are never further
\* apart than the largest single charge: no order of turns, cancellations,
\* failed launches or restarts lets one of them overtake the other.
FairShare ==
    Uncontested => \A u, v \in Uids :
        Backlogged(u) /\ Backlogged(v)
            => vuid[u] - vuid[v] <= Max(Range(UidCharge))

\* Once nothing more is submitted, every target the host can hold by itself
\* leaves the queue, whatever its priority, the charges of its owner, failed
\* launches and restarts.  The submissions of a workload are finitely many:
\* while callers go on submitting, select serves strictly by priority and
\* reserves nothing, and a target may wait for ever.
QueueDrains ==
    \A t \in Target : row[t] = "queued" ~> row[t] # "queued"
=============================================================================
