----------------------------- MODULE TestStore ------------------------------
(***************************************************************************)
(* The durable store of the governed test plane, universal_test_store.py.  *)
(*                                                                         *)
(* Every operation runs in one BEGIN IMMEDIATE transaction, so every       *)
(* operation is one action.  An operation that raises rolls back: it is    *)
(* not an action.  A caller names each mutation by an operation identity;  *)
(* a repeated identity with the same request returns the journaled answer  *)
(* and changes nothing, with another request it raises.  A run's identity  *)
(* is the digest of the operation that created it, so the runs are named   *)
(* by operation identities too.                                            *)
(*                                                                         *)
(* One immutable snapshot and one single-use evidence policy are modelled. *)
(* The execution fingerprint of a run is then decided by the names it      *)
(* selected.                                                               *)
(***************************************************************************)
EXTENDS RunState, Naturals, Sequences, FiniteSets

CONSTANTS
    Op,         \* operation identities callers use
    Plan,       \* plans the planner can produce: sets of target names
    Required,   \* targets the evidence policy requires
    Package,    \* result packages an execution can publish
    Claim       \* conclusions the engine can claim for one

ASSUME PlanAssumption ==
    /\ Plan \subseteq SUBSET Name
    /\ \A p \in Plan : \A n \in p : Deps[n] \subseteq p
ASSUME RequiredAssumption == Required \in SUBSET Name /\ Required # {}

\* A package is reduced to whether its reporter completed and whether it
\* holds a failed case, an errored case or a test-failure record.
PackageType == [complete : BOOLEAN, failed : BOOLEAN]
NoPackage == [complete |-> FALSE, failed |-> FALSE]

ASSUME PackageAssumption == Package \subseteq PackageType
ASSUME ClaimAssumption == Claim \subseteq TerminalTargetStates

VARIABLES
    run,        \* Op -> state of the run that operation created
    rows,       \* Op -> Row -> state of that run's target row
    begun,      \* <<run, row>> that own an execution identity
    measured,   \* Op -> Row -> the result package published at completion
    journal,    \* test_mutation_journal: what each operation did
    attested,   \* runs with an evidence attestation, in order of issue
    expired,    \* runs whose evidence has outlived the policy's maximum age
    consumed    \* test_evidence_consumptions

vars == <<run, rows, begun, measured, journal, attested, expired, consumed>>

Run == Op

Kind == {"submit", "retry", "retry_failed", "cancel", "attest", "consume"}
Entry == [op : Op, kind : Kind, names : SUBSET Name, source : SUBSET Run,
          result : Run]

Init ==
    /\ run = [r \in Run |-> "none"]
    /\ rows = [r \in Run |-> [x \in Row |-> "none"]]
    /\ begun = {}
    /\ measured = [r \in Run |-> [x \in Row |-> NoPackage]]
    /\ journal = {}
    /\ attested = <<>>
    /\ expired = {}
    /\ consumed = {}

-----------------------------------------------------------------------------

\* Mutant: the journal is not consulted.
UnusedUnchecked(op) == TRUE

\* _mutation_replay found nothing: the operation is new.
Unused(op) == \A e \in journal : e.op # op

RecordMutation(op, kind, names, source, result) ==
    journal' = journal \cup {[op |-> op, kind |-> kind, names |-> names,
                              source |-> source, result |-> result]}

\* Mutant: a cancelling run does not count as active.
UncancelledWithFingerprint(names) ==
    {r \in Run : run[r] \in {"queued", "running"} /\ NamesOf(rows[r]) = names}

ActiveWithFingerprint(names) ==
    {r \in Run : run[r] \in ActiveRunStates /\ NamesOf(rows[r]) = names}

\* The common part of submit_plan and retry_run: join the active run with
\* the same execution fingerprint, or create a run over the selected rows.
JoinOrCreate(op, kind, names, source, selected) ==
    LET active == ActiveWithFingerprint(names)
    IN  \/ \E r \in active :
            /\ RecordMutation(op, kind, names, source, r)
            /\ UNCHANGED <<run, rows>>
        \/ /\ active = {}
           /\ run' = [run EXCEPT ![op] =
                        IF selected = {} THEN "succeeded" ELSE "queued"]
           /\ rows' = [rows EXCEPT ![op] =
                        [x \in Row |-> IF x \in selected THEN "queued"
                                                         ELSE "none"]]
           /\ RecordMutation(op, kind, names, source, op)

SubmitPlan(op, p) ==
    /\ Unused(op)
    /\ JoinOrCreate(op, "submit", p, {}, {x \in Row : NameOf[x] \in p})
    /\ UNCHANGED <<begun, measured, attested, expired, consumed>>

\* Mutant: only measured failures are retried, not cancelled rows.
RetryMeasuredFailures(r, failedOnly) ==
    {x \in RowsOf(rows[r]) : ~failedOnly \/ rows[r][x] = "test_failed"}

\* The rows a retry selects: all of the run's, or those that did not succeed.
RetrySelection(r, failedOnly) ==
    {x \in RowsOf(rows[r]) : ~failedOnly \/ rows[r][x] # "succeeded"}

RetryRun(op, r, failedOnly) ==
    LET selected == RetrySelection(r, failedOnly)
    IN  /\ Unused(op)
        /\ run[r] \in TerminalRunStates
        /\ selected # {}
        /\ JoinOrCreate(op, IF failedOnly THEN "retry_failed" ELSE "retry",
                        {NameOf[x] : x \in selected}, {r}, selected)
        /\ UNCHANGED <<begun, measured, attested, expired, consumed>>

\* Mutant: one succeeded shard satisfies a dependency.
BeginExecutionOneShard(r, x) ==
    /\ rows[r][x] = "queued"
    /\ run[r] \in {"queued", "running"}
    /\ \A n \in ExactDependencies(rows[r], NameOf[x]) :
        \E y \in Row : NameOf[y] = n /\ rows[r][y] = "succeeded"
    /\ rows' = [rows EXCEPT ![r][x] = "starting"]
    /\ run' = [run EXCEPT ![r] = "running"]
    /\ begun' = begun \cup {<<r, x>>}
    /\ UNCHANGED <<measured, journal, attested, expired, consumed>>

BeginExecution(r, x) ==
    /\ rows[r][x] = "queued"
    /\ run[r] \in {"queued", "running"}
    /\ TargetDependenciesSucceeded(rows[r], x)
    /\ rows' = [rows EXCEPT ![r][x] = "starting"]
    /\ run' = [run EXCEPT ![r] = "running"]
    /\ begun' = begun \cup {<<r, x>>}
    /\ UNCHANGED <<measured, journal, attested, expired, consumed>>

RecordStarted(r, x) ==
    /\ rows[r][x] = "starting"
    /\ rows' = [rows EXCEPT ![r][x] = "running"]
    /\ UNCHANGED <<run, begun, measured, journal, attested, expired, consumed>>

Executed(ts) == {NameOf[x] : x \in {y \in Row : ts[y] = "succeeded"}}

Attestable(rs, ts) == rs = "succeeded" /\ Required \subseteq Executed(ts)

Attest(r) ==
    IF \E i \in DOMAIN attested : attested[i] = r
    THEN attested ELSE Append(attested, r)

\* Mutant: a claimed success is believed.
ClaimedConclusion(pkg, c) == c

\* The conclusion the store retains for a package and a claimed conclusion.
AcceptedConclusion(pkg, c) ==
    IF c = "succeeded" /\ (~pkg.complete \/ pkg.failed) THEN "incomplete" ELSE c

\* A complete measured failure must be concluded test_failed, and
\* test_failed needs failure evidence; any other claim raises.
ConclusionAllowed(pkg, c) ==
    /\ pkg.complete /\ pkg.failed => c = "test_failed"
    /\ c = "test_failed" => pkg.failed

CompleteFromPackage(r, x, pkg, c) ==
    LET concluded == [rows[r] EXCEPT ![x] = AcceptedConclusion(pkg, c)]
        settled == ReconciledRows(run[r], concluded)
        state == ReconciledRun(run[r], settled)
    IN  /\ rows[r][x] \in ActiveTargetStates
        /\ ConclusionAllowed(pkg, c)
        /\ rows' = [rows EXCEPT ![r] = settled]
        /\ run' = [run EXCEPT ![r] = state]
        /\ measured' = [measured EXCEPT ![r][x] = pkg]
        /\ attested' = IF Attestable(state, settled) THEN Attest(r) ELSE attested
        /\ UNCHANGED <<begun, journal, expired, consumed>>

RequestCancel(op, r) ==
    /\ Unused(op)
    /\ \/ /\ run[r] \in TerminalRunStates      \* already_terminal
          /\ UNCHANGED <<run, rows>>
       \/ /\ run[r] \in ActiveRunStates
          /\ rows' = [rows EXCEPT ![r] = CancelledRows(rows[r])]
          /\ run' = [run EXCEPT ![r] =
                        ReconciledRun("cancelling", CancelledRows(rows[r]))]
    /\ RecordMutation(op, "cancel", {}, {r}, r)
    /\ UNCHANGED <<begun, measured, attested, expired, consumed>>

\* One transaction over every run that is not terminal.
ReconcileNonterminalRuns ==
    LET active == {r \in Run : run[r] \in ActiveRunStates}
        settled == [r \in Run |-> IF r \in active
                                  THEN ReconciledRows(run[r], rows[r])
                                  ELSE rows[r]]
    IN  /\ rows' = settled
        /\ run' = [r \in Run |-> IF r \in active
                                 THEN ReconciledRun(run[r], settled[r])
                                 ELSE run[r]]
        /\ UNCHANGED <<begun, measured, journal, attested, expired, consumed>>

IssueEvidenceAttestation(op, r) ==
    /\ Unused(op)
    /\ Attestable(run[r], rows[r])
    /\ r \notin expired
    /\ attested' = Attest(r)
    /\ RecordMutation(op, "attest", {}, {r}, r)
    /\ UNCHANGED <<run, rows, begun, measured, expired, consumed>>

\* The clock passes finished_at + max_age_seconds of a succeeded run.
ExpireEvidence(r) ==
    /\ run[r] = "succeeded"
    /\ r \notin expired
    /\ expired' = expired \cup {r}
    /\ UNCHANGED <<run, rows, begun, measured, journal, attested, consumed>>

\* Mutant: earlier consumptions are not looked at.
Reusable == {i \in DOMAIN attested : attested[i] \notin expired}

\* Positions of the attestations that are neither stale nor used.
Consumable ==
    {i \in DOMAIN attested :
        /\ attested[i] \notin expired
        /\ \A c \in consumed : c.run # attested[i]}

\* The newest consumable attestation is used up.
ConsumeEvidencePolicy(op) ==
    /\ Unused(op)
    /\ \E i \in Consumable :
        /\ \A j \in Consumable : j <= i
        /\ consumed' = consumed \cup {[op |-> op, run |-> attested[i]]}
        /\ RecordMutation(op, "consume", {}, {}, attested[i])
    /\ UNCHANGED <<run, rows, begun, measured, attested, expired>>

-----------------------------------------------------------------------------
CallerStep ==
    \E op \in Op :
        \/ \E p \in Plan : SubmitPlan(op, p)
        \/ \E r \in Run :
            \/ \E failedOnly \in BOOLEAN : RetryRun(op, r, failedOnly)
            \/ RequestCancel(op, r)
            \/ IssueEvidenceAttestation(op, r)
        \/ ConsumeEvidencePolicy(op)

EngineStep ==
    \/ \E r \in Run, x \in Row :
        \/ BeginExecution(r, x)
        \/ RecordStarted(r, x)
        \/ \E pkg \in Package, c \in Claim :
            CompleteFromPackage(r, x, pkg, c)
    \/ ReconcileNonterminalRuns

Next ==
    \/ CallerStep
    \/ EngineStep
    \/ \E r \in Run : ExpireEvidence(r)

Spec == Init /\ [][Next]_vars

-----------------------------------------------------------------------------
(***************************************************************************)
(* Properties                                                              *)
(***************************************************************************)

\* Every table holds values of its column types (the CHECK constraints of
\* the schema).
TypeOK ==
    /\ run \in [Run -> RunStates]
    /\ rows \in [Run -> [Row -> TargetStates]]
    /\ begun \subseteq Run \X Row
    /\ measured \in [Run -> [Row -> PackageType]]
    /\ journal \subseteq Entry
    /\ attested \in Seq(Run)
    /\ expired \subseteq Run
    /\ consumed \subseteq [op : Op, run : Run]

\* submit_plan and retry_run never leave two runs of the same execution
\* fingerprint active, cancelling ones included: the unique index
\* one_active_immutable_execution is never what stops an insert.
OneActiveRunPerFingerprint ==
    \A r, s \in Run :
        /\ run[r] \in ActiveRunStates
        /\ run[s] \in ActiveRunStates
        /\ NamesOf(rows[r]) = NamesOf(rows[s])
        => r = s

\* Every mutation leaves its run reconciled, so the periodic
\* reconcile_nonterminal_runs of the scheduler never has work left over.
RunsStayReconciled ==
    \A r \in Run :
        run[r] \in ActiveRunStates =>
            /\ ReconciledRows(run[r], rows[r]) = rows[r]
            /\ ReconciledRun(run[r], rows[r]) = run[r]

\* A run is terminal only once each of its rows is; it is succeeded only if
\* all of them are, and all of them succeed under another conclusion only
\* when a cancellation lost the race to the last result.
TerminalRunSettled ==
    \A r \in Run :
        run[r] \in TerminalRunStates =>
            /\ \A x \in Row : rows[r][x] \notin UnfinishedTargetStates
            /\ run[r] # "cancelled" =>
                (run[r] = "succeeded" <=>
                    \A x \in RowsOf(rows[r]) : rows[r][x] = "succeeded")

\* A row that ever owned an execution had every shard of every exact
\* dependency succeed, and they still have: begin_execution's check is not
\* undone by anything that happens while the row runs.
DependencyOrder ==
    \A r \in Run, x \in Row :
        <<r, x>> \in begun => TargetDependenciesSucceeded(rows[r], x)

\* A run that is not cancelling and has nothing executing has a row the
\* scheduler can start: no run waits forever on a target that failed.
NoStuckRun ==
    \A r \in Run :
        /\ run[r] \in {"queued", "running"}
        /\ \A x \in Row : rows[r][x] \notin ActiveTargetStates
        => \E x \in Row :
            rows[r][x] = "queued" /\ TargetDependenciesSucceeded(rows[r], x)

\* Every mutation leaves each run reconciled and able to go on.
ReconciledRunsProgress == RunsStayReconciled /\ NoStuckRun

\* The retained conclusion never contradicts what the package measured: a
\* complete failure is test_failed, only a complete clean package succeeds.
ConclusionMatchesMeasurement ==
    \A r \in Run, x \in Row :
        LET pkg == measured[r][x]
        IN  /\ pkg.complete /\ pkg.failed => rows[r][x] = "test_failed"
            /\ rows[r][x] = "succeeded" => pkg.complete /\ ~pkg.failed

\* An attestation rests on a succeeded run, and every shard of every
\* required target has succeeded on this snapshot in some run, although a
\* failed-only retry executes just the shards its source did not pass.
AttestedShardsPassed ==
    \A i \in DOMAIN attested :
        /\ run[attested[i]] = "succeeded"
        /\ \A x \in Row :
            NameOf[x] \in Required =>
                \E r \in Run : rows[r][x] = "succeeded"

\* An operation identity is bound to one request and one answer, whatever
\* is retried, and the run a submission or a retry was given has exactly
\* the targets it asked for, whether it was created or joined.
JournalBindsOperation ==
    /\ \A e, f \in journal : e.op = f.op => e = f
    /\ \A e \in journal :
        e.kind \in {"submit", "retry", "retry_failed"} =>
            /\ run[e.result] # "none"
            /\ NamesOf(rows[e.result]) = e.names

\* Single-use evidence is used once, and one consumption uses one
\* attestation.
EvidenceUsedOnce ==
    \A c, d \in consumed : c.op = d.op \/ c.run = d.run => c = d

\* A terminal run or row never changes again.
ConclusionsAreFinal ==
    [][\A r \in Run :
        /\ run[r] \in TerminalRunStates => run'[r] = run[r]
        /\ \A x \in Row :
            rows[r][x] \in TerminalTargetStates => rows'[r][x] = rows[r][x]]_vars

\* The contract of run r.
Contract(r) ==
    INSTANCE RunContract WITH Slot <- Row, verdict <- VerdictFor(run[r]),
                              slot <- SlotsFor(rows[r])

\* Each run implements the contract: retries, joins, cancellation, failure
\* propagation and reconciliation are steps RunContract allows.
RunsKeepContract ==
    /\ \A r \in Run : Contract(r)!Init
    /\ [][\A r \in Run : [Contract(r)!Next]_(Contract(r)!vars)]_vars
=============================================================================
