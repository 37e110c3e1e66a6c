-------------------------- MODULE TestStoreProofs ---------------------------
(***************************************************************************)
(* Proofs about the durable store, for every set of rows, names, operation *)
(* identities, plans, packages and claims: type correctness and StoreStep  *)
(* (a step leaves a run alone, creates it or advances it), what follows    *)
(* for conclusions, dependencies, measurements, the mutation journal and   *)
(* the evidence, that no run is left unreconciled or stuck, and that every *)
(* run implements RunContract.                                             *)
(***************************************************************************)
EXTENDS TestStore, RunStateProofs, SequenceTheorems

-----------------------------------------------------------------------------
(***************************************************************************)
(* Type correctness                                                        *)
(***************************************************************************)

\* Joining a run changes no run; creating one writes legal states.
LEMMA JoinOrCreateType ==
    ASSUME TypeOK, NEW op \in Op, NEW kind \in Kind, NEW names \in SUBSET Name,
           NEW source \in SUBSET Run, NEW selected,
           JoinOrCreate(op, kind, names, source, selected)
    PROVE  /\ run' \in [Run -> RunStates]
           /\ rows' \in [Run -> [Row -> TargetStates]]
           /\ journal' \subseteq Entry
<1> DEFINE active == ActiveWithFingerprint(names)
<1>1. active \subseteq Run
    BY DEF ActiveWithFingerprint
<1>2. ASSUME NEW r \in Run, RecordMutation(op, kind, names, source, r)
      PROVE  journal' \subseteq Entry
    BY <1>2 DEF TypeOK, RecordMutation, Entry, Run
<1>3. CASE \E r \in active :
            /\ RecordMutation(op, kind, names, source, r)
            /\ UNCHANGED <<run, rows>>
    BY <1>1, <1>2, <1>3 DEF TypeOK
<1>4. ASSUME run' = [run EXCEPT ![op] =
                        IF selected = {} THEN "succeeded" ELSE "queued"],
             rows' = [rows EXCEPT ![op] =
                        [x \in Row |-> IF x \in selected THEN "queued"
                                                         ELSE "none"]],
             RecordMutation(op, kind, names, source, op)
      PROVE  /\ run' \in [Run -> RunStates]
             /\ rows' \in [Run -> [Row -> TargetStates]]
             /\ journal' \subseteq Entry
    <2>1. journal' \subseteq Entry
        BY <1>2, <1>4 DEF Run
    <2>2. run' \in [Run -> RunStates]
        BY <1>4 DEF TypeOK, Run, RunStates, ActiveRunStates, TerminalRunStates
    <2>3. [x \in Row |-> IF x \in selected THEN "queued" ELSE "none"]
            \in [Row -> TargetStates]
        BY DEF TargetStates, UnfinishedTargetStates
    <2>4. rows' \in [Run -> [Row -> TargetStates]]
        BY <1>4, <2>3 DEF TypeOK, Run
    <2> QED
        BY <2>1, <2>2, <2>4
<1> QED
    BY <1>3, <1>4 DEF JoinOrCreate

\* Concluding a row and reconciling its run writes legal states.
LEMMA ConclusionType ==
    ASSUME NEW rs \in RunStates, NEW ts \in [Row -> TargetStates],
           NEW x \in Row, NEW pkg \in Package, NEW c \in Claim
    PROVE  LET concluded == [ts EXCEPT ![x] = AcceptedConclusion(pkg, c)]
               settled == ReconciledRows(rs, concluded)
           IN  /\ concluded \in [Row -> TargetStates]
               /\ settled \in [Row -> TargetStates]
               /\ ReconciledRun(rs, settled) \in RunStates
<1>1. AcceptedConclusion(pkg, c) \in TargetStates
    BY ClaimAssumption DEF AcceptedConclusion, TargetStates,
                           TerminalTargetStates
<1>2. [ts EXCEPT ![x] = AcceptedConclusion(pkg, c)] \in [Row -> TargetStates]
    BY <1>1
<1>3. ReconciledRows(rs, [ts EXCEPT ![x] = AcceptedConclusion(pkg, c)])
        \in [Row -> TargetStates]
    BY <1>2, ReconciledRowsFacts
<1>4. ReconciledRun(rs, ReconciledRows(rs,
            [ts EXCEPT ![x] = AcceptedConclusion(pkg, c)])) \in RunStates
    BY <1>3, ReconciledRunType
<1> QED
    BY <1>2, <1>3, <1>4

\* The attestation order stays a sequence of runs.
LEMMA AttestType ==
    ASSUME TypeOK, NEW r \in Run
    PROVE  Attest(r) \in Seq(Run)
BY AppendProperties DEF TypeOK, Attest

\* No operation of the store writes a value outside its column's type.
THEOREM StoreTypeCorrect == Spec => []TypeOK
<1>1. Init => TypeOK
    BY EmptySeq DEF Init, TypeOK, RunStates, TargetStates, NoPackage, PackageType
<1>2. TypeOK /\ [Next]_vars => TypeOK'
    <2> SUFFICES ASSUME TypeOK, [Next]_vars
                 PROVE  TypeOK'
        OBVIOUS
    <2>1. ASSUME NEW op \in Op, NEW p \in Plan, SubmitPlan(op, p)
          PROVE  TypeOK'
        <3>1. p \in SUBSET Name
            BY PlanAssumption
        <3>2. /\ run' \in [Run -> RunStates]
              /\ rows' \in [Run -> [Row -> TargetStates]]
              /\ journal' \subseteq Entry
            BY <2>1, <3>1, JoinOrCreateType DEF SubmitPlan, Kind
        <3> QED
            BY <2>1, <3>2 DEF SubmitPlan, TypeOK
    <2>2. ASSUME NEW op \in Op, NEW r \in Run, NEW failedOnly \in BOOLEAN,
                 RetryRun(op, r, failedOnly)
          PROVE  TypeOK'
        <3> DEFINE selected == RetrySelection(r, failedOnly)
                   kind == IF failedOnly THEN "retry_failed" ELSE "retry"
        <3>1. {NameOf[x] : x \in selected} \in SUBSET Name
            BY NameOfAssumption DEF RetrySelection, RowsOf
        <3>2. kind \in Kind /\ {r} \in SUBSET Run
            BY DEF Kind
        <3>3. JoinOrCreate(op, kind, {NameOf[x] : x \in selected}, {r}, selected)
            BY <2>2 DEF RetryRun
        <3> HIDE DEF selected, kind
        <3>4. /\ run' \in [Run -> RunStates]
              /\ rows' \in [Run -> [Row -> TargetStates]]
              /\ journal' \subseteq Entry
            BY <3>1, <3>2, <3>3, JoinOrCreateType
        <3> QED
            BY <2>2, <3>4 DEF RetryRun, TypeOK
    <2>3. ASSUME NEW op \in Op, NEW r \in Run, RequestCancel(op, r)
          PROVE  TypeOK'
        <3>1. journal' \subseteq Entry
            BY <2>3 DEF RequestCancel, RecordMutation, TypeOK, Entry, Kind, Run
        <3>2. rows[r] \in [Row -> TargetStates]
            BY DEF TypeOK
        <3>3. CancelledRows(rows[r]) \in [Row -> TargetStates]
            BY <3>2, CancelledRowsFacts
        <3>4. ReconciledRun("cancelling", CancelledRows(rows[r])) \in RunStates
            BY <3>3, ReconciledRunType DEF RunStates, ActiveRunStates
        <3> QED
            BY <2>3, <3>1, <3>3, <3>4 DEF RequestCancel, TypeOK
    <2>4. ASSUME NEW op \in Op, NEW r \in Run, IssueEvidenceAttestation(op, r)
          PROVE  TypeOK'
        <3>1. journal' \subseteq Entry
            BY <2>4 DEF IssueEvidenceAttestation, RecordMutation, TypeOK, Entry,
                        Kind, Run
        <3> QED
            BY <2>4, <3>1, AttestType DEF IssueEvidenceAttestation, TypeOK
    <2>5. ASSUME NEW op \in Op, ConsumeEvidencePolicy(op)
          PROVE  TypeOK'
        <3>1. PICK i \in Consumable :
                /\ consumed' = consumed \cup {[op |-> op, run |-> attested[i]]}
                /\ RecordMutation(op, "consume", {}, {}, attested[i])
            BY <2>5 DEF ConsumeEvidencePolicy
        <3>2. attested[i] \in Run
            BY DEF Consumable, TypeOK
        <3>3. journal' \subseteq Entry
            BY <3>1, <3>2 DEF RecordMutation, TypeOK, Entry, Kind, Run
        <3> QED
            BY <2>5, <3>1, <3>2, <3>3 DEF ConsumeEvidencePolicy, TypeOK
    <2>6. ASSUME NEW r \in Run, NEW x \in Row, BeginExecution(r, x)
          PROVE  TypeOK'
        BY <2>6 DEF BeginExecution, TypeOK, RunStates, ActiveRunStates,
                    TargetStates, UnfinishedTargetStates, ActiveTargetStates
    <2>7. ASSUME NEW r \in Run, NEW x \in Row, RecordStarted(r, x)
          PROVE  TypeOK'
        BY <2>7 DEF RecordStarted, TypeOK, TargetStates, UnfinishedTargetStates,
                    ActiveTargetStates
    <2>8. ASSUME NEW r \in Run, NEW x \in Row, NEW pkg \in Package,
                 NEW c \in Claim, CompleteFromPackage(r, x, pkg, c)
          PROVE  TypeOK'
        <3> DEFINE concluded == [rows[r] EXCEPT ![x] = AcceptedConclusion(pkg, c)]
                   settled == ReconciledRows(run[r], concluded)
                   state == ReconciledRun(run[r], settled)
        <3>1. run[r] \in RunStates /\ rows[r] \in [Row -> TargetStates]
            BY DEF TypeOK
        <3>2. settled \in [Row -> TargetStates] /\ state \in RunStates
            BY <3>1, ConclusionType
        <3>3. attested' \in Seq(Run)
            BY <2>8, AttestType DEF CompleteFromPackage, TypeOK
        <3>4. pkg \in PackageType
            BY PackageAssumption
        <3>5. /\ rows' = [rows EXCEPT ![r] = settled]
              /\ run' = [run EXCEPT ![r] = state]
              /\ measured' = [measured EXCEPT ![r][x] = pkg]
              /\ UNCHANGED <<begun, journal, expired, consumed>>
            BY <2>8 DEF CompleteFromPackage
        <3> HIDE DEF settled, state
        <3> QED
            BY <3>2, <3>3, <3>4, <3>5 DEF TypeOK
    <2>9. ASSUME ReconcileNonterminalRuns
          PROVE  TypeOK'
        <3>1. \A r \in Run : /\ ReconciledRows(run[r], rows[r])
                                    \in [Row -> TargetStates]
                             /\ rows[r] \in [Row -> TargetStates]
            BY ReconciledRowsFacts DEF TypeOK
        <3> DEFINE active == {r \in Run : run[r] \in ActiveRunStates}
                   settled == [r \in Run |-> IF r \in active
                                             THEN ReconciledRows(run[r], rows[r])
                                             ELSE rows[r]]
        <3>2. settled \in [Run -> [Row -> TargetStates]]
            BY <3>1
        <3>3. /\ rows' = settled
              /\ run' = [r \in Run |-> IF r \in active
                                       THEN ReconciledRun(run[r], settled[r])
                                       ELSE run[r]]
            BY <2>9 DEF ReconcileNonterminalRuns
        <3> HIDE DEF settled, active
        <3>4. \A r \in Run : /\ ReconciledRun(run[r], settled[r]) \in RunStates
                             /\ run[r] \in RunStates
            BY <3>2, ReconciledRunType DEF TypeOK
        <3>5. run' \in [Run -> RunStates]
            BY <3>3, <3>4
        <3> QED
            BY <2>9, <3>2, <3>3, <3>5 DEF ReconcileNonterminalRuns, TypeOK
    <2>10. ASSUME NEW r \in Run, ExpireEvidence(r)
           PROVE  TypeOK'
        BY <2>10 DEF ExpireEvidence, TypeOK
    <2>11. CASE UNCHANGED vars
        BY <2>11 DEF vars, TypeOK
    <2> QED
        BY <2>1, <2>2, <2>3, <2>4, <2>5, <2>6, <2>7, <2>8, <2>9, <2>10, <2>11
           DEF Next, CallerStep, EngineStep
<1> QED
    BY <1>1, <1>2, PTL DEF Spec

-----------------------------------------------------------------------------
(***************************************************************************)
(* How one step changes one run                                            *)
(*                                                                         *)
(* SettledInv is the strengthening under which TerminalRunSettled is       *)
(* inductive.  Completing the last executing row of a cancelling run       *)
(* concludes the run without looking at queued rows, which is sound only   *)
(* because request_cancel left none; and a creation may overwrite its      *)
(* slot only because no operation identity creates a run twice.            *)
(***************************************************************************)
RunsJournaled == \A r \in Run : run[r] # "none" => \E e \in journal : e.op = r

SettledInv ==
    /\ TypeOK
    /\ RunsJournaled
    /\ \A r \in Run : RunSettled(run[r], rows[r])

RunUnchanged(r) == run'[r] = run[r] /\ rows'[r] = rows[r]

RunCreated(r) ==
    /\ run[r] = "none"
    /\ rows'[r] \in [Row -> {"queued", "none"}]
    /\ \/ run'[r] = "queued" /\ RowsOf(rows'[r]) # {}
       \/ run'[r] = "succeeded" /\ RowsOf(rows'[r]) = {}
    /\ ActiveWithFingerprint(NamesOf(rows'[r])) = {}
    /\ \A s \in Run \ {r} : RunUnchanged(s)

RunAdvanced(r) ==
    /\ run[r] \in ActiveRunStates
    /\ run'[r] \in ActiveRunStates \cup TerminalRunStates
    /\ RowsAdvance(rows[r], rows'[r])
    /\ RunSettled(run'[r], rows'[r])

RunStep(r) == RunUnchanged(r) \/ RunCreated(r) \/ RunAdvanced(r)

\* A journaled operation can be found again.
LEMMA RecordMutationFacts ==
    ASSUME NEW op, NEW kind, NEW names, NEW source, NEW result,
           RecordMutation(op, kind, names, source, result)
    PROVE  /\ \E e \in journal' : e.op = op
           /\ journal \subseteq journal'
<1> DEFINE entry == [op |-> op, kind |-> kind, names |-> names,
                     source |-> source, result |-> result]
<1>1. entry.op = op
    OBVIOUS
<1>2. journal' = journal \cup {entry}
    BY DEF RecordMutation
<1> HIDE DEF entry
<1> QED
    BY <1>1, <1>2

\* A new operation joins without a change or creates its run.
LEMMA JoinOrCreateStep ==
    ASSUME SettledInv, NEW op \in Op, NEW kind, NEW names \in SUBSET Name,
           NEW source, NEW selected \in SUBSET Row,
           names = {NameOf[x] : x \in selected},
           Unused(op), JoinOrCreate(op, kind, names, source, selected)
    PROVE  /\ \A r \in Run : RunStep(r)
           /\ \E e \in journal' : e.op = op
           /\ journal \subseteq journal'
<1>1. run[op] = "none"
    BY DEF SettledInv, RunsJournaled, Unused, Run
<1>2. ASSUME NEW result, RecordMutation(op, kind, names, source, result)
      PROVE  (\E e \in journal' : e.op = op) /\ journal \subseteq journal'
    BY <1>2, RecordMutationFacts
<1>3. CASE \E r \in ActiveWithFingerprint(names) :
            /\ RecordMutation(op, kind, names, source, r)
            /\ UNCHANGED <<run, rows>>
    BY <1>2, <1>3 DEF RunStep, RunUnchanged
<1>4. ASSUME ActiveWithFingerprint(names) = {},
             run' = [run EXCEPT ![op] =
                        IF selected = {} THEN "succeeded" ELSE "queued"],
             rows' = [rows EXCEPT ![op] =
                        [x \in Row |-> IF x \in selected THEN "queued"
                                                         ELSE "none"]],
             RecordMutation(op, kind, names, source, op)
      PROVE  /\ \A r \in Run : RunStep(r)
             /\ \E e \in journal' : e.op = op
             /\ journal \subseteq journal'
    <2>1. /\ rows'[op] = [x \in Row |-> IF x \in selected THEN "queued"
                                                          ELSE "none"]
          /\ run'[op] = IF selected = {} THEN "succeeded" ELSE "queued"
          /\ \A s \in Run \ {op} : RunUnchanged(s)
        BY <1>4 DEF SettledInv, TypeOK, Run, RunUnchanged
    <2>2. RowsOf(rows'[op]) = selected
        BY <2>1 DEF RowsOf
    <2>3. NamesOf(rows'[op]) = names
        BY <2>2 DEF NamesOf
    <2>4. RunCreated(op)
        BY <1>1, <1>4, <2>1, <2>2, <2>3 DEF RunCreated
    <2> QED
        BY <1>2, <1>4, <2>1, <2>4 DEF RunStep
<1> QED
    BY <1>3, <1>4 DEF JoinOrCreate

\* Every step of the store leaves a run alone, creates it, or advances it.
LEMMA StoreStep ==
    ASSUME SettledInv, [Next]_vars
    PROVE  /\ \A r \in Run : RunStep(r)
           /\ \A r \in Run : RunCreated(r) => \E e \in journal' : e.op = r
           /\ journal \subseteq journal'
<1> DEFINE Goal == /\ \A r \in Run : RunStep(r)
                   /\ \A r \in Run : RunCreated(r) => \E e \in journal' : e.op = r
                   /\ journal \subseteq journal'
<1> USE DEF SettledInv
<1>typed. \A r \in Run : run[r] \in RunStates /\ rows[r] \in [Row -> TargetStates]
    BY DEF TypeOK
<1>same. ASSUME UNCHANGED <<run, rows>>
         PROVE  \A r \in Run : RunStep(r) /\ ~RunCreated(r)
    <2>1. \A r \in Run : RunUnchanged(r)
        BY <1>same DEF RunUnchanged
    <2>2. \A r \in Run : run'[r] \notin {"queued", "succeeded"} \/ run[r] # "none"
        BY <1>same
    <2> QED
        BY <2>1, <2>2 DEF RunStep, RunCreated
<1>one. ASSUME NEW r \in Run, RunAdvanced(r),
               \A s \in Run \ {r} : RunUnchanged(s)
        PROVE  \A s \in Run : RunStep(s) /\ ~RunCreated(s)
    <2>1. run[r] # "none"
        BY <1>one DEF RunAdvanced, ActiveRunStates
    <2>2. \A s \in Run \ {r} : ~RunCreated(s)
        BY <1>one DEF RunUnchanged, RunCreated
    <2> QED
        BY <1>one, <2>1, <2>2 DEF RunStep, RunCreated
<1>1. ASSUME NEW op \in Op, NEW p \in Plan, SubmitPlan(op, p)
      PROVE  Goal
    <2> DEFINE selected == {x \in Row : NameOf[x] \in p}
    <2>1. p \in SUBSET Name /\ selected \in SUBSET Row
        BY PlanAssumption
    <2>2. p = {NameOf[x] : x \in selected}
        BY <2>1, NameOfAssumption
    <2>3. Unused(op) /\ JoinOrCreate(op, "submit", p, {}, selected)
        BY <1>1 DEF SubmitPlan
    <2> HIDE DEF selected
    <2>4. /\ \A r \in Run : RunStep(r)
          /\ \E e \in journal' : e.op = op
          /\ journal \subseteq journal'
        BY <2>1, <2>2, <2>3, JoinOrCreateStep
    <2>5. \A r \in Run : RunCreated(r) => r = op
        BY <2>3 DEF JoinOrCreate, RunCreated, TypeOK, Run
    <2> QED
        BY <2>4, <2>5
<1>2. ASSUME NEW op \in Op, NEW r \in Run, NEW failedOnly \in BOOLEAN,
             RetryRun(op, r, failedOnly)
      PROVE  Goal
    <2> DEFINE selected == RetrySelection(r, failedOnly)
               kind == IF failedOnly THEN "retry_failed" ELSE "retry"
               names == {NameOf[x] : x \in selected}
    <2>1. selected \in SUBSET Row /\ names \in SUBSET Name
        BY NameOfAssumption DEF RetrySelection, RowsOf
    <2>2. names = {NameOf[x] : x \in selected}
        OBVIOUS
    <2>3. Unused(op) /\ JoinOrCreate(op, kind, names, {r}, selected)
        BY <1>2 DEF RetryRun
    <2> HIDE DEF selected, kind, names
    <2>4. /\ \A s \in Run : RunStep(s)
          /\ \E e \in journal' : e.op = op
          /\ journal \subseteq journal'
        BY <2>1, <2>2, <2>3, JoinOrCreateStep
    <2>5. \A s \in Run : RunCreated(s) => s = op
        BY <2>3 DEF JoinOrCreate, RunCreated, TypeOK, Run
    <2> QED
        BY <2>4, <2>5
<1>3. ASSUME NEW op \in Op, NEW r \in Run, RequestCancel(op, r)
      PROVE  Goal
    <2>1. journal \subseteq journal'
        BY <1>3, RecordMutationFacts DEF RequestCancel
    <2>2. CASE UNCHANGED <<run, rows>>
        BY <2>1, <2>2, <1>same
    <2>3. CASE /\ run[r] \in ActiveRunStates
               /\ rows' = [rows EXCEPT ![r] = CancelledRows(rows[r])]
               /\ run' = [run EXCEPT ![r] =
                            ReconciledRun("cancelling", CancelledRows(rows[r]))]
        <3> DEFINE ts == CancelledRows(rows[r])
        <3>1. /\ ts \in [Row -> TargetStates]
              /\ \A x \in Row :
                    \/ /\ rows[r][x] \notin {"queued", "starting", "running"}
                       /\ ts[x] = rows[r][x]
                    \/ rows[r][x] = "queued" /\ ts[x] = "cancelled"
                    \/ /\ rows[r][x] \in {"starting", "running"}
                       /\ ts[x] = "stopping"
            BY <1>typed, CancelledRowsFacts
        <3>2. /\ run'[r] = ReconciledRun("cancelling", ts)
              /\ rows'[r] = ts
              /\ \A s \in Run \ {r} : RunUnchanged(s)
            BY <2>3 DEF TypeOK, RunUnchanged
        <3>3. "cancelling" \in ActiveRunStates /\ "cancelling" \in RunStates
            BY DEF ActiveRunStates, RunStates
        <3> HIDE DEF ts
        <3>4. \A x \in Row : ts[x] # "queued"
            BY <3>1
        <3>5. ReconciledRows("cancelling", ts) = ts
            BY DEF ReconciledRows
        <3>6. /\ run'[r] \in ActiveRunStates \cup TerminalRunStates
              /\ RunSettled(run'[r], ts)
            BY <3>1, <3>2, <3>3, <3>4, <3>5, ReconcileSettles
        <3>7. RowsAdvance(rows[r], ts)
            BY <3>1 DEF RowsAdvance, TerminalTargetStates
        <3>8. RunAdvanced(r)
            BY <2>3, <3>2, <3>6, <3>7 DEF RunAdvanced
        <3> QED
            BY <2>1, <3>2, <3>8, <1>one
    <2> QED
        BY <1>3, <2>2, <2>3 DEF RequestCancel
<1>4. ASSUME NEW op \in Op, NEW r \in Run, IssueEvidenceAttestation(op, r)
      PROVE  Goal
    BY <1>4, <1>same, RecordMutationFacts DEF IssueEvidenceAttestation
<1>5. ASSUME NEW op \in Op, ConsumeEvidencePolicy(op)
      PROVE  Goal
    BY <1>5, <1>same, RecordMutationFacts DEF ConsumeEvidencePolicy
<1>6. ASSUME NEW r \in Run, NEW x \in Row, BeginExecution(r, x)
      PROVE  Goal
    <2>1. /\ run'[r] = "running"
          /\ rows'[r] = [rows[r] EXCEPT ![x] = "starting"]
          /\ \A s \in Run \ {r} : RunUnchanged(s)
        BY <1>6 DEF BeginExecution, TypeOK, RunUnchanged
    <2>2. RowsAdvance(rows[r], rows'[r])
        BY <1>6, <1>typed, <2>1 DEF BeginExecution, RowsAdvance,
                                    TerminalTargetStates
    <2>3. RunAdvanced(r)
        BY <1>6, <2>1, <2>2 DEF BeginExecution, RunAdvanced, ActiveRunStates,
                                TerminalRunStates, RunSettled
    <2> QED
        BY <1>6, <2>1, <2>3, <1>one DEF BeginExecution
<1>7. ASSUME NEW r \in Run, NEW x \in Row, RecordStarted(r, x)
      PROVE  Goal
    <2>1. /\ run'[r] = run[r]
          /\ rows'[r] = [rows[r] EXCEPT ![x] = "running"]
          /\ \A s \in Run \ {r} : RunUnchanged(s)
        BY <1>7 DEF RecordStarted, TypeOK, RunUnchanged
    <2>2. RowsAdvance(rows[r], rows'[r])
        BY <1>7, <1>typed, <2>1 DEF RecordStarted, RowsAdvance,
                                    TerminalTargetStates
    <2>3. run[r] \in ActiveRunStates
        BY <1>7, <1>typed DEF RecordStarted, RunSettled, RunStates,
                              UnfinishedTargetStates, ActiveTargetStates
    <2>4. RunAdvanced(r)
        BY <1>7, <1>typed, <2>1, <2>2, <2>3
           DEF RunAdvanced, RunSettled, ActiveRunStates, TerminalRunStates
    <2> QED
        BY <1>7, <2>1, <2>4, <1>one DEF RecordStarted
<1>8. ASSUME NEW r \in Run, NEW x \in Row, NEW pkg \in Package, NEW c \in Claim,
             CompleteFromPackage(r, x, pkg, c)
      PROVE  Goal
    <2> DEFINE end == AcceptedConclusion(pkg, c)
               ts == [rows[r] EXCEPT ![x] = end]
               us == ReconciledRows(run[r], ts)
    <2>1. end \in TerminalTargetStates
        BY ClaimAssumption DEF AcceptedConclusion, TerminalTargetStates
    <2>2. /\ run'[r] = ReconciledRun(run[r], us)
          /\ rows'[r] = us
          /\ \A s \in Run \ {r} : RunUnchanged(s)
          /\ rows[r][x] \in ActiveTargetStates
        BY <1>8 DEF CompleteFromPackage, TypeOK, RunUnchanged
    <2> HIDE DEF end
    <2>3. run[r] \in ActiveRunStates
        BY <2>2, <1>typed DEF RunSettled, RunStates, UnfinishedTargetStates,
                              ActiveTargetStates
    <2>4. /\ ts \in [Row -> TargetStates]
          /\ RowsAdvance(rows[r], ts)
          /\ run[r] = "cancelling" => \A y \in Row : ts[y] # "queued"
        BY <1>typed, <2>1, <2>2 DEF RowsAdvance, TargetStates,
            TerminalTargetStates, ActiveTargetStates, RunSettled
    <2> HIDE DEF ts
    <2>5. /\ run'[r] \in ActiveRunStates \cup TerminalRunStates
          /\ RowsAdvance(ts, us)
          /\ RunSettled(run'[r], us)
        BY <2>2, <2>3, <2>4, ReconcileSettles
    <2>6. RunAdvanced(r)
        BY <2>2, <2>3, <2>4, <2>5, RowsAdvanceTransitive DEF RunAdvanced
    <2> QED
        BY <1>8, <2>2, <2>6, <1>one DEF CompleteFromPackage
<1>9. ASSUME ReconcileNonterminalRuns
      PROVE  Goal
    <2>1. ASSUME NEW r \in Run
          PROVE  RunStep(r) /\ ~RunCreated(r)
        <3>1. CASE run[r] \in ActiveRunStates
            <4> DEFINE us == ReconciledRows(run[r], rows[r])
            <4>1. rows'[r] = us /\ run'[r] = ReconciledRun(run[r], us)
                BY <1>9, <3>1 DEF ReconcileNonterminalRuns
            <4>2. run[r] = "cancelling" => \A y \in Row : rows[r][y] # "queued"
                BY DEF RunSettled
            <4> HIDE DEF us
            <4>3. /\ run'[r] \in ActiveRunStates \cup TerminalRunStates
                  /\ RowsAdvance(rows[r], us)
                  /\ RunSettled(run'[r], us)
                BY <1>typed, <3>1, <4>1, <4>2, ReconcileSettles DEF us
            <4> QED
                BY <3>1, <4>1, <4>3 DEF RunStep, RunAdvanced, RunCreated,
                                        ActiveRunStates
        <3>2. CASE run[r] \notin ActiveRunStates
            <4>1. rows'[r] = rows[r] /\ run'[r] = run[r]
                BY <1>9, <3>2 DEF ReconcileNonterminalRuns
            <4> QED
                BY <4>1 DEF RunStep, RunUnchanged, RunCreated
        <3> QED
            BY <3>1, <3>2
    <2> QED
        BY <1>9, <2>1 DEF ReconcileNonterminalRuns
<1>10. ASSUME NEW r \in Run, ExpireEvidence(r)
       PROVE  Goal
    BY <1>10, <1>same DEF ExpireEvidence
<1>11. CASE UNCHANGED vars
    BY <1>11, <1>same DEF vars
<1> QED
    BY <1>1, <1>2, <1>3, <1>4, <1>5, <1>6, <1>7, <1>8, <1>9, <1>10, <1>11
       DEF Next, CallerStep, EngineStep

-----------------------------------------------------------------------------
(***************************************************************************)
(* Settled runs and final conclusions                                      *)
(***************************************************************************)

\* The strengthening is an invariant of the store.
LEMMA StoreSettled == Spec => []SettledInv
<1>1. Init => RunsJournaled /\ \A r \in Run : RunSettled(run[r], rows[r])
    BY DEF Init, RunsJournaled, RunSettled, TerminalRunStates
<1>2. SettledInv /\ [Next]_vars =>
        RunsJournaled' /\ (\A r \in Run : RunSettled(run[r], rows[r]))'
    <2> SUFFICES ASSUME SettledInv, [Next]_vars
                 PROVE  /\ RunsJournaled'
                        /\ \A r \in Run : RunSettled(run'[r], rows'[r])
        OBVIOUS
    <2>1. /\ \A r \in Run : RunStep(r)
          /\ \A r \in Run : RunCreated(r) => \E e \in journal' : e.op = r
          /\ journal \subseteq journal'
        BY StoreStep
    <2>2. ASSUME NEW r \in Run, run'[r] # "none"
          PROVE  \E e \in journal' : e.op = r
        <3>1. CASE RunCreated(r)
            BY <2>1, <3>1
        <3>2. CASE RunUnchanged(r) \/ RunAdvanced(r)
            <4>1. run[r] # "none"
                BY <2>2, <3>2 DEF RunUnchanged, RunAdvanced, ActiveRunStates
            <4> QED
                BY <2>1, <4>1 DEF SettledInv, RunsJournaled
        <3> QED
            BY <2>1, <3>1, <3>2 DEF RunStep
    <2>3. ASSUME NEW r \in Run
          PROVE  RunSettled(run'[r], rows'[r])
        <3>1. CASE RunUnchanged(r)
            BY <3>1 DEF RunUnchanged, SettledInv
        <3>2. CASE RunCreated(r)
            <4>1. CASE run'[r] = "queued"
                BY <4>1 DEF RunSettled, TerminalRunStates
            <4>2. CASE run'[r] = "succeeded" /\ RowsOf(rows'[r]) = {}
                BY <4>2 DEF RunSettled, RowsOf, UnfinishedTargetStates,
                            ActiveTargetStates
            <4> QED
                BY <3>2, <4>1, <4>2 DEF RunCreated
        <3>3. CASE RunAdvanced(r)
            BY <3>3 DEF RunAdvanced
        <3> QED
            BY <2>1, <3>1, <3>2, <3>3 DEF RunStep
    <2> QED
        BY <2>2, <2>3 DEF RunsJournaled
<1> QED
    BY <1>1, <1>2, StoreTypeCorrect, PTL DEF Spec, SettledInv

\* A run is concluded only once its rows are, and as a success only when
\* all of them succeeded: cancellation, failure propagation, retries and the
\* periodic reconciliation included.
THEOREM StoreTerminalRunSettled == Spec => []TerminalRunSettled
<1>1. SettledInv => TerminalRunSettled
    BY DEF SettledInv, RunSettled, TerminalRunSettled
<1> QED
    BY <1>1, StoreSettled, PTL

\* No operation changes the state of a concluded run or row again.
THEOREM StoreConclusionsAreFinal == Spec => ConclusionsAreFinal
<1> DEFINE Final == \A r \in Run :
                /\ run[r] \in TerminalRunStates => run'[r] = run[r]
                /\ \A x \in Row : rows[r][x] \in TerminalTargetStates
                                    => rows'[r][x] = rows[r][x]
<1>1. SettledInv /\ [Next]_vars => [Final]_vars
    <2> SUFFICES ASSUME SettledInv, [Next]_vars, NEW r \in Run
                 PROVE  /\ run[r] \in TerminalRunStates => run'[r] = run[r]
                        /\ \A x \in Row : rows[r][x] \in TerminalTargetStates
                                            => rows'[r][x] = rows[r][x]
        OBVIOUS
    <2>1. RunStep(r)
        BY StoreStep
    <2>2. CASE RunUnchanged(r)
        BY <2>2 DEF RunUnchanged
    <2>3. CASE RunCreated(r)
        BY <2>3 DEF RunCreated, SettledInv, RunSettled, TerminalRunStates,
                    TerminalTargetStates
    <2>4. CASE RunAdvanced(r)
        BY <2>4 DEF RunAdvanced, RowsAdvance, ActiveRunStates, TerminalRunStates
    <2> QED
        BY <2>1, <2>2, <2>3, <2>4 DEF RunStep
<1> QED
    BY <1>1, StoreSettled, PTL DEF Spec, ConclusionsAreFinal

-----------------------------------------------------------------------------
(***************************************************************************)
(* One active run per execution fingerprint                                *)
(***************************************************************************)

\* However submissions, retries and cancellations interleave, two active
\* runs never select the same targets.
THEOREM StoreOneActiveRun == Spec => []OneActiveRunPerFingerprint
<1>1. Init => OneActiveRunPerFingerprint
    BY DEF Init, OneActiveRunPerFingerprint, ActiveRunStates
<1>2. SettledInv /\ OneActiveRunPerFingerprint /\ [Next]_vars
        => OneActiveRunPerFingerprint'
    <2> SUFFICES ASSUME SettledInv, OneActiveRunPerFingerprint, [Next]_vars,
                        NEW r \in Run, NEW s \in Run,
                        run'[r] \in ActiveRunStates,
                        run'[s] \in ActiveRunStates,
                        NamesOf(rows'[r]) = NamesOf(rows'[s])
                 PROVE  r = s
        BY DEF OneActiveRunPerFingerprint
    <2>1. \A t \in Run : RunStep(t)
        BY StoreStep
    <2>2. ASSUME NEW t \in Run, run'[t] \in ActiveRunStates, ~RunCreated(t)
          PROVE  /\ run[t] \in ActiveRunStates
                 /\ NamesOf(rows'[t]) = NamesOf(rows[t])
        BY <2>1, <2>2, RowsAdvanceKeepsNames
           DEF RunStep, RunUnchanged, RunAdvanced
    <2>3. ASSUME NEW t \in Run, NEW u \in Run, RunCreated(t), t # u,
                 run'[u] \in ActiveRunStates,
                 NamesOf(rows'[t]) = NamesOf(rows'[u])
          PROVE  FALSE
        <3>1. u \in ActiveWithFingerprint(NamesOf(rows'[t]))
            BY <2>3 DEF RunCreated, RunUnchanged, ActiveWithFingerprint
        <3> QED
            BY <2>3, <3>1 DEF RunCreated
    <2> QED
        BY <2>2, <2>3 DEF OneActiveRunPerFingerprint
<1> QED
    BY <1>1, <1>2, StoreSettled, PTL DEF Spec

-----------------------------------------------------------------------------
(***************************************************************************)
(* Consequences of a step for the rows of a run                            *)
(***************************************************************************)

\* A row that exists keeps existing, a finished one keeps its conclusion and
\* only a queued row of an existing run is queued: a run is created before
\* anything is done to it, and once.
LEMMA RowStep ==
    ASSUME SettledInv, [Next]_vars, NEW r \in Run, run[r] # "none"
    PROVE  /\ run'[r] # "none"
           /\ RowsAdvance(rows[r], rows'[r])
           /\ NamesOf(rows'[r]) = NamesOf(rows[r])
           /\ RowsOf(rows'[r]) = RowsOf(rows[r])
<1>1. RunUnchanged(r) \/ RunAdvanced(r)
    BY StoreStep DEF RunStep, RunCreated
<1>2. CASE RunUnchanged(r)
    BY <1>2 DEF RunUnchanged, RowsAdvance
<1>3. CASE RunAdvanced(r)
    BY <1>3, RowsAdvanceKeepsNames DEF RunAdvanced, ActiveRunStates,
                                       TerminalRunStates
<1> QED
    BY <1>1, <1>2, <1>3

\* A row with a state belongs to a run.
LEMMA RowHasRun ==
    ASSUME SettledInv, NEW r \in Run, NEW x \in Row, rows[r][x] # "none"
    PROVE  run[r] # "none"
BY DEF SettledInv, RunSettled

\* A success is never taken back.
LEMMA SuccessStays ==
    ASSUME SettledInv, [Next]_vars, NEW r \in Run, NEW x \in Row,
           rows[r][x] = "succeeded"
    PROVE  rows'[r][x] = "succeeded"
BY RowHasRun, RowStep DEF RowsAdvance, TerminalTargetStates

-----------------------------------------------------------------------------
(***************************************************************************)
(* Dependencies                                                            *)
(***************************************************************************)

\* An execution belongs to a row that has left the queue.
BegunLeftQueue ==
    \A r \in Run, x \in Row :
        <<r, x>> \in begun => rows[r][x] \notin {"none", "queued"}

\* begin_execution is the only operation that grants an execution.
LEMMA BegunStep ==
    ASSUME [Next]_vars
    PROVE  \/ begun' = begun
           \/ \E r \in Run, x \in Row :
                BeginExecution(r, x) /\ begun' = begun \cup {<<r, x>>}
<1>1. ASSUME NEW r \in Run, NEW x \in Row, BeginExecution(r, x)
      PROVE  begun' = begun \cup {<<r, x>>}
    BY <1>1 DEF BeginExecution
<1>2. CASE \E r \in Run, x \in Row : BeginExecution(r, x)
    BY <1>1, <1>2
<1>3. CASE ~\E r \in Run, x \in Row : BeginExecution(r, x)
    <2>1. begun' = begun
        BY <1>3
           DEF Next, CallerStep, EngineStep, vars, SubmitPlan, RetryRun,
               RequestCancel, IssueEvidenceAttestation, ConsumeEvidencePolicy,
               RecordStarted, CompleteFromPackage, ReconcileNonterminalRuns,
               ExpireEvidence
    <2> QED
        BY <2>1
<1> QED
    BY <1>2, <1>3

\* Every execution was granted after all shards of all its exact
\* dependencies had succeeded, and nothing undoes that later.
THEOREM StoreDependencyOrder == Spec => []DependencyOrder
<1> DEFINE Inv == BegunLeftQueue /\ DependencyOrder
<1>1. Init => Inv
    BY DEF Init, BegunLeftQueue, DependencyOrder
<1>2. SettledInv /\ Inv /\ [Next]_vars => Inv'
    <2> SUFFICES ASSUME SettledInv, Inv, [Next]_vars,
                        NEW r \in Run, NEW x \in Row, <<r, x>> \in begun'
                 PROVE  /\ rows'[r][x] \notin {"none", "queued"}
                        /\ TargetDependenciesSucceeded(rows'[r], x)
        BY DEF BegunLeftQueue, DependencyOrder
    <2>1. CASE <<r, x>> \in begun
        <3>1. rows[r][x] \notin {"none", "queued"}
            BY <2>1 DEF BegunLeftQueue
        <3>2. RowsAdvance(rows[r], rows'[r])
            BY <3>1, RowHasRun, RowStep
        <3>3. TargetDependenciesSucceeded(rows[r], x)
            BY <2>1 DEF DependencyOrder
        <3> QED
            BY <3>1, <3>2, <3>3, DependenciesStay DEF RowsAdvance
    <2>2. CASE BeginExecution(r, x)
        <3>1. rows'[r][x] = "starting"
            BY <2>2 DEF BeginExecution, SettledInv, TypeOK
        <3>2. RowsAdvance(rows[r], rows'[r])
            <4>1. run[r] # "none"
                BY <2>2 DEF BeginExecution
            <4> QED
                BY <4>1, RowStep
        <3>3. TargetDependenciesSucceeded(rows[r], x)
            BY <2>2 DEF BeginExecution
        <3> QED
            BY <3>1, <3>2, <3>3, DependenciesStay
    <2> QED
        BY <2>1, <2>2, BegunStep
<1> QED
    BY <1>1, <1>2, StoreSettled, PTL DEF Spec

-----------------------------------------------------------------------------
(***************************************************************************)
(* Conclusions and measurements                                            *)
(***************************************************************************)

\* Only a concluded row has a package.
UnfinishedUnmeasured ==
    \A r \in Run, x \in Row :
        rows[r][x] \notin TerminalTargetStates => measured[r][x] = NoPackage

\* complete_from_package is the only operation that retains a package.
LEMMA MeasuredStep ==
    ASSUME [Next]_vars
    PROVE  \/ measured' = measured
           \/ \E r \in Run, x \in Row, pkg \in Package, c \in Claim :
                CompleteFromPackage(r, x, pkg, c)
BY DEF Next, CallerStep, EngineStep, vars, SubmitPlan, RetryRun, RequestCancel,
       IssueEvidenceAttestation, ConsumeEvidencePolicy, BeginExecution,
       RecordStarted, ReconcileNonterminalRuns, ExpireEvidence

\* Rows that become succeeded do so by complete_from_package.
LEMMA SuccessStep ==
    ASSUME SettledInv, [Next]_vars, NEW r \in Run, NEW x \in Row,
           rows[r][x] # "succeeded", rows'[r][x] = "succeeded"
    PROVE  \E pkg \in Package, c \in Claim : CompleteFromPackage(r, x, pkg, c)
<1> USE DEF SettledInv
<1>typed. \A s \in Run : run[s] \in RunStates /\ rows[s] \in [Row -> TargetStates]
    BY DEF TypeOK
<1>1. ASSUME NEW op \in Op, NEW kind, NEW names, NEW source, NEW selected,
             JoinOrCreate(op, kind, names, source, selected)
      PROVE  FALSE
    BY <1>1, <1>typed DEF JoinOrCreate, TypeOK, Run
<1>2. ASSUME NEW op \in Op, NEW s \in Run, RequestCancel(op, s)
      PROVE  FALSE
    <2>1. CASE UNCHANGED rows
        BY <2>1
    <2>2. CASE rows' = [rows EXCEPT ![s] = CancelledRows(rows[s])]
        <3>1. \/ CancelledRows(rows[s])[x] = rows[s][x]
              \/ CancelledRows(rows[s])[x] \in {"cancelled", "stopping"}
            BY <1>typed, CancelledRowsFacts
        <3> QED
            BY <2>2, <3>1 DEF TypeOK
    <2> QED
        BY <1>2, <2>1, <2>2 DEF RequestCancel
<1>3. ASSUME NEW s \in Run, NEW y \in Row, BeginExecution(s, y)
      PROVE  FALSE
    BY <1>3 DEF BeginExecution, TypeOK
<1>4. ASSUME NEW s \in Run, NEW y \in Row, RecordStarted(s, y)
      PROVE  FALSE
    BY <1>4 DEF RecordStarted, TypeOK
<1>5. ASSUME NEW s \in Run, NEW y \in Row, NEW pkg \in Package, NEW c \in Claim,
             CompleteFromPackage(s, y, pkg, c)
      PROVE  s = r /\ y = x
    <2> DEFINE ts == [rows[s] EXCEPT ![y] = AcceptedConclusion(pkg, c)]
               us == ReconciledRows(run[s], ts)
    <2>1. rows' = [rows EXCEPT ![s] = us]
        BY <1>5 DEF CompleteFromPackage
    <2>2. us[x] = ts[x] \/ us[x] = "cancelled"
        BY <1>typed, ConclusionType, ReconciledRowsFacts
    <2>3. y # x => ts[x] = rows[s][x]
        BY <1>typed
    <2> HIDE DEF ts, us
    <2> QED
        BY <2>1, <2>2, <2>3 DEF TypeOK
<1>6. ASSUME ReconcileNonterminalRuns
      PROVE  FALSE
    <2>1. rows'[r] = rows[r] \/ rows'[r] = ReconciledRows(run[r], rows[r])
        BY <1>6 DEF ReconcileNonterminalRuns
    <2>2. \/ ReconciledRows(run[r], rows[r])[x] = rows[r][x]
          \/ ReconciledRows(run[r], rows[r])[x] = "cancelled"
        BY <1>typed, ReconciledRowsFacts
    <2> QED
        BY <2>1, <2>2
<1>7. rows' # rows
    OBVIOUS
<1> QED
    BY <1>1, <1>2, <1>3, <1>4, <1>5, <1>6, <1>7
       DEF Next, CallerStep, EngineStep, vars, SubmitPlan, RetryRun,
           IssueEvidenceAttestation, ConsumeEvidencePolicy, ExpireEvidence

\* The conclusion the store retains agrees with the package it checked.
LEMMA AcceptedConclusionFacts ==
    ASSUME NEW pkg \in Package, NEW c \in Claim, ConclusionAllowed(pkg, c)
    PROVE  LET end == AcceptedConclusion(pkg, c)
           IN  /\ end \in TerminalTargetStates
               /\ pkg.complete /\ pkg.failed => end = "test_failed"
               /\ end = "succeeded" => pkg.complete /\ ~pkg.failed
<1>1. c \in TerminalTargetStates /\ pkg.complete \in BOOLEAN
        /\ pkg.failed \in BOOLEAN
    BY ClaimAssumption, PackageAssumption DEF PackageType
<1> QED
    BY <1>1 DEF AcceptedConclusion, ConclusionAllowed, TerminalTargetStates

\* What complete_from_package writes for its own row.
LEMMA CompleteWrites ==
    ASSUME TypeOK, NEW r \in Run, NEW x \in Row, NEW pkg \in Package,
           NEW c \in Claim, CompleteFromPackage(r, x, pkg, c)
    PROVE  /\ rows'[r][x] = AcceptedConclusion(pkg, c)
           /\ measured'[r][x] = pkg
           /\ ConclusionAllowed(pkg, c)
           /\ AcceptedConclusion(pkg, c) \in TerminalTargetStates
<1> DEFINE end == AcceptedConclusion(pkg, c)
           ts == [rows[r] EXCEPT ![x] = end]
           us == ReconciledRows(run[r], ts)
<1>1. /\ rows' = [rows EXCEPT ![r] = us]
      /\ measured' = [measured EXCEPT ![r][x] = pkg]
      /\ ConclusionAllowed(pkg, c)
    BY DEF CompleteFromPackage
<1>2. end \in TerminalTargetStates
    BY <1>1, AcceptedConclusionFacts
<1>3. run[r] \in RunStates /\ rows[r] \in [Row -> TargetStates]
    BY DEF TypeOK
<1>4. ts \in [Row -> TargetStates] /\ ts[x] = end
    BY <1>3, ConclusionType
<1>5. us[x] = ts[x] \/ ts[x] = "queued"
    BY <1>3, <1>4, ReconciledRowsFacts
<1>6. end # "queued"
    BY <1>2 DEF TerminalTargetStates
<1>7. us[x] = end
    BY <1>4, <1>5, <1>6
<1> HIDE DEF us, ts, end
<1>8. rows'[r][x] = end /\ measured'[r][x] = pkg
    BY <1>1, <1>7 DEF TypeOK
<1> QED
    BY <1>1, <1>2, <1>8 DEF end

\* The package of another row is not touched.
LEMMA MeasuredElsewhere ==
    ASSUME TypeOK, [Next]_vars, NEW r \in Run, NEW x \in Row,
           ~\E pkg \in Package, c \in Claim : CompleteFromPackage(r, x, pkg, c)
    PROVE  measured'[r][x] = measured[r][x]
<1>1. CASE measured' = measured
    BY <1>1
<1>2. ASSUME NEW s \in Run, NEW y \in Row, NEW pkg \in Package, NEW c \in Claim,
             CompleteFromPackage(s, y, pkg, c)
      PROVE  measured'[r][x] = measured[r][x]
    <2>1. measured' = [measured EXCEPT ![s][y] = pkg]
        BY <1>2 DEF CompleteFromPackage
    <2>2. s # r \/ y # x
        BY <1>2
    <2> QED
        BY <2>1, <2>2 DEF TypeOK
<1> QED
    BY <1>1, <1>2, MeasuredStep

\* No retained conclusion contradicts the package it was drawn from, however
\* the engine's claim, cancellation and failure propagation interleave.
THEOREM StoreConclusionMatchesMeasurement ==
    Spec => []ConclusionMatchesMeasurement
<1> DEFINE Inv == UnfinishedUnmeasured /\ ConclusionMatchesMeasurement
<1>1. Init => Inv
    BY DEF Init, UnfinishedUnmeasured, ConclusionMatchesMeasurement, NoPackage
<1>2. SettledInv /\ Inv /\ [Next]_vars => Inv'
    <2> SUFFICES ASSUME SettledInv, Inv, [Next]_vars,
                        NEW r \in Run, NEW x \in Row
                 PROVE  /\ rows'[r][x] \notin TerminalTargetStates
                            => measured'[r][x] = NoPackage
                        /\ measured'[r][x].complete /\ measured'[r][x].failed
                            => rows'[r][x] = "test_failed"
                        /\ rows'[r][x] = "succeeded"
                            => /\ measured'[r][x].complete
                               /\ ~measured'[r][x].failed
        BY DEF UnfinishedUnmeasured, ConclusionMatchesMeasurement
    <2>1. ASSUME NEW pkg \in Package, NEW c \in Claim,
                 CompleteFromPackage(r, x, pkg, c)
          PROVE  /\ rows'[r][x] \in TerminalTargetStates
                 /\ measured'[r][x].complete /\ measured'[r][x].failed
                        => rows'[r][x] = "test_failed"
                 /\ rows'[r][x] = "succeeded"
                        => measured'[r][x].complete /\ ~measured'[r][x].failed
        BY <2>1, CompleteWrites, AcceptedConclusionFacts DEF SettledInv
    <2>2. CASE ~\E pkg \in Package, c \in Claim : CompleteFromPackage(r, x, pkg, c)
        <3>1. measured'[r][x] = measured[r][x]
            BY <2>2, MeasuredElsewhere DEF SettledInv
        <3>2. rows[r][x] \in TerminalTargetStates => rows'[r][x] = rows[r][x]
            BY RowHasRun, RowStep DEF RowsAdvance, TerminalTargetStates
        <3>3. rows'[r][x] = "succeeded" => rows[r][x] = "succeeded"
            BY <2>2, SuccessStep
        <3>4. /\ measured[r][x].complete /\ measured[r][x].failed
                    => rows[r][x] = "test_failed"
              /\ rows[r][x] = "succeeded"
                    => measured[r][x].complete /\ ~measured[r][x].failed
              /\ rows[r][x] \notin TerminalTargetStates
                    => measured[r][x] = NoPackage
            BY DEF UnfinishedUnmeasured, ConclusionMatchesMeasurement
        <3>5. "test_failed" \in TerminalTargetStates
            BY DEF TerminalTargetStates
        <3> QED
            BY <3>1, <3>2, <3>3, <3>4, <3>5
    <2> QED
        BY <2>1, <2>2
<1> QED
    BY <1>1, <1>2, StoreSettled, PTL DEF Spec

-----------------------------------------------------------------------------
(***************************************************************************)
(* The mutation journal                                                    *)
(***************************************************************************)
Submission == {"submit", "retry", "retry_failed"}

\* A submission or a retry is answered with a run over exactly its targets.
LEMMA JoinOrCreateAnswer ==
    ASSUME TypeOK, NEW op \in Op, NEW kind, NEW names \in SUBSET Name,
           NEW source, NEW selected \in SUBSET Row, names = {NameOf[x] : x \in selected},
           JoinOrCreate(op, kind, names, source, selected)
    PROVE  \E result \in Run :
            /\ RecordMutation(op, kind, names, source, result)
            /\ run'[result] # "none"
            /\ NamesOf(rows'[result]) = names
<1>1. ASSUME NEW r \in ActiveWithFingerprint(names),
             RecordMutation(op, kind, names, source, r),
             UNCHANGED <<run, rows>>
      PROVE  r \in Run /\ run'[r] # "none" /\ NamesOf(rows'[r]) = names
    BY <1>1 DEF ActiveWithFingerprint, ActiveRunStates
<1>2. ASSUME run' = [run EXCEPT ![op] =
                        IF selected = {} THEN "succeeded" ELSE "queued"],
             rows' = [rows EXCEPT ![op] =
                        [x \in Row |-> IF x \in selected THEN "queued"
                                                         ELSE "none"]]
      PROVE  op \in Run /\ run'[op] # "none" /\ NamesOf(rows'[op]) = names
    <2>1. /\ run'[op] # "none"
          /\ rows'[op] = [x \in Row |-> IF x \in selected THEN "queued"
                                                          ELSE "none"]
        BY <1>2 DEF TypeOK, Run
    <2>2. RowsOf(rows'[op]) = selected
        BY <2>1 DEF RowsOf
    <2> QED
        BY <2>1, <2>2 DEF NamesOf, Run
<1> QED
    BY <1>1, <1>2 DEF JoinOrCreate

\* The engine and the clock neither journal an operation nor use evidence.
LEMMA OnlyCallersJournal ==
    ASSUME [Next]_vars, ~CallerStep
    PROVE  journal' = journal /\ consumed' = consumed
<1>1. ASSUME NEW r \in Run, NEW x \in Row, NEW pkg \in Package,
             NEW c \in Claim, CompleteFromPackage(r, x, pkg, c)
      PROVE  journal' = journal /\ consumed' = consumed
    BY <1>1 DEF CompleteFromPackage
<1>2. ASSUME ReconcileNonterminalRuns
      PROVE  journal' = journal /\ consumed' = consumed
    BY <1>2 DEF ReconcileNonterminalRuns
<1>3. ASSUME EngineStep
      PROVE  journal' = journal /\ consumed' = consumed
    BY <1>1, <1>2, <1>3 DEF EngineStep, BeginExecution, RecordStarted
<1>4. ASSUME (\E r \in Run : ExpireEvidence(r)) \/ UNCHANGED vars
      PROVE  journal' = journal /\ consumed' = consumed
    BY <1>4 DEF ExpireEvidence, vars
<1> QED
    BY <1>3, <1>4 DEF Next

\* A step journals nothing, or one new operation with its answer.
LEMMA JournalStep ==
    ASSUME TypeOK, [Next]_vars
    PROVE  \/ journal' = journal
           \/ \E op, kind, names, source, result :
                /\ Unused(op)
                /\ RecordMutation(op, kind, names, source, result)
                /\ kind \in Submission =>
                    /\ result \in Run
                    /\ run'[result] # "none"
                    /\ NamesOf(rows'[result]) = names
<1> DEFINE Goal ==
        \E op, kind, names, source, result :
            /\ Unused(op)
            /\ RecordMutation(op, kind, names, source, result)
            /\ kind \in Submission =>
                /\ result \in Run
                /\ run'[result] # "none"
                /\ NamesOf(rows'[result]) = names
<1>1. ASSUME NEW op \in Op, NEW p \in Plan, SubmitPlan(op, p)
      PROVE  Goal
    <2> DEFINE selected == {x \in Row : NameOf[x] \in p}
               names == {NameOf[x] : x \in selected}
    <2>1. /\ names = p
          /\ names \in SUBSET Name
          /\ selected \in SUBSET Row
        BY PlanAssumption, NameOfAssumption
    <2>2. Unused(op) /\ JoinOrCreate(op, "submit", names, {}, selected)
        BY <1>1, <2>1 DEF SubmitPlan
    <2> HIDE DEF selected
    <2>3. \E result \in Run :
            /\ RecordMutation(op, "submit", names, {}, result)
            /\ run'[result] # "none"
            /\ NamesOf(rows'[result]) = names
        BY <2>1, <2>2, JoinOrCreateAnswer
    <2> HIDE DEF names
    <2> QED
        BY <2>2, <2>3
<1>2. ASSUME NEW op \in Op, NEW r \in Run, NEW failedOnly \in BOOLEAN,
             RetryRun(op, r, failedOnly)
      PROVE  Goal
    <2> DEFINE selected == RetrySelection(r, failedOnly)
               kind == IF failedOnly THEN "retry_failed" ELSE "retry"
               names == {NameOf[x] : x \in selected}
    <2>1. selected \in SUBSET Row /\ names \in SUBSET Name
        BY NameOfAssumption DEF RetrySelection, RowsOf
    <2>2. Unused(op) /\ JoinOrCreate(op, kind, names, {r}, selected)
        BY <1>2 DEF RetryRun
    <2> HIDE DEF selected, kind
    <2>3. \E result \in Run :
            /\ RecordMutation(op, kind, names, {r}, result)
            /\ run'[result] # "none"
            /\ NamesOf(rows'[result]) = names
        BY <2>1, <2>2, JoinOrCreateAnswer
    <2> HIDE DEF names
    <2> QED
        BY <2>2, <2>3
<1>3. ASSUME NEW op \in Op, NEW r \in Run, RequestCancel(op, r)
      PROVE  Goal
    <2>1. Unused(op) /\ RecordMutation(op, "cancel", {}, {r}, r)
        BY <1>3 DEF RequestCancel
    <2> QED
        BY <2>1 DEF Submission
<1>4. ASSUME NEW op \in Op, NEW r \in Run, IssueEvidenceAttestation(op, r)
      PROVE  Goal
    <2>1. Unused(op) /\ RecordMutation(op, "attest", {}, {r}, r)
        BY <1>4 DEF IssueEvidenceAttestation
    <2> QED
        BY <2>1 DEF Submission
<1>5. ASSUME NEW op \in Op, ConsumeEvidencePolicy(op)
      PROVE  Goal
    <2>1. Unused(op)
            /\ \E i : RecordMutation(op, "consume", {}, {}, attested[i])
        BY <1>5 DEF ConsumeEvidencePolicy
    <2> QED
        BY <2>1 DEF Submission
<1>6. CASE ~CallerStep
    BY <1>6, OnlyCallersJournal
<1>7. CASE CallerStep
    BY <1>1, <1>2, <1>3, <1>4, <1>5, <1>7 DEF CallerStep
<1> QED
    BY <1>6, <1>7

\* An operation identity keeps its one request and its one answer, and the
\* run a submission was answered with keeps exactly the targets it asked for.
THEOREM StoreJournalBindsOperation == Spec => []JournalBindsOperation
<1>1. Init => JournalBindsOperation
    BY DEF Init, JournalBindsOperation
<1>2. SettledInv /\ JournalBindsOperation /\ [Next]_vars
        => JournalBindsOperation'
    <2> SUFFICES ASSUME SettledInv, JournalBindsOperation, [Next]_vars
                 PROVE  JournalBindsOperation'
        OBVIOUS
    <2>1. \A e \in journal : e.kind \in Submission =>
            /\ e.result \in Run
            /\ run'[e.result] # "none"
            /\ NamesOf(rows'[e.result]) = e.names
        <3> SUFFICES ASSUME NEW e \in journal, e.kind \in Submission
                     PROVE  /\ e.result \in Run
                            /\ run'[e.result] # "none"
                            /\ NamesOf(rows'[e.result]) = e.names
            OBVIOUS
        <3>1. e.result \in Run
            BY DEF SettledInv, TypeOK, Entry
        <3>2. run[e.result] # "none" /\ NamesOf(rows[e.result]) = e.names
            BY DEF JournalBindsOperation, Submission
        <3> QED
            BY <3>1, <3>2, RowStep
    <2>2. CASE journal' = journal
        BY <2>1, <2>2 DEF JournalBindsOperation, Submission
    <2>3. ASSUME NEW op, NEW kind, NEW names, NEW source, NEW result,
                 Unused(op),
                 RecordMutation(op, kind, names, source, result),
                 kind \in Submission =>
                    /\ result \in Run
                    /\ run'[result] # "none"
                    /\ NamesOf(rows'[result]) = names
          PROVE  JournalBindsOperation'
        <3> DEFINE entry == [op |-> op, kind |-> kind, names |-> names,
                             source |-> source, result |-> result]
        <3>1. journal' = journal \cup {entry}
            BY <2>3 DEF RecordMutation
        <3>2. /\ entry.op = op /\ entry.kind = kind
              /\ entry.names = names /\ entry.result = result
            OBVIOUS
        <3> HIDE DEF entry
        <3>3. \A e, f \in journal' : e.op = f.op => e = f
            BY <2>3, <3>1, <3>2 DEF JournalBindsOperation, Unused
        <3>4. \A e \in journal' : e.kind \in Submission =>
                /\ run'[e.result] # "none"
                /\ NamesOf(rows'[e.result]) = e.names
            BY <2>1, <2>3, <3>1, <3>2
        <3> QED
            BY <3>3, <3>4 DEF JournalBindsOperation, Submission
    <2> QED
        BY <2>2, <2>3, JournalStep DEF SettledInv
<1> QED
    BY <1>1, <1>2, StoreSettled, PTL DEF Spec

-----------------------------------------------------------------------------
(***************************************************************************)
(* Evidence                                                                *)
(***************************************************************************)

\* Every consumption was made by a journaled operation.
ConsumptionsJournaled == \A c \in consumed : \E e \in journal : e.op = c.op

\* consume_evidence_policy is the only operation that uses evidence up.
LEMMA ConsumedStep ==
    ASSUME [Next]_vars
    PROVE  consumed' = consumed \/ \E op \in Op : ConsumeEvidencePolicy(op)
<1>1. CASE CallerStep
    BY <1>1 DEF CallerStep, SubmitPlan, RetryRun, RequestCancel,
                IssueEvidenceAttestation
<1>2. CASE ~CallerStep
    BY <1>2, OnlyCallersJournal
<1> QED
    BY <1>1, <1>2

\* No attestation is used by two consumptions, and no operation uses two.
THEOREM StoreEvidenceUsedOnce == Spec => []EvidenceUsedOnce
<1> DEFINE Inv == ConsumptionsJournaled /\ EvidenceUsedOnce
<1>1. Init => Inv
    BY DEF Init, ConsumptionsJournaled, EvidenceUsedOnce
<1>2. SettledInv /\ Inv /\ [Next]_vars => Inv'
    <2> SUFFICES ASSUME SettledInv, Inv, [Next]_vars
                 PROVE  Inv'
        OBVIOUS
    <2>1. journal \subseteq journal'
        BY StoreStep
    <2>2. CASE consumed' = consumed
        BY <2>1, <2>2 DEF ConsumptionsJournaled, EvidenceUsedOnce
    <2>3. ASSUME NEW op \in Op, ConsumeEvidencePolicy(op)
          PROVE  Inv'
        <3>1. PICK i \in Consumable :
                /\ consumed' = consumed \cup {[op |-> op, run |-> attested[i]]}
                /\ RecordMutation(op, "consume", {}, {}, attested[i])
            BY <2>3 DEF ConsumeEvidencePolicy
        <3> DEFINE used == [op |-> op, run |-> attested[i]]
        <3>2. used.op = op /\ used.run = attested[i]
            OBVIOUS
        <3>3. consumed' = consumed \cup {used}
            BY <3>1
        <3> HIDE DEF used
        <3>4. \A c \in consumed : c.op # op /\ c.run # attested[i]
            BY <2>3 DEF ConsumeEvidencePolicy, Unused, ConsumptionsJournaled,
                        Consumable
        <3>5. \E e \in journal' : e.op = op
            BY <3>1, RecordMutationFacts
        <3>6. ConsumptionsJournaled'
            BY <2>1, <3>2, <3>3, <3>5 DEF ConsumptionsJournaled
        <3>7. EvidenceUsedOnce'
            BY <3>2, <3>3, <3>4 DEF EvidenceUsedOnce
        <3> QED
            BY <3>6, <3>7
    <2> QED
        BY <2>2, <2>3, ConsumedStep
<1> QED
    BY <1>1, <1>2, StoreSettled, PTL DEF Spec

\* A shard of a selected target that a run leaves out has succeeded in an
\* earlier run: only a failed-only retry leaves shards out.
ShardsAccounted ==
    \A r \in Run, x \in Row :
        NameOf[x] \in NamesOf(rows[r]) =>
            rows[r][x] # "none" \/ \E s \in Run : rows[s][x] = "succeeded"

\* An attested run succeeded and selected every required target.
AttestedRuns ==
    \A i \in DOMAIN attested :
        /\ run[attested[i]] = "succeeded"
        /\ Required \subseteq NamesOf(rows[attested[i]])

\* A created run comes from a plan or from the selection of a retry.
LEMMA CreationStep ==
    ASSUME SettledInv, [Next]_vars, NEW r \in Run, RunCreated(r)
    PROVE  \/ \E p \in Plan :
                \A x \in Row : rows'[r][x] # "none" <=> NameOf[x] \in p
           \/ \E s \in Run, failedOnly \in BOOLEAN :
                \A x \in Row :
                    rows'[r][x] # "none" <=> x \in RetrySelection(s, failedOnly)
<1>typed. /\ TypeOK
          /\ \A s \in Run : run[s] \in RunStates
    BY DEF SettledInv, TypeOK
<1>1. ASSUME NEW op \in Op, NEW kind, NEW names, NEW source, NEW selected,
             JoinOrCreate(op, kind, names, source, selected)
      PROVE  \A x \in Row : rows'[r][x] # "none" <=> x \in selected
    <2>1. r = op /\ rows' = [rows EXCEPT ![op] =
                        [x \in Row |-> IF x \in selected THEN "queued"
                                                         ELSE "none"]]
        BY <1>1, <1>typed DEF JoinOrCreate, RunCreated, TypeOK, Run
    <2>2. \A x \in Row : rows'[r][x] = IF x \in selected THEN "queued" ELSE "none"
        BY <2>1, <1>typed DEF TypeOK, Run
    <2> QED
        BY <2>2
<1>2. ASSUME NEW op \in Op, NEW p \in Plan, SubmitPlan(op, p)
      PROVE  \A x \in Row : rows'[r][x] # "none" <=> NameOf[x] \in p
    BY <1>1, <1>2 DEF SubmitPlan
<1>3. ASSUME NEW op \in Op, NEW s \in Run, NEW failedOnly \in BOOLEAN,
             RetryRun(op, s, failedOnly)
      PROVE  \A x \in Row :
                rows'[r][x] # "none" <=> x \in RetrySelection(s, failedOnly)
    BY <1>1, <1>3 DEF RetryRun
<1>4. run[r] = "none" /\ run'[r] # "none"
    BY DEF RunCreated
<1>5. ASSUME NEW op \in Op, NEW s \in Run, RequestCancel(op, s)
      PROVE  FALSE
    BY <1>4, <1>5, <1>typed DEF RequestCancel, TypeOK, ActiveRunStates
<1>6. ASSUME NEW s \in Run, NEW x \in Row, BeginExecution(s, x)
      PROVE  FALSE
    BY <1>4, <1>6, <1>typed DEF BeginExecution, TypeOK
<1>7. ASSUME NEW s \in Run, NEW x \in Row, NEW pkg \in Package, NEW c \in Claim,
             CompleteFromPackage(s, x, pkg, c)
      PROVE  FALSE
    <2>1. rows[s][x] # "none"
        BY <1>7 DEF CompleteFromPackage, ActiveTargetStates
    <2>2. run[s] # "none"
        BY <2>1, RowHasRun
    <2>3. s # r
        BY <1>4, <2>2
    <2>4. run'[r] = run[r]
        BY <1>7, <1>typed, <2>3 DEF CompleteFromPackage, TypeOK
    <2> QED
        BY <1>4, <2>4
<1>8. ASSUME ReconcileNonterminalRuns
      PROVE  FALSE
    <2>1. run[r] \notin ActiveRunStates
        BY <1>4 DEF ActiveRunStates
    <2>2. run'[r] = run[r]
        BY <1>8, <2>1 DEF ReconcileNonterminalRuns
    <2> QED
        BY <1>4, <2>2
<1>9. run' # run
    BY <1>4
<1>10. CASE CallerStep
    <2>1. PICK op \in Op :
            \/ \E p \in Plan : SubmitPlan(op, p)
            \/ \E s \in Run, failedOnly \in BOOLEAN : RetryRun(op, s, failedOnly)
            \/ \E s \in Run : RequestCancel(op, s)
            \/ \E s \in Run : IssueEvidenceAttestation(op, s)
            \/ ConsumeEvidencePolicy(op)
        BY <1>10, Zenon DEF CallerStep
    <2>2. ~ConsumeEvidencePolicy(op)
        BY <1>9 DEF ConsumeEvidencePolicy
    <2>3. \A s \in Run : ~IssueEvidenceAttestation(op, s)
        BY <1>9 DEF IssueEvidenceAttestation
    <2>4. CASE \E p \in Plan : SubmitPlan(op, p)
        BY <1>2, <2>4
    <2>5. CASE \E s \in Run, failedOnly \in BOOLEAN : RetryRun(op, s, failedOnly)
        BY <1>3, <2>5
    <2> QED
        BY <1>5, <2>1, <2>2, <2>3, <2>4, <2>5
<1>11. CASE EngineStep
    BY <1>6, <1>7, <1>8, <1>9, <1>11 DEF EngineStep, RecordStarted
<1>12. CASE (\E s \in Run : ExpireEvidence(s)) \/ UNCHANGED vars
    BY <1>9, <1>12 DEF ExpireEvidence, vars
<1> QED
    BY <1>10, <1>11, <1>12 DEF Next

\* An attestation is added only for a run that succeeded and executed every
\* required target, by complete_from_package or issue_evidence_attestation.
LEMMA AttestedStep ==
    ASSUME SettledInv, [Next]_vars, NEW i \in DOMAIN attested'
    PROVE  \/ i \in DOMAIN attested /\ attested'[i] = attested[i]
           \/ /\ attested'[i] \in Run
              /\ Attestable(run'[attested'[i]], rows'[attested'[i]])
<1> DEFINE Goal == \/ i \in DOMAIN attested /\ attested'[i] = attested[i]
                   \/ /\ attested'[i] \in Run
                      /\ Attestable(run'[attested'[i]], rows'[attested'[i]])
<1>typed. /\ run \in [Run -> RunStates]
          /\ rows \in [Run -> [Row -> TargetStates]]
          /\ attested \in Seq(Run)
    BY DEF SettledInv, TypeOK
<1>1. CASE attested' = attested
    BY <1>1
<1>2. ASSUME NEW r \in Run, attested' = Attest(r),
             Attestable(run'[r], rows'[r])
      PROVE  Goal
    <2>1. CASE attested' = attested
        BY <2>1
    <2>2. CASE attested' = Append(attested, r)
        <3>1. \/ i \in DOMAIN attested /\ attested'[i] = attested[i]
              \/ attested'[i] = r
            BY <1>typed, <2>2, AppendProperties
        <3> QED
            BY <1>2, <3>1
    <2> QED
        BY <1>2, <2>1, <2>2 DEF Attest
<1>3. ASSUME NEW op \in Op, NEW r \in Run, IssueEvidenceAttestation(op, r)
      PROVE  Goal
    <2>1. attested' = Attest(r) /\ Attestable(run'[r], rows'[r])
        BY <1>3 DEF IssueEvidenceAttestation
    <2> QED
        BY <1>2, <2>1
<1>4. ASSUME NEW r \in Run, NEW x \in Row, NEW pkg \in Package,
             NEW c \in Claim, CompleteFromPackage(r, x, pkg, c)
      PROVE  Goal
    <2> DEFINE concluded == [rows[r] EXCEPT ![x] = AcceptedConclusion(pkg, c)]
               settled == ReconciledRows(run[r], concluded)
               state == ReconciledRun(run[r], settled)
    <2>1. /\ rows' = [rows EXCEPT ![r] = settled]
          /\ run' = [run EXCEPT ![r] = state]
          /\ attested' = IF Attestable(state, settled) THEN Attest(r)
                                                       ELSE attested
        BY <1>4 DEF CompleteFromPackage
    <2> HIDE DEF settled, state
    <2>2. rows'[r] = settled /\ run'[r] = state
        BY <2>1, <1>typed
    <2> QED
        BY <1>1, <1>2, <2>1, <2>2
<1>5. CASE CallerStep
    <2>1. ASSUME NEW op \in Op, ~\E r \in Run : IssueEvidenceAttestation(op, r),
                 \/ \E p \in Plan : SubmitPlan(op, p)
                 \/ \E r \in Run : \/ \E failedOnly \in BOOLEAN :
                                         RetryRun(op, r, failedOnly)
                                   \/ RequestCancel(op, r)
                 \/ ConsumeEvidencePolicy(op)
          PROVE  attested' = attested
        BY <2>1 DEF SubmitPlan, RetryRun, RequestCancel, ConsumeEvidencePolicy
    <2> QED
        BY <1>1, <1>3, <1>5, <2>1 DEF CallerStep
<1>6. CASE EngineStep
    <2>1. ASSUME ReconcileNonterminalRuns PROVE attested' = attested
        BY <2>1 DEF ReconcileNonterminalRuns
    <2>2. ASSUME NEW r \in Run, NEW x \in Row,
                 BeginExecution(r, x) \/ RecordStarted(r, x)
          PROVE  attested' = attested
        BY <2>2 DEF BeginExecution, RecordStarted
    <2> QED
        BY <1>1, <1>4, <1>6, <2>1, <2>2 DEF EngineStep
<1>7. CASE (\E r \in Run : ExpireEvidence(r)) \/ UNCHANGED vars
    BY <1>1, <1>7 DEF ExpireEvidence, vars
<1> QED
    BY <1>5, <1>6, <1>7 DEF Next

\* Whatever was submitted, retried, cancelled and measured, an attestation
\* rests on a succeeded run, and each shard of each required target has
\* succeeded in some run.
THEOREM StoreAttestedShardsPassed == Spec => []AttestedShardsPassed
<1> DEFINE Inv == ShardsAccounted /\ AttestedRuns
<1>1. Init => Inv
    <2> SUFFICES ASSUME Init PROVE Inv
        OBVIOUS
    <2>1. \A r \in Run : NamesOf(rows[r]) = {}
        BY DEF Init, NamesOf, RowsOf
    <2>2. attested = <<>>
        BY DEF Init
    <2> QED
        BY <2>1, <2>2, EmptySeq DEF ShardsAccounted, AttestedRuns
<1>2. SettledInv /\ Inv /\ [Next]_vars => Inv'
    <2> SUFFICES ASSUME SettledInv, Inv, [Next]_vars
                 PROVE  Inv'
        OBVIOUS
    <2>1. ASSUME NEW r \in Run, NEW x \in Row,
                 NameOf[x] \in NamesOf(rows'[r])
          PROVE  rows'[r][x] # "none" \/ \E s \in Run : rows'[s][x] = "succeeded"
        <3>1. CASE run[r] # "none"
            <4>1. /\ NamesOf(rows'[r]) = NamesOf(rows[r])
                  /\ RowsOf(rows'[r]) = RowsOf(rows[r])
                BY <3>1, RowStep
            <4>2. rows[r][x] # "none" => rows'[r][x] # "none"
                BY <4>1 DEF RowsOf
            <4> QED
                BY <2>1, <4>1, <4>2, SuccessStays DEF ShardsAccounted
        <3>2. CASE RunUnchanged(r)
            BY <2>1, <3>2, SuccessStays DEF ShardsAccounted, RunUnchanged
        <3>3. ASSUME NEW p \in Plan,
                     \A y \in Row : rows'[r][y] # "none" <=> NameOf[y] \in p
              PROVE  rows'[r][x] # "none"
            BY <2>1, <3>3 DEF NamesOf, RowsOf
        <3>4. ASSUME NEW s \in Run, NEW failedOnly \in BOOLEAN,
                     \A y \in Row : rows'[r][y] # "none"
                                    <=> y \in RetrySelection(s, failedOnly)
              PROVE  rows'[r][x] # "none"
                        \/ \E t \in Run : rows'[t][x] = "succeeded"
            <4>1. NameOf[x] \in NamesOf(rows[s])
                BY <2>1, <3>4 DEF NamesOf, RowsOf, RetrySelection
            <4>2. rows[s][x] # "none" \/ \E t \in Run : rows[t][x] = "succeeded"
                BY <4>1 DEF ShardsAccounted
            <4>3. rows[s][x] # "none" =>
                    rows'[r][x] # "none" \/ rows[s][x] = "succeeded"
                BY <3>4 DEF RetrySelection, RowsOf
            <4> QED
                BY <4>2, <4>3, SuccessStays
        <3>5. CASE RunCreated(r)
            BY <3>3, <3>4, <3>5, CreationStep
        <3>6. run[r] = "none" => RunUnchanged(r) \/ RunCreated(r)
            BY StoreStep DEF RunStep, RunAdvanced, ActiveRunStates
        <3> QED
            BY <3>1, <3>2, <3>5, <3>6
    <2>2. ASSUME NEW i \in DOMAIN attested'
          PROVE  /\ run'[attested'[i]] = "succeeded"
                 /\ Required \subseteq NamesOf(rows'[attested'[i]])
        <3> DEFINE r == attested'[i]
        <3>1. CASE i \in DOMAIN attested /\ attested'[i] = attested[i]
            <4>1. r \in Run
                BY <3>1, ElementOfSeq DEF SettledInv, TypeOK
            <4>2. run[r] = "succeeded" /\ Required \subseteq NamesOf(rows[r])
                BY <3>1 DEF AttestedRuns
            <4>3. run'[r] = "succeeded"
                BY <4>1, <4>2, StoreStep
                   DEF RunStep, RunUnchanged, RunCreated, RunAdvanced,
                       ActiveRunStates
            <4>4. NamesOf(rows'[r]) = NamesOf(rows[r])
                BY <4>1, <4>2, RowStep
            <4> QED
                BY <4>2, <4>3, <4>4
        <3>2. CASE r \in Run /\ Attestable(run'[r], rows'[r])
            <4>1. Executed(rows'[r]) \subseteq NamesOf(rows'[r])
                BY DEF Executed, NamesOf, RowsOf
            <4> QED
                BY <3>2, <4>1 DEF Attestable
        <3> QED
            BY <3>1, <3>2, AttestedStep
    <2> QED
        BY <2>1, <2>2 DEF ShardsAccounted, AttestedRuns
<1>3. SettledInv /\ Inv => AttestedShardsPassed
    <2> SUFFICES ASSUME SettledInv, Inv, NEW i \in DOMAIN attested
                 PROVE  /\ run[attested[i]] = "succeeded"
                        /\ \A x \in Row : NameOf[x] \in Required =>
                                \E r \in Run : rows[r][x] = "succeeded"
        BY DEF AttestedShardsPassed
    <2>1. attested[i] \in Run
        BY ElementOfSeq DEF SettledInv, TypeOK
    <2>2. /\ run[attested[i]] = "succeeded"
          /\ Required \subseteq NamesOf(rows[attested[i]])
        BY DEF AttestedRuns
    <2>3. \A x \in RowsOf(rows[attested[i]]) :
            rows[attested[i]][x] = "succeeded"
        BY <2>1, <2>2 DEF SettledInv, RunSettled, TerminalRunStates
    <2>4. ASSUME NEW x \in Row, NameOf[x] \in Required
          PROVE  \E r \in Run : rows[r][x] = "succeeded"
        BY <2>1, <2>2, <2>3, <2>4 DEF ShardsAccounted, RowsOf
    <2> QED
        BY <2>2, <2>4
<1> QED
    BY <1>1, <1>2, <1>3, StoreSettled, PTL DEF Spec

-----------------------------------------------------------------------------
(***************************************************************************)
(* What a step does to one run, in full                                    *)
(*                                                                         *)
(* ReconciledInv is the strengthening under which ReconciledRunsProgress   *)
(* is inductive.  Under it the periodic reconciliation changes nothing, so *)
(* a run is created, begun, started, concluded in or withdrawn, and        *)
(* nothing else happens to it.                                             *)
(***************************************************************************)
BegunRows(r) == {x \in Row : <<r, x>> \in begun}

RunReconciled(r) == Reconciled(run[r], rows[r], BegunRows(r))

ReconciledInv == SettledInv /\ \A r \in Run : RunReconciled(r)

SameBegun(r) == BegunRows(r)' = BegunRows(r)

RowBegins(r, x) ==
    /\ run[r] \in {"queued", "running"}
    /\ rows[r][x] = "queued"
    /\ TargetDependenciesSucceeded(rows[r], x)
    /\ run'[r] = "running"
    /\ rows'[r] = [rows[r] EXCEPT ![x] = "starting"]
    /\ BegunRows(r)' = BegunRows(r) \cup {x}

RowStarts(r, x) ==
    /\ run[r] \in ActiveRunStates
    /\ rows[r][x] = "starting"
    /\ run'[r] = run[r]
    /\ rows'[r] = [rows[r] EXCEPT ![x] = "running"]
    /\ SameBegun(r)

RowConcludes(r, x, end) ==
    /\ run[r] \in ActiveRunStates
    /\ rows[r][x] \in ActiveTargetStates
    /\ rows'[r] = ReconciledRows(run[r], [rows[r] EXCEPT ![x] = end])
    /\ run'[r] = ReconciledRun(run[r], rows'[r])
    /\ SameBegun(r)

RunWithdrawn(r) ==
    /\ run[r] \in ActiveRunStates
    /\ rows'[r] = CancelledRows(rows[r])
    /\ run'[r] = ReconciledRun("cancelling", rows'[r])
    /\ SameBegun(r)

RunMoves(r) ==
    \/ RunUnchanged(r) /\ SameBegun(r)
    \/ RunCreated(r) /\ SameBegun(r)
    \/ \E x \in Row : RowBegins(r, x)
    \/ \E x \in Row : RowStarts(r, x)
    \/ \E x \in Row, end \in TerminalTargetStates : RowConcludes(r, x, end)
    \/ RunWithdrawn(r)

\* An active run is what _reconcile_run would make of it.
LEMMA StoreReconciledAlready ==
    ASSUME ReconciledInv, NEW r \in Run, run[r] \in ActiveRunStates
    PROVE  /\ ReconciledRows(run[r], rows[r]) = rows[r]
           /\ ReconciledRun(run[r], rows[r]) = run[r]
<1>1. rows[r] \in [Row -> TargetStates] /\ BegunRows(r) \in SUBSET Row
    BY DEF ReconciledInv, SettledInv, TypeOK, BegunRows
<1>2. Reconciled(run[r], rows[r], BegunRows(r))
    BY DEF ReconciledInv, RunReconciled
<1> QED
    BY <1>1, <1>2, ReconciledAlready

\* Every step of the store moves each run in one of these ways.
LEMMA StoreMoves ==
    ASSUME ReconciledInv, [Next]_vars, NEW r \in Run
    PROVE  RunMoves(r)
<1> USE DEF ReconciledInv
<1>typed. /\ run \in [Run -> RunStates]
          /\ rows \in [Run -> [Row -> TargetStates]]
          /\ \A s \in Run : RunSettled(run[s], rows[s])
    BY DEF SettledInv, TypeOK
<1>same. ASSUME UNCHANGED <<run, rows, begun>>
         PROVE  RunMoves(r)
    BY <1>same DEF RunMoves, RunUnchanged, SameBegun, BegunRows
<1>open. ASSUME NEW x \in Row, rows[r][x] \in ActiveTargetStates
         PROVE  run[r] \in ActiveRunStates
    BY <1>open, <1>typed DEF RunSettled, RunStates, UnfinishedTargetStates,
                             ActiveTargetStates
<1>new. ASSUME NEW op \in Op, NEW kind, NEW names, NEW source, NEW selected,
               Unused(op), JoinOrCreate(op, kind, names, source, selected),
               UNCHANGED begun
        PROVE  RunMoves(r)
    <2>1. run[op] = "none"
        BY <1>new DEF SettledInv, RunsJournaled, Unused, Run
    <2>2. RunUnchanged(r) \/ RunCreated(r) \/ RunAdvanced(r)
        BY StoreStep DEF RunStep
    <2>3. UNCHANGED <<run, rows>> \/ r = op \/ RunUnchanged(r)
        BY <1>new, <1>typed DEF JoinOrCreate, RunUnchanged, Run
    <2>4. r = op => ~RunAdvanced(r)
        BY <2>1 DEF RunAdvanced, ActiveRunStates
    <2>5. RunUnchanged(r) \/ RunCreated(r)
        BY <2>2, <2>3, <2>4 DEF RunUnchanged
    <2>6. SameBegun(r)
        BY <1>new DEF SameBegun, BegunRows
    <2> QED
        BY <2>5, <2>6 DEF RunMoves
<1>1. ASSUME NEW op \in Op, NEW p \in Plan, SubmitPlan(op, p)
      PROVE  RunMoves(r)
    BY <1>1, <1>new DEF SubmitPlan
<1>2. ASSUME NEW op \in Op, NEW s \in Run, NEW failedOnly \in BOOLEAN,
             RetryRun(op, s, failedOnly)
      PROVE  RunMoves(r)
    BY <1>2, <1>new DEF RetryRun
<1>3. ASSUME NEW op \in Op, NEW s \in Run, RequestCancel(op, s)
      PROVE  RunMoves(r)
    <2>1. SameBegun(r)
        BY <1>3 DEF RequestCancel, SameBegun, BegunRows
    <2>2. RunUnchanged(r) \/ RunWithdrawn(r)
        BY <1>3, <1>typed, <2>1 DEF RequestCancel, RunUnchanged, RunWithdrawn
    <2> QED
        BY <2>1, <2>2 DEF RunMoves
<1>4. ASSUME NEW s \in Run, NEW x \in Row, BeginExecution(s, x)
      PROVE  RunMoves(r)
    <2>1. begun' = begun \cup {<<s, x>>}
        BY <1>4 DEF BeginExecution
    <2>2. CASE r = s
        <3>1. BegunRows(r)' = BegunRows(r) \cup {x}
            BY <2>1, <2>2 DEF BegunRows
        <3>2. RowBegins(r, x)
            BY <1>4, <1>typed, <2>2, <3>1 DEF BeginExecution, RowBegins
        <3> QED
            BY <3>2 DEF RunMoves
    <2>3. CASE r # s
        <3>1. SameBegun(r)
            BY <2>1, <2>3 DEF BegunRows, SameBegun
        <3>2. RunUnchanged(r)
            BY <1>4, <1>typed, <2>3 DEF BeginExecution, RunUnchanged
        <3> QED
            BY <3>1, <3>2 DEF RunMoves
    <2> QED
        BY <2>2, <2>3
<1>5. ASSUME NEW s \in Run, NEW x \in Row, RecordStarted(s, x)
      PROVE  RunMoves(r)
    <2>1. SameBegun(r)
        BY <1>5 DEF RecordStarted, SameBegun, BegunRows
    <2>2. CASE r = s
        <3>1. run[r] \in ActiveRunStates
            BY <1>5, <1>open, <2>2 DEF RecordStarted, ActiveTargetStates
        <3>2. RowStarts(r, x)
            BY <1>5, <1>typed, <2>1, <2>2, <3>1 DEF RecordStarted, RowStarts
        <3> QED
            BY <3>2 DEF RunMoves
    <2>3. CASE r # s
        <3>1. RunUnchanged(r)
            BY <1>5, <1>typed, <2>3 DEF RecordStarted, RunUnchanged
        <3> QED
            BY <2>1, <3>1 DEF RunMoves
    <2> QED
        BY <2>2, <2>3
<1>6. ASSUME NEW s \in Run, NEW x \in Row, NEW pkg \in Package, NEW c \in Claim,
             CompleteFromPackage(s, x, pkg, c)
      PROVE  RunMoves(r)
    <2> DEFINE end == AcceptedConclusion(pkg, c)
    <2>1. SameBegun(r)
        BY <1>6 DEF CompleteFromPackage, SameBegun, BegunRows
    <2>2. end \in TerminalTargetStates
        BY ClaimAssumption DEF AcceptedConclusion, TerminalTargetStates
    <2>3. CASE r = s
        <3>1. run[r] \in ActiveRunStates
            BY <1>6, <1>open, <2>3 DEF CompleteFromPackage
        <3>2. RowConcludes(r, x, end)
            BY <1>6, <1>typed, <2>1, <2>3, <3>1
               DEF CompleteFromPackage, RowConcludes
        <3> QED
            BY <2>2, <3>2 DEF RunMoves
    <2>4. CASE r # s
        <3>1. RunUnchanged(r)
            BY <1>6, <1>typed, <2>4 DEF CompleteFromPackage, RunUnchanged
        <3> QED
            BY <2>1, <3>1 DEF RunMoves
    <2> QED
        BY <2>3, <2>4
<1>7. ASSUME ReconcileNonterminalRuns
      PROVE  RunMoves(r)
    <2>1. SameBegun(r)
        BY <1>7 DEF ReconcileNonterminalRuns, SameBegun, BegunRows
    <2>2. CASE run[r] \in ActiveRunStates
        <3>1. /\ rows'[r] = ReconciledRows(run[r], rows[r])
              /\ run'[r] = ReconciledRun(run[r], ReconciledRows(run[r], rows[r]))
            BY <1>7, <2>2 DEF ReconcileNonterminalRuns
        <3>2. RunUnchanged(r)
            BY <2>2, <3>1, StoreReconciledAlready DEF RunUnchanged
        <3> QED
            BY <2>1, <3>2 DEF RunMoves
    <2>3. CASE run[r] \notin ActiveRunStates
        <3>1. RunUnchanged(r)
            BY <1>7, <2>3 DEF ReconcileNonterminalRuns, RunUnchanged
        <3> QED
            BY <2>1, <3>1 DEF RunMoves
    <2> QED
        BY <2>2, <2>3
<1>8. ASSUME NEW op \in Op, NEW s \in Run, IssueEvidenceAttestation(op, s)
      PROVE  RunMoves(r)
    BY <1>8, <1>same DEF IssueEvidenceAttestation
<1>9. ASSUME NEW op \in Op, ConsumeEvidencePolicy(op)
      PROVE  RunMoves(r)
    BY <1>9, <1>same DEF ConsumeEvidencePolicy
<1>10. ASSUME NEW s \in Run, ExpireEvidence(s)
       PROVE  RunMoves(r)
    BY <1>10, <1>same DEF ExpireEvidence
<1>11. CASE UNCHANGED vars
    BY <1>11, <1>same DEF vars
<1> QED
    BY <1>1, <1>2, <1>3, <1>4, <1>5, <1>6, <1>7, <1>8, <1>9, <1>10, <1>11
       DEF Next, CallerStep, EngineStep

\* Each way a run moves leaves it reconciled.
LEMMA MovesReconciled ==
    ASSUME ReconciledInv, TypeOK', NEW r \in Run, RunMoves(r)
    PROVE  RunReconciled(r)'
<1> DEFINE ts == rows[r]
           us == rows'[r]
           B == BegunRows(r)
<1>1. /\ ts \in [Row -> TargetStates] /\ us \in [Row -> TargetStates]
      /\ B \in SUBSET Row
    BY DEF ReconciledInv, SettledInv, TypeOK, BegunRows
<1>2. Reconciled(run[r], ts, B) /\ RunSettled(run[r], ts)
    BY DEF ReconciledInv, RunReconciled, SettledInv
<1> SUFFICES Reconciled(run'[r], us, BegunRows(r)')
    BY DEF RunReconciled
<1>4. CASE RunUnchanged(r) /\ SameBegun(r)
    BY <1>2, <1>4 DEF RunUnchanged, SameBegun
<1>5. CASE RunCreated(r) /\ SameBegun(r)
    <2>1. B = {}
        BY <1>1, <1>2, <1>5 DEF RunCreated, RunSettled, Reconciled, RowsBegun
    <2>2. BegunRows(r)' = {} /\ us \in [Row -> {"queued", "none"}]
        BY <1>5, <2>1 DEF SameBegun, RunCreated
    <2>3. CASE run'[r] = "queued" /\ RowsOf(us) # {}
        BY <2>2, <2>3, FreshReconciled
    <2>4. CASE run'[r] = "succeeded"
        <3>1. RowsBegun(us, {})
            BY <2>2 DEF RowsBegun, ActiveTargetStates
        <3> QED
            BY <2>2, <2>4, <3>1 DEF Reconciled, ActiveRunStates
    <2> QED
        BY <1>5, <2>3, <2>4 DEF RunCreated
<1>6. ASSUME NEW x \in Row, RowBegins(r, x)
      PROVE  Reconciled(run'[r], us, BegunRows(r)')
    BY <1>1, <1>2, <1>6, BeginReconciles DEF RowBegins
<1>7. ASSUME NEW x \in Row, RowStarts(r, x)
      PROVE  Reconciled(run'[r], us, BegunRows(r)')
    BY <1>1, <1>2, <1>7, StartReconciles DEF RowStarts, SameBegun
<1>8. ASSUME NEW x \in Row, NEW end \in TerminalTargetStates,
             RowConcludes(r, x, end)
      PROVE  Reconciled(run'[r], us, BegunRows(r)')
    <2>1. /\ run[r] \in ActiveRunStates /\ ts[x] \in ActiveTargetStates
          /\ us = RowsAfter(run[r], ts, x, end)
          /\ run'[r] = ReconciledRun(run[r], us)
          /\ BegunRows(r)' = B
        BY <1>8 DEF RowConcludes, RowsAfter, SameBegun
    <2> QED
        BY <1>1, <1>2, <2>1, ConclusionReconciles
<1>9. CASE RunWithdrawn(r)
    BY <1>1, <1>2, <1>9, WithdrawalReconciles DEF RunWithdrawn, SameBegun
<1> QED
    BY <1>4, <1>5, <1>6, <1>7, <1>8, <1>9 DEF RunMoves

\* The strengthening is an invariant of the store.
LEMMA StoreReconciled == Spec => []ReconciledInv
<1>1. Init => \A r \in Run : RunReconciled(r)
    <2> SUFFICES ASSUME Init, NEW r \in Run
                 PROVE  RunReconciled(r)
        OBVIOUS
    <2>1. /\ run[r] = "none" /\ BegunRows(r) = {}
          /\ \A x \in Row : rows[r][x] = "none"
        BY DEF Init, BegunRows
    <2> QED
        BY <2>1 DEF RunReconciled, Reconciled, RowsBegun, ActiveRunStates,
                    ActiveTargetStates
<1>2. SettledInv' /\ ReconciledInv /\ [Next]_vars => ReconciledInv'
    <2> SUFFICES ASSUME SettledInv', ReconciledInv, [Next]_vars, NEW r \in Run
                 PROVE  RunReconciled(r)'
        BY DEF ReconciledInv
    <2>1. RunMoves(r)
        BY StoreMoves
    <2>2. TypeOK'
        BY DEF SettledInv
    <2> QED
        BY <2>1, <2>2, MovesReconciled
<1>3. SettledInv /\ (\A r \in Run : RunReconciled(r)) => ReconciledInv
    BY DEF ReconciledInv
<1> QED
    BY <1>1, <1>2, <1>3, StoreSettled, PTL DEF Spec

\* Every mutation leaves each run reconciled, so the periodic reconciliation
\* never has work left over, and no run that is not cancelling is left with
\* nothing executing and nothing the scheduler could start.
THEOREM StoreReconciledRunsProgress == Spec => []ReconciledRunsProgress
<1>1. ReconciledInv => RunsStayReconciled
    BY StoreReconciledAlready DEF RunsStayReconciled
<1>2. ReconciledInv => NoStuckRun
    <2> SUFFICES ASSUME ReconciledInv, NEW r \in Run,
                        run[r] \in {"queued", "running"},
                        \A x \in Row : rows[r][x] \notin ActiveTargetStates
                 PROVE  \E x \in Row :
                            /\ rows[r][x] = "queued"
                            /\ TargetDependenciesSucceeded(rows[r], x)
        BY DEF NoStuckRun
    <2>1. /\ rows[r] \in [Row -> TargetStates]
          /\ Reconciled(run[r], rows[r], BegunRows(r))
        BY DEF ReconciledInv, RunReconciled, SettledInv, TypeOK
    <2> QED
        BY <2>1, ReconciledCanGoOn
<1> QED
    BY <1>1, <1>2, StoreReconciled, PTL DEF ReconciledRunsProgress

-----------------------------------------------------------------------------
(***************************************************************************)
(* Every run implements RunContract                                        *)
(***************************************************************************)

\* Beginning an execution takes a waiting slot.
LEMMA BeginTakes ==
    ASSUME ReconciledInv, NEW r \in Run, NEW x \in Row, RowBegins(r, x)
    PROVE  Contract(r)!Take(x)
<1>1. rows[r] \in [Row -> TargetStates]
    BY DEF ReconciledInv, SettledInv, TypeOK
<1>2. VerdictFor(run[r]) = "open" /\ VerdictFor(run'[r]) = "open"
    BY DEF RowBegins, VerdictFor, ActiveRunStates
<1>3. SlotTaken(SlotsFor(rows[r]), SlotsFor(rows'[r]), x)
    BY <1>1, BeginTakesSlot DEF RowBegins
<1> QED
    BY <1>2, <1>3 DEF SlotTaken, Contract!Take, Contract!DependsOn

\* Creating a run accepts it.
LEMMA CreationAccepts ==
    ASSUME TypeOK', NEW r \in Run, RunCreated(r)
    PROVE  Contract(r)!Accept
<1> DEFINE S == RowsOf(rows'[r])
<1>1. rows'[r] \in [Row -> {"queued", "none"}] /\ S \in SUBSET Row
    BY DEF RunCreated, RowsOf
<1>2. rows'[r] \in [Row -> TargetStates]
    BY DEF TypeOK
<1>3. \A x \in Row : SlotsFor(rows'[r])[x] =
                        IF x \in S THEN "waiting" ELSE "absent"
    BY <1>1, <1>2, SlotFacts DEF RowsOf
<1>4. SlotsFor(rows'[r]) =
        [x \in Row |-> IF x \in S THEN "waiting" ELSE "absent"]
    BY <1>2, <1>3, SlotFacts
<1>5. VerdictFor(run[r]) = "absent"
    BY DEF RunCreated, VerdictFor, ActiveRunStates
<1>6. VerdictFor(run'[r]) = IF S = {} THEN "passed" ELSE "open"
    BY DEF RunCreated, VerdictFor, ActiveRunStates
<1> HIDE DEF S
<1> QED
    BY <1>1, <1>4, <1>5, <1>6 DEF Contract!Accept

\* An active run whose slots settle takes a step of its contract.
LEMMA SettlesContract ==
    ASSUME NEW r \in Run, run[r] \in ActiveRunStates,
           SlotsSettle(SlotsFor(rows[r]), SlotsFor(rows'[r]), VerdictFor(run'[r]))
    PROVE  Contract(r)!Settle
<1>1. VerdictFor(run[r]) = "open"
    BY DEF VerdictFor, ActiveRunStates
<1> QED
    BY <1>1 DEF SlotsSettle, Contract!Settle, Contract!GivenUp,
                Contract!DependsOn, Contract!VerdictOf, Contract!Decided,
                Contract!AllPassed, Contract!SlotState

\* Concluding a row settles its run, and so does withdrawing it.
LEMMA ConclusionSettles ==
    ASSUME ReconciledInv, NEW r \in Run,
           \/ \E x \in Row, end \in TerminalTargetStates : RowConcludes(r, x, end)
           \/ RunWithdrawn(r)
    PROVE  Contract(r)!Settle
<1>1. rows[r] \in [Row -> TargetStates] /\ BegunRows(r) \in SUBSET Row
    BY DEF ReconciledInv, SettledInv, TypeOK, BegunRows
<1>2. Reconciled(run[r], rows[r], BegunRows(r)) /\ RunSettled(run[r], rows[r])
    BY DEF ReconciledInv, RunReconciled, SettledInv
<1>3. ASSUME NEW x \in Row, NEW end \in TerminalTargetStates,
             RowConcludes(r, x, end)
      PROVE  Contract(r)!Settle
    <2>1. /\ run[r] \in ActiveRunStates /\ rows[r][x] \in ActiveTargetStates
          /\ rows'[r] = RowsAfter(run[r], rows[r], x, end)
          /\ run'[r] = ReconciledRun(run[r], rows'[r])
        BY <1>3 DEF RowConcludes, RowsAfter
    <2>2. SlotsSettle(SlotsFor(rows[r]), SlotsFor(rows'[r]), VerdictFor(run'[r]))
        BY <1>1, <1>2, <2>1, ConclusionSettlesSlots
    <2> QED
        BY <2>1, <2>2, SettlesContract
<1>4. CASE RunWithdrawn(r)
    <2>1. SlotsSettle(SlotsFor(rows[r]), SlotsFor(rows'[r]), VerdictFor(run'[r]))
        BY <1>1, <1>2, <1>4, WithdrawalSettlesSlots DEF RunWithdrawn
    <2> QED
        BY <1>4, <2>1, SettlesContract DEF RunWithdrawn
<1> QED
    BY <1>3, <1>4

\* Each run implements RunContract: whatever is submitted, retried, joined,
\* cancelled, concluded or reconciled, a target is taken at most once and in
\* dependency order, is given up only behind a failed one or with the whole
\* run, and the run is decided in the step that decides its last target.
THEOREM StoreRunsKeepContract == Spec => RunsKeepContract
<1>1. Init => \A r \in Run : Contract(r)!Init
    <2> SUFFICES ASSUME Init, NEW r \in Run
                 PROVE  Contract(r)!Init
        OBVIOUS
    <2>1. run[r] = "none" /\ rows[r] = [x \in Row |-> "none"]
        BY DEF Init
    <2>2. VerdictFor(run[r]) = "absent"
        BY <2>1 DEF VerdictFor, ActiveRunStates
    <2>3. SlotsFor(rows[r]) = [x \in Row |-> "absent"]
        BY <2>1 DEF SlotsFor, ActiveTargetStates
    <2> QED
        BY <2>2, <2>3 DEF Contract!Init
<1>2. ReconciledInv /\ TypeOK' /\ [Next]_vars
        => \A r \in Run : [Contract(r)!Next]_(Contract(r)!vars)
    <2> SUFFICES ASSUME ReconciledInv, TypeOK', [Next]_vars, NEW r \in Run
                 PROVE  [Contract(r)!Next]_(Contract(r)!vars)
        OBVIOUS
    <2>1. CASE RunUnchanged(r)
        BY <2>1 DEF RunUnchanged, Contract!vars
    <2>2. CASE RunCreated(r)
        BY <2>2, CreationAccepts DEF Contract!Next
    <2>3. ASSUME NEW x \in Row, RowBegins(r, x)
          PROVE  Contract(r)!Next
        BY <2>3, BeginTakes DEF Contract!Next
    <2>4. ASSUME NEW x \in Row, RowStarts(r, x)
          PROVE  UNCHANGED Contract(r)!vars
        <3>1. /\ rows[r] \in [Row -> TargetStates]
              /\ rows'[r] = [rows[r] EXCEPT ![x] = "running"]
              /\ rows[r][x] = "starting" /\ run'[r] = run[r]
            BY <2>4 DEF ReconciledInv, SettledInv, TypeOK, RowStarts
        <3>2. SlotsFor(rows'[r]) = SlotsFor(rows[r])
            BY <3>1, StartKeepsSlots
        <3> QED
            BY <3>1, <3>2 DEF Contract!vars
    <2>5. ASSUME NEW x \in Row, NEW end \in TerminalTargetStates,
                 RowConcludes(r, x, end)
          PROVE  Contract(r)!Next
        BY <2>5, ConclusionSettles DEF Contract!Next
    <2>6. CASE RunWithdrawn(r)
        BY <2>6, ConclusionSettles DEF Contract!Next
    <2>7. RunMoves(r)
        BY StoreMoves
    <2> QED
        BY <2>1, <2>2, <2>3, <2>4, <2>5, <2>6, <2>7 DEF RunMoves
<1>3. ReconciledInv => TypeOK
    BY DEF ReconciledInv, SettledInv
<1> QED
    BY <1>1, <1>2, <1>3, StoreReconciled, PTL DEF Spec, RunsKeepContract
=============================================================================
