---------------------------- MODULE WorkerProofs ----------------------------
(***************************************************************************)
(* Proofs about supervised workers: the store of worker_supervision.py     *)
(* under any caller, and the plane of runner, unit, requests and startup   *)
(* around it, for any crash limit and any bounds.                          *)
(***************************************************************************)
EXTENDS WorkerPlane, FiniteSetTheorems, SequenceTheorems, TLAPS

-----------------------------------------------------------------------------
(***************************************************************************)
(* The store                                                               *)
(***************************************************************************)
\* An attempt that has not exited is the newest one, and no attempt was
\* reserved under a policy that is yet to come: a new policy generation
\* starts without crashes.
AttemptOrder ==
    /\ sup.current \in {0, Len(attempts)}
    /\ \A a \in DOMAIN attempts : attempts[a].token.policy <= policy.generation

StoreInv == StoreTypeOK /\ AttemptsConsistent /\ AttemptOrder

\* Replacing one attempt keeps the others and the length of the table.
LEMMA AttemptReplaced ==
    ASSUME NEW s \in Seq(Attempt), NEW a \in DOMAIN s, NEW r \in Attempt
    PROVE  LET t == [s EXCEPT ![a] = r]
           IN  /\ t \in Seq(Attempt) /\ Len(t) = Len(s) /\ DOMAIN t = DOMAIN s
               /\ \A b \in DOMAIN s : t[b] = IF b = a THEN r ELSE s[b]
BY ExceptSeq

\* An entry of the table is an attempt, with the types of its columns.
LEMMA AttemptTyped ==
    ASSUME NEW s \in Seq(Attempt), NEW a \in DOMAIN s
    PROVE  /\ s[a] \in Attempt
           /\ s[a].token \in Token /\ s[a].token.policy \in Nat
           /\ s[a].state \in {"reserved", "running", "exited"}
           /\ s[a].kind \in ExitKind \cup {"none"}
           /\ {s[a].counts, s[a].recent, s[a].restart} \subseteq BOOLEAN
<1>1. s[a] \in Attempt
    BY ElementOfSeq
<1> QED BY <1>1 DEF Attempt, Token

\* The crashes that count are a finite set.
LEMMA CrashesFinite ==
    ASSUME NEW s \in Seq(Attempt), NEW S \in SUBSET DOMAIN s
    PROVE  IsFiniteSet(S) /\ Cardinality(S) \in Nat
<1>1. DOMAIN s = 1 .. Len(s) /\ Len(s) \in Nat
    OBVIOUS
<1>2. IsFiniteSet(DOMAIN s)
    BY <1>1, FS_Interval
<1> QED BY <1>2, FS_Subset, FS_CardinalityType

\* The store starts consistent.
LEMMA StoreInitInv == StoreInit => StoreInv
<1> SUFFICES ASSUME StoreInit PROVE StoreInv OBVIOUS
<1>1. attempts = << >> /\ attempts \in Seq(Attempt) /\ Len(attempts) = 0
      /\ DOMAIN attempts = {}
    BY DEF StoreInit
<1>2. Active = {} /\ RecentCrashes(policy.generation) = {}
    BY <1>1 DEF Active, RecentCrashes
<1>3. StoreTypeOK
    <2>1. PICK keep \in BOOLEAN :
            policy = [keep |-> keep, desired |-> "stopped", breaker |-> "armed",
                      generation |-> 0]
        BY DEF StoreInit
    <2> QED BY <1>1, <2>1 DEF StoreInit, StoreTypeOK, SupervisorState
<1>4. Cardinality({}) = 0 /\ CrashLimit \in Nat \ {0}
    BY FS_EmptySet, BoundsAssumption DEF BoundsAssumption
<1>5. OneActiveAttempt /\ LabelMatchesAttempt /\ ObservedProcessRuns
    BY <1>2 DEF StoreInit, OneActiveAttempt, LabelMatchesAttempt,
                ObservedProcessRuns
<1>6. ArmedBelowLimit
    BY <1>2, <1>4 DEF ArmedBelowLimit
<1>7. AttemptOrder
    BY <1>1 DEF StoreInit, AttemptOrder
<1> QED BY <1>3, <1>5, <1>6, <1>7 DEF StoreInv, AttemptsConsistent

\* An operation that leaves the attempts and the observation alone keeps the
\* invariant if the current attempt stays, the label is one its attempt
\* bears out, and an armed breaker was armed before or belongs to a new
\* policy generation.
LEMMA PolicyMoves ==
    ASSUME StoreInv, StoreTypeOK', UNCHANGED <<attempts, observed>>,
           sup'.current = sup.current,
           \/ sup'.state = sup.state
           \/ sup'.state \in {"stopping", "fenced"}
           \/ sup'.state \in {"idle", "backoff", "tripped", "stopped"} /\ Active = {},
           \/ policy'.generation = policy.generation /\ policy'.breaker = policy.breaker
           \/ policy'.generation = policy.generation + 1
    PROVE  StoreInv'
<1>1. Active' = Active
    BY DEF Active
<1>2. OneActiveAttempt' /\ ObservedProcessRuns'
    BY <1>1 DEF StoreInv, AttemptsConsistent, OneActiveAttempt, ObservedProcessRuns
<1>3. LabelMatchesAttempt'
    <2>1. LabelMatchesAttempt
        BY DEF StoreInv, AttemptsConsistent
    <2>2. CASE sup'.state = sup.state
        BY <1>1, <2>1, <2>2 DEF LabelMatchesAttempt
    <2>3. CASE sup'.state \in {"stopping", "fenced"}
        BY <2>3 DEF LabelMatchesAttempt
    <2>4. CASE /\ sup'.state \in {"idle", "backoff", "tripped", "stopped"}
               /\ Active = {}
        BY <1>1, <2>4 DEF LabelMatchesAttempt
    <2> QED BY <2>2, <2>3, <2>4
<1>4. policy.generation \in Nat /\ CrashLimit \in Nat \ {0} /\ attempts \in Seq(Attempt)
    BY BoundsAssumption DEF StoreInv, StoreTypeOK, BoundsAssumption
<1>5. \A a \in DOMAIN attempts : attempts[a].token.policy \in Nat
    BY <1>4, AttemptTyped
<1>6. AttemptOrder'
    BY <1>4, <1>5 DEF StoreInv, AttemptOrder
<1>7. ArmedBelowLimit'
    <2>1. CASE policy'.generation = policy.generation /\ policy'.breaker = policy.breaker
        BY <2>1 DEF StoreInv, AttemptsConsistent, ArmedBelowLimit, RecentCrashes
    <2>2. CASE policy'.generation = policy.generation + 1
        <3>1. RecentCrashes(policy.generation)' = {}
            BY <2>2, <1>4, <1>5 DEF StoreInv, AttemptOrder, RecentCrashes
        <3> QED BY <3>1, <1>4, FS_EmptySet DEF ArmedBelowLimit
    <2> QED BY <2>1, <2>2
<1> QED BY <1>2, <1>3, <1>6, <1>7 DEF StoreInv, AttemptsConsistent

\* RestingState is a label for a worker without an attempt.
LEMMA RestingLabel ==
    ASSUME NEW p
    PROVE  RestingState(p) \in {"tripped", "stopped", "fenced", "idle"}
BY DEF RestingState

\* What clients and the startup of the broker do.
LEMMA ClientsKeepStore ==
    ASSUME StoreInv,
           \/ \E keep \in BOOLEAN : ConfigurePolicy(keep, policy.generation)
           \/ \E rearm \in BOOLEAN : RequestStart(rearm, policy.generation)
           \/ RequestStop(policy.generation)
           \/ ReplaceDefinition
           \/ \E value \in BOOLEAN : SetFence(value)
           \/ \E e \in Epochs : e > sup.epoch /\ FenceStartup(e)
           \/ NormalizeStartupAbsence(sup.epoch)
           \/ \E allow \in BOOLEAN : ClaimCleanup(sup.epoch, sup.current, allow)
    PROVE  StoreInv'
<1>0. /\ StoreTypeOK /\ Active = {sup.current} \ {0}
    BY DEF StoreInv, AttemptsConsistent, OneActiveAttempt
<1>a. Active = {} <=> sup.current = 0
    BY <1>0
<1>b. sup.generation + 1 \in Nat /\ policy.generation + 1 \in Nat
    BY <1>0 DEF StoreTypeOK
<1>s. ASSUME UNCHANGED storeVars PROVE StoreInv'
    <2>1. StoreTypeOK' /\ UNCHANGED <<attempts, observed, sup, policy>>
        BY <1>0, <1>s DEF storeVars, StoreTypeOK
    <2> QED BY <2>1, PolicyMoves
<1>1. ASSUME NEW keep \in BOOLEAN, ConfigurePolicy(keep, policy.generation)
      PROVE StoreInv'
    <2>1. StoreTypeOK'
        BY <1>0, <1>b, <1>1, RestingLabel
        DEF ConfigurePolicy, StoreTypeOK, SupervisorState
    <2>2. policy'.generation = policy.generation + 1
        BY <1>0, <1>1 DEF ConfigurePolicy, StoreTypeOK
    <2>3. CASE Active = {}
        <3>1. sup' = [sup EXCEPT !.state = RestingState(policy')]
            BY <1>1, <2>3 DEF ConfigurePolicy
        <3>2. sup'.current = sup.current /\ sup'.state = RestingState(policy')
            BY <1>0, <3>1 DEF StoreTypeOK
        <3> QED
            BY <1>1, <2>1, <2>2, <2>3, <3>2, PolicyMoves, RestingLabel
            DEF ConfigurePolicy
    <2>4. CASE Active # {}
        BY <1>1, <2>1, <2>2, <2>4, PolicyMoves DEF ConfigurePolicy
    <2> QED BY <2>3, <2>4
<1>2. ASSUME NEW rearm \in BOOLEAN, RequestStart(rearm, policy.generation)
      PROVE StoreInv'
    <2>2. CASE ~StartUnchanged(rearm)
        <3>0. /\ policy' = [policy EXCEPT !.desired = "running",
                                          !.breaker = "armed",
                                          !.generation = @ + 1]
              /\ sup' = [sup EXCEPT !.state = "idle", !.current = 0]
              /\ UNCHANGED <<attempts, fence, definition, observed>>
            BY <1>2, <2>2 DEF RequestStart
        <3>1. StoreTypeOK'
            BY <1>0, <1>b, <3>0 DEF StoreTypeOK, SupervisorState
        <3>2. Active = {} /\ sup.current = 0
            BY <1>a, <2>2 DEF StartUnchanged
        <3>3. /\ sup'.state = "idle" /\ sup'.current = 0
              /\ policy'.generation = policy.generation + 1
            BY <1>0, <3>0 DEF StoreTypeOK
        <3> QED BY <3>0, <3>1, <3>2, <3>3, PolicyMoves
    <2> QED BY <1>s, <1>2, <2>2 DEF RequestStart
<1>3. CASE RequestStop(policy.generation)
    <2>2. CASE ~StopUnchanged /\ ~ UNCHANGED storeVars
        <3>1. StoreTypeOK' /\ UNCHANGED <<attempts, observed>>
            BY <1>0, <1>b, <1>3, <2>2
            DEF RequestStop, StoreTypeOK, SupervisorState
        <3>2. /\ sup'.current = sup.current
              /\ policy'.generation = policy.generation + 1
              /\ sup'.state = IF sup.current = 0 THEN "stopped" ELSE "stopping"
            BY <1>0, <1>3, <2>2 DEF RequestStop, StoreTypeOK
        <3> QED BY <1>a, <3>1, <3>2, PolicyMoves
    <2> QED BY <1>s, <1>3, <2>2 DEF RequestStop
<1>4. CASE ReplaceDefinition
    <2>1. StoreTypeOK'
        BY <1>0, <1>4 DEF ReplaceDefinition, StoreTypeOK
    <2> QED BY <1>4, <2>1, PolicyMoves DEF ReplaceDefinition
<1>5. ASSUME NEW value \in BOOLEAN, SetFence(value) PROVE StoreInv'
    <2>1. StoreTypeOK'
        BY <1>0, <1>5 DEF SetFence, StoreTypeOK
    <2> QED BY <1>5, <2>1, PolicyMoves DEF SetFence
<1>6. ASSUME NEW e \in Epochs, FenceStartup(e) PROVE StoreInv'
    <2>1. e \in Nat
        BY BoundsAssumption DEF BoundsAssumption
    <2>2. CASE sup.epoch = e
        BY <1>s, <1>6, <2>2 DEF FenceStartup, storeVars
    <2>3. CASE sup.epoch # e
        <3>1. StoreTypeOK'
            BY <1>0, <1>b, <1>6, <2>1, <2>3, RestingLabel
            DEF FenceStartup, StoreTypeOK, SupervisorState
        <3>2. /\ sup'.current = sup.current
              /\ sup'.state = IF sup.current # 0 THEN "fenced"
                              ELSE RestingState(policy)
            BY <1>0, <1>6, <2>3 DEF FenceStartup, StoreTypeOK
        <3> QED BY <1>a, <1>6, <3>1, <3>2, PolicyMoves, RestingLabel
                DEF FenceStartup
    <2> QED BY <2>2, <2>3
<1>7. CASE NormalizeStartupAbsence(sup.epoch)
    <2>1. StoreTypeOK'
        BY <1>0, <1>7 DEF NormalizeStartupAbsence, StoreTypeOK, SupervisorState
    <2>2. sup'.current = sup.current /\ sup'.state \in {"idle", sup.state}
        BY <1>0, <1>7 DEF NormalizeStartupAbsence, StoreTypeOK
    <2> QED BY <1>7, <2>1, <2>2, PolicyMoves
            DEF NormalizeStartupAbsence, AbsenceProvable
<1>8. ASSUME NEW allow \in BOOLEAN, ClaimCleanup(sup.epoch, sup.current, allow)
      PROVE StoreInv'
    <2>1. StoreTypeOK'
        BY <1>0, <1>b, <1>8 DEF ClaimCleanup, StoreTypeOK, SupervisorState
    <2>2. sup'.current = sup.current /\ sup'.state = "fenced"
        BY <1>0, <1>8 DEF ClaimCleanup, StoreTypeOK
    <2> QED BY <1>8, <2>1, <2>2, PolicyMoves DEF ClaimCleanup
<1> QED BY <1>1, <1>2, <1>3, <1>4, <1>5, <1>6, <1>7, <1>8

\* The attempt that has not exited is the newest and the current one.
LEMMA ActiveIsCurrent ==
    ASSUME StoreInv, NEW a \in DOMAIN attempts, attempts[a].state # "exited"
    PROVE  /\ a = sup.current /\ a = Len(attempts) /\ Active = {a}
           /\ observed # 0 => observed = a /\ attempts[a].state = "running"
<1>1. a \in Active /\ Active = {sup.current} \ {0}
    BY DEF StoreInv, AttemptsConsistent, OneActiveAttempt, Active
<1>2. observed # 0 => observed \in Active /\ attempts[observed].state = "running"
    BY DEF StoreInv, AttemptsConsistent, ObservedProcessRuns
<1> QED BY <1>1, <1>2 DEF StoreInv, AttemptOrder

\* Fewer crashes in the window keep the breaker below its limit.
LEMMA FewerCrashes ==
    ASSUME StoreInv, NEW S, S \subseteq RecentCrashes(policy.generation),
           policy.breaker = "armed"
    PROVE  Cardinality(S) < CrashLimit
<1> DEFINE R == RecentCrashes(policy.generation)
<1>1. attempts \in Seq(Attempt) /\ CrashLimit \in Nat
    BY BoundsAssumption DEF StoreInv, StoreTypeOK, BoundsAssumption
<1>2. R \in SUBSET DOMAIN attempts
    BY DEF RecentCrashes
<1>3. IsFiniteSet(R) /\ Cardinality(R) \in Nat /\ Cardinality(S) \in Nat
    BY <1>1, <1>2, CrashesFinite
<1>4. Cardinality(S) <= Cardinality(R)
    BY <1>3, FS_Subset
<1>5. Cardinality(R) < CrashLimit
    BY DEF StoreInv, AttemptsConsistent, ArmedBelowLimit
<1> QED BY <1>1, <1>3, <1>4, <1>5

\* A reservation is the only attempt that has not exited.
LEMMA BeginKeepsStore ==
    ASSUME StoreInv, BeginAttempt(CurrentToken)
    PROVE  StoreInv'
<1> DEFINE r == [token |-> CurrentToken, state |-> "reserved", kind |-> "none",
                 by |-> "none", class |-> "none", counts |-> FALSE,
                 recent |-> FALSE, restart |-> FALSE]
           n == Len(attempts) + 1
<1>1. /\ StoreTypeOK /\ Active = {} /\ sup.current = 0
      /\ attempts' = Append(attempts, r)
      /\ sup' = [sup EXCEPT !.state = "launching", !.current = n]
      /\ UNCHANGED <<policy, fence, definition, observed>>
    BY DEF StoreInv, BeginAttempt, CanBegin
<1>2. /\ r.token.policy = policy.generation /\ r.state = "reserved"
      /\ ~r.counts
    BY DEF CurrentToken
<1>3. r \in Attempt
    BY <1>1 DEF StoreTypeOK, CurrentToken, Attempt, Token, ExitKind, Reporter,
                Classification
<1> HIDE DEF r
<1>4. /\ attempts \in Seq(Attempt) /\ Len(attempts) \in Nat
      /\ DOMAIN attempts = 1 .. Len(attempts)
      /\ policy.generation \in Nat
    BY <1>1 DEF StoreTypeOK
<1>5. /\ attempts' \in Seq(Attempt) /\ Len(attempts') = n
      /\ DOMAIN attempts' = 1 .. n
      /\ attempts'[n] = r
      /\ \A b \in DOMAIN attempts : attempts'[b] = attempts[b]
    BY <1>1, <1>3, <1>4, AppendProperties
<1>6. StoreTypeOK'
    <2>1. n \in Nat
        BY <1>4
    <2> HIDE DEF n
    <2> QED BY <1>1, <1>5, <2>1 DEF StoreTypeOK, SupervisorState
<1>7. Active' = {n}
    BY <1>1, <1>2, <1>4, <1>5 DEF Active
<1>8. sup'.current = n /\ sup'.state = "launching" /\ n # 0
    BY <1>1, <1>4 DEF StoreTypeOK
<1>9. OneActiveAttempt' /\ LabelMatchesAttempt'
    BY <1>2, <1>5, <1>7, <1>8 DEF OneActiveAttempt, LabelMatchesAttempt
<1>10. ObservedProcessRuns'
    BY <1>1 DEF StoreInv, AttemptsConsistent, ObservedProcessRuns
<1>11. ArmedBelowLimit'
    <2>1. RecentCrashes(policy.generation)' = RecentCrashes(policy.generation)
        BY <1>1, <1>2, <1>4, <1>5 DEF RecentCrashes
    <2> QED BY <1>1, <2>1, FewerCrashes DEF ArmedBelowLimit
<1>12. AttemptOrder'
    BY <1>1, <1>2, <1>4, <1>5, <1>8 DEF StoreInv, AttemptOrder
<1> QED BY <1>6, <1>9, <1>10, <1>11, <1>12 DEF StoreInv, AttemptsConsistent

\* The report of a launch commits the reservation, or closes it.
LEMMA ReportKeepsStore ==
    ASSUME StoreInv, NEW a \in DOMAIN attempts, MarkLaunched(a) \/ FenceLaunch(a)
    PROVE  StoreInv'
<1>0. StoreTypeOK /\ attempts[a].state = "reserved"
    BY DEF StoreInv, MarkLaunched, FenceLaunch
<1>1. attempts \in Seq(Attempt) /\ a \in Nat \ {0}
    BY <1>0 DEF StoreTypeOK
<1>2. /\ a = sup.current /\ a = Len(attempts) /\ Active = {a} /\ observed = 0
    BY <1>0, ActiveIsCurrent
<1>3. attempts[a] \in Attempt
    BY <1>1, AttemptTyped
<1>4. PICK r \in Attempt :
        /\ attempts' = [attempts EXCEPT ![a] = r]
        /\ r.token = attempts[a].token /\ r.counts = attempts[a].counts
        /\ r.recent = attempts[a].recent
        /\ \/ /\ MarkLaunched(a) /\ r.state = "running"
           \/ /\ FenceLaunch(a) /\ r.state = "exited"
    <2>1. CASE MarkLaunched(a)
        <3> DEFINE q == [attempts[a] EXCEPT !.state = "running"]
        <3>1. attempts' = [attempts EXCEPT ![a] = q]
            BY <2>1 DEF MarkLaunched
        <3>2. /\ q \in Attempt /\ q.token = attempts[a].token
              /\ q.counts = attempts[a].counts /\ q.recent = attempts[a].recent
              /\ q.state = "running"
            BY <1>3 DEF Attempt
        <3> QED BY <2>1, <3>1, <3>2
    <2>2. CASE FenceLaunch(a)
        <3> DEFINE q == [attempts[a] EXCEPT
                            !.state = "exited", !.kind = "launch_failure",
                            !.by = "manager",
                            !.class = IF policy.desired # "running"
                                      THEN "intentional" ELSE "fenced"]
        <3>1. attempts' = [attempts EXCEPT ![a] = q]
            BY <2>2 DEF FenceLaunch
        <3>2. /\ q \in Attempt /\ q.token = attempts[a].token
              /\ q.counts = attempts[a].counts /\ q.recent = attempts[a].recent
              /\ q.state = "exited"
            BY <1>3 DEF Attempt, ExitKind, Reporter, Classification
        <3> QED BY <2>2, <3>1, <3>2
    <2> QED BY <2>1, <2>2
<1>5. /\ attempts' \in Seq(Attempt) /\ Len(attempts') = Len(attempts)
      /\ DOMAIN attempts' = DOMAIN attempts
      /\ \A b \in DOMAIN attempts : attempts'[b] = IF b = a THEN r ELSE attempts[b]
    BY <1>1, <1>4, AttemptReplaced
<1>6. UNCHANGED policy
    BY <1>4 DEF MarkLaunched, FenceLaunch
<1>7. ArmedBelowLimit'
    <2>1. RecentCrashes(policy.generation)' = RecentCrashes(policy.generation)
        BY <1>4, <1>5, <1>6 DEF RecentCrashes
    <2> QED BY <1>6, <2>1, FewerCrashes DEF ArmedBelowLimit
<1>8. CASE MarkLaunched(a) /\ r.state = "running"
    <2>1. sup'.current = a /\ sup'.state = "running" /\ observed' = a
        BY <1>0, <1>1, <1>2, <1>8 DEF MarkLaunched, StoreTypeOK
    <2>2. StoreTypeOK'
        BY <1>0, <1>1, <1>5, <1>8 DEF MarkLaunched, StoreTypeOK, SupervisorState
    <2>3. Active' = {a}
        BY <1>2, <1>5, <1>8 DEF Active
    <2>4. OneActiveAttempt' /\ LabelMatchesAttempt' /\ ObservedProcessRuns'
        BY <1>1, <1>5, <1>8, <2>1, <2>3
        DEF OneActiveAttempt, LabelMatchesAttempt, ObservedProcessRuns
    <2>5. AttemptOrder'
        BY <1>2, <1>4, <1>5, <1>6, <2>1 DEF StoreInv, AttemptOrder
    <2> QED BY <1>7, <2>2, <2>4, <2>5 DEF StoreInv, AttemptsConsistent
<1>9. CASE FenceLaunch(a) /\ r.state = "exited"
    <2>1. sup'.current = 0 /\ sup'.state = "fenced" /\ observed' = 0
        BY <1>0, <1>1, <1>2, <1>9 DEF FenceLaunch, StoreTypeOK
    <2>2. StoreTypeOK'
        BY <1>0, <1>1, <1>2, <1>5, <1>9 DEF FenceLaunch, StoreTypeOK, SupervisorState
    <2>3. Active' = {}
        BY <1>2, <1>5, <1>9 DEF Active
    <2>4. OneActiveAttempt' /\ LabelMatchesAttempt' /\ ObservedProcessRuns'
        BY <2>1, <2>3
        DEF OneActiveAttempt, LabelMatchesAttempt, ObservedProcessRuns
    <2>5. AttemptOrder'
        BY <1>2, <1>4, <1>5, <1>6, <2>1 DEF StoreInv, AttemptOrder
    <2> QED BY <1>7, <2>2, <2>4, <2>5 DEF StoreInv, AttemptsConsistent
<1> QED BY <1>4, <1>8, <1>9

\* An exit closes the current attempt; a crash that counts is added to the
\* window of the policy generation it was launched under, or trips the
\* breaker.
LEMMA ExitKeepsStore ==
    ASSUME StoreInv, NEW a \in DOMAIN attempts, NEW by \in Reporter,
           NEW kind \in ExitKind, RecordExit(a, by, kind)
    PROVE  StoreInv'
<1> DEFINE c == ClassifyExit(a)
           p == PolicyAfterExit(a, c)
           r == [attempts[a] EXCEPT
                    !.state = "exited", !.kind = kind, !.by = by, !.class = c,
                    !.counts = c = "crash" /\ policy.keep,
                    !.recent = c = "crash" /\ policy.keep,
                    !.restart = RestartAllowed(p)]
<1>0. StoreTypeOK /\ attempts[a].state # "exited"
    BY DEF StoreInv, RecordExit, CanRecordExit
<1>1. attempts \in Seq(Attempt) /\ a \in Nat \ {0} /\ attempts[a] \in Attempt
    BY <1>0, AttemptTyped DEF StoreTypeOK
<1>2. /\ a = sup.current /\ a = Len(attempts) /\ Active = {a}
      /\ observed # 0 => observed = a
    BY <1>0, ActiveIsCurrent
<1>3. /\ policy' = p /\ sup' = SupervisorAfterExit(a, c, p)
      /\ attempts' = [attempts EXCEPT ![a] = r]
      /\ observed' = ObservedAfterExit(a)
      /\ UNCHANGED <<fence, definition>>
    BY DEF RecordExit
<1>4. /\ c \in Classification
      /\ c = "crash" => attempts[a].token = CurrentToken
    BY DEF ClassifyExit, Classification
<1>5. /\ p \in [keep : BOOLEAN, desired : {"stopped", "running"},
                breaker : {"armed", "tripped"}, generation : Nat]
      /\ p = policy \/ p.breaker = "tripped"
      /\ p.generation \in {policy.generation, policy.generation + 1}
    <2>1. policy.generation + 1 \in Nat
        BY <1>0 DEF StoreTypeOK
    <2>2. CASE p = policy
        BY <1>0, <2>2 DEF StoreTypeOK
    <2>3. CASE p = [policy EXCEPT !.breaker = "tripped", !.generation = @ + 1]
        BY <1>0, <2>1, <2>3 DEF StoreTypeOK
    <2> QED BY <2>2, <2>3 DEF PolicyAfterExit
<1>6. /\ r.token = attempts[a].token /\ r.state = "exited"
      /\ r.counts = (c = "crash" /\ policy.keep)
      /\ r.recent = (c = "crash" /\ policy.keep)
    BY <1>1 DEF Attempt
<1>7. r \in Attempt
    <2>1. RestartAllowed(p) \in BOOLEAN
        BY DEF RestartAllowed
    <2>2. (c = "crash" /\ policy.keep) \in BOOLEAN
        OBVIOUS
    <2> HIDE DEF c, p
    <2> QED BY <1>1, <1>4, <2>1, <2>2 DEF Attempt
<1>8. /\ attempts' \in Seq(Attempt) /\ Len(attempts') = Len(attempts)
      /\ DOMAIN attempts' = DOMAIN attempts
      /\ \A b \in DOMAIN attempts : attempts'[b] = IF b = a THEN r ELSE attempts[b]
    <2> HIDE DEF r
    <2> QED BY <1>1, <1>3, <1>7, AttemptReplaced
<1>9. observed' = 0
    BY <1>2, <1>3 DEF ObservedAfterExit
<1>10. /\ sup' \in [state : SupervisorState, epoch : Nat, generation : Nat,
                     current : Nat]
       /\ sup'.current = 0
    <2>1. PICK x : sup' = [sup EXCEPT !.current = 0, !.state = x]
                   /\ x \in SupervisorState
        <3> HIDE DEF c, p
        <3>1. RestingState(p) \in SupervisorState
            BY RestingLabel DEF SupervisorState
        <3> QED BY <1>2, <1>3, <3>1 DEF SupervisorAfterExit, SupervisorState
    <2> QED BY <1>0, <2>1 DEF StoreTypeOK
<1> HIDE DEF r, p
<1>11. StoreTypeOK'
    BY <1>0, <1>3, <1>5, <1>8, <1>9, <1>10 DEF StoreTypeOK
<1>12. Active' = {}
    BY <1>2, <1>6, <1>8 DEF Active
<1>13. OneActiveAttempt' /\ ObservedProcessRuns'
    BY <1>9, <1>10, <1>12 DEF OneActiveAttempt, ObservedProcessRuns
<1>14. LabelMatchesAttempt'
    <2>1. sup'.state \in {"tripped", "backoff", "stopped", "fenced", "idle"}
        <3> HIDE DEF c
        <3>1. sup \in [state : SupervisorState, epoch : Nat, generation : Nat,
                       current : Nat]
            BY <1>0 DEF StoreTypeOK
        <3> QED BY <1>2, <1>3, <3>1, RestingLabel DEF SupervisorAfterExit
    <2> QED BY <1>12, <2>1 DEF LabelMatchesAttempt
<1>15. AttemptOrder'
    <2>1. /\ policy.generation \in Nat /\ policy'.generation \in Nat
          /\ policy.generation <= policy'.generation
        BY <1>0, <1>3, <1>5 DEF StoreTypeOK
    <2>2. ASSUME NEW b \in DOMAIN attempts
          PROVE  /\ attempts'[b].token.policy = attempts[b].token.policy
                 /\ attempts[b].token.policy \in Nat
                 /\ attempts[b].token.policy <= policy.generation
        BY <1>1, <1>6, <1>8, AttemptTyped DEF StoreInv, AttemptOrder
    <2>3. \A b \in DOMAIN attempts' :
            attempts'[b].token.policy <= policy'.generation
        BY <1>8, <2>1, <2>2
    <2> QED BY <1>10, <2>3 DEF AttemptOrder
<1>16. ArmedBelowLimit'
    <2> DEFINE R == RecentCrashes(policy.generation)
    <2> SUFFICES ASSUME policy'.breaker = "armed"
                 PROVE  Cardinality(RecentCrashes(policy.generation)') < CrashLimit
        BY DEF ArmedBelowLimit
    <2>1. UNCHANGED policy /\ p = policy /\ policy.breaker = "armed"
        BY <1>3, <1>5
    <2>2. CASE c = "crash" /\ policy.keep
        <3>1. attempts[a].token.policy = policy.generation
            BY <1>4, <2>2 DEF CurrentToken
        <3>2. RecentCrashes(policy.generation)' = R \cup {a}
            BY <1>6, <1>8, <2>1, <2>2, <3>1 DEF RecentCrashes
        <3>3. R \cup {a} \in SUBSET DOMAIN attempts
            BY DEF RecentCrashes
        <3>4. Cardinality(R \cup {a}) \in Nat /\ CrashLimit \in Nat
            BY <1>1, <3>3, CrashesFinite, BoundsAssumption DEF BoundsAssumption
        <3>5. ~(Cardinality(R \cup {a}) >= CrashLimit)
            <4>1. policy # [policy EXCEPT !.breaker = "tripped", !.generation = @ + 1]
                BY <1>0, <2>1 DEF StoreTypeOK
            <4> QED BY <2>1, <2>2, <3>1, <4>1 DEF PolicyAfterExit, p
        <3> QED BY <3>2, <3>4, <3>5
    <2>3. CASE ~(c = "crash" /\ policy.keep)
        <3>1. RecentCrashes(policy.generation)' \subseteq R
            BY <1>6, <1>8, <2>1, <2>3 DEF RecentCrashes
        <3> QED BY <2>1, <3>1, FewerCrashes
    <2> QED BY <2>2, <2>3
<1> QED BY <1>11, <1>13, <1>14, <1>15, <1>16 DEF StoreInv, AttemptsConsistent

\* A crash that leaves the window only lowers the count.
LEMMA WindowKeepsStore ==
    ASSUME StoreInv, WindowPasses
    PROVE  StoreInv'
<1>1. PICK a \in DOMAIN attempts :
        /\ attempts' = [attempts EXCEPT ![a].recent = FALSE]
        /\ UNCHANGED <<policy, sup, fence, definition, observed>>
    BY DEF WindowPasses
<1> DEFINE r == [attempts[a] EXCEPT !.recent = FALSE]
<1>2. StoreTypeOK /\ attempts \in Seq(Attempt)
    BY DEF StoreInv, StoreTypeOK
<1>3. attempts[a] \in Attempt
    BY <1>2, AttemptTyped
<1>4. /\ r \in Attempt /\ r.token = attempts[a].token
      /\ r.state = attempts[a].state /\ ~r.recent
    BY <1>3 DEF Attempt
<1>5. attempts' = [attempts EXCEPT ![a] = r]
    BY <1>1
<1> HIDE DEF r
<1>6. /\ attempts' \in Seq(Attempt) /\ Len(attempts') = Len(attempts)
      /\ DOMAIN attempts' = DOMAIN attempts
      /\ \A b \in DOMAIN attempts : attempts'[b] = IF b = a THEN r ELSE attempts[b]
    BY <1>2, <1>4, <1>5, AttemptReplaced
<1>7. \A b \in DOMAIN attempts : /\ attempts'[b].state = attempts[b].state
                                 /\ attempts'[b].token = attempts[b].token
    BY <1>4, <1>6
<1>8. StoreTypeOK'
    BY <1>1, <1>2, <1>6 DEF StoreTypeOK
<1>9. Active' = Active
    BY <1>6, <1>7 DEF Active
<1>10. OneActiveAttempt' /\ LabelMatchesAttempt' /\ ObservedProcessRuns'
    <2>1. \A b \in Active : attempts'[b].state = attempts[b].state
        BY <1>7 DEF Active
    <2> QED BY <1>1, <1>9, <2>1
            DEF StoreInv, AttemptsConsistent, OneActiveAttempt,
                LabelMatchesAttempt, ObservedProcessRuns
<1>11. ArmedBelowLimit'
    <2>1. RecentCrashes(policy.generation)' \subseteq RecentCrashes(policy.generation)
        BY <1>1, <1>4, <1>6 DEF RecentCrashes
    <2> QED BY <1>1, <2>1, FewerCrashes DEF ArmedBelowLimit
<1>12. AttemptOrder'
    BY <1>1, <1>6, <1>7 DEF StoreInv, AttemptOrder
<1> QED BY <1>8, <1>10, <1>11, <1>12 DEF StoreInv, AttemptsConsistent

\* Every operation of the store keeps its rows consistent.
LEMMA StoreStep == StoreInv /\ [StoreOperation]_storeVars => StoreInv'
<1> SUFFICES ASSUME StoreInv, [StoreOperation]_storeVars PROVE StoreInv'
    OBVIOUS
<1>1. CASE UNCHANGED storeVars
    BY <1>1
    DEF storeVars, StoreInv, StoreTypeOK, AttemptsConsistent, AttemptOrder,
        OneActiveAttempt, LabelMatchesAttempt, ArmedBelowLimit,
        ObservedProcessRuns, Active, RecentCrashes
<1>2. ASSUME NEW a \in DOMAIN attempts,
             \/ MarkLaunched(a)
             \/ FenceLaunch(a)
             \/ \E kind \in ExitKind : RecordExit(a, "runner", kind)
             \/ \E kind \in ExitKind \ {"exit"} : RecordExit(a, "manager", kind)
      PROVE  StoreInv'
    BY <1>2, ReportKeepsStore, ExitKeepsStore DEF Reporter
<1> QED
    BY <1>1, <1>2, ClientsKeepStore, BeginKeepsStore, WindowKeepsStore
    DEF StoreOperation

\* Whoever calls the operations of worker_supervision.py, and in whatever
\* order, the supervisor row, the attempts, the breaker and the observed
\* process agree.
THEOREM StoreConsistent == StoreSpec => []AttemptsConsistent
<1>1. StoreInv /\ [StoreNext]_storeVars => StoreInv'
    BY StoreStep DEF StoreNext
<1>2. StoreInv => AttemptsConsistent
    BY DEF StoreInv
<1> QED BY StoreInitInv, <1>1, <1>2, PTL DEF StoreSpec

-----------------------------------------------------------------------------
(***************************************************************************)
(* The plane                                                               *)
(***************************************************************************)
\* What the runner holds at each place: an attempt it reserved is the newest
\* one and still open while it launches and runs it, and the exit on disk is
\* the exit of the newest attempt.
RunnerHolds ==
    /\ runner.attempt \in {0, Len(attempts)}
    /\ runner.at \in {"off", "restarting", "replay", "lookup", "candidate"} =>
        runner.attempt = 0
    /\ runner.at \in {"spawn", "report", "run", "stage", "persist"} =>
        runner.attempt # 0
    /\ runner.at \in {"begin", "spawn"} /\ runner.attempt # 0 =>
        attempts[runner.attempt].state = "reserved"
    /\ runner.at = "report" =>
        \/ attempts[runner.attempt].state # "exited"
        \/ attempts[runner.attempt].kind = "launch_failure"
    /\ runner.at = "run" => attempts[runner.attempt].state = "running"
    /\ runner.at = "stage" => runner.kind \in ExitKind
    /\ runner.at = "persist" => journal # NoExit

ProcessHeld ==
    /\ child # 0 => runner.at \in {"report", "run"} /\ child = runner.attempt
    /\ journal # NoExit =>
        /\ journal.attempt # 0 /\ journal.attempt = Len(attempts)
        /\ journal.kind \in ExitKind
        /\ runner.at \in {"off", "restarting", "replay", "persist"}

\* A stop request has written its policy before it signals, and proves the
\* unit gone before it settles; requests wait for the fence of the startup.
RequestHolds ==
    /\ request.at = "settle" => runner.at = "off"
    /\ request.at \in {"signal", "await", "settle", "confirm"} =>
        policy.desired = "stopped"
    /\ broker \in {"down", "starting"} => request = Idle
    /\ broker = "down" => epoch <= MaxRestarts
    /\ epoch >= 1 /\ sup.epoch <= epoch

\* The startup settles an attempt only when no runner holds it.
StartupHolds ==
    /\ startup.at \in {"fence", "remove", "removing", "settle", "normalize"} =>
        broker = "starting"
    /\ startup.at = "settle" => runner.at = "off"
    /\ startup.attempt <= Len(attempts)
    /\ startup.at = "close" /\ startup.attempt # 0
       /\ sup.current = startup.attempt =>
            runner.attempt = 0 \/ runner.at \in {"stage", "persist"}

PlaneInv ==
    /\ TypeOK /\ StoreInv
    /\ RunnerHolds /\ ProcessHeld /\ RequestHolds /\ StartupHolds

\* What the invariant says of the attempts, in the form the steps use.
LEMMA PlaneFacts ==
    ASSUME PlaneInv
    PROVE  /\ StoreTypeOK /\ attempts \in Seq(Attempt) /\ Len(attempts) \in Nat
           /\ DOMAIN attempts = 1 .. Len(attempts)
           /\ epoch \in Epochs /\ epoch \in Nat /\ sup.epoch \in Nat
           /\ sup.current \in Nat /\ startup.attempt \in Nat
           /\ Active = {sup.current} \ {0}
           /\ sup.current # 0 =>
                /\ sup.current \in DOMAIN attempts /\ sup.current = Len(attempts)
                /\ attempts[sup.current].state \in {"reserved", "running"}
           /\ runner.attempt # 0 => runner.attempt \in DOMAIN attempts
           /\ journal # NoExit => journal.attempt \in DOMAIN attempts
<1>1. StoreTypeOK /\ TypeOK /\ StoreInv
    BY DEF PlaneInv, TypeOK
<1>2. /\ attempts \in Seq(Attempt) /\ Len(attempts) \in Nat
      /\ DOMAIN attempts = 1 .. Len(attempts)
    BY <1>1 DEF StoreTypeOK
<1>3. sup.epoch \in Nat /\ sup.current \in Nat
    BY <1>1 DEF StoreTypeOK
<1>4. epoch \in 1 .. MaxRestarts + 1 /\ MaxRestarts \in Nat
    BY <1>1, PlaneAssumption DEF PlaneAssumption, PlaneInv, RequestHolds, TypeOK
<1>5. epoch \in Epochs /\ epoch \in Nat
    BY <1>4, PlaneAssumption DEF PlaneAssumption
<1>6. Active = {sup.current} \ {0} /\ sup.current \in {0, Len(attempts)}
    BY <1>1 DEF StoreInv, AttemptsConsistent, OneActiveAttempt, AttemptOrder
<1>7. sup.current # 0 =>
        /\ sup.current \in DOMAIN attempts /\ sup.current = Len(attempts)
        /\ attempts[sup.current].state \in {"reserved", "running"}
    BY <1>2, <1>6, AttemptTyped DEF Active
<1>8. runner.attempt # 0 => runner.attempt \in DOMAIN attempts
    BY <1>2 DEF PlaneInv, RunnerHolds
<1>9. journal # NoExit => journal.attempt \in DOMAIN attempts
    BY <1>2 DEF PlaneInv, ProcessHeld
<1>10. startup.attempt \in Nat
    BY <1>1 DEF TypeOK
<1> QED BY <1>1, <1>2, <1>3, <1>5, <1>6, <1>7, <1>8, <1>9, <1>10

\* Settling closes the current attempt, as the manager may.
LEMMA SettleIsOperation ==
    ASSUME PlaneInv, SettleStoppedRunner
    PROVE  \/ UNCHANGED storeVars
           \/ /\ sup.current # 0 /\ sup.current \in DOMAIN attempts
              /\ \E kind \in ExitKind \ {"exit"} :
                    RecordExit(sup.current, "manager", kind)
BY PlaneFacts DEF SettleStoppedRunner, ExitKind

\* Every step of the plane is an operation of the store, or leaves it alone.
LEMMA PlaneStepsStore ==
    ASSUME PlaneInv, [Next]_vars
    PROVE  [StoreOperation]_storeVars
<1>0. TypeOK /\ sup.epoch <= epoch
    BY DEF PlaneInv, RequestHolds
<1>1. CASE RunnerStep
    <2>1. CASE Replay
        <3>1. UNCHANGED storeVars \/ (/\ journal # NoExit
                /\ RecordExit(journal.attempt, "runner", journal.kind))
            BY <2>1 DEF Replay
        <3> QED BY <3>1, PlaneFacts DEF PlaneInv, ProcessHeld, StoreOperation
    <2>2. CASE Lookup \/ Candidate \/ Spawn \/ Wait \/ Stage
        BY <2>2 DEF Lookup, Candidate, Spawn, Wait, Stage
    <2>3. CASE Begin
        BY <2>3 DEF Begin, BeginAttempt, CanBegin, StoreOperation
    <2>4. CASE Report
        <3>1. runner.attempt \in DOMAIN attempts
            BY <2>4, PlaneFacts DEF PlaneInv, RunnerHolds, Report
        <3>2. \/ UNCHANGED storeVars \/ MarkLaunched(runner.attempt)
              \/ FenceLaunch(runner.attempt)
            BY <2>4 DEF Report
        <3> QED BY <3>1, <3>2 DEF StoreOperation
    <2>5. CASE Persist
        <3>1. UNCHANGED storeVars
                \/ RecordExit(journal.attempt, "runner", journal.kind)
            BY <2>5 DEF Persist
        <3>2. journal # NoExit
            BY <2>5 DEF Persist, PlaneInv, RunnerHolds
        <3> QED BY <3>1, <3>2, PlaneFacts DEF PlaneInv, ProcessHeld, StoreOperation
    <2> QED BY <1>1, <2>1, <2>2, <2>3, <2>4, <2>5 DEF RunnerStep
<1>2. CASE RequestStep
    <2>1. CASE Configure
        <3>1. request.keep \in BOOLEAN
            BY <1>0 DEF TypeOK
        <3> QED BY <2>1, <3>1
                DEF Configure, ConfigurePolicy, ConfigureAdmitted, StoreOperation
    <2>2. CASE Start
        <3>1. request.rearm \in BOOLEAN
            BY <1>0 DEF TypeOK
        <3> QED BY <2>2, <3>1
                DEF Start, RequestStart, StartAdmitted, StoreOperation
    <2>3. CASE EnsureEpoch
        <3>1. CASE sup.epoch # 0
            BY <2>3, <3>1 DEF EnsureEpoch
        <3>2. CASE sup.epoch = 0
            <4>1. FenceStartup(epoch) /\ epoch > sup.epoch /\ epoch \in Epochs
                BY <2>3, <3>2, PlaneFacts
                DEF EnsureEpoch, PlaneInv, RequestHolds
            <4> QED BY <4>1 DEF StoreOperation
        <3> QED BY <3>1, <3>2
    <2>4. CASE Stop
        BY <2>4 DEF Stop, RequestStop, StoreOperation
    <2>5. CASE Settle
        <3>1. SettleStoppedRunner
            BY <2>5 DEF Settle
        <3> QED BY <3>1, SettleIsOperation DEF StoreOperation
    <2>6. CASE Launch \/ Signal \/ Await \/ Confirm
        BY <2>6 DEF Launch, Signal, Await, Confirm
    <2> QED BY <1>2, <2>1, <2>2, <2>3, <2>4, <2>5, <2>6 DEF RequestStep
<1>3. CASE StartupStep
    <2>1. CASE FenceOldRunners
        <3>1. FenceStartup(epoch)
            BY <2>1 DEF FenceOldRunners
        <3>2. CASE sup.epoch = epoch
            BY <3>1, <3>2 DEF FenceStartup, storeVars
        <3>3. CASE sup.epoch # epoch
            BY <1>0, <3>1, <3>3, PlaneFacts DEF StoreOperation
        <3> QED BY <3>2, <3>3
    <2>2. CASE SettleOldRunner
        BY <2>2, SettleIsOperation DEF SettleOldRunner, StoreOperation
    <2>3. CASE NormalizeOldRunner
        BY <2>3 DEF NormalizeOldRunner, AbsenceProvable, StoreOperation
    <2>4. CASE StartupClaim
        <3>1. \/ UNCHANGED storeVars
              \/ \E late \in BOOLEAN : ClaimCleanup(epoch, startup.attempt, late)
            BY <2>4 DEF StartupClaim
        <3> QED BY <3>1 DEF ClaimCleanup, Claimable, StoreOperation
    <2>5. CASE StartupClose
        <3>1. UNCHANGED storeVars \/ SettleStoppedRunner
            BY <2>5 DEF StartupClose
        <3> QED BY <3>1, SettleIsOperation DEF StoreOperation
    <2>6. CASE StartupRest
        <3>1. UNCHANGED storeVars \/ NormalizeStartupAbsence(epoch)
            BY <2>6 DEF StartupRest
        <3> QED BY <3>1
                DEF NormalizeStartupAbsence, AbsenceProvable, StoreOperation
    <2>7. CASE \/ RemoveOldRunner \/ OldRunnerRemoved \/ StartupCheck
               \/ StartupGivesUp \/ StartupClear \/ StartupCleared
               \/ StartupLaunch
        BY <2>7 DEF RemoveOldRunner, OldRunnerRemoved, StartupCheck,
            StartupGivesUp, StartupClear, StartupCleared, StartupLaunch
    <2> QED BY <1>3, <2>1, <2>2, <2>3, <2>4, <2>5, <2>6, <2>7 DEF StartupStep
<1>4. CASE Environment
    <2>1. \A v \in FenceValues : v \in BOOLEAN
        BY PlaneAssumption DEF PlaneAssumption
    <2> QED BY <1>4, <2>1 DEF Environment, StoreOperation
<1>5. CASE \/ StartRequested \/ StopRequested \/ UnitKilled \/ RunnerCrash
           \/ UnitRestarts \/ ChildExits \/ BrokerStops \/ BrokerEnds
           \/ BrokerStarts \/ UNCHANGED vars
    BY <1>5 DEF StartRequested, StopRequested, UnitKilled, RunnerCrash,
        UnitRestarts, ChildExits, BrokerStops, BrokerEnds, BrokerStarts, vars
<1> QED BY <1>1, <1>2, <1>3, <1>4, <1>5 DEF Next

RunnerType ==
    [at : RunnerPlace, token : Token, attempt : Nat,
     kind : ExitKind \cup {"none"}, signal : BOOLEAN, settled : BOOLEAN]

\* A fresh runner holds no attempt.
LEMMA FreshRunner ==
    ASSUME NEW place \in RunnerPlace
    PROVE  /\ Runner(place) \in RunnerType
           /\ Runner(place).at = place /\ Runner(place).attempt = 0
BY DEF Runner, RunnerType, NoToken, Token

\* The places a runner ends or waits at are places.
LEMMA RestingPlaces ==
    {"off", "restarting", "replay", "lookup", "candidate"} \subseteq RunnerPlace
BY DEF RunnerPlace

\* The plane starts with the invariant.
LEMMA PlaneInitInv == Init => PlaneInv
<1> SUFFICES ASSUME Init PROVE PlaneInv OBVIOUS
<1>1. StoreInv /\ StoreTypeOK
    BY StoreInitInv DEF Init, StoreInv
<1>2. /\ runner \in RunnerType /\ runner.at = "off" /\ runner.attempt = 0
    BY FreshRunner, RestingPlaces DEF Init
<1>3. MaxRestarts \in Nat /\ MaxFaults \in Nat /\ MaxAutostarts \in Nat
    BY PlaneAssumption DEF PlaneAssumption
<1>4. TypeOK
    BY <1>1, <1>2, <1>3
    DEF Init, TypeOK, RunnerType, Idle, NoStartup, NoExit, RequestPlace,
        StartupPlace
<1>5. RunnerHolds /\ ProcessHeld
    BY <1>2 DEF Init, RunnerHolds, ProcessHeld
<1>6. RequestHolds
    BY <1>3 DEF Init, StoreInit, RequestHolds, Idle
<1>7. StartupHolds
    BY DEF Init, StoreInit, StartupHolds, NoStartup
<1> QED BY <1>1, <1>4, <1>5, <1>6, <1>7 DEF PlaneInv

\* A runner that holds nothing, and has no process, is fine; the exit on disk
\* may only be there before it is replayed.
LEMMA RunnerRests ==
    ASSUME runner'.at \in {"off", "restarting", "replay", "lookup", "candidate"},
           runner'.attempt = 0, child' = 0,
           \/ journal' = NoExit
           \/ /\ PlaneInv /\ journal' = journal /\ Len(attempts') = Len(attempts)
              /\ runner'.at \in {"off", "restarting", "replay"}
    PROVE  RunnerHolds' /\ ProcessHeld'
<1>1. RunnerHolds'
    BY DEF RunnerHolds
<1>2. ProcessHeld'
    BY DEF PlaneInv, ProcessHeld, NoExit
<1> QED BY <1>1, <1>2

\* A runner that stays where it is keeps what it holds, unless its attempt is
\* closed while it launches or runs it.
LEMMA RunnerStays ==
    ASSUME PlaneInv, UNCHANGED journal, child' \in {0, child},
           runner'.at = runner.at, runner'.attempt = runner.attempt,
           runner'.kind = runner.kind, Len(attempts') = Len(attempts),
           \/ \A b \in DOMAIN attempts : /\ attempts'[b].state = attempts[b].state
                                          /\ attempts'[b].kind = attempts[b].kind
           \/ runner.attempt = 0 \/ runner.at \in {"stage", "persist"}
    PROVE  RunnerHolds' /\ ProcessHeld'
<1>1. RunnerHolds /\ ProcessHeld
    BY DEF PlaneInv
<1>2. runner.attempt # 0 => runner.attempt \in DOMAIN attempts
    BY PlaneFacts
<1>3. RunnerHolds'
    BY <1>1, <1>2 DEF RunnerHolds
<1>4. ProcessHeld'
    BY <1>1 DEF ProcessHeld, NoExit
<1> QED BY <1>3, <1>4

\* The operations of the store that the runner uses leave the wishes of the
\* policy and the epoch alone.
LEMMA ExitEffect ==
    ASSUME StoreInv, NEW a \in DOMAIN attempts, NEW by, NEW kind,
           RecordExit(a, by, kind)
    PROVE  /\ Len(attempts') = Len(attempts) /\ policy'.desired = policy.desired
           /\ sup'.current = 0 /\ sup'.epoch = sup.epoch
<1>0. StoreTypeOK /\ attempts[a].state # "exited"
    BY DEF StoreInv, RecordExit, CanRecordExit
<1>1. attempts \in Seq(Attempt)
    BY <1>0 DEF StoreTypeOK
<1>2. a = sup.current
    BY <1>0, ActiveIsCurrent
<1>3. Len(attempts') = Len(attempts)
    <2>1. PICK r : attempts' = [attempts EXCEPT ![a] = r]
        BY DEF RecordExit
    <2> QED BY <1>1, <2>1
<1>4. policy'.desired = policy.desired
    <2>1. \/ policy' = policy
          \/ policy' = [policy EXCEPT !.breaker = "tripped", !.generation = @ + 1]
        BY DEF RecordExit, PolicyAfterExit
    <2> QED BY <1>0, <2>1 DEF StoreTypeOK
<1>5. PICK x : sup' = [sup EXCEPT !.current = 0, !.state = x]
    BY <1>2 DEF RecordExit, SupervisorAfterExit
<1>6. sup'.current = 0 /\ sup'.epoch = sup.epoch
    BY <1>0, <1>5 DEF StoreTypeOK
<1> QED BY <1>3, <1>4, <1>6

\* A step of the runner leaves the requests and the startup with what they
\* rely on.
LEMMA RunnerLeavesOthers ==
    ASSUME PlaneInv, runner.at # "off", UNCHANGED <<broker, epoch, request, startup>>,
           policy'.desired = policy.desired, sup'.epoch = sup.epoch,
           Len(attempts') \in {Len(attempts), Len(attempts) + 1},
           \/ sup'.current \in {0, Len(attempts) + 1}
           \/ /\ sup'.current = sup.current
              /\ \/ runner'.attempt = 0 \/ runner'.at \in {"stage", "persist"}
                 \/ runner.attempt # 0 /\ runner.at \notin {"stage", "persist"}
    PROVE  RequestHolds' /\ StartupHolds'
<1>1. RequestHolds /\ StartupHolds
    BY DEF PlaneInv
<1>2. RequestHolds'
    BY <1>1 DEF RequestHolds, Idle
<1>3. /\ Len(attempts) \in Nat /\ startup.attempt \in Nat
      /\ startup.attempt <= Len(attempts)
    BY <1>1, PlaneFacts DEF StartupHolds
<1>4. startup'.attempt <= Len(attempts')
    BY <1>3
<1>5. StartupHolds'
    BY <1>1, <1>3, <1>4 DEF StartupHolds
<1> QED BY <1>2, <1>5

HostTypeOK ==
    /\ runner \in RunnerType /\ child \in Nat
    /\ journal \in [attempt : Nat, kind : ExitKind \cup {"none"}]
    /\ faults \in 0 .. MaxFaults

HostHolds == HostTypeOK /\ RunnerHolds /\ ProcessHeld

\* A runner that ends, with or without an error, holds nothing.
LEMMA RunnerEnds ==
    ASSUME RunnerReturns \/ RunnerRaises
    PROVE  /\ runner' \in RunnerType /\ runner'.attempt = 0
           /\ runner'.at \in {"off", "restarting"}
           /\ RunnerReturns => runner'.at = "off"
<1>1. {"off", "restarting"} \subseteq RunnerPlace
    BY RestingPlaces
<1> QED BY <1>1, FreshRunner DEF RunnerReturns, RunnerRaises

\* A runner that moves on keeps what it carries.
LEMMA RunnerGoes ==
    ASSUME runner \in RunnerType, NEW place \in RunnerPlace, Goto(place)
    PROVE  /\ runner' \in RunnerType /\ runner'.at = place
           /\ runner'.attempt = runner.attempt /\ runner'.kind = runner.kind
BY DEF Goto, RunnerType

\* The bound on faults is kept.
LEMMA FaultBound ==
    ASSUME faults \in 0 .. MaxFaults, Fault \/ NoFault
    PROVE  faults' \in 0 .. MaxFaults
BY PlaneAssumption DEF PlaneAssumption, Fault, NoFault

\* The host as the invariant has it.
LEMMA HostFacts ==
    ASSUME PlaneInv
    PROVE  /\ HostHolds /\ HostTypeOK
           /\ runner \in RunnerType /\ runner.attempt \in Nat
           /\ runner.at \notin {"report", "run"} => child = 0
           /\ NoExit \in [attempt : Nat, kind : ExitKind \cup {"none"}]
BY DEF PlaneInv, HostHolds, HostTypeOK, RunnerType, TypeOK, ProcessHeld, NoExit

\* The runner replays the exit on disk, looks for an attempt of its own and
\* for a launch it may begin.
LEMMA RunnerStarts ==
    ASSUME PlaneInv, Replay \/ Lookup \/ Candidate
    PROVE  HostHolds' /\ RequestHolds' /\ StartupHolds'
<1> USE DEF RunnerPlace
<1>0. /\ HostTypeOK /\ runner \in RunnerType /\ child = 0 /\ child' = 0
      /\ runner.attempt = 0 /\ runner.at \in {"replay", "lookup", "candidate"}
      /\ UNCHANGED <<broker, epoch, request, startup, faults>>
      /\ StoreInv
    BY HostFacts
    DEF Replay, Lookup, Candidate, BrokerUnchanged, PlaneInv, RunnerHolds
<1>1. CASE Replay
    <2>1. /\ runner' \in RunnerType /\ runner'.attempt = 0
          /\ runner'.at \in {"lookup", "off"}
          /\ journal' = NoExit \/ (journal' = journal /\ runner'.at = "off")
        <3>1. /\ Goto("lookup") \/ RunnerReturns
              /\ journal' = NoExit \/ (journal' = journal /\ RunnerReturns)
            BY <1>1 DEF Replay
        <3> QED BY <1>0, <3>1, RunnerEnds, RunnerGoes
    <2>2. \/ UNCHANGED storeVars
          \/ /\ journal # NoExit
             /\ RecordExit(journal.attempt, "runner", journal.kind)
        BY <1>1 DEF Replay
    <2>3. /\ Len(attempts') = Len(attempts) /\ policy'.desired = policy.desired
          /\ sup'.current \in {0, sup.current} /\ sup'.epoch = sup.epoch
        <3>1. CASE UNCHANGED storeVars
            BY <3>1 DEF storeVars
        <3>2. CASE /\ journal # NoExit
                   /\ RecordExit(journal.attempt, "runner", journal.kind)
            BY <1>0, <3>2, PlaneFacts, ExitEffect
        <3> QED BY <2>2, <3>1, <3>2
    <2>4. RunnerHolds' /\ ProcessHeld'
        BY <1>0, <2>1, <2>3, RunnerRests
    <2>5. HostTypeOK'
        BY <1>0, <2>1, HostFacts DEF HostTypeOK
    <2>6. RequestHolds' /\ StartupHolds'
        BY <1>0, <2>1, <2>3, RunnerLeavesOthers
    <2> QED BY <2>4, <2>5, <2>6 DEF HostHolds
<1>2. CASE Lookup
    <2>1. UNCHANGED storeVars /\ UNCHANGED journal /\ journal = NoExit
        BY <1>2 DEF Lookup, PlaneInv, ProcessHeld
    <2>2. HostTypeOK' <=> runner' \in RunnerType
        BY <1>0, <2>1 DEF HostTypeOK
    <2>3. CASE RunnerRaises \/ RunnerReturns \/ Goto("candidate")
        <3>1. /\ runner' \in RunnerType /\ runner'.attempt = 0
              /\ runner'.at \in {"candidate", "off", "restarting"}
            BY <1>0, <2>3, RunnerEnds, RunnerGoes
        <3>2. RunnerHolds' /\ ProcessHeld'
            BY <1>0, <2>1, <3>1, RunnerRests
        <3>3. RequestHolds' /\ StartupHolds'
            BY <1>0, <2>1, <3>1, RunnerLeavesOthers DEF storeVars
        <3> QED BY <2>2, <3>1, <3>2, <3>3 DEF HostHolds
    <2>4. CASE /\ sup.current # 0 /\ attempts[sup.current].state = "running"
               /\ runner' = [Runner("stage") EXCEPT !.attempt = sup.current,
                                                    !.kind = "supervisor_lost"]
        <3>1. /\ runner' \in RunnerType /\ runner'.attempt = sup.current
              /\ runner'.at = "stage" /\ runner'.kind = "supervisor_lost"
            BY <2>4, PlaneFacts, FreshRunner DEF RunnerType, ExitKind
        <3>2. sup.current = Len(attempts)
            BY <2>4, PlaneFacts
        <3>3. RunnerHolds'
            BY <2>1, <2>4, <3>1, <3>2 DEF RunnerHolds, ExitKind, storeVars
        <3>4. ProcessHeld'
            BY <1>0, <2>1 DEF ProcessHeld, NoExit
        <3>5. RequestHolds' /\ StartupHolds'
            BY <1>0, <2>1, <3>1, RunnerLeavesOthers DEF storeVars
        <3> QED BY <2>2, <3>1, <3>3, <3>4, <3>5 DEF HostHolds
    <2> QED BY <1>2, <2>3, <2>4 DEF Lookup
<1>3. CASE Candidate
    <2>1. UNCHANGED storeVars /\ UNCHANGED journal /\ journal = NoExit
        BY <1>3 DEF Candidate, PlaneInv, ProcessHeld
    <2>2. HostTypeOK' <=> runner' \in RunnerType
        BY <1>0, <2>1 DEF HostTypeOK
    <2>3. CASE RunnerRaises \/ RunnerReturns
        <3>1. /\ runner' \in RunnerType /\ runner'.attempt = 0
              /\ runner'.at \in {"off", "restarting"}
            BY <2>3, RunnerEnds
        <3>2. RunnerHolds' /\ ProcessHeld'
            BY <1>0, <2>1, <3>1, RunnerRests
        <3>3. RequestHolds' /\ StartupHolds'
            BY <1>0, <2>1, <3>1, RunnerLeavesOthers DEF storeVars
        <3> QED BY <2>2, <3>1, <3>2, <3>3 DEF HostHolds
    <2>4. CASE runner' = [runner EXCEPT !.at = "begin", !.token = CurrentToken]
        <3>0. CurrentToken \in Token
            BY PlaneFacts DEF CurrentToken, Token, StoreTypeOK
        <3>1. /\ runner' \in RunnerType /\ runner'.attempt = 0
              /\ runner'.at = "begin"
            BY <1>0, <2>4, <3>0 DEF RunnerType
        <3>3. RunnerHolds' /\ ProcessHeld'
            BY <1>0, <2>1, <3>1 DEF RunnerHolds, ProcessHeld, NoExit
        <3>5. RequestHolds' /\ StartupHolds'
            BY <1>0, <2>1, <3>1, RunnerLeavesOthers DEF storeVars
        <3> QED BY <2>2, <3>1, <3>3, <3>5 DEF HostHolds
    <2> QED BY <1>3, <2>3, <2>4 DEF Candidate
<1> QED BY <1>1, <1>2, <1>3

\* A reservation is the newest attempt.
LEMMA BeginEffect ==
    ASSUME StoreInv, NEW t, BeginAttempt(t)
    PROVE  /\ Len(attempts') = Len(attempts) + 1
           /\ attempts'[Len(attempts) + 1].state = "reserved"
           /\ sup'.current = Len(attempts) + 1 /\ sup'.epoch = sup.epoch
           /\ UNCHANGED policy
<1> DEFINE r == [token |-> t, state |-> "reserved", kind |-> "none",
                 by |-> "none", class |-> "none", counts |-> FALSE,
                 recent |-> FALSE, restart |-> FALSE]
<1>1. /\ StoreTypeOK /\ attempts' = Append(attempts, r) /\ UNCHANGED policy
      /\ sup' = [sup EXCEPT !.state = "launching", !.current = Len(attempts) + 1]
    BY DEF StoreInv, BeginAttempt
<1>2. r.state = "reserved"
    OBVIOUS
<1> HIDE DEF r
<1>3. attempts \in Seq(Attempt)
    BY <1>1 DEF StoreTypeOK
<1>4. Len(attempts') = Len(attempts) + 1 /\ attempts'[Len(attempts) + 1] = r
    BY <1>1, <1>3
<1>5. sup'.current = Len(attempts) + 1 /\ sup'.epoch = sup.epoch
    BY <1>1 DEF StoreTypeOK
<1> QED BY <1>1, <1>2, <1>4, <1>5

\* The report of a launch leaves the attempt running, or closed as a launch
\* that failed.
LEMMA ReportEffect ==
    ASSUME StoreInv, NEW a \in DOMAIN attempts, MarkLaunched(a) \/ FenceLaunch(a)
    PROVE  /\ Len(attempts') = Len(attempts) /\ UNCHANGED policy
           /\ sup'.current \in {0, sup.current} /\ sup'.epoch = sup.epoch
           /\ MarkLaunched(a) => attempts'[a].state = "running"
           /\ FenceLaunch(a) => attempts'[a].kind = "launch_failure"
<1>1. StoreTypeOK /\ attempts \in Seq(Attempt)
    BY DEF StoreInv, StoreTypeOK
<1>2. attempts[a] \in Attempt
    BY <1>1, AttemptTyped
<1>3. CASE MarkLaunched(a)
    <2>1. /\ attempts' = [attempts EXCEPT ![a].state = "running"]
          /\ sup' = [sup EXCEPT !.state = "running"] /\ UNCHANGED policy
        BY <1>3 DEF MarkLaunched
    <2>2. ~FenceLaunch(a)
        BY <1>3 DEF MarkLaunched, FenceLaunch
    <2>3. Len(attempts') = Len(attempts)
        BY <1>1, <2>1
    <2>4. attempts'[a].state = "running"
        BY <1>1, <1>2, <2>1 DEF Attempt
    <2>5. sup'.current = sup.current /\ sup'.epoch = sup.epoch
        BY <1>1, <2>1 DEF StoreTypeOK
    <2> QED BY <2>1, <2>2, <2>3, <2>4, <2>5
<1>4. CASE FenceLaunch(a)
    <2> DEFINE r == [attempts[a] EXCEPT
                        !.state = "exited", !.kind = "launch_failure",
                        !.by = "manager",
                        !.class = IF policy.desired # "running"
                                  THEN "intentional" ELSE "fenced"]
    <2>1. /\ attempts' = [attempts EXCEPT ![a] = r] /\ UNCHANGED policy
          /\ \/ sup' = [sup EXCEPT !.state = "fenced", !.current = 0]
             \/ sup' = sup
        BY <1>4 DEF FenceLaunch
    <2>2. ~MarkLaunched(a)
        BY <1>4 DEF MarkLaunched, FenceLaunch
    <2>3. r.kind = "launch_failure"
        BY <1>2 DEF Attempt
    <2> HIDE DEF r
    <2>4. Len(attempts') = Len(attempts) /\ attempts'[a] = r
        BY <1>1, <2>1
    <2>5. sup'.current \in {0, sup.current} /\ sup'.epoch = sup.epoch
        BY <1>1, <2>1 DEF StoreTypeOK
    <2> QED BY <2>1, <2>2, <2>3, <2>4, <2>5
<1> QED BY <1>3, <1>4

\* The runner reserves an attempt, spawns its process and reports it; the
\* process lives under the newest attempt all along.
LEMMA RunnerLaunches ==
    ASSUME PlaneInv, Begin \/ Spawn \/ Report
    PROVE  HostHolds' /\ RequestHolds' /\ StartupHolds'
<1> USE DEF RunnerPlace
<1>0. /\ HostTypeOK /\ runner \in RunnerType /\ runner.attempt \in Nat
      /\ runner.at \in {"begin", "spawn", "report"}
      /\ runner.at \in {"begin", "spawn"} => child = 0
      /\ UNCHANGED <<broker, epoch, request, startup, journal>>
      /\ journal = NoExit
      /\ StoreInv /\ RunnerHolds /\ ProcessHeld
    BY HostFacts
    DEF Begin, Spawn, Report, BrokerUnchanged, PlaneInv, ProcessHeld
<1>a. Len(attempts) \in Nat
    BY PlaneFacts
<1>t. HostTypeOK' <=> runner' \in RunnerType /\ child' \in Nat
                      /\ faults' \in 0 .. MaxFaults
    BY <1>0 DEF HostTypeOK
<1>u. ASSUME NEW n \in Nat, Unanswered(n)
      PROVE  /\ runner' \in RunnerType /\ runner'.at = runner.at
             /\ runner'.attempt = n /\ faults' \in 0 .. MaxFaults
    BY <1>0, <1>u, FaultBound DEF Unanswered, RunnerType, HostTypeOK
<1>v. ASSUME NEW place \in RunnerPlace, Answered(place)
      PROVE  /\ runner' \in RunnerType /\ runner'.at = place
             /\ runner'.attempt = runner.attempt
    BY <1>0, <1>v DEF Answered, RunnerType
<1>p. ASSUME child' \in {0, child}, runner'.attempt = runner.attempt,
             runner'.at \in {"report", "run"} \/ child' = 0
      PROVE  ProcessHeld'
    BY <1>0, <1>p DEF ProcessHeld, NoExit
<1>1. CASE Begin
    <2>0. runner.at = "begin" /\ child = 0 /\ child' = 0
        BY <1>0, <1>1 DEF Begin
    <2>1. CASE BeginAttempt(runner.token)
               /\ \/ NoFault /\ runner' = [runner EXCEPT !.attempt = Len(attempts'),
                                                          !.at = "spawn"]
                  \/ Unanswered(Len(attempts'))
        <3>1. /\ Len(attempts') = Len(attempts) + 1 /\ Len(attempts') \in Nat
              /\ attempts'[Len(attempts')].state = "reserved"
              /\ sup'.current = Len(attempts) + 1 /\ sup'.epoch = sup.epoch
              /\ UNCHANGED policy
            BY <1>0, <1>a, <2>1, BeginEffect
        <3>2. /\ runner' \in RunnerType /\ runner'.attempt = Len(attempts')
              /\ runner'.at \in {"begin", "spawn"} /\ faults' \in 0 .. MaxFaults
            <4>1. CASE Unanswered(Len(attempts'))
                BY <1>u, <2>0, <3>1, <4>1
            <4>2. CASE NoFault /\ runner' = [runner EXCEPT
                                    !.attempt = Len(attempts'), !.at = "spawn"]
                BY <1>0, <3>1, <4>2, FaultBound DEF RunnerType, HostTypeOK
            <4> QED BY <2>1, <4>1, <4>2
        <3>3. Len(attempts') # 0
            BY <1>a, <3>1
        <3>4. RunnerHolds'
            BY <3>1, <3>2, <3>3 DEF RunnerHolds
        <3>5. ProcessHeld'
            BY <1>0, <2>0 DEF ProcessHeld, NoExit
        <3>6. RequestHolds' /\ StartupHolds'
            BY <1>0, <2>0, <3>1, RunnerLeavesOthers
        <3> QED BY <1>t, <2>0, <3>2, <3>4, <3>5, <3>6 DEF HostHolds
    <2>2. CASE RunnerReturns /\ UNCHANGED <<storeVars, faults>>
        <3>1. /\ runner' \in RunnerType /\ runner'.attempt = 0
              /\ runner'.at = "off"
            BY <2>2, RunnerEnds
        <3>2. RunnerHolds' /\ ProcessHeld'
            BY <1>0, <2>0, <3>1, RunnerRests
        <3>3. RequestHolds' /\ StartupHolds'
            BY <1>0, <2>0, <2>2, <3>1, RunnerLeavesOthers DEF storeVars
        <3> QED BY <1>0, <1>t, <2>0, <2>2, <3>1, <3>2, <3>3
                DEF HostHolds, HostTypeOK
    <2>3. CASE /\ runner.attempt # 0 /\ Answered("spawn")
               /\ UNCHANGED <<storeVars, faults>>
        <3>1. /\ runner' \in RunnerType /\ runner'.attempt = runner.attempt
              /\ runner'.at = "spawn"
            BY <1>v, <2>3
        <3>2. RunnerHolds'
            BY <1>0, <2>0, <2>3, <3>1 DEF RunnerHolds, storeVars
        <3>3. ProcessHeld'
            BY <1>p, <2>0, <3>1
        <3>4. RequestHolds' /\ StartupHolds'
            BY <1>0, <2>0, <2>3, RunnerLeavesOthers DEF storeVars
        <3> QED BY <1>0, <1>t, <2>0, <2>3, <3>1, <3>2, <3>3, <3>4
                DEF HostHolds, HostTypeOK
    <2> QED BY <1>1, <2>1, <2>2, <2>3 DEF Begin
<1>2. CASE Spawn
    <2>0. /\ runner.at = "spawn" /\ child = 0 /\ UNCHANGED storeVars
          /\ UNCHANGED faults /\ runner.attempt # 0
          /\ attempts[runner.attempt].state = "reserved"
        BY <1>0, <1>2 DEF Spawn, RunnerHolds
    <2>1. /\ runner' \in RunnerType /\ runner'.attempt = runner.attempt
          /\ \/ runner'.at = "report" /\ child' = runner.attempt
             \/ /\ runner'.at = "stage" /\ runner'.kind = "launch_failure"
                /\ child' = 0
        <3>1. CASE child' = runner.attempt /\ Goto("report")
            BY <1>0, <3>1, RunnerGoes
        <3>2. CASE /\ runner' = [runner EXCEPT !.at = "stage",
                                               !.kind = "launch_failure"]
                   /\ UNCHANGED child
            BY <1>0, <2>0, <3>2 DEF RunnerType, ExitKind
        <3> QED BY <1>2, <3>1, <3>2 DEF Spawn
    <2>2. RunnerHolds'
        BY <1>0, <2>0, <2>1 DEF RunnerHolds, storeVars, ExitKind
    <2>3. ProcessHeld'
        BY <1>0, <2>1 DEF ProcessHeld, NoExit
    <2>4. RequestHolds' /\ StartupHolds'
        BY <1>0, <2>0, RunnerLeavesOthers DEF storeVars
    <2> QED BY <1>0, <1>t, <2>0, <2>1, <2>2, <2>3, <2>4 DEF HostHolds, HostTypeOK
<1>3. CASE Report
    <2> DEFINE a == runner.attempt
    <2>0. /\ runner.at = "report" /\ a # 0 /\ a \in DOMAIN attempts
          /\ a = Len(attempts) /\ child \in Nat
          /\ attempts[a].state # "exited" \/ attempts[a].kind = "launch_failure"
        BY <1>0, <1>3, PlaneFacts DEF Report, RunnerHolds, HostTypeOK
    <2>1. ASSUME Len(attempts') = Len(attempts), UNCHANGED policy,
                 sup'.current \in {0, sup.current}, sup'.epoch = sup.epoch
          PROVE  RequestHolds' /\ StartupHolds'
        BY <1>0, <2>0, <2>1, RunnerLeavesOthers
    <2>2. CASE /\ MarkLaunched(a) /\ UNCHANGED child
               /\ (NoFault /\ Goto("run")) \/ Unanswered(a)
        <3>1. /\ Len(attempts') = Len(attempts) /\ UNCHANGED policy
              /\ sup'.current \in {0, sup.current} /\ sup'.epoch = sup.epoch
              /\ attempts'[a].state = "running"
            BY <1>0, <2>0, <2>2, ReportEffect
        <3>2. /\ runner' \in RunnerType /\ runner'.attempt = a
              /\ runner'.at \in {"run", "report"} /\ faults' \in 0 .. MaxFaults
            BY <1>0, <1>u, <2>0, <2>2, RunnerGoes, FaultBound DEF HostTypeOK
        <3>3. RunnerHolds'
            BY <2>0, <3>1, <3>2 DEF RunnerHolds
        <3>4. ProcessHeld'
            BY <1>p, <2>2, <3>2
        <3> QED BY <1>t, <2>0, <2>1, <2>2, <3>1, <3>2, <3>3, <3>4 DEF HostHolds
    <2>3. CASE /\ FenceLaunch(a)
               /\ \/ NoFault /\ LaunchRefused
                  \/ Unanswered(a) /\ UNCHANGED child
        <3>1. /\ Len(attempts') = Len(attempts) /\ UNCHANGED policy
              /\ sup'.current \in {0, sup.current} /\ sup'.epoch = sup.epoch
              /\ attempts'[a].kind = "launch_failure"
            BY <1>0, <2>0, <2>3, ReportEffect
        <3>2. CASE NoFault /\ LaunchRefused
            <4>1. /\ runner' \in RunnerType /\ runner'.attempt = 0
                  /\ runner'.at = "off" /\ child' = 0
                  /\ faults' \in 0 .. MaxFaults
                BY <1>0, <3>2, RunnerEnds, FaultBound DEF LaunchRefused, HostTypeOK
            <4>2. RunnerHolds' /\ ProcessHeld'
                BY <1>0, <4>1, RunnerRests
            <4> QED BY <1>t, <2>1, <3>1, <4>1, <4>2 DEF HostHolds
        <3>3. CASE Unanswered(a) /\ UNCHANGED child
            <4>1. /\ runner' \in RunnerType /\ runner'.attempt = a
                  /\ runner'.at = "report" /\ faults' \in 0 .. MaxFaults
                BY <1>0, <1>u, <2>0, <3>3
            <4>2. RunnerHolds'
                BY <2>0, <3>1, <4>1 DEF RunnerHolds
            <4>3. ProcessHeld'
                BY <1>p, <3>3, <4>1
            <4> QED BY <1>t, <2>0, <2>1, <3>1, <3>3, <4>1, <4>2, <4>3 DEF HostHolds
        <3> QED BY <2>3, <3>2, <3>3
    <2>4. CASE /\ attempts[a].state = "running"
               /\ Answered("run") /\ UNCHANGED <<storeVars, child, faults>>
        <3>1. /\ runner' \in RunnerType /\ runner'.attempt = a
              /\ runner'.at = "run"
            BY <1>v, <2>4
        <3>2. RunnerHolds'
            BY <2>0, <2>4, <3>1 DEF RunnerHolds, storeVars
        <3>3. ProcessHeld'
            BY <1>p, <2>4, <3>1
        <3> QED BY <1>0, <1>t, <2>0, <2>1, <2>4, <3>1, <3>2, <3>3
                DEF HostHolds, HostTypeOK, storeVars
    <2>5. CASE LaunchRefused /\ UNCHANGED <<storeVars, faults>>
        <3>1. /\ runner' \in RunnerType /\ runner'.attempt = 0
              /\ runner'.at = "off" /\ child' = 0
            BY <2>5, RunnerEnds DEF LaunchRefused
        <3>2. RunnerHolds' /\ ProcessHeld'
            BY <1>0, <3>1, RunnerRests
        <3> QED BY <1>0, <1>t, <2>1, <2>5, <3>1, <3>2
                DEF HostHolds, HostTypeOK, storeVars
    <2>6. CASE LaunchFails /\ UNCHANGED <<storeVars, faults>>
        <3>1. /\ runner' \in RunnerType /\ runner'.attempt = a
              /\ runner'.at = "stage" /\ runner'.kind = "launch_failure"
              /\ child' = 0
            BY <1>0, <2>6 DEF LaunchFails, RunnerType, ExitKind
        <3>2. RunnerHolds'
            BY <2>0, <2>6, <3>1 DEF RunnerHolds, storeVars, ExitKind
        <3>3. ProcessHeld'
            BY <1>p, <3>1
        <3> QED BY <1>0, <1>t, <2>1, <2>6, <3>1, <3>2, <3>3
                DEF HostHolds, HostTypeOK, storeVars
    <2> QED BY <1>3, <2>0, <2>2, <2>3, <2>4, <2>5, <2>6 DEF Report
<1> QED BY <1>1, <1>2, <1>3

\* The runner waits for its process, stages the exit and has it recorded; the
\* exit stays on disk until it is acknowledged.
LEMMA RunnerFinishes ==
    ASSUME PlaneInv, Wait \/ Stage \/ Persist
    PROVE  HostHolds' /\ RequestHolds' /\ StartupHolds'
<1> USE DEF RunnerPlace
<1>0. /\ HostTypeOK /\ runner \in RunnerType /\ child = 0 /\ child' = 0
      /\ runner.attempt \in Nat
      /\ runner.at \in {"run", "stage", "persist"}
      /\ UNCHANGED <<broker, epoch, request, startup>>
      /\ StoreInv /\ RunnerHolds /\ ProcessHeld
    BY HostFacts DEF Wait, Stage, Persist, BrokerUnchanged, PlaneInv
<1>1. /\ runner.attempt # 0 /\ runner.attempt = Len(attempts)
      /\ Len(attempts) \in Nat
    BY <1>0, PlaneFacts DEF RunnerHolds
<1>2. CASE Wait
    <2>1. /\ runner' \in RunnerType /\ runner'.attempt = runner.attempt
          /\ runner'.at = "stage" /\ runner'.kind = "exit"
          /\ UNCHANGED <<storeVars, journal, faults>> /\ journal = NoExit
        BY <1>0, <1>2 DEF Wait, RunnerType, ExitKind, ProcessHeld
    <2>2. RunnerHolds'
        BY <1>1, <2>1 DEF RunnerHolds, storeVars, ExitKind
    <2>3. ProcessHeld'
        BY <1>0, <2>1 DEF ProcessHeld, NoExit
    <2>4. RequestHolds' /\ StartupHolds'
        BY <1>0, <2>1, RunnerLeavesOthers DEF storeVars
    <2> QED BY <1>0, <2>1, <2>2, <2>3, <2>4 DEF HostHolds, HostTypeOK
<1>3. CASE Stage
    <2>0. runner.kind \in ExitKind
        BY <1>0, <1>3 DEF Stage, RunnerHolds
    <2>1. /\ runner' \in RunnerType /\ runner'.attempt = runner.attempt
          /\ runner'.at = "persist" /\ UNCHANGED <<storeVars, faults>>
          /\ journal' = [attempt |-> runner.attempt, kind |-> runner.kind]
        BY <1>0, <1>3, RunnerGoes DEF Stage
    <2>2. /\ journal' \in [attempt : Nat, kind : ExitKind \cup {"none"}]
          /\ journal'.attempt = runner.attempt /\ journal'.kind = runner.kind
          /\ journal' # NoExit
        BY <1>0, <1>1, <2>0, <2>1 DEF NoExit
    <2>3. RunnerHolds'
        BY <1>1, <2>1, <2>2 DEF RunnerHolds, storeVars, NoExit
    <2>4. ProcessHeld'
        BY <1>0, <1>1, <2>0, <2>1, <2>2 DEF ProcessHeld, NoExit, storeVars
    <2>5. RequestHolds' /\ StartupHolds'
        BY <1>0, <2>1, RunnerLeavesOthers DEF storeVars
    <2> QED BY <1>0, <2>1, <2>2, <2>3, <2>4, <2>5 DEF HostHolds, HostTypeOK
<1>4. CASE Persist
    <2>0. /\ runner.at = "persist" /\ journal # NoExit
          /\ journal.attempt \in DOMAIN attempts
        BY <1>0, <1>4, PlaneFacts DEF Persist, RunnerHolds
    <2>1. /\ Len(attempts') = Len(attempts) /\ policy'.desired = policy.desired
          /\ sup'.current \in {0, sup.current} /\ sup'.epoch = sup.epoch
        <3>1. CASE UNCHANGED storeVars
            BY <3>1 DEF storeVars
        <3>2. CASE RecordExit(journal.attempt, "runner", journal.kind)
            BY <1>0, <2>0, <3>2, ExitEffect
        <3> QED BY <1>4, <3>1, <3>2 DEF Persist
    <2>2. \/ /\ journal' = NoExit /\ \E restart : Continue(restart)
          \/ UNCHANGED <<runner, journal>>
          \/ RunnerRaises /\ UNCHANGED journal
        BY <1>4 DEF Persist, Acknowledge
    <2>3. faults' \in 0 .. MaxFaults
        BY <1>0, <1>4, FaultBound DEF Persist, HostTypeOK, NoFault
    <2>4. CASE journal' = NoExit /\ \E restart : Continue(restart)
        <3>1. /\ runner' \in RunnerType /\ runner'.attempt = 0
              /\ runner'.at \in {"candidate", "off"}
            BY <2>4, FreshRunner DEF Continue, RunnerReturns
        <3>2. RunnerHolds' /\ ProcessHeld'
            BY <1>0, <2>4, <3>1, RunnerRests
        <3>3. RequestHolds' /\ StartupHolds'
            BY <1>0, <2>1, <3>1, RunnerLeavesOthers
        <3> QED BY <1>0, <2>3, <2>4, <3>1, <3>2, <3>3, HostFacts
                DEF HostHolds, HostTypeOK
    <2>5. CASE UNCHANGED <<runner, journal>>
        <3>1. RunnerHolds' /\ ProcessHeld'
            BY <1>0, <2>0, <2>1, <2>5, RunnerStays
        <3>2. RequestHolds' /\ StartupHolds'
            BY <1>0, <2>0, <2>1, <2>5, RunnerLeavesOthers
        <3> QED BY <1>0, <2>3, <2>5, <3>1, <3>2 DEF HostHolds, HostTypeOK
    <2>6. CASE RunnerRaises /\ UNCHANGED journal
        <3>1. /\ runner' \in RunnerType /\ runner'.attempt = 0
              /\ runner'.at \in {"off", "restarting"}
            BY <2>6, RunnerEnds
        <3>2. RunnerHolds' /\ ProcessHeld'
            BY <1>0, <2>1, <2>6, <3>1, RunnerRests
        <3>3. RequestHolds' /\ StartupHolds'
            BY <1>0, <2>1, <3>1, RunnerLeavesOthers
        <3> QED BY <1>0, <2>3, <2>6, <3>1, <3>2, <3>3 DEF HostHolds, HostTypeOK
    <2> QED BY <2>2, <2>4, <2>5, <2>6
<1> QED BY <1>2, <1>3, <1>4

\* The unit is killed, crashes or restarts, and its process exits, whatever
\* the runner was doing.
LEMMA UnitKeepsPlane ==
    ASSUME PlaneInv, UnitKilled \/ RunnerCrash \/ UnitRestarts \/ ChildExits
    PROVE  HostHolds' /\ RequestHolds' /\ StartupHolds'
<1>0. /\ HostTypeOK /\ RequestHolds /\ StartupHolds
      /\ UNCHANGED <<broker, epoch, request, startup, journal, storeVars>>
      /\ faults' \in 0 .. MaxFaults
    BY HostFacts, FaultBound
    DEF UnitKilled, RunnerCrash, UnitRestarts, ChildExits, PlaneInv, NoFault,
        HostTypeOK
<1>1. CASE ~ChildExits
    <2>1. /\ runner' \in RunnerType /\ runner'.attempt = 0 /\ child' = 0
          /\ runner'.at \in {"off", "restarting", "replay"}
          /\ runner.at = "off" => runner'.at = "off"
        <3>1. CASE UnitKilled \/ RunnerCrash
            BY <3>1, RunnerEnds DEF UnitKilled, RunnerCrash
        <3>2. CASE UnitRestarts
            <4>1. /\ runner.at = "restarting" /\ runner' = Runner("replay")
                  /\ child = 0 /\ child' = child
                BY <3>2, HostFacts DEF UnitRestarts
            <4> QED BY <4>1, FreshRunner DEF RunnerPlace
        <3> QED BY <1>1, <3>1, <3>2
    <2>2. RunnerHolds' /\ ProcessHeld'
        BY <1>0, <2>1, RunnerRests DEF storeVars
    <2>3. RequestHolds' /\ StartupHolds'
        BY <1>0, <2>1 DEF RequestHolds, StartupHolds, storeVars, Idle
    <2> QED BY <1>0, <2>1, <2>2, <2>3 DEF HostHolds, HostTypeOK
<1>2. CASE ChildExits
    <2>1. child' = 0 /\ UNCHANGED runner
        BY <1>2 DEF ChildExits
    <2>2. RunnerHolds' /\ ProcessHeld'
        BY <1>0, <2>1, RunnerStays DEF storeVars
    <2>3. RequestHolds' /\ StartupHolds'
        BY <1>0, <2>1 DEF RequestHolds, StartupHolds, storeVars, Idle
    <2> QED BY <1>0, <2>1, <2>2, <2>3 DEF HostHolds, HostTypeOK
<1> QED BY <1>1, <1>2

\* A signal ends a runner that has not installed its handlers, and leaves
\* any other where it is.
LEMMA SignalEffect ==
    ASSUME PlaneInv, SignalUnit
    PROVE  /\ runner' \in RunnerType
           /\ runner.at = "off" => runner'.at = "off"
           /\ \/ runner'.at = "off" /\ runner'.attempt = 0 /\ child = 0
              \/ /\ runner'.at = runner.at /\ runner'.attempt = runner.attempt
                 /\ runner'.kind = runner.kind
<1>1. runner \in RunnerType /\ (runner.at \notin {"report", "run"} => child = 0)
    BY HostFacts
<1>2. CASE RunnerReturns /\ runner.at \in {"off", "restarting", "replay", "lookup"}
    BY <1>1, <1>2, RunnerEnds
<1>3. CASE /\ runner' = [runner EXCEPT !.signal = TRUE]
           /\ runner.at \notin {"off", "restarting", "replay", "lookup"}
    BY <1>1, <1>3 DEF RunnerType
<1> QED BY <1>2, <1>3 DEF SignalUnit

\* What a step of the broker process leaves of the host: the runner where it
\* is, or ended without a process; its attempt closed only if the runner is
\* not launching or running it.
LEMMA HostLeft ==
    ASSUME PlaneInv, UNCHANGED <<child, journal>>, Len(attempts') = Len(attempts),
           faults' \in 0 .. MaxFaults, runner' \in RunnerType,
           \/ /\ runner'.at \in {"off", "replay"} /\ runner'.attempt = 0 /\ child = 0
           \/ /\ runner'.at = runner.at /\ runner'.attempt = runner.attempt
              /\ runner'.kind = runner.kind
              /\ \/ UNCHANGED attempts
                 \/ runner.attempt = 0 \/ runner.at \in {"stage", "persist"}
    PROVE  HostHolds'
<1>1. HostTypeOK'
    BY HostFacts DEF HostTypeOK
<1>2. RunnerHolds' /\ ProcessHeld'
    <2>1. CASE /\ runner'.at \in {"off", "replay"} /\ runner'.attempt = 0
               /\ child = 0
        BY <2>1, RunnerRests
    <2>2. CASE /\ runner'.at = runner.at /\ runner'.attempt = runner.attempt
               /\ runner'.kind = runner.kind
               /\ \/ UNCHANGED attempts
                  \/ runner.attempt = 0 \/ runner.at \in {"stage", "persist"}
        BY <2>2, RunnerStays
    <2> QED BY <2>1, <2>2
<1> QED BY <1>1, <1>2 DEF HostHolds

RequestType ==
    [at : RequestPlace, generation : Nat, keep : BOOLEAN, rearm : BOOLEAN]

\* Lifecycle requests: the stop settles an attempt only after the unit is
\* gone, under a policy that keeps it gone.
LEMMA RequestsKeepPlane ==
    ASSUME PlaneInv, StoreTypeOK', StartRequested \/ StopRequested \/ RequestStep
    PROVE  HostHolds' /\ request' \in RequestType /\ RequestHolds' /\ StartupHolds'
<1>0. /\ request \in RequestType /\ RequestHolds /\ StartupHolds /\ StoreTypeOK
      /\ runner \in RunnerType /\ faults \in 0 .. MaxFaults /\ StoreInv
      /\ policy.generation \in Nat /\ policy'.generation \in Nat
    BY HostFacts
    DEF PlaneInv, TypeOK, RequestType, HostTypeOK, StoreTypeOK
<1>1. /\ broker \notin {"down", "starting"}
      /\ UNCHANGED <<broker, epoch, startup, child, journal>>
    <2>1. request.at = "idle" => broker = "serving"
        BY DEF StartRequested, StopRequested, RequestStep, Configure, Start,
            EnsureEpoch, Launch, Stop, Signal, Await, Settle, Confirm, NoRequest
    <2>2. broker \in {"down", "starting"} => request.at = "idle"
        BY <1>0 DEF RequestHolds, Idle
    <2>3. UNCHANGED <<broker, epoch, startup, child, journal>>
        BY DEF StartRequested, StopRequested, RequestStep, Configure, Start,
            EnsureEpoch, Launch, Stop, Signal, Await, Settle, Confirm,
            OutsideRequest
    <2> QED BY <2>1, <2>2, <2>3
<1>s. ASSUME Len(attempts') = Len(attempts), sup'.current \in {0, sup.current},
             \/ runner'.attempt = 0
             \/ runner'.at = runner.at /\ runner'.attempt = runner.attempt
      PROVE  StartupHolds'
    BY <1>0, <1>1, <1>s DEF StartupHolds
<1>r. ASSUME sup'.epoch \in {sup.epoch, epoch},
             request'.at = "settle" => runner'.at = "off",
             request'.at \in {"signal", "await", "settle", "confirm"} =>
                policy'.desired = "stopped"
      PROVE  RequestHolds'
    <2>1. sup'.epoch <= epoch'
        BY <1>0, <1>1, <1>r, PlaneFacts DEF RequestHolds
    <2> QED BY <1>0, <1>1, <1>r, <2>1 DEF RequestHolds, Idle
<1>i. ASSUME RequestEnds PROVE request' \in RequestType /\ request'.at = "idle"
    BY <1>i DEF RequestEnds, Idle, RequestType, RequestPlace
<1>g. ASSUME NEW place \in RequestPlace, RequestAt(place)
      PROVE  request' \in RequestType /\ request'.at = place
    BY <1>0, <1>g DEF RequestAt, RequestType
<1>f. UNCHANGED faults => faults' \in 0 .. MaxFaults
    BY <1>0
\* the requests that change neither the runner nor, but for its policy and
\* supervisor rows, the store
<1>q. ASSUME UNCHANGED <<runner, attempts, faults>>, request' \in RequestType,
             sup'.current \in {0, sup.current}, sup'.epoch \in {sup.epoch, epoch},
             request'.at = "settle" => runner.at = "off",
             request'.at \in {"signal", "await", "settle", "confirm"} =>
                policy'.desired = "stopped"
      PROVE  HostHolds' /\ request' \in RequestType /\ RequestHolds'
             /\ StartupHolds'
    <2>1. HostHolds'
        BY <1>0, <1>1, <1>q, HostLeft
    <2> QED BY <1>q, <1>r, <1>s, <2>1
<1>2. CASE StartRequested
    <2>1. UNCHANGED <<storeVars, runner, faults>>
        BY <1>2 DEF StartRequested
    <2>2. request' \in RequestType /\ request'.at \in {"start", "configure"}
        BY <1>0, <1>2 DEF StartRequested, RequestType, RequestPlace
    <2> QED BY <1>q, <2>1, <2>2 DEF storeVars
<1>3. CASE StopRequested
    <2>1. UNCHANGED <<storeVars, runner, faults>>
        BY <1>3 DEF StopRequested
    <2>2. request' \in RequestType /\ request'.at = "stop"
        BY <1>0, <1>3 DEF StopRequested, RequestType, RequestPlace, Idle
    <2> QED BY <1>q, <2>1, <2>2 DEF storeVars
<1>4. CASE Configure
    <2>1. UNCHANGED <<attempts, runner, faults>>
        BY <1>4 DEF Configure, ConfigurePolicy, storeVars
    <2>2. request' \in RequestType /\ request'.at \in {"start", "idle"}
        <3>1. CASE request' = [request EXCEPT !.at = "start",
                                              !.generation = policy'.generation]
            BY <1>0, <3>1 DEF RequestType, RequestPlace
        <3>2. CASE RequestEnds
            BY <1>i, <3>2
        <3> QED BY <1>4, <3>1, <3>2 DEF Configure
    <2>3. sup'.current = sup.current /\ sup'.epoch = sup.epoch
        <3>1. sup' = sup \/ sup' = [sup EXCEPT !.state = RestingState(policy')]
            BY <1>4 DEF Configure, ConfigurePolicy, storeVars
        <3> QED BY <1>0, <3>1 DEF StoreTypeOK
    <2> QED BY <1>q, <2>1, <2>2, <2>3
<1>5. CASE Start
    <2>1. UNCHANGED <<attempts, runner, faults>>
        BY <1>5 DEF Start, RequestStart, storeVars
    <2>2. request' \in RequestType /\ request'.at \in {"epoch", "idle"}
        BY <1>5, <1>i, <1>g DEF Start, RequestPlace
    <2>3. sup'.current \in {0, sup.current} /\ sup'.epoch = sup.epoch
        <3>1. sup' = sup \/ sup' = [sup EXCEPT !.state = "idle", !.current = 0]
            BY <1>5 DEF Start, RequestStart, storeVars
        <3> QED BY <1>0, <3>1 DEF StoreTypeOK
    <2> QED BY <1>q, <2>1, <2>2, <2>3
<1>6. CASE EnsureEpoch
    <2>1. UNCHANGED <<attempts, runner, faults>>
        BY <1>6 DEF EnsureEpoch, FenceStartup, storeVars
    <2>2. request' \in RequestType /\ request'.at = "launch"
        BY <1>6, <1>g DEF EnsureEpoch, RequestPlace
    <2>3. sup'.current = sup.current /\ sup'.epoch \in {sup.epoch, epoch}
        <3>1. \/ sup' = sup
              \/ \E x : sup' = [sup EXCEPT !.state = x, !.epoch = epoch,
                                           !.generation = @ + 1]
            BY <1>6 DEF EnsureEpoch, FenceStartup, storeVars
        <3> QED BY <1>0, <3>1 DEF StoreTypeOK
    <2> QED BY <1>q, <2>1, <2>2, <2>3
<1>7. CASE Launch
    <2>1. UNCHANGED storeVars /\ faults' \in 0 .. MaxFaults
        BY <1>0, <1>7, FaultBound DEF Launch
    <2>2. request' \in RequestType /\ request'.at = "idle"
        BY <1>7, <1>i DEF Launch
    <2>3. CASE runner' = runner
        <3>1. HostHolds'
            BY <1>0, <1>1, <2>1, <2>3, HostLeft DEF storeVars
        <3> QED BY <1>r, <1>s, <2>1, <2>2, <2>3, <3>1 DEF storeVars
    <2>4. CASE runner.at = "off" /\ runner' = Runner("replay")
        <3>1. /\ runner' \in RunnerType /\ runner'.at = "replay"
              /\ runner'.attempt = 0 /\ child = 0
            BY <2>4, FreshRunner, RestingPlaces, HostFacts
        <3>2. HostHolds'
            BY <1>0, <1>1, <2>1, <3>1, HostLeft DEF storeVars
        <3> QED BY <1>r, <1>s, <2>1, <2>2, <3>1, <3>2 DEF storeVars
    <2> QED BY <1>7, <2>3, <2>4 DEF Launch, UnitActive
<1>8. CASE Stop
    <2>1. UNCHANGED <<attempts, runner, faults>>
        BY <1>8 DEF Stop, RequestStop, storeVars
    <2>2. /\ request' \in RequestType
          /\ \/ request'.at = "idle"
             \/ request'.at = "signal" /\ RequestStop(request.generation)
        BY <1>8, <1>i, <1>g DEF Stop, RequestPlace
    <2>3. sup'.current = sup.current /\ sup'.epoch = sup.epoch
        <3>1. sup' = sup \/ \E x : sup' = [sup EXCEPT !.state = x]
            BY <1>8 DEF Stop, RequestStop, storeVars
        <3> QED BY <1>0, <3>1 DEF StoreTypeOK
    <2>4. ASSUME RequestStop(request.generation) PROVE policy'.desired = "stopped"
        <3>1. \/ StopUnchanged /\ policy' = policy
              \/ policy' = [policy EXCEPT !.desired = "stopped",
                                          !.generation = @ + 1]
            BY <2>4 DEF RequestStop, storeVars
        <3> QED BY <1>0, <3>1 DEF StopUnchanged, StoreTypeOK
    <2> QED BY <1>q, <2>1, <2>2, <2>3, <2>4
<1>9. CASE Signal
    <2>1. /\ UNCHANGED storeVars /\ policy.desired = "stopped"
          /\ faults' \in 0 .. MaxFaults
        BY <1>0, <1>9, FaultBound DEF Signal, RequestHolds
    <2>2. CASE SignalUnit /\ RequestAt("await")
        <3>1. request' \in RequestType /\ request'.at = "await"
            BY <1>g, <2>2 DEF RequestPlace
        <3>2. HostHolds'
            BY <1>1, <2>1, <2>2, SignalEffect, HostLeft DEF storeVars
        <3> QED BY <1>r, <1>s, <2>1, <2>2, <3>1, <3>2, SignalEffect DEF storeVars
    <2>3. CASE UNCHANGED runner /\ RequestFails
        <3>1. request' \in RequestType /\ request'.at = "failed"
            BY <2>3 DEF RequestFails, Idle, RequestType, RequestPlace
        <3>2. HostHolds'
            BY <1>0, <1>1, <2>1, <2>3, HostLeft DEF storeVars
        <3> QED BY <1>r, <1>s, <2>1, <2>3, <3>1, <3>2 DEF storeVars
    <2> QED BY <1>9, <2>2, <2>3 DEF Signal
<1>10. CASE Await
    <2>1. UNCHANGED <<storeVars, runner>> /\ policy.desired = "stopped"
          /\ faults' \in 0 .. MaxFaults
        BY <1>0, <1>10, FaultBound DEF Await, RequestHolds
    <2>2. /\ request' \in RequestType
          /\ request'.at \in {"idle", "settle"}
          /\ request'.at = "settle" => runner.at = "off"
        <3>1. CASE ~UnitActive /\ RequestAt("settle")
            <4>1. "settle" \in RequestPlace
                BY DEF RequestPlace
            <4> QED BY <1>g, <3>1, <4>1 DEF UnitActive
        <3>2. CASE RequestEnds
            BY <1>i, <3>2
        <3> QED BY <1>10, <3>1, <3>2 DEF Await
    <2>3. HostHolds'
        BY <1>0, <1>1, <2>1, HostLeft DEF storeVars
    <2> QED BY <1>r, <1>s, <2>1, <2>2, <2>3 DEF storeVars
<1>11. CASE Settle
    <2>1. /\ UNCHANGED <<runner, faults>> /\ policy.desired = "stopped"
          /\ runner.at = "off" /\ runner.attempt = 0
        BY <1>0, <1>11 DEF Settle, RequestHolds, PlaneInv, RunnerHolds
    <2>2. request' \in RequestType /\ request'.at = "confirm"
        BY <1>11, <1>g DEF Settle, RequestPlace
    <2>3. /\ Len(attempts') = Len(attempts) /\ policy'.desired = policy.desired
          /\ sup'.current \in {0, sup.current} /\ sup'.epoch = sup.epoch
        <3>1. SettleStoppedRunner
            BY <1>11 DEF Settle
        <3> QED BY <1>0, <3>1, SettleIsOperation, ExitEffect DEF storeVars
    <2>4. HostHolds'
        BY <1>0, <1>1, <2>1, <2>3, HostLeft
    <2> QED BY <1>r, <1>s, <2>1, <2>2, <2>3, <2>4
<1>12. CASE Confirm
    <2>1. UNCHANGED <<storeVars, runner, faults>>
        BY <1>12 DEF Confirm
    <2>2. request' \in RequestType /\ request'.at = "idle"
        BY <1>12, <1>i DEF Confirm
    <2> QED BY <1>q, <2>1, <2>2 DEF storeVars
<1> QED BY <1>2, <1>3, <1>4, <1>5, <1>6, <1>7, <1>8, <1>9, <1>10, <1>11, <1>12
        DEF RequestStep

StartupType ==
    [at : StartupPlace, expected : BOOLEAN, attempt : Nat, launched : BOOLEAN,
     late : BOOLEAN, count : 0 .. MaxAutostarts]

\* The places where the startup holds nothing of the store or the host.
FreePlace ==
    {"idle", "failed", "check", "claim", "clear", "clearing", "rest", "launch"}

\* The startup thread: it fences and removes the runner of an earlier broker,
\* settles its attempt, and may launch the worker again.
LEMMA StartupKeepsPlane ==
    ASSUME PlaneInv, StartupStep
    PROVE  /\ HostHolds' /\ RequestHolds' /\ StartupHolds'
           /\ startup' \in StartupType /\ broker' \in {broker, "serving"}
<1>0. /\ startup \in StartupType /\ RequestHolds /\ StartupHolds /\ StoreTypeOK
      /\ runner \in RunnerType /\ faults \in 0 .. MaxFaults /\ StoreInv
      /\ MaxAutostarts \in Nat
    BY HostFacts, PlaneAssumption
    DEF PlaneInv, TypeOK, StartupType, HostTypeOK, PlaneAssumption
<1>1. UNCHANGED <<epoch, request, child, journal>>
    BY DEF StartupStep, FenceOldRunners, RemoveOldRunner, OldRunnerRemoved,
        SettleOldRunner, NormalizeOldRunner, StartupCheck, StartupGivesUp,
        StartupClaim, StartupClear, StartupCleared, StartupClose, StartupRest,
        StartupLaunch, OutsideStartup
<1>2. /\ Len(attempts) \in Nat /\ startup.attempt \in Nat /\ sup.current \in Nat
      /\ startup.attempt <= Len(attempts) /\ sup.current <= Len(attempts)
    BY <1>0, PlaneFacts DEF StartupHolds
<1>r. ASSUME broker' \in {broker, "serving"}, policy'.desired = policy.desired,
             sup'.epoch \in {sup.epoch, epoch},
             runner.at = "off" => \/ runner'.at = "off"
                                  \/ policy.desired = "running"
      PROVE  RequestHolds'
    <2>1. sup'.epoch <= epoch'
        BY <1>0, <1>1, <1>r, PlaneFacts DEF RequestHolds
    <2> QED BY <1>0, <1>1, <1>r, <2>1 DEF RequestHolds, Idle
<1>h. ASSUME startup'.at \in FreePlace, Len(attempts') = Len(attempts),
             startup'.attempt \in {0, startup.attempt, sup.current}
      PROVE  StartupHolds'
    BY <1>2, <1>h DEF StartupHolds, FreePlace
<1>n. ASSUME startup' = NoStartup
      PROVE  /\ startup' \in StartupType /\ startup'.at \in FreePlace
             /\ startup'.attempt = 0
    BY <1>0, <1>n DEF NoStartup, StartupType, StartupPlace, FreePlace
<1>g. ASSUME NEW place \in StartupPlace, StartupAt(place)
      PROVE  /\ startup' \in StartupType /\ startup'.at = place
             /\ startup'.attempt = startup.attempt
    BY <1>0, <1>g DEF StartupAt, StartupType
<1>a. ASSUME NEW launched \in BOOLEAN, StartupAgain(launched)
      PROVE  /\ startup' \in StartupType /\ startup'.at \in FreePlace
             /\ startup'.attempt \in {0, startup.attempt}
    <2>1. CASE startup' = NoStartup
        BY <1>n, <2>1
    <2>2. CASE startup' = [startup EXCEPT !.at = "check", !.launched = launched]
        BY <1>0, <2>2 DEF StartupType, StartupPlace, FreePlace
    <2> QED BY <1>a, <2>1, <2>2 DEF StartupAgain
<1>d. ASSUME Admit \/ AdmitAnd([NoStartup EXCEPT !.at = "failed"])
      PROVE  /\ startup' \in StartupType /\ startup'.at \in FreePlace
             /\ startup'.attempt \in {0, startup.attempt} /\ broker' = "serving"
    <2>0. broker' = "serving"
        BY <1>d DEF Admit, AdmitAnd
    <2>1. CASE startup' = NoStartup
        BY <1>n, <2>0, <2>1
    <2>2. CASE startup' = [startup EXCEPT !.at = "check"]
        BY <1>0, <2>0, <2>2 DEF StartupType, StartupPlace, FreePlace
    <2>3. CASE startup' = [NoStartup EXCEPT !.at = "failed"]
        <3>1. NoStartup \in StartupType /\ NoStartup.attempt = 0
            BY <1>0 DEF NoStartup, StartupType, StartupPlace
        <3> QED BY <2>0, <2>3, <3>1 DEF StartupType, StartupPlace, FreePlace
    <2> QED BY <1>d, <2>1, <2>2, <2>3 DEF Admit, AdmitAnd
<1>s. ASSUME SettleStoppedRunner \/ UNCHANGED storeVars
      PROVE  /\ Len(attempts') = Len(attempts) /\ policy'.desired = policy.desired
             /\ sup'.current \in {0, sup.current} /\ sup'.epoch = sup.epoch
    BY <1>0, <1>s, SettleIsOperation, ExitEffect DEF storeVars
<1>b. ASSUME NEW x, NormalizeStartupAbsence(x) \/ UNCHANGED storeVars
      PROVE  /\ UNCHANGED <<attempts, policy>> /\ sup'.current = sup.current
             /\ sup'.epoch = sup.epoch
    <2>1. CASE UNCHANGED storeVars
        BY <2>1 DEF storeVars
    <2>2. CASE NormalizeStartupAbsence(x)
        BY <1>0, <2>2 DEF NormalizeStartupAbsence, StoreTypeOK
    <2> QED BY <1>b, <2>1, <2>2
<1>3. CASE FenceOldRunners
    <2>1. /\ UNCHANGED <<broker, runner, faults, attempts, policy>>
          /\ startup.at = "fence" /\ broker = "starting"
        BY <1>0, <1>3 DEF FenceOldRunners, FenceStartup, StartupHolds
    <2>2. /\ startup' \in StartupType /\ startup'.at = "remove"
          /\ startup'.attempt = startup.attempt
        BY <1>3, <1>g DEF FenceOldRunners, StartupPlace
    <2>3. sup'.epoch \in {sup.epoch, epoch}
        <3>1. \/ sup' = sup
              \/ \E x : sup' = [sup EXCEPT !.state = x, !.epoch = epoch,
                                           !.generation = @ + 1]
            BY <1>3 DEF FenceOldRunners, FenceStartup
        <3> QED BY <1>0, <3>1 DEF StoreTypeOK
    <2>4. HostHolds'
        BY <1>0, <1>1, <2>1, HostLeft
    <2>5. StartupHolds'
        BY <1>2, <2>1, <2>2 DEF StartupHolds
    <2> QED BY <1>r, <2>1, <2>2, <2>3, <2>4, <2>5
<1>4. CASE RemoveOldRunner
    <2>1. /\ UNCHANGED storeVars /\ faults' \in 0 .. MaxFaults
          /\ startup.at = "remove" /\ broker = "starting"
        BY <1>0, <1>4, FaultBound DEF RemoveOldRunner, StartupHolds
    <2>2. CASE SignalUnit /\ StartupAt("removing") /\ UNCHANGED broker
        <3>1. /\ startup' \in StartupType /\ startup'.at = "removing"
              /\ startup'.attempt = startup.attempt
            BY <1>g, <2>2 DEF StartupPlace
        <3>2. HostHolds'
            BY <1>0, <1>1, <2>1, <2>2, SignalEffect, HostLeft DEF storeVars
        <3>3. StartupHolds'
            BY <1>2, <2>1, <2>2, <3>1 DEF StartupHolds, storeVars
        <3> QED BY <1>r, <2>1, <2>2, <3>1, <3>2, <3>3, SignalEffect DEF storeVars
    <2>3. CASE UNCHANGED runner /\ AdmitAnd([NoStartup EXCEPT !.at = "failed"])
        <3>1. HostHolds'
            BY <1>0, <1>1, <2>1, <2>3, HostLeft DEF storeVars
        <3> QED BY <1>d, <1>h, <1>r, <2>1, <2>3, <3>1 DEF storeVars
    <2> QED BY <1>4, <2>2, <2>3 DEF RemoveOldRunner
<1>5. CASE OldRunnerRemoved
    <2>1. /\ UNCHANGED <<storeVars, runner>> /\ broker = "starting"
          /\ faults' \in 0 .. MaxFaults
        BY <1>0, <1>5, FaultBound DEF OldRunnerRemoved, StartupHolds
    <2>2. HostHolds'
        BY <1>0, <1>1, <2>1, HostLeft DEF storeVars
    <2>3. CASE ~UnitActive /\ StartupAt("settle") /\ UNCHANGED broker
        <3>1. /\ startup' \in StartupType /\ startup'.at = "settle"
              /\ startup'.attempt = startup.attempt
            BY <1>g, <2>3 DEF StartupPlace
        <3>2. StartupHolds'
            BY <1>2, <2>1, <2>3, <3>1 DEF StartupHolds, storeVars, UnitActive
        <3> QED BY <1>r, <2>1, <2>2, <2>3, <3>1, <3>2 DEF storeVars
    <2>4. CASE Admit
        BY <1>d, <1>h, <1>r, <2>1, <2>2, <2>4 DEF storeVars
    <2> QED BY <1>5, <2>3, <2>4 DEF OldRunnerRemoved
<1>6. CASE SettleOldRunner
    <2>1. /\ UNCHANGED <<broker, runner, faults>> /\ broker = "starting"
          /\ runner.at = "off" /\ runner.attempt = 0
          /\ SettleStoppedRunner \/ UNCHANGED storeVars
        BY <1>0, <1>6 DEF SettleOldRunner, StartupHolds, PlaneInv, RunnerHolds
    <2>2. /\ startup' \in StartupType /\ startup'.at = "normalize"
          /\ startup'.attempt = startup.attempt
        BY <1>6, <1>g DEF SettleOldRunner, StartupPlace
    <2>3. HostHolds'
        BY <1>0, <1>1, <1>s, <2>1, HostLeft
    <2>4. StartupHolds'
        BY <1>2, <1>s, <2>1, <2>2 DEF StartupHolds
    <2> QED BY <1>r, <1>s, <2>1, <2>2, <2>3, <2>4
<1>7. CASE NormalizeOldRunner
    <2>1. /\ UNCHANGED <<runner, faults>> /\ Admit
          /\ NormalizeStartupAbsence(epoch) \/ UNCHANGED storeVars
        BY <1>7 DEF NormalizeOldRunner
    <2>2. HostHolds'
        BY <1>0, <1>1, <1>b, <2>1, HostLeft
    <2> QED BY <1>b, <1>d, <1>h, <1>r, <2>1, <2>2
<1>8. CASE StartupCheck \/ StartupGivesUp
    <2>1. UNCHANGED <<storeVars, broker, runner, faults>>
        BY <1>8 DEF StartupCheck, StartupGivesUp
    <2>2. /\ startup' \in StartupType /\ startup'.at \in FreePlace
          /\ startup'.attempt \in {0, sup.current}
        <3>1. CASE startup' = NoStartup
            BY <1>n, <3>1
        <3>2. CASE startup' = [startup EXCEPT !.at = "claim",
                                              !.attempt = sup.current]
            BY <1>0, <1>2, <3>2 DEF StartupType, StartupPlace, FreePlace
        <3> QED BY <1>8, <3>1, <3>2 DEF StartupCheck, StartupGivesUp
    <2>3. HostHolds'
        BY <1>0, <1>1, <2>1, HostLeft DEF storeVars
    <2> QED BY <1>h, <1>r, <2>1, <2>2, <2>3 DEF storeVars
<1>9. CASE StartupClaim
    <2>1. UNCHANGED <<broker, runner, faults>>
        BY <1>9 DEF StartupClaim
    <2>2. UNCHANGED <<attempts, policy>> /\ sup'.epoch = sup.epoch
        <3>1. \/ UNCHANGED storeVars
              \/ \E late : ClaimCleanup(epoch, startup.attempt, late)
            BY <1>9 DEF StartupClaim
        <3> QED BY <1>0, <3>1 DEF storeVars, ClaimCleanup, StoreTypeOK
    <2>3. /\ startup' \in StartupType /\ startup'.at \in FreePlace
          /\ startup'.attempt \in {0, startup.attempt}
        <3>1. CASE startup' = NoStartup
            BY <1>n, <3>1
        <3>2. CASE \E late \in BOOLEAN :
                    startup' = [startup EXCEPT !.at = "clear", !.late = late]
            BY <1>0, <3>2 DEF StartupType, StartupPlace, FreePlace
        <3>3. CASE startup' = [startup EXCEPT !.at = "check", !.launched = TRUE]
            BY <1>0, <3>3 DEF StartupType, StartupPlace, FreePlace
        <3> QED BY <1>9, <3>1, <3>2, <3>3 DEF StartupClaim
    <2>4. HostHolds'
        BY <1>0, <1>1, <2>1, <2>2, HostLeft
    <2> QED BY <1>h, <1>r, <2>1, <2>2, <2>3, <2>4
<1>10. CASE StartupClear
    <2>1. /\ UNCHANGED <<storeVars, broker>> /\ faults' \in 0 .. MaxFaults
          /\ SignalUnit \/ UNCHANGED runner
        BY <1>0, <1>10, FaultBound DEF StartupClear
    <2>2. /\ startup' \in StartupType /\ startup'.at \in FreePlace
          /\ startup'.attempt \in {0, startup.attempt}
        <3>1. CASE StartupAt("clearing")
            BY <1>g, <3>1 DEF StartupPlace, FreePlace
        <3>2. CASE StartupAgain(startup.launched)
            <4>1. startup.launched \in BOOLEAN
                BY <1>0 DEF StartupType
            <4> QED BY <1>a, <3>2, <4>1
        <3> QED BY <1>10, <3>1, <3>2 DEF StartupClear
    <2>3. HostHolds'
        BY <1>0, <1>1, <2>1, SignalEffect, HostLeft DEF storeVars
    <2> QED BY <1>h, <1>r, <2>1, <2>2, <2>3, SignalEffect DEF storeVars
<1>11. CASE StartupCleared
    <2>1. UNCHANGED <<storeVars, broker, runner>> /\ faults' \in 0 .. MaxFaults
        BY <1>0, <1>11, FaultBound DEF StartupCleared
    <2>2. HostHolds'
        BY <1>0, <1>1, <2>1, HostLeft DEF storeVars
    <2>3. CASE ~UnitActive /\ StartupAt("close")
        <3>1. /\ startup' \in StartupType /\ startup'.at = "close"
              /\ startup'.attempt = startup.attempt
            BY <1>g, <2>3 DEF StartupPlace
        <3>2. runner.attempt = 0
            BY <2>3 DEF UnitActive, PlaneInv, RunnerHolds
        <3>3. StartupHolds'
            BY <1>2, <2>1, <3>1, <3>2 DEF StartupHolds, storeVars
        <3> QED BY <1>r, <2>1, <2>2, <3>1, <3>3 DEF storeVars
    <2>4. CASE \E launched \in BOOLEAN : StartupAgain(launched)
        BY <1>a, <1>h, <1>r, <2>1, <2>2, <2>4 DEF storeVars
    <2>5. startup.launched \in BOOLEAN
        BY <1>0 DEF StartupType
    <2> QED BY <1>11, <2>3, <2>4, <2>5 DEF StartupCleared
<1>12. CASE StartupClose
    <2>1. UNCHANGED <<broker, runner, faults>> /\ startup.at = "close"
        BY <1>12 DEF StartupClose
    <2>2. /\ startup' \in StartupType /\ startup'.at \in FreePlace
          /\ startup'.attempt \in {0, startup.attempt}
        <3>1. startup.launched \in BOOLEAN
            BY <1>0 DEF StartupType
        <3>2. CASE StartupAt("rest")
            BY <1>g, <3>2 DEF StartupPlace, FreePlace
        <3>3. CASE StartupAgain(startup.launched)
            BY <1>a, <3>1, <3>3
        <3> QED BY <1>12, <3>2, <3>3 DEF StartupClose
    <2>3. \/ UNCHANGED storeVars
          \/ /\ startup.attempt # 0 /\ sup.current = startup.attempt
             /\ SettleStoppedRunner
        BY <1>12 DEF StartupClose
    <2>4. HostHolds'
        <3>1. CASE UNCHANGED storeVars
            BY <1>0, <1>1, <2>1, <3>1, HostLeft DEF storeVars
        <3>2. CASE /\ startup.attempt # 0 /\ sup.current = startup.attempt
                   /\ SettleStoppedRunner
            <4>1. runner.attempt = 0 \/ runner.at \in {"stage", "persist"}
                BY <1>0, <2>1, <3>2 DEF StartupHolds
            <4> QED BY <1>0, <1>1, <1>s, <2>1, <3>2, <4>1, HostLeft
        <3> QED BY <2>3, <3>1, <3>2
    <2> QED BY <1>h, <1>r, <1>s, <2>1, <2>2, <2>3, <2>4
<1>13. CASE StartupRest
    <2>1. UNCHANGED <<broker, runner, faults>>
        BY <1>13 DEF StartupRest
    <2>2. NormalizeStartupAbsence(epoch) \/ UNCHANGED storeVars
        BY <1>13 DEF StartupRest
    <2>3. /\ startup' \in StartupType /\ startup'.at \in FreePlace
          /\ startup'.attempt \in {0, startup.attempt}
        <3>1. startup.launched \in BOOLEAN
            BY <1>0 DEF StartupType
        <3>2. CASE startup' = NoStartup
            BY <1>n, <3>2
        <3>3. CASE startup' = [startup EXCEPT !.at = "launch", !.launched = FALSE]
            BY <1>0, <3>3 DEF StartupType, StartupPlace, FreePlace
        <3>4. CASE StartupAgain(startup.launched)
            BY <1>a, <3>1, <3>4
        <3> QED BY <1>13, <3>2, <3>3, <3>4 DEF StartupRest
    <2>4. HostHolds'
        BY <1>0, <1>1, <1>b, <2>1, <2>2, HostLeft
    <2> QED BY <1>b, <1>h, <1>r, <2>1, <2>2, <2>3, <2>4
<1>14. CASE StartupLaunch
    <2>1. UNCHANGED <<storeVars, broker>>
        BY <1>14 DEF StartupLaunch
    <2>2. CASE /\ Launchable(epoch) /\ AutostartAllowed
               /\ \/ /\ ~UnitActive /\ runner' = Runner("replay") /\ NoFault
                     /\ startup' = [startup EXCEPT !.at = "check",
                                        !.launched = TRUE, !.count = @ + 1]
                  \/ /\ startup' = [startup EXCEPT !.at = "check",
                                        !.launched = UnitActive, !.count = @ + 1]
                     /\ UNCHANGED runner
                     /\ Fault \/ NoFault
        <3>1. startup.count + 1 \in 0 .. MaxAutostarts
            BY <1>0, <2>2 DEF AutostartAllowed, StartupType
        <3>2. UnitActive \in BOOLEAN
            BY DEF UnitActive
        <3>3. PICK launched \in BOOLEAN :
                startup' = [startup EXCEPT !.at = "check",
                                !.launched = launched, !.count = @ + 1]
            BY <2>2, <3>2
        <3>4. /\ startup' \in StartupType /\ startup'.at \in FreePlace
              /\ startup'.attempt = startup.attempt
            BY <1>0, <3>1, <3>3 DEF StartupType, StartupPlace, FreePlace
        <3>5. policy.desired = "running"
            BY <2>2 DEF Launchable
        <3>6. faults' \in 0 .. MaxFaults
            BY <1>0, <2>2, FaultBound
        <3>7. HostHolds'
            <4>1. CASE ~UnitActive /\ runner' = Runner("replay")
                <5>1. /\ runner' \in RunnerType /\ runner'.at = "replay"
                      /\ runner'.attempt = 0 /\ child = 0
                    BY <4>1, FreshRunner, RestingPlaces, HostFacts DEF UnitActive
                <5> QED BY <1>1, <2>1, <3>6, <5>1, HostLeft DEF storeVars
            <4>2. CASE UNCHANGED runner
                BY <1>0, <1>1, <2>1, <3>6, <4>2, HostLeft DEF storeVars
            <4> QED BY <2>2, <4>1, <4>2
        <3> QED BY <1>h, <1>r, <2>1, <3>4, <3>5, <3>7 DEF storeVars
    <2>3. CASE StartupAt("check") /\ UNCHANGED <<runner, faults>>
        <3>1. /\ startup' \in StartupType /\ startup'.at \in FreePlace
              /\ startup'.attempt = startup.attempt
            BY <1>g, <2>3 DEF StartupPlace, FreePlace
        <3>2. HostHolds'
            BY <1>0, <1>1, <2>1, <2>3, HostLeft DEF storeVars
        <3> QED BY <1>h, <1>r, <2>1, <2>3, <3>1, <3>2 DEF storeVars
    <2> QED BY <1>14, <2>2, <2>3 DEF StartupLaunch
<1> QED BY <1>3, <1>4, <1>5, <1>6, <1>7, <1>8, <1>9, <1>10, <1>11, <1>12,
           <1>13, <1>14 DEF StartupStep

\* The broker process stops, ends anywhere and starts again; the repository
\* is fenced and released, and crashes leave the window.
LEMMA BrokerKeepsPlane ==
    ASSUME PlaneInv, BrokerStops \/ BrokerEnds \/ BrokerStarts \/ Environment
    PROVE  /\ HostHolds' /\ RequestHolds' /\ StartupHolds'
           /\ request' \in RequestType /\ startup' \in StartupType
           /\ broker' \in {"down", "starting", "serving", "stopping"}
           /\ epoch' \in 0 .. MaxRestarts + 1
<1>0. /\ startup \in StartupType /\ request \in RequestType /\ RequestHolds
      /\ StartupHolds /\ StoreTypeOK /\ runner \in RunnerType
      /\ faults \in 0 .. MaxFaults /\ MaxAutostarts \in Nat /\ MaxRestarts \in Nat
      /\ epoch \in 0 .. MaxRestarts + 1
      /\ broker \in {"down", "starting", "serving", "stopping"}
    BY HostFacts, PlaneAssumption
    DEF PlaneInv, TypeOK, StartupType, RequestType, HostTypeOK, PlaneAssumption
<1>1. UNCHANGED <<runner, child, journal, policy, sup>> \/ Environment
    BY DEF BrokerStops, BrokerEnds, BrokerStarts, hostVars, storeVars
<1>2. faults' \in 0 .. MaxFaults
    BY <1>0, FaultBound
    DEF BrokerStops, BrokerEnds, BrokerStarts, Environment, NoFault
<1>3. /\ Len(attempts) \in Nat /\ startup.attempt \in Nat /\ sup.current \in Nat
      /\ startup.attempt <= Len(attempts) /\ sup.current <= Len(attempts)
      /\ epoch \in Nat /\ sup.epoch \in Nat
    BY <1>0, PlaneFacts DEF StartupHolds
<1>i. Idle \in RequestType /\ Idle.at = "idle"
    BY DEF Idle, RequestType, RequestPlace
<1>n. NoStartup \in StartupType /\ NoStartup.at = "idle" /\ NoStartup.attempt = 0
    BY <1>0 DEF NoStartup, StartupType, StartupPlace
<1>4. CASE BrokerStops
    <2>1. /\ UNCHANGED <<storeVars, epoch, request, startup, runner, child, journal>>
          /\ broker = "serving" /\ broker' = "stopping"
        BY <1>4 DEF BrokerStops, hostVars
    <2>2. HostHolds'
        BY <1>0, <1>2, <2>1, HostLeft DEF storeVars
    <2>3. RequestHolds'
        BY <1>0, <2>1 DEF RequestHolds, storeVars, Idle
    <2>4. StartupHolds'
        BY <1>0, <2>1 DEF StartupHolds, storeVars
    <2> QED BY <1>0, <2>1, <2>2, <2>3, <2>4
<1>5. CASE BrokerEnds
    <2>1. /\ UNCHANGED <<storeVars, epoch, runner, child, journal>>
          /\ epoch <= MaxRestarts /\ broker' = "down" /\ request' = Idle
          /\ startup' = NoStartup
        BY <1>5 DEF BrokerEnds, hostVars
    <2>2. HostHolds'
        BY <1>0, <1>2, <2>1, HostLeft DEF storeVars
    <2>3. RequestHolds'
        BY <1>0, <1>i, <2>1 DEF RequestHolds, storeVars, Idle
    <2>4. StartupHolds'
        BY <1>n, <1>3, <2>1 DEF StartupHolds, storeVars
    <2> QED BY <1>0, <1>i, <1>n, <2>1, <2>2, <2>3, <2>4
<1>6. CASE BrokerStarts
    <2>1. /\ UNCHANGED <<storeVars, request, runner, child, journal>>
          /\ broker = "down" /\ broker' = "starting" /\ epoch' = epoch + 1
          /\ startup' = [NoStartup EXCEPT !.at = "fence",
                !.expected = policy.keep /\ policy.desired = "running"
                             /\ policy.breaker = "armed",
                !.attempt = sup.current]
        BY <1>6 DEF BrokerStarts, hostVars
    <2>2. HostHolds'
        BY <1>0, <1>2, <2>1, HostLeft DEF storeVars
    <2>3. /\ epoch <= MaxRestarts /\ request = Idle
          /\ epoch' \in 0 .. MaxRestarts + 1 /\ sup.epoch <= epoch' /\ epoch' >= 1
        BY <1>0, <1>3, <2>1 DEF RequestHolds
    <2>4. RequestHolds'
        BY <1>0, <1>i, <2>1, <2>3 DEF RequestHolds, storeVars, Idle
    <2>5. /\ startup' \in StartupType /\ startup'.at = "fence"
          /\ startup'.attempt = sup.current
        <3>1. (policy.keep /\ policy.desired = "running"
               /\ policy.breaker = "armed") \in BOOLEAN
            OBVIOUS
        <3> QED BY <1>n, <1>3, <2>1, <3>1 DEF StartupType, StartupPlace
    <2>6. StartupHolds'
        BY <1>3, <2>1, <2>5 DEF StartupHolds, storeVars
    <2> QED BY <1>0, <2>1, <2>2, <2>3, <2>4, <2>5, <2>6
<1>7. CASE Environment
    <2>1. /\ UNCHANGED <<broker, epoch, request, startup, runner, child, journal>>
          /\ UNCHANGED <<policy, sup>>
        BY <1>7 DEF Environment, hostVars, SetFence, WindowPasses
    <2>2. /\ Len(attempts') = Len(attempts)
          /\ \A b \in DOMAIN attempts : /\ attempts'[b].state = attempts[b].state
                                         /\ attempts'[b].kind = attempts[b].kind
        <3>1. CASE UNCHANGED attempts
            BY <3>1
        <3>2. CASE WindowPasses
            <4>1. PICK a \in DOMAIN attempts :
                    attempts' = [attempts EXCEPT ![a].recent = FALSE]
                BY <3>2 DEF WindowPasses
            <4> DEFINE r == [attempts[a] EXCEPT !.recent = FALSE]
            <4>2. attempts \in Seq(Attempt) /\ attempts[a] \in Attempt
                BY PlaneFacts, AttemptTyped
            <4>3. /\ r \in Attempt /\ r.state = attempts[a].state
                  /\ r.kind = attempts[a].kind
                BY <4>2 DEF Attempt
            <4>4. attempts' = [attempts EXCEPT ![a] = r]
                BY <4>1
            <4> HIDE DEF r
            <4> QED BY <4>2, <4>3, <4>4, AttemptReplaced
        <3> QED BY <1>7, <3>1, <3>2 DEF Environment, SetFence
    <2>3. RunnerHolds' /\ ProcessHeld'
        BY <2>1, <2>2, RunnerStays
    <2>4. HostTypeOK'
        BY <1>2, <2>1, HostFacts DEF HostTypeOK
    <2>5. RequestHolds'
        BY <1>0, <2>1 DEF RequestHolds, Idle
    <2>6. StartupHolds'
        BY <1>0, <2>1, <2>2 DEF StartupHolds
    <2> QED BY <1>0, <2>1, <2>3, <2>4, <2>5, <2>6 DEF HostHolds
<1> QED BY <1>4, <1>5, <1>6, <1>7

\* Every step of the plane keeps the invariant.
LEMMA PlaneStep == PlaneInv /\ [Next]_vars => PlaneInv'
<1> SUFFICES ASSUME PlaneInv, [Next]_vars PROVE PlaneInv'
    OBVIOUS
<1>1. StoreInv' /\ StoreTypeOK'
    BY PlaneStepsStore, StoreStep DEF PlaneInv, StoreInv
<1>2. ASSUME HostHolds', RequestHolds', StartupHolds', request' \in RequestType,
             startup' \in StartupType,
             broker' \in {"down", "starting", "serving", "stopping"},
             epoch' \in 0 .. MaxRestarts + 1
      PROVE  PlaneInv'
    BY <1>1, <1>2
    DEF PlaneInv, TypeOK, HostHolds, HostTypeOK, RunnerType, RequestType,
        StartupType
<1>3. /\ request \in RequestType /\ startup \in StartupType
      /\ broker \in {"down", "starting", "serving", "stopping"}
      /\ epoch \in 0 .. MaxRestarts + 1
    BY DEF PlaneInv, TypeOK, RequestType, StartupType
<1>4. CASE \/ RunnerStep
           \/ UnitKilled \/ RunnerCrash \/ UnitRestarts \/ ChildExits
    <2>1. UNCHANGED <<broker, epoch, request, startup>>
        BY <1>4 DEF RunnerStep, Replay, Lookup, Candidate, Begin, Spawn, Report,
            Wait, Stage, Persist, BrokerUnchanged, UnitKilled, RunnerCrash,
            UnitRestarts, ChildExits
    <2>2. HostHolds' /\ RequestHolds' /\ StartupHolds'
        BY <1>4, RunnerStarts, RunnerLaunches, RunnerFinishes, UnitKeepsPlane
        DEF RunnerStep
    <2> QED BY <1>2, <1>3, <2>1, <2>2
<1>5. CASE StartRequested \/ StopRequested \/ RequestStep
    <2>1. UNCHANGED <<broker, epoch, startup>>
        BY <1>5 DEF StartRequested, StopRequested, RequestStep, Configure, Start,
            EnsureEpoch, Launch, Stop, Signal, Await, Settle, Confirm,
            OutsideRequest
    <2> QED BY <1>1, <1>2, <1>3, <1>5, <2>1, RequestsKeepPlane
<1>6. CASE StartupStep
    <2>1. UNCHANGED <<epoch, request>>
        BY <1>6 DEF StartupStep, FenceOldRunners, RemoveOldRunner,
            OldRunnerRemoved, SettleOldRunner, NormalizeOldRunner, StartupCheck,
            StartupGivesUp, StartupClaim, StartupClear, StartupCleared,
            StartupClose, StartupRest, StartupLaunch, OutsideStartup
    <2> QED BY <1>2, <1>3, <1>6, <2>1, StartupKeepsPlane
<1>7. CASE BrokerStops \/ BrokerEnds \/ BrokerStarts \/ Environment
    BY <1>2, <1>7, BrokerKeepsPlane
<1>8. CASE UNCHANGED vars
    <2>1. /\ UNCHANGED <<broker, epoch, request, startup, runner, child, journal>>
          /\ UNCHANGED <<storeVars, faults>>
        BY <1>8 DEF vars, hostVars
    <2>2. HostHolds'
        BY <2>1, HostFacts, HostLeft DEF storeVars, HostTypeOK
    <2>3. RequestHolds' /\ StartupHolds'
        BY <2>1 DEF PlaneInv, RequestHolds, StartupHolds, storeVars, Idle
    <2> QED BY <1>2, <1>3, <2>1, <2>2, <2>3
<1> QED BY <1>4, <1>5, <1>6, <1>7, <1>8 DEF Next

\* The runner, the requests, the startup thread and every crash and restart of
\* them act on the store only through its own operations, under current
\* tokens.
THEOREM PlaneImplementsStore == Spec => ImplementsStore
<1>1. PlaneInv /\ [Next]_vars => [StoreOperation]_storeVars
    BY PlaneStepsStore
<1> QED BY PlaneInitInv, PlaneStep, <1>1, PTL DEF Spec, ImplementsStore

\* The rows of a worker agree with each other under the callers the
\* repository has.
THEOREM PlaneConsistent == Spec => []AttemptsConsistent
<1>1. PlaneInv => AttemptsConsistent
    BY DEF PlaneInv, StoreInv
<1> QED BY PlaneInitInv, PlaneStep, <1>1, PTL DEF Spec

\* A process of the worker lives only under the newest attempt while that
\* attempt is open, a settled stop leaves none, and the exit on disk is never
\* older than the newest launch.
THEOREM PlaneUnderControl == Spec => []ProcessUnderControl
<1>1. ASSUME PlaneInv PROVE ProcessUnderControl
    <2>1. TypeOK /\ RunnerHolds /\ ProcessHeld
        BY <1>1 DEF PlaneInv
    <2>2. child # 0 =>
            /\ child = Len(attempts) /\ child \in DOMAIN attempts
            /\ runner.at # "report" => attempts[child].state = "running"
        BY <1>1, <2>1, PlaneFacts DEF RunnerHolds, ProcessHeld
    <2>3. ProcessHasOpenAttempt
        BY <2>2 DEF ProcessHasOpenAttempt
    <2>4. StoppedMeansNoProcess
        BY <2>2 DEF StoppedMeansNoProcess, Active
    <2>5. JournalIsNewest
        BY <2>1 DEF JournalIsNewest, ProcessHeld
    <2> QED BY <2>1, <2>3, <2>4, <2>5 DEF ProcessUnderControl
<1> QED BY PlaneInitInv, PlaneStep, <1>1, PTL DEF Spec
=============================================================================
