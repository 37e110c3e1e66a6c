------------------------ MODULE OutputProgressProofs ------------------------
(***************************************************************************)
(* Proofs about output progress, for every cap, length of a replacement    *)
(* and amount of output.                                                   *)
(***************************************************************************)
EXTENDS OutputProgress, TLAPS

\* What a thread may hold.
ThreadRecord ==
    [at : {"idle", "sized", "told", "refused", "decide"}, size : Nat,
     told : Counters \cup {None}, fresh : BOOLEAN]

\* Counters that some moment of an unreplaced capture bears out.
Truthful(c) == c.bytes <= total /\ c.retained = Least(c.bytes, Cap)

\* A size that was read, or an observation that was told, is truthful.
HoldsTruth(r) ==
    /\ r.at = "sized" => r.size <= total /\ r.size <= Cap
    /\ r.at = "told" => Truthful(r.told)

\* While the capture was not replaced everything on the way from the log to
\* the row is truthful: the sidecar, a size that was read and is not yet
\* compared, an observation that is not yet recorded.
ProgressInv ==
    /\ TypeOK
    /\ stage \in {"capture", "captured"} => size = Least(total, Cap)
    /\ size = Least(total, Cap) =>
        /\ Truthful(stored)
        /\ sidecar # None => Truthful(sidecar)
        /\ \A t \in Thread : HoldsTruth(thread[t])
    /\ \A t \in Thread : thread[t].at = "told" => thread[t].told \in Counters

\* The columns, the files and the threads keep their types.
LEMMA ProgressInit == Init => ProgressInv
BY ProgressAssumption DEF ProgressAssumption, Init, ProgressInv, HoldsTruth, TypeOK, Truthful, Counters, None, Idle, Least, Thread

\* No step of the runner makes a counter that was published, read or stored
\* exceed the capture.
LEMMA RunnerKeepsInv ==
    ASSUME ProgressInv, RunnerStep PROVE ProgressInv'
<1> USE ProgressAssumption DEF ProgressAssumption, ProgressInv, HoldsTruth, TypeOK, Truthful, Counters, None, Least
<1>1. CASE Write
    <2>1. /\ total' = total + 1 /\ total' \in 0 .. MaxOutput
          /\ size' = Least(total', Cap) /\ size' \in 0 .. Cap
        BY <1>1 DEF Write
    <2>2. /\ sidecar' \in Counters \cup {None}
          /\ sidecar' # None => Truthful(sidecar)'
        BY <1>1, <2>1 DEF Write
    <2>3. UNCHANGED <<stored, thread>>
        BY <1>1 DEF Write
    <2>4. TypeOK'
        BY <1>1, <2>1, <2>2, <2>3 DEF Write
    <2> QED BY <1>1, <2>1, <2>2, <2>3, <2>4 DEF Write
<1>2. CASE SecondPasses BY <1>2 DEF SecondPasses
<1>3. CASE ChildEnds BY <1>3 DEF ChildEnds
<1>4. CASE CaptureEnds BY <1>4 DEF CaptureEnds
<1>5. CASE RunnerExits BY <1>5 DEF RunnerExits
<1>6. ASSUME NEW secret \in BOOLEAN, Scan(secret) PROVE ProgressInv'
    BY <1>6 DEF Scan
<1> QED BY <1>1, <1>2, <1>3, <1>4, <1>5, <1>6 DEF RunnerStep

\* A heartbeat touches the row, the stored counters and one thread; the
\* invariant is kept if what the thread then holds is truthful.
LEMMA ThreadMoves ==
    ASSUME ProgressInv, NEW t \in Thread, NEW r \in ThreadRecord,
           UNCHANGED runnerVars, UNCHANGED stored,
           row' \in {"active", "stopping", "done"}, latest' \in Thread,
           thread' = [thread EXCEPT ![t] = r],
           r.at = "told" => r.told \in Counters,
           size = Least(total, Cap) => HoldsTruth(r)
    PROVE  ProgressInv'
<1>1. thread \in [Thread -> ThreadRecord]
    BY DEF ProgressInv, TypeOK, ThreadRecord
<1>2. thread' \in [Thread -> ThreadRecord]
    BY <1>1
<1>3. \A u \in Thread : thread'[u] = IF u = t THEN r ELSE thread[u]
    BY <1>1
<1>4. \A u \in Thread : thread'[u].at = "told" => thread'[u].told \in Counters
    BY <1>3 DEF ProgressInv
<1>5. size = Least(total, Cap) => \A u \in Thread : HoldsTruth(thread'[u])
    BY <1>3 DEF ProgressInv
<1>6. TypeOK'
    BY <1>2 DEF ProgressInv, TypeOK, runnerVars, ThreadRecord, Counters
<1>7. \A u \in Thread : HoldsTruth(thread'[u]) <=> HoldsTruth(thread[u])'
    BY DEF HoldsTruth, Truthful, runnerVars
<1> QED BY <1>4, <1>5, <1>6, <1>7 DEF ProgressInv, runnerVars, Truthful

\* A thread without a size or an observation in hand holds nothing false.
LEMMA RestingRecords ==
    /\ Idle \in ThreadRecord /\ HoldsTruth(Idle) /\ Idle.at = "idle"
    /\ [Idle EXCEPT !.at = "decide"] \in ThreadRecord
    /\ HoldsTruth([Idle EXCEPT !.at = "decide"])
    /\ [Idle EXCEPT !.at = "decide"].at = "decide"
BY DEF Idle, ThreadRecord, HoldsTruth, Counters, None

\* Nor does a heartbeat: what it compares and records is truthful although
\* log and sidecar are read at different times.
LEMMA BeatKeepsInv ==
    ASSUME ProgressInv, NEW t \in Thread, Beat(t) PROVE ProgressInv'
<1>0. /\ thread \in [Thread -> ThreadRecord]
      /\ row \in {"active", "stopping", "done"} /\ latest \in Thread
    BY DEF ProgressInv, TypeOK, ThreadRecord
<1>1. CASE ReadSize(t)
    <2> DEFINE r == IF UnitActive THEN [Idle EXCEPT !.at = "sized", !.size = size]
                    ELSE [Idle EXCEPT !.at = "decide"]
    <2>1. r \in ThreadRecord /\ r.at # "told"
        <3>1. size \in Nat
            BY ProgressAssumption DEF ProgressAssumption, ProgressInv, TypeOK
        <3>2. CASE UnitActive
            BY <3>1, <3>2 DEF Idle, ThreadRecord, None
        <3>3. CASE ~UnitActive
            BY <3>3, RestingRecords
        <3> QED BY <3>2, <3>3
    <2>2. size = Least(total, Cap) => HoldsTruth(r)
        <3>1. CASE UnitActive
            <4>1. r.at = "sized" /\ r.size = size
                BY <3>1 DEF Idle
            <4>2. size = Least(total, Cap) => size <= total /\ size <= Cap
                BY ProgressAssumption
                DEF ProgressAssumption, ProgressInv, TypeOK, Least
            <4> QED BY <4>1, <4>2 DEF HoldsTruth
        <3>2. CASE ~UnitActive
            BY <3>2, RestingRecords
        <3> QED BY <3>1, <3>2
    <2>3. thread' = [thread EXCEPT ![t] = r] /\ UNCHANGED <<runnerVars, row, stored, latest>>
        BY <1>1 DEF ReadSize
    <2> QED BY <1>0, <2>1, <2>2, <2>3, ThreadMoves
<1>2. CASE ReadSidecar(t)
    <2> DEFINE n == thread[t].size
               told == IF sidecar = None THEN [bytes |-> n, retained |-> n]
                       ELSE sidecar
    <2>1. UNCHANGED <<runnerVars, row, stored>> /\ thread[t].at = "sized"
        BY <1>2 DEF ReadSidecar
    <2>2. n \in Nat /\ told \in Counters
        BY <1>0 DEF ThreadRecord, Counters, ProgressInv, TypeOK
    <2>3. size = Least(total, Cap) => Truthful(told)
        BY <2>1, <2>2, ProgressAssumption
        DEF ProgressAssumption, ProgressInv, HoldsTruth, Truthful, Least
    <2>4. CASE sidecar = None \/ Agrees(n, sidecar)
        <3> DEFINE r == [thread[t] EXCEPT !.at = "told", !.told = told]
        <3>1. thread' = [thread EXCEPT ![t] = r] /\ latest' = t
            BY <1>0, <1>2, <2>4 DEF ReadSidecar, ThreadRecord
        <3>2. r \in ThreadRecord /\ r.at = "told" /\ r.told = told
            BY <1>0, <2>2 DEF ThreadRecord
        <3>3. size = Least(total, Cap) => HoldsTruth(r)
            BY <3>2, <2>3 DEF HoldsTruth, Truthful
        <3> HIDE DEF r, told
        <3> QED BY <1>0, <2>1, <2>2, <3>1, <3>2, <3>3, ThreadMoves
    <2>5. CASE ~(sidecar = None \/ Agrees(n, sidecar))
        <3> DEFINE r == [thread[t] EXCEPT !.at = "refused"]
        <3>1. thread' = [thread EXCEPT ![t] = r] /\ latest' = latest
            BY <1>0, <1>2, <2>5 DEF ReadSidecar, ThreadRecord
        <3>2. r \in ThreadRecord /\ r.at = "refused"
            BY <1>0 DEF ThreadRecord
        <3>3. HoldsTruth(r)
            BY <3>2 DEF HoldsTruth
        <3> HIDE DEF r
        <3> QED BY <1>0, <2>1, <3>1, <3>2, <3>3, ThreadMoves
    <2> QED BY <2>4, <2>5
<1>3. CASE GiveUp(t)
    BY <1>0, <1>3, RestingRecords, ThreadMoves DEF GiveUp
<1>4. CASE RecordProgress(t)
    <2>1. UNCHANGED <<runnerVars, row, latest>> /\ thread[t].at = "told"
        BY <1>4 DEF RecordProgress
    <2>2. CASE row = "done" \/ Regresses(t)
        BY <1>0, <1>4, <2>1, <2>2, RestingRecords, ThreadMoves DEF RecordProgress
    <2>3. CASE ~(row = "done" \/ Regresses(t))
        <3>1. stored' = thread[t].told /\ stored' \in Counters
            BY <1>4, <2>1, <2>3 DEF RecordProgress, ProgressInv
        <3>2. thread' = [u \in Thread |->
                 CASE u = t -> [Idle EXCEPT !.at = "decide"]
                   [] u # t /\ thread[u].at = "told" /\ latest = t
                        -> [thread[u] EXCEPT !.fresh = FALSE]
                   [] OTHER -> thread[u]]
            BY <1>4, <2>3 DEF RecordProgress
        <3>3. ASSUME NEW u \in Thread
              PROVE  /\ thread'[u] \in ThreadRecord
                     /\ thread'[u].at = "told" => thread'[u].told \in Counters
                     /\ size = Least(total, Cap) => HoldsTruth(thread'[u])
            <4>1. CASE u = t
                BY <3>2, <4>1, RestingRecords
            <4>2. CASE u # t /\ thread[u].at = "told" /\ latest = t
                <5> DEFINE r == [thread[u] EXCEPT !.fresh = FALSE]
                <5>1. /\ r \in ThreadRecord /\ r.at = thread[u].at
                      /\ r.told = thread[u].told /\ r.size = thread[u].size
                    BY <1>0 DEF ThreadRecord
                <5>2. thread'[u] = r
                    BY <3>2, <4>2
                <5> HIDE DEF r
                <5> QED BY <5>1, <5>2 DEF ProgressInv, HoldsTruth, Truthful
            <4>3. CASE u # t /\ ~(thread[u].at = "told" /\ latest = t)
                BY <1>0, <3>2, <4>3 DEF ProgressInv
            <4> QED BY <4>1, <4>2, <4>3
        <3>4. thread' \in [Thread -> ThreadRecord]
            BY <3>2, <3>3
        <3>5. size = Least(total, Cap) => Truthful(stored')
            BY <2>1, <3>1 DEF ProgressInv, HoldsTruth
        <3>6. TypeOK'
            BY <2>1, <3>1, <3>4 DEF ProgressInv, TypeOK, runnerVars, ThreadRecord, Counters
        <3>7. /\ \A u \in Thread : HoldsTruth(thread'[u]) <=> HoldsTruth(thread[u])'
              /\ Truthful(stored') <=> Truthful(stored)'
              /\ Truthful(sidecar) <=> Truthful(sidecar)'
            BY <2>1 DEF HoldsTruth, Truthful, runnerVars
        <3> QED BY <2>1, <3>3, <3>5, <3>6, <3>7 DEF ProgressInv, runnerVars
    <2> QED BY <2>2, <2>3
<1>5. CASE Decide(t)
    <2>1. /\ UNCHANGED <<total, size, sidecar, due, stored, latest>>
          /\ thread' = [thread EXCEPT ![t] = Idle]
          /\ \/ UNCHANGED <<row, child, stage>>
             \/ row' = "done" /\ child' = "ended" /\ stage' = "exited"
        BY <1>5 DEF Decide
    <2>2. thread' \in [Thread -> ThreadRecord]
        BY <1>0, <2>1, RestingRecords
    <2>3. \A u \in Thread : thread'[u] = IF u = t THEN Idle ELSE thread[u]
        BY <1>0, <2>1
    <2>4. TypeOK'
        BY <2>1, <2>2 DEF ProgressInv, TypeOK, ThreadRecord, Counters
    <2>5. \A u \in Thread : thread'[u].at = "told" => thread'[u].told \in Counters
        BY <2>3, RestingRecords DEF ProgressInv
    <2>6. size = Least(total, Cap) => \A u \in Thread : HoldsTruth(thread'[u])
        BY <2>3, RestingRecords DEF ProgressInv
    <2>7. \A u \in Thread : HoldsTruth(thread'[u]) <=> HoldsTruth(thread[u])'
        BY <2>1 DEF HoldsTruth, Truthful
    <2> QED BY <2>1, <2>4, <2>5, <2>6, <2>7 DEF ProgressInv, Truthful
<1> QED BY <1>1, <1>2, <1>3, <1>4, <1>5 DEF Beat

\* Every step keeps the invariant.
LEMMA ProgressStep == ProgressInv /\ [Next]_vars => ProgressInv'
<1> SUFFICES ASSUME ProgressInv, [Next]_vars PROVE ProgressInv' OBVIOUS
<1>1. CASE RunnerStep BY <1>1, RunnerKeepsInv
<1>2. CASE Ask
    BY <1>2 DEF Ask, runnerVars, ProgressInv, HoldsTruth, TypeOK, Truthful, Counters
<1>3. ASSUME NEW t \in Thread, Beat(t) PROVE ProgressInv'
    BY <1>3, BeatKeepsInv
<1>4. CASE UNCHANGED vars
    BY <1>4 DEF vars, ProgressInv, HoldsTruth, TypeOK, Truthful, Counters
<1> QED BY <1>1, <1>2, <1>3, <1>4 DEF Next

\* The stored counters of an execution are truthful whatever the capture,
\* the second of rate limiting, the scan for secrets and the two recorders
\* do in between.
THEOREM ProgressTruthful == Spec => []CountersAreTruthful
<1>1. ProgressInv => CountersAreTruthful
    BY DEF ProgressInv, CountersAreTruthful, Truthful
<1> QED BY <1>1, ProgressInit, ProgressStep, PTL DEF Spec
=============================================================================
