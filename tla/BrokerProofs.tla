---------------------------- MODULE BrokerProofs ----------------------------
(***************************************************************************)
(* Proofs about BrokerOperations: an operation id reaches the host at most *)
(* once and the answers callers were given stay true, a target never has   *)
(* two unresolved operations, and the broker implements OperationPromise,  *)
(* for every set of requests, any number of handler threads, any cache     *)
(* size, and crashes and failed transactions anywhere.                     *)
(***************************************************************************)
EXTENDS BrokerOperations, SequenceTheorems, TLAPS

-----------------------------------------------------------------------------
(* The inductive invariant.                                                *)

(* The journal stands behind an answer, and nothing takes it back: a row
   that succeeded or failed is final, and of the rows in doubt only those of
   ensures are answered as such, which neither a repetition nor the
   administrator settles. *)
Backed(r, out) ==
    /\ journal[r.op] # None /\ journal[r.op].req = r
    /\ out = "ok" => Status(r.op) = "succeeded"
    /\ out = "failed" => Status(r.op) = "failed"
    /\ out = "attention" => Status(r.op) = "attention" /\ r.kind = "ensure"

(* What a handler relies on at the place it has reached. *)
JobAt(t) ==
    LET r == job[t].req
    IN  /\ job[t].at \in {"reserved", "ran", "settle"} =>
              Status(r.op) = "running" /\ journal[r.op].req = r
        /\ job[t].at \in {"prior", "reserve"} /\ r.kind # "docker" => journal[r.op] = None
        /\ job[t].at = "reserved" => invoked[r.op] = 0
        /\ job[t].at = "settle" =>
              /\ job[t].out \in {"ok", "failed", "attention", "doubt", "left"}
              /\ job[t].out = "attention" => r.kind = "ensure"
        /\ job[t].at = "reconcile" =>
              /\ r.kind \in {"runtime", "compose"}
              /\ journal[r.op] # None /\ journal[r.op].req = r
        /\ job[t].at = "answer" =>
              /\ job[t].out \in Outcomes
              /\ job[t].out \in Recorded => Backed(r, job[t].out)

JobsAt == \A t \in Threads : JobAt(t)

(* The operation lock has one holder. *)
LocksHeld ==
    \A t, u \in Threads :
        HoldsOperation(t) /\ HoldsOperation(u) /\ job[t].req.op = job[u].req.op => t = u

(* No handler runs in a process that does not admit calls yet. *)
QuietUntilOpen ==
    broker \in {"down", "listening", "docker_fenced", "fenced"} => \A t \in Threads : job[t] = Idle

Entries == {e \in [op : Ops, req : Requests, out : Final] :
               e.op = e.req.op /\ (e.out \in Recorded => Backed(e.req, e.out))}

(* The cache repeats nothing the journal does not stand behind. *)
CacheBacked == cache \in Seq(Entries)

AnsweredBacked == \A a \in answered : a.op = a.req.op /\ Backed(a.req, a.out)

RowsHold ==
    \A o \in Ops : /\ journal[o] = None => invoked[o] = 0
                   /\ invoked[o] <= 1
                   /\ journal[o] # None => journal[o].req.op = o

(* Between the two recovery transactions only Compose rows are running. *)
HalfRecovered ==
    broker = "docker_fenced" =>
        \A o \in Ops : Status(o) = "running" => journal[o].req.kind = "compose"

BrokerInv == /\ TypeOK /\ JobsAt /\ LocksHeld /\ QuietUntilOpen /\ CacheBacked
             /\ AnsweredBacked /\ RowsHold /\ HalfRecovered /\ TargetsAreFenced

-----------------------------------------------------------------------------
(* Lemmas about the operators of the model.                                *)

Records == [status : {"running", "attention", "succeeded", "failed"},
            req : Requests, evidence : Evidence]
Calls == [at : WorkingAt, req : Requests, out : Outcomes \cup {"doubt", "left"}]

\* A row is the absent row or a record of a known request.
LEMMA RowFacts ==
    ASSUME journal \in [Ops -> Rows], NEW o \in Ops
    PROVE  /\ journal[o] = None \/ journal[o] \in Records
           /\ journal[o] = None <=> Status(o) = "none"
           /\ journal[o] # None => /\ journal[o].req \in Requests
                                   /\ Status(o) \in {"running", "attention", "succeeded", "failed"}
                                   /\ journal[o].evidence \in Evidence
<1>1. journal[o] \in {None} \cup Records
  BY DEF Rows, Records
<1>2. None.status = "none"
  BY DEF None
<1> QED
  BY <1>1, <1>2 DEF Records, Status

\* The request of a record of the workloads names one of the operations.
LEMMA RequestFacts ==
    ASSUME NEW r \in Requests
    PROVE  r.op \in Ops /\ r.kind \in Kinds
BY WorkloadsAssumption DEF WorkloadsAssumption, Ops

\* A thread is idle or carries a request.
LEMMA JobFacts ==
    ASSUME TypeOK, NEW t \in Threads
    PROVE  /\ job[t] = Idle \/ job[t] \in Calls
           /\ job[t] = Idle <=> job[t].at = "idle"
           /\ job[t].at # "idle" => /\ job[t].at \in WorkingAt
                                    /\ job[t].req \in Requests
                                    /\ job[t].out \in Outcomes \cup {"doubt", "left"}
                                    /\ job[t].req.op \in Ops
                                    /\ job[t].req.kind \in Kinds
<1>1. job[t] \in {Idle} \cup Calls
  BY DEF TypeOK, Calls
<1>2. Idle.at = "idle"
  BY DEF Idle
<1>3. "idle" \notin WorkingAt
  BY DEF WorkingAt
<1> QED
  BY <1>1, <1>2, <1>3, RequestFacts DEF Calls

\* A planned step keeps the request and touches no other thread.
LEMMA PlanFacts ==
    ASSUME TypeOK, NEW t \in Threads, job[t].at # "idle",
           NEW at \in WorkingAt, NEW out \in Outcomes \cup {"doubt", "left"},
           Plan(t, at, out)
    PROVE  /\ job' \in [Threads -> {Idle} \cup Calls]
           /\ job'[t].at = at /\ job'[t].out = out /\ job'[t].req = job[t].req
           /\ \A u \in Threads : u # t => job'[u] = job[u]
<1>1. job \in [Threads -> {Idle} \cup Calls] /\ job[t] \in Calls
  BY JobFacts DEF TypeOK, Calls
<1> DEFINE c == [job[t] EXCEPT !.at = at, !.out = out]
<1>2. c \in Calls /\ c.at = at /\ c.out = out /\ c.req = job[t].req
  BY <1>1 DEF Calls
<1>3. job' = [job EXCEPT ![t] = c]
  BY DEF Plan
<1> HIDE DEF c
<1> QED
  BY <1>1, <1>2, <1>3

\* So does a step that only changes the place.
LEMMA GotoFacts ==
    ASSUME TypeOK, NEW t \in Threads, job[t].at # "idle", NEW at \in WorkingAt, Goto(t, at)
    PROVE  /\ job' \in [Threads -> {Idle} \cup Calls]
           /\ job'[t].at = at /\ job'[t].out = job[t].out /\ job'[t].req = job[t].req
           /\ \A u \in Threads : u # t => job'[u] = job[u]
<1>1. job \in [Threads -> {Idle} \cup Calls] /\ job[t] \in Calls
  BY JobFacts DEF TypeOK, Calls
<1> DEFINE c == [job[t] EXCEPT !.at = at]
<1>2. c \in Calls /\ c.at = at /\ c.out = job[t].out /\ c.req = job[t].req
  BY <1>1 DEF Calls
<1>3. job' = [job EXCEPT ![t] = c]
  BY DEF Goto
<1> HIDE DEF c
<1> QED
  BY <1>1, <1>2, <1>3

\* A transaction on a row keeps its request and touches no other row.
LEMMA SetRowFacts ==
    ASSUME journal \in [Ops -> Rows], NEW o \in Ops, journal[o] # None,
           NEW status \in {"attention", "succeeded", "failed"}, NEW evidence \in Evidence,
           SetRow(o, status, evidence)
    PROVE  /\ journal' \in [Ops -> Rows]
           /\ journal'[o] # None
           /\ journal'[o].status = status
           /\ journal'[o].req = journal[o].req
           /\ \A p \in Ops : p # o => journal'[p] = journal[p]
<1>1. journal[o] \in Records
  BY RowFacts
<1> DEFINE c == [journal[o] EXCEPT !.status = status, !.evidence = evidence]
<1>2. c \in Records /\ c.status = status /\ c.req = journal[o].req
  BY <1>1 DEF Records
<1>3. journal' = [journal EXCEPT ![o] = c]
  BY DEF SetRow
<1>4. c \in Rows /\ c # None
  BY <1>2 DEF Rows, Records, None
<1> HIDE DEF c
<1> QED
  BY <1>2, <1>3, <1>4

\* Forgetting an entry of the cache leaves entries of the same kind, no more than before.
LEMMA WithoutFacts ==
    ASSUME NEW S, cache \in Seq(S), NEW o
    PROVE  /\ Without(o) \in Seq(S) /\ Len(Without(o)) <= Len(cache)
           /\ Cached(o) # {} => Len(Without(o)) = Len(cache) - 1
<1>1. CASE Cached(o) = {}
  BY <1>1 DEF Without
<1>2. CASE Cached(o) # {}
  <2> DEFINE i == CHOOSE j \in Cached(o) : TRUE
  <2>1. i \in 1 .. Len(cache)
    BY <1>2 DEF Cached
  <2>2. Without(o) = SubSeq(cache, 1, i - 1) \o SubSeq(cache, i + 1, Len(cache))
    BY <1>2 DEF Without, RemoveAt
  <2> HIDE DEF i
  <2>3. Len(cache) \in Nat /\ i \in Int
    BY <2>1
  <2>4. /\ SubSeq(cache, 1, i - 1) \in Seq(S)
        /\ Len(SubSeq(cache, 1, i - 1)) = i - 1
    <3>1. \A j \in 1 .. i - 1 : cache[j] \in S
      BY <2>1, <2>3
    <3> QED
      BY <3>1, <2>1, <2>3, SubSeqProperties
  <2>5. /\ SubSeq(cache, i + 1, Len(cache)) \in Seq(S)
        /\ Len(SubSeq(cache, i + 1, Len(cache))) = Len(cache) - i
    <3>1. \A j \in i + 1 .. Len(cache) : cache[j] \in S
      BY <2>1, <2>3
    <3> QED
      BY <3>1, <2>1, <2>3, SubSeqProperties
  <2>6. Without(o) \in Seq(S) /\ Len(Without(o)) = (i - 1) + (Len(cache) - i)
    BY <2>2, <2>4, <2>5, ConcatProperties
  <2> QED
    BY <2>3, <2>6
<1> QED
  BY <1>1, <1>2

\* The cache stays within its size and holds what was there or the new entry.
LEMMA RememberFacts ==
    ASSUME NEW S, cache \in Seq(S), Len(cache) <= CacheSize, NEW e \in S
    PROVE  Remember(e) \in Seq(S) /\ Len(Remember(e)) <= CacheSize
<1> DEFINE s == Append(Without(e.op), e)
<1>1. s \in Seq(S) /\ Len(s) <= Len(cache) + 1 /\ Len(cache) \in Nat /\ Len(s) > 0
  BY WithoutFacts
<1>2. Remember(e) = IF Len(s) > CacheSize THEN Tail(s) ELSE s
  BY DEF Remember
<1>3. CacheSize \in Nat
  BY WorkloadsAssumption DEF WorkloadsAssumption
<1> HIDE DEF s
<1> QED
  BY <1>1, <1>2, <1>3

-----------------------------------------------------------------------------
(* What the steps of the handlers have in common.                          *)

\* Rows only move on: a row keeps its request, a settled row stays as it is,
\* and an ensure in doubt stays in doubt.
RowsMoveOn ==
    \A o \in Ops :
        journal[o] # None =>
            /\ journal'[o] # None /\ journal'[o].req = journal[o].req
            /\ journal[o].status \in {"succeeded", "failed"} => journal'[o].status = journal[o].status
            /\ journal[o].status = "attention" /\ journal[o].req.kind = "ensure" =>
                  journal'[o].status = "attention"

\* What the journal stood behind, it stands behind after such a step.
LEMMA BackedKept ==
    ASSUME RowsMoveOn, NEW r \in Requests, NEW out, Backed(r, out)
    PROVE  Backed(r, out)'
BY RequestFacts DEF RowsMoveOn, Backed, Status

\* The cache and the answers given stay backed while they are left alone.
LEMMA AnswersKept ==
    ASSUME TypeOK, RowsMoveOn
    PROVE  /\ Entries \subseteq Entries'
           /\ CacheBacked /\ UNCHANGED cache => CacheBacked'
           /\ AnsweredBacked /\ UNCHANGED answered => AnsweredBacked'
<1>1. Entries \subseteq Entries'
  <2> SUFFICES ASSUME NEW e \in Entries PROVE e \in Entries'
    OBVIOUS
  <2>1. e \in [op : Ops, req : Requests, out : Final] /\ e.op = e.req.op
    BY DEF Entries
  <2>2. e.req \in Requests
    BY <2>1
  <2>3. e.out \in Recorded => Backed(e.req, e.out)'
    BY <2>2, BackedKept DEF Entries
  <2> QED
    BY <2>1, <2>3 DEF Entries
<1>2. CacheBacked /\ UNCHANGED cache => CacheBacked'
  <2> SUFFICES ASSUME cache \in Seq(Entries) PROVE cache \in Seq(Entries')
    BY DEF CacheBacked
  <2> QED
    BY <1>1
<1>3. AnsweredBacked /\ UNCHANGED answered => AnsweredBacked'
  <2> SUFFICES ASSUME AnsweredBacked, UNCHANGED answered, NEW a \in answered
               PROVE  a.op = a.req.op /\ Backed(a.req, a.out)'
    BY DEF AnsweredBacked
  <2>1. a.req \in Requests
    BY DEF TypeOK
  <2> QED
    BY <2>1, BackedKept DEF AnsweredBacked
<1> QED
  BY <1>1, <1>2, <1>3

\* A step of one handler that changes only the row of its own operation, or
\* settles rows that were in doubt, leaves the others where they were.
LEMMA OthersKept ==
    ASSUME BrokerInv, TypeOK', NEW t \in Threads, NEW u \in Threads, u # t,
           HoldsOperation(t), job'[u] = job[u], RowsMoveOn,
           \A o \in Ops : o # job[t].req.op =>
              /\ invoked'[o] = invoked[o]
              /\ journal'[o] = journal[o] \/ journal[o].status = "attention"
    PROVE  JobAt(u)'
<1>1. CASE job[u].at \in {"idle", "queued"}
  BY <1>1 DEF JobAt
<1>2. CASE job[u].at \notin {"idle", "queued"}
  <2>1. job[u].req \in Requests /\ job[u].req.op \in Ops
    BY <1>2, JobFacts DEF BrokerInv
  <2>2. job[u].req.op # job[t].req.op
    BY <1>2 DEF BrokerInv, LocksHeld, HoldsOperation
  <2>3. JobAt(u)
    BY DEF BrokerInv, JobsAt
  <2> DEFINE r == job[u].req
  <2>4. /\ job[u].at \in {"reserved", "ran", "settle"} =>
              Status(r.op)' = "running" /\ journal'[r.op].req = r
        /\ job[u].at = "reserved" => invoked'[r.op] = 0
    BY <2>1, <2>2, <2>3 DEF JobAt, Status
  <2>7. job[u].at \in {"prior", "reserve"} /\ r.kind # "docker" => journal'[r.op] = None
    BY <2>1, <2>2, <2>3 DEF JobAt, None
  <2>5. job[u].at = "reconcile" => journal'[r.op] # None /\ journal'[r.op].req = r
    BY <2>1, <2>3 DEF JobAt, RowsMoveOn
  <2>6. job[u].at = "answer" /\ job[u].out \in Recorded => Backed(r, job[u].out)'
    BY <2>1, <2>3, BackedKept DEF JobAt
  <2> QED
    BY <2>3, <2>4, <2>5, <2>6, <2>7 DEF JobAt, Backed
<1> QED
  BY <1>1, <1>2

\* A handler is at work only while the broker is open or draining.
LEMMA WorkingFacts ==
    ASSUME BrokerInv, NEW t \in Threads, job[t].at # "idle"
    PROVE  broker \in {"open", "draining"}
BY JobFacts DEF BrokerInv, QuietUntilOpen, TypeOK

\* The step of a handler that holds its operation keeps the invariant when it
\* keeps the parts that concern it.
LEMMA HandlerKeeps ==
    ASSUME BrokerInv, TypeOK', NEW t \in Threads, HoldsOperation(t), broker' = broker,
           job'[t] = Idle \/ job'[t].req = job[t].req,
           \A u \in Threads : u # t => job'[u] = job[u],
           RowsMoveOn, JobAt(t)', CacheBacked', AnsweredBacked', RowsHold', OneUnresolvedPerTarget',
           \A o \in Ops : o # job[t].req.op =>
              /\ invoked'[o] = invoked[o]
              /\ journal'[o] = journal[o] \/ journal[o].status = "attention"
    PROVE  BrokerInv'
<1>1. broker \in {"open", "draining"}
  BY WorkingFacts DEF HoldsOperation
<1>2. JobsAt'
  <2> SUFFICES ASSUME NEW u \in Threads PROVE JobAt(u)'
    BY DEF JobsAt
  <2>1. CASE u = t
    BY <2>1
  <2>2. CASE u # t
    BY <2>2, OthersKept
  <2> QED
    BY <2>1, <2>2
<1>3. LocksHeld'
  BY DEF BrokerInv, LocksHeld, HoldsOperation, Idle
<1>4. QuietUntilOpen' /\ HalfRecovered' /\ TargetsAreFenced'
  BY <1>1 DEF QuietUntilOpen, HalfRecovered, TargetsAreFenced, FencedBeforeAdmission
<1> QED
  BY <1>2, <1>3, <1>4 DEF BrokerInv

\* A step that leaves the journal, the cache and the answers alone keeps what
\* concerns only them.
LEMMA DurableKept ==
    ASSUME BrokerInv, UNCHANGED <<journal, invoked>>
    PROVE  /\ RowsMoveOn /\ RowsHold' /\ OneUnresolvedPerTarget'
           /\ UNCHANGED cache => CacheBacked'
           /\ UNCHANGED answered => AnsweredBacked'
<1>1. RowsMoveOn
  BY DEF RowsMoveOn
<1>2. RowsHold' /\ OneUnresolvedPerTarget'
  BY DEF BrokerInv, RowsHold, TargetsAreFenced, OneUnresolvedPerTarget, Unresolved, Status
<1> QED
  BY <1>1, <1>2, AnswersKept DEF BrokerInv

\* A handler that moves on without touching shared state keeps the invariant
\* when it may be where it goes.
LEMMA MoveKeeps ==
    ASSUME BrokerInv, NEW t \in Threads, HoldsOperation(t),
           UNCHANGED <<workload, broker, cache, journal, invoked, answered>>,
           job' \in [Threads -> {Idle} \cup Calls],
           job'[t].req = job[t].req,
           \A u \in Threads : u # t => job'[u] = job[u],
           JobAt(t)'
    PROVE  BrokerInv'
<1>1. TypeOK'
  BY DEF BrokerInv, TypeOK, Calls
<1> QED
  BY <1>1, DurableKept, HandlerKeeps

-----------------------------------------------------------------------------
(* The serialized mutation writer.                                         *)

\* A new call holds no lock and relies on nothing.
LEMMA CallKeeps ==
    ASSUME BrokerInv, NEW t \in Threads, Call(t), UNCHANGED workload
    PROVE  BrokerInv'
<1>1. PICK r \in workload : job' = [job EXCEPT ![t] = [at |-> "queued", req |-> r, out |-> "retry"]]
  BY DEF Call
<1>2. /\ job[t].at = "idle" /\ broker = "open"
      /\ UNCHANGED <<broker, cache, journal, invoked, answered>>
  BY DEF Call, Working, Accepting
<1>3. r \in Requests
  BY DEF BrokerInv, TypeOK, Requests
<1>4. [at |-> "queued", req |-> r, out |-> "retry"] \in Calls
  BY <1>3 DEF Calls, WorkingAt, Outcomes
<1>5. /\ job' \in [Threads -> {Idle} \cup Calls]
      /\ job'[t].at = "queued" /\ job'[t].req = r
      /\ \A u \in Threads : u # t => job'[u] = job[u]
  BY <1>1, <1>4 DEF BrokerInv, TypeOK, Calls
<1>6. TypeOK'
  BY <1>2, <1>5 DEF BrokerInv, TypeOK, Calls
<1>7. JobsAt'
  <2> SUFFICES ASSUME NEW u \in Threads PROVE JobAt(u)'
    BY DEF JobsAt
  <2>1. CASE u = t
    BY <2>1, <1>5 DEF JobAt
  <2>2. CASE u # t
    <3>1. JobAt(u) /\ job'[u] = job[u]
      BY <2>2, <1>5 DEF BrokerInv, JobsAt
    <3> QED
      BY <3>1, <1>2 DEF JobAt, Backed, Status
  <2> QED
    BY <2>1, <2>2
<1>8. LocksHeld'
  BY <1>5 DEF BrokerInv, LocksHeld, HoldsOperation
<1>9. RowsHold' /\ OneUnresolvedPerTarget' /\ CacheBacked' /\ AnsweredBacked'
  BY <1>2, DurableKept
<1>10. QuietUntilOpen' /\ HalfRecovered' /\ TargetsAreFenced'
  BY <1>2, <1>9 DEF QuietUntilOpen, HalfRecovered, TargetsAreFenced, FencedBeforeAdmission
<1> QED
  BY <1>6, <1>7, <1>8, <1>9, <1>10 DEF BrokerInv

\* The operation lock is taken only when no other handler holds it.
LEMMA TakeOperationKeeps ==
    ASSUME BrokerInv, NEW t \in Threads, TakeOperation(t), UNCHANGED workload
    PROVE  BrokerInv'
<1>1. /\ job[t].at = "queued" /\ Goto(t, "keyed")
      /\ \A u \in Threads : ~(HoldsOperation(u) /\ job[u].req.op = job[t].req.op)
      /\ UNCHANGED <<broker, cache, journal, invoked, answered>>
  BY DEF TakeOperation
<1>2. /\ job' \in [Threads -> {Idle} \cup Calls]
      /\ job'[t].at = "keyed" /\ job'[t].req = job[t].req
      /\ \A u \in Threads : u # t => job'[u] = job[u]
  BY <1>1, GotoFacts DEF BrokerInv, WorkingAt
<1>3. TypeOK'
  BY <1>1, <1>2 DEF BrokerInv, TypeOK, Calls
<1>4. JobsAt'
  <2> SUFFICES ASSUME NEW u \in Threads PROVE JobAt(u)'
    BY DEF JobsAt
  <2>1. CASE u = t
    BY <2>1, <1>2 DEF JobAt
  <2>2. CASE u # t
    <3>1. JobAt(u) /\ job'[u] = job[u]
      BY <2>2, <1>2 DEF BrokerInv, JobsAt
    <3> QED
      BY <3>1, <1>1 DEF JobAt, Backed, Status
  <2> QED
    BY <2>1, <2>2
<1>5. LocksHeld'
  BY <1>1, <1>2 DEF BrokerInv, LocksHeld, HoldsOperation
<1>6. RowsHold' /\ OneUnresolvedPerTarget' /\ CacheBacked' /\ AnsweredBacked'
  BY <1>1, DurableKept
<1>7. QuietUntilOpen' /\ HalfRecovered' /\ TargetsAreFenced'
  <2>1. broker' \in {"open", "draining"}
    BY <1>1, WorkingFacts
  <2> QED
    BY <2>1, <1>6 DEF QuietUntilOpen, HalfRecovered, TargetsAreFenced, FencedBeforeAdmission
<1> QED
  BY <1>3, <1>4, <1>5, <1>6, <1>7 DEF BrokerInv

\* The resource lock changes nothing but the handler's place.
LEMMA TakeResourceKeeps ==
    ASSUME BrokerInv, NEW t \in Threads, TakeResource(t), UNCHANGED workload
    PROVE  BrokerInv'
<1>1. /\ job[t].at = "keyed" /\ Goto(t, "locked")
      /\ UNCHANGED <<broker, cache, journal, invoked, answered>>
  BY DEF TakeResource
<1>2. /\ job' \in [Threads -> {Idle} \cup Calls]
      /\ job'[t].at = "locked" /\ job'[t].req = job[t].req
      /\ \A u \in Threads : u # t => job'[u] = job[u]
  BY <1>1, GotoFacts DEF BrokerInv, WorkingAt
<1>3. JobAt(t)' /\ HoldsOperation(t)
  BY <1>1, <1>2 DEF JobAt, HoldsOperation
<1> QED
  BY <1>1, <1>2, <1>3, MoveKeeps

\* A handler that leaves with an answer the journal stands behind, and a
\* cache that holds only such answers, keep the invariant.
LEMMA LeaveKeeps ==
    ASSUME BrokerInv, NEW t \in Threads, HoldsOperation(t), NEW out \in Outcomes, Leave(t, out),
           out \in Recorded => Backed(job[t].req, out),
           UNCHANGED <<workload, broker, journal, invoked>>,
           cache' \in Seq(Entries), Len(cache') <= CacheSize
    PROVE  BrokerInv'
<1>1. job[t].at # "idle" /\ job[t].req \in Requests /\ job[t].req.op \in Ops
  BY JobFacts DEF BrokerInv, HoldsOperation
<1>2. /\ job' \in [Threads -> {Idle} \cup Calls]
      /\ job'[t] = Idle
      /\ \A u \in Threads : u # t => job'[u] = job[u]
  BY DEF Leave, BrokerInv, TypeOK, Calls
<1>3. \A a \in answered' :
         a \in answered \/ (a = [op |-> job[t].req.op, req |-> job[t].req, out |-> out]
                            /\ out \in Recorded)
  BY DEF Leave
<1>4. RowsMoveOn /\ RowsHold' /\ OneUnresolvedPerTarget'
  BY DurableKept
<1>5. CacheBacked'
  BY <1>4, AnswersKept DEF CacheBacked, BrokerInv
<1>6. AnsweredBacked'
  <2> SUFFICES ASSUME NEW a \in answered'
               PROVE  a.op = a.req.op /\ Backed(a.req, a.out)'
    BY DEF AnsweredBacked
  <2>1. CASE a \in answered
    <3>1. a.op = a.req.op /\ a.req \in Requests /\ Backed(a.req, a.out)
      BY <2>1 DEF BrokerInv, AnsweredBacked, TypeOK
    <3> QED
      BY <3>1, <1>4, BackedKept
  <2>2. CASE a \notin answered
    <3>1. a.op = job[t].req.op /\ a.req = job[t].req /\ a.out = out /\ out \in Recorded
      BY <2>2, <1>3
    <3> QED
      BY <3>1, <1>1, <1>4, BackedKept
  <2> QED
    BY <2>1, <2>2
<1>7. TypeOK'
  <2>1. answered' \subseteq [op : Ops, req : Requests, out : Recorded]
    BY <1>1, <1>3 DEF BrokerInv, TypeOK
  <2>2. cache' \in Seq([op : Ops, req : Requests, out : Final])
    <3> DEFINE E == [op : Ops, req : Requests, out : Final]
    <3>1. Entries \subseteq E
      BY DEF Entries
    <3> HIDE DEF E
    <3>2. cache' \in Seq(E)
      BY <3>1
    <3> QED
      BY <3>2 DEF E
  <2> QED
    BY <2>1, <2>2, <1>2 DEF BrokerInv, TypeOK, Calls
<1>8. JobAt(t)'
  BY <1>2 DEF JobAt, Idle
<1> QED
  BY <1>2, <1>4, <1>5, <1>6, <1>7, <1>8, HandlerKeeps

\* Admission after the locks, and a repetition answered from the cache.
LEMMA TurnKeeps ==
    ASSUME BrokerInv, NEW t \in Threads, Turn(t), UNCHANGED workload
    PROVE  BrokerInv'
<1>1. job[t].at = "locked" /\ HoldsOperation(t) /\ UNCHANGED <<broker, journal, invoked>>
  BY DEF Turn, HoldsOperation
<1>2. job[t].req \in Requests /\ cache \in Seq(Entries) /\ Len(cache) <= CacheSize
  BY <1>1, JobFacts DEF BrokerInv, CacheBacked, TypeOK
<1>3. CASE Leave(t, "retry") /\ UNCHANGED cache
  <2>1. "retry" \in Outcomes /\ "retry" \notin Recorded
    BY DEF Outcomes, Recorded, Final
  <2> QED
    BY <1>1, <1>2, <1>3, <2>1, LeaveKeeps
<1>4. ASSUME NEW i \in DOMAIN cache,
             cache[i].op = job[t].req.op,
             cache' = Append(Without(cache[i].op), cache[i]),
             Leave(t, IF cache[i].req = job[t].req THEN cache[i].out ELSE "refused")
      PROVE  BrokerInv'
  <2>1. cache[i] \in Entries
    BY <1>2
  <2>2. cache' \in Seq(Entries) /\ Len(cache') <= CacheSize
    <3>1. Cached(cache[i].op) # {}
      BY DEF Cached
    <3>2. Without(cache[i].op) \in Seq(Entries) /\ Len(Without(cache[i].op)) = Len(cache) - 1
      BY <3>1, <1>2, WithoutFacts
    <3> HIDE DEF Without
    <3> QED
      BY <3>2, <2>1, <1>2, <1>4
  <2> DEFINE out == IF cache[i].req = job[t].req THEN cache[i].out ELSE "refused"
  <2>3. out \in Outcomes /\ (out \in Recorded => Backed(job[t].req, out))
    BY <2>1 DEF Entries, Outcomes, Recorded, Final
  <2>4. Leave(t, out)
    BY <1>4
  <2> HIDE DEF out
  <2> QED
    BY <2>2, <2>3, <2>4, <1>1, LeaveKeeps
<1>5. CASE Goto(t, "backend") /\ UNCHANGED <<cache, answered>>
  <2>1. /\ job' \in [Threads -> {Idle} \cup Calls]
        /\ job'[t].at = "backend" /\ job'[t].req = job[t].req
        /\ \A u \in Threads : u # t => job'[u] = job[u]
    BY <1>1, <1>5, GotoFacts DEF BrokerInv, WorkingAt
  <2>2. JobAt(t)'
    BY <2>1 DEF JobAt
  <2> QED
    BY <1>1, <1>5, <2>1, <2>2, MoveKeeps
<1> QED
  BY <1>3, <1>4, <1>5 DEF Turn

\* The outcome is remembered, told, and the locks are released.
LEMMA ReplyKeeps ==
    ASSUME BrokerInv, NEW t \in Threads, Reply(t), UNCHANGED workload
    PROVE  BrokerInv'
<1>1. /\ job[t].at = "answer" /\ HoldsOperation(t) /\ Leave(t, job[t].out)
      /\ UNCHANGED <<broker, journal, invoked>>
  BY DEF Reply, HoldsOperation
<1>2. /\ job[t].req \in Requests /\ job[t].req.op \in Ops
      /\ cache \in Seq(Entries) /\ Len(cache) <= CacheSize
  BY <1>1, JobFacts DEF BrokerInv, CacheBacked, TypeOK
<1>3. job[t].out \in Outcomes /\ (job[t].out \in Recorded => Backed(job[t].req, job[t].out))
  BY <1>1 DEF BrokerInv, JobsAt, JobAt
<1>4. cache' \in Seq(Entries) /\ Len(cache') <= CacheSize
  <2>1. CASE job[t].out \in Final
    <3> DEFINE e == [op |-> job[t].req.op, req |-> job[t].req, out |-> job[t].out]
    <3>1. e \in Entries
      BY <2>1, <1>2, <1>3 DEF Entries
    <3>2. cache' = Remember(e)
      BY <2>1 DEF Reply
    <3> HIDE DEF e
    <3> QED
      BY <3>1, <3>2, <1>2, RememberFacts
  <2>2. CASE job[t].out \notin Final
    BY <2>2, <1>2 DEF Reply
  <2> QED
    BY <2>1, <2>2
<1> QED
  BY <1>1, <1>3, <1>4, LeaveKeeps

-----------------------------------------------------------------------------
(* The backend.                                                            *)

\* The durable row decides what a repetition is told: an outcome it stands
\* behind, or a reconciliation of the same request.
LEMMA DispositionFacts ==
    ASSUME BrokerInv, NEW r \in Requests
    PROVE  /\ Disposition(r) \in Outcomes \cup {"new", "reconcile"}
           /\ Disposition(r) = "new" <=> journal[r.op] = None
           /\ Disposition(r) \in Recorded => Backed(r, Disposition(r))
           /\ Disposition(r) = "reconcile" =>
                 /\ r.kind \in {"runtime", "compose"}
                 /\ journal[r.op] # None /\ journal[r.op].req = r
<1>1. r.op \in Ops /\ r.kind \in Kinds
  BY RequestFacts
<1>2. journal[r.op] # None => journal[r.op].status \in {"running", "attention", "succeeded", "failed"}
  BY <1>1, RowFacts DEF BrokerInv, TypeOK, Status
<1>3. CASE journal[r.op] = None
  <2>1. Disposition(r) = "new"
    BY <1>3 DEF Disposition
  <2> QED
    BY <1>3, <2>1 DEF Recorded, Final, Outcomes
<1>4. CASE journal[r.op] # None /\ journal[r.op].req # r
  <2>1. Disposition(r) = "refused"
    BY <1>4 DEF Disposition
  <2> QED
    BY <1>4, <2>1 DEF Recorded, Final, Outcomes
<1>5. CASE journal[r.op] # None /\ journal[r.op].req = r
  <2>1. CASE journal[r.op].status = "succeeded"
    <3>1. Disposition(r) = "ok"
      BY <1>5, <2>1 DEF Disposition
    <3> QED
      BY <1>5, <2>1, <3>1 DEF Backed, Status, Outcomes, Final
  <2>2. CASE journal[r.op].status = "failed"
    <3>1. Disposition(r) = "failed"
      BY <1>5, <2>2 DEF Disposition
    <3> QED
      BY <1>5, <2>2, <3>1 DEF Backed, Status, Outcomes, Final
  <2>3. CASE journal[r.op].status = "running"
    <3>1. Disposition(r) = "retry"
      BY <1>5, <2>3 DEF Disposition
    <3> QED
      BY <1>5, <3>1 DEF Recorded, Final, Outcomes
  <2>4. CASE journal[r.op].status = "attention"
    <3>1. CASE r.kind \in {"runtime", "compose"}
      <4>1. Disposition(r) = "reconcile"
        BY <1>5, <2>4, <3>1 DEF Disposition
      <4> QED
        BY <1>5, <3>1, <4>1 DEF Recorded, Final
    <3>2. CASE r.kind = "docker"
      <4>1. Disposition(r) = "retry"
        BY <1>5, <2>4, <3>2 DEF Disposition
      <4> QED
        BY <1>5, <4>1 DEF Recorded, Final, Outcomes
    <3>3. CASE r.kind = "ensure"
      <4>1. Disposition(r) = IF journal[r.op].evidence = "answer" THEN "attention" ELSE "refused"
        BY <1>5, <2>4, <3>3 DEF Disposition
      <4> QED
        BY <1>5, <2>4, <3>3, <4>1 DEF Backed, Status, Recorded, Final, Outcomes
    <3> QED
      BY <1>1, <3>1, <3>2, <3>3 DEF Kinds
  <2> QED
    BY <1>2, <1>5, <2>1, <2>2, <2>3, <2>4
<1> QED
  BY <1>3, <1>4, <1>5

\* A handler may always go to its answer with an outcome the journal stands behind.
LEMMA AnswerKeeps ==
    ASSUME BrokerInv, NEW t \in Threads, HoldsOperation(t), NEW out \in Outcomes, Answer(t, out),
           out \in Recorded => Backed(job[t].req, out),
           UNCHANGED <<workload, broker, cache, journal, invoked, answered>>
    PROVE  BrokerInv'
<1>1. /\ job' \in [Threads -> {Idle} \cup Calls]
      /\ job'[t].at = "answer" /\ job'[t].out = out /\ job'[t].req = job[t].req
      /\ \A u \in Threads : u # t => job'[u] = job[u]
  BY PlanFacts DEF Answer, BrokerInv, HoldsOperation, WorkingAt
<1>2. JobAt(t)'
  BY <1>1 DEF JobAt, Backed, Status
<1> QED
  BY <1>1, <1>2, MoveKeeps

\* Neither an error without a record nor a refusal needs a row.
LEMMA PlainAnswers ==
    {"retry", "refused"} \subseteq Outcomes /\ {"retry", "refused"} \cap Recorded = {}
BY DEF Outcomes, Final, Recorded

\* The existing disposition sends a new request on and answers a repeated one.
LEMMA BeginKeeps ==
    ASSUME BrokerInv, NEW t \in Threads, Begin(t), UNCHANGED workload
    PROVE  BrokerInv'
<1>1. /\ job[t].at = "backend" /\ HoldsOperation(t)
      /\ UNCHANGED <<broker, cache, journal, invoked, answered>>
  BY DEF Begin, HoldsOperation
<1>2. job[t].req \in Requests
  BY <1>1, JobFacts DEF BrokerInv
<1> DEFINE r == job[t].req
           d == Disposition(r)
<1>3. /\ d \in Outcomes \cup {"new", "reconcile"}
      /\ d = "new" <=> journal[r.op] = None
      /\ d \in Recorded => Backed(r, d)
      /\ d = "reconcile" => /\ r.kind \in {"runtime", "compose"}
                            /\ journal[r.op] # None /\ journal[r.op].req = r
  BY <1>2, DispositionFacts
<1>4. \/ r.kind = "docker" /\ Goto(t, "reserve")
      \/ r.kind # "docker" /\ d = "new" /\ (Goto(t, "reserve") \/ Goto(t, "prior") \/ Answer(t, "refused"))
      \/ d = "reconcile" /\ Goto(t, "reconcile")
      \/ d \notin {"new", "reconcile"} /\ Answer(t, d)
  BY DEF Begin
<1> HIDE DEF d
<1>5. ASSUME NEW at \in {"prior", "reserve", "reconcile"}, Goto(t, at),
             at \in {"prior", "reserve"} /\ r.kind # "docker" => journal[r.op] = None,
             at = "reconcile" => /\ r.kind \in {"runtime", "compose"}
                                 /\ journal[r.op] # None /\ journal[r.op].req = r
      PROVE  BrokerInv'
  <2>1. at \in WorkingAt
    BY DEF WorkingAt
  <2>2. /\ job' \in [Threads -> {Idle} \cup Calls]
        /\ job'[t].at = at /\ job'[t].req = job[t].req
        /\ \A u \in Threads : u # t => job'[u] = job[u]
    BY <2>1, <1>1, <1>5, GotoFacts DEF BrokerInv
  <2>3. JobAt(t)'
    BY <2>2, <1>1, <1>5 DEF JobAt
  <2> QED
    BY <2>2, <2>3, <1>1, MoveKeeps
<1>6. CASE r.kind = "docker" /\ Goto(t, "reserve")
  BY <1>5, <1>6
<1>7. CASE r.kind # "docker" /\ d = "new" /\ (Goto(t, "reserve") \/ Goto(t, "prior") \/ Answer(t, "refused"))
  BY <1>1, <1>3, <1>5, <1>7, PlainAnswers, AnswerKeeps
<1>8. CASE d = "reconcile" /\ Goto(t, "reconcile")
  BY <1>3, <1>5, <1>8
<1>9. CASE d \notin {"new", "reconcile"} /\ Answer(t, d)
  BY <1>1, <1>3, <1>9, AnswerKeeps
<1> QED
  BY <1>4, <1>6, <1>7, <1>8, <1>9

\* A transaction that settles a running row, or a row in doubt that is not an
\* ensure's, or puts a running one in doubt.
LEMMA RowStepFacts ==
    ASSUME BrokerInv, NEW o \in Ops, NEW status \in {"attention", "succeeded", "failed"},
           NEW evidence \in Evidence, SetRow(o, status, evidence),
           \/ Status(o) = "running"
           \/ Status(o) = "attention" /\ journal[o].req.kind # "ensure",
           UNCHANGED <<cache, invoked, answered>>
    PROVE  /\ journal' \in [Ops -> Rows] /\ journal'[o] # None /\ journal[o] # None
           /\ journal'[o].status = status
           /\ journal'[o].req = journal[o].req
           /\ \A p \in Ops : p # o => journal'[p] = journal[p]
           /\ RowsMoveOn /\ RowsHold' /\ OneUnresolvedPerTarget' /\ CacheBacked' /\ AnsweredBacked'
<1>1. journal \in [Ops -> Rows] /\ journal[o] # None
  BY DEF BrokerInv, TypeOK, Status, None
<1>2. /\ journal' \in [Ops -> Rows] /\ journal'[o] # None
      /\ journal'[o].status = status
      /\ journal'[o].req = journal[o].req
      /\ \A p \in Ops : p # o => journal'[p] = journal[p]
  BY <1>1, SetRowFacts
<1>3. RowsMoveOn
  BY <1>2 DEF RowsMoveOn, Status
<1>4. RowsHold'
  BY <1>1, <1>2 DEF BrokerInv, RowsHold
<1>5. OneUnresolvedPerTarget'
  <2>1. \A p \in Ops : Unresolved(p)' => Unresolved(p) /\ journal'[p].req = journal[p].req
    BY <1>2 DEF Unresolved, Status
  <2> QED
    BY <2>1 DEF BrokerInv, TargetsAreFenced, OneUnresolvedPerTarget
<1> QED
  BY <1>1, <1>2, <1>3, <1>4, <1>5, AnswersKept DEF BrokerInv

\* A handler that settles a row and moves on keeps the invariant when the row
\* is its own or one in doubt, and it may be where it goes.
LEMMA RowStepKeeps ==
    ASSUME BrokerInv, NEW t \in Threads, HoldsOperation(t),
           NEW o \in Ops, NEW status \in {"attention", "succeeded", "failed"},
           NEW evidence \in Evidence, SetRow(o, status, evidence),
           \/ o = job[t].req.op /\ Status(o) = "running"
           \/ Status(o) = "attention" /\ journal[o].req.kind # "ensure",
           UNCHANGED <<workload, broker, cache, invoked, answered>>,
           job' \in [Threads -> {Idle} \cup Calls],
           job'[t].req = job[t].req,
           \A u \in Threads : u # t => job'[u] = job[u],
           JobAt(t)'
    PROVE  BrokerInv'
<1>1. /\ journal' \in [Ops -> Rows]
      /\ \A p \in Ops : p # o => journal'[p] = journal[p]
      /\ RowsMoveOn /\ RowsHold' /\ OneUnresolvedPerTarget' /\ CacheBacked' /\ AnsweredBacked'
  BY RowStepFacts
<1>2. TypeOK'
  BY <1>1 DEF BrokerInv, TypeOK, Calls
<1>3. \A p \in Ops : p # job[t].req.op =>
          /\ invoked'[p] = invoked[p]
          /\ journal'[p] = journal[p] \/ journal[p].status = "attention"
  BY <1>1 DEF Status
<1> QED
  BY <1>1, <1>2, <1>3, HandlerKeeps

\* A prior operation in doubt is settled before the new one reserves.
LEMMA PriorKeeps ==
    ASSUME BrokerInv, NEW t \in Threads, Prior(t), UNCHANGED workload
    PROVE  BrokerInv'
<1>1. /\ job[t].at = "prior" /\ HoldsOperation(t)
      /\ UNCHANGED <<broker, cache, invoked, answered>>
  BY DEF Prior, HoldsOperation
<1>2. job[t].req \in Requests /\ job[t].req.op \in Ops
  BY <1>1, JobFacts DEF BrokerInv
<1> DEFINE r == job[t].req
<1>3. r.kind # "docker" => journal[r.op] = None
  BY <1>1 DEF BrokerInv, JobsAt, JobAt
<1>4. ASSUME Goto(t, "reserve")
      PROVE  /\ job' \in [Threads -> {Idle} \cup Calls]
             /\ job'[t].at = "reserve" /\ job'[t].req = job[t].req
             /\ \A u \in Threads : u # t => job'[u] = job[u]
  BY <1>1, <1>4, GotoFacts DEF BrokerInv, WorkingAt
<1>5. CASE Answer(t, "refused") /\ UNCHANGED journal
  BY <1>1, <1>5, PlainAnswers, AnswerKeeps
<1>6. CASE Goto(t, "reserve") /\ UNCHANGED journal
  <2>1. JobAt(t)'
    BY <1>3, <1>4, <1>6 DEF JobAt
  <2> QED
    BY <1>1, <1>4, <1>6, <2>1, MoveKeeps
<1>7. ASSUME NEW o \in PriorInDoubt(r), SetRow(o, "failed", journal[o].evidence), Goto(t, "reserve")
      PROVE  BrokerInv'
  <2>1. /\ o \in Ops /\ o # r.op /\ Status(o) = "attention"
        /\ journal[o].req.kind # "ensure"
    BY DEF PriorInDoubt, Fencing
  <2>2. journal[o].evidence \in Evidence
    BY <2>1, RowFacts DEF BrokerInv, TypeOK, Status, None
  <2>3. journal'[r.op] = journal[r.op]
    BY <1>1, <1>2, <1>7, <2>1, <2>2, RowStepFacts
  <2>4. JobAt(t)'
    BY <1>3, <1>4, <1>7, <2>3 DEF JobAt
  <2> QED
    BY <1>1, <1>4, <1>7, <2>1, <2>2, <2>4, RowStepKeeps
<1> QED
  BY <1>5, <1>6, <1>7 DEF Prior

\* The reservation opens a row for a new operation whose target is free.
LEMMA ReserveKeeps ==
    ASSUME BrokerInv, NEW t \in Threads, Reserve(t), UNCHANGED workload
    PROVE  BrokerInv'
<1>1. /\ job[t].at = "reserve" /\ HoldsOperation(t)
      /\ UNCHANGED <<broker, cache, invoked, answered>>
  BY DEF Reserve, HoldsOperation
<1>2. job[t].req \in Requests /\ job[t].req.op \in Ops
  BY <1>1, JobFacts DEF BrokerInv
<1> DEFINE r == job[t].req
           d == Disposition(r)
<1>3. /\ d \in Outcomes \cup {"new", "reconcile"}
      /\ d = "new" <=> journal[r.op] = None
      /\ d \in Recorded => Backed(r, d)
      /\ d = "reconcile" => r.kind \in {"runtime", "compose"} /\ journal[r.op] # None
  BY <1>2, DispositionFacts
<1>4. d # "reconcile"
  BY <1>1, <1>3 DEF BrokerInv, JobsAt, JobAt
<1>5. CASE d # "new" /\ Answer(t, d) /\ UNCHANGED journal
  <2> HIDE DEF d
  <2> QED
    BY <1>1, <1>3, <1>4, <1>5, AnswerKeeps
<1>6. CASE Answer(t, "refused") /\ UNCHANGED journal
  BY <1>1, <1>6, PlainAnswers, AnswerKeeps
<1>7. CASE /\ d = "new" /\ Fencing(r) = {}
           /\ journal' = [journal EXCEPT ![r.op] = [status |-> "running", req |-> r, evidence |-> "none"]]
           /\ Goto(t, "reserved")
  <2>1. /\ job' \in [Threads -> {Idle} \cup Calls]
        /\ job'[t].at = "reserved" /\ job'[t].req = job[t].req
        /\ \A u \in Threads : u # t => job'[u] = job[u]
    BY <1>1, <1>7, GotoFacts DEF BrokerInv, WorkingAt
  <2> DEFINE row == [status |-> "running", req |-> r, evidence |-> "none"]
  <2>2. row \in Rows /\ row # None /\ row.status = "running" /\ row.req = r
    BY <1>2 DEF Rows, None, Evidence
  <2>3. journal' = [journal EXCEPT ![r.op] = row] /\ journal \in [Ops -> Rows]
    BY <1>7 DEF BrokerInv, TypeOK
  <2> HIDE DEF row
  <2>4. /\ journal' \in [Ops -> Rows] /\ journal'[r.op] = row
        /\ \A o \in Ops : o # r.op => journal'[o] = journal[o]
    BY <1>2, <2>2, <2>3
  <2>5. journal[r.op] = None
    BY <1>3, <1>7
  <2>6. invoked[r.op] = 0
    BY <1>2, <2>5 DEF BrokerInv, RowsHold
  <2>7. RowsMoveOn
    BY <2>4, <2>5 DEF RowsMoveOn
  <2>8. RowsHold'
    BY <1>1, <1>2, <2>2, <2>4, <2>6 DEF BrokerInv, RowsHold
  <2>9. OneUnresolvedPerTarget'
    <3> SUFFICES ASSUME NEW o \in Ops, NEW p \in Ops, Unresolved(o)', Unresolved(p)',
                        journal'[o].req.kind # "ensure", journal'[p].req.kind # "ensure",
                        journal'[o].req.target = journal'[p].req.target, o # p
                 PROVE  FALSE
      BY DEF OneUnresolvedPerTarget
    <3>1. ASSUME NEW q \in Ops, q # r.op, Unresolved(q), journal[q].req.kind # "ensure",
                 journal[q].req.target = r.target, r.kind # "ensure"
          PROVE  FALSE
      <4>1. journal[q].req \in Requests /\ journal[q].req.kind \in Kinds /\ r.kind \in Kinds
        BY <3>1, <1>2, RowFacts, RequestFacts DEF BrokerInv, TypeOK, Unresolved, Status, None
      <4>2. r.kind = "compose" <=> journal[q].req.kind = "compose"
        BY <4>1, <3>1, <1>2, WorkloadsAssumption DEF WorkloadsAssumption
      <4>3. q \in Fencing(r)
        BY <4>1, <4>2, <3>1 DEF Fencing, Kinds
      <4> QED
        BY <4>3, <1>7
    <3>2. CASE o = r.op
      <4>1. Unresolved(p) /\ journal'[p] = journal[p] /\ journal'[o].req = r
        BY <3>2, <2>2, <2>4 DEF Unresolved, Status
      <4> QED
        BY <4>1, <3>1, <3>2
    <3>3. CASE p = r.op
      <4>1. Unresolved(o) /\ journal'[o] = journal[o] /\ journal'[p].req = r
        BY <3>3, <2>2, <2>4 DEF Unresolved, Status
      <4> QED
        BY <4>1, <3>1, <3>3
    <3>4. CASE o # r.op /\ p # r.op
      <4>1. /\ Unresolved(o) /\ journal'[o] = journal[o]
            /\ Unresolved(p) /\ journal'[p] = journal[p]
        BY <3>4, <2>4 DEF Unresolved, Status
      <4> QED
        BY <4>1 DEF BrokerInv, TargetsAreFenced, OneUnresolvedPerTarget
    <3> QED
      BY <3>2, <3>3, <3>4
  <2>10. JobAt(t)'
    BY <1>1, <2>1, <2>2, <2>4, <2>6 DEF JobAt, Status
  <2>11. TypeOK'
    BY <1>1, <2>1, <2>4 DEF BrokerInv, TypeOK, Calls
  <2>12. CacheBacked' /\ AnsweredBacked'
    BY <1>1, <2>7, AnswersKept DEF BrokerInv
  <2> QED
    BY <1>1, <2>1, <2>4, <2>7, <2>8, <2>9, <2>10, <2>11, <2>12, HandlerKeeps
<1> QED
  BY <1>5, <1>6, <1>7 DEF Reserve

\* A preflight that declines leaves the row running for the settlement.
LEMMA DeclineKeeps ==
    ASSUME BrokerInv, NEW t \in Threads, Decline(t), UNCHANGED workload
    PROVE  BrokerInv'
<1>1. /\ job[t].at = "reserved" /\ HoldsOperation(t)
      /\ UNCHANGED <<broker, cache, journal, invoked, answered>>
  BY DEF Decline, HoldsOperation
<1>2. PICK p \in {"ok", "failed", "attention", "doubt"} :
         Plan(t, "settle", p) /\ (p = "attention" => job[t].req.kind = "ensure")
  BY DEF Decline
<1>3. JobAt(t)
  BY DEF BrokerInv, JobsAt
<1>4. "settle" \in WorkingAt /\ p \in Outcomes \cup {"doubt", "left"}
  BY DEF WorkingAt, Outcomes, Final
<1>5. /\ job' \in [Threads -> {Idle} \cup Calls]
      /\ job'[t].at = "settle" /\ job'[t].out = p /\ job'[t].req = job[t].req
      /\ \A u \in Threads : u # t => job'[u] = job[u]
  BY <1>1, <1>2, <1>4, PlanFacts DEF BrokerInv
<1>6. JobAt(t)'
  BY <1>1, <1>2, <1>3, <1>5 DEF JobAt, Status
<1> QED
  BY <1>1, <1>5, <1>6, MoveKeeps

\* The host command is issued once: the row is this handler's and no command
\* was issued for it.
LEMMA RunKeeps ==
    ASSUME BrokerInv, NEW t \in Threads, Run(t), UNCHANGED workload
    PROVE  BrokerInv'
<1>1. /\ job[t].at = "reserved" /\ HoldsOperation(t) /\ Goto(t, "ran")
      /\ UNCHANGED <<broker, cache, journal, answered>>
  BY DEF Run, HoldsOperation
<1>2. job[t].req \in Requests /\ job[t].req.op \in Ops
  BY <1>1, JobFacts DEF BrokerInv
<1> DEFINE r == job[t].req
<1>3. JobAt(t)
  BY DEF BrokerInv, JobsAt
<1>4. invoked[r.op] = 0 /\ Status(r.op) = "running" /\ journal[r.op] # None
  BY <1>1, <1>3 DEF JobAt, Status, None
<1>5. /\ job' \in [Threads -> {Idle} \cup Calls]
      /\ job'[t].at = "ran" /\ job'[t].req = job[t].req
      /\ \A u \in Threads : u # t => job'[u] = job[u]
  BY <1>1, GotoFacts DEF BrokerInv, WorkingAt
<1>6. invoked' \in [Ops -> Nat] /\ invoked' = [invoked EXCEPT ![r.op] = 1]
  BY <1>2, <1>4 DEF Run, BrokerInv, TypeOK
<1>7. /\ invoked'[r.op] = 1
      /\ \A o \in Ops : o # r.op => invoked'[o] = invoked[o]
  BY <1>2, <1>6 DEF BrokerInv, TypeOK
<1>8. RowsMoveOn /\ OneUnresolvedPerTarget'
  BY <1>1 DEF RowsMoveOn, BrokerInv, TargetsAreFenced, OneUnresolvedPerTarget, Unresolved, Status
<1>9. RowsHold'
  BY <1>1, <1>4, <1>7 DEF BrokerInv, RowsHold
<1>10. JobAt(t)'
  BY <1>1, <1>3, <1>5 DEF JobAt, Status
<1>11. TypeOK'
  BY <1>1, <1>5, <1>6 DEF BrokerInv, TypeOK, Calls
<1>12. CacheBacked' /\ AnsweredBacked'
  BY <1>1, <1>8, AnswersKept DEF BrokerInv
<1> QED
  BY <1>1, <1>5, <1>7, <1>8, <1>9, <1>10, <1>11, <1>12, HandlerKeeps

\* The observation after the command leaves the row running for the settlement.
LEMMA ObserveKeeps ==
    ASSUME BrokerInv, NEW t \in Threads, Observe(t), UNCHANGED workload
    PROVE  BrokerInv'
<1>1. /\ job[t].at = "ran" /\ HoldsOperation(t)
      /\ UNCHANGED <<broker, cache, journal, invoked, answered>>
  BY DEF Observe, HoldsOperation
<1>2. PICK p \in {"ok", "failed", "attention", "doubt", "left"} :
         Plan(t, "settle", p) /\ (p = "attention" => job[t].req.kind = "ensure")
  BY DEF Observe
<1>3. JobAt(t)
  BY DEF BrokerInv, JobsAt
<1>4. "settle" \in WorkingAt /\ p \in Outcomes \cup {"doubt", "left"}
  BY DEF WorkingAt, Outcomes, Final
<1>5. /\ job' \in [Threads -> {Idle} \cup Calls]
      /\ job'[t].at = "settle" /\ job'[t].out = p /\ job'[t].req = job[t].req
      /\ \A u \in Threads : u # t => job'[u] = job[u]
  BY <1>1, <1>2, <1>4, PlanFacts DEF BrokerInv
<1>6. JobAt(t)'
  BY <1>1, <1>2, <1>3, <1>5 DEF JobAt, Status
<1> QED
  BY <1>1, <1>5, <1>6, MoveKeeps

\* A handler that settles the row of its own operation and answers with it.
LEMMA SettledAnswerKeeps ==
    ASSUME BrokerInv, NEW t \in Threads, HoldsOperation(t),
           NEW status \in {"attention", "succeeded", "failed"}, NEW evidence \in Evidence,
           NEW out \in {"ok", "failed", "attention", "retry"},
           SetRow(job[t].req.op, status, evidence), Answer(t, out),
           \/ Status(job[t].req.op) = "running"
           \/ Status(job[t].req.op) = "attention" /\ job[t].req.kind # "ensure",
           journal[job[t].req.op].req = job[t].req,
           out = "ok" => status = "succeeded",
           out = "failed" => status = "failed",
           out = "attention" => status = "attention" /\ job[t].req.kind = "ensure",
           UNCHANGED <<workload, broker, cache, invoked, answered>>
    PROVE  BrokerInv'
<1> DEFINE r == job[t].req
<1>1. r \in Requests /\ r.op \in Ops
  BY JobFacts DEF BrokerInv, HoldsOperation
<1>2. "answer" \in WorkingAt /\ out \in Outcomes
  BY DEF WorkingAt, Outcomes, Final
<1>3. /\ job' \in [Threads -> {Idle} \cup Calls]
      /\ job'[t].at = "answer" /\ job'[t].out = out /\ job'[t].req = job[t].req
      /\ \A u \in Threads : u # t => job'[u] = job[u]
  BY <1>2, PlanFacts DEF Answer, BrokerInv, HoldsOperation
<1>4. journal'[r.op] # None /\ journal'[r.op].status = status /\ journal'[r.op].req = r
  BY <1>1, RowStepFacts
<1>5. Backed(r, out)'
  BY <1>3, <1>4 DEF Backed, Status
<1>6. JobAt(t)'
  BY <1>2, <1>3, <1>5 DEF JobAt, Backed
<1> QED
  BY <1>1, <1>3, <1>6, RowStepKeeps

\* The settling transaction, and what follows when it fails.
LEMMA SettleKeeps ==
    ASSUME BrokerInv, NEW t \in Threads, Settle(t), UNCHANGED workload
    PROVE  BrokerInv'
<1>1. /\ job[t].at = "settle" /\ HoldsOperation(t)
      /\ UNCHANGED <<broker, cache, invoked, answered>>
  BY DEF Settle, HoldsOperation
<1> DEFINE r == job[t].req
<1>2. /\ Status(r.op) = "running" /\ journal[r.op].req = r
      /\ job[t].out = "attention" => r.kind = "ensure"
  BY <1>1 DEF BrokerInv, JobsAt, JobAt
<1>3. {"none", "answer", "live"} \subseteq Evidence
  BY DEF Evidence
<1>4. CASE job[t].out = "ok" /\ SetRow(r.op, "succeeded", "none") /\ Answer(t, "ok")
  BY <1>1, <1>2, <1>3, <1>4, SettledAnswerKeeps
<1>5. CASE job[t].out = "failed" /\ SetRow(r.op, "failed", "none") /\ Answer(t, "failed")
  BY <1>1, <1>2, <1>3, <1>5, SettledAnswerKeeps
<1>6. CASE job[t].out = "attention" /\ SetRow(r.op, "attention", "answer") /\ Answer(t, "attention")
  BY <1>1, <1>2, <1>3, <1>6, SettledAnswerKeeps
<1>7. CASE job[t].out = "doubt" /\ SetRow(r.op, "attention", "live") /\ Answer(t, "retry")
  BY <1>1, <1>2, <1>3, <1>7, SettledAnswerKeeps
<1>8. CASE UNCHANGED journal /\ Plan(t, "settle", "doubt")
  <2>1. /\ job' \in [Threads -> {Idle} \cup Calls]
        /\ job'[t].at = "settle" /\ job'[t].out = "doubt" /\ job'[t].req = job[t].req
        /\ \A u \in Threads : u # t => job'[u] = job[u]
    BY <1>1, <1>8, PlanFacts DEF BrokerInv, WorkingAt
  <2>2. JobAt(t)'
    BY <1>1, <1>2, <1>8, <2>1 DEF JobAt, Status
  <2> QED
    BY <1>1, <1>8, <2>1, <2>2, MoveKeeps
<1>9. CASE UNCHANGED journal /\ (Answer(t, "refused") \/ Answer(t, "retry"))
  BY <1>1, <1>9, PlainAnswers, AnswerKeeps
<1> QED
  BY <1>4, <1>5, <1>6, <1>7, <1>8, <1>9 DEF Settle

\* A repetition settles its row in doubt from an observation.
LEMMA ReconcileKeeps ==
    ASSUME BrokerInv, NEW t \in Threads, Reconcile(t), UNCHANGED workload
    PROVE  BrokerInv'
<1>1. /\ job[t].at = "reconcile" /\ HoldsOperation(t)
      /\ UNCHANGED <<broker, cache, invoked, answered>>
  BY DEF Reconcile, HoldsOperation
<1> DEFINE r == job[t].req
<1>2. /\ r.kind \in {"runtime", "compose"}
      /\ journal[r.op] # None /\ journal[r.op].req = r
  BY <1>1 DEF BrokerInv, JobsAt, JobAt
<1>3. journal[r.op].evidence \in Evidence
  BY <1>1, <1>2, JobFacts, RowFacts DEF BrokerInv, TypeOK
<1>4. CASE UNCHANGED journal /\ (Answer(t, "refused") \/ Answer(t, "retry"))
  BY <1>1, <1>4, PlainAnswers, AnswerKeeps
<1>5. CASE /\ Status(r.op) = "attention"
           /\ SetRow(r.op, "failed", journal[r.op].evidence) /\ Answer(t, "failed")
  BY <1>1, <1>2, <1>3, <1>5, SettledAnswerKeeps
<1>6. CASE /\ Status(r.op) = "attention"
           /\ SetRow(r.op, "succeeded", journal[r.op].evidence) /\ Answer(t, "ok")
  BY <1>1, <1>2, <1>3, <1>6, SettledAnswerKeeps
<1> QED
  BY <1>4, <1>5, <1>6 DEF Reconcile

-----------------------------------------------------------------------------
(* The process and the administrator.                                      *)

\* Steps of the process that touch neither handlers nor durable state.
LEMMA PhaseKeeps ==
    ASSUME BrokerInv, UNCHANGED <<workload, job, cache, journal, invoked, answered>>,
           broker' \in {"listening", "open", "draining"},
           broker' = "listening" => \A t \in Threads : job[t] = Idle
    PROVE  BrokerInv'
<1>1. TypeOK'
  BY DEF BrokerInv, TypeOK
<1>2. JobsAt' /\ LocksHeld'
  BY DEF BrokerInv, JobsAt, JobAt, Backed, Status, LocksHeld, HoldsOperation
<1>3. QuietUntilOpen' /\ HalfRecovered'
  BY DEF QuietUntilOpen, HalfRecovered
<1>4. CacheBacked' /\ AnsweredBacked' /\ RowsHold' /\ OneUnresolvedPerTarget'
  BY DurableKept
<1>5. TargetsAreFenced'
  BY <1>4 DEF TargetsAreFenced, FencedBeforeAdmission
<1> QED
  BY <1>1, <1>2, <1>3, <1>4, <1>5 DEF BrokerInv

\* Boot, admission and the signal turn.
LEMMA LifecycleKeeps ==
    ASSUME BrokerInv, Boot \/ OpenAdmission \/ Shutdown, UNCHANGED workload
    PROVE  BrokerInv'
<1>1. CASE Boot
  BY <1>1, PhaseKeeps DEF Boot, BrokerInv, QuietUntilOpen
<1>2. CASE OpenAdmission
  BY <1>2, PhaseKeeps DEF OpenAdmission
<1>3. CASE Shutdown
  BY <1>3, PhaseKeeps DEF Shutdown
<1> QED
  BY <1>1, <1>2, <1>3

\* The process ends, however it ends: handlers and cache are gone.
LEMMA StopKeeps ==
    ASSUME BrokerInv, Stop, UNCHANGED workload
    PROVE  BrokerInv'
<1>1. /\ broker' = "down" /\ cache' = <<>> /\ job' = [t \in Threads |-> Idle]
      /\ UNCHANGED <<journal, invoked, answered>>
  BY DEF Stop
<1>2. TypeOK'
  BY <1>1, WorkloadsAssumption DEF BrokerInv, TypeOK, WorkloadsAssumption
<1>3. \A t \in Threads : job'[t].at = "idle" /\ job'[t] = Idle
  BY <1>1 DEF Idle
<1>4. JobsAt' /\ LocksHeld' /\ QuietUntilOpen'
  BY <1>3 DEF JobsAt, JobAt, LocksHeld, HoldsOperation, QuietUntilOpen
<1>5. AnsweredBacked' /\ RowsHold' /\ OneUnresolvedPerTarget'
  BY <1>1, DurableKept
<1>6. CacheBacked' /\ HalfRecovered' /\ TargetsAreFenced'
  BY <1>1, <1>5 DEF CacheBacked, HalfRecovered, TargetsAreFenced, FencedBeforeAdmission
<1> QED
  BY <1>2, <1>4, <1>5, <1>6 DEF BrokerInv

\* A recovery transaction puts the running rows of its kinds in doubt.
LEMMA FenceFacts ==
    ASSUME journal \in [Ops -> Rows], NEW kinds, Fence(kinds)
    PROVE  /\ journal' \in [Ops -> Rows]
           /\ \A o \in Ops :
                IF Status(o) = "running" /\ journal[o].req.kind \in kinds
                THEN /\ journal[o] # None /\ journal'[o] # None
                     /\ journal'[o].status = "attention" /\ journal'[o].req = journal[o].req
                ELSE journal'[o] = journal[o]
<1>1. ASSUME NEW o \in Ops
      PROVE  /\ journal'[o] \in Rows
             /\ IF Status(o) = "running" /\ journal[o].req.kind \in kinds
                THEN /\ journal[o] # None /\ journal'[o] # None
                     /\ journal'[o].status = "attention" /\ journal'[o].req = journal[o].req
                ELSE journal'[o] = journal[o]
  <2>1. CASE Status(o) = "running" /\ journal[o].req.kind \in kinds
    <3>1. journal'[o] = [journal[o] EXCEPT !.status = "attention", !.evidence = "recovered"]
      BY <2>1 DEF Fence
    <3>2. journal[o] \in Records /\ journal[o] # None
      BY <2>1, RowFacts DEF Status, None
    <3>3. /\ journal'[o] \in Records
          /\ journal'[o].status = "attention" /\ journal'[o].req = journal[o].req
      BY <3>1, <3>2 DEF Records, Evidence
    <3>4. journal'[o] \in Rows /\ journal'[o] # None
      BY <3>3 DEF Rows, Records, None
    <3> QED
      BY <2>1, <3>2, <3>3, <3>4
  <2>2. CASE ~(Status(o) = "running" /\ journal[o].req.kind \in kinds)
    <3>1. journal'[o] = journal[o] /\ journal[o] \in Rows
      BY <2>2 DEF Fence
    <3> QED
      BY <2>2, <3>1
  <2> QED
    BY <2>1, <2>2
<1>2. journal' \in [Ops -> Rows]
  <2>1. journal' = [o \in Ops |-> journal'[o]]
    BY DEF Fence
  <2> QED
    BY <1>1, <2>1
<1> QED
  BY <1>1, <1>2

\* Recovery runs before any handler does, so it takes no row away from one.
LEMMA FenceKeeps ==
    ASSUME BrokerInv, NEW kinds, Fence(kinds),
           \A t \in Threads : job[t] = Idle,
           broker' \in {"docker_fenced", "fenced"}, HalfRecovered', FencedBeforeAdmission',
           UNCHANGED <<workload, job, cache, invoked, answered>>
    PROVE  BrokerInv'
<1>1. /\ journal' \in [Ops -> Rows]
      /\ \A o \in Ops :
           IF Status(o) = "running" /\ journal[o].req.kind \in kinds
           THEN /\ journal[o] # None /\ journal'[o] # None
                /\ journal'[o].status = "attention" /\ journal'[o].req = journal[o].req
           ELSE journal'[o] = journal[o]
  BY FenceFacts DEF BrokerInv, TypeOK
<1>2. TypeOK'
  BY <1>1 DEF BrokerInv, TypeOK
<1>3. RowsMoveOn
  BY <1>1 DEF RowsMoveOn, Status
<1>4. RowsHold'
  BY <1>1 DEF BrokerInv, RowsHold
<1>5. OneUnresolvedPerTarget'
  <2>1. \A p \in Ops : Unresolved(p)' => Unresolved(p) /\ journal'[p].req = journal[p].req
    BY <1>1 DEF Unresolved, Status
  <2> QED
    BY <2>1 DEF BrokerInv, TargetsAreFenced, OneUnresolvedPerTarget
<1>6. \A t \in Threads : job'[t].at = "idle" /\ job'[t] = Idle
  BY DEF Idle
<1>7. JobsAt' /\ LocksHeld' /\ QuietUntilOpen'
  BY <1>6 DEF JobsAt, JobAt, LocksHeld, HoldsOperation, QuietUntilOpen
<1>8. CacheBacked' /\ AnsweredBacked'
  BY <1>3, AnswersKept DEF BrokerInv
<1> QED
  BY <1>2, <1>4, <1>5, <1>7, <1>8 DEF BrokerInv, TargetsAreFenced

\* The first recovery transaction leaves only Compose rows running.
LEMMA RecoverDockerKeeps ==
    ASSUME BrokerInv, RecoverDocker, UNCHANGED workload
    PROVE  BrokerInv'
<1> DEFINE kinds == {"docker", "runtime", "ensure"}
<1>1. /\ broker = "listening" /\ broker' = "docker_fenced" /\ Fence(kinds)
      /\ UNCHANGED <<job, cache, invoked, answered>>
  BY DEF RecoverDocker
<1>2. \A t \in Threads : job[t] = Idle
  BY <1>1 DEF BrokerInv, QuietUntilOpen
<1>3. FencedBeforeAdmission'
  BY <1>1 DEF FencedBeforeAdmission
<1>4. HalfRecovered'
  <2> SUFFICES ASSUME NEW o \in Ops, Status(o)' = "running"
               PROVE  journal'[o].req.kind = "compose"
    BY DEF HalfRecovered
  <2>1. journal'[o] = journal[o] /\ Status(o) = "running" /\ journal[o].req.kind \notin kinds
    BY <1>1, FenceFacts DEF BrokerInv, TypeOK, Status
  <2>2. journal[o].req.kind \in Kinds
    BY <2>1, RowFacts, RequestFacts DEF BrokerInv, TypeOK, Status, None
  <2> QED
    BY <2>1, <2>2 DEF Kinds
<1> HIDE DEF kinds
<1> QED
  BY <1>1, <1>2, <1>3, <1>4, FenceKeeps

\* The second one leaves no running row.
LEMMA RecoverComposeKeeps ==
    ASSUME BrokerInv, RecoverCompose, UNCHANGED workload
    PROVE  BrokerInv'
<1> DEFINE kinds == {"compose"}
<1>1. /\ broker = "docker_fenced" /\ broker' = "fenced" /\ Fence(kinds)
      /\ UNCHANGED <<job, cache, invoked, answered>>
  BY DEF RecoverCompose
<1>2. \A t \in Threads : job[t] = Idle
  BY <1>1 DEF BrokerInv, QuietUntilOpen
<1>3. HalfRecovered'
  BY <1>1 DEF HalfRecovered
<1>4. FencedBeforeAdmission'
  <2> SUFFICES ASSUME NEW o \in Ops, Status(o)' = "running"
               PROVE  FALSE
    BY DEF FencedBeforeAdmission
  <2>1. Status(o) = "running" /\ journal[o].req.kind \notin kinds
    BY <1>1, FenceFacts DEF BrokerInv, TypeOK, Status
  <2> QED
    BY <2>1, <1>1 DEF BrokerInv, HalfRecovered
<1> HIDE DEF kinds
<1> QED
  BY <1>1, <1>2, <1>3, <1>4, FenceKeeps

\* The administrator settles only rows in doubt that are not ensures', and
\* only while no broker runs.
LEMMA AdministerKeeps ==
    ASSUME BrokerInv, NEW o \in Ops, Administer(o), UNCHANGED workload
    PROVE  BrokerInv'
<1>1. /\ broker = "down" /\ SetRow(o, "failed", journal[o].evidence)
      /\ Status(o) = "attention" /\ journal[o].req.kind # "ensure"
      /\ UNCHANGED <<broker, job, cache, invoked, answered>>
  BY DEF Administer, Up, Candidate
<1>2. journal[o].evidence \in Evidence
  BY <1>1, RowFacts DEF BrokerInv, TypeOK, Status, None
<1>3. /\ journal' \in [Ops -> Rows]
      /\ RowsHold' /\ OneUnresolvedPerTarget' /\ CacheBacked' /\ AnsweredBacked'
  BY <1>1, <1>2, RowStepFacts
<1>4. \A t \in Threads : job'[t].at = "idle" /\ job'[t] = Idle
  BY <1>1 DEF BrokerInv, QuietUntilOpen, Idle
<1>5. JobsAt' /\ LocksHeld' /\ QuietUntilOpen'
  BY <1>4 DEF JobsAt, JobAt, LocksHeld, HoldsOperation, QuietUntilOpen
<1>6. HalfRecovered' /\ TargetsAreFenced'
  BY <1>1, <1>3 DEF HalfRecovered, TargetsAreFenced, FencedBeforeAdmission
<1>7. TypeOK'
  BY <1>1, <1>3 DEF BrokerInv, TypeOK
<1> QED
  BY <1>3, <1>5, <1>6, <1>7 DEF BrokerInv

-----------------------------------------------------------------------------
(* The theorems.                                                           *)

\* The invariant holds on an empty journal with no process.
LEMMA InitHolds == Init => BrokerInv
<1> SUFFICES ASSUME Init PROVE BrokerInv
  OBVIOUS
<1>1. TypeOK
  BY WorkloadsAssumption DEF Init, TypeOK, WorkloadsAssumption, Rows
<1>2. \A t \in Threads : job[t].at = "idle" /\ job[t] = Idle
  BY DEF Init, Idle
<1>3. JobsAt /\ LocksHeld /\ QuietUntilOpen
  BY <1>2 DEF JobsAt, JobAt, LocksHeld, HoldsOperation, QuietUntilOpen
<1>4. CacheBacked /\ AnsweredBacked /\ HalfRecovered
  BY DEF Init, CacheBacked, AnsweredBacked, HalfRecovered
<1>5. \A o \in Ops : journal[o] = None /\ Status(o) = "none" /\ invoked[o] = 0
  BY DEF Init, Status, None
<1>6. RowsHold /\ TargetsAreFenced
  BY <1>5 DEF RowsHold, TargetsAreFenced, OneUnresolvedPerTarget, FencedBeforeAdmission, Unresolved
<1> QED
  BY <1>1, <1>3, <1>4, <1>6 DEF BrokerInv

\* Every step keeps the invariant.
LEMMA NextKeeps == BrokerInv /\ [Next]_vars => BrokerInv'
<1> SUFFICES ASSUME BrokerInv, [Next]_vars PROVE BrokerInv'
  OBVIOUS
<1>1. CASE UNCHANGED vars
  <2>1. RowsMoveOn /\ UNCHANGED <<workload, broker, job, cache, journal, invoked, answered>>
    BY <1>1 DEF vars, RowsMoveOn
  <2>2. TypeOK' /\ JobsAt' /\ LocksHeld' /\ QuietUntilOpen' /\ HalfRecovered'
    BY <2>1 DEF BrokerInv, TypeOK, JobsAt, JobAt, Backed, Status, LocksHeld, HoldsOperation,
                QuietUntilOpen, HalfRecovered
  <2>3. RowsHold' /\ OneUnresolvedPerTarget' /\ CacheBacked' /\ AnsweredBacked'
    BY <2>1, DurableKept
  <2>4. TargetsAreFenced'
    BY <2>1, <2>3 DEF BrokerInv, TargetsAreFenced, FencedBeforeAdmission, Status
  <2> QED
    BY <2>2, <2>3, <2>4 DEF BrokerInv
<1>2. CASE Next
  <2>1. UNCHANGED workload
    BY <1>2 DEF Next
  <2>2. ASSUME NEW t \in Threads, Call(t) PROVE BrokerInv'
    BY <2>1, <2>2, CallKeeps
  <2>3. ASSUME NEW t \in Threads, Handle(t) PROVE BrokerInv'
    BY <2>1, <2>3, TakeOperationKeeps, TakeResourceKeeps, TurnKeeps, ReplyKeeps, BeginKeeps,
       PriorKeeps, ReserveKeeps, DeclineKeeps, RunKeeps, ObserveKeeps, SettleKeeps, ReconcileKeeps
       DEF Handle
  <2>4. CASE Boot \/ OpenAdmission \/ Shutdown
    BY <2>1, <2>4, LifecycleKeeps
  <2>5. CASE RecoverDocker \/ RecoverCompose
    BY <2>1, <2>5, RecoverDockerKeeps, RecoverComposeKeeps
  <2>6. CASE Exit \/ Crash
    BY <2>1, <2>6, StopKeeps DEF Exit, Crash
  <2>7. ASSUME NEW o \in Ops, Administer(o) PROVE BrokerInv'
    BY <2>1, <2>7, AdministerKeeps
  <2> QED
    BY <1>2, <2>2, <2>3, <2>4, <2>5, <2>6, <2>7 DEF Next
<1> QED
  BY <1>1, <1>2

\* The inductive invariant holds in every reachable state.
THEOREM BrokerInvariant == Spec => []BrokerInv
BY InitHolds, NextKeeps, PTL DEF Spec

\* However calls are repeated, evicted from the cache, interrupted by a crash
\* or reconciled, an operation id reaches the host at most once and no answer
\* a caller was given is contradicted by the journal afterwards.
THEOREM AnswersTrue == Spec => []EffectsAndAnswersAgree
<1>1. BrokerInv => EffectsAndAnswersAgree
  <2> SUFFICES ASSUME BrokerInv PROVE EffectsAndAnswersAgree
    OBVIOUS
  <2>1. TypeOK /\ AtMostOnce
    BY DEF BrokerInv, RowsHold, AtMostOnce
  <2>2. AnswersAreDurable
    <3> SUFFICES ASSUME NEW a \in answered
                 PROVE  /\ journal[a.op] # None /\ journal[a.op].req = a.req
                        /\ Status(a.op) = CASE a.out = "ok" -> "succeeded"
                                            [] a.out = "failed" -> "failed"
                                            [] a.out = "attention" -> "attention"
      BY DEF AnswersAreDurable
    <3>1. a.op = a.req.op /\ Backed(a.req, a.out)
      BY DEF BrokerInv, AnsweredBacked
    <3>2. a.out \in {"ok", "failed", "attention"}
      BY DEF BrokerInv, TypeOK, Recorded, Final
    <3> QED
      BY <3>1, <3>2 DEF Backed
  <2> QED
    BY <2>1, <2>2 DEF EffectsAndAnswersAgree
<1> QED
  BY <1>1, BrokerInvariant, PTL

\* A container or a Compose definition never has two direct, runtime or
\* Compose operations running or in doubt, and admission opens on a journal
\* without a running row.
THEOREM TargetsFenced == Spec => []TargetsAreFenced
<1>1. BrokerInv => TargetsAreFenced
  BY DEF BrokerInv
<1> QED
  BY <1>1, BrokerInvariant, PTL

-----------------------------------------------------------------------------
(* The broker implements OperationPromise.                                 *)

\* A step that leaves the journal and the host alone is a stuttering step.
LEMMA StutterMaps ==
    ASSUME UNCHANGED <<journal, invoked>>
    PROVE  UNCHANGED Promise!vars
BY DEF Promise!vars, Status

\* A transaction on a row that is running, or in doubt, settles the operation
\* or puts it in doubt.
LEMMA RowStepMaps ==
    ASSUME BrokerInv, NEW o \in Ops, NEW status \in {"attention", "succeeded", "failed"},
           NEW evidence \in Evidence, SetRow(o, status, evidence),
           \/ Status(o) = "running"
           \/ Status(o) = "attention" /\ journal[o].req.kind # "ensure" /\ status # "attention",
           UNCHANGED <<cache, invoked, answered>>
    PROVE  Promise!Next
<1>1. Status(o)' = status /\ \A p \in Ops : p # o => Status(p)' = Status(p)
  BY RowStepFacts DEF Status
<1>2. CASE status = "attention"
  <2>1. Promise!Doubt({o})
    BY <1>1, <1>2 DEF Promise!Doubt
  <2>2. {o} \in (SUBSET Ops) \ {{}}
    OBVIOUS
  <2> QED
    BY <2>1, <2>2 DEF Promise!Next
<1>3. CASE status # "attention"
  <2>1. Promise!Settle(o)
    BY <1>1, <1>3 DEF Promise!Settle
  <2> QED
    BY <2>1 DEF Promise!Next
<1> QED
  BY <1>2, <1>3

\* A recovery transaction puts the rows it fences in doubt together.
LEMMA FenceMaps ==
    ASSUME BrokerInv, NEW kinds, Fence(kinds), UNCHANGED invoked
    PROVE  [Promise!Next]_(Promise!vars)
<1> DEFINE S == {o \in Ops : Status(o) = "running" /\ journal[o].req.kind \in kinds}
<1>1. \A o \in Ops : Status(o)' = IF o \in S THEN "attention" ELSE Status(o)
  BY FenceFacts DEF BrokerInv, TypeOK, Status
<1>2. CASE S = {}
  <2>1. \A o \in Ops : Status(o)' = Status(o)
    BY <1>1, <1>2
  <2> QED
    BY <2>1 DEF Promise!vars
<1>3. CASE S # {}
  <2>1. \A o \in S : o \in Ops /\ Status(o) = "running"
    OBVIOUS
  <2> HIDE DEF S
  <2>2. Promise!Doubt(S)
    BY <1>1, <2>1 DEF Promise!Doubt
  <2>3. S \in (SUBSET Ops) \ {{}}
    BY <1>3, <2>1
  <2> QED
    BY <2>2, <2>3 DEF Promise!Next
<1> QED
  BY <1>2, <1>3

\* Every step of a handler opens, performs, doubts or settles an operation, or stutters.
LEMMA HandleMaps ==
    ASSUME BrokerInv, NEW t \in Threads, Handle(t)
    PROVE  [Promise!Next]_(Promise!vars)
<1> DEFINE r == job[t].req
<1>1. CASE TakeOperation(t) \/ TakeResource(t) \/ Turn(t) \/ Reply(t) \/ Begin(t) \/ Decline(t) \/ Observe(t)
  <2>1. UNCHANGED <<journal, invoked>>
    BY <1>1 DEF TakeOperation, TakeResource, Turn, Reply, Begin, Decline, Observe
  <2> QED
    BY <2>1, StutterMaps
<1>2. CASE Prior(t)
  <2>1. UNCHANGED <<cache, invoked, answered>>
    BY <1>2 DEF Prior
  <2>2. CASE UNCHANGED journal
    BY <2>1, <2>2, StutterMaps
  <2>3. ASSUME NEW o \in PriorInDoubt(r), SetRow(o, "failed", journal[o].evidence)
        PROVE  Promise!Next
    <3>1. o \in Ops /\ Status(o) = "attention" /\ journal[o].req.kind # "ensure"
      BY DEF PriorInDoubt, Fencing
    <3>2. journal[o].evidence \in Evidence
      BY <3>1, RowFacts DEF BrokerInv, TypeOK, Status, None
    <3> QED
      BY <2>1, <2>3, <3>1, <3>2, RowStepMaps
  <2> QED
    BY <1>2, <2>2, <2>3 DEF Prior
<1>3. CASE Reserve(t)
  <2>1. UNCHANGED invoked /\ r \in Requests /\ r.op \in Ops
    BY <1>3, JobFacts DEF BrokerInv, Reserve
  <2>2. CASE UNCHANGED journal
    BY <2>1, <2>2, StutterMaps
  <2>3. CASE /\ Disposition(r) = "new"
             /\ journal' = [journal EXCEPT ![r.op] = [status |-> "running", req |-> r, evidence |-> "none"]]
    <3>1. Status(r.op) = "none"
      BY <2>1, <2>3, DispositionFacts DEF Status, None
    <3>2. /\ journal'[r.op].status = "running"
          /\ \A o \in Ops : o # r.op => journal'[o] = journal[o]
      BY <2>1, <2>3 DEF BrokerInv, TypeOK
    <3>3. Promise!Open(r.op)
      BY <2>1, <3>1, <3>2 DEF Promise!Open, Status
    <3> QED
      BY <2>1, <3>3 DEF Promise!Next
  <2> QED
    BY <1>3, <2>2, <2>3 DEF Reserve
<1>4. CASE Run(t)
  <2>1. job[t].at = "reserved" /\ UNCHANGED journal
    BY <1>4 DEF Run
  <2>2. r.op \in Ops
    BY <2>1, JobFacts DEF BrokerInv
  <2>3. invoked[r.op] = 0 /\ Status(r.op) = "running"
    BY <2>1 DEF BrokerInv, JobsAt, JobAt
  <2>4. invoked' = [invoked EXCEPT ![r.op] = 1]
    BY <1>4, <2>2, <2>3 DEF Run, BrokerInv, TypeOK
  <2>5. Promise!Perform(r.op)
    BY <2>1, <2>2, <2>3, <2>4 DEF Promise!Perform, Status
  <2> QED
    BY <2>2, <2>5 DEF Promise!Next
<1>5. CASE Settle(t)
  <2>1. UNCHANGED <<cache, invoked, answered>> /\ job[t].at = "settle"
    BY <1>5 DEF Settle
  <2>2. r.op \in Ops
    BY <2>1, JobFacts DEF BrokerInv
  <2>3. CASE UNCHANGED journal
    BY <2>1, <2>3, StutterMaps
  <2>4. ASSUME NEW status \in {"attention", "succeeded", "failed"},
               NEW evidence \in {"none", "answer", "live"},
               Status(r.op) = "running", SetRow(r.op, status, evidence)
        PROVE  Promise!Next
    <3>1. evidence \in Evidence
      BY DEF Evidence
    <3> QED
      BY <2>1, <2>2, <2>4, <3>1, RowStepMaps
  <2> QED
    BY <1>5, <2>3, <2>4 DEF Settle
<1>6. CASE Reconcile(t)
  <2>1. UNCHANGED <<cache, invoked, answered>> /\ job[t].at = "reconcile"
    BY <1>6 DEF Reconcile
  <2>2. r.op \in Ops
    BY <2>1, JobFacts DEF BrokerInv
  <2>3. r.kind # "ensure" /\ journal[r.op] # None /\ journal[r.op].req = r
    BY <2>1 DEF BrokerInv, JobsAt, JobAt
  <2>4. journal[r.op].evidence \in Evidence
    BY <2>2, <2>3, RowFacts DEF BrokerInv, TypeOK
  <2>5. CASE UNCHANGED journal
    BY <2>1, <2>5, StutterMaps
  <2>6. ASSUME NEW status \in {"succeeded", "failed"},
               Status(r.op) = "attention", SetRow(r.op, status, journal[r.op].evidence)
        PROVE  Promise!Next
    BY <2>1, <2>2, <2>3, <2>4, <2>6, RowStepMaps
  <2> QED
    BY <1>6, <2>5, <2>6 DEF Reconcile
<1> QED
  BY <1>1, <1>2, <1>3, <1>4, <1>5, <1>6 DEF Handle

\* Whatever threads, retries, evictions, crashes and reconciliation do, an
\* operation is opened once, reaches the host at most once and only while it
\* is open, may be put in doubt, and is settled once and for all.
THEOREM BrokerKeepsPromise == Spec => PromiseKept
<1>1. Init => Promise!Init
  BY DEF Init, Promise!Init, Status, None
<1>2. BrokerInv /\ [Next]_vars => [Promise!Next]_(Promise!vars)
  <2> SUFFICES ASSUME BrokerInv, [Next]_vars PROVE [Promise!Next]_(Promise!vars)
    OBVIOUS
  <2>1. CASE UNCHANGED vars
    BY <2>1, StutterMaps DEF vars
  <2>2. ASSUME NEW t \in Threads, Call(t) PROVE [Promise!Next]_(Promise!vars)
    BY <2>2, StutterMaps DEF Call
  <2>3. ASSUME NEW t \in Threads, Handle(t) PROVE [Promise!Next]_(Promise!vars)
    BY <2>3, HandleMaps
  <2>4. CASE Boot \/ OpenAdmission \/ Shutdown \/ Exit \/ Crash
    BY <2>4, StutterMaps DEF Boot, OpenAdmission, Shutdown, Exit, Crash, Stop
  <2>5. CASE RecoverDocker \/ RecoverCompose
    BY <2>5, FenceMaps DEF RecoverDocker, RecoverCompose
  <2>6. ASSUME NEW o \in Ops, Administer(o) PROVE [Promise!Next]_(Promise!vars)
    <3>1. /\ SetRow(o, "failed", journal[o].evidence)
          /\ Status(o) = "attention" /\ journal[o].req.kind # "ensure"
          /\ UNCHANGED <<cache, invoked, answered>>
      BY <2>6 DEF Administer, Candidate
    <3>2. journal[o].evidence \in Evidence
      BY <3>1, RowFacts DEF BrokerInv, TypeOK, Status, None
    <3> QED
      BY <3>1, <3>2, RowStepMaps
  <2> QED
    BY <2>1, <2>2, <2>3, <2>4, <2>5, <2>6 DEF Next
<1> QED
  BY <1>1, <1>2, BrokerInvariant, PTL DEF Spec, PromiseKept, Promise!Spec

=============================================================================
