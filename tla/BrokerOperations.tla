-------------------------- MODULE BrokerOperations --------------------------
(***************************************************************************)
(* The broker's durable lifecycle operations: direct Docker actions,       *)
(* runtime requests and ensures on Docker-backed targets, and Compose      *)
(* actions.  A call passes the SerializedMutationWriter (operation lock,   *)
(* resource lock, admission fence, cache of completed operations), then    *)
(* the backend: disposition of the durable row, preflight, reservation,    *)
(* host command, observation, settlement.  The process crashes, drains and *)
(* restarts; the journal and the host survive it.  With the broker down    *)
(* the administrator reconciles rows that were left in doubt.              *)
(*                                                                         *)
(* Any observation and any transaction may fail at any time, and the       *)
(* broker may crash at any time: no counter bounds them, since the state   *)
(* stays finite without.                                                   *)
(***************************************************************************)
EXTENDS Naturals, FiniteSets, SequencesExt

CONSTANTS Workloads,  \* sets of typed requests; a request is its own fingerprint
          Threads,    \* broker handler threads
          CacheSize   \* completed_cache_size

Requests == UNION Workloads

Kinds == {"docker", "runtime", "ensure", "compose"}

ASSUME WorkloadsAssumption ==
    /\ \A r \in Requests : /\ DOMAIN r = {"op", "kind", "restart", "target", "key"}
                           /\ r.kind \in Kinds /\ r.restart \in BOOLEAN
    (* A Compose definition is not a container. *)
    /\ \A r, s \in Requests :
          r.target = s.target => (r.kind = "compose" <=> s.kind = "compose")
    /\ CacheSize \in Nat \ {0}

Ops == {r.op : r \in Requests}

VARIABLES
    workload,  \* the requests the callers of this behaviour send
    broker,    \* the process: down, up and not yet admitting, open, draining
    job,       \* per thread: where its call is, the request and the answer it carries
    cache,     \* completed operations, oldest first
    journal,   \* the durable row of every operation id
    invoked,   \* host commands issued for every operation id
    answered   \* recorded outcomes callers were told

vars == <<workload, broker, job, cache, journal, invoked, answered>>

None == [status |-> "none"]
Evidence == {"none", "live", "recovered", "answer"}
Rows == {None} \cup [status : {"running", "attention", "succeeded", "failed"},
                     req : Requests, evidence : Evidence]
Final == {"ok", "attention", "failed", "refused"}  \* every other error is "retry"
Recorded == Final \ {"refused"}                    \* the answers a durable row stands behind
Outcomes == Final \cup {"retry"}
Idle == [at |-> "idle"]
WorkingAt == {"queued", "keyed", "locked", "backend", "prior", "reconcile", "reserve",
              "reserved", "ran", "settle", "answer"}

Accepting == broker = "open"
Up == broker # "down"
Working(t) == job[t].at # "idle"
HoldsOperation(t) == job[t].at \notin {"idle", "queued"}
HoldsResource(t) == job[t].at \notin {"idle", "queued", "keyed"}
Status(o) == journal[o].status
Unresolved(o) == Status(o) \in {"running", "attention"}

Goto(t, at) == job' = [job EXCEPT ![t].at = at]
Plan(t, at, out) == job' = [job EXCEPT ![t].at = at, ![t].out = out]
Answer(t, out) == Plan(t, "answer", out)

Init == /\ workload \in Workloads
        /\ broker = "down"
        /\ job = [t \in Threads |-> Idle]
        /\ cache = <<>>
        /\ journal = [o \in Ops |-> None]
        /\ invoked = [o \in Ops |-> 0]
        /\ answered = {}

-----------------------------------------------------------------------------
(* The serialized mutation writer.                                         *)

(* execute: a call refused at the door (starting, shutting down) leaves no trace. *)
Call(t) == /\ ~Working(t) /\ Accepting
           /\ \E r \in workload : job' = [job EXCEPT ![t] = [at |-> "queued", req |-> r, out |-> "retry"]]
           /\ UNCHANGED <<broker, cache, journal, invoked, answered>>

(* The keyed locks, in sorted order: operation first, then resource. *)
TakeOperation(t) ==
    /\ job[t].at = "queued"
    /\ \A u \in Threads : ~(HoldsOperation(u) /\ job[u].req.op = job[t].req.op)
    /\ Goto(t, "keyed")
    /\ UNCHANGED <<broker, cache, journal, invoked, answered>>

TakeResource(t) ==
    /\ job[t].at = "keyed"
    /\ \A u \in Threads : ~(HoldsResource(u) /\ job[u].req.key = job[t].req.key)
    /\ Goto(t, "locked")
    /\ UNCHANGED <<broker, cache, journal, invoked, answered>>

(* The completed operations are a dictionary: an id has one entry at most. *)
Cached(o) == {i \in DOMAIN cache : cache[i].op = o}
Without(o) == IF Cached(o) = {} THEN cache ELSE RemoveAt(cache, CHOOSE i \in Cached(o) : TRUE)

Remember(e) == LET s == Append(Without(e.op), e)
               IN  IF Len(s) > CacheSize THEN Tail(s) ELSE s

Leave(t, out) ==
    /\ job' = [job EXCEPT ![t] = Idle]
    /\ answered' = answered \cup {[op |-> job[t].req.op, req |-> job[t].req, out |-> o] :
                                     o \in {out} \cap Recorded}

(* Fault: a call that meets the fence after its locks waits for admission. *)
TurnWaits(t) ==
    /\ job[t].at = "locked" /\ Accepting
    /\ Goto(t, "backend")
    /\ UNCHANGED <<broker, cache, journal, invoked, answered>>

(* Admission after the locks, and the cache lookup. *)
Turn(t) ==
    /\ job[t].at = "locked"
    /\ \/ /\ ~Accepting
          /\ Leave(t, "retry") /\ UNCHANGED cache
       \/ /\ Accepting
          /\ \E i \in DOMAIN cache :
                /\ cache[i].op = job[t].req.op
                /\ cache' = Append(Without(cache[i].op), cache[i])
                /\ Leave(t, IF cache[i].req = job[t].req THEN cache[i].out ELSE "refused")
       \/ /\ Accepting
          /\ \A i \in DOMAIN cache : cache[i].op # job[t].req.op
          /\ Goto(t, "backend") /\ UNCHANGED <<cache, answered>>
    /\ UNCHANGED <<broker, journal, invoked>>

(* The backend returned or raised: remember a terminal outcome, answer, release the locks. *)
Reply(t) ==
    /\ job[t].at = "answer"
    /\ cache' = IF job[t].out \in Final
                THEN Remember([op |-> job[t].req.op, req |-> job[t].req, out |-> job[t].out])
                ELSE cache
    /\ Leave(t, job[t].out)
    /\ UNCHANGED <<broker, journal, invoked>>

-----------------------------------------------------------------------------
(* The backend, up to the reservation.                                     *)

(* Fault: a row that is still running counts as never started. *)
DispositionRestarts(r) ==
    LET row == journal[r.op]
    IN  CASE row.status \in {"none", "running"} -> "new"
          [] row.status = "succeeded" -> "ok"
          [] row.status = "failed"    -> "failed"
          [] row.status = "attention" -> IF r.kind \in {"runtime", "compose"} THEN "reconcile" ELSE "retry"

(* What the durable row says of a request that is repeated. *)
Disposition(r) ==
    LET row == journal[r.op]
    IN  CASE row = None -> "new"
          [] row # None /\ row.req # r -> "refused"          \* operation_id_conflict
          [] row # None /\ row.req = r ->
                CASE row.status = "succeeded" -> "ok"
                  [] row.status = "failed"    -> "failed"
                  [] row.status = "running"   -> "retry"      \* operation_in_progress
                  [] row.status = "attention" ->
                        CASE r.kind \in {"runtime", "compose"} -> "reconcile"
                          [] r.kind = "docker" -> "retry"     \* operation_outcome_uncertain
                          [] r.kind = "ensure" ->             \* a retained answer, or invalid_durable_result
                                IF row.evidence = "answer" THEN "attention" ELSE "refused"

(* Existing disposition, then the fresh observation a new request needs;
   a direct Docker request goes straight to its reservation. *)
Begin(t) ==
    /\ job[t].at = "backend"
    /\ LET r == job[t].req
           d == Disposition(r)
       IN  IF r.kind = "docker" THEN Goto(t, "reserve")
           ELSE CASE d = "new" -> \/ Goto(t, IF r.kind = "runtime" THEN "reserve" ELSE "prior")
                                  \/ Answer(t, "refused")
                  [] d = "reconcile" -> Goto(t, "reconcile")
                  [] OTHER -> Answer(t, d)
    /\ UNCHANGED <<broker, cache, journal, invoked, answered>>

SetRow(o, status, evidence) ==
    journal' = [journal EXCEPT ![o].status = status, ![o].evidence = evidence]

(* The operations that fence a target against a new reservation.  An
   ensure is not among the fenced actions. *)
Fencing(r) ==
    {o \in Ops \ {r.op} : /\ Unresolved(o)
                          /\ journal[o].req.target = r.target
                          /\ journal[o].req.kind \in IF r.kind = "compose" THEN {"compose"}
                                                     ELSE {"docker", "runtime"}}

(* Prior operations in doubt that this request may settle before it reserves. *)
PriorInDoubt(r) ==
    {o \in Fencing(r) : /\ Status(o) = "attention"
                        /\ journal[o].req.kind = IF r.kind = "compose" THEN "compose" ELSE "runtime"}

Prior(t) ==
    /\ job[t].at = "prior"
    /\ LET r == job[t].req
       IN  \/ /\ PriorInDoubt(r) = {}
              /\ IF r.kind = "compose" /\ Fencing(r) # {} THEN Answer(t, "refused") ELSE Goto(t, "reserve")
              /\ UNCHANGED journal
           \/ /\ PriorInDoubt(r) # {}
              /\ \E o \in PriorInDoubt(r) :
                    /\ SetRow(o, "failed", journal[o].evidence)
                    /\ Goto(t, "reserve")
           \/ /\ PriorInDoubt(r) # {}
              /\ Answer(t, "refused") /\ UNCHANGED journal
    /\ UNCHANGED <<broker, cache, invoked, answered>>

(* reserve_operation: one transaction; the store may refuse it, and the
   error it raises is a terminal one for the writer. *)
Reserve(t) ==
    /\ job[t].at = "reserve"
    /\ LET r == job[t].req
           d == Disposition(r)
       IN  \/ /\ d # "new"
              /\ Answer(t, d) /\ UNCHANGED journal
           \/ /\ d = "new"
              /\ Answer(t, "refused") /\ UNCHANGED journal
           \/ /\ d = "new" /\ Fencing(r) = {}
              /\ journal' = [journal EXCEPT ![r.op] = [status |-> "running", req |-> r, evidence |-> "none"]]
              /\ Goto(t, "reserved")
    /\ UNCHANGED <<broker, cache, invoked, answered>>

-----------------------------------------------------------------------------
(* The host command, its observation and its settlement.  job.out is the    *)
(* outcome to settle: ok, failed, attention, doubt or left.                 *)

(* The target is re-read and the isolation preflight may refuse: no host
   command.  An ensure may find the desired state; a runtime request takes an
   isolation refusal, and Compose a changed input path, for an uncertain
   invocation. *)
Decline(t) ==
    /\ job[t].at = "reserved"
    /\ \E p \in CASE job[t].req.kind = "ensure"  -> {"ok", "failed", "attention"}
                  [] job[t].req.kind = "docker" -> {"failed"}
                  [] OTHER -> {"failed", "doubt"} : Plan(t, "settle", p)
    /\ UNCHANGED <<broker, cache, journal, invoked, answered>>

Run(t) ==
    /\ job[t].at = "reserved"
    /\ invoked' = [invoked EXCEPT ![job[t].req.op] = @ + 1]
    /\ Goto(t, "ran")
    /\ UNCHANGED <<broker, cache, journal, answered>>

(* The command proves an outcome or does not, and so does the observation
   after it.  A direct Docker command without an outcome is left as it is. *)
Observe(t) ==
    /\ job[t].at = "ran"
    /\ \E p \in CASE job[t].req.kind = "ensure" -> {"ok", "attention"}
                  [] job[t].req.kind = "docker" -> {"ok", "failed", "doubt", "left"}
                  [] OTHER -> {"ok", "failed", "doubt"} : Plan(t, "settle", p)
    /\ UNCHANGED <<broker, cache, journal, invoked, answered>>

(* A settling transaction changes only the row it finds running; when it
   fails the row keeps fencing, and a runtime or Compose result that did not
   commit is put in doubt by a second transaction.  Only an ensure that could
   not record its failure raises an error the writer takes for terminal. *)
Settle(t) ==
    /\ job[t].at = "settle"
    /\ LET o == job[t].req.op
           p == job[t].out
       IN  \/ /\ p # "left" /\ Status(o) = "running"
              /\ \/ /\ p = "ok"        /\ SetRow(o, "succeeded", "none")  /\ Answer(t, "ok")
                 \/ /\ p = "failed"    /\ SetRow(o, "failed", "none")     /\ Answer(t, "failed")
                 \/ /\ p = "attention" /\ SetRow(o, "attention", "answer") /\ Answer(t, "attention")
                 \/ /\ p = "doubt"     /\ SetRow(o, "attention", "live")  /\ Answer(t, "retry")
           \/ /\ IF p = "ok" /\ job[t].req.kind \in {"runtime", "compose"}
                 THEN Plan(t, "settle", "doubt")
                 ELSE Answer(t, IF p = "failed" /\ job[t].req.kind = "ensure" THEN "refused" ELSE "retry")
              /\ UNCHANGED journal
    /\ UNCHANGED <<broker, cache, invoked, answered>>

(* A repeated request whose row is in doubt settles it from a fresh
   observation, never by running it again.  A restart that left the target
   running proves nothing and stays in doubt. *)
Reconcile(t) ==
    /\ job[t].at = "reconcile"
    /\ LET r == job[t].req
       IN  \/ /\ Answer(t, IF r.kind = "runtime" THEN "retry" ELSE "refused")
              /\ UNCHANGED journal
           \/ /\ r.kind = "runtime" /\ Answer(t, "refused") /\ UNCHANGED journal
           \/ /\ Status(r.op) = "attention"
              /\ SetRow(r.op, "failed", journal[r.op].evidence)
              /\ Answer(t, "failed")
           \/ /\ Status(r.op) = "attention" /\ r.kind = "runtime" /\ ~r.restart
              /\ SetRow(r.op, "succeeded", journal[r.op].evidence)
              /\ Answer(t, "ok")
    /\ UNCHANGED <<broker, cache, invoked, answered>>

-----------------------------------------------------------------------------
(* The process.                                                            *)

Boot == /\ broker = "down" /\ broker' = "listening"
        /\ UNCHANGED <<job, cache, journal, invoked, answered>>

Fence(kinds) ==
    journal' = [o \in Ops |-> IF Status(o) = "running" /\ journal[o].req.kind \in kinds
                              THEN [journal[o] EXCEPT !.status = "attention", !.evidence = "recovered"]
                              ELSE journal[o]]

(* Fault: restart recovery overlooks the rows of ensures. *)
RecoverSome == /\ broker = "listening" /\ broker' = "docker_fenced"
               /\ Fence({"docker", "runtime"})
               /\ UNCHANGED <<job, cache, invoked, answered>>

RecoverDocker == /\ broker = "listening" /\ broker' = "docker_fenced"
                 /\ Fence({"docker", "runtime", "ensure"})
                 /\ UNCHANGED <<job, cache, invoked, answered>>

RecoverCompose == /\ broker = "docker_fenced" /\ broker' = "fenced"
                  /\ Fence({"compose"})
                  /\ UNCHANGED <<job, cache, invoked, answered>>

OpenAdmission == /\ broker = "fenced" /\ broker' = "open"
                 /\ UNCHANGED <<job, cache, journal, invoked, answered>>

(* SIGTERM: the fence is set in the signal turn itself. *)
Shutdown == /\ Up /\ broker # "draining" /\ broker' = "draining"
            /\ UNCHANGED <<job, cache, journal, invoked, answered>>

Stop == /\ broker' = "down" /\ cache' = <<>>
        /\ job' = [t \in Threads |-> Idle]
        /\ UNCHANGED <<journal, invoked, answered>>

(* close: the drain ended. *)
Exit == broker = "draining" /\ (\A t \in Threads : ~Working(t)) /\ Stop

(* A crash, or a drain that ran into its deadline. *)
Crash == Up /\ Stop

(* The rows the administrator's commands accept: the evidence of a direct
   Docker row must name the action the way restart recovery writes it. *)
Candidate(o) == /\ Status(o) = "attention"
                /\ \/ journal[o].req.kind = "compose"
                   \/ journal[o].req.kind = "docker" /\ journal[o].evidence = "recovered"

(* Fault: reconciliation of one row does not ask whether it is still in doubt. *)
AdministerAny(o) == /\ ~Up /\ journal[o] # None
                    /\ SetRow(o, "failed", journal[o].evidence)
                    /\ UNCHANGED <<broker, job, cache, invoked, answered>>

(* reconcile-docker and reconcile-compose hold the broker's service lock. *)
Administer(o) == /\ ~Up /\ Candidate(o)
                 /\ SetRow(o, "failed", journal[o].evidence)
                 /\ UNCHANGED <<broker, job, cache, invoked, answered>>

Handle(t) == \/ TakeOperation(t) \/ TakeResource(t) \/ Turn(t) \/ Reply(t)
             \/ Begin(t) \/ Prior(t) \/ Reserve(t) \/ Decline(t) \/ Run(t)
             \/ Observe(t) \/ Settle(t) \/ Reconcile(t)

Next == /\ \/ \E t \in Threads : Call(t) \/ Handle(t)
           \/ Boot \/ RecoverDocker \/ RecoverCompose \/ OpenAdmission
           \/ Shutdown \/ Exit \/ Crash
           \/ \E o \in Ops : Administer(o)
        /\ UNCHANGED workload

Spec == Init /\ [][Next]_vars

-----------------------------------------------------------------------------
(* The types of the variables. *)
TypeOK ==
    /\ workload \in Workloads
    /\ broker \in {"down", "listening", "docker_fenced", "fenced", "open", "draining"}
    /\ job \in [Threads -> {Idle} \cup [at : WorkingAt, req : Requests,
                                         out : Outcomes \cup {"doubt", "left"}]]
    /\ cache \in Seq([op : Ops, req : Requests, out : Final]) /\ Len(cache) <= CacheSize
    /\ journal \in [Ops -> Rows]
    /\ invoked \in [Ops -> Nat]
    /\ answered \subseteq [op : Ops, req : Requests, out : Recorded]

(* An operation id reaches the host at most once, however often it is
   repeated, whatever the cache has evicted and wherever the broker died. *)
AtMostOnce == \A o \in Ops : invoked[o] <= 1

(* What a caller was told is what the journal says from then on: success,
   recorded failure and retained attention are never contradicted. *)
AnswersAreDurable ==
    \A a \in answered :
        /\ journal[a.op] # None /\ journal[a.op].req = a.req
        /\ Status(a.op) = CASE a.out = "ok" -> "succeeded"
                            [] a.out = "failed" -> "failed"
                            [] a.out = "attention" -> "attention"

(* Types, one effect per operation id, and answers the journal bears out. *)
EffectsAndAnswersAgree == TypeOK /\ AtMostOnce /\ AnswersAreDurable

(* A container or a Compose definition never has two direct or runtime
   operations that are running or in doubt: the second could act on a state
   the first has not finished changing. *)
OneUnresolvedPerTarget ==
    \A o, p \in {q \in Ops : Unresolved(q) /\ journal[q].req.kind # "ensure"} :
        journal[o].req.target = journal[p].req.target => o = p

(* Admission opens on a journal without a running row: what a dead process
   left is in doubt before the first new call, also when the process died
   between the two recovery transactions. *)
FencedBeforeAdmission == broker = "fenced" => \A o \in Ops : Status(o) # "running"

(* Neither a concurrent call nor a restart lets an operation start beside
   one that is unresolved. *)
TargetsAreFenced == OneUnresolvedPerTarget /\ FencedBeforeAdmission

Promise == INSTANCE OperationPromise
              WITH status <- [o \in Ops |-> Status(o)], effects <- invoked

(* Repeats, evictions, crashes and reconciliation do to an operation id only
   what OperationPromise allows. *)
PromiseKept == Promise!Spec

-----------------------------------------------------------------------------
(* Host commands, observations and transactions are bounded by timeouts, so
   some handler takes a step while any is left, and close follows. *)
FairSpec == /\ Spec
            /\ WF_vars(UNCHANGED workload /\ (Exit \/ \E t \in Threads : Handle(t)))

(* A shutdown that began ends, whatever its handlers were waiting for. *)
DrainEnds == broker = "draining" ~> broker = "down"

=============================================================================
