--------------------------- MODULE OutputProgress ---------------------------
(***************************************************************************)
(* How the output of a running test becomes progress evidence: the capture *)
(* thread of universal_test_runner.py writes a bounded log and, at most    *)
(* once a second, a sidecar with its counters; the authority compares the  *)
(* two when it is asked for a status (universal_test_runtime.py); both     *)
(* threads of testd ask, and record what they were told in the store.      *)
(*                                                                         *)
(* One execution and one of its two streams are modelled; the other stream *)
(* is read by the same code right after.  A chunk is one unit of output.   *)
(***************************************************************************)
EXTENDS Integers, FiniteSets

CONSTANTS
    Cap,        \* MAX_CAPTURE_BYTES, in chunks
    Redacted,   \* length of the replacement of a redacted capture
    MaxOutput   \* bound on the output of the child

ASSUME ProgressAssumption ==
    /\ Cap \in Nat \ {0} /\ Redacted \in Nat \ {0} /\ MaxOutput \in Nat

VARIABLES
    child,      \* the test process: "running" or "ended"
    stage,      \* of the runner: "capture", "captured", "scanned", "exited"
    total,      \* bytes the capture thread has read
    size,       \* size of the log file
    sidecar,    \* the published counters, or None
    due,        \* whether a second has passed since the last publication
    row,        \* the execution's row: active, asked to stop, or terminal
    stored,     \* its progress columns
    thread,     \* where each testd thread is with this execution
    latest      \* the thread that was last told a status

vars == <<child, stage, total, size, sidecar, due, row, stored, thread, latest>>
runnerVars == <<child, stage, total, size, sidecar, due>>

Thread == {"loop", "request"}
None == [bytes |-> -1, retained |-> -1]
Counters == [bytes : Nat, retained : Nat]
Least(a, b) == IF a < b THEN a ELSE b

Idle == [at |-> "idle", size |-> 0, told |-> None, fresh |-> TRUE]

\* Counters, the stages of the runner and what each thread was told.
TypeOK ==
    /\ child \in {"running", "ended"}
    /\ stage \in {"capture", "captured", "scanned", "exited"}
    /\ total \in 0..MaxOutput /\ due \in BOOLEAN
    /\ size \in 0..Cap \/ size = Redacted
    /\ sidecar \in Counters \cup {None}
    /\ row \in {"active", "stopping", "done"}
    /\ stored \in Counters
    /\ thread \in [Thread -> [at : {"idle", "sized", "told", "refused", "decide"},
                              size : Nat, told : Counters \cup {None},
                              fresh : BOOLEAN]]
    /\ latest \in Thread

Init ==
    /\ child = "running" /\ stage = "capture"
    /\ total = 0 /\ size = 0 /\ sidecar = None /\ due = TRUE
    /\ row = "active"
    /\ stored = [bytes |-> 0, retained |-> 0]
    /\ thread = [t \in Thread |-> Idle]
    /\ latest = "loop"

UnitActive == stage # "exited"

-----------------------------------------------------------------------------
(***************************************************************************)
(* The runner                                                              *)
(***************************************************************************)
\* _capture reads a chunk: it keeps what fits, and publishes the counters
\* only when a second has passed since it last did.
Write ==
    /\ child = "running" /\ stage = "capture" /\ total < MaxOutput
    /\ total' = total + 1
    /\ size' = IF size < Cap THEN size + 1 ELSE size
    /\ IF due THEN sidecar' = [bytes |-> total', retained |-> size'] /\ due' = FALSE
              ELSE UNCHANGED <<sidecar, due>>
    /\ UNCHANGED <<child, stage, row, stored, thread, latest>>

SecondPasses ==
    /\ ~due /\ stage = "capture"
    /\ due' = TRUE
    /\ UNCHANGED <<child, stage, total, size, sidecar, row, stored, thread, latest>>

\* The child exits, or the runner kills its process group at the deadline.
ChildEnds ==
    /\ child = "running"
    /\ child' = "ended"
    /\ UNCHANGED <<stage, total, size, sidecar, due, row, stored, thread, latest>>

\* End of the stream: the last counters are always published.
CaptureEnds ==
    /\ child = "ended" /\ stage = "capture"
    /\ stage' = "captured"
    /\ sidecar' = [bytes |-> total, retained |-> size]
    /\ UNCHANGED <<child, total, size, due, row, stored, thread, latest>>

\* _redact_capture_if_needed: a capture with a suspected secret is replaced
\* and its sidecar removed.
Scan(secret) ==
    /\ stage = "captured"
    /\ stage' = "scanned"
    /\ IF secret THEN size' = Redacted /\ sidecar' = None
                 ELSE UNCHANGED <<size, sidecar>>
    /\ UNCHANGED <<child, total, due, row, stored, thread, latest>>

\* The package is published and the runner's unit ends.
RunnerExits ==
    /\ stage = "scanned"
    /\ stage' = "exited"
    /\ UNCHANGED <<child, total, size, sidecar, due, row, stored, thread, latest>>

-----------------------------------------------------------------------------
(***************************************************************************)
(* The authority and the engine                                            *)
(***************************************************************************)
\* A caller cancels the run, or its deadline passes.
Ask ==
    /\ row = "active"
    /\ row' = "stopping"
    /\ UNCHANGED <<runnerVars, stored, thread, latest>>

\* Mutant: progress is read from the files of an ended unit as well.
ReadSizeAlways(t) ==
    /\ thread[t].at = "idle" /\ row # "done"
    /\ thread' = [thread EXCEPT ![t] = [Idle EXCEPT !.at = "sized", !.size = size]]
    /\ UNCHANGED <<runnerVars, row, stored, latest>>

\* status reads the size of the log of an active unit; an inactive one has
\* no progress to report.
ReadSize(t) ==
    /\ thread[t].at = "idle" /\ row # "done"
    /\ thread' = [thread EXCEPT ![t] =
                    IF UnitActive THEN [Idle EXCEPT !.at = "sized", !.size = size]
                                  ELSE [Idle EXCEPT !.at = "decide"]]
    /\ UNCHANGED <<runnerVars, row, stored, latest>>

\* Whether _runner_output_progress believes a sidecar beside a log of size n.
Agrees(n, published) == published.retained = n

\* Mutant: the size of the log is taken beside counters of another moment.
ReadSidecarMixed(t) ==
    /\ thread[t].at = "sized"
    /\ LET n == thread[t].size
       IN  thread' = [thread EXCEPT ![t].at = "told",
               ![t].told = [bytes |-> IF sidecar = None THEN n ELSE sidecar.bytes,
                            retained |-> n]]
    /\ latest' = t
    /\ UNCHANGED <<runnerVars, row, stored>>

\* status then reads the sidecar.  Without one the log stands for itself.
ReadSidecar(t) ==
    /\ thread[t].at = "sized"
    /\ LET n == thread[t].size
           told == IF sidecar = None THEN [bytes |-> n, retained |-> n] ELSE sidecar
       IN  IF sidecar = None \/ Agrees(n, sidecar)
           THEN /\ thread' = [thread EXCEPT ![t].at = "told", ![t].told = told]
                /\ latest' = t
           ELSE /\ thread' = [thread EXCEPT ![t].at = "refused"]
                /\ UNCHANGED latest
    /\ UNCHANGED <<runnerVars, row, stored>>

\* The heartbeat gives this execution up for this round.
GiveUp(t) ==
    /\ thread[t].at = "refused"
    /\ thread' = [thread EXCEPT ![t] = Idle]
    /\ UNCHANGED <<runnerVars, row, stored, latest>>

\* record_progress: counters and time of observation may only advance.
Regresses(t) ==
    \/ thread[t].told.bytes < stored.bytes
    \/ thread[t].told.retained < stored.retained
    \/ ~thread[t].fresh
RecordProgress(t) ==
    /\ thread[t].at = "told"
    /\ IF row = "done" \/ Regresses(t)
       THEN /\ thread' = [thread EXCEPT ![t] = Idle]
            /\ UNCHANGED stored
       ELSE /\ stored' = thread[t].told
            /\ thread' = [u \in Thread |->
                 CASE u = t -> [Idle EXCEPT !.at = "decide"]
                   [] u # t /\ thread[u].at = "told" /\ latest = t
                        -> [thread[u] EXCEPT !.fresh = FALSE]
                   [] OTHER -> thread[u]]
    /\ UNCHANGED <<runnerVars, row, latest>>

\* The rest of the heartbeat: an execution that is asked to stop is stopped
\* and settled, one whose unit has ended is settled, any other runs on.
Decide(t) ==
    /\ thread[t].at = "decide"
    /\ thread' = [thread EXCEPT ![t] = Idle]
    /\ IF row = "stopping" \/ (row = "active" /\ ~UnitActive)
       THEN row' = "done" /\ child' = "ended" /\ stage' = "exited"
       ELSE UNCHANGED <<row, child, stage>>
    /\ UNCHANGED <<total, size, sidecar, due, stored, latest>>

RunnerStep ==
    \/ Write \/ SecondPasses \/ ChildEnds \/ CaptureEnds \/ RunnerExits
    \/ \E secret \in BOOLEAN : Scan(secret)
Beat(t) ==
    ReadSize(t) \/ ReadSidecar(t) \/ GiveUp(t) \/ RecordProgress(t) \/ Decide(t)

Next == RunnerStep \/ Ask \/ \E t \in Thread : Beat(t)
Spec == Init /\ [][Next]_vars

\* The loop thread beats for ever; the runner ends its child at the latest
\* when its time to live is over, and then finishes.
Fairness ==
    /\ WF_vars(Beat("loop"))
    /\ WF_vars(ChildEnds) /\ WF_vars(CaptureEnds) /\ WF_vars(RunnerExits)
    /\ WF_vars(\E secret \in BOOLEAN : Scan(secret))
FairSpec == Spec /\ Fairness

-----------------------------------------------------------------------------
(***************************************************************************)
(* Properties                                                              *)
(***************************************************************************)
\* The counters of a row never claim more than the capture has seen, and
\* never mistake a truncated log for a complete one, as long as the capture
\* was not replaced: the two files are read at different times.
CountersAreTruthful ==
    /\ TypeOK
    /\ size = Least(total, Cap)
         => /\ stored.bytes <= total
            /\ stored.retained = Least(stored.bytes, Cap)

\* An execution whose unit has ended, or that was asked to stop, is settled,
\* however many of its observations are refused on the way.
ExecutionSettles ==
    /\ ~UnitActive ~> row = "done"
    /\ row = "stopping" ~> row = "done"
=============================================================================
