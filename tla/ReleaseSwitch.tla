--------------------------- MODULE ReleaseSwitch ---------------------------
(***************************************************************************)
(* scripts/switch_same_schema_release.py: the tool that replaces the        *)
(* installed release of the coordinator by a candidate and can go back.     *)
(*                                                                         *)
(* Every run of the tool is one command (prepare, apply, verify,            *)
(* acceptance-begin, finalize, rollback) under the installer fence of       *)
(* server_wide_installer_fence.py.  What it has done is in a journal, in    *)
(* the claim and in a terminal document; everything else is the host:       *)
(* installed units, running authority, retained files, worker units, the    *)
(* two Console slots of edge/console-slot-supervisor.mjs and the edge       *)
(* publication.  The tool may be killed, a command of it may fail, and the  *)
(* host may reboot, between any two steps; commands are repeated.           *)
(*                                                                         *)
(* `rebase' is retained_control_rebaseline.required: the release changes    *)
(* the schema of the retained files, so they are replaced with it.  The     *)
(* opt-in reset of test history, a release that is already active and       *)
(* supersede-prepared are left out.                                         *)
(***************************************************************************)
EXTENDS Naturals, Sequences, FiniteSets

CONSTANTS
    Rebase,    \* the values of `rebase' to consider
    MaxFaults  \* kills, failed commands and reboots together

ASSUME SwitchAssumption == Rebase \subseteq BOOLEAN /\ MaxFaults \in Nat

VARIABLES
    rebase,
    journal,   \* journal.json: phase, destinations backed up, status of the
               \* rebaseline, worker quiescence proved
    claim,     \* the transaction owns the installer fence
    terminal,  \* the outcome document of the transaction
    job,       \* the command that runs, and where it is
    copy,      \* the backup of the retained files
    files,     \* the release each retained file belongs to
    units,     \* the release of the installed units
    authority, \* the release that runs, or "off"
    workers,   \* whose managed workers are loaded: source, candidate, none
    slot,      \* Console slots: off, standby or active (the writer)
    jam,       \* slots whose control chain has failed
    enabled,   \* Console units that start at boot
    pointer,   \* active-slot.json: the slot that became active last
    edge,      \* the slot the edge publication names
    other,     \* an ordinary installer holds the mutex
    decided,   \* the operator has given the release up
    faults

toolVars == <<journal, claim, terminal, job, copy>>
dataVars == <<files, units, authority, workers>>
consoleVars == <<slot, jam, enabled, pointer, edge>>
hostVars == <<dataVars, consoleVars>>
worldVars == <<rebase, other, decided, faults>>
vars == <<toolVars, hostVars, worldVars>>

Console == {"previous", "candidate"}
Peer(c) == CHOOSE d \in Console : d # c
File == <<"credential", "database", "profile", "console">>
All(release) == [i \in DOMAIN File |-> release]

\* The schema release r needs, and whether it finds it in the database.
Schema(r) == IF r = "new" \/ ~rebase THEN "new" ELSE "old"
Runs(r) == files[2] = Schema(r)

NoJournal == [phase |-> "none", backed |-> FALSE, status |-> "planned",
              proof |-> FALSE]
Idle == [act |-> "none", at |-> "idle", created |-> FALSE, live |-> FALSE,
         i |-> 1]
Acts == {"prepare", "apply", "verify", "acceptance", "finalize", "rollback"}

Init ==
    /\ rebase \in Rebase
    /\ journal = NoJournal /\ claim = FALSE /\ terminal = "none"
    /\ job = Idle /\ copy = All("none")
    /\ files = All(Schema("old")) /\ units = "old" /\ authority = "old"
    /\ workers = "source"
    /\ slot = [c \in Console |-> IF c = "previous" THEN "active" ELSE "off"]
    /\ jam = [c \in Console |-> FALSE]
    /\ enabled = {"previous"} /\ pointer = "previous" /\ edge = "previous"
    /\ other = FALSE /\ decided = FALSE /\ faults = 0

-----------------------------------------------------------------------------
(* The command: entering and leaving.                                      *)

At(p) == job.at = p
Go(p) == job' = [job EXCEPT !.at = p]

\* Mutant: any command that borrowed the fence gives it back when it fails.
ReleasedWithTerminal ==
    job.created /\ (terminal # "none" \/ journal = NoJournal)

\* What a command that fails does with the claim it created.
ReleasedOnError ==
    /\ job.created
    /\ \/ job.act \in {"prepare", "apply"} /\ journal = NoJournal
       \/ job.act \in {"verify", "acceptance", "finalize"} /\ terminal # "none"

Raise ==
    /\ job' = Idle
    /\ claim' = (claim /\ ~ReleasedOnError)

\* The command goes on at p if its check holds.
Proceed(ok, p) == IF ok THEN Go(p) /\ UNCHANGED claim ELSE Raise

\* acquire_transaction_fence: only prepare and apply create the owner, unless
\* the transaction has ended; a claim of this transaction is resumed.
Begin(act) ==
    /\ job = Idle /\ ~other
    /\ act = "acceptance" => terminal = "deployed"
    /\ claim \/ act \in {"prepare", "apply"} \/ terminal # "none"
    /\ decided => act = "rollback"
    /\ claim' = TRUE
    /\ job' = [Idle EXCEPT !.act = act, !.at = "claimed", !.created = ~claim]
    /\ UNCHANGED <<journal, terminal, copy, hostVars, worldVars>>

\* require_live_rollback_identity: of the installed units only the Console
\* template is compared, which two releases may have in common.
LateRollbackIdentity(template) ==
    journal.phase = "applied" /\ edge = "candidate" /\ template
Template == IF units = "new" THEN {TRUE} ELSE BOOLEAN

\* A new claim on an ended transaction: prepare and apply reopen it, rollback
\* answers from the journal or must find this release still published.
Claimed ==
    /\ At("claimed")
    /\ \/ /\ job.act \in {"prepare", "apply"}
          /\ terminal' = IF job.created THEN "none" ELSE terminal
          /\ Go("prepare") /\ UNCHANGED claim
       \/ /\ job.act = "rollback"
          /\ LET prior == IF job.created THEN terminal ELSE "none"
             IN  CASE prior = "none" -> Go("rollback") /\ UNCHANGED claim
                   [] prior = "rolled-back" ->
                        IF journal.phase = "rolled-back"
                        THEN Go("complete") /\ UNCHANGED claim ELSE Raise
                   [] prior = "deployed" -> \E template \in Template :
                        IF LateRollbackIdentity(template)
                        THEN Go("rollback") /\ UNCHANGED claim
                        ELSE job' = Idle /\ claim' = FALSE
          /\ UNCHANGED terminal
       \/ /\ job.act \in {"verify", "acceptance", "finalize"}
          /\ Go("verify") /\ UNCHANGED <<claim, terminal>>
    /\ UNCHANGED <<journal, copy, hostVars, worldVars>>

\* InstallerFenceHandle.close.
Close ==
    /\ At("end") \/ At("complete")
    /\ job' = Idle
    /\ claim' = At("end")
    /\ UNCHANGED <<journal, terminal, copy, hostVars, worldVars>>

Prepare ==
    /\ At("prepare")
    /\ journal' = (IF journal = NoJournal THEN [journal EXCEPT !.phase = "prepared"]
                                   ELSE journal)
    /\ Go(IF job.act = "apply" THEN "apply" ELSE "end")
    /\ UNCHANGED <<claim, terminal, copy, hostVars, worldVars>>

-----------------------------------------------------------------------------
(* What the commands share.                                                *)

Source == {"planned", "backed-up", "prepared"}
Copied == {"backed-up", "prepared", "publishing", "published", "applied"}

\* source_worker_quiescence_proof: readable only from the old schema.
Quiescent == workers = "none" /\ files[2] = "old"

\* stop_authority_writers.
StopWriters ==
    /\ job.at \in {"freeze", "freeze-again", "stop-writers"}
    /\ authority' = "off"
    /\ Go(CASE At("freeze") -> "bind"
            [] At("freeze-again") -> "bind-again"
            [] At("stop-writers") -> "stop-workers")
    /\ UNCHANGED <<journal, claim, terminal, copy, files, units, workers,
                   consoleVars, worldVars>>

\* bind_source_worker_quiescence; a replayed publication only requires that
\* no worker is loaded.
BindQuiescence ==
    /\ job.at \in {"bind", "bind-again"}
    /\ LET next  == IF At("bind") THEN "back-up" ELSE "stop-consoles"
           first == journal.status \in Source /\ ~journal.proof
       IN  /\ Proceed(CASE first -> TRUE
                        [] journal.status \in Source /\ ~first -> Quiescent
                        [] OTHER -> workers = "none", next)
           /\ workers' = IF first THEN "none" ELSE workers
           /\ journal' = IF first THEN [journal EXCEPT !.proof = TRUE]
                                  ELSE journal
    /\ UNCHANGED <<terminal, copy, files, units, authority, consoleVars,
                   worldVars>>

\* stop_console_writers.
StopConsoles ==
    /\ At("stop-consoles")
    /\ slot' = [c \in Console |-> "off"]
    /\ jam' = [c \in Console |-> FALSE]
    /\ Go(IF job.act = "apply" THEN "copy" ELSE "restore")
    /\ UNCHANGED <<journal, claim, terminal, copy, dataVars, enabled, pointer,
                   edge, worldVars>>

\* _restore_retained_files: credentials, database, profile, Console files.
\* The apply converges from the predecessor first and recovers to it.
RestoreFile ==
    /\ job.at \in {"restore", "recover"}
    /\ files' = IF copy[job.i] = "none" THEN files
                ELSE [files EXCEPT ![job.i] = copy[job.i]]
    /\ IF job.i < Len(File)
       THEN job' = [job EXCEPT !.i = @ + 1]
       ELSE job' = [job EXCEPT !.i = 1,
                      !.at = CASE At("recover") -> "recovered"
                               [] At("restore") /\ job.act = "apply" -> "prove"
                               [] OTHER -> "restored"]
    /\ UNCHANGED <<journal, claim, terminal, copy, units, authority, workers,
                   consoleVars, worldVars>>

\* wait_authority_ready: the authority is up and reports the schema of the
\* tool, which is the candidate's, also where the predecessor was started.
Ready == Runs(units) /\ files[2] = "new"

\* restart_services, after require_current_authority_schema in an apply: the
\* installed authority comes up if it finds its schema.
RestartServices ==
    /\ job.at \in {"services", "restart-old"}
    /\ LET schema == At("services") => files[2] = "new"
       IN  /\ authority' = CASE ~schema -> authority
                             [] schema /\ Runs(units) -> units
                             [] OTHER -> "off"
           /\ Proceed(schema /\ Ready,
                      IF At("services") THEN "converge" ELSE "converge-old")
    /\ UNCHANGED <<journal, terminal, copy, files, units, workers, consoleVars,
                   worldVars>>

\* require_retained_worker_policy_convergence: waits for the workers.
Converges(who) == workers = who \/ authority = "off"

\* console-slot-supervisor: a started slot takes the writer role if the
\* pointer names it.
Started(c) ==
    [slot EXCEPT ![c] = CASE @ # "off" -> @
                          [] @ = "off" /\ pointer = c -> "active"
                          [] OTHER -> "standby"]
Answers(c, s) == s[c] # "off" /\ ~jam[c]
LeaseFree(c) == slot[Peer(c)] # "active"

\* promote of a slot; without the peer's socket it fails when the peer has
\* the writer lease, and the failure stays in the slot's control chain.
Promoted(c, withPeer, next) ==
    IF withPeer \/ LeaseFree(c)
    THEN /\ slot' = [d \in Console |->
                       CASE d = c -> "active"
                         [] d # c /\ withPeer -> "standby"
                         [] OTHER -> slot[d]]
         /\ pointer' = c /\ UNCHANGED jam
         /\ Go(next) /\ UNCHANGED claim
    ELSE /\ jam' = [jam EXCEPT ![c] = TRUE] /\ UNCHANGED <<slot, pointer>>
         /\ Raise

-----------------------------------------------------------------------------
(* apply.                                                                  *)

Apply ==
    /\ At("apply")
    /\ LET s == journal.status
       IN  CASE journal.phase = "applied" ->
                  Proceed(rebase => s = "applied" /\ files = All("new"), "end")
             [] journal.phase \in {"prepared", "applying"} ->
                  IF rebase /\ s \in Source THEN Proceed(TRUE, "freeze")
                  ELSE Proceed((rebase /\ s # "applied") => workers = "none",
                               "back-up")
             [] OTHER -> Raise
    /\ UNCHANGED <<journal, terminal, copy, hostVars, worldVars>>

\* backup_destinations, unless the journal has the backups.
BackUp ==
    /\ At("back-up")
    /\ LET ok == /\ (rebase /\ journal.status # "applied")
                      => slot["candidate"] = "off"
                 /\ ~journal.backed => units = "old"
       IN  /\ Proceed(ok, "install")
           /\ journal' = IF ok THEN [journal EXCEPT !.phase = "applying",
                                                    !.backed = TRUE]
                               ELSE journal
    /\ UNCHANGED <<terminal, copy, hostVars, worldVars>>

\* install_rendered_destinations, file by file.
Install ==
    /\ job.at \in {"install", "install-rest"}
    /\ units' = IF At("install") /\ units # "new" THEN "mixed" ELSE "new"
    /\ Go(IF At("install") THEN "install-rest" ELSE "retained")
    /\ UNCHANGED <<journal, claim, terminal, copy, files, authority, workers,
                   consoleVars, worldVars>>

\* apply_retained_control_rebaseline.
Retained ==
    /\ At("retained")
    /\ CASE ~rebase -> Proceed(TRUE, "services")
         [] rebase /\ journal.status \in {"published", "applied"} ->
              Proceed(files = All("new"), "services")
         [] OTHER -> Proceed(TRUE, "freeze-again")
    /\ UNCHANGED <<journal, terminal, copy, hostVars, worldVars>>

\* Mutant: a backup directory that exists is taken for the backup.
CopySkipped ==
    /\ At("copy")
    /\ Go(IF journal.status = "planned" THEN "copied" ELSE "stage")
    /\ UNCHANGED <<journal, claim, terminal, copy, hostVars, worldVars>>

\* _retained_backup_destinations; the credentials are copied by Stage.
CopyFiles ==
    /\ At("copy")
    /\ LET first == journal.status = "planned"
       IN  /\ Go(IF first THEN "copied" ELSE "stage")
           /\ copy' = IF first
                      THEN [i \in DOMAIN File |->
                              IF i = 1 THEN copy[i] ELSE files[i]]
                      ELSE copy
    /\ UNCHANGED <<journal, claim, terminal, hostVars, worldVars>>

SaveCopied ==
    /\ At("copied")
    /\ journal' = [journal EXCEPT !.status = "backed-up", !.phase = "applying"]
    /\ Go("stage")
    /\ UNCHANGED <<claim, terminal, copy, hostVars, worldVars>>

\* retained_control.prepare_rebaseline and the credential backups.
Stage ==
    /\ At("stage")
    /\ LET first == journal.status = "backed-up"
       IN  /\ copy' = IF first THEN [copy EXCEPT ![1] = files[1]] ELSE copy
           /\ journal' = IF first THEN [journal EXCEPT !.status = "prepared"]
                                  ELSE journal
    /\ Go("open")
    /\ UNCHANGED <<claim, terminal, hostVars, worldVars>>

OpenPublication ==
    /\ At("open")
    /\ journal' = [journal EXCEPT !.status = "publishing"]
    /\ Go("restore")
    /\ UNCHANGED <<claim, terminal, copy, hostVars, worldVars>>

Prove ==
    /\ At("prove")
    /\ Go(IF Quiescent THEN "publish" ELSE "recover")
    /\ UNCHANGED <<journal, claim, terminal, copy, hostVars, worldVars>>

PublishFile ==
    /\ At("publish")
    /\ files' = [files EXCEPT ![job.i] = "new"]
    /\ job' = IF job.i < Len(File) THEN [job EXCEPT !.i = @ + 1]
              ELSE [job EXCEPT !.i = 1, !.at = "published"]
    /\ UNCHANGED <<journal, claim, terminal, copy, units, authority, workers,
                   consoleVars, worldVars>>

SavePublished ==
    /\ At("published")
    /\ journal' = [journal EXCEPT !.status = "published"]
    /\ Go("services")
    /\ UNCHANGED <<claim, terminal, copy, hostVars, worldVars>>

\* The publication failed and the predecessor is back.
Recovered ==
    /\ At("recovered")
    /\ journal' = [journal EXCEPT !.status = "prepared"]
    /\ Raise
    /\ UNCHANGED <<terminal, copy, hostVars, worldVars>>

\* complete_retained_control_rebaseline.
Complete ==
    /\ At("converge")
    /\ ~rebase \/ Converges("candidate")
    /\ LET ok == rebase => workers = "candidate" /\ files = All("new")
       IN  /\ Proceed(ok, "start-slot")
           /\ journal' = IF ok /\ rebase
                         THEN [journal EXCEPT !.status = "applied"] ELSE journal
    /\ UNCHANGED <<terminal, copy, hostVars, worldVars>>

StartCandidate ==
    /\ At("start-slot")
    /\ slot' = Started("candidate")
    /\ enabled' = enabled \union {"candidate"}
    /\ Proceed(Answers("candidate", slot'), "promote")
    /\ UNCHANGED <<journal, terminal, copy, dataVars, jam, pointer, edge,
                   worldVars>>

\* A previous slot that does not answer counts as gone if it is published.
Promote ==
    /\ At("promote")
    /\ LET gone == ~Answers("previous", slot)
           mode == slot["previous"]
       IN  CASE slot["candidate"] = "active" /\ (gone \/ mode = "standby") ->
                  Proceed(TRUE, "edge") /\ UNCHANGED <<slot, jam, pointer>>
             [] /\ slot["candidate"] = "standby"
                /\ IF gone THEN edge = "previous" ELSE mode = "active" ->
                  Promoted("candidate", ~gone, "edge")
             [] OTHER -> Raise /\ UNCHANGED <<slot, jam, pointer>>
    /\ UNCHANGED <<journal, terminal, copy, dataVars, enabled, edge, worldVars>>

SwitchEdge ==
    /\ At("edge")
    /\ edge' = "candidate"
    /\ Go("drain")
    /\ UNCHANGED <<journal, claim, terminal, copy, dataVars, slot, jam, enabled,
                   pointer, worldVars>>

Drain ==
    /\ At("drain")
    /\ slot' = [slot EXCEPT !["previous"] = "off"]
    /\ jam' = [jam EXCEPT !["previous"] = FALSE]
    /\ enabled' = enabled \ {"previous"}
    /\ Go("applied")
    /\ UNCHANGED <<journal, claim, terminal, copy, dataVars, pointer, edge,
                   worldVars>>

SaveApplied ==
    /\ At("applied")
    /\ journal' = [journal EXCEPT !.phase = "applied"]
    /\ Go("end")
    /\ UNCHANGED <<claim, terminal, copy, hostVars, worldVars>>

-----------------------------------------------------------------------------
(* rollback.                                                               *)

Rollback ==
    /\ At("rollback")
    /\ LET p == journal.phase
           next == CASE p = "rolled-back" -> "rolled"
                     [] p # "rolled-back" /\ ~journal.backed ->
                          IF rebase THEN "restart-old" ELSE "settle"
                     [] p = "control-plane-restored" -> "background"
                     [] p = "background-restored" -> "converge-old"
                     [] OTHER -> IF rebase /\ journal.status \in Copied
                                 THEN "guard" ELSE "units"
           resumed == p \in {"control-plane-restored", "background-restored"}
       IN  IF p = "none" \/ (resumed /\ edge # "previous") THEN Raise
           ELSE /\ job' = [job EXCEPT !.at = next, !.live = edge = "candidate"]
                /\ UNCHANGED claim
    /\ UNCHANGED <<journal, terminal, copy, hostVars, worldVars>>

\* restore_retained_control_rebaseline, before anything is stopped.
Guard ==
    /\ At("guard")
    /\ Proceed(CASE journal.status \in Source -> Quiescent
                 [] journal.status = "publishing" -> workers = "none"
                 [] OTHER -> TRUE, "stop-writers")
    /\ UNCHANGED <<journal, terminal, copy, hostVars, worldVars>>

\* Mutant: the workers of the candidate are not the tool's to stop.
WorkersMustBeGone ==
    /\ At("stop-workers")
    /\ Proceed(workers = "none", "stop-consoles")
    /\ UNCHANGED <<journal, terminal, copy, hostVars, worldVars>>

\* stop_candidate_workers_for_rollback; before the publication there is
\* nothing to stop and the proof must still hold.
StopWorkers ==
    /\ At("stop-workers")
    /\ LET theirs == journal.status \in {"published", "applied"}
       IN  /\ Proceed(CASE theirs -> TRUE
                        [] journal.status = "publishing" -> workers = "none"
                        [] OTHER -> Quiescent, "stop-consoles")
           /\ workers' = IF theirs THEN "none" ELSE workers
    /\ UNCHANGED <<journal, terminal, copy, files, units, authority,
                   consoleVars, worldVars>>

SaveRestored ==
    /\ At("restored")
    /\ Proceed(Quiescent, "units")
    /\ journal' = IF Quiescent
                  THEN [journal EXCEPT !.status = "rolled-back",
                                       !.phase = "retained-control-restored"]
                  ELSE journal
    /\ UNCHANGED <<terminal, copy, hostVars, worldVars>>

\* restore_destination_backups, file by file.
RestoreUnits ==
    /\ job.at \in {"units", "units-rest"}
    /\ units' = IF At("units") /\ units # "old" THEN "mixed" ELSE "old"
    /\ Go(IF At("units") THEN "units-rest" ELSE "plane")
    /\ UNCHANGED <<journal, claim, terminal, copy, files, authority, workers,
                   consoleVars, worldVars>>

\* restore_rollback_control_plane.
RestorePlane ==
    /\ At("plane")
    /\ authority' = IF Runs(units) THEN units ELSE "off"
    /\ Proceed(Ready, "previous-slot")
    /\ UNCHANGED <<journal, terminal, copy, files, units, workers, consoleVars,
                   worldVars>>

\* The previous Console; restart_previous_console when nothing was installed.
StartPrevious ==
    /\ At("previous-slot")
    /\ slot' = Started("previous")
    /\ enabled' = {"previous"} \union
                  (IF journal.backed THEN enabled \ {"candidate"} ELSE enabled)
    /\ Proceed(Answers("previous", slot'), "promote-previous")
    /\ UNCHANGED <<journal, terminal, copy, dataVars, jam, pointer, edge,
                   worldVars>>

PromotePrevious ==
    /\ At("promote-previous")
    /\ LET next == IF journal.backed THEN "edge-back" ELSE "settle"
       IN  IF slot["previous"] = "active"
           THEN Proceed(TRUE, next) /\ UNCHANGED <<slot, jam, pointer>>
           ELSE Promoted("previous", FALSE, next)
    /\ UNCHANGED <<journal, terminal, copy, dataVars, enabled, edge, worldVars>>

\* Mutant: the publication is taken back only if the apply had finished.
EdgeBackIfApplied ==
    /\ At("edge-back")
    /\ edge' = IF journal.phase = "applied" THEN "previous" ELSE edge
    /\ Go("control")
    /\ UNCHANGED <<journal, claim, terminal, copy, dataVars, slot, jam, enabled,
                   pointer, worldVars>>

EdgeBack ==
    /\ At("edge-back")
    /\ edge' = IF job.live THEN "previous" ELSE edge
    /\ Go("control")
    /\ UNCHANGED <<journal, claim, terminal, copy, dataVars, slot, jam, enabled,
                   pointer, worldVars>>

\* complete_rollback_after_control_plane: the background services, then the
\* proof that the predecessor's workers are back.
SaveControl ==
    /\ At("control")
    /\ journal' = [journal EXCEPT !.phase = "control-plane-restored"]
    /\ Go("background")
    /\ UNCHANGED <<claim, terminal, copy, hostVars, worldVars>>

Background ==
    /\ At("background")
    /\ journal' = [journal EXCEPT !.phase = "background-restored"]
    /\ Go("converge-old")
    /\ UNCHANGED <<claim, terminal, copy, hostVars, worldVars>>

ConvergeOld ==
    /\ At("converge-old")
    /\ ~rebase \/ Converges("source")
    /\ Proceed(rebase => workers = "source",
               IF journal.backed THEN "settle" ELSE "previous-slot")
    /\ UNCHANGED <<journal, terminal, copy, hostVars, worldVars>>

Settle ==
    /\ At("settle")
    /\ journal' = [journal EXCEPT !.phase = "rolled-back"]
    /\ Go("rolled")
    /\ UNCHANGED <<claim, terminal, copy, hostVars, worldVars>>

\* delivery_fence_terminal publishes the outcome.
Publish ==
    /\ \/ At("rolled") /\ terminal' = "rolled-back"
       \/ At("deployed") /\ terminal' = "deployed"
    /\ Go("complete")
    /\ UNCHANGED <<journal, claim, copy, hostVars, worldVars>>

-----------------------------------------------------------------------------
(* verify, acceptance-begin and finalize.                                  *)

\* Whether the installed launchers are the candidate's.  A rollback restores
\* them last, after the unit files.
Launchers == CASE units = "new" -> {TRUE}
               [] units = "old" -> {FALSE}
               [] units = "mixed" -> BOOLEAN

\* verify looks at the launchers, not at the unit files.
VerifiedOk(launchers) ==
    /\ authority # "off" /\ slot["candidate"] = "active"
    /\ "candidate" \in enabled /\ edge = "candidate"
    /\ launchers

Verify ==
    /\ At("verify")
    /\ LET readable == /\ journal.phase = "applied"
                       /\ rebase => journal.status = "applied"
                                    /\ files = All("new")
                       /\ files[2] = "new"
                       /\ Answers("candidate", slot)
       IN  \E launchers \in Launchers :
             LET ok == VerifiedOk(launchers)
             IN  IF ~readable \/ (job.act = "finalize" /\ ~ok) THEN Raise
                 ELSE /\ Go(CASE job.act = "finalize" -> "deployed"
                              [] job.act = "verify" ->
                                   IF job.created THEN "complete" ELSE "end"
                              [] OTHER -> IF job.created /\ ~ok
                                          THEN "complete" ELSE "end")
                      /\ UNCHANGED claim
    /\ UNCHANGED <<journal, terminal, copy, hostVars, worldVars>>

-----------------------------------------------------------------------------
(* The host.                                                               *)

\* The running authority starts the workers its database keeps alive.
WorkersStart ==
    /\ authority # "off" /\ workers = "none"
    /\ workers' = IF rebase /\ files[2] = "new" THEN "candidate" ELSE "source"
    /\ UNCHANGED <<toolVars, files, units, authority, consoleVars, worldVars>>

Fault == faults < MaxFaults /\ faults' = faults + 1

Kill ==
    /\ Fault /\ job # Idle
    /\ job' = Idle
    /\ UNCHANGED <<journal, claim, terminal, copy, hostVars, rebase, other,
                   decided>>

\* A command or check of a step fails.  While the files are being published
\* the predecessor is restored first.
Publishing == At("prove") \/ At("publish") \/ At("published")
                \/ (At("restore") /\ job.act = "apply")

StepFails ==
    /\ Fault /\ job # Idle /\ ~At("end") /\ ~At("complete")
    /\ IF Publishing THEN job' = [job EXCEPT !.at = "recover", !.i = 1]
                          /\ UNCHANGED claim
                     ELSE Raise
    /\ jam' \in {jam} \union
         (IF At("promote") /\ slot["candidate"] = "standby"
          THEN {[jam EXCEPT !["candidate"] = TRUE]} ELSE {}) \union
         (IF At("promote-previous") /\ slot["previous"] = "standby"
          THEN {[jam EXCEPT !["previous"] = TRUE]} ELSE {})
    /\ UNCHANGED <<journal, terminal, copy, dataVars, slot, enabled, pointer,
                   edge, rebase, other, decided>>

Reboot ==
    /\ Fault
    /\ job' = Idle
    /\ \E r \in IF units = "mixed" THEN {"old", "new"} ELSE {units} :
         authority' = IF Runs(r) THEN r ELSE "off"
    /\ workers' = "none"
    /\ slot' = [c \in Console |-> CASE c \notin enabled -> "off"
                                    [] c \in enabled /\ pointer = c -> "active"
                                    [] OTHER -> "standby"]
    /\ jam' = [c \in Console |-> FALSE]
    /\ UNCHANGED <<journal, claim, terminal, copy, files, units, enabled,
                   pointer, edge, rebase, other, decided>>

\* acquire_installer_mutex: another installer needs the lock and no claim.
OtherBegins ==
    /\ ~other /\ job = Idle /\ ~claim
    /\ other' = TRUE
    /\ UNCHANGED <<toolVars, hostVars, rebase, decided, faults>>

OtherEnds ==
    /\ other /\ other' = FALSE
    /\ UNCHANGED <<toolVars, hostVars, rebase, decided, faults>>

GiveUp ==
    /\ ~decided /\ decided' = TRUE
    /\ UNCHANGED <<toolVars, hostVars, rebase, other, faults>>

-----------------------------------------------------------------------------

Shared == StopWriters \/ BindQuiescence \/ StopConsoles \/ RestoreFile
            \/ RestartServices
ApplyStep == Apply \/ BackUp \/ Install \/ Retained \/ CopyFiles \/ SaveCopied
               \/ Stage \/ OpenPublication \/ Prove \/ PublishFile
               \/ SavePublished \/ Recovered \/ Complete \/ StartCandidate
               \/ Promote \/ SwitchEdge \/ Drain \/ SaveApplied
RollbackStep == Rollback \/ Guard \/ StopWorkers \/ SaveRestored
                  \/ RestoreUnits \/ RestorePlane \/ StartPrevious
                  \/ PromotePrevious \/ EdgeBack \/ SaveControl \/ Background
                  \/ ConvergeOld \/ Settle
ToolStep == Claimed \/ Prepare \/ Close \/ Verify \/ Publish \/ Shared
              \/ ApplyStep \/ RollbackStep

Next ==
    \/ \E act \in Acts : Begin(act)
    \/ ToolStep
    \/ WorkersStart \/ Kill \/ StepFails \/ Reboot
    \/ OtherBegins \/ OtherEnds \/ GiveUp

\* A command runs on, installers end, the authority starts its workers, and
\* an operator who gave up repeats the rollback until it gets the fence.
Spec ==
    /\ Init /\ [][Next]_vars
    /\ WF_vars(ToolStep) /\ WF_vars(WorkersStart) /\ WF_vars(OtherEnds)
    /\ SF_vars(decided /\ Begin("rollback"))

-----------------------------------------------------------------------------

Release == {"old", "new"}

\* The documents of the tool, the command in hand and the host.
TypeOK ==
    /\ rebase \in BOOLEAN /\ claim \in BOOLEAN /\ other \in BOOLEAN
    /\ decided \in BOOLEAN /\ faults \in 0 .. MaxFaults
    /\ journal \in [phase : {"none", "prepared", "applying", "applied",
                             "retained-control-restored",
                             "control-plane-restored", "background-restored",
                             "rolled-back"},
                    backed : BOOLEAN, proof : BOOLEAN,
                    status : {"planned", "rolled-back"} \union Copied]
    /\ terminal \in {"none", "deployed", "rolled-back"}
    /\ job.act \in Acts \union {"none"} /\ job.i \in DOMAIN File
    /\ copy \in [DOMAIN File -> Release \union {"none"}]
    /\ files \in [DOMAIN File -> Release]
    /\ units \in Release \union {"mixed"}
    /\ authority \in Release \union {"off"}
    /\ workers \in {"source", "candidate", "none"}
    /\ slot \in [Console -> {"off", "standby", "active"}]
    /\ jam \in [Console -> BOOLEAN] /\ enabled \subseteq Console
    /\ pointer \in Console /\ edge \in Console

\* Every retained file of the predecessor is in place, or its copy is, and
\* the journal says so.
PredecessorRecoverable ==
    rebase => \A i \in DOMAIN File :
                 files[i] = "old"
                   \/ (copy[i] = "old" /\ journal.status \in Copied)

\* Once the copy is journaled the predecessor does not write again, so going
\* back to the copy loses nothing.
CopyIsCurrent ==
    rebase /\ journal.status \in Copied => authority # "old"

\* The retained data of the predecessor survive any kill, failed step or
\* reboot of a switch (restore_retained_control_rebaseline can always return
\* to them), and no authority runs on a database of the other schema.
RetainedDataSafe ==
    /\ TypeOK /\ PredecessorRecoverable /\ CopyIsCurrent
    /\ authority # "off" => Runs(authority)

Settled(r) ==
    LET c == IF r = "old" THEN "previous" ELSE "candidate"
    IN  /\ files = All(Schema(r)) /\ units = r /\ authority = r
        /\ edge = c /\ slot[c] = "active"

\* An ordinary rollback was cut off inside the unit files and the release was
\* finalized after all: verify does not see that the units are a mixture, and
\* a reboot may have started the authority of either release.
FinalizedOverRollback ==
    /\ ~rebase /\ units = "mixed"
    /\ files = All("new") /\ authority # "off"
    /\ edge = "candidate" /\ slot["candidate"] = "active"

\* Another installer gets the mutex only on a host that is wholly at one
\* release: the claim covers every unfinished switch, also a late rollback
\* and a command that borrowed the fence of an ended transaction.  Where the
\* units are a mixture, the outcome document says "deployed".
OthersSeeSettledHost ==
    other => \/ Settled("old") \/ Settled("new")
             \/ terminal = "deployed" /\ FinalizedOverRollback

\* An outcome document that is published is true of the host, however often
\* apply and rollback were interrupted before, but for the units that verify
\* does not compare.
OutcomesAreTrue ==
    [][terminal' # terminal =>
         /\ terminal' = "rolled-back" => Settled("old")'
         /\ terminal' = "deployed" =>
              Settled("new")' \/ FinalizedOverRollback']_vars

\* Where the rollback of this code cannot go on: the promoted candidate of an
\* ordinary release keeps the writer lease, a slot whose control chain failed
\* answers no more, and a reboot inside the publication starts workers that
\* neither apply nor rollback stops.
Wedged ==
    \/ ~rebase /\ slot["candidate"] = "active"
    \/ jam["previous"]
    \/ journal.status = "publishing" /\ workers = "candidate"

PredecessorBack ==
    files = All(Schema("old")) /\ units = "old" /\ authority = "old"

\* An operator who gives the release up and repeats the rollback gets the
\* predecessor back, except where the rollback is wedged: an ordinary release
\* is recorded as rolled back, a rebaseline has at least the files, units and
\* authority of the predecessor again.
RollbackEnds ==
    decided /\ journal.phase # "none" ~>
        \/ terminal = "rolled-back" \/ Wedged
        \/ rebase /\ PredecessorBack
=============================================================================
