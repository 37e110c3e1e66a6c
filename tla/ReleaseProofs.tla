--------------------------- MODULE ReleaseProofs ---------------------------
(***************************************************************************)
(* Proofs about the switch of a release: the retained data of the           *)
(* predecessor, the outcome documents and what another installer sees, for  *)
(* any number of kills, failed commands and reboots.                        *)
(***************************************************************************)
EXTENDS ReleaseSwitch, TLAPS

-----------------------------------------------------------------------------
(***************************************************************************)
(* The inductive invariant                                                 *)
(***************************************************************************)
\* Where a command can be, by the part of the tool it is in.
Freezing == {"freeze", "bind"}
Replacing == {"freeze-again", "bind-again", "copy", "copied", "stage", "open",
              "prove", "publish", "published", "recover", "recovered"}
Installing == {"back-up", "install", "install-rest", "retained"}
Starting == {"services", "converge", "start-slot", "promote", "edge", "drain",
             "applied"}
Undoing == {"guard", "stop-writers", "stop-workers", "restored"}
Returning == {"units", "units-rest", "plane", "edge-back", "control",
              "background"}
Ending == {"previous-slot", "promote-previous", "converge-old", "settle", "rolled"}
Place == Freezing \cup Replacing \cup Installing \cup Starting \cup Undoing
            \cup Returning \cup Ending
            \cup {"idle", "claimed", "prepare", "verify", "end", "complete",
                  "deployed", "apply", "rollback", "restart-old",
                  "stop-consoles", "restore"}

Phase == {"none", "prepared", "applying", "applied", "retained-control-restored",
          "control-plane-restored", "background-restored", "rolled-back"}
Between == {"prepared", "applying", "applied", "retained-control-restored"}
Status == {"planned", "rolled-back"} \cup Copied

JournalType == [phase : Phase, backed : BOOLEAN, proof : BOOLEAN, status : Status]
JobType == [act : Acts \cup {"none"}, at : Place, created : BOOLEAN,
            live : BOOLEAN, i : DOMAIN File]

Typed == TypeOK /\ journal \in JournalType /\ job \in JobType

\* Settled, and a reboot brings the same Console up.
ConsoleOf(r) == IF r = "old" THEN "previous" ELSE "candidate"
SettledAt(r) ==
    Settled(r) /\ ConsoleOf(r) \in enabled /\ pointer = ConsoleOf(r)

\* The exception of the outcome "deployed", which a reboot keeps as well.
HalfBack ==
    FinalizedOverRollback /\ "candidate" \in enabled /\ pointer = "candidate"
SettledHost ==
    \/ SettledAt("old") \/ SettledAt("new")
    \/ terminal = "deployed" /\ HalfBack

\* What the journal says of the retained files and of the copy, whatever the
\* command in hand does or was killed at.
JournalHolds ==
    /\ journal.phase = "none" => journal = NoJournal
    /\ journal.status = "rolled-back" =>
        journal.phase \notin {"none", "prepared", "applying", "applied"}
    /\ ~journal.backed => /\ units = "old" /\ edge = "previous"
                          /\ journal.status = "planned"
                          /\ journal.phase \in {"none", "prepared", "rolled-back"}
    /\ rebase /\ journal.status \in Source \cup {"rolled-back"} =>
        files = All("old")
    /\ rebase /\ journal.status \in Copied \ {"backed-up"} => copy = All("old")
    /\ rebase => \A i \in DOMAIN File : copy[i] # "new"
    /\ rebase /\ journal.status = "backed-up" =>
        copy[2] = "old" /\ copy[3] = "old" /\ copy[4] = "old"
    /\ rebase /\ journal.status \in Copied => units = "new" /\ authority # "old"
    /\ ~rebase => journal.status = "planned" /\ files = All("new")

\* What the journal says of the authority and of the Console.
HostHolds ==
    /\ authority # "off" => Runs(authority)
    /\ journal.phase = "applied" /\ units = "new" => authority # "old"
    /\ \A c \in Console : slot[c] = "active" => pointer = c
    /\ journal.phase \in {"none", "control-plane-restored", "background-restored",
                          "rolled-back"} => SettledAt("old")
    /\ ~rebase /\ ~journal.backed => SettledAt("old")

\* Which command is where, and what its journal says there.
CommandAt ==
    /\ job.at \in Freezing \cup Replacing \cup Installing \cup Starting =>
        job.act = "apply" /\ journal.phase \in {"prepared", "applying"}
    /\ job.at = "apply" => job.act = "apply" /\ journal.phase # "none"
    /\ job.at = "prepare" => job.act \in {"prepare", "apply"}
    /\ job.at \in {"verify", "deployed"} =>
        job.act \in {"verify", "acceptance", "finalize"}
    /\ job.at \in Undoing \cup Returning \cup Ending
                    \cup {"rollback", "restart-old"} => job.act = "rollback"
    /\ job.at \in Undoing \cup Returning \cup Ending \cup {"restart-old"} =>
        journal.phase # "none"
    /\ job.at \in {"stop-consoles", "restore"} =>
        /\ job.act \in {"apply", "rollback"} /\ journal.phase # "none"
        /\ job.act = "apply" => journal.phase \in {"prepared", "applying"}
    /\ job.at \notin {"restore", "recover", "publish"} => job.i = 1
    /\ job.at \in {"install", "install-rest", "retained"} \cup Replacing
                    \cup Starting \cup Undoing \cup Returning
                    \cup {"stop-consoles", "restore"} => journal.backed
    /\ job.at \in Freezing \cup Replacing \cup Undoing
                    \cup {"stop-consoles", "restore", "restart-old"} => rebase
    /\ job.at = "restart-old" => ~journal.backed
    /\ job.at \in Undoing \cup {"units", "units-rest", "plane", "previous-slot",
                                "promote-previous", "edge-back", "restart-old",
                                "stop-consoles", "restore"}
       \/ (job.at = "converge-old" /\ ~journal.backed) =>
        journal.phase \in Between
    /\ job.at \in {"converge-old", "previous-slot", "promote-previous"} =>
        rebase \/ journal.backed
    /\ job.at = "background" => journal.phase = "control-plane-restored"
    /\ job.at = "converge-old" /\ journal.backed =>
        journal.phase = "background-restored"
    /\ job.act = "none" \/ job.at = "idle" => job = Idle

\* How far the retained files are copied, published or restored there.
FilesAt ==
    /\ job.at \in {"copy", "freeze-again", "bind-again"}
       \/ (job.at = "stop-consoles" /\ job.act = "apply") =>
        journal.status \notin {"published", "applied"}
    /\ job.at = "copied" =>
        /\ journal.status = "planned"
        /\ copy[2] = "old" /\ copy[3] = "old" /\ copy[4] = "old"
    /\ job.at = "stage" => journal.status \in {"backed-up", "prepared", "publishing"}
    /\ job.at = "open" => journal.status \in {"prepared", "publishing"}
    /\ job.at \in {"prove", "publish", "published", "recover", "recovered"}
       \/ (job.at = "restore" /\ job.act = "apply") =>
        journal.status = "publishing"
    /\ job.at \in Undoing
       \/ (job.at \in {"stop-consoles", "restore"} /\ job.act = "rollback") =>
        journal.status \in Copied
    /\ job.at \in {"restore", "recover"} =>
        \A j \in DOMAIN File : j < job.i => files[j] = "old"
    /\ job.at \in {"restored", "recovered"} => files = All("old")
    /\ job.at \in Returning \cup Ending \cup {"restart-old"} =>
        journal.status \in {"planned", "rolled-back"}

\* Which release is installed and runs there, and what the Console has been
\* brought to.
HostAt ==
    /\ job.at \in {"retained"} \cup Replacing \cup Starting
       \/ (job.at \in {"stop-consoles", "restore"} /\ job.act = "apply") =>
        units = "new"
    /\ job.at \in (Replacing \ {"freeze-again"})
                    \cup {"stop-workers", "stop-consoles", "restore", "restored"}
        => authority = "off"
    /\ job.at \in Starting \ {"services"} => authority = "new"
    /\ job.at \in {"plane", "edge-back"} \cup Ending => units = "old"
    /\ job.at \in {"edge-back"} \cup Ending => authority = "old"
    /\ job.at \in {"promote-previous", "edge-back"} => "previous" \in enabled
    /\ job.at = "edge-back" => slot["previous"] = "active"
    /\ job.at \in {"control", "settle", "rolled"} => SettledAt("old")
    /\ job.at = "deployed" => SettledAt("new") \/ HalfBack
    /\ job.at = "complete" => SettledHost
    /\ job.at \in Undoing \cup {"units", "units-rest", "plane", "previous-slot",
                                "promote-previous", "edge-back"}
       \/ (job.at \in {"stop-consoles", "restore"} /\ job.act = "rollback") =>
        (edge = "candidate" => job.live)

\* The claim covers everything that is not settled.
ClaimHolds ==
    /\ ~claim => job = Idle /\ SettledHost
    /\ other => ~claim
    /\ job.created /\ (\/ job.at = "claimed"
                       \/ job.act \in {"verify", "acceptance", "finalize"})
        => SettledHost

SwitchInv ==
    /\ Typed /\ JournalHolds /\ HostHolds
    /\ CommandAt /\ FilesAt /\ HostAt /\ ClaimHolds

-----------------------------------------------------------------------------
(***************************************************************************)
(* Facts the steps share                                                   *)
(***************************************************************************)
\* There are four retained files.
LEMMA FileFacts == DOMAIN File = 1 .. 4 /\ Len(File) = 4
BY DEF File

\* All(r) says that every file belongs to release r.
LEMMA AllFiles ==
    ASSUME NEW S, NEW f \in [DOMAIN File -> S], NEW r
    PROVE  f = All(r) <=> \A i \in DOMAIN File : f[i] = r
BY DEF All

\* No command.
LEMMA IdleFacts ==
    /\ Idle \in JobType /\ Idle.at = "idle" /\ Idle.act = "none" /\ Idle.i = 1
    /\ ~Idle.created
BY FileFacts DEF Idle, JobType, Place

\* A command that goes on changes its place only.
LEMMA GoEffect ==
    ASSUME job \in JobType, NEW p \in Place, Go(p)
    PROVE  /\ job' \in JobType /\ job'.at = p /\ job'.act = job.act
           /\ job'.created = job.created /\ job'.live = job.live /\ job'.i = job.i
BY DEF Go, JobType

\* Without a command nothing is said of a place.
LEMMA NothingAtIdle ==
    ASSUME job' = Idle
    PROVE  CommandAt' /\ FilesAt' /\ HostAt'
<1>1. job'.at = "idle" /\ job'.i = 1
    BY IdleFacts
<1>2. CommandAt'
    BY <1>1 DEF CommandAt, Freezing, Replacing, Installing, Starting, Undoing,
                Returning, Ending
<1>3. FilesAt'
    BY <1>1 DEF FilesAt, Replacing, Starting, Undoing, Returning, Ending
<1>4. HostAt'
    BY <1>1 DEF HostAt, Replacing, Starting, Undoing, Returning, Ending
<1> QED BY <1>2, <1>3, <1>4

\* A command that fails gives the claim back only on a settled host: it
\* created the claim, and it has changed nothing.
LEMMA RaiseEffect ==
    ASSUME SwitchInv, Raise
    PROVE  /\ job' = Idle /\ claim' \in BOOLEAN
           /\ CommandAt' /\ FilesAt' /\ HostAt'
           /\ claim /\ ~claim' =>
                /\ SettledHost
                /\ \/ journal.phase = "none"
                   \/ job.act \in {"verify", "acceptance", "finalize"}
<1>1. job' = Idle /\ claim' = (claim /\ ~ReleasedOnError)
    BY DEF Raise
<1>2. claim \in BOOLEAN
    BY DEF SwitchInv, Typed, TypeOK
<1>3. ASSUME ReleasedOnError
      PROVE  /\ SettledHost
             /\ \/ journal.phase = "none"
                \/ job.act \in {"verify", "acceptance", "finalize"}
    <2>1. CASE journal = NoJournal
        BY <2>1 DEF NoJournal, SwitchInv, HostHolds, SettledHost
    <2>2. CASE job.created /\ job.act \in {"verify", "acceptance", "finalize"}
        BY <2>2 DEF SwitchInv, ClaimHolds
    <2> QED BY <1>3, <2>1, <2>2 DEF ReleasedOnError
<1>4. CommandAt' /\ FilesAt' /\ HostAt'
    BY <1>1, NothingAtIdle
<1> QED BY <1>1, <1>2, <1>3, <1>4

\* A host that is left alone stays settled.
LEMMA SettledKept ==
    ASSUME UNCHANGED <<files, units, authority, slot, enabled, pointer, edge, rebase>>
    PROVE  /\ UNCHANGED terminal => (SettledHost' <=> SettledHost)
           /\ \A r \in Release : SettledAt(r)' <=> SettledAt(r)
           /\ HalfBack' <=> HalfBack
<1>1. \A r \in Release : SettledAt(r)' <=> SettledAt(r)
    BY DEF SettledAt, Settled, Schema, All, ConsoleOf
<1>2. HalfBack' <=> HalfBack
    BY DEF HalfBack, FinalizedOverRollback, All
<1> QED BY <1>1, <1>2 DEF SettledHost, Release

\* What is said of documents and host survives a step that leaves them alone.
LEMMA DocumentsKept ==
    ASSUME SwitchInv,
           UNCHANGED <<journal, copy, files, units, authority, slot, enabled,
                       pointer, edge, rebase>>
    PROVE  /\ JournalHolds' /\ HostHolds'
           /\ (UNCHANGED terminal => (SettledHost' <=> SettledHost))
           /\ (SettledAt("old")' <=> SettledAt("old"))
           /\ (SettledAt("new")' <=> SettledAt("new"))
           /\ (HalfBack' <=> HalfBack)
<1>1. JournalHolds'
    BY DEF SwitchInv, JournalHolds, All
<1>2. SettledAt("old")' <=> SettledAt("old")
    BY SettledKept DEF Release
<1>3. HostHolds'
    BY <1>2 DEF SwitchInv, HostHolds, Runs, Schema
<1> QED BY <1>1, <1>2, <1>3, SettledKept DEF Release

\* A command that goes on keeps the claim.
LEMMA ClaimGoes ==
    ASSUME SwitchInv, job.at # "idle", UNCHANGED <<claim, other>>,
           job'.created = job.created, job'.act = job.act, job'.at # "claimed",
           job.act \in {"verify", "acceptance", "finalize"} /\ SettledHost =>
                SettledHost'
    PROVE  ClaimHolds'
<1>1. claim /\ claim' /\ ~other /\ ~other'
    BY IdleFacts DEF SwitchInv, ClaimHolds, Typed, TypeOK
<1> QED BY <1>1 DEF SwitchInv, ClaimHolds

\* A command that fails and was to change the host keeps the claim.
LEMMA ClaimRaised ==
    ASSUME SwitchInv, job.at # "idle", Raise, UNCHANGED other,
           \/ SettledHost' <=> SettledHost
           \/ /\ journal.phase # "none"
              /\ job.act \notin {"verify", "acceptance", "finalize"}
    PROVE  ClaimHolds'
<1>1. claim /\ ~other /\ ~other' /\ job' = Idle
    BY IdleFacts DEF SwitchInv, ClaimHolds, Typed, TypeOK, Raise
<1>2. ~claim' => SettledHost'
    BY <1>1, RaiseEffect
<1> QED BY <1>1, <1>2, IdleFacts DEF ClaimHolds

QuietHost ==
    UNCHANGED <<journal, copy, files, units, authority, workers, slot, enabled,
                pointer, edge, rebase>>

\* A step that fails and leaves documents and host alone.
LEMMA QuietRaise ==
    ASSUME SwitchInv, job.at # "idle", QuietHost, Raise,
           jam' \in [Console -> BOOLEAN], UNCHANGED <<terminal, other, decided>>,
           faults' \in 0 .. MaxFaults
    PROVE  SwitchInv'
<1>1. JournalHolds' /\ HostHolds' /\ (SettledHost' <=> SettledHost)
    BY DocumentsKept DEF QuietHost
<1>2. CommandAt' /\ FilesAt' /\ HostAt' /\ job' = Idle /\ claim' \in BOOLEAN
    BY RaiseEffect
<1>3. ClaimHolds'
    BY <1>1, ClaimRaised
<1>4. Typed'
    BY <1>2, IdleFacts, FileFacts DEF SwitchInv, Typed, TypeOK, QuietHost, Acts
<1> QED BY <1>1, <1>2, <1>3, <1>4 DEF SwitchInv

\* A step that goes on and leaves documents and host alone, with what its new
\* place asks for.
LEMMA QuietGo ==
    ASSUME SwitchInv, job.at # "idle", QuietHost, UNCHANGED <<jam, claim, worldVars>>,
           terminal' \in {"none", "deployed", "rolled-back"},
           \/ UNCHANGED terminal
           \/ terminal' = "deployed"
           \/ job.act \notin {"verify", "acceptance", "finalize"},
           job' \in JobType, job'.act = job.act, job'.created = job.created,
           job'.at # "claimed", CommandAt', FilesAt', HostAt'
    PROVE  SwitchInv'
<1>1. /\ JournalHolds' /\ HostHolds'
      /\ job.act \in {"verify", "acceptance", "finalize"} /\ SettledHost =>
            SettledHost'
    BY DocumentsKept DEF QuietHost, SettledHost
<1>2. ClaimHolds'
    BY <1>1, ClaimGoes DEF worldVars
<1>3. Typed'
    BY DEF SwitchInv, Typed, TypeOK, QuietHost, worldVars, JobType
<1> QED BY <1>1, <1>2, <1>3 DEF SwitchInv

\* A command begins: it takes the claim, or resumes it.
LEMMA BeginKeeps ==
    ASSUME SwitchInv, NEW act \in Acts, Begin(act)
    PROVE  SwitchInv'
<1>1. /\ QuietHost /\ UNCHANGED <<jam, terminal, worldVars>> /\ claim' /\ ~other
      /\ job = Idle
      /\ job' = [Idle EXCEPT !.act = act, !.at = "claimed", !.created = ~claim]
    BY DEF Begin, QuietHost, hostVars, dataVars, consoleVars, worldVars
<1>2. /\ job' \in JobType /\ job'.at = "claimed" /\ job'.act = act
      /\ (job'.created => ~claim) /\ job'.i = 1 /\ act # "none"
    <2>1. CASE claim
        <3>1. job' = [Idle EXCEPT !.act = act, !.at = "claimed", !.created = FALSE]
            BY <1>1, <2>1, Zenon
        <3>2. job' = [act |-> act, at |-> "claimed", created |-> FALSE,
                      live |-> FALSE, i |-> 1]
            BY <3>1 DEF Idle
        <3> QED BY <3>2, FileFacts DEF JobType, Place, Acts
    <2>2. CASE ~claim
        <3>1. job' = [Idle EXCEPT !.act = act, !.at = "claimed", !.created = TRUE]
            BY <1>1, <2>2, Zenon
        <3>2. job' = [act |-> act, at |-> "claimed", created |-> TRUE,
                      live |-> FALSE, i |-> 1]
            BY <3>1 DEF Idle
        <3> QED BY <3>2, <2>2, FileFacts DEF JobType, Place, Acts
    <2> QED BY <2>1, <2>2
<1>3. CommandAt'
    BY <1>2 DEF CommandAt, Freezing, Replacing, Installing, Starting, Undoing,
                Returning, Ending
<1>4. FilesAt' /\ HostAt'
    BY <1>2 DEF FilesAt, HostAt, Replacing, Starting, Undoing, Returning, Ending
<1>5. JournalHolds' /\ HostHolds' /\ (SettledHost' <=> SettledHost)
    BY <1>1, DocumentsKept DEF QuietHost
<1>6. ClaimHolds'
    <2>1. claim' /\ ~other'
        BY <1>1 DEF worldVars
    <2>2. job'.created => SettledHost
        BY <1>2 DEF SwitchInv, ClaimHolds
    <2> QED BY <1>5, <2>1, <2>2 DEF ClaimHolds
<1>7. Typed'
    BY <1>1, <1>2 DEF SwitchInv, Typed, TypeOK, QuietHost, worldVars, JobType
<1> QED BY <1>3, <1>4, <1>5, <1>6, <1>7 DEF SwitchInv

-----------------------------------------------------------------------------
(***************************************************************************)
(* Steps that leave the documents and the host alone                       *)
(***************************************************************************)
USE DEF Freezing, Replacing, Installing, Starting, Undoing, Returning, Ending, Between

\* A check that lets the command go on or fail, and what its next place asks.
LEMMA QuietStep ==
    ASSUME SwitchInv, job.at # "idle", NEW p \in Place \ {"claimed"},
           UNCHANGED <<journal, copy, hostVars, worldVars>>,
           terminal' \in {"none", "deployed", "rolled-back"},
           \/ UNCHANGED terminal
           \/ ~Raise /\ terminal' = "deployed"
           \/ ~Raise /\ job.act \notin {"verify", "acceptance", "finalize"},
           Raise \/ (Go(p) /\ UNCHANGED claim),
           Go(p) => CommandAt' /\ FilesAt' /\ HostAt'
    PROVE  SwitchInv'
<1>1. QuietHost /\ UNCHANGED <<jam, other, decided, faults, worldVars>>
    BY DEF QuietHost, hostVars, dataVars, consoleVars, worldVars
<1>2. jam' \in [Console -> BOOLEAN] /\ faults' \in 0 .. MaxFaults
    BY <1>1 DEF SwitchInv, Typed, TypeOK
<1>3. CASE Raise
    <2>1. UNCHANGED <<terminal, other, decided>>
        BY <1>1, <1>3
    <2> QED BY <1>1, <1>2, <1>3, <2>1, QuietRaise
<1>4. CASE Go(p) /\ UNCHANGED claim
    <2>1. job \in JobType
        BY DEF SwitchInv, Typed
    <2>2. /\ job' \in JobType /\ job'.act = job.act /\ job'.created = job.created
          /\ job'.at # "claimed"
        BY <1>4, <2>1, GoEffect
    <2> QED BY <1>1, <1>4, <2>2, QuietGo
<1> QED BY <1>3, <1>4

\* What is carried to the next place when documents and host stay.
LEMMA QuietPlace ==
    ASSUME SwitchInv, NEW p \in Place, Go(p),
           UNCHANGED <<journal, copy, hostVars, worldVars>>
    PROVE  /\ job'.at = p /\ job'.act = job.act /\ job'.live = job.live
           /\ job'.i = job.i /\ job'.created = job.created /\ job' \in JobType
           /\ journal' = journal /\ copy' = copy /\ files' = files
           /\ units' = units /\ authority' = authority /\ slot' = slot
           /\ enabled' = enabled /\ edge' = edge /\ rebase' = rebase
           /\ (SettledAt("old")' <=> SettledAt("old"))
           /\ (SettledAt("new")' <=> SettledAt("new"))
           /\ (HalfBack' <=> HalfBack)
           /\ (UNCHANGED terminal => (SettledHost' <=> SettledHost))
           /\ (p # "idle" => ~Raise)
<1>1. job \in JobType
    BY DEF SwitchInv, Typed
<1>2. UNCHANGED <<journal, copy, files, units, authority, slot, enabled, pointer,
                  edge, rebase>>
    BY DEF hostVars, dataVars, consoleVars, worldVars
<1>3. job'.at = p
    BY <1>1, GoEffect
<1>4. p # "idle" => ~Raise
    BY <1>3, IdleFacts DEF Raise
<1> QED BY <1>1, <1>2, <1>4, GoEffect, SettledKept DEF Release

\* The outcome of an ended transaction, or where the command starts.
LEMMA ClaimedKeeps ==
    ASSUME SwitchInv, Claimed
    PROVE  SwitchInv'
<1>1. /\ job.at = "claimed" /\ job.i = 1
      /\ UNCHANGED <<journal, copy, hostVars, worldVars>>
      /\ terminal' \in {"none", "deployed", "rolled-back"}
      /\ (job.act \notin {"prepare", "apply"} => UNCHANGED terminal)
    BY DEF Claimed, At, SwitchInv, CommandAt, Typed, TypeOK
<1>2. CASE job.act \in {"prepare", "apply"} /\ Go("prepare") /\ UNCHANGED claim
    <2>1. ~Raise /\ (Go("prepare") => CommandAt' /\ FilesAt' /\ HostAt')
        BY <1>1, <1>2, QuietPlace DEF CommandAt, FilesAt, HostAt, Place
    <2> QED BY <1>1, <1>2, <2>1, QuietStep DEF Place
<1>3. CASE job.act = "rollback" /\ Go("rollback") /\ UNCHANGED claim
    <2>1. Go("rollback") => CommandAt' /\ FilesAt' /\ HostAt'
        BY <1>1, <1>3, QuietPlace DEF CommandAt, FilesAt, HostAt, Place
    <2> QED BY <1>1, <1>3, <2>1, QuietStep DEF Place
<1>4. CASE /\ job.act = "rollback" /\ journal.phase = "rolled-back"
           /\ Go("complete") /\ UNCHANGED claim
    <2>1. SettledHost
        BY <1>4 DEF SwitchInv, HostHolds, SettledHost
    <2>2. Go("complete") => CommandAt' /\ FilesAt' /\ HostAt'
        BY <1>1, <1>4, <2>1, QuietPlace DEF CommandAt, FilesAt, HostAt, Place
    <2> QED BY <1>1, <1>4, <2>2, QuietStep DEF Place
<1>5. CASE Raise /\ UNCHANGED terminal
    <2>1. Go("prepare") => CommandAt' /\ FilesAt' /\ HostAt'
        BY <1>5, RaiseEffect
    <2> QED BY <1>1, <1>5, <2>1, QuietStep DEF Place
<1>6. CASE job.created /\ job' = Idle /\ claim' = FALSE /\ UNCHANGED terminal
    <2>1. SettledHost /\ ~other
        BY <1>1, <1>6, IdleFacts DEF SwitchInv, ClaimHolds, Typed, TypeOK
    <2>2. JournalHolds' /\ HostHolds' /\ (SettledHost' <=> SettledHost)
        BY <1>1, <1>6, DocumentsKept DEF hostVars, dataVars, consoleVars, worldVars
    <2>3. ClaimHolds'
        BY <1>1, <1>6, <2>1, <2>2, IdleFacts DEF ClaimHolds, worldVars
    <2>4. claim' \in BOOLEAN /\ Idle \in JobType /\ job' = Idle
        BY <1>6, IdleFacts
    <2>5. Typed'
        BY <1>1, <2>4, IdleFacts, FileFacts
        DEF SwitchInv, Typed, TypeOK, hostVars, dataVars, consoleVars, worldVars, Acts
    <2> QED BY <1>6, <2>2, <2>3, <2>5, NothingAtIdle DEF SwitchInv
<1>7. CASE /\ job.act \in {"verify", "acceptance", "finalize"}
           /\ Go("verify") /\ UNCHANGED claim
    <2>1. Go("verify") => CommandAt' /\ FilesAt' /\ HostAt'
        BY <1>1, <1>7, QuietPlace DEF CommandAt, FilesAt, HostAt, Place
    <2> QED BY <1>1, <1>7, <2>1, QuietStep DEF Place
<1>8. terminal \in {"none", "deployed", "rolled-back"}
    BY DEF SwitchInv, Typed, TypeOK
<1>9. ASSUME job.act = "rollback", job.created, terminal = "deployed",
             UNCHANGED terminal, NEW template \in Template,
             IF LateRollbackIdentity(template) THEN Go("rollback") /\ UNCHANGED claim
                                               ELSE job' = Idle /\ claim' = FALSE
      PROVE  SwitchInv'
    BY <1>3, <1>6, <1>9
<1> QED BY <1>2, <1>3, <1>4, <1>5, <1>6, <1>7, <1>8, <1>9 DEF Claimed

\* The fence is closed: with the claim kept, or on a settled host.
LEMMA CloseKeeps ==
    ASSUME SwitchInv, Close
    PROVE  SwitchInv'
<1>1. /\ job.at \in {"end", "complete"} /\ job' = Idle
      /\ (claim' <=> job.at = "end") /\ claim' \in BOOLEAN
      /\ UNCHANGED <<journal, terminal, copy, hostVars, worldVars>>
    BY DEF Close, At
<1>2. ~other /\ (job.at = "complete" => SettledHost)
    BY <1>1, IdleFacts DEF SwitchInv, ClaimHolds, HostAt, Typed, TypeOK
<1>3. JournalHolds' /\ HostHolds' /\ (SettledHost' <=> SettledHost)
    BY <1>1, DocumentsKept DEF hostVars, dataVars, consoleVars, worldVars
<1>4. ClaimHolds'
    BY <1>1, <1>2, <1>3, IdleFacts DEF ClaimHolds, worldVars
<1>5. Typed'
    BY <1>1, IdleFacts, FileFacts
    DEF SwitchInv, Typed, TypeOK, hostVars, dataVars, consoleVars, worldVars, Acts
<1> QED BY <1>1, <1>3, <1>4, <1>5, NothingAtIdle DEF SwitchInv

\* apply decides from the journal what there is to do.
LEMMA ApplyKeeps ==
    ASSUME SwitchInv, Apply
    PROVE  SwitchInv'
<1>1. /\ job.at = "apply" /\ job.act = "apply" /\ job.i = 1
      /\ UNCHANGED <<journal, terminal, copy, hostVars, worldVars>>
      /\ terminal' \in {"none", "deployed", "rolled-back"}
    BY DEF Apply, At, SwitchInv, CommandAt, Typed, TypeOK
<1>2. CASE Raise
    <2>1. Go("end") => CommandAt' /\ FilesAt' /\ HostAt'
        BY <1>2, RaiseEffect
    <2> QED BY <1>1, <1>2, <2>1, QuietStep DEF Place
<1>3. CASE Go("end") /\ UNCHANGED claim
    <2>1. Go("end") => CommandAt' /\ FilesAt' /\ HostAt'
        BY <1>1, <1>3, QuietPlace DEF CommandAt, FilesAt, HostAt, Place
    <2> QED BY <1>1, <1>3, <2>1, QuietStep DEF Place
<1>4. CASE /\ journal.phase \in {"prepared", "applying"} /\ rebase
           /\ Go("freeze") /\ UNCHANGED claim
    <2>1. Go("freeze") => CommandAt' /\ FilesAt' /\ HostAt'
        BY <1>1, <1>4, QuietPlace DEF CommandAt, FilesAt, HostAt, Place
    <2> QED BY <1>1, <1>4, <2>1, QuietStep DEF Place
<1>5. CASE /\ journal.phase \in {"prepared", "applying"}
           /\ Go("back-up") /\ UNCHANGED claim
    <2>1. Go("back-up") => CommandAt' /\ FilesAt' /\ HostAt'
        BY <1>1, <1>5, QuietPlace DEF CommandAt, FilesAt, HostAt, Place
    <2> QED BY <1>1, <1>5, <2>1, QuietStep DEF Place
<1> QED BY <1>2, <1>3, <1>4, <1>5 DEF Apply, Proceed

\* The units are installed: the retained files follow if the schema changes.
LEMMA RetainedKeeps ==
    ASSUME SwitchInv, Retained
    PROVE  SwitchInv'
<1>1. /\ job.at = "retained" /\ job.act = "apply" /\ job.i = 1
      /\ journal.phase \in {"prepared", "applying"} /\ journal.backed /\ units = "new"
      /\ UNCHANGED <<journal, terminal, copy, hostVars, worldVars>>
      /\ terminal' \in {"none", "deployed", "rolled-back"}
    BY DEF Retained, At, SwitchInv, CommandAt, HostAt, Typed, TypeOK
<1>2. CASE Raise \/ (Go("services") /\ UNCHANGED claim)
    <2>1. Go("services") => CommandAt' /\ FilesAt' /\ HostAt'
        BY <1>1, QuietPlace DEF CommandAt, FilesAt, HostAt, Place
    <2> QED BY <1>1, <1>2, <2>1, QuietStep DEF Place
<1>3. CASE /\ rebase /\ journal.status \notin {"published", "applied"}
           /\ Go("freeze-again") /\ UNCHANGED claim
    <2>1. Go("freeze-again") => CommandAt' /\ FilesAt' /\ HostAt'
        BY <1>1, <1>3, QuietPlace DEF CommandAt, FilesAt, HostAt, Place
    <2> QED BY <1>1, <1>3, <2>1, QuietStep DEF Place
<1>4. rebase \in BOOLEAN
    BY DEF SwitchInv, Typed, TypeOK
<1> QED BY <1>2, <1>3, <1>4 DEF Retained, Proceed

\* The publication opens only on a quiescent source.
LEMMA ProveKeeps ==
    ASSUME SwitchInv, Prove
    PROVE  SwitchInv'
<1>1. /\ job.at = "prove" /\ job.act = "apply" /\ job.i = 1
      /\ journal.phase \in {"prepared", "applying"} /\ journal.backed
      /\ units = "new" /\ authority = "off" /\ rebase /\ journal.status = "publishing"
      /\ UNCHANGED <<journal, terminal, copy, hostVars, worldVars>>
      /\ terminal' \in {"none", "deployed", "rolled-back"}
    BY DEF Prove, At, SwitchInv, CommandAt, HostAt, FilesAt, Typed, TypeOK
<1>2. CASE Go("publish") /\ UNCHANGED claim
    <2>1. Go("publish") => CommandAt' /\ FilesAt' /\ HostAt'
        BY <1>1, QuietPlace DEF CommandAt, FilesAt, HostAt, Place
    <2> QED BY <1>1, <1>2, <2>1, QuietStep DEF Place
<1>3. CASE Go("recover") /\ UNCHANGED claim
    <2>1. Go("recover") => CommandAt' /\ HostAt'
        BY <1>1, QuietPlace DEF CommandAt, HostAt, Place
    <2>2. \A j \in DOMAIN File : ~(j < 1)
        BY FileFacts
    <2>3. Go("recover") => FilesAt'
        BY <1>1, <2>2, QuietPlace DEF FilesAt, Place
    <2> QED BY <1>1, <1>3, <2>1, <2>3, QuietStep DEF Place
<1> QED BY <1>2, <1>3 DEF Prove

\* rollback resumes where the journal says.
LEMMA RollbackKeeps ==
    ASSUME SwitchInv, Rollback
    PROVE  SwitchInv'
<1>1. /\ job.at = "rollback" /\ job.act = "rollback" /\ job.i = 1 /\ job \in JobType
      /\ UNCHANGED <<journal, terminal, copy, hostVars, worldVars>>
      /\ terminal' \in {"none", "deployed", "rolled-back"}
    BY DEF Rollback, At, SwitchInv, CommandAt, Typed, TypeOK
<1>2. CASE Raise
    <2>1. Go("end") => CommandAt' /\ FilesAt' /\ HostAt'
        BY <1>2, RaiseEffect
    <2> QED BY <1>1, <1>2, <2>1, QuietStep DEF Place
<1>3. CASE ~Raise
    <2> DEFINE next == CASE journal.phase = "rolled-back" -> "rolled"
                     [] journal.phase # "rolled-back" /\ ~journal.backed ->
                          IF rebase THEN "restart-old" ELSE "settle"
                     [] journal.phase = "control-plane-restored" -> "background"
                     [] journal.phase = "background-restored" -> "converge-old"
                     [] OTHER -> IF rebase /\ journal.status \in Copied
                                 THEN "guard" ELSE "units"
    <2>1. /\ journal.phase # "none" /\ UNCHANGED claim
          /\ job' = [job EXCEPT !.at = next, !.live = edge = "candidate"]
        BY <1>3 DEF Rollback
    <2>2. \/ next = "rolled" /\ journal.phase = "rolled-back"
          \/ next = "restart-old" /\ ~journal.backed /\ rebase
             /\ journal.phase \in Between
          \/ next = "settle" /\ ~journal.backed /\ ~rebase
          \/ next = "background" /\ journal.phase = "control-plane-restored"
             /\ journal.backed
          \/ next = "converge-old" /\ journal.phase = "background-restored"
             /\ journal.backed
          \/ next = "guard" /\ rebase /\ journal.status \in Copied /\ journal.backed
             /\ journal.phase \in Between
          \/ next = "units" /\ ~(rebase /\ journal.status \in Copied)
             /\ journal.backed /\ journal.phase \in Between
        <3>1. ~journal.backed => journal.phase \in {"none", "prepared", "rolled-back"}
            BY DEF SwitchInv, JournalHolds
        <3>2. /\ journal.backed \in BOOLEAN /\ rebase \in BOOLEAN
              /\ journal.phase \in Phase
            BY DEF SwitchInv, Typed, TypeOK, JournalType
        <3>3. CASE journal.phase = "rolled-back"
            BY <3>3
        <3>4. CASE journal.phase # "rolled-back" /\ ~journal.backed
            BY <2>1, <3>1, <3>2, <3>4
        <3>5. CASE journal.phase # "rolled-back" /\ journal.backed
            BY <2>1, <3>2, <3>5 DEF Phase
        <3> QED BY <3>2, <3>3, <3>4, <3>5
    <2> HIDE DEF next
    <2>3. /\ job' \in JobType /\ job'.at = next /\ job'.act = job.act /\ job'.i = job.i
          /\ job'.created = job.created /\ (edge = "candidate" => job'.live)
        <3>1. next \in Place
            BY <2>2 DEF Place
        <3>2. CASE edge = "candidate"
            <4>1. job' = [job EXCEPT !.at = next, !.live = TRUE]
                BY <2>1, <3>2, Zenon
            <4> QED BY <1>1, <3>1, <4>1 DEF JobType
        <3>3. CASE edge # "candidate"
            <4>1. job' = [job EXCEPT !.at = next, !.live = FALSE]
                BY <2>1, <3>3, Zenon
            <4> QED BY <1>1, <3>1, <3>3, <4>1 DEF JobType
        <3> QED BY <3>2, <3>3
    <2>4. /\ QuietHost /\ UNCHANGED <<jam, claim, worldVars>>
          /\ (SettledAt("old")' <=> SettledAt("old"))
        BY <1>1, <2>1, DocumentsKept
        DEF QuietHost, hostVars, dataVars, consoleVars, worldVars
    <2>5. journal.phase \in {"control-plane-restored", "background-restored",
                             "rolled-back"} \/ (~rebase /\ ~journal.backed) =>
            SettledAt("old")
        BY DEF SwitchInv, HostHolds
    <2>6. SettledAt("old") => /\ units = "old" /\ authority = "old"
                              /\ journal.status \in {"planned", "rolled-back"}
        BY DEF SwitchInv, JournalHolds, SettledAt, Settled, Typed, JournalType, Status
    <2>7. CommandAt'
        BY <1>1, <2>1, <2>2, <2>3, <2>4 DEF CommandAt, QuietHost
    <2>8. FilesAt'
        BY <1>1, <2>1, <2>2, <2>3, <2>4, <2>5, <2>6
        DEF FilesAt, QuietHost, SwitchInv, JournalHolds, Typed, JournalType, Status
    <2>9. HostAt'
        BY <1>1, <2>1, <2>2, <2>3, <2>4, <2>5, <2>6 DEF HostAt, QuietHost
    <2>10. job'.at # "claimed"
        BY <2>2, <2>3
    <2> QED BY <1>1, <2>3, <2>4, <2>7, <2>8, <2>9, <2>10, QuietGo
<1> QED BY <1>2, <1>3

\* Before a rollback stops anything, the source must be quiescent.
LEMMA GuardKeeps ==
    ASSUME SwitchInv, Guard
    PROVE  SwitchInv'
<1>1. /\ job.at = "guard"
      /\ UNCHANGED <<journal, terminal, copy, hostVars, worldVars>>
      /\ terminal' \in {"none", "deployed", "rolled-back"}
    BY DEF Guard, At, SwitchInv, Typed, TypeOK
<1>2. /\ job.act = "rollback" /\ job.i = 1 /\ journal.phase \in Between
      /\ journal.backed /\ rebase
    BY <1>1 DEF SwitchInv, CommandAt
<1>3. journal.status \in Copied /\ (edge = "candidate" => job.live)
    BY <1>1 DEF SwitchInv, FilesAt, HostAt
<1>4. Raise \/ (Go("stop-writers") /\ UNCHANGED claim)
    BY DEF Guard, Proceed
<1>5. Go("stop-writers") => CommandAt' /\ FilesAt' /\ HostAt'
    BY <1>1, <1>2, <1>3, QuietPlace DEF CommandAt, FilesAt, HostAt, Place
<1> QED BY <1>1, <1>4, <1>5, QuietStep DEF Place

\* The workers of the predecessor are back.
LEMMA ConvergeOldKeeps ==
    ASSUME SwitchInv, ConvergeOld
    PROVE  SwitchInv'
<1>1. /\ job.at = "converge-old"
      /\ UNCHANGED <<journal, terminal, copy, hostVars, worldVars>>
      /\ terminal' \in {"none", "deployed", "rolled-back"}
    BY DEF ConvergeOld, At, SwitchInv, Typed, TypeOK
<1>2. /\ job.act = "rollback" /\ job.i = 1
      /\ journal.phase # "none" /\ units = "old" /\ authority = "old"
      /\ (rebase \/ journal.backed) /\ (~journal.backed => journal.phase \in Between)
      /\ journal.status \in {"planned", "rolled-back"}
    BY <1>1 DEF SwitchInv, CommandAt, HostAt, FilesAt
<1>3. CASE journal.backed
    <2>1. SettledAt("old")
        BY <1>1, <1>3 DEF SwitchInv, CommandAt, HostHolds
    <2>2. Raise \/ (Go("settle") /\ UNCHANGED claim)
        BY <1>3 DEF ConvergeOld, Proceed
    <2>3. Go("settle") => CommandAt' /\ FilesAt' /\ HostAt'
        BY <1>1, <1>2, <2>1, QuietPlace DEF CommandAt, FilesAt, HostAt, Place
    <2> QED BY <1>1, <1>2, <2>2, <2>3, QuietStep DEF Place
<1>4. CASE ~journal.backed
    <2>1. edge = "previous"
        BY <1>4 DEF SwitchInv, JournalHolds
    <2>2. Raise \/ (Go("previous-slot") /\ UNCHANGED claim)
        BY <1>4 DEF ConvergeOld, Proceed
    <2>3. Go("previous-slot") => CommandAt' /\ FilesAt' /\ HostAt'
        BY <1>1, <1>2, <1>4, <2>1, QuietPlace DEF CommandAt, FilesAt, HostAt, Place
    <2> QED BY <1>1, <1>2, <2>2, <2>3, QuietStep DEF Place
<1> QED BY <1>3, <1>4

\* The outcome is published of a host that is settled so.
LEMMA PublishKeeps ==
    ASSUME SwitchInv, Publish
    PROVE  SwitchInv'
<1>1. /\ job.at \in {"rolled", "deployed"} /\ job.i = 1 /\ job.act # "none"
      /\ UNCHANGED <<journal, copy, hostVars, worldVars, claim>> /\ Go("complete")
      /\ terminal' \in {"none", "deployed", "rolled-back"}
      /\ (job.at = "deployed" => terminal' = "deployed")
      /\ (job.at = "rolled" => job.act = "rollback")
    BY DEF Publish, At, SwitchInv, CommandAt, Typed, TypeOK
<1>2. ~Raise /\ SettledHost'
    BY <1>1, QuietPlace DEF SwitchInv, HostAt, SettledHost, Place
<1>3. Go("complete") => CommandAt' /\ FilesAt' /\ HostAt'
    BY <1>1, <1>2, QuietPlace DEF CommandAt, FilesAt, HostAt, Place
<1> QED BY <1>1, <1>2, <1>3, QuietStep DEF Place

\* verify, acceptance-begin and finalize; finalize goes on only on a host that
\* is at the candidate, but for unit files of a cut-off rollback.
LEMMA VerifyKeeps ==
    ASSUME SwitchInv, Verify
    PROVE  SwitchInv'
<1>1. /\ job.at = "verify" /\ job.act \in {"verify", "acceptance", "finalize"}
      /\ job.i = 1 /\ (job.created => SettledHost)
      /\ UNCHANGED <<journal, terminal, copy, hostVars, worldVars>>
      /\ terminal' \in {"none", "deployed", "rolled-back"}
    BY DEF Verify, At, SwitchInv, CommandAt, ClaimHolds, Typed, TypeOK
<1>2. CASE Raise \/ (Go("end") /\ UNCHANGED claim)
    <2>1. Go("end") => CommandAt' /\ FilesAt' /\ HostAt'
        BY <1>1, QuietPlace DEF CommandAt, FilesAt, HostAt, Place
    <2> QED BY <1>1, <1>2, <2>1, QuietStep DEF Place
<1>3. CASE job.created /\ Go("complete") /\ UNCHANGED claim
    <2>1. Go("complete") => CommandAt' /\ FilesAt' /\ HostAt'
        BY <1>1, <1>3, QuietPlace DEF CommandAt, FilesAt, HostAt, Place
    <2> QED BY <1>1, <1>3, <2>1, QuietStep DEF Place
<1>4. ASSUME Go("deployed"), UNCHANGED claim, NEW l \in Launchers, VerifiedOk(l),
             journal.phase = "applied",
             rebase => files = All("new") /\ journal.status = "applied"
      PROVE  SwitchInv'
    <2>1. files = All("new") /\ authority # "off" /\ pointer = "candidate"
        BY <1>4 DEF VerifiedOk, SwitchInv, JournalHolds, HostHolds, Console
    <2>2. units \in {"new", "mixed"} /\ (units = "new" => authority = "new")
        BY <1>4 DEF VerifiedOk, Launchers, SwitchInv, HostHolds, Typed, TypeOK, Release
    <2>3. Schema("new") = "new" /\ (rebase => units = "new")
        BY <1>4 DEF Schema, SwitchInv, JournalHolds, Copied
    <2>4. CASE units = "new"
        <3>1. SettledAt("new")
            BY <1>4, <2>1, <2>2, <2>3, <2>4 DEF VerifiedOk, SettledAt, Settled, ConsoleOf
        <3>2. Go("deployed") => CommandAt' /\ FilesAt' /\ HostAt'
            BY <1>1, <3>1, QuietPlace DEF CommandAt, FilesAt, HostAt, Place
        <3> QED BY <1>1, <1>4, <3>2, QuietStep DEF Place
    <2>5. CASE units = "mixed"
        <3>1. HalfBack
            BY <1>4, <2>1, <2>3, <2>5 DEF VerifiedOk, HalfBack, FinalizedOverRollback
        <3>2. Go("deployed") => CommandAt' /\ FilesAt' /\ HostAt'
            BY <1>1, <3>1, QuietPlace DEF CommandAt, FilesAt, HostAt, Place
        <3> QED BY <1>1, <1>4, <3>2, QuietStep DEF Place
    <2> QED BY <2>2, <2>4, <2>5
<1> QED BY <1>1, <1>2, <1>3, <1>4 DEF Verify

-----------------------------------------------------------------------------
(***************************************************************************)
(* Faults and the other actors                                             *)
(***************************************************************************)
\* A fault keeps the count in its bound.
LEMMA FaultEffect ==
    ASSUME SwitchInv, Fault
    PROVE  faults' \in 0 .. MaxFaults
BY SwitchAssumption DEF SwitchAssumption, Fault, SwitchInv, Typed, TypeOK

\* The tool is killed: documents and host stay, and the claim with them.
LEMMA KillKeeps ==
    ASSUME SwitchInv, Kill
    PROVE  SwitchInv'
<1>1. /\ QuietHost /\ UNCHANGED <<jam, terminal, claim, other, decided>> /\ job' = Idle
      /\ faults' \in 0 .. MaxFaults
    BY FaultEffect DEF Kill, QuietHost, hostVars, dataVars, consoleVars
<1>2. JournalHolds' /\ HostHolds' /\ (SettledHost' <=> SettledHost)
    BY <1>1, DocumentsKept DEF QuietHost
<1>3. ClaimHolds'
    BY <1>1, <1>2, IdleFacts DEF SwitchInv, ClaimHolds
<1>4. Typed'
    BY <1>1, IdleFacts, FileFacts DEF SwitchInv, Typed, TypeOK, QuietHost, Acts
<1> QED BY <1>1, <1>2, <1>3, <1>4, NothingAtIdle DEF SwitchInv

\* A step fails: the command ends, or the publication is recovered first.
LEMMA StepFailsKeeps ==
    ASSUME SwitchInv, StepFails
    PROVE  SwitchInv'
<1>1. /\ QuietHost /\ UNCHANGED <<terminal, other, decided>> /\ job # Idle
      /\ faults' \in 0 .. MaxFaults
    BY FaultEffect DEF StepFails, QuietHost, dataVars
<1>2. job.at # "idle" /\ terminal' \in {"none", "deployed", "rolled-back"}
    BY <1>1 DEF SwitchInv, CommandAt, Typed, TypeOK
<1>3. jam' \in [Console -> BOOLEAN]
    BY DEF StepFails, SwitchInv, Typed, TypeOK
<1>4. CASE Raise
    BY <1>1, <1>2, <1>3, <1>4, QuietRaise
<1>5. CASE /\ Publishing /\ UNCHANGED claim
           /\ job' = [job EXCEPT !.at = "recover", !.i = 1]
    <2>1. /\ job.act = "apply" /\ journal.phase \in {"prepared", "applying"}
          /\ journal.backed /\ rebase /\ journal.status = "publishing"
          /\ units = "new" /\ authority = "off"
        BY <1>5 DEF Publishing, At, SwitchInv, CommandAt, FilesAt, HostAt
    <2>2. /\ job' \in JobType /\ job'.at = "recover" /\ job'.act = job.act
          /\ job'.created = job.created /\ job'.i = 1
        <3>1. 1 \in DOMAIN File /\ "recover" \in Place /\ job \in JobType
            BY FileFacts DEF Place, SwitchInv, Typed
        <3> QED BY <1>5, <3>1 DEF JobType
    <2>3. JournalHolds' /\ HostHolds' /\ (SettledHost' <=> SettledHost)
        BY <1>1, DocumentsKept DEF QuietHost
    <2>4. CommandAt' /\ HostAt'
        BY <1>1, <2>1, <2>2 DEF CommandAt, HostAt, QuietHost
    <2>5. \A j \in DOMAIN File : ~(j < 1)
        BY FileFacts
    <2>6. FilesAt'
        BY <1>1, <2>1, <2>2, <2>5 DEF FilesAt, QuietHost
    <2>7. ClaimHolds'
        BY <1>1, <1>2, <1>5, <2>2, <2>3, ClaimGoes
    <2>8. Typed'
        <3>1. job'.act \in Acts \cup {"none"} /\ job'.i \in DOMAIN File
            BY <2>2 DEF JobType
        <3> QED BY <1>1, <1>2, <1>3, <1>5, <2>2, <3>1
            DEF SwitchInv, Typed, TypeOK, QuietHost
    <2> QED BY <2>3, <2>4, <2>6, <2>7, <2>8 DEF SwitchInv
<1> QED BY <1>4, <1>5 DEF StepFails

\* Other installers, and the operator's decision.
LEMMA OthersKeep ==
    ASSUME SwitchInv, OtherBegins \/ OtherEnds \/ GiveUp
    PROVE  SwitchInv'
<1>1. /\ UNCHANGED <<toolVars, hostVars, rebase, faults>>
      /\ other' \in BOOLEAN /\ decided' \in BOOLEAN /\ (other' => ~claim)
    <2>1. other \in BOOLEAN /\ decided \in BOOLEAN /\ (other => ~claim)
        BY DEF SwitchInv, ClaimHolds, Typed, TypeOK
    <2>2. CASE OtherBegins
        BY <2>1, <2>2 DEF OtherBegins
    <2>3. CASE OtherEnds
        BY <2>1, <2>3 DEF OtherEnds
    <2>4. CASE GiveUp
        BY <2>1, <2>4 DEF GiveUp
    <2> QED BY <2>2, <2>3, <2>4
<1>2. QuietHost /\ UNCHANGED <<job, claim, terminal, jam>>
    BY <1>1 DEF QuietHost, toolVars, hostVars, dataVars, consoleVars
<1>3. /\ JournalHolds' /\ HostHolds' /\ (SettledHost' <=> SettledHost)
      /\ (SettledAt("old")' <=> SettledAt("old"))
      /\ (SettledAt("new")' <=> SettledAt("new")) /\ (HalfBack' <=> HalfBack)
    BY <1>2, DocumentsKept DEF QuietHost
<1>4. CommandAt' /\ FilesAt'
    BY <1>2 DEF SwitchInv, CommandAt, FilesAt, QuietHost, All
<1>5. HostAt'
    BY <1>2, <1>3 DEF SwitchInv, HostAt, QuietHost
<1>6. ClaimHolds'
    BY <1>1, <1>2, <1>3 DEF SwitchInv, ClaimHolds
<1>7. Typed'
    BY <1>1, <1>2 DEF SwitchInv, Typed, TypeOK, QuietHost
<1> QED BY <1>3, <1>4, <1>5, <1>6, <1>7 DEF SwitchInv

-----------------------------------------------------------------------------
(***************************************************************************)
(* Steps that save the journal or make the copy                            *)
(***************************************************************************)
HostType ==
    /\ copy \in [DOMAIN File -> Release \cup {"none"}]
    /\ files \in [DOMAIN File -> Release]
    /\ units \in Release \cup {"mixed"} /\ authority \in Release \cup {"off"}
    /\ workers \in {"source", "candidate", "none"}
    /\ slot \in [Console -> {"off", "standby", "active"}]
    /\ jam \in [Console -> BOOLEAN] /\ enabled \subseteq Console
    /\ pointer \in Console /\ edge \in Console

\* A step of prepare, apply or rollback: it keeps the claim, so what is left
\* to show is what it does to documents and host and what its place asks.
LEMMA ToolStepKeeps ==
    ASSUME SwitchInv, job.at # "idle",
           job.act \notin {"verify", "acceptance", "finalize"},
           UNCHANGED <<terminal, worldVars>>, journal' \in JournalType, HostType',
           JournalHolds', HostHolds',
           \/ Raise /\ journal.phase # "none"
           \/ /\ UNCHANGED claim /\ job' \in JobType /\ job'.act = job.act
              /\ job'.created = job.created /\ job'.at # "claimed"
              /\ CommandAt' /\ FilesAt' /\ HostAt'
    PROVE  SwitchInv'
<1>1. CASE Raise /\ journal.phase # "none"
    <2>1. CommandAt' /\ FilesAt' /\ HostAt' /\ job' = Idle /\ claim' \in BOOLEAN
        BY <1>1, RaiseEffect
    <2>2. ClaimHolds'
        BY <1>1, ClaimRaised DEF worldVars
    <2>3. Typed'
        BY <2>1, IdleFacts, FileFacts
        DEF SwitchInv, Typed, TypeOK, HostType, JournalType, Phase, Status, worldVars,
            Acts
    <2> QED BY <2>1, <2>2, <2>3 DEF SwitchInv
<1>2. CASE /\ UNCHANGED claim /\ job' \in JobType /\ job'.act = job.act
           /\ job'.created = job.created /\ job'.at # "claimed"
           /\ CommandAt' /\ FilesAt' /\ HostAt'
    <2>1. ClaimHolds'
        BY <1>2, ClaimGoes DEF worldVars
    <2>2. job'.act \in Acts \cup {"none"} /\ job'.i \in DOMAIN File
        BY <1>2 DEF JobType
    <2>3. Typed'
        BY <1>2, <2>2
        DEF SwitchInv, Typed, TypeOK, HostType, JournalType, Phase, Status, worldVars
    <2> QED BY <1>2, <2>1, <2>3 DEF SwitchInv
<1> QED BY <1>1, <1>2

\* The same for a step that leaves the host alone.
LEMMA DocumentStep ==
    ASSUME SwitchInv, job.at # "idle",
           job.act \notin {"verify", "acceptance", "finalize"},
           UNCHANGED <<terminal, hostVars, worldVars>>, journal' \in JournalType,
           copy' \in [DOMAIN File -> Release \cup {"none"}], JournalHolds',
           journal'.phase = "applied" /\ units = "new" => authority # "old",
           journal'.phase \in {"none", "control-plane-restored",
                               "background-restored", "rolled-back"} =>
                SettledAt("old"),
           ~rebase /\ ~journal'.backed => SettledAt("old"),
           \/ Raise /\ journal.phase # "none"
           \/ \E p \in Place \ {"claimed"} : Go(p) /\ UNCHANGED claim
                                             /\ CommandAt' /\ FilesAt' /\ HostAt'
    PROVE  SwitchInv'
<1>1. UNCHANGED <<files, units, authority, workers, slot, jam, enabled, pointer, edge,
                  rebase, worldVars>>
    BY DEF hostVars, dataVars, consoleVars, worldVars
<1>2. HostType'
    BY <1>1 DEF HostType, SwitchInv, Typed, TypeOK
<1>3. HostHolds'
    <2>1. SettledAt("old")' <=> SettledAt("old")
        BY <1>1, SettledKept DEF Release
    <2> QED BY <1>1, <2>1 DEF HostHolds, SwitchInv, Runs, Schema
<1>4. CASE Raise /\ journal.phase # "none"
    BY <1>1, <1>2, <1>3, <1>4, ToolStepKeeps
<1>5. ASSUME NEW p \in Place \ {"claimed"}, Go(p), UNCHANGED claim, CommandAt',
             FilesAt', HostAt'
      PROVE  SwitchInv'
    <2>1. /\ job' \in JobType /\ job'.act = job.act /\ job'.created = job.created
          /\ job'.at # "claimed"
        BY <1>5, GoEffect DEF SwitchInv, Typed
    <2> QED BY <1>1, <1>2, <1>3, <1>5, <2>1, ToolStepKeeps
<1> QED BY <1>4, <1>5

\* What the next place finds of the host after a step that leaves it alone.
LEMMA HostPlace ==
    ASSUME SwitchInv, NEW p \in Place, Go(p), UNCHANGED <<hostVars, worldVars>>
    PROVE  /\ job'.at = p /\ job'.act = job.act /\ job'.live = job.live
           /\ job'.i = job.i /\ job'.created = job.created
           /\ files' = files /\ units' = units /\ authority' = authority
           /\ slot' = slot /\ enabled' = enabled /\ edge' = edge /\ rebase' = rebase
           /\ (SettledAt("old")' <=> SettledAt("old"))
<1>1. UNCHANGED <<files, units, authority, slot, enabled, pointer, edge, rebase>>
    BY DEF hostVars, dataVars, consoleVars, worldVars
<1> QED BY <1>1, GoEffect, SettledKept DEF SwitchInv, Typed, Release

\* prepare writes the first journal.
LEMMA PrepareKeeps ==
    ASSUME SwitchInv, Prepare
    PROVE  SwitchInv'
<1>1. /\ job.at = "prepare" /\ job.act \in {"prepare", "apply"} /\ job.i = 1
      /\ UNCHANGED <<claim, terminal, copy, hostVars, worldVars>>
      /\ journal \in JournalType
      /\ copy' \in [DOMAIN File -> Release \cup {"none"}]
    BY DEF Prepare, At, SwitchInv, CommandAt, Typed, TypeOK
<1>2. /\ journal' \in JournalType /\ journal'.phase # "none"
      /\ journal'.backed = journal.backed /\ journal'.status = journal.status
      /\ \/ journal' = journal
         \/ journal.phase = "none" /\ journal'.phase = "prepared"
            /\ journal'.status = "planned"
    <2>1. CASE journal = NoJournal
        BY <1>1, <2>1 DEF Prepare, NoJournal, JournalType, Phase, Status
    <2>2. CASE journal # NoJournal
        BY <1>1, <2>2 DEF Prepare, SwitchInv, JournalHolds
    <2> QED BY <2>1, <2>2
<1>3. JournalHolds'
    BY <1>1, <1>2 DEF SwitchInv, JournalHolds, hostVars, dataVars, consoleVars,
                      worldVars, All
<1>4. /\ journal'.phase = "applied" /\ units = "new" => authority # "old"
      /\ journal'.phase \in {"none", "control-plane-restored",
                             "background-restored", "rolled-back"} =>
                SettledAt("old")
      /\ ~rebase /\ ~journal'.backed => SettledAt("old")
    BY <1>2 DEF SwitchInv, HostHolds
<1>5. PICK p \in {"apply", "end"} : Go(p) /\ (p = "apply" => job.act = "apply")
    BY DEF Prepare
<1>6. p \in Place \ {"claimed"}
    BY <1>5 DEF Place
<1>7. CommandAt' /\ FilesAt' /\ HostAt'
    BY <1>1, <1>2, <1>5, <1>6, HostPlace DEF CommandAt, FilesAt, HostAt
<1> QED BY <1>1, <1>2, <1>3, <1>4, <1>5, <1>6, <1>7, DocumentStep

\* backup_destinations: from here on the units may be replaced.
LEMMA BackUpKeeps ==
    ASSUME SwitchInv, BackUp
    PROVE  SwitchInv'
<1>1. /\ job.at = "back-up" /\ job.act = "apply" /\ job.i = 1
      /\ journal.phase \in {"prepared", "applying"} /\ journal \in JournalType
      /\ UNCHANGED <<terminal, copy, hostVars, worldVars>>
      /\ copy' \in [DOMAIN File -> Release \cup {"none"}]
    BY DEF BackUp, At, SwitchInv, CommandAt, Typed, TypeOK
<1>2. CASE Raise /\ journal' = journal
    <2>1. CommandAt' /\ FilesAt' /\ HostAt'
        BY <1>2, RaiseEffect
    <2>2. Go("end") => CommandAt' /\ FilesAt' /\ HostAt'
        BY <2>1
    <2> QED BY <1>1, <1>2, <2>2, QuietStep DEF Place, SwitchInv, Typed, TypeOK
<1>3. CASE /\ Go("install") /\ UNCHANGED claim
           /\ journal' = [journal EXCEPT !.phase = "applying", !.backed = TRUE]
    <2>1. /\ journal' \in JournalType /\ journal'.phase = "applying"
          /\ journal'.backed /\ journal'.status = journal.status
        BY <1>1, <1>3 DEF JournalType, Phase
    <2>2. JournalHolds'
        BY <1>1, <2>1 DEF SwitchInv, JournalHolds, hostVars, dataVars, consoleVars,
                          worldVars, All
    <2>3. "install" \in Place \ {"claimed"}
        BY DEF Place
    <2>4. CommandAt' /\ FilesAt' /\ HostAt'
        BY <1>1, <1>3, <2>1, <2>3, HostPlace DEF CommandAt, FilesAt, HostAt
    <2> QED BY <1>1, <1>3, <2>1, <2>2, <2>3, <2>4, DocumentStep
<1> QED BY <1>2, <1>3 DEF BackUp, Proceed

\* _retained_backup_destinations: the copy is of the predecessor's files.
LEMMA CopyFilesKeeps ==
    ASSUME SwitchInv, CopyFiles
    PROVE  SwitchInv'
<1>1. /\ job.at = "copy" /\ job.act = "apply" /\ job.i = 1 /\ rebase
      /\ journal.phase \in {"prepared", "applying"} /\ journal.backed
      /\ journal \in JournalType /\ units = "new" /\ authority = "off"
      /\ journal.status \in Status \ {"published", "applied", "rolled-back"}
      /\ UNCHANGED <<journal, claim, terminal, hostVars, worldVars>>
    BY DEF CopyFiles, At, SwitchInv, CommandAt, FilesAt, HostAt, JournalHolds, Typed,
           TypeOK, JournalType
<1>2. /\ copy \in [DOMAIN File -> Release \cup {"none"}]
      /\ files \in [DOMAIN File -> Release] /\ 1 \in DOMAIN File
      /\ 2 \in DOMAIN File /\ 3 \in DOMAIN File /\ 4 \in DOMAIN File
    BY FileFacts DEF SwitchInv, Typed, TypeOK
<1>3. CASE journal.status = "planned"
    <2>1. /\ copy' = [i \in DOMAIN File |-> IF i = 1 THEN copy[i] ELSE files[i]]
          /\ Go("copied")
        BY <1>3 DEF CopyFiles
    <2>2. \A i \in DOMAIN File : files[i] = "old" /\ copy[i] # "new"
        <3>1. /\ files = All("old")
              /\ \A i \in DOMAIN File : copy[i] # "new"
            BY <1>1, <1>3 DEF SwitchInv, JournalHolds, Source
        <3> QED BY <3>1 DEF All
    <2>3. /\ copy' \in [DOMAIN File -> Release \cup {"none"}]
          /\ \A i \in DOMAIN File : copy'[i] # "new"
          /\ copy'[2] = "old" /\ copy'[3] = "old" /\ copy'[4] = "old"
        BY <1>2, <2>1, <2>2
    <2>4. JournalHolds'
        BY <1>1, <1>3, <2>3
        DEF SwitchInv, JournalHolds, hostVars, dataVars, consoleVars, worldVars,
            All, Copied
    <2>5. "copied" \in Place \ {"claimed"}
        BY DEF Place
    <2>6. CommandAt' /\ FilesAt' /\ HostAt'
        <3>1. CommandAt' /\ HostAt'
            BY <1>1, <2>1, <2>5, HostPlace DEF CommandAt, HostAt
        <3>2. FilesAt'
            BY <1>1, <1>3, <2>1, <2>3, <2>5, HostPlace DEF FilesAt
        <3> QED BY <3>1, <3>2
    <2> QED BY <1>1, <2>1, <2>3, <2>4, <2>5, <2>6, DocumentStep
<1>4. CASE journal.status # "planned"
    <2>1. copy' = copy /\ Go("stage")
        BY <1>4 DEF CopyFiles
    <2>2. Go("stage") => CommandAt' /\ FilesAt' /\ HostAt'
        BY <1>1, <1>4, <2>1, QuietPlace
        DEF CommandAt, FilesAt, HostAt, Place, Status, Copied
    <2> QED BY <1>1, <2>1, <2>2, QuietStep DEF Place, SwitchInv, Typed, TypeOK
<1> QED BY <1>3, <1>4

\* retained_control.prepare_rebaseline completes the copy.
LEMMA StageKeeps ==
    ASSUME SwitchInv, Stage
    PROVE  SwitchInv'
<1>1. /\ job.at = "stage" /\ job.act = "apply" /\ job.i = 1 /\ rebase
      /\ journal.phase \in {"prepared", "applying"} /\ journal.backed
      /\ journal \in JournalType /\ units = "new" /\ authority = "off"
      /\ journal.status \in {"backed-up", "prepared", "publishing"}
      /\ UNCHANGED <<claim, terminal, hostVars, worldVars>> /\ Go("open")
    BY DEF Stage, At, SwitchInv, CommandAt, FilesAt, HostAt, Typed, TypeOK
<1>2. /\ copy \in [DOMAIN File -> Release \cup {"none"}]
      /\ files \in [DOMAIN File -> Release] /\ 1 \in DOMAIN File
    BY FileFacts DEF SwitchInv, Typed, TypeOK
<1>3. CASE journal.status = "backed-up"
    <2>1. /\ copy' = [copy EXCEPT ![1] = files[1]]
          /\ journal' = [journal EXCEPT !.status = "prepared"]
        BY <1>3 DEF Stage
    <2>2. files[1] = "old" /\ copy[2] = "old" /\ copy[3] = "old" /\ copy[4] = "old"
        <3>1. /\ files = All("old")
              /\ copy[2] = "old" /\ copy[3] = "old" /\ copy[4] = "old"
            BY <1>1, <1>3 DEF SwitchInv, JournalHolds, Source
        <3> QED BY <1>2, <3>1 DEF All
    <2>3. /\ copy' \in [DOMAIN File -> Release \cup {"none"}]
          /\ \A i \in DOMAIN File : copy'[i] = "old"
        BY <1>2, <2>1, <2>2, FileFacts DEF Release
    <2>4. copy' = All("old")
        BY <2>3, AllFiles
    <2>5. /\ journal' \in JournalType /\ journal'.phase = journal.phase
          /\ journal'.backed /\ journal'.status = "prepared"
        BY <1>1, <2>1 DEF JournalType, Status, Copied
    <2>6. JournalHolds'
        <3>1. files = All("old")
            BY <1>1, <1>3 DEF SwitchInv, JournalHolds, Source
        <3> QED BY <1>1, <2>3, <2>4, <2>5, <3>1
            DEF JournalHolds, hostVars, dataVars, consoleVars, worldVars, All
    <2>7. "open" \in Place \ {"claimed"}
        BY DEF Place
    <2>8. CommandAt' /\ FilesAt' /\ HostAt'
        BY <1>1, <2>5, <2>7, HostPlace DEF CommandAt, FilesAt, HostAt
    <2> QED BY <1>1, <2>3, <2>5, <2>6, <2>7, <2>8, DocumentStep
<1>4. CASE journal.status # "backed-up"
    <2>1. copy' = copy /\ journal' = journal
        BY <1>4 DEF Stage
    <2>2. Go("open") => CommandAt' /\ FilesAt' /\ HostAt'
        BY <1>1, <1>4, <2>1, QuietPlace DEF CommandAt, FilesAt, HostAt, Place
    <2> QED BY <1>1, <2>1, <2>2, QuietStep DEF Place, SwitchInv, Typed, TypeOK
<1> QED BY <1>3, <1>4

\* The journal says that the copy is there, once it is.
LEMMA SaveCopiedKeeps ==
    ASSUME SwitchInv, SaveCopied
    PROVE  SwitchInv'
<1>1. /\ job.at = "copied" /\ job.act = "apply" /\ job.i = 1 /\ rebase
      /\ journal.backed /\ units = "new" /\ authority = "off"
      /\ journal.status = "planned" /\ copy[2] = "old" /\ copy[3] = "old"
      /\ copy[4] = "old"
      /\ journal \in JournalType /\ Go("stage")
      /\ UNCHANGED <<claim, terminal, copy, hostVars, worldVars>>
      /\ copy' \in [DOMAIN File -> Release \cup {"none"}]
      /\ journal' = [journal EXCEPT !.status = "backed-up", !.phase = "applying"]
    BY DEF SaveCopied, At, SwitchInv, CommandAt, FilesAt, HostAt, Typed, TypeOK
<1>2. /\ journal' \in JournalType /\ journal'.phase = "applying" /\ journal'.backed
      /\ journal'.status = "backed-up"
    BY <1>1 DEF JournalType, Phase, Status, Copied
<1>4. JournalHolds'
    BY <1>1, <1>2 DEF SwitchInv, JournalHolds, hostVars, dataVars, consoleVars,
                      worldVars, All, Source
<1>5. "stage" \in Place \ {"claimed"}
    BY DEF Place
<1>6. CommandAt' /\ FilesAt' /\ HostAt'
    BY <1>1, <1>2, <1>5, HostPlace DEF CommandAt, FilesAt, HostAt
<1> QED BY <1>1, <1>2, <1>4, <1>5, <1>6, DocumentStep

\* The apply is complete: the candidate is what runs.
LEMMA SaveAppliedKeeps ==
    ASSUME SwitchInv, SaveApplied
    PROVE  SwitchInv'
<1>1. /\ job.at = "applied" /\ job.act = "apply" /\ job.i = 1
      /\ journal.phase \in {"prepared", "applying"}
      /\ journal.backed /\ units = "new" /\ authority = "new"
      /\ journal \in JournalType /\ Go("end")
      /\ UNCHANGED <<claim, terminal, copy, hostVars, worldVars>>
      /\ copy' \in [DOMAIN File -> Release \cup {"none"}]
      /\ journal' = [journal EXCEPT !.phase = "applied"]
    BY DEF SaveApplied, At, SwitchInv, CommandAt, HostAt, Typed, TypeOK
<1>2. /\ journal' \in JournalType /\ journal'.phase = "applied" /\ journal'.backed
      /\ journal'.status = journal.status
    BY <1>1 DEF JournalType, Phase, Status, Copied
<1>4. JournalHolds'
    BY <1>1, <1>2 DEF SwitchInv, JournalHolds, hostVars, dataVars, consoleVars,
                      worldVars, All
<1>5. "end" \in Place \ {"claimed"}
    BY DEF Place
<1>6. CommandAt' /\ FilesAt' /\ HostAt'
    BY <1>1, <1>2, <1>5, HostPlace DEF CommandAt, FilesAt, HostAt
<1> QED BY <1>1, <1>2, <1>4, <1>5, <1>6, DocumentStep

\* The publication is complete; the copy stays to return to.
LEMMA SavePublishedKeeps ==
    ASSUME SwitchInv, SavePublished
    PROVE  SwitchInv'
<1>1. /\ job.at = "published" /\ job.act = "apply" /\ job.i = 1 /\ rebase
      /\ journal.phase \in {"prepared", "applying"} /\ journal.status = "publishing"
      /\ journal.backed /\ units = "new" /\ authority = "off"
      /\ journal \in JournalType /\ Go("services")
      /\ UNCHANGED <<claim, terminal, copy, hostVars, worldVars>>
      /\ copy' \in [DOMAIN File -> Release \cup {"none"}]
      /\ journal' = [journal EXCEPT !.status = "published"]
    BY DEF SavePublished, At, SwitchInv, CommandAt, FilesAt, HostAt, Typed, TypeOK
<1>2. /\ journal' \in JournalType /\ journal'.phase = journal.phase /\ journal'.backed
      /\ journal'.status = "published"
    BY <1>1 DEF JournalType, Phase, Status, Copied
<1>4. JournalHolds'
    BY <1>1, <1>2 DEF SwitchInv, JournalHolds, hostVars, dataVars, consoleVars,
                      worldVars, All, Source, Copied
<1>5. "services" \in Place \ {"claimed"}
    BY DEF Place
<1>6. CommandAt' /\ FilesAt' /\ HostAt'
    BY <1>1, <1>2, <1>5, HostPlace DEF CommandAt, FilesAt, HostAt
<1> QED BY <1>1, <1>2, <1>4, <1>5, <1>6, DocumentStep

\* The predecessor's control plane is back: the journal says so of a settled
\* host.
LEMMA SaveControlKeeps ==
    ASSUME SwitchInv, SaveControl
    PROVE  SwitchInv'
<1>1. /\ job.at = "control" /\ job.act = "rollback" /\ job.i = 1
      /\ journal.backed /\ SettledAt("old")
      /\ journal.status \in {"planned", "rolled-back"}
      /\ journal \in JournalType /\ Go("background")
      /\ UNCHANGED <<claim, terminal, copy, hostVars, worldVars>>
      /\ copy' \in [DOMAIN File -> Release \cup {"none"}]
      /\ journal' = [journal EXCEPT !.phase = "control-plane-restored"]
    BY DEF SaveControl, At, SwitchInv, CommandAt, FilesAt, HostAt, Typed, TypeOK
<1>2. /\ journal' \in JournalType /\ journal'.phase = "control-plane-restored" /\ journal'.backed
      /\ journal'.status = journal.status
    BY <1>1 DEF JournalType, Phase, Status, Copied
<1>4. JournalHolds'
    BY <1>1, <1>2 DEF SwitchInv, JournalHolds, hostVars, dataVars, consoleVars,
                      worldVars, All
<1>5. "background" \in Place \ {"claimed"}
    BY DEF Place
<1>6. CommandAt' /\ FilesAt' /\ HostAt'
    BY <1>1, <1>2, <1>5, HostPlace DEF CommandAt, FilesAt, HostAt
<1> QED BY <1>1, <1>2, <1>4, <1>5, <1>6, DocumentStep

\* The background services are back.
LEMMA BackgroundKeeps ==
    ASSUME SwitchInv, Background
    PROVE  SwitchInv'
<1>1. /\ job.at = "background" /\ job.act = "rollback" /\ job.i = 1
      /\ journal.backed /\ journal.phase = "control-plane-restored"
      /\ journal.status \in {"planned", "rolled-back"}
      /\ journal \in JournalType /\ Go("converge-old")
      /\ UNCHANGED <<claim, terminal, copy, hostVars, worldVars>>
      /\ copy' \in [DOMAIN File -> Release \cup {"none"}]
      /\ journal' = [journal EXCEPT !.phase = "background-restored"]
    BY DEF Background, At, SwitchInv, CommandAt, FilesAt, HostAt, Typed, TypeOK
<1>2. /\ journal' \in JournalType /\ journal'.phase = "background-restored" /\ journal'.backed
      /\ journal'.status = journal.status
    BY <1>1 DEF JournalType, Phase, Status, Copied
<1>3. SettledAt("old") /\ units = "old" /\ authority = "old"
    BY <1>1 DEF SwitchInv, HostHolds, SettledAt, Settled
<1>4. JournalHolds'
    BY <1>1, <1>2 DEF SwitchInv, JournalHolds, hostVars, dataVars, consoleVars,
                      worldVars, All
<1>5. "converge-old" \in Place \ {"claimed"}
    BY DEF Place
<1>6. CommandAt' /\ FilesAt' /\ HostAt'
    BY <1>1, <1>2, <1>5, HostPlace, <1>3 DEF CommandAt, FilesAt, HostAt
<1> QED BY <1>1, <1>2, <1>4, <1>5, <1>6, DocumentStep, <1>3

\* The rollback is complete.
LEMMA SettleKeeps ==
    ASSUME SwitchInv, Settle
    PROVE  SwitchInv'
<1>1. /\ job.at = "settle" /\ job.act = "rollback" /\ job.i = 1
      /\ SettledAt("old") /\ units = "old" /\ authority = "old"
      /\ journal.status \in {"planned", "rolled-back"}
      /\ journal \in JournalType /\ Go("rolled")
      /\ UNCHANGED <<claim, terminal, copy, hostVars, worldVars>>
      /\ copy' \in [DOMAIN File -> Release \cup {"none"}]
      /\ journal' = [journal EXCEPT !.phase = "rolled-back"]
    BY DEF Settle, At, SwitchInv, CommandAt, FilesAt, HostAt, Typed, TypeOK
<1>2. /\ journal' \in JournalType /\ journal'.phase = "rolled-back" /\ journal'.backed = journal.backed
      /\ journal'.status = journal.status
    BY <1>1 DEF JournalType, Phase, Status, Copied
<1>4. JournalHolds'
    BY <1>1, <1>2 DEF SwitchInv, JournalHolds, hostVars, dataVars, consoleVars,
                      worldVars, All
<1>5. "rolled" \in Place \ {"claimed"}
    BY DEF Place
<1>6. CommandAt' /\ FilesAt' /\ HostAt'
    BY <1>1, <1>2, <1>5, HostPlace DEF CommandAt, FilesAt, HostAt
<1> QED BY <1>1, <1>2, <1>4, <1>5, <1>6, DocumentStep

\* The publication opens: from here on the files may be mixed, and the copy
\* is complete.
LEMMA OpenPublicationKeeps ==
    ASSUME SwitchInv, OpenPublication
    PROVE  SwitchInv'
<1>1. /\ job.at = "open" /\ job.act = "apply" /\ job.i = 1 /\ rebase
      /\ journal.phase \in {"prepared", "applying"}
      /\ journal.status \in {"prepared", "publishing"}
      /\ journal.backed /\ units = "new" /\ authority = "off"
      /\ journal \in JournalType /\ Go("restore")
      /\ UNCHANGED <<claim, terminal, copy, hostVars, worldVars>>
      /\ copy' \in [DOMAIN File -> Release \cup {"none"}]
      /\ journal' = [journal EXCEPT !.status = "publishing"]
    BY DEF OpenPublication, At, SwitchInv, CommandAt, FilesAt, HostAt, Typed, TypeOK
<1>2. /\ journal' \in JournalType /\ journal'.phase = journal.phase /\ journal'.backed
      /\ journal'.status = "publishing"
    BY <1>1 DEF JournalType, Phase, Status, Copied
<1>3. \A j \in DOMAIN File : ~(j < 1)
    BY FileFacts
<1>4. JournalHolds'
    BY <1>1, <1>2 DEF SwitchInv, JournalHolds, hostVars, dataVars, consoleVars,
                      worldVars, All, Source, Copied
<1>5. "restore" \in Place \ {"claimed"}
    BY DEF Place
<1>6. CommandAt' /\ FilesAt' /\ HostAt'
    BY <1>1, <1>2, <1>5, HostPlace, <1>3 DEF CommandAt, FilesAt, HostAt
<1> QED BY <1>1, <1>2, <1>4, <1>5, <1>6, DocumentStep, <1>3

\* The publication failed and the predecessor is back: the files are the
\* source's again before the journal says so.
LEMMA RecoveredKeeps ==
    ASSUME SwitchInv, Recovered
    PROVE  SwitchInv'
<1>1. /\ job.at = "recovered" /\ Raise /\ journal \in JournalType
      /\ UNCHANGED <<terminal, copy, hostVars, worldVars>>
      /\ copy' \in [DOMAIN File -> Release \cup {"none"}]
      /\ journal' = [journal EXCEPT !.status = "prepared"]
    BY DEF Recovered, At, SwitchInv, Typed, TypeOK
<1>2. /\ job.act = "apply" /\ journal.phase \in {"prepared", "applying"}
      /\ journal.backed /\ rebase
    BY <1>1 DEF SwitchInv, CommandAt
<1>3. /\ journal.status = "publishing" /\ files = All("old") /\ units = "new"
      /\ authority = "off"
    BY <1>1 DEF SwitchInv, FilesAt, HostAt
<1>4. /\ journal' \in JournalType /\ journal'.phase = journal.phase
      /\ journal'.backed /\ journal'.status = "prepared"
    BY <1>1, <1>2 DEF JournalType, Status, Copied
<1>5. JournalHolds'
    BY <1>1, <1>2, <1>3, <1>4
    DEF SwitchInv, JournalHolds, hostVars, dataVars, consoleVars, worldVars, All,
        Copied
<1> QED BY <1>1, <1>2, <1>4, <1>5, DocumentStep

\* complete_retained_control_rebaseline.
LEMMA CompleteKeeps ==
    ASSUME SwitchInv, Complete
    PROVE  SwitchInv'
<1>1. /\ job.at = "converge" /\ journal \in JournalType /\ rebase \in BOOLEAN
      /\ UNCHANGED <<terminal, copy, hostVars, worldVars>>
      /\ copy' \in [DOMAIN File -> Release \cup {"none"}]
    BY DEF Complete, At, SwitchInv, Typed, TypeOK
<1>2. /\ job.act = "apply" /\ journal.phase \in {"prepared", "applying"}
      /\ journal.backed /\ job.i = 1
    BY <1>1 DEF SwitchInv, CommandAt
<1>3. units = "new" /\ authority = "new"
    BY <1>1 DEF SwitchInv, HostAt
<1>4. "start-slot" \in Place \ {"claimed"}
    BY DEF Place
<1>5. CASE journal' = journal
    <2>1. Raise \/ (Go("start-slot") /\ UNCHANGED claim)
        BY DEF Complete, Proceed
    <2>2. Go("start-slot") => CommandAt' /\ FilesAt' /\ HostAt'
        BY <1>1, <1>2, <1>3, <1>4, <1>5, QuietPlace DEF CommandAt, FilesAt, HostAt
    <2> QED BY <1>1, <1>4, <1>5, <2>1, <2>2, QuietStep DEF SwitchInv, Typed, TypeOK
<1>6. CASE /\ journal' = [journal EXCEPT !.status = "applied"] /\ rebase
           /\ files = All("new") /\ Go("start-slot") /\ UNCHANGED claim
    <2>1. /\ journal' \in JournalType /\ journal'.phase = journal.phase
          /\ journal'.backed /\ journal'.status = "applied"
        BY <1>1, <1>2, <1>6 DEF JournalType, Status, Copied
    <2>2. copy = All("old")
        <3>1. journal.status \in Copied \ {"backed-up"}
            <4>1. journal.status \in Source \cup {"rolled-back"} => files = All("old")
                BY <1>6 DEF SwitchInv, JournalHolds
            <4>2. All("old") # All("new")
                BY FileFacts DEF All
            <4> QED BY <1>1, <1>6, <4>1, <4>2 DEF JournalType, Status, Source, Copied
        <3> QED BY <1>6, <3>1 DEF SwitchInv, JournalHolds
    <2>3. JournalHolds'
        BY <1>1, <1>2, <1>3, <1>6, <2>1, <2>2
        DEF SwitchInv, JournalHolds, hostVars, dataVars, consoleVars, worldVars, All,
            Copied, Source
    <2>4. CommandAt' /\ FilesAt' /\ HostAt'
        BY <1>1, <1>2, <1>3, <1>4, <1>6, <2>1, HostPlace DEF CommandAt, FilesAt, HostAt
    <2> QED BY <1>1, <1>2, <1>4, <1>6, <2>1, <2>3, <2>4, DocumentStep
<1> QED BY <1>1, <1>5, <1>6 DEF Complete, Proceed

\* The retained files are the predecessor's before the journal says so.
LEMMA SaveRestoredKeeps ==
    ASSUME SwitchInv, SaveRestored
    PROVE  SwitchInv'
<1>1. /\ job.at = "restored" /\ journal \in JournalType
      /\ UNCHANGED <<terminal, copy, hostVars, worldVars>>
      /\ copy' \in [DOMAIN File -> Release \cup {"none"}]
    BY DEF SaveRestored, At, SwitchInv, Typed, TypeOK
<1>2. /\ job.act = "rollback" /\ journal.phase \in Between /\ rebase
      /\ journal.backed /\ job.i = 1
    BY <1>1 DEF SwitchInv, CommandAt
<1>3. /\ journal.status \in Copied /\ files = All("old")
      /\ (edge = "candidate" => job.live)
    BY <1>1 DEF SwitchInv, FilesAt, HostAt
<1>4. CASE Raise /\ journal' = journal
    <2>1. Go("end") => CommandAt' /\ FilesAt' /\ HostAt'
        BY <1>4, RaiseEffect
    <2> QED BY <1>1, <1>4, <2>1, QuietStep DEF Place, SwitchInv, Typed, TypeOK
<1>5. CASE /\ Go("units") /\ UNCHANGED claim
           /\ journal' = [journal EXCEPT !.status = "rolled-back",
                                         !.phase = "retained-control-restored"]
    <2>1. /\ journal' \in JournalType /\ journal'.phase = "retained-control-restored"
          /\ journal'.backed /\ journal'.status = "rolled-back"
        BY <1>1, <1>2, <1>5 DEF JournalType, Status, Phase
    <2>2. JournalHolds'
        BY <1>1, <1>2, <1>3, <1>5, <2>1
        DEF SwitchInv, JournalHolds, hostVars, dataVars, consoleVars, worldVars, All,
            Copied
    <2>3. "units" \in Place \ {"claimed"}
        BY DEF Place
    <2>4. CommandAt' /\ FilesAt' /\ HostAt'
        BY <1>1, <1>2, <1>3, <1>5, <2>1, <2>3, HostPlace DEF CommandAt, FilesAt, HostAt
    <2> QED BY <1>1, <1>2, <1>5, <2>1, <2>2, <2>3, <2>4, DocumentStep
<1> QED BY <1>4, <1>5 DEF SaveRestored, Proceed

-----------------------------------------------------------------------------
(***************************************************************************)
(* Steps that change the host                                              *)
(***************************************************************************)
\* A step of apply or rollback between the two releases: what it leaves of the
\* host must agree with the journal, and with its next place.
LEMMA HostStep ==
    ASSUME SwitchInv, job.at # "idle", job.act \in {"apply", "rollback"},
           journal.phase \in Between, rebase \/ journal.backed,
           UNCHANGED <<journal, terminal, worldVars>>, HostType', JournalHolds',
           authority' # "off" => Runs(authority)',
           journal.phase = "applied" /\ units' = "new" => authority' # "old",
           \A c \in Console : slot'[c] = "active" => pointer' = c,
           NEW p \in Place \ {"claimed"}, Raise \/ (Go(p) /\ UNCHANGED claim),
           Go(p) => CommandAt' /\ FilesAt' /\ HostAt'
    PROVE  SwitchInv'
<1>1. journal' \in JournalType /\ rebase' = rebase /\ job \in JobType
    BY DEF SwitchInv, Typed, worldVars
<1>2. HostHolds'
    BY <1>1 DEF HostHolds
<1>3. CASE Raise
    BY <1>1, <1>2, <1>3, ToolStepKeeps
<1>4. CASE Go(p) /\ UNCHANGED claim
    <2>1. /\ job' \in JobType /\ job'.act = job.act /\ job'.created = job.created
          /\ job'.at # "claimed"
        BY <1>1, <1>4, GoEffect
    <2> QED BY <1>1, <1>2, <1>4, <2>1, ToolStepKeeps
<1> QED BY <1>3, <1>4

\* What holds of a host before the step.
LEMMA HostBefore ==
    ASSUME SwitchInv
    PROVE  /\ HostType /\ rebase \in BOOLEAN /\ job \in JobType
           /\ journal \in JournalType
           /\ (authority # "off" => Runs(authority))
           /\ \A c \in Console : slot[c] = "active" => pointer = c
           /\ journal.phase = "applied" /\ units = "new" => authority # "old"
BY DEF SwitchInv, Typed, TypeOK, HostType, HostHolds

\* stop_authority_writers.
LEMMA StopWritersKeeps ==
    ASSUME SwitchInv, StopWriters
    PROVE  SwitchInv'
<1>1. /\ job.at \in {"freeze", "freeze-again", "stop-writers"} /\ authority' = "off"
      /\ UNCHANGED <<journal, claim, terminal, copy, files, units, workers,
                     slot, jam, enabled, pointer, edge, rebase, worldVars>>
    BY DEF StopWriters, consoleVars, worldVars
<1>2. /\ job.act \in {"apply", "rollback"} /\ job.i = 1 /\ rebase
      /\ journal.phase \in Between
      /\ job.at \in {"freeze", "freeze-again"} =>
            job.act = "apply" /\ journal.phase \in {"prepared", "applying"}
      /\ job.at = "freeze-again" => journal.backed
      /\ job.at = "stop-writers" => journal.backed /\ job.act = "rollback"
    BY <1>1 DEF SwitchInv, CommandAt
<1>3. /\ job.at = "freeze-again" =>
            journal.status \notin {"published", "applied"} /\ units = "new"
      /\ job.at = "stop-writers" =>
            journal.status \in Copied /\ (edge = "candidate" => job.live)
    BY <1>1 DEF SwitchInv, FilesAt, HostAt
<1>4. PICK p \in {"bind", "bind-again", "stop-workers"} :
        /\ Go(p) /\ (p = "bind" => job.at = "freeze")
        /\ p = "bind-again" => job.at = "freeze-again"
        /\ p = "stop-workers" => job.at = "stop-writers"
    BY <1>1 DEF StopWriters, At
<1>5. HostType' /\ p \in Place \ {"claimed"}
    BY <1>1, <1>4, HostBefore DEF HostType, Place
<1>6. JournalHolds'
    BY <1>1 DEF SwitchInv, JournalHolds, All
<1>7. job'.at = p /\ job'.act = job.act /\ job'.i = job.i /\ job'.live = job.live
    BY <1>4, <1>5, GoEffect, HostBefore
<1>8. CommandAt' /\ FilesAt' /\ HostAt'
    BY <1>1, <1>2, <1>3, <1>4, <1>7 DEF CommandAt, FilesAt, HostAt
<1> QED BY <1>1, <1>2, <1>4, <1>5, <1>6, <1>8, HostBefore, HostStep

\* stop_console_writers.
LEMMA StopConsolesKeeps ==
    ASSUME SwitchInv, StopConsoles
    PROVE  SwitchInv'
<1>1. /\ job.at = "stop-consoles" /\ slot' = [c \in Console |-> "off"]
      /\ jam' = [c \in Console |-> FALSE]
      /\ UNCHANGED <<journal, claim, terminal, copy, files, units, authority, workers,
                     enabled, pointer, edge, rebase, worldVars>>
    BY DEF StopConsoles, At, dataVars, worldVars
<1>2. /\ job.act \in {"apply", "rollback"} /\ job.i = 1 /\ rebase
      /\ journal.phase \in Between /\ journal.backed
      /\ job.act = "apply" => journal.phase \in {"prepared", "applying"}
    BY <1>1 DEF SwitchInv, CommandAt
<1>3. /\ job.act = "apply" =>
            journal.status \notin {"published", "applied"} /\ units = "new"
      /\ job.act = "rollback" =>
            journal.status \in Copied /\ (edge = "candidate" => job.live)
      /\ authority = "off"
    BY <1>1 DEF SwitchInv, FilesAt, HostAt
<1>4. PICK p \in {"copy", "restore"} :
        /\ Go(p) /\ (p = "copy" => job.act = "apply")
        /\ p = "restore" => job.act = "rollback"
    BY <1>2 DEF StopConsoles
<1>5. HostType' /\ p \in Place \ {"claimed"}
    BY <1>1, <1>4, HostBefore DEF HostType, Place
<1>6. JournalHolds'
    BY <1>1 DEF SwitchInv, JournalHolds, All
<1>7. job'.at = p /\ job'.act = job.act /\ job'.i = job.i /\ job'.live = job.live
    BY <1>4, <1>5, GoEffect, HostBefore
<1>8. CommandAt' /\ HostAt'
    BY <1>1, <1>2, <1>3, <1>4, <1>7 DEF CommandAt, HostAt
<1>9. FilesAt'
    <2>1. \A j \in DOMAIN File : ~(j < 1)
        BY FileFacts
    <2> QED BY <1>1, <1>2, <1>3, <1>4, <1>7, <2>1 DEF FilesAt
<1>10. \A c \in Console : slot'[c] = "active" => pointer' = c
    BY <1>1
<1> QED BY <1>1, <1>2, <1>3, <1>4, <1>5, <1>6, <1>8, <1>9, <1>10, HostStep

\* stop_candidate_workers_for_rollback.
LEMMA StopWorkersKeeps ==
    ASSUME SwitchInv, StopWorkers
    PROVE  SwitchInv'
<1>1. /\ job.at = "stop-workers" /\ workers' \in {workers, "none"}
      /\ UNCHANGED <<journal, terminal, copy, files, units, authority, slot, jam,
                     enabled, pointer, edge, rebase, worldVars>>
      /\ Raise \/ (Go("stop-consoles") /\ UNCHANGED claim)
    BY DEF StopWorkers, Proceed, At, consoleVars, worldVars
<1>2. /\ job.act = "rollback" /\ job.i = 1 /\ rebase
      /\ journal.phase \in Between /\ journal.backed
    BY <1>1 DEF SwitchInv, CommandAt
<1>3. /\ journal.status \in Copied /\ (edge = "candidate" => job.live)
      /\ authority = "off"
    BY <1>1 DEF SwitchInv, FilesAt, HostAt
<1>4. HostType' /\ "stop-consoles" \in Place \ {"claimed"}
    BY <1>1, HostBefore DEF HostType, Place
<1>5. JournalHolds'
    BY <1>1 DEF SwitchInv, JournalHolds, All
<1>6. ASSUME Go("stop-consoles")
      PROVE  CommandAt' /\ FilesAt' /\ HostAt'
    <2>1. /\ job'.at = "stop-consoles" /\ job'.act = job.act /\ job'.i = job.i
          /\ job'.live = job.live
        BY <1>4, <1>6, GoEffect, HostBefore
    <2> QED BY <1>1, <1>2, <1>3, <2>1 DEF CommandAt, FilesAt, HostAt
<1>7. \A c \in Console : slot'[c] = "active" => pointer' = c
    BY <1>1, HostBefore
<1> QED BY <1>1, <1>2, <1>3, <1>4, <1>5, <1>6, <1>7, HostStep

\* bind_source_worker_quiescence.
LEMMA BindQuiescenceKeeps ==
    ASSUME SwitchInv, BindQuiescence
    PROVE  SwitchInv'
<1>1. /\ job.at \in {"bind", "bind-again"} /\ workers' \in {workers, "none"}
      /\ UNCHANGED <<terminal, copy, files, units, authority, slot, jam,
                     enabled, pointer, edge, rebase, worldVars>>
      /\ journal' \in {journal, [journal EXCEPT !.proof = TRUE]}
    BY DEF BindQuiescence, consoleVars, worldVars
<1>2. /\ job.act = "apply" /\ job.i = 1 /\ rebase
      /\ journal.phase \in {"prepared", "applying"}
      /\ job.at = "bind-again" => journal.backed
    BY <1>1 DEF SwitchInv, CommandAt
<1>3. job.at = "bind-again" =>
        /\ journal.status \notin {"published", "applied"} /\ units = "new"
        /\ authority = "off"
    BY <1>1 DEF SwitchInv, FilesAt, HostAt
<1>4. /\ journal' \in JournalType /\ journal'.phase = journal.phase
      /\ journal'.backed = journal.backed /\ journal'.status = journal.status
    BY <1>1, HostBefore DEF JournalType
<1>5. PICK p \in {"back-up", "stop-consoles"} :
        /\ Raise \/ (Go(p) /\ UNCHANGED claim)
        /\ p = "stop-consoles" => job.at = "bind-again"
    BY <1>1 DEF BindQuiescence, Proceed, At
<1>6. HostType' /\ p \in Place \ {"claimed"}
    BY <1>1, <1>5, HostBefore DEF HostType, Place
<1>7. JournalHolds'
    BY <1>1, <1>2, <1>4 DEF SwitchInv, JournalHolds, All
<1>8. HostHolds'
    BY <1>1, <1>2, <1>4, HostBefore DEF HostHolds, Runs, Schema
<1>9. CASE Raise
    BY <1>1, <1>2, <1>4, <1>6, <1>7, <1>8, <1>9, ToolStepKeeps
<1>10. CASE Go(p) /\ UNCHANGED claim
    <2>1. /\ job' \in JobType /\ job'.at = p /\ job'.act = job.act /\ job'.i = job.i
          /\ job'.live = job.live /\ job'.created = job.created
        BY <1>6, <1>10, GoEffect, HostBefore
    <2>2. CommandAt' /\ FilesAt' /\ HostAt'
        BY <1>1, <1>2, <1>3, <1>4, <1>5, <2>1 DEF CommandAt, FilesAt, HostAt
    <2> QED BY <1>1, <1>2, <1>4, <1>6, <1>7, <1>8, <1>10, <2>1, <2>2, ToolStepKeeps
<1> QED BY <1>5, <1>9, <1>10

\* The next file, or the next place after the last one.
LEMMA NextFile ==
    ASSUME NEW p \in Place, job \in JobType,
           job' = IF job.i < Len(File) THEN [job EXCEPT !.i = @ + 1]
                  ELSE [job EXCEPT !.i = 1, !.at = p]
    PROVE  /\ job' \in JobType /\ job'.act = job.act /\ job'.created = job.created
           /\ job'.live = job.live
           /\ \/ job.i < 4 /\ job'.at = job.at /\ job'.i = job.i + 1
              \/ job.i = 4 /\ job'.at = p /\ job'.i = 1
<1>1. job.i \in 1 .. 4 /\ 1 \in DOMAIN File
    BY FileFacts DEF JobType
<1>2. CASE job.i < 4
    <2>1. job.i + 1 \in DOMAIN File
        BY <1>1, <1>2, FileFacts
    <2>2. job' = [job EXCEPT !.i = job.i + 1]
        BY <1>2, FileFacts
    <2> QED BY <1>2, <2>1, <2>2 DEF JobType
<1>3. CASE ~(job.i < 4)
    <2>1. job' = [job EXCEPT !.i = 1, !.at = p] /\ job.i = 4
        BY <1>1, <1>3, FileFacts
    <2> QED BY <1>1, <2>1 DEF JobType
<1> QED BY <1>2, <1>3

\* _restore_retained_files: a file that is put back is the predecessor's.
LEMMA RestoreFileKeeps ==
    ASSUME SwitchInv, RestoreFile
    PROVE  SwitchInv'
<1>1. /\ job.at \in {"restore", "recover"}
      /\ files' = IF copy[job.i] = "none" THEN files
                  ELSE [files EXCEPT ![job.i] = copy[job.i]]
      /\ UNCHANGED <<journal, claim, terminal, copy, units, authority, workers, slot,
                     jam, enabled, pointer, edge, rebase, worldVars>>
    BY DEF RestoreFile, consoleVars, worldVars
<1>2. /\ job.act \in {"apply", "rollback"} /\ rebase /\ journal.backed
      /\ journal.phase \in Between
      /\ job.act = "apply" => journal.phase \in {"prepared", "applying"}
      /\ job.at = "recover" => job.act = "apply"
    BY <1>1 DEF SwitchInv, CommandAt
<1>3. /\ journal.status \in Copied
      /\ job.act = "apply" => journal.status = "publishing" /\ units = "new"
      /\ job.act = "rollback" => (edge = "candidate" => job.live)
      /\ authority = "off" /\ \A j \in DOMAIN File : j < job.i => files[j] = "old"
    BY <1>1, <1>2 DEF SwitchInv, FilesAt, HostAt, Copied
<1>4. PICK p \in {"recovered", "prove", "restored"} :
        /\ p = "recovered" => job.at = "recover"
        /\ p = "prove" => job.at = "restore" /\ job.act = "apply"
        /\ p = "restored" => job.at = "restore" /\ job.act = "rollback"
        /\ job' = IF job.i < Len(File) THEN [job EXCEPT !.i = @ + 1]
                  ELSE [job EXCEPT !.i = 1, !.at = p]
    BY <1>1, <1>2 DEF RestoreFile, At
<1>5. p \in Place \ {"claimed"} /\ job.i \in DOMAIN File
    BY <1>4, HostBefore DEF Place, JobType
<1>6. /\ job' \in JobType /\ job'.act = job.act /\ job'.created = job.created
      /\ job'.live = job.live
      /\ \/ job.i < 4 /\ job'.at = job.at /\ job'.i = job.i + 1
         \/ job.i = 4 /\ job'.at = p /\ job'.i = 1
    BY <1>4, <1>5, NextFile, HostBefore
<1>7. /\ files \in [DOMAIN File -> Release]
      /\ copy \in [DOMAIN File -> Release \cup {"none"}]
    BY HostBefore DEF HostType
<1>8. /\ journal.status \in Source => \A j \in DOMAIN File : files[j] = "old"
      /\ copy[job.i] = "none" => journal.status \in Source
      /\ copy[job.i] # "new"
    <2>1. journal.status \in Source => files = All("old")
        BY <1>2 DEF SwitchInv, JournalHolds
    <2>2. journal.status \notin Source => copy = All("old")
        BY <1>2, <1>3 DEF SwitchInv, JournalHolds, Source
    <2>3. copy[job.i] # "new"
        BY <1>2, <1>5 DEF SwitchInv, JournalHolds
    <2> QED BY <1>5, <2>1, <2>2, <2>3 DEF All
<1>9. /\ files' \in [DOMAIN File -> Release] /\ files'[job.i] = "old"
      /\ \A j \in DOMAIN File : files[j] = "old" => files'[j] = "old"
    <2>1. CASE copy[job.i] = "none"
        BY <1>1, <1>5, <1>7, <1>8, <2>1
    <2>2. CASE copy[job.i] # "none"
        <3>1. copy[job.i] = "old"
            BY <1>5, <1>7, <1>8, <2>2 DEF Release
        <3>2. files' = [files EXCEPT ![job.i] = "old"]
            BY <1>1, <2>2, <3>1
        <3> QED BY <1>5, <1>7, <3>2 DEF Release
    <2> QED BY <2>1, <2>2
<1>10. /\ \A j \in DOMAIN File : j < job'.i /\ job'.at = job.at => files'[j] = "old"
       /\ job'.at = p => files' = All("old")
    <2>1. \A j \in DOMAIN File : j < job.i \/ j = job.i => files'[j] = "old"
        BY <1>3, <1>9
    <2>2. CASE job.i < 4 /\ job'.at = job.at /\ job'.i = job.i + 1
        <3>1. \A j \in DOMAIN File : j < job.i + 1 => j < job.i \/ j = job.i
            BY <1>5, FileFacts
        <3> QED BY <1>1, <1>4, <2>1, <2>2, <3>1
    <2>3. CASE job.i = 4 /\ job'.at = p /\ job'.i = 1
        <3>1. \A j \in DOMAIN File : j < 4 \/ j = 4
            BY FileFacts
        <3>2. \A j \in DOMAIN File : files'[j] = "old"
            BY <2>1, <2>3, <3>1
        <3> QED BY <1>9, <3>2, AllFiles
    <2> QED BY <1>6, <2>2, <2>3
<1>11. HostType'
    BY <1>1, <1>9, HostBefore DEF HostType
<1>12. JournalHolds'
    <2>1. journal.status \in Source => files' = All("old")
        BY <1>8, <1>9, AllFiles
    <2> QED BY <1>1, <1>2, <1>3, <2>1 DEF SwitchInv, JournalHolds, All, Copied
<1>13. HostHolds'
    BY <1>1, <1>2, <1>3, HostBefore DEF HostHolds
<1>14. CommandAt' /\ HostAt'
    BY <1>1, <1>2, <1>3, <1>4, <1>6 DEF CommandAt, HostAt
<1>15. FilesAt'
    BY <1>1, <1>2, <1>3, <1>4, <1>6, <1>10 DEF FilesAt
<1> QED BY <1>1, <1>2, <1>4, <1>5, <1>6, <1>11, <1>12, <1>13, <1>14, <1>15,
           ToolStepKeeps, HostBefore

\* A file of the candidate is published while no authority runs.
LEMMA PublishFileKeeps ==
    ASSUME SwitchInv, PublishFile
    PROVE  SwitchInv'
<1>1. /\ job.at = "publish" /\ files' = [files EXCEPT ![job.i] = "new"]
      /\ job' = IF job.i < Len(File) THEN [job EXCEPT !.i = @ + 1]
                ELSE [job EXCEPT !.i = 1, !.at = "published"]
      /\ UNCHANGED <<journal, claim, terminal, copy, units, authority, workers, slot,
                     jam, enabled, pointer, edge, rebase, worldVars>>
    BY DEF PublishFile, At, consoleVars, worldVars
<1>2. /\ job.act = "apply" /\ rebase /\ journal.backed
      /\ journal.phase \in {"prepared", "applying"}
    BY <1>1 DEF SwitchInv, CommandAt
<1>3. journal.status = "publishing" /\ units = "new" /\ authority = "off"
    BY <1>1 DEF SwitchInv, FilesAt, HostAt
<1>4. "published" \in Place /\ job.i \in DOMAIN File
    BY HostBefore DEF Place, JobType
<1>5. /\ job' \in JobType /\ job'.act = job.act /\ job'.created = job.created
      /\ \/ job'.at = "publish"
         \/ job'.at = "published" /\ job'.i = 1
    BY <1>1, <1>4, NextFile, HostBefore
<1>6. HostType'
    BY <1>1, <1>4, HostBefore DEF HostType, Release
<1>7. JournalHolds'
    BY <1>1, <1>2, <1>3 DEF SwitchInv, JournalHolds, All, Source, Copied
<1>8. HostHolds'
    BY <1>1, <1>2, <1>3, HostBefore DEF HostHolds
<1>9. CommandAt' /\ HostAt'
    BY <1>1, <1>2, <1>3, <1>5 DEF CommandAt, HostAt
<1>10. FilesAt'
    BY <1>1, <1>2, <1>3, <1>5 DEF FilesAt
<1>11. job'.at # "claimed"
    BY <1>5
<1> QED BY <1>1, <1>2, <1>5, <1>6, <1>7, <1>8, <1>9, <1>10, <1>11, ToolStepKeeps,
           HostBefore

\* restart_services: an authority that comes up finds its schema.
LEMMA RestartServicesKeeps ==
    ASSUME SwitchInv, RestartServices
    PROVE  SwitchInv'
<1>1. /\ job.at \in {"services", "restart-old"}
      /\ UNCHANGED <<journal, terminal, copy, files, units, workers, slot, jam,
                     enabled, pointer, edge, rebase, worldVars>>
    BY DEF RestartServices, consoleVars, worldVars
<1>2. \A c \in Console : slot'[c] = "active" => pointer' = c
    BY <1>1, HostBefore
<1>3. CASE job.at = "services"
    <2>1. /\ job.act = "apply" /\ job.i = 1 /\ journal.backed
          /\ journal.phase \in {"prepared", "applying"}
        BY <1>3 DEF SwitchInv, CommandAt
    <2>2. units = "new"
        BY <1>3 DEF SwitchInv, HostAt
    <2>3. \/ files[2] = "new" /\ authority' = "new"
             /\ Go("converge") /\ UNCHANGED claim
          \/ Raise /\ authority' = authority
        BY <1>3, <2>2 DEF RestartServices, At, Proceed, Ready, Runs, Schema
    <2>4. HostType' /\ "converge" \in Place \ {"claimed"}
        BY <1>1, <2>3, HostBefore DEF HostType, Place, Release
    <2>5. JournalHolds'
        BY <1>1, <2>3 DEF SwitchInv, JournalHolds, All
    <2>6. authority' # "off" => Runs(authority)'
        BY <1>1, <2>3, HostBefore DEF Runs, Schema
    <2>7. ASSUME Go("converge")
          PROVE  CommandAt' /\ FilesAt' /\ HostAt'
        <3>1. job'.at = "converge" /\ job'.act = job.act /\ job'.i = job.i
            BY <2>4, <2>7, GoEffect, HostBefore
        <3>2. authority' = "new"
            <4>1. ~Raise
                BY <3>1, IdleFacts DEF Raise
            <4> QED BY <2>3, <4>1
        <3> QED BY <1>1, <2>1, <2>2, <3>1, <3>2 DEF CommandAt, FilesAt, HostAt
    <2> QED BY <1>1, <1>2, <1>3, <2>1, <2>3, <2>4, <2>5, <2>6, <2>7, HostStep
<1>4. CASE job.at = "restart-old"
    <2>1. /\ job.act = "rollback" /\ job.i = 1 /\ ~journal.backed /\ rebase
          /\ journal.phase \in Between
        BY <1>4 DEF SwitchInv, CommandAt
    <2>2. /\ units = "old" /\ journal.status = "planned" /\ files = All("old")
          /\ edge = "previous" /\ journal.phase = "prepared"
        BY <2>1 DEF SwitchInv, JournalHolds, Source
    <2>3. files[2] = "old"
        BY <2>2, FileFacts DEF All
    <2>4. authority' = "old" /\ Raise
        BY <1>4, <2>1, <2>2, <2>3 DEF RestartServices, At, Proceed, Ready, Runs, Schema
    <2>5. HostType' /\ "converge-old" \in Place \ {"claimed"}
        BY <1>1, <2>4, HostBefore DEF HostType, Place, Release
    <2>6. JournalHolds'
        BY <1>1, <2>2, <2>4 DEF SwitchInv, JournalHolds, All, Copied
    <2>7. Runs(authority)'
        BY <1>1, <2>1, <2>3, <2>4 DEF Runs, Schema
    <2>9. CommandAt' /\ FilesAt' /\ HostAt'
        BY <2>4, RaiseEffect
    <2> QED BY <1>1, <1>2, <1>4, <2>1, <2>2, <2>4, <2>5, <2>6, <2>7, <2>9, HostStep
<1> QED BY <1>1, <1>3, <1>4

\* install_rendered_destinations.
LEMMA InstallKeeps ==
    ASSUME SwitchInv, Install
    PROVE  SwitchInv'
<1>1. /\ job.at \in {"install", "install-rest"} /\ units' \in {"mixed", "new"}
      /\ (units = "new" \/ job.at = "install-rest" => units' = "new")
      /\ UNCHANGED <<journal, claim, terminal, copy, files, authority, workers, slot,
                     jam, enabled, pointer, edge, rebase, worldVars>>
    BY DEF Install, At, consoleVars, worldVars
<1>2. /\ job.act = "apply" /\ job.i = 1 /\ journal.backed
      /\ journal.phase \in {"prepared", "applying"}
    BY <1>1 DEF SwitchInv, CommandAt
<1>3. PICK p \in {"install-rest", "retained"} :
        Go(p) /\ (p = "retained" => job.at = "install-rest")
    BY <1>1 DEF Install, At
<1>4. HostType' /\ p \in Place \ {"claimed"}
    BY <1>1, <1>3, HostBefore DEF HostType, Place, Release
<1>5. JournalHolds'
    BY <1>1, <1>2 DEF SwitchInv, JournalHolds, All
<1>6. authority' # "off" => Runs(authority)'
    BY <1>1, HostBefore DEF Runs, Schema
<1>7. job'.at = p /\ job'.act = job.act /\ job'.i = job.i
    BY <1>3, <1>4, GoEffect, HostBefore
<1>8. CommandAt' /\ FilesAt' /\ HostAt'
    BY <1>1, <1>2, <1>3, <1>7 DEF CommandAt, FilesAt, HostAt
<1>9. \A c \in Console : slot'[c] = "active" => pointer' = c
    BY <1>1, HostBefore
<1> QED BY <1>1, <1>2, <1>3, <1>4, <1>5, <1>6, <1>8, <1>9, HostStep

\* restore_destination_backups.
LEMMA RestoreUnitsKeeps ==
    ASSUME SwitchInv, RestoreUnits
    PROVE  SwitchInv'
<1>1. /\ job.at \in {"units", "units-rest"} /\ units' \in {"mixed", "old"}
      /\ (job.at = "units-rest" => units' = "old")
      /\ UNCHANGED <<journal, claim, terminal, copy, files, authority, workers, slot,
                     jam, enabled, pointer, edge, rebase, worldVars>>
    BY DEF RestoreUnits, At, consoleVars, worldVars
<1>2. /\ job.act = "rollback" /\ job.i = 1 /\ journal.backed
      /\ journal.phase \in Between
    BY <1>1 DEF SwitchInv, CommandAt
<1>3. /\ journal.status \in {"planned", "rolled-back"}
      /\ (edge = "candidate" => job.live)
    BY <1>1 DEF SwitchInv, FilesAt, HostAt
<1>4. PICK p \in {"units-rest", "plane"} :
        Go(p) /\ (p = "plane" => job.at = "units-rest")
    BY <1>1 DEF RestoreUnits, At
<1>5. HostType' /\ p \in Place \ {"claimed"}
    BY <1>1, <1>4, HostBefore DEF HostType, Place, Release
<1>6. JournalHolds'
    BY <1>1, <1>2, <1>3 DEF SwitchInv, JournalHolds, All, Copied
<1>7. authority' # "off" => Runs(authority)'
    BY <1>1, HostBefore DEF Runs, Schema
<1>8. job'.at = p /\ job'.act = job.act /\ job'.i = job.i /\ job'.live = job.live
    BY <1>4, <1>5, GoEffect, HostBefore
<1>9. CommandAt' /\ FilesAt' /\ HostAt'
    BY <1>1, <1>2, <1>3, <1>4, <1>8 DEF CommandAt, FilesAt, HostAt
<1>10. \A c \in Console : slot'[c] = "active" => pointer' = c
    BY <1>1, HostBefore
<1> QED BY <1>1, <1>2, <1>4, <1>5, <1>6, <1>7, <1>9, <1>10, HostStep

\* restore_rollback_control_plane.
LEMMA RestorePlaneKeeps ==
    ASSUME SwitchInv, RestorePlane
    PROVE  SwitchInv'
<1>1. /\ job.at = "plane"
      /\ authority' = (IF Runs(units) THEN units ELSE "off")
      /\ Raise \/ (Go("previous-slot") /\ UNCHANGED claim /\ Runs(units))
      /\ UNCHANGED <<journal, terminal, copy, files, units, workers, slot,
                     jam, enabled, pointer, edge, rebase, worldVars>>
    BY DEF RestorePlane, Proceed, Ready, At, consoleVars, worldVars
<1>2. /\ job.act = "rollback" /\ job.i = 1 /\ journal.backed
      /\ journal.phase \in Between
    BY <1>1 DEF SwitchInv, CommandAt
<1>3. /\ journal.status \in {"planned", "rolled-back"} /\ units = "old"
      /\ (edge = "candidate" => job.live)
    BY <1>1 DEF SwitchInv, FilesAt, HostAt
<1>4. HostType' /\ "previous-slot" \in Place \ {"claimed"}
    BY <1>1, <1>3, HostBefore DEF HostType, Place, Release
<1>5. JournalHolds'
    BY <1>1, <1>2, <1>3 DEF SwitchInv, JournalHolds, All, Copied
<1>6. authority' # "off" => Runs(authority)'
    BY <1>1 DEF Runs, Schema
<1>7. ASSUME Go("previous-slot")
      PROVE  CommandAt' /\ FilesAt' /\ HostAt'
    <2>1. /\ job'.at = "previous-slot" /\ job'.act = job.act /\ job'.i = job.i
          /\ job'.live = job.live
        BY <1>4, <1>7, GoEffect, HostBefore
    <2>2. authority' = "old"
        <3>1. ~Raise
            BY <2>1, IdleFacts DEF Raise
        <3> QED BY <1>1, <1>3, <3>1
    <2> QED BY <1>1, <1>2, <1>3, <2>1, <2>2 DEF CommandAt, FilesAt, HostAt
<1>8. \A c \in Console : slot'[c] = "active" => pointer' = c
    BY <1>1, HostBefore
<1> QED BY <1>1, <1>2, <1>3, <1>4, <1>5, <1>6, <1>7, <1>8, HostStep

\* The two slots.
LEMMA PeerFacts ==
    /\ Console = {"previous", "candidate"}
    /\ Peer("candidate") = "previous" /\ Peer("previous") = "candidate"
BY DEF Peer, Console

\* A slot that starts is the writer only if the pointer names it.
LEMMA StartedEffect ==
    ASSUME SwitchInv, NEW c \in Console
    PROVE  /\ Started(c) \in [Console -> {"off", "standby", "active"}]
           /\ \A d \in Console : Started(c)[d] = "active" => pointer = d
<1>1. /\ slot \in [Console -> {"off", "standby", "active"}]
      /\ \A d \in Console : slot[d] = "active" => pointer = d
    BY HostBefore DEF HostType
<1> QED BY <1>1 DEF Started

\* A promotion makes one writer, or leaves the slots alone and fails.
LEMMA PromotedEffect ==
    ASSUME SwitchInv, NEW c \in Console, NEW peer \in BOOLEAN, NEW next,
           Promoted(c, peer, next)
    PROVE  /\ slot' \in [Console -> {"off", "standby", "active"}]
           /\ jam' \in [Console -> BOOLEAN] /\ pointer' \in Console
           /\ \A d \in Console : slot'[d] = "active" => pointer' = d
           /\ \/ Raise
              \/ Go(next) /\ UNCHANGED claim /\ slot'[c] = "active" /\ pointer' = c
<1>1. /\ slot \in [Console -> {"off", "standby", "active"}]
      /\ jam \in [Console -> BOOLEAN] /\ pointer \in Console
      /\ \A d \in Console : slot[d] = "active" => pointer = d
    BY HostBefore DEF HostType
<1>2. CASE peer \/ LeaseFree(c)
    <2>1. /\ slot' = [d \in Console |-> CASE d = c -> "active"
                                          [] d # c /\ peer -> "standby"
                                          [] OTHER -> slot[d]]
          /\ pointer' = c /\ UNCHANGED jam /\ Go(next) /\ UNCHANGED claim
        BY <1>2 DEF Promoted
    <2>2. \A d \in Console : d # c /\ ~peer => slot[d] # "active"
        <3>1. ASSUME NEW d \in Console, d # c
              PROVE  d = Peer(c)
            BY <3>1, PeerFacts
        <3> QED BY <1>2, <3>1 DEF LeaseFree
    <2> QED BY <1>1, <2>1, <2>2
<1>3. CASE ~(peer \/ LeaseFree(c))
    <2>1. /\ jam' = [jam EXCEPT ![c] = TRUE] /\ UNCHANGED <<slot, pointer>> /\ Raise
        BY <1>3 DEF Promoted
    <2> QED BY <1>1, <2>1
<1> QED BY <1>2, <1>3

\* What an apply knows once the new authority runs.
LEMMA StartingFacts ==
    ASSUME SwitchInv, job.at \in Starting \ {"services"}
    PROVE  /\ job.act = "apply" /\ job.i = 1 /\ journal.backed
           /\ journal.phase \in {"prepared", "applying"}
           /\ units = "new" /\ authority = "new"
<1>1. /\ job.act = "apply" /\ job.i = 1 /\ journal.backed
      /\ journal.phase \in {"prepared", "applying"}
    BY DEF SwitchInv, CommandAt
<1> QED BY <1>1 DEF SwitchInv, HostAt

\* A step of the apply with the Console or the edge.
LEMMA ConsoleStep ==
    ASSUME SwitchInv, job.at \in Starting \ {"services", "applied"},
           UNCHANGED <<journal, terminal, copy, dataVars, worldVars>>,
           slot' \in [Console -> {"off", "standby", "active"}],
           jam' \in [Console -> BOOLEAN], enabled' \subseteq Console,
           pointer' \in Console, edge' \in Console,
           \A c \in Console : slot'[c] = "active" => pointer' = c,
           NEW p \in {"promote", "edge", "drain", "applied"},
           Raise \/ (Go(p) /\ UNCHANGED claim)
    PROVE  SwitchInv'
<1>1. UNCHANGED <<files, units, authority, workers, rebase>>
    BY DEF dataVars, worldVars
<1>2. /\ job.act = "apply" /\ job.i = 1 /\ journal.backed
      /\ journal.phase \in {"prepared", "applying"}
      /\ units = "new" /\ authority = "new"
    BY StartingFacts
<1>3. HostType' /\ p \in Place \ {"claimed"}
    BY <1>1, HostBefore DEF HostType, Place
<1>4. JournalHolds'
    BY <1>1, <1>2 DEF SwitchInv, JournalHolds, All
<1>5. authority' # "off" => Runs(authority)'
    BY <1>1, HostBefore DEF Runs, Schema
<1>6. ASSUME Go(p)
      PROVE  CommandAt' /\ FilesAt' /\ HostAt'
    <2>1. job'.at = p /\ job'.act = job.act /\ job'.i = job.i
        BY <1>3, <1>6, GoEffect, HostBefore
    <2> QED BY <1>1, <1>2, <2>1 DEF CommandAt, FilesAt, HostAt
<1> QED BY <1>1, <1>2, <1>3, <1>4, <1>5, <1>6, HostStep

\* start of the candidate's Console, its promotion, the edge, the drain.
LEMMA CandidateKeeps ==
    ASSUME SwitchInv, StartCandidate \/ Promote \/ SwitchEdge \/ Drain
    PROVE  SwitchInv'
<1>1. /\ HostType /\ "candidate" \in Console /\ "previous" \in Console
      /\ \A c \in Console : slot[c] = "active" => pointer = c
    BY HostBefore, PeerFacts
<1>2. CASE StartCandidate
    <2>1. /\ job.at = "start-slot" /\ slot' = Started("candidate")
          /\ enabled' = enabled \cup {"candidate"}
          /\ Raise \/ (Go("promote") /\ UNCHANGED claim)
          /\ UNCHANGED <<journal, terminal, copy, dataVars, jam, pointer, edge,
                         worldVars>>
        BY <1>2 DEF StartCandidate, At, Proceed
    <2>2. /\ slot' \in [Console -> {"off", "standby", "active"}]
          /\ \A c \in Console : slot'[c] = "active" => pointer' = c
        BY <1>1, <2>1, StartedEffect
    <2> QED BY <1>1, <2>1, <2>2, ConsoleStep DEF HostType
<1>3. CASE Promote
    <2>1. /\ job.at = "promote"
          /\ UNCHANGED <<journal, terminal, copy, dataVars, enabled, edge, worldVars>>
        BY <1>3 DEF Promote, At
    <2>2. \/ UNCHANGED <<slot, jam, pointer>>
             /\ (Raise \/ (Go("edge") /\ UNCHANGED claim))
          \/ \E peer \in BOOLEAN : Promoted("candidate", peer, "edge")
        BY <1>3 DEF Promote, Proceed
    <2>3. /\ slot' \in [Console -> {"off", "standby", "active"}]
          /\ jam' \in [Console -> BOOLEAN] /\ pointer' \in Console
          /\ \A d \in Console : slot'[d] = "active" => pointer' = d
          /\ Raise \/ (Go("edge") /\ UNCHANGED claim)
        BY <1>1, <2>2, PromotedEffect DEF HostType
    <2> QED BY <1>1, <2>1, <2>3, ConsoleStep DEF HostType
<1>4. CASE SwitchEdge
    <2>1. /\ job.at = "edge" /\ edge' = "candidate" /\ Go("drain") /\ UNCHANGED claim
          /\ UNCHANGED <<journal, terminal, copy, dataVars, slot, jam, enabled, pointer,
                         worldVars>>
        BY <1>4 DEF SwitchEdge, At
    <2>2. \A d \in Console : slot'[d] = "active" => pointer' = d
        BY <1>1, <2>1
    <2> QED BY <1>1, <2>1, <2>2, ConsoleStep DEF HostType
<1>5. CASE Drain
    <2>1. /\ job.at = "drain" /\ slot' = [slot EXCEPT !["previous"] = "off"]
          /\ jam' = [jam EXCEPT !["previous"] = FALSE]
          /\ enabled' = enabled \ {"previous"} /\ Go("applied") /\ UNCHANGED claim
          /\ UNCHANGED <<journal, terminal, copy, dataVars, pointer, edge, worldVars>>
        BY <1>5 DEF Drain, At
    <2>2. /\ slot' \in [Console -> {"off", "standby", "active"}]
          /\ jam' \in [Console -> BOOLEAN]
          /\ \A d \in Console : slot'[d] = "active" => pointer' = d
        BY <1>1, <2>1 DEF HostType
    <2> QED BY <1>1, <2>1, <2>2, ConsoleStep DEF HostType
<1> QED BY <1>2, <1>3, <1>4, <1>5

\* What a rollback knows at the previous Console.
LEMMA PreviousFacts ==
    ASSUME SwitchInv, job.at \in {"previous-slot", "promote-previous", "edge-back"}
    PROVE  /\ job.act = "rollback" /\ job.i = 1 /\ (rebase \/ journal.backed)
           /\ journal.phase \in Between /\ units = "old" /\ authority = "old"
           /\ journal.status \in {"planned", "rolled-back"}
           /\ (edge = "candidate" => job.live)
           /\ job.at = "edge-back" => journal.backed
           /\ ~journal.backed => edge = "previous"
           /\ files = All(Schema("old"))
<1>1. /\ job.act = "rollback" /\ job.i = 1 /\ (rebase \/ journal.backed)
      /\ journal.phase \in Between /\ (job.at = "edge-back" => journal.backed)
    BY DEF SwitchInv, CommandAt
<1>2. /\ units = "old" /\ authority = "old" /\ (edge = "candidate" => job.live)
      /\ journal.status \in {"planned", "rolled-back"}
    BY DEF SwitchInv, FilesAt, HostAt
<1>3. ~journal.backed => edge = "previous"
    BY DEF SwitchInv, JournalHolds
<1>4. files = All(Schema("old"))
    BY <1>2, HostBefore DEF SwitchInv, JournalHolds, Source, Schema
<1> QED BY <1>1, <1>2, <1>3, <1>4

\* The previous Console, its promotion, and the edge back to it.
LEMMA PreviousKeeps ==
    ASSUME SwitchInv, StartPrevious \/ PromotePrevious \/ EdgeBack
    PROVE  SwitchInv'
<1>1. /\ HostType /\ "candidate" \in Console /\ "previous" \in Console
      /\ \A c \in Console : slot[c] = "active" => pointer = c
    BY HostBefore, PeerFacts
<1>2. /\ job.at \in {"previous-slot", "promote-previous", "edge-back"}
      /\ UNCHANGED <<journal, terminal, copy, files, units, authority, workers, rebase,
                     worldVars>>
    BY DEF StartPrevious, PromotePrevious, EdgeBack, At, dataVars, worldVars
<1>3. /\ job.act = "rollback" /\ job.i = 1 /\ (rebase \/ journal.backed)
      /\ journal.phase \in Between /\ units = "old" /\ authority = "old"
      /\ journal.status \in {"planned", "rolled-back"}
      /\ (edge = "candidate" => job.live)
      /\ job.at = "edge-back" => journal.backed
      /\ ~journal.backed => edge = "previous"
      /\ files = All(Schema("old"))
    BY <1>2, PreviousFacts
<1>4. authority' # "off" => Runs(authority)'
    BY <1>2, HostBefore DEF Runs, Schema
<1>5. CASE StartPrevious
    <2>1. /\ job.at = "previous-slot" /\ slot' = Started("previous")
          /\ "previous" \in enabled' /\ enabled' \subseteq enabled \cup {"previous"}
          /\ Raise \/ (Go("promote-previous") /\ UNCHANGED claim)
          /\ UNCHANGED <<jam, pointer, edge>>
        BY <1>5 DEF StartPrevious, At, Proceed
    <2>2. /\ slot' \in [Console -> {"off", "standby", "active"}]
          /\ \A c \in Console : slot'[c] = "active" => pointer' = c
        BY <1>1, <2>1, StartedEffect
    <2>3. HostType' /\ "promote-previous" \in Place \ {"claimed"}
        BY <1>1, <1>2, <2>1, <2>2 DEF HostType, Place
    <2>4. JournalHolds'
        BY <1>2, <2>1 DEF SwitchInv, JournalHolds, All
    <2>5. ASSUME Go("promote-previous")
          PROVE  CommandAt' /\ FilesAt' /\ HostAt'
        <3>1. /\ job'.at = "promote-previous" /\ job'.act = job.act /\ job'.i = job.i
              /\ job'.live = job.live
            BY <2>3, <2>5, GoEffect, HostBefore
        <3> QED BY <1>2, <1>3, <2>1, <3>1 DEF CommandAt, FilesAt, HostAt
    <2> QED BY <1>2, <1>3, <1>4, <2>1, <2>2, <2>3, <2>4, <2>5, HostStep
<1>6. CASE PromotePrevious
    <2>1. job.at = "promote-previous" /\ UNCHANGED <<enabled, edge>>
        BY <1>6 DEF PromotePrevious, At
    <2>2. PICK p \in {"edge-back", "settle"} :
            /\ p = "edge-back" => journal.backed
            /\ p = "settle" => ~journal.backed
            /\ \/ /\ slot["previous"] = "active" /\ Go(p) /\ UNCHANGED claim
                  /\ UNCHANGED <<slot, jam, pointer>>
               \/ Promoted("previous", FALSE, p)
        BY <1>6 DEF PromotePrevious, Proceed
    <2>3. /\ slot' \in [Console -> {"off", "standby", "active"}]
          /\ jam' \in [Console -> BOOLEAN] /\ pointer' \in Console
          /\ \A d \in Console : slot'[d] = "active" => pointer' = d
          /\ \/ Raise
             \/ Go(p) /\ UNCHANGED claim /\ slot'["previous"] = "active"
                /\ pointer' = "previous"
        <3>1. CASE /\ slot["previous"] = "active" /\ Go(p) /\ UNCHANGED claim
                   /\ UNCHANGED <<slot, jam, pointer>>
            BY <1>1, <3>1 DEF HostType
        <3>2. CASE Promoted("previous", FALSE, p)
            BY <1>1, <3>2, PromotedEffect
        <3> QED BY <2>2, <3>1, <3>2
    <2>4. HostType' /\ p \in Place \ {"claimed"}
        BY <1>1, <1>2, <2>1, <2>2, <2>3 DEF HostType, Place
    <2>5. JournalHolds'
        BY <1>2, <2>1 DEF SwitchInv, JournalHolds, All
    <2>6. ASSUME Go(p)
          PROVE  CommandAt' /\ FilesAt' /\ HostAt'
        <3>1. /\ job'.at = p /\ job'.act = job.act /\ job'.i = job.i
              /\ job'.live = job.live
            BY <2>4, <2>6, GoEffect, HostBefore
        <3>2. slot'["previous"] = "active" /\ pointer' = "previous"
            <4>1. ~Raise
                BY <2>2, <3>1, IdleFacts DEF Raise
            <4> QED BY <2>3, <4>1
        <3>3. "previous" \in enabled
            BY <2>1 DEF SwitchInv, HostAt
        <3>4. p = "settle" => SettledAt("old")'
            BY <1>2, <1>3, <2>1, <2>2, <3>2, <3>3
            DEF SettledAt, Settled, ConsoleOf, Schema, All
        <3> QED BY <1>2, <1>3, <2>1, <2>2, <3>1, <3>2, <3>3, <3>4
            DEF CommandAt, FilesAt, HostAt
    <2> QED BY <1>2, <1>3, <1>4, <2>1, <2>3, <2>4, <2>5, <2>6, HostStep
<1>7. CASE EdgeBack
    <2>1. /\ job.at = "edge-back" /\ UNCHANGED <<slot, jam, enabled, pointer, claim>>
          /\ edge' = (IF job.live THEN "previous" ELSE edge) /\ Go("control")
        BY <1>7 DEF EdgeBack, At
    <2>2. edge' = "previous"
        BY <1>1, <1>3, <2>1, PeerFacts DEF HostType
    <2>3. HostType' /\ "control" \in Place \ {"claimed"}
        BY <1>1, <1>2, <2>1, <2>2 DEF HostType, Place
    <2>4. JournalHolds'
        BY <1>2, <2>1, <2>2 DEF SwitchInv, JournalHolds, All
    <2>5. slot["previous"] = "active" /\ "previous" \in enabled
        BY <2>1 DEF SwitchInv, HostAt
    <2>6. SettledAt("old")'
        BY <1>1, <1>2, <1>3, <2>1, <2>2, <2>5
        DEF SettledAt, Settled, ConsoleOf, Schema, All
    <2>7. job'.at = "control" /\ job'.act = job.act /\ job'.i = job.i
        BY <2>1, <2>3, GoEffect, HostBefore
    <2>8. CommandAt' /\ FilesAt' /\ HostAt'
        BY <1>2, <1>3, <2>1, <2>6, <2>7 DEF CommandAt, FilesAt, HostAt
    <2>9. \A d \in Console : slot'[d] = "active" => pointer' = d
        BY <1>1, <2>1
    <2> QED BY <1>2, <1>3, <1>4, <2>1, <2>3, <2>4, <2>8, <2>9, HostStep
<1> QED BY <1>5, <1>6, <1>7

\* Workers come and go below everything the invariant speaks of.
LEMMA WorkersStartKeeps ==
    ASSUME SwitchInv, WorkersStart
    PROVE  SwitchInv'
<1>1. /\ workers' \in {"candidate", "source"}
      /\ UNCHANGED <<journal, claim, terminal, job, copy, files, units, authority, slot,
                     jam, enabled, pointer, edge, rebase, other, decided, faults>>
    BY DEF WorkersStart, toolVars, consoleVars, worldVars
<1>2. /\ JournalHolds' /\ HostHolds' /\ (SettledHost' <=> SettledHost)
      /\ (SettledAt("old")' <=> SettledAt("old"))
      /\ (SettledAt("new")' <=> SettledAt("new")) /\ (HalfBack' <=> HalfBack)
    BY <1>1, DocumentsKept
<1>3. CommandAt' /\ FilesAt'
    BY <1>1 DEF SwitchInv, CommandAt, FilesAt, All
<1>4. HostAt'
    BY <1>1, <1>2 DEF SwitchInv, HostAt
<1>5. ClaimHolds'
    BY <1>1, <1>2 DEF SwitchInv, ClaimHolds
<1>6. Typed'
    BY <1>1 DEF SwitchInv, Typed, TypeOK
<1> QED BY <1>2, <1>3, <1>4, <1>5, <1>6 DEF SwitchInv

\* After a reboot a settled host is settled again.
LEMMA RebootKeeps ==
    ASSUME SwitchInv, Reboot
    PROVE  SwitchInv'
<1>1. /\ job' = Idle /\ faults' \in 0 .. MaxFaults /\ workers' = "none"
      /\ slot' = [c \in Console |-> CASE c \notin enabled -> "off"
                                      [] c \in enabled /\ pointer = c -> "active"
                                      [] OTHER -> "standby"]
      /\ jam' = [c \in Console |-> FALSE]
      /\ UNCHANGED <<journal, claim, terminal, copy, files, units, enabled, pointer,
                     edge, rebase, other, decided>>
    BY FaultEffect DEF Reboot
<1>2. PICK r \in Release : /\ authority' = (IF Runs(r) THEN r ELSE "off")
                           /\ (units # "mixed" => r = units)
    BY HostBefore DEF Reboot, HostType, Release
<1>3. /\ HostType' /\ \A c \in Console : slot'[c] = "active" => pointer' = c
    BY <1>1, <1>2, HostBefore DEF HostType, Release
<1>4. \A q \in Release : SettledAt(q) => SettledAt(q)'
    <2>1. SUFFICES ASSUME NEW q \in Release, SettledAt(q)
                   PROVE  SettledAt(q)'
        OBVIOUS
    <2>2. /\ files = All(Schema(q)) /\ units = q /\ edge = ConsoleOf(q)
          /\ ConsoleOf(q) \in enabled /\ pointer = ConsoleOf(q)
        BY <2>1 DEF SettledAt, Settled, ConsoleOf
    <2>3. Runs(q) /\ r = q
        BY <1>2, <2>1, <2>2, FileFacts DEF Runs, All, Release
    <2>4. ConsoleOf(q) \in Console
        BY PeerFacts DEF ConsoleOf
    <2>5. authority' = q /\ slot'[ConsoleOf(q)] = "active"
        BY <1>1, <1>2, <2>2, <2>3, <2>4
    <2>6. files' = All(Schema(q))' /\ ConsoleOf(q)' = ConsoleOf(q)
        BY <1>1, <2>2 DEF All, Schema, ConsoleOf
    <2> QED BY <1>1, <2>2, <2>5, <2>6 DEF SettledAt, Settled, ConsoleOf
<1>5. HostHolds'
    <2>1. authority' # "off" => Runs(authority)'
        BY <1>1, <1>2 DEF Runs, Schema
    <2>2. SettledAt("old") => SettledAt("old")'
        BY <1>4 DEF Release
    <2>3. units = "new" => authority' # "old"
        BY <1>2
    <2> QED BY <1>1, <1>3, <2>1, <2>2, <2>3 DEF SwitchInv, HostHolds
<1>6. JournalHolds'
    BY <1>1, <1>2 DEF SwitchInv, JournalHolds, All
<1>7. SettledHost => SettledHost'
    <2>1. ASSUME HalfBack
          PROVE  HalfBack'
        <3>1. files[2] = "new" /\ ~rebase
            BY <2>1, FileFacts DEF HalfBack, FinalizedOverRollback, All
        <3>2. authority' = r /\ "candidate" \in Console
            BY <1>2, <3>1, PeerFacts DEF Runs, Schema
        <3>3. authority' # "off" /\ slot'["candidate"] = "active"
            BY <1>1, <2>1, <3>2 DEF HalfBack, Release
        <3> QED BY <1>1, <2>1, <3>3 DEF HalfBack, FinalizedOverRollback, All
    <2> QED BY <1>1, <1>4, <2>1 DEF SettledHost, Release
<1>8. ClaimHolds'
    BY <1>1, <1>7, IdleFacts DEF SwitchInv, ClaimHolds
<1>9. Typed'
    BY <1>1, <1>3, IdleFacts, FileFacts DEF SwitchInv, Typed, TypeOK, HostType, Acts
<1> QED BY <1>1, <1>5, <1>6, <1>8, <1>9, NothingAtIdle DEF SwitchInv

-----------------------------------------------------------------------------
(***************************************************************************)
(* The theorems                                                            *)
(***************************************************************************)
\* The host before the first command.
LEMMA InitHolds ==
    ASSUME Init
    PROVE  SwitchInv
<1>1. /\ rebase \in BOOLEAN /\ job = Idle /\ journal = NoJournal /\ ~claim /\ ~other
      /\ claim \in BOOLEAN /\ other \in BOOLEAN /\ decided \in BOOLEAN
      /\ faults \in 0 .. MaxFaults
    <2>1. rebase \in BOOLEAN /\ faults \in 0 .. MaxFaults
        BY SwitchAssumption DEF SwitchAssumption, Init
    <2>2. ~claim /\ ~other /\ claim \in BOOLEAN /\ other \in BOOLEAN /\ decided \in BOOLEAN
        BY DEF Init
    <2> QED BY <2>1, <2>2 DEF Init
<1>2. Schema("old") \in Release
    BY DEF Schema, Release
<1>3. HostType
    BY <1>2, PeerFacts DEF Init, HostType, All, Release
<1>4. SettledAt("old") /\ SettledHost
    BY PeerFacts DEF Init, SettledHost, SettledAt, Settled, ConsoleOf
<1>5. Typed
    <2>1. journal \in JournalType
        BY <1>1 DEF NoJournal, JournalType, Phase, Status
    <2> QED BY <1>1, <1>3, <2>1, IdleFacts, FileFacts
        DEF Init, Typed, TypeOK, HostType, JournalType, Phase, Status, Acts
<1>6. CommandAt /\ FilesAt /\ HostAt
    BY <1>1, IdleFacts DEF CommandAt, FilesAt, HostAt
<1>7. JournalHolds
    <2>1. \A i \in DOMAIN File : copy[i] # "new"
        BY DEF Init, All
    <2>2. files = All(Schema("old")) /\ units = "old" /\ edge = "previous"
        BY DEF Init
    <2> QED BY <1>1, <2>1, <2>2 DEF JournalHolds, NoJournal, Schema, Source, Copied
<1>8. HostHolds
    <2>1. Runs(authority)
        BY FileFacts DEF Init, Runs, All
    <2>2. \A c \in Console : slot[c] = "active" => pointer = c
        BY PeerFacts DEF Init
    <2> QED BY <1>1, <1>4, <2>1, <2>2 DEF HostHolds, NoJournal
<1>9. ClaimHolds
    BY <1>1, <1>4, IdleFacts DEF ClaimHolds
<1> QED BY <1>5, <1>6, <1>7, <1>8, <1>9 DEF SwitchInv

\* Every step of the tool, of the host and of the others keeps the invariant.
LEMMA NextKeeps ==
    ASSUME SwitchInv, [Next]_vars
    PROVE  SwitchInv'
<1>1. CASE UNCHANGED vars
    BY <1>1
    DEF vars, toolVars, hostVars, dataVars, consoleVars, worldVars, SwitchInv, Typed,
        TypeOK, JournalHolds, HostHolds, CommandAt, FilesAt, HostAt, ClaimHolds,
        SettledHost, SettledAt, Settled, HalfBack, FinalizedOverRollback, Schema,
        Runs, All
<1>2. ASSUME NEW act \in Acts, Begin(act) PROVE SwitchInv'
    BY <1>2, BeginKeeps
<1>3. CASE Claimed \/ Prepare \/ Close \/ Verify \/ Publish
    BY <1>3, ClaimedKeeps, PrepareKeeps, CloseKeeps, VerifyKeeps, PublishKeeps
<1>4. CASE Shared
    BY <1>4, StopWritersKeeps, BindQuiescenceKeeps, StopConsolesKeeps,
       RestoreFileKeeps, RestartServicesKeeps DEF Shared
<1>5. CASE ApplyStep
    BY <1>5, ApplyKeeps, BackUpKeeps, InstallKeeps, RetainedKeeps, CopyFilesKeeps,
       SaveCopiedKeeps, StageKeeps, OpenPublicationKeeps, ProveKeeps,
       PublishFileKeeps, SavePublishedKeeps, RecoveredKeeps, CompleteKeeps,
       CandidateKeeps, SaveAppliedKeeps DEF ApplyStep
<1>6. CASE RollbackStep
    BY <1>6, RollbackKeeps, GuardKeeps, StopWorkersKeeps, SaveRestoredKeeps,
       RestoreUnitsKeeps, RestorePlaneKeeps, PreviousKeeps, SaveControlKeeps,
       BackgroundKeeps, ConvergeOldKeeps, SettleKeeps DEF RollbackStep
<1>7. CASE WorkersStart \/ Kill \/ StepFails \/ Reboot
    BY <1>7, WorkersStartKeeps, KillKeeps, StepFailsKeeps, RebootKeeps
<1>8. CASE OtherBegins \/ OtherEnds \/ GiveUp
    BY <1>8, OthersKeep
<1> QED BY <1>1, <1>2, <1>3, <1>4, <1>5, <1>6, <1>7, <1>8 DEF Next, ToolStep

\* In every state of a switch the invariant holds.
THEOREM SwitchInvariant == Spec => []SwitchInv
<1>1. Init => SwitchInv
    BY InitHolds
<1>2. SwitchInv /\ [Next]_vars => SwitchInv'
    BY NextKeeps
<1> QED BY <1>1, <1>2, PTL DEF Spec

\* The retained data of the predecessor survive every kill, failed command and
\* reboot of a switch, however many there are, and no authority runs on a
\* database of the other schema (restore_retained_control_rebaseline).
THEOREM DataSafe == Spec => []RetainedDataSafe
<1>1. SwitchInv => RetainedDataSafe
    <2>1. SUFFICES ASSUME SwitchInv PROVE RetainedDataSafe
        OBVIOUS
    <2>2. TypeOK /\ journal.status \in Status /\ (authority # "off" => Runs(authority))
        BY <2>1 DEF SwitchInv, Typed, JournalType, HostHolds
    <2>3. CopyIsCurrent
        BY <2>1 DEF SwitchInv, JournalHolds, CopyIsCurrent
    <2>4. PredecessorRecoverable
        <3>1. SUFFICES ASSUME rebase PROVE \A i \in DOMAIN File :
                         files[i] = "old" \/ (copy[i] = "old" /\ journal.status \in Copied)
            BY DEF PredecessorRecoverable
        <3>2. files = All("old") \/ (copy = All("old") /\ journal.status \in Copied)
            BY <2>1, <2>2, <3>1 DEF SwitchInv, JournalHolds, Status, Source, Copied
        <3> QED BY <3>2 DEF All
    <2> QED BY <2>2, <2>3, <2>4 DEF RetainedDataSafe
<1> QED BY <1>1, SwitchInvariant, PTL

\* Another installer gets the mutex only on a host that is wholly at one
\* release (acquire_installer_mutex and the claim), or where a cut-off rollback
\* was finalized and recorded as "deployed".
THEOREM OthersSafe == Spec => []OthersSeeSettledHost
<1>1. SwitchInv => OthersSeeSettledHost
    BY DEF SwitchInv, ClaimHolds, SettledHost, SettledAt, HalfBack, OthersSeeSettledHost
<1> QED BY <1>1, SwitchInvariant, PTL

\* The outcome that a step writes, and where.
LEMMA OnlyPublishEnds ==
    ASSUME SwitchInv, Next, terminal' # terminal
    PROVE  \/ terminal' = "none"
           \/ Publish
<1>1. CASE Claimed
    BY <1>1 DEF Claimed
<1>2. CASE ~Claimed /\ ~Publish
    BY <1>2
    DEF Next, ToolStep, Begin, Prepare, Close, Verify, Shared, StopWriters,
        BindQuiescence, StopConsoles, RestoreFile, RestartServices, ApplyStep, Apply,
        BackUp, Install, Retained, CopyFiles, SaveCopied, Stage, OpenPublication,
        Prove, PublishFile, SavePublished, Recovered, Complete, StartCandidate,
        Promote, SwitchEdge, Drain, SaveApplied, RollbackStep, Rollback, Guard,
        StopWorkers, SaveRestored, RestoreUnits, RestorePlane, StartPrevious,
        PromotePrevious, EdgeBack, SaveControl, Background, ConvergeOld, Settle,
        WorkersStart, Kill, StepFails, Reboot, OtherBegins, OtherEnds, GiveUp,
        toolVars
<1> QED BY <1>1, <1>2

\* An outcome document that is published is true of the host
\* (delivery_fence_terminal), however often commands were interrupted before,
\* but for the unit files, which verify does not compare.
THEOREM OutcomesTrue == Spec => OutcomesAreTrue
<1>1. SwitchInv /\ [Next]_vars =>
        [terminal' # terminal =>
            /\ terminal' = "rolled-back" => Settled("old")'
            /\ terminal' = "deployed" =>
                 Settled("new")' \/ FinalizedOverRollback']_vars
    <2>1. SUFFICES ASSUME SwitchInv, Next, terminal' # terminal
                   PROVE  /\ terminal' = "rolled-back" => Settled("old")'
                          /\ terminal' = "deployed" =>
                               Settled("new")' \/ FinalizedOverRollback'
        BY DEF vars, toolVars
    <2>2. CASE Publish
        <3>1. /\ UNCHANGED <<files, units, authority, slot, enabled, pointer, edge,
                             rebase>>
              /\ terminal' = "rolled-back" => job.at = "rolled"
              /\ terminal' = "deployed" => job.at = "deployed"
            BY <2>2 DEF Publish, At, hostVars, dataVars, consoleVars, worldVars
        <3>2. /\ terminal' = "rolled-back" => SettledAt("old")'
              /\ terminal' = "deployed" => SettledAt("new")' \/ HalfBack'
            BY <2>1, <3>1, SettledKept DEF SwitchInv, HostAt, Release
        <3> QED BY <3>2 DEF SettledAt, HalfBack
    <2>3. CASE terminal' = "none"
        BY <2>3
    <2> QED BY <2>1, <2>2, <2>3, OnlyPublishEnds
<1> QED BY <1>1, SwitchInvariant, PTL DEF Spec, OutcomesAreTrue
=============================================================================
