---------------------------- MODULE RunContract -----------------------------
(***************************************************************************)
(* What the test plane promises of one run, without saying how: every      *)
(* selected target is taken at most once, in dependency order, and gets    *)
(* one result; a target is given up only when a dependency cannot pass or  *)
(* the whole run is withdrawn; the run is decided in the very step that    *)
(* decides its last target, and passes only if all of them did.            *)
(***************************************************************************)
CONSTANTS Slot, Name, NameOf, Deps

VARIABLES
    verdict,    \* of the run
    slot        \* of each target

vars == <<verdict, slot>>

Verdict == {"absent", "open", "passed", "failed"}
SlotState == {"absent", "waiting", "held", "passed", "failed"}

DependsOn(x, y) == NameOf[y] \in Deps[NameOf[x]]

Decided(s) == \A x \in Slot : s[x] \notin {"waiting", "held"}
AllPassed(s) == \A x \in Slot : s[x] \in {"absent", "passed"}

\* The verdicts slots s allow; a withdrawn run may fail although every
\* target passed.
VerdictOf(s) ==
    IF ~Decided(s) THEN {"open"}
    ELSE IF AllPassed(s) THEN {"passed", "failed"} ELSE {"failed"}

\* Unknown, or just accepted.
Init ==
    \/ verdict = "absent" /\ slot = [x \in Slot |-> "absent"]
    \/ verdict = "open" /\ slot = [x \in Slot |-> "waiting"]

Accept ==
    /\ verdict = "absent"
    /\ \E S \in SUBSET Slot :
        /\ slot' = [x \in Slot |-> IF x \in S THEN "waiting" ELSE "absent"]
        /\ verdict' = IF S = {} THEN "passed" ELSE "open"

Take(x) ==
    /\ verdict = "open"
    /\ slot[x] = "waiting"
    /\ \A y \in Slot : DependsOn(x, y) => slot[y] \in {"absent", "passed"}
    /\ slot' = [slot EXCEPT ![x] = "held"]
    /\ UNCHANGED verdict

\* y is given up for good reason: nothing waits any more, or one of its
\* dependencies failed.
GivenUp(y) ==
    \/ \A x \in Slot : slot'[x] # "waiting"
    \/ \E z \in Slot : DependsOn(y, z) /\ slot'[z] = "failed"

\* At most one held target gets its result; targets that can no longer run
\* are given up, and none of them is left waiting.
Settle ==
    /\ verdict = "open"
    /\ slot' \in [Slot -> SlotState]
    /\ \A x \in Slot :
        \/ slot'[x] = slot[x]
        \/ slot[x] = "held" /\ slot'[x] \in {"passed", "failed"}
        \/ slot[x] = "waiting" /\ slot'[x] = "failed" /\ GivenUp(x)
    /\ \A x, y \in Slot :
        slot[x] = "held" /\ slot[y] = "held" =>
            x = y \/ slot'[x] = slot[x] \/ slot'[y] = slot[y]
    /\ \A x, y \in Slot :
        slot'[x] = "waiting" /\ DependsOn(x, y) => slot'[y] # "failed"
    /\ verdict' \in VerdictOf(slot')

Next == Accept \/ (\E x \in Slot : Take(x)) \/ Settle

Spec == Init /\ [][Next]_vars
=============================================================================
