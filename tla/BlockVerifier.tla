---------------------------- MODULE BlockVerifier ----------------------------
(* What ConnectBlock may rely on when it hands its script checks to a      *)
(* CCheckQueueControl, without threads, counters or batches: the checks    *)
(* finish in any order and in any groups, and Wait() returns when all of   *)
(* them have, with the conjunction of their results.                       *)
CONSTANT Checks

VARIABLES
    phase,          \* of the control object: "closed", "open" or "joining"
    unfinished,     \* the checks added and not yet accounted for
    fBad,           \* one of the checks added for this block fails
    verdict         \* what the last Wait() returned

vars == <<phase, unfinished, fBad, verdict>>

Init ==
    /\ phase = "closed" /\ unfinished = {}
    /\ fBad = FALSE /\ verdict = TRUE

(* The constructor of CCheckQueueControl. *)
Open ==
    /\ phase = "closed"
    /\ phase' = "open"
    /\ UNCHANGED <<unfinished, fBad, verdict>>

Add(vChecks, fSomeBad) ==
    /\ phase = "open"
    /\ unfinished \cap vChecks = {}
    /\ unfinished' = unfinished \cup vChecks
    /\ fBad' = (fBad \/ fSomeBad)
    /\ UNCHANGED <<phase, verdict>>

Finish(vChecks) ==
    /\ phase # "closed"
    /\ vChecks \subseteq unfinished
    /\ unfinished' = unfinished \ vChecks
    /\ UNCHANGED <<phase, fBad, verdict>>

(* Wait() is called ... *)
Join ==
    /\ phase = "open"
    /\ phase' = "joining"
    /\ UNCHANGED <<unfinished, fBad, verdict>>

(* ... and returns. *)
Return ==
    /\ phase = "joining" /\ unfinished = {}
    /\ phase' = "closed"
    /\ verdict' = ~fBad
    /\ fBad' = FALSE
    /\ UNCHANGED unfinished

Next ==
    \/ Open \/ Join \/ Return
    \/ \E vChecks \in SUBSET Checks :
          Finish(vChecks) \/ \E fSomeBad \in BOOLEAN : Add(vChecks, fSomeBad)

Spec == Init /\ [][Next]_vars
=============================================================================
