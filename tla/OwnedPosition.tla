---------------------------- MODULE OwnedPosition ----------------------------
(***************************************************************************)
(* What an engine that trades with real money promises about one position, *)
(* whatever becomes of its calls to Kotak: it buys only what it does not   *)
(* track yet, and what it bought it tracks until the position is gone or   *)
(* handed to another engine.  FoLeg and RealLong are shown to implement it. *)
(***************************************************************************)
EXTENDS Integers

VARIABLES
    held,     \* what Kotak holds of the position (sold short: negative)
    tracked,  \* the engine has a row for it, or is in a call that will decide about one
    handed    \* another engine owns it

Init == held = 0 /\ tracked = FALSE /\ handed = FALSE

\* A call that may buy: refused, or executed, perhaps less than the engine takes it for.
Buy ==
    /\ ~tracked /\ tracked' = TRUE
    /\ held' >= held
    /\ handed' \in {handed, TRUE}

\* A stop fires, a target fills, or the engine sells.
Sell ==
    /\ held' < held
    /\ UNCHANGED <<tracked, handed>>

\* A sell is counted that did not execute, or only in part: what is left will be adopted.
Missell ==
    /\ tracked /\ held' <= held
    /\ handed' = TRUE
    /\ UNCHANGED tracked

\* The position is gone, or handed over.
Forget ==
    /\ tracked /\ tracked' = FALSE
    /\ handed' \in BOOLEAN
    /\ held <= 0 \/ handed'
    /\ UNCHANGED held

\* The engine never learns that it bought: the shares are left to the engine that adopts
\* what no table knows.
Lose ==
    /\ tracked' = FALSE /\ handed' = TRUE
    /\ held' >= held

Next == Buy \/ Sell \/ Missell \/ Forget \/ Lose
Spec == Init /\ [][Next]_<<held, tracked, handed>>
=============================================================================
