---------------------------- MODULE SingleFlight ----------------------------
(***************************************************************************)
(* What the mailbox lease promises the rest of the system, with no clock,  *)
(* no lease row and no database: at any moment at most one execution holds *)
(* the mailbox, only the holder may publish a new history cursor, it never *)
(* publishes an older one, and publishing ends its hold.  A hold may lapse *)
(* at any time, and the cursor may be thrown away so that the next         *)
(* execution reads the whole mailbox again.                                *)
(***************************************************************************)
EXTENDS Naturals

CONSTANTS Runs, NULL

VARIABLES holder, cursor

vars == << holder, cursor >>

Init ==
    /\ holder = NULL
    /\ cursor = NULL

Claim ==
    /\ holder = NULL
    /\ holder' \in Runs
    /\ UNCHANGED cursor

Lapse ==
    /\ holder # NULL
    /\ holder' = NULL
    /\ UNCHANGED cursor

Publish ==
    /\ holder # NULL
    /\ holder' = NULL
    /\ cursor' \in Nat
    /\ cursor # NULL => cursor' >= cursor

ResetCursor ==
    /\ cursor' = NULL
    /\ UNCHANGED holder

Next == Claim \/ Lapse \/ Publish \/ ResetCursor

Spec == Init /\ [][Next]_vars

=============================================================================
