-------------------------- MODULE MCCanonicalState --------------------------
(* The threads of the runs of CanonicalState. *)
EXTENDS CanonicalState

(* Two messages of one thread, and one of another. *)
TwoThreads == << "thread_a", "thread_a", "thread_b" >>

=============================================================================
