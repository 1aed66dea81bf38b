---------------------------- MODULE MCMailboxSync ----------------------------
(* Model values and symmetry for the runs of MailboxSync. *)
EXTENDS MailboxSync, TLC

CONSTANTS r1, r2, r3

TwoRuns == {r1, r2}

ThreeRuns == {r1, r2, r3}

TwoRunsSymmetry == Permutations(TwoRuns)

ThreeRunsSymmetry == Permutations(ThreeRuns)

(* A problem that repair looks for and one that costs the consent; a lost    *)
(* lease and a regressed cursor need no help from Gmail.                     *)
CursorAndCredential == { "gmail_history_cursor_invalid", "gmail_mailbox_credential_unreadable" }

OnlyInvalidCursor == { "gmail_history_cursor_invalid" }

(* A problem that a completion clears, and one that costs the consent.       *)
RenewalProblems == { "gmail_watch_renewal_failed", "gmail_mailbox_credential_unreadable" }

NoProblems == {}

NoFaults == {}

StalledCommit == {"stalled_commit"}

(* A wake-up that is given up writes the row in the calm run. *)
HarmfulFaults == FaultKinds \ {"dispatch_exhausted"}

CrashOnly == {"crash"}

CrashAndExhaustion == {"crash", "dispatch_exhausted"}

=============================================================================
