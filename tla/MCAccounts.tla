----------------------------- MODULE MCAccounts -----------------------------
(* Accounts for TLC: requests, accounts, addresses and subjects are        *)
(* interchangeable.                                                        *)
EXTENDS Accounts, TLC

\* What a local deployment that does not link does with single sign-on, the other
\* one does too.
Deployed == {d \in Settings : d.linking \/ d.backend = "local"}

Symmetry ==
    Permutations(Requests) \cup Permutations(Accounts)
        \cup Permutations(Emails) \cup Permutations(Subjects)
=============================================================================
