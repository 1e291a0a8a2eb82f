--------------------------- MODULE SessionTokens ---------------------------
(***************************************************************************)
(* One session and the family of its refresh tokens (auth/sessions.py and  *)
(* the repositories it writes through): rotation, detected reuse, sign-out *)
(* and displacement by the per-user ceiling, as concurrent transactions at *)
(* PostgreSQL's READ COMMITTED.  An UPDATE fixes its rows when it starts,  *)
(* locks them one by one, and tests its WHERE again on a row it waited     *)
(* for; what a transaction wrote is seen when it commits.  Other sessions  *)
(* of the user are here in what they do to this one: their requests may    *)
(* end it, also among several in one transaction.                          *)
(***************************************************************************)
EXTENDS Integers, FiniteSets

CONSTANTS
    Refreshes,    \* concurrent requests to /auth/refresh
    SignOuts,     \* and to sign the session out
    Remote,       \* the sign-outs another session of the user asks for
    MaxTokens,    \* bound: tokens minted
    MaxFailures,  \* bound: transactions or stores that fail
    None

Requests == Refreshes \cup SignOuts
Tokens == 1 .. MaxTokens

ASSUME SessionAssumption ==
    /\ Refreshes \cap SignOuts = {} /\ Remote \subseteq SignOuts /\ None \notin Requests
    /\ MaxTokens \in Nat \ {0} /\ MaxFailures \in Nat

VARIABLES
    session,   \* the row: "live", "revoked", or "displaced" by a newer sign-in
    minted,    \* tokens 1 .. minted have rows
    used,      \* those with used_at
    revoked,   \* those with revoked_at
    index,     \* whether the revocation index names the session
    at,        \* where each request is
    token,     \* the token a refresh presented
    rows,      \* the rows its UPDATE has still to lock
    locked,    \* the token rows its transaction has written
    guard,     \* the request whose transaction has written the session row
    undone,    \* whether an end the index had been told of was rolled back
               \* for the sake of another session; only properties read it
    failures

tables == <<session, minted, used, revoked>>
requests == <<at, token, rows, locked, guard>>
faults == <<undone, failures>>
vars == <<tables, index, requests, faults>>

Asking == {"idle", "marking", "marked", "minting", "detecting"}
Revoking == {"revoking", "ending", "tainted"}
Leaving == {"signing", "withdrawing", "withdrawn"}
InTransaction == {"marked", "minting", "revoking", "ending", "withdrawing", "withdrawn"}
Places == Asking \cup Revoking \cup Leaving

Init ==
    /\ session = "live" /\ minted = 1 /\ used = {} /\ revoked = {}
    /\ index = FALSE
    /\ at = [q \in Requests |-> "idle"]
    /\ token = [q \in Refreshes |-> 1]
    /\ rows = [q \in Requests |-> {}]
    /\ locked = [q \in Requests |-> {}]
    /\ guard = None
    /\ undone = FALSE
    /\ failures = 0

-----------------------------------------------------------------------------
(* Rows and locks *)

Goes(q, place) == at' = [at EXCEPT ![q] = place]
Held(t) == \E q \in Requests : t \in locked[q]
Usable == (1 .. minted) \ (used \cup revoked)

Locks(q, t) == locked' = [locked EXCEPT ![q] = @ \cup {t}]

\* The transaction of q is over.
Unlocks(q) ==
    /\ locked' = [locked EXCEPT ![q] = {}]
    /\ rows' = [rows EXCEPT ![q] = {}]
    /\ guard' = IF guard = q THEN None ELSE guard

\* UPDATE refresh_tokens SET revoked_at, of every row that has none yet.
Sweeps(q) == rows' = [rows EXCEPT ![q] = (1 .. minted) \ revoked]

\* It gets at one more of its rows, which another may have revoked meanwhile.
TakesRow(q) ==
    \E t \in rows[q] :
        /\ ~Held(t)
        /\ rows' = [rows EXCEPT ![q] = @ \ {t}]
        /\ IF t \in revoked THEN UNCHANGED locked ELSE Locks(q, t)

-----------------------------------------------------------------------------
(* A refresh *)

\* The row is read, used or not; a used one is reuse, a revoked one refused.
Find(q) ==
    /\ at[q] = "idle"
    /\ \E t \in 1 .. minted :
         /\ token' = [token EXCEPT ![q] = t]
         /\ \/ t \in revoked \ used /\ Goes(q, "idle")
            \/ t \in used /\ Goes(q, "detecting")
            \/ t \in Usable /\ minted < MaxTokens /\ Goes(q, "marking")
    /\ UNCHANGED <<tables, index, rows, locked, guard, faults>>

\* Mutant: check, then write.
MarkUnchecked(q) ==
    /\ at[q] = "marking" /\ ~Held(token[q])
    /\ Locks(q, token[q]) /\ Goes(q, "marked")
    /\ UNCHANGED <<tables, index, token, rows, guard, faults>>
\* UPDATE ... WHERE used_at IS NULL: the loser of a race is refused, and is not
\* taken for a thief.
Mark(q) ==
    /\ at[q] = "marking" /\ ~Held(token[q])
    /\ IF token[q] \in used THEN Goes(q, "idle") /\ UNCHANGED locked
                            ELSE Locks(q, token[q]) /\ Goes(q, "marked")
    /\ UNCHANGED <<tables, index, token, rows, guard, faults>>

\* The session is read after the token was consumed.  The endpoint returns the
\* refusal and does not raise it, so the token stays consumed.
Check(q) ==
    /\ at[q] = "marked"
    /\ IF session = "live"
       THEN Goes(q, "minting") /\ UNCHANGED <<used, locked, rows, guard>>
       ELSE Goes(q, "idle") /\ used' = used \cup locked[q] /\ Unlocks(q)
    /\ UNCHANGED <<session, minted, revoked, index, token, faults>>

\* The next token of the family is inserted, and both are committed.
Mint(q) ==
    /\ at[q] = "minting" /\ minted < MaxTokens
    /\ minted' = minted + 1
    /\ used' = used \cup locked[q]
    /\ Unlocks(q) /\ Goes(q, "idle")
    /\ UNCHANGED <<session, revoked, index, token, faults>>

-----------------------------------------------------------------------------
(* A detected reuse, in a transaction of its own *)

Detect(q) ==
    /\ at[q] = "detecting"
    /\ Sweeps(q) /\ Goes(q, "revoking")
    /\ UNCHANGED <<tables, index, token, locked, guard, faults>>

RevokeToken(q) ==
    /\ at[q] = "revoking" /\ TakesRow(q)
    /\ UNCHANGED <<tables, index, at, token, guard, faults>>

\* The tokens first, and then the session.
RevokeSession(q) ==
    /\ at[q] = "revoking" /\ rows[q] = {} /\ guard = None
    /\ guard' = IF session = "live" THEN q ELSE guard
    /\ Goes(q, "ending")
    /\ UNCHANGED <<tables, index, token, rows, locked, faults>>

\* Mutant: the tokens alone are written.
CommitTokens(q) ==
    /\ at[q] = "ending"
    /\ revoked' = revoked \cup locked[q]
    /\ Unlocks(q) /\ Goes(q, "tainted")
    /\ UNCHANGED <<session, minted, used, index, token, faults>>
CommitRevocation(q) ==
    /\ at[q] = "ending"
    /\ revoked' = revoked \cup locked[q]
    /\ session' = IF guard = q THEN "revoked" ELSE session
    /\ Unlocks(q) /\ Goes(q, "tainted")
    /\ UNCHANGED <<minted, used, index, token, faults>>

\* Mutant: only the rows are written.
IndexForgets(q) ==
    /\ at[q] = "tainted"
    /\ Goes(q, "idle")
    /\ UNCHANGED <<tables, index, token, rows, locked, guard, faults>>
\* Whatever became of the transaction, the index is written, and the request
\* refused.
IndexReuse(q) ==
    /\ at[q] = "tainted"
    /\ index' = TRUE
    /\ Goes(q, "idle")
    /\ UNCHANGED <<tables, token, rows, locked, guard, faults>>

-----------------------------------------------------------------------------
(* A sign-out *)

\* Who asks shows an access token the index does not refuse: this session's
\* own, or that of another session, of which this index says nothing.
Verify(q) ==
    /\ at[q] = "idle" /\ (q \in Remote \/ ~index) /\ Goes(q, "signing")
    /\ UNCHANGED <<tables, index, token, rows, locked, guard, faults>>

\* The session first, and then its tokens.  A session that is not live is left
\* as it is, and so is the index.
SignOut(q) ==
    /\ at[q] = "signing" /\ guard = None
    /\ IF session = "live"
       THEN guard' = q /\ Sweeps(q) /\ Goes(q, "withdrawing")
       ELSE Goes(q, "idle") /\ UNCHANGED <<guard, rows>>
    /\ UNCHANGED <<tables, index, token, locked, faults>>

WithdrawToken(q) ==
    /\ at[q] = "withdrawing" /\ TakesRow(q)
    /\ UNCHANGED <<tables, index, at, token, guard, faults>>

\* The index is written before the request's transaction commits, which may
\* have other sessions to end before that.
IndexSignOut(q) ==
    /\ at[q] = "withdrawing" /\ rows[q] = {}
    /\ index' = TRUE
    /\ Goes(q, "withdrawn")
    /\ UNCHANGED <<tables, token, rows, locked, guard, faults>>

CommitSignOut(q) ==
    /\ at[q] = "withdrawn"
    /\ session' = "revoked"
    /\ revoked' = revoked \cup locked[q]
    /\ Unlocks(q) /\ Goes(q, "idle")
    /\ UNCHANGED <<minted, used, index, token, faults>>

\* A newer sign-in is one session too many; only the rows of older sessions
\* are written.
Displace ==
    /\ session = "live" /\ guard = None
    /\ session' = "displaced"
    /\ UNCHANGED <<minted, used, revoked, index, requests, faults>>

-----------------------------------------------------------------------------
(* What goes wrong *)

\* A transaction is rolled back.  The detection swallows that and goes on to
\* the index; any other request fails.
Aborts(q) ==
    /\ Unlocks(q)
    /\ Goes(q, IF at[q] \in {"revoking", "ending"} THEN "tainted" ELSE "idle")

\* What a request waits for, once all that is left of its statement is held.
WaitsFor(q, p) ==
    /\ p # q
    /\ \/ /\ rows[q] # {} /\ \A t \in rows[q] : Held(t)
          /\ rows[q] \cap locked[p] # {}
       \/ at[q] = "revoking" /\ rows[q] = {} /\ guard = p

\* Two wait for each other: PostgreSQL rolls one of them back.
Deadlocked(q) ==
    /\ \E p \in Requests : WaitsFor(q, p) /\ WaitsFor(p, q)
    /\ Aborts(q)
    /\ UNCHANGED <<tables, index, token, faults>>

\* It happens over another session this transaction is to end too: what it did
\* here is rolled back with the rest, and the index says what it said.
DeadlockedElsewhere(q) ==
    /\ q \in Remote /\ at[q] \in {"signing", "withdrawn"}
    /\ undone' = (undone \/ at[q] = "withdrawn")
    /\ Aborts(q)
    /\ UNCHANGED <<tables, index, token, failures>>

Fails == failures < MaxFailures /\ failures' = failures + 1 /\ UNCHANGED undone

\* The connection is lost before the commit, or with it.
RollBack(q) ==
    /\ at[q] \in InTransaction
    /\ Aborts(q) /\ Fails
    /\ UNCHANGED <<tables, index, token>>

\* The index cannot be written; a sign-out would be rolled back by that.
IndexFails(q) ==
    /\ at[q] = "tainted" /\ Goes(q, "idle") /\ Fails
    /\ UNCHANGED <<tables, index, token, rows, locked, guard>>

\* The index is emptied.
LoseIndex ==
    /\ index /\ index' = FALSE /\ Fails
    /\ UNCHANGED <<tables, requests>>

RefreshGoesOn(q) ==
    \/ Find(q) \/ Mark(q) \/ Check(q) \/ Mint(q)
    \/ Detect(q) \/ RevokeToken(q) \/ RevokeSession(q) \/ CommitRevocation(q) \/ IndexReuse(q)
SignOutGoesOn(q) == Verify(q) \/ SignOut(q) \/ WithdrawToken(q) \/ IndexSignOut(q) \/ CommitSignOut(q)

Next ==
    \/ \E q \in Refreshes : RefreshGoesOn(q)
    \/ \E q \in SignOuts : SignOutGoesOn(q)
    \/ \E q \in Requests : Deadlocked(q) \/ DeadlockedElsewhere(q) \/ RollBack(q) \/ IndexFails(q)
    \/ Displace \/ LoseIndex

Spec == Init /\ [][Next]_vars

-----------------------------------------------------------------------------
(* Properties *)

\* Types, and no request keeps a row once its transaction is over.
TypeOK ==
    /\ session \in {"live", "revoked", "displaced"}
    /\ minted \in Tokens /\ used \subseteq 1 .. minted /\ revoked \subseteq 1 .. minted
    /\ index \in BOOLEAN
    /\ at \in [Requests -> Places]
    /\ token \in [Refreshes -> Tokens]
    /\ rows \in [Requests -> SUBSET Tokens]
    /\ locked \in [Requests -> SUBSET Tokens]
    /\ guard \in Requests \cup {None}
    /\ undone \in BOOLEAN /\ failures \in 0 .. MaxFailures
    /\ \A q \in Requests : at[q] \notin InTransaction => rows[q] = {} /\ locked[q] = {} /\ guard # q

\* However refreshes of one or of several tokens race with each other, with
\* detections and with sign-outs, the family never has two tokens that could be
\* exchanged: no replay forks the lineage (sessions.py:192-196, and
\* refresh_token.py:80 "two refreshes racing on the same token cannot both
\* succeed").
OneUsable == Cardinality(Usable) <= 1

\* A session a detection or a sign-out ended is named by the index, so that its
\* access token stops at its next request and not when it expires
\* (sessions.py:232-239), or the request that ended it is about to write there.
\* A store that failed excuses it.
RevokedIsIndexed ==
    session = "revoked" /\ failures = 0 => index \/ \E q \in Requests : at[q] = "tainted"

\* Once no request is at work on the family, what the index stopped cannot be
\* renewed: also when a detection lost its transaction to a deadlock within the
\* family, which it swallows (refresh_token.py:167), because it lost it to
\* another that ends the session.  Two things excuse it: a failure, and a
\* request that was ending several sessions at once (sessions.py:250-260) and
\* was rolled back over another of them, after it had put this one in the index.
IndexedIsEnded ==
    index /\ failures = 0 /\ ~undone /\ (\A q \in Requests : at[q] \notin Revoking \cup Leaving)
        => session # "live"
=============================================================================
