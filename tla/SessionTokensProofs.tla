------------------------- MODULE SessionTokensProofs -------------------------
(***************************************************************************)
(* SessionTokens, for any number of refreshes, sign-outs, tokens and       *)
(* failures.  The lineage is a chain: every token but the newest was used, *)
(* because the one who mints holds the row of an unused token, and that    *)
(* can only be the newest.                                                 *)
(***************************************************************************)
EXTENDS SessionTokens, FiniteSetTheorems, TLAPS

-----------------------------------------------------------------------------
(* The inductive invariant *)

Types ==
    /\ session \in {"live", "revoked", "displaced"}
    /\ minted \in Tokens /\ used \subseteq 1 .. minted /\ revoked \subseteq 1 .. minted
    /\ index \in BOOLEAN
    /\ at \in [Requests -> Places]
    /\ token \in [Refreshes -> 1 .. minted]
    /\ rows \in [Requests -> SUBSET (1 .. minted)]
    /\ locked \in [Requests -> SUBSET (1 .. minted)]
    /\ guard \in Requests \cup {None}
    /\ undone \in BOOLEAN /\ failures \in 0 .. MaxFailures

\* No transaction, no lock; no sweep, no row to wait for.
Clean ==
    \A q \in Requests :
        /\ at[q] \notin InTransaction => locked[q] = {} /\ guard # q
        /\ at[q] \notin {"revoking", "withdrawing"} => rows[q] = {}

\* A row is locked by one request.
Exclusive == \A p, q \in Requests : p # q => locked[p] \cap locked[q] = {}

\* Who is about to mint holds the row of the token it presented, still unused.
Consuming == \A q \in Refreshes :
                at[q] \in {"marked", "minting"} => locked[q] = {token[q]} /\ token[q] \notin used

\* Every token but the newest was used.
Chain == \A t \in 1 .. minted : t < minted => t \in used

\* A detection at its commit has written the session, or found it ended.
Ending == \A q \in Requests : at[q] = "ending" /\ session = "live" => guard = q

\* A sign-out at its commit has written the index.
Withdrawn == \A q \in Requests : at[q] = "withdrawn" /\ failures = 0 => index

\* While the session lives, whoever made the index name it, or is about to,
\* left someone behind who will end it, or was rolled back over another session.
Ender == {q \in Requests : at[q] \in {"revoking", "ending", "withdrawing", "withdrawn"}}
Tainted == {q \in Requests : at[q] = "tainted"}
Pursued == failures = 0 /\ ~undone /\ session = "live" /\ (index \/ Tainted # {}) => Ender # {}

IInv == /\ Types /\ Clean /\ Exclusive /\ Consuming /\ Chain
        /\ Ending /\ Withdrawn /\ RevokedIsIndexed /\ Pursued

\* What ends a transaction keeps the types of what it held.
LEMMA UnlocksTypes ==
    ASSUME Types, NEW q \in Requests, Unlocks(q)
    PROVE  /\ rows' \in [Requests -> SUBSET (1 .. minted)]
           /\ locked' \in [Requests -> SUBSET (1 .. minted)]
           /\ guard' \in Requests \cup {None}
           /\ locked[q] \subseteq 1 .. minted
  BY SMT DEF Types, Unlocks

\* Every step keeps the types.
LEMMA TypesKept ==
    ASSUME IInv, [Next]_vars
    PROVE  Types'
<1> USE SessionAssumption DEF IInv, Types, Requests, Places, Asking, Revoking, Leaving, Tokens, faults
<1>1. ASSUME NEW q \in Refreshes, Find(q) PROVE Types'
  BY <1>1, SMT DEF Find, Goes, Usable, tables
<1>2. ASSUME NEW q \in Refreshes, Mark(q) PROVE Types'
  BY <1>2, SMT DEF Mark, Goes, Held, Locks, tables
<1>3. ASSUME NEW q \in Refreshes, Check(q) PROVE Types'
  <2>1. UNCHANGED <<session, minted, revoked, index, token, faults>>
    BY <1>3 DEF Check
  <2>4. at' \in [Requests -> Places]
    BY <1>3, SMT DEF Check, Goes
  <2>2. CASE session = "live"
    <3>1. UNCHANGED <<used, locked, rows, guard>>
      BY <1>3, <2>2 DEF Check
    <3> QED
      BY <2>1, <2>4, <3>1
  <2>3. CASE session # "live"
    <3>1. Unlocks(q) /\ used' = used \cup locked[q]
      BY <1>3, <2>3 DEF Check
    <3> QED
      BY <2>1, <2>4, <3>1, UnlocksTypes
  <2> QED
    BY <2>2, <2>3
<1>4. ASSUME NEW q \in Refreshes, Mint(q) PROVE Types'
  <2>1. /\ Unlocks(q) /\ used' = used \cup locked[q] /\ minted' = minted + 1 /\ minted < MaxTokens
        /\ UNCHANGED <<session, revoked, index, token, faults>>
    BY <1>4 DEF Mint
  <2>2. at' \in [Requests -> Places]
    BY <1>4, SMT DEF Mint, Goes
  <2>3. minted' \in Tokens /\ 1 .. minted \subseteq 1 .. minted'
    BY <2>1, SMT
  <2> HIDE DEF Tokens
  <2>4. used' \subseteq 1 .. minted' /\ revoked' \subseteq 1 .. minted' /\ token' \in [Refreshes -> 1 .. minted']
    BY <2>1, <2>3, UnlocksTypes
  <2>5. rows' \in [Requests -> SUBSET (1 .. minted')] /\ locked' \in [Requests -> SUBSET (1 .. minted')]
    BY <2>1, <2>3, UnlocksTypes
  <2> QED
    BY <2>1, <2>2, <2>3, <2>4, <2>5, UnlocksTypes
<1>5. ASSUME NEW q \in Refreshes, Detect(q) PROVE Types'
  BY <1>5, SMT DEF Detect, Goes, Sweeps, tables
<1>6. ASSUME NEW q \in Refreshes, RevokeToken(q) PROVE Types'
  BY <1>6, SMT DEF RevokeToken, TakesRow, Held, Locks, tables
<1>7. ASSUME NEW q \in Refreshes, RevokeSession(q) PROVE Types'
  BY <1>7, SMT DEF RevokeSession, Goes, tables
<1>8. ASSUME NEW q \in Refreshes, CommitRevocation(q) PROVE Types'
  <2>1. /\ Unlocks(q) /\ revoked' = revoked \cup locked[q] /\ session' \in {session, "revoked"}
        /\ UNCHANGED <<minted, used, index, token, faults>>
    BY <1>8 DEF CommitRevocation
  <2>2. at' \in [Requests -> Places]
    BY <1>8, SMT DEF CommitRevocation, Goes
  <2> QED
    BY <2>1, <2>2, UnlocksTypes
<1>9. ASSUME NEW q \in Refreshes, IndexReuse(q) PROVE Types'
  BY <1>9, SMT DEF IndexReuse, Goes, tables
<1>10. ASSUME NEW q \in SignOuts, Verify(q) PROVE Types'
  BY <1>10, SMT DEF Verify, Goes, tables
<1>11. ASSUME NEW q \in SignOuts, SignOut(q) PROVE Types'
  BY <1>11, SMT DEF SignOut, Goes, Sweeps, tables
<1>12. ASSUME NEW q \in SignOuts, WithdrawToken(q) PROVE Types'
  BY <1>12, SMT DEF WithdrawToken, TakesRow, Held, Locks, tables
<1>13. ASSUME NEW q \in SignOuts, IndexSignOut(q) PROVE Types'
  BY <1>13, SMT DEF IndexSignOut, Goes, tables
<1>14. ASSUME NEW q \in SignOuts, CommitSignOut(q) PROVE Types'
  <2>1. /\ Unlocks(q) /\ revoked' = revoked \cup locked[q] /\ session' \in {session, "revoked"}
        /\ UNCHANGED <<minted, used, index, token, faults>>
    BY <1>14 DEF CommitSignOut
  <2>2. at' \in [Requests -> Places]
    BY <1>14, SMT DEF CommitSignOut, Goes
  <2> QED
    BY <2>1, <2>2, UnlocksTypes
<1>15. ASSUME NEW q \in Requests, Deadlocked(q) PROVE Types'
  BY <1>15, SMT DEF Deadlocked, Aborts, Goes, Unlocks, WaitsFor, Held, tables
<1>16. ASSUME NEW q \in Requests, RollBack(q) PROVE Types'
  BY <1>16, SMT DEF RollBack, Aborts, Goes, Unlocks, Fails, tables, InTransaction
<1>17. ASSUME NEW q \in Requests, IndexFails(q) PROVE Types'
  BY <1>17, SMT DEF IndexFails, Goes, Fails, tables
<1>18. CASE Displace
  BY <1>18, SMT DEF Displace, requests
<1>19. CASE LoseIndex
  <2>1. index' = FALSE /\ undone' = undone /\ failures' \in 0 .. MaxFailures /\ UNCHANGED <<tables, requests>>
    BY <1>19, SMT DEF LoseIndex, Fails
  <2> QED
    BY <2>1 DEF tables, requests
<1>20. CASE UNCHANGED vars
  BY <1>20 DEF vars, tables, requests
<1>21. ASSUME NEW q \in Requests, DeadlockedElsewhere(q) PROVE Types'
  BY <1>21, SMT DEF DeadlockedElsewhere, Aborts, Goes, Unlocks, tables
<1> QED
  BY <1>1, <1>2, <1>3, <1>4, <1>5, <1>6, <1>7, <1>8, <1>9, <1>10, <1>11, <1>12, <1>13, <1>14,
    <1>15, <1>16, <1>17, <1>18, <1>19, <1>20, <1>21 DEF Next, RefreshGoesOn, SignOutGoesOn, Requests

\* A request that has no transaction open holds nothing.
LEMMA CleanKept ==
    ASSUME IInv, [Next]_vars
    PROVE  Clean'
<1> USE SessionAssumption DEF IInv, Types, Clean, InTransaction, faults
<1>1. ASSUME NEW q \in Refreshes, Find(q) PROVE Clean'
  BY <1>1, SMT DEF Find, Goes, Usable, tables, Requests
<1>2. ASSUME NEW q \in Refreshes, Mark(q) PROVE Clean'
  BY <1>2, SMT DEF Mark, Goes, Held, Locks, tables, Requests
<1>3. ASSUME NEW q \in Refreshes, Check(q) PROVE Clean'
  BY <1>3, SMT DEF Check, Goes, Unlocks, Requests
<1>4. ASSUME NEW q \in Refreshes, Mint(q) PROVE Clean'
  BY <1>4, SMT DEF Mint, Goes, Unlocks, Requests
<1>5. ASSUME NEW q \in Refreshes, Detect(q) PROVE Clean'
  BY <1>5, SMT DEF Detect, Goes, Sweeps, tables, Requests
<1>6. ASSUME NEW q \in Refreshes, RevokeToken(q) PROVE Clean'
  BY <1>6, SMT DEF RevokeToken, TakesRow, Held, Locks, tables, Requests
<1>7. ASSUME NEW q \in Refreshes, RevokeSession(q) PROVE Clean'
  BY <1>7, SMT DEF RevokeSession, Goes, tables, Requests
<1>8. ASSUME NEW q \in Refreshes, CommitRevocation(q) PROVE Clean'
  BY <1>8, SMT DEF CommitRevocation, Goes, Unlocks, Requests
<1>9. ASSUME NEW q \in Refreshes, IndexReuse(q) PROVE Clean'
  BY <1>9, SMT DEF IndexReuse, Goes, tables, Requests
<1>10. ASSUME NEW q \in SignOuts, Verify(q) PROVE Clean'
  BY <1>10, SMT DEF Verify, Goes, tables, Requests
<1>11. ASSUME NEW q \in SignOuts, SignOut(q) PROVE Clean'
  BY <1>11, SMT DEF SignOut, Goes, Sweeps, tables, Requests
<1>12. ASSUME NEW q \in SignOuts, WithdrawToken(q) PROVE Clean'
  BY <1>12, SMT DEF WithdrawToken, TakesRow, Held, Locks, tables, Requests
<1>13. ASSUME NEW q \in SignOuts, IndexSignOut(q) PROVE Clean'
  BY <1>13, SMT DEF IndexSignOut, Goes, tables, Requests
<1>14. ASSUME NEW q \in SignOuts, CommitSignOut(q) PROVE Clean'
  BY <1>14, SMT DEF CommitSignOut, Goes, Unlocks, Requests
<1>15. ASSUME NEW q \in Requests, Deadlocked(q) PROVE Clean'
  BY <1>15, SMT DEF Deadlocked, Aborts, Goes, Unlocks, WaitsFor, Held, tables
<1>16. ASSUME NEW q \in Requests, RollBack(q) PROVE Clean'
  BY <1>16, SMT DEF RollBack, Aborts, Goes, Unlocks, Fails, tables, InTransaction
<1>17. ASSUME NEW q \in Requests, IndexFails(q) PROVE Clean'
  BY <1>17, SMT DEF IndexFails, Goes, Fails, tables
<1>18. CASE Displace \/ LoseIndex \/ UNCHANGED vars
  BY <1>18 DEF Displace, requests, LoseIndex, tables, vars
<1>19. ASSUME NEW q \in Requests, DeadlockedElsewhere(q) PROVE Clean'
  BY <1>19, SMT DEF DeadlockedElsewhere, Aborts, Goes, Unlocks, tables
<1> QED
  BY <1>1, <1>2, <1>3, <1>4, <1>5, <1>6, <1>7, <1>8, <1>9, <1>10, <1>11, <1>12, <1>13, <1>14,
    <1>15, <1>16, <1>17, <1>18, <1>19 DEF Next, RefreshGoesOn, SignOutGoesOn, Requests

\* A row is locked only when nobody holds it.
LEMMA ExclusiveKept ==
    ASSUME IInv, [Next]_vars
    PROVE  Exclusive'
<1> USE SessionAssumption DEF IInv, Types, Clean, Exclusive, faults
<1>1. ASSUME NEW q \in Refreshes, Mark(q) PROVE Exclusive'
  BY <1>1, SMT DEF Mark, Goes, Held, Locks, tables, Requests
<1>2. ASSUME NEW q \in Refreshes, Check(q) PROVE Exclusive'
  BY <1>2, SMT DEF Check, Goes, Unlocks, Requests
<1>3. ASSUME NEW q \in Refreshes, Mint(q) PROVE Exclusive'
  BY <1>3, SMT DEF Mint, Goes, Unlocks, Requests
<1>4. ASSUME NEW q \in Refreshes, RevokeToken(q) PROVE Exclusive'
  BY <1>4, SMT DEF RevokeToken, TakesRow, Held, Locks, tables, Requests
<1>5. ASSUME NEW q \in Refreshes, CommitRevocation(q) PROVE Exclusive'
  BY <1>5, SMT DEF CommitRevocation, Goes, Unlocks, Requests
<1>6. ASSUME NEW q \in SignOuts, WithdrawToken(q) PROVE Exclusive'
  BY <1>6, SMT DEF WithdrawToken, TakesRow, Held, Locks, tables, Requests
<1>7. ASSUME NEW q \in SignOuts, CommitSignOut(q) PROVE Exclusive'
  BY <1>7, SMT DEF CommitSignOut, Goes, Unlocks, Requests
<1>8. ASSUME NEW q \in Requests, Deadlocked(q) PROVE Exclusive'
  BY <1>8, SMT DEF Deadlocked, Aborts, Goes, Unlocks, WaitsFor, Held, tables
<1>9. ASSUME NEW q \in Requests, RollBack(q) PROVE Exclusive'
  BY <1>9, SMT DEF RollBack, Aborts, Goes, Unlocks, Fails, tables, InTransaction
<1>10. ASSUME NEW q \in Requests,
            Find(q) \/ Detect(q) \/ RevokeSession(q) \/ IndexReuse(q) \/ Verify(q) \/ SignOut(q)
              \/ IndexSignOut(q) \/ IndexFails(q)
      PROVE Exclusive'
  BY <1>10 DEF Find, tables, Detect, RevokeSession, IndexReuse, Verify, SignOut, IndexSignOut,
    IndexFails
<1>11. CASE Displace \/ LoseIndex \/ UNCHANGED vars
  BY <1>11 DEF Displace, requests, LoseIndex, tables, vars
<1>12. ASSUME NEW q \in Requests, DeadlockedElsewhere(q) PROVE Exclusive'
  BY <1>12, SMT DEF DeadlockedElsewhere, Aborts, Goes, Unlocks, tables
<1> QED
  BY <1>1, <1>2, <1>3, <1>4, <1>5, <1>6, <1>7, <1>8, <1>9, <1>10, <1>11, <1>12 DEF Next, RefreshGoesOn,
    SignOutGoesOn, Requests

\* The row a request holds is not used by another: it would have to hold it too.
LEMMA ConsumingKept ==
    ASSUME IInv, [Next]_vars
    PROVE  Consuming'
<1> USE SessionAssumption DEF IInv, Types, Clean, Exclusive, Consuming, InTransaction, faults
<1>1. ASSUME NEW q \in Refreshes, Find(q) PROVE Consuming'
  BY <1>1, SMT DEF Find, Goes, Usable, tables, Requests
<1>2. ASSUME NEW q \in Refreshes, Mark(q) PROVE Consuming'
  BY <1>2, SMT DEF Mark, Goes, Held, Locks, tables, Requests
<1>3. ASSUME NEW q \in Refreshes, Check(q) PROVE Consuming'
  BY <1>3, SMT DEF Check, Goes, Unlocks, Requests
<1>4. ASSUME NEW q \in Refreshes, Mint(q) PROVE Consuming'
  BY <1>4, SMT DEF Mint, Goes, Unlocks, Requests
<1>5. ASSUME NEW q \in Refreshes, Detect(q) PROVE Consuming'
  BY <1>5, SMT DEF Detect, Goes, Sweeps, tables, Requests
<1>6. ASSUME NEW q \in Refreshes, RevokeToken(q) PROVE Consuming'
  BY <1>6, SMT DEF RevokeToken, TakesRow, Held, Locks, tables, Requests
<1>7. ASSUME NEW q \in Refreshes, RevokeSession(q) PROVE Consuming'
  BY <1>7, SMT DEF RevokeSession, Goes, tables, Requests
<1>8. ASSUME NEW q \in Refreshes, CommitRevocation(q) PROVE Consuming'
  BY <1>8, SMT DEF CommitRevocation, Goes, Unlocks, Requests
<1>9. ASSUME NEW q \in Refreshes, IndexReuse(q) PROVE Consuming'
  BY <1>9, SMT DEF IndexReuse, Goes, tables, Requests
<1>10. ASSUME NEW q \in SignOuts, Verify(q) PROVE Consuming'
  BY <1>10, SMT DEF Verify, Goes, tables, Requests
<1>11. ASSUME NEW q \in SignOuts, SignOut(q) PROVE Consuming'
  BY <1>11, SMT DEF SignOut, Goes, Sweeps, tables, Requests
<1>12. ASSUME NEW q \in SignOuts, WithdrawToken(q) PROVE Consuming'
  BY <1>12, SMT DEF WithdrawToken, TakesRow, Held, Locks, tables, Requests
<1>13. ASSUME NEW q \in SignOuts, IndexSignOut(q) PROVE Consuming'
  BY <1>13, SMT DEF IndexSignOut, Goes, tables, Requests
<1>14. ASSUME NEW q \in SignOuts, CommitSignOut(q) PROVE Consuming'
  BY <1>14, SMT DEF CommitSignOut, Goes, Unlocks, Requests
<1>15. ASSUME NEW q \in Requests, Deadlocked(q) PROVE Consuming'
  BY <1>15, SMT DEF Deadlocked, Aborts, Goes, Unlocks, WaitsFor, Held, tables
<1>16. ASSUME NEW q \in Requests, RollBack(q) PROVE Consuming'
  BY <1>16, SMT DEF RollBack, Aborts, Goes, Unlocks, Fails, tables, InTransaction
<1>17. ASSUME NEW q \in Requests, IndexFails(q) PROVE Consuming'
  BY <1>17, SMT DEF IndexFails, Goes, Fails, tables
<1>18. CASE Displace \/ LoseIndex \/ UNCHANGED vars
  BY <1>18 DEF Displace, requests, LoseIndex, tables, vars
<1>19. ASSUME NEW q \in Requests, DeadlockedElsewhere(q) PROVE Consuming'
  BY <1>19, SMT DEF DeadlockedElsewhere, Aborts, Goes, Unlocks, tables
<1> QED
  BY <1>1, <1>2, <1>3, <1>4, <1>5, <1>6, <1>7, <1>8, <1>9, <1>10, <1>11, <1>12, <1>13, <1>14,
    <1>15, <1>16, <1>17, <1>18, <1>19 DEF Next, RefreshGoesOn, SignOutGoesOn, Requests

\* Who mints used the newest token: the only one that was not.
LEMMA ChainKept ==
    ASSUME IInv, [Next]_vars
    PROVE  Chain'
<1> USE SessionAssumption DEF IInv, Types, Consuming, Chain, Tokens, faults
<1>1. ASSUME NEW q \in Refreshes, Check(q) PROVE Chain'
  BY <1>1, SMT DEF Check, Goes, Unlocks, Requests
<1>2. ASSUME NEW q \in Refreshes, Mint(q) PROVE Chain'
  BY <1>2, SMT DEF Mint, Goes, Unlocks, Requests
<1>3. ASSUME NEW q \in Requests,
            Find(q) \/ Mark(q) \/ Detect(q) \/ RevokeToken(q) \/ RevokeSession(q) \/
              CommitRevocation(q) \/ IndexReuse(q) \/ Verify(q) \/ SignOut(q) \/
              WithdrawToken(q) \/ IndexSignOut(q) \/ CommitSignOut(q) \/ Deadlocked(q) \/
              DeadlockedElsewhere(q) \/ RollBack(q) \/ IndexFails(q)
      PROVE Chain'
  BY <1>3 DEF Find, tables, Mark, Detect, RevokeToken, RevokeSession, CommitRevocation,
    IndexReuse, Verify, SignOut, WithdrawToken, IndexSignOut, CommitSignOut, Deadlocked,
    DeadlockedElsewhere, RollBack, IndexFails
<1>4. CASE Displace \/ LoseIndex \/ UNCHANGED vars
  BY <1>4 DEF Displace, requests, LoseIndex, tables, vars
<1> QED
  BY <1>1, <1>2, <1>3, <1>4 DEF Next, RefreshGoesOn, SignOutGoesOn, Requests

\* A session does not come back to life.
LEMMA EndingKept ==
    ASSUME IInv, [Next]_vars
    PROVE  Ending'
<1> USE SessionAssumption DEF IInv, Types, Clean, Ending, faults
<1>1. ASSUME NEW q \in Refreshes, Find(q) PROVE Ending'
  BY <1>1, SMT DEF Find, Goes, Usable, tables, Requests
<1>2. ASSUME NEW q \in Refreshes, Mark(q) PROVE Ending'
  BY <1>2, SMT DEF Mark, Goes, Held, Locks, tables, Requests
<1>3. ASSUME NEW q \in Refreshes, Check(q) PROVE Ending'
  BY <1>3, SMT DEF Check, Goes, Unlocks, Requests
<1>4. ASSUME NEW q \in Refreshes, Mint(q) PROVE Ending'
  BY <1>4, SMT DEF Mint, Goes, Unlocks, Requests
<1>5. ASSUME NEW q \in Refreshes, Detect(q) PROVE Ending'
  BY <1>5, SMT DEF Detect, Goes, Sweeps, tables, Requests
<1>6. ASSUME NEW q \in Refreshes, RevokeSession(q) PROVE Ending'
  BY <1>6, SMT DEF RevokeSession, Goes, tables, Requests
<1>7. ASSUME NEW q \in Refreshes, CommitRevocation(q) PROVE Ending'
  BY <1>7, SMT DEF CommitRevocation, Goes, Unlocks, Requests
<1>8. ASSUME NEW q \in Refreshes, IndexReuse(q) PROVE Ending'
  BY <1>8, SMT DEF IndexReuse, Goes, tables, Requests
<1>9. ASSUME NEW q \in SignOuts, Verify(q) PROVE Ending'
  BY <1>9, SMT DEF Verify, Goes, tables, Requests
<1>10. ASSUME NEW q \in SignOuts, SignOut(q) PROVE Ending'
  BY <1>10, SMT DEF SignOut, Goes, Sweeps, tables, Requests
<1>11. ASSUME NEW q \in SignOuts, IndexSignOut(q) PROVE Ending'
  BY <1>11, SMT DEF IndexSignOut, Goes, tables, Requests
<1>12. ASSUME NEW q \in SignOuts, CommitSignOut(q) PROVE Ending'
  BY <1>12, SMT DEF CommitSignOut, Goes, Unlocks, Requests
<1>13. ASSUME NEW q \in Requests, Deadlocked(q) PROVE Ending'
  BY <1>13, SMT DEF Deadlocked, Aborts, Goes, Unlocks, WaitsFor, Held, tables
<1>14. ASSUME NEW q \in Requests, RollBack(q) PROVE Ending'
  BY <1>14, SMT DEF RollBack, Aborts, Goes, Unlocks, Fails, tables, InTransaction
<1>15. ASSUME NEW q \in Requests, IndexFails(q) PROVE Ending'
  BY <1>15, SMT DEF IndexFails, Goes, Fails, tables
<1>16. CASE Displace
  BY <1>16, SMT DEF Displace, requests
<1>17. ASSUME NEW q \in Requests,
            RevokeToken(q) \/ WithdrawToken(q)
      PROVE Ending'
  BY <1>17 DEF RevokeToken, tables, WithdrawToken
<1>18. CASE LoseIndex \/ UNCHANGED vars
  BY <1>18 DEF LoseIndex, tables, requests, vars
<1>19. ASSUME NEW q \in Requests, DeadlockedElsewhere(q) PROVE Ending'
  BY <1>19, SMT DEF DeadlockedElsewhere, Aborts, Goes, Unlocks, tables
<1> QED
  BY <1>1, <1>2, <1>3, <1>4, <1>5, <1>6, <1>7, <1>8, <1>9, <1>10, <1>11, <1>12, <1>13, <1>14,
    <1>15, <1>16, <1>17, <1>18, <1>19 DEF Next, RefreshGoesOn, SignOutGoesOn, Requests

\* The index is written before the transaction commits.
LEMMA WithdrawnKept ==
    ASSUME IInv, [Next]_vars
    PROVE  Withdrawn'
<1> USE SessionAssumption DEF IInv, Types, Withdrawn, faults
<1>1. ASSUME NEW q \in Refreshes, Find(q) PROVE Withdrawn'
  BY <1>1, SMT DEF Find, Goes, Usable, tables, Requests
<1>2. ASSUME NEW q \in Refreshes, Mark(q) PROVE Withdrawn'
  BY <1>2, SMT DEF Mark, Goes, Held, Locks, tables, Requests
<1>3. ASSUME NEW q \in Refreshes, Check(q) PROVE Withdrawn'
  BY <1>3, SMT DEF Check, Goes, Unlocks, Requests
<1>4. ASSUME NEW q \in Refreshes, Mint(q) PROVE Withdrawn'
  BY <1>4, SMT DEF Mint, Goes, Unlocks, Requests
<1>5. ASSUME NEW q \in Refreshes, Detect(q) PROVE Withdrawn'
  BY <1>5, SMT DEF Detect, Goes, Sweeps, tables, Requests
<1>6. ASSUME NEW q \in Refreshes, RevokeSession(q) PROVE Withdrawn'
  BY <1>6, SMT DEF RevokeSession, Goes, tables, Requests
<1>7. ASSUME NEW q \in Refreshes, CommitRevocation(q) PROVE Withdrawn'
  BY <1>7, SMT DEF CommitRevocation, Goes, Unlocks, Requests
<1>8. ASSUME NEW q \in Refreshes, IndexReuse(q) PROVE Withdrawn'
  BY <1>8, SMT DEF IndexReuse, Goes, tables, Requests
<1>9. ASSUME NEW q \in SignOuts, Verify(q) PROVE Withdrawn'
  BY <1>9, SMT DEF Verify, Goes, tables, Requests
<1>10. ASSUME NEW q \in SignOuts, SignOut(q) PROVE Withdrawn'
  BY <1>10, SMT DEF SignOut, Goes, Sweeps, tables, Requests
<1>11. ASSUME NEW q \in SignOuts, IndexSignOut(q) PROVE Withdrawn'
  BY <1>11, SMT DEF IndexSignOut, Goes, tables, Requests
<1>12. ASSUME NEW q \in SignOuts, CommitSignOut(q) PROVE Withdrawn'
  BY <1>12, SMT DEF CommitSignOut, Goes, Unlocks, Requests
<1>13. ASSUME NEW q \in Requests, Deadlocked(q) PROVE Withdrawn'
  BY <1>13, SMT DEF Deadlocked, Aborts, Goes, Unlocks, WaitsFor, Held, tables
<1>14. ASSUME NEW q \in Requests, RollBack(q) PROVE Withdrawn'
  BY <1>14, SMT DEF RollBack, Aborts, Goes, Unlocks, Fails, tables, InTransaction
<1>15. ASSUME NEW q \in Requests, IndexFails(q) PROVE Withdrawn'
  BY <1>15, SMT DEF IndexFails, Goes, Fails, tables
<1>16. CASE LoseIndex
  BY <1>16, SMT DEF LoseIndex, Fails, tables, requests
<1>17. ASSUME NEW q \in Requests,
            RevokeToken(q) \/ WithdrawToken(q)
      PROVE Withdrawn'
  BY <1>17 DEF RevokeToken, tables, WithdrawToken
<1>18. CASE Displace \/ UNCHANGED vars
  BY <1>18 DEF Displace, requests, vars, tables
<1>19. ASSUME NEW q \in Requests, DeadlockedElsewhere(q) PROVE Withdrawn'
  BY <1>19, SMT DEF DeadlockedElsewhere, Aborts, Goes, Unlocks, tables
<1> QED
  BY <1>1, <1>2, <1>3, <1>4, <1>5, <1>6, <1>7, <1>8, <1>9, <1>10, <1>11, <1>12, <1>13, <1>14,
    <1>15, <1>16, <1>17, <1>18, <1>19 DEF Next, RefreshGoesOn, SignOutGoesOn, Requests

\* Whoever commits the end of the session wrote the index or is about to.
LEMMA RevokedIsIndexedKept ==
    ASSUME IInv, [Next]_vars
    PROVE  RevokedIsIndexed'
<1> USE SessionAssumption DEF IInv, Types, Clean, Withdrawn, RevokedIsIndexed, InTransaction, faults
<1>1. ASSUME NEW q \in Refreshes, Find(q) PROVE RevokedIsIndexed'
  BY <1>1, SMT DEF Find, Goes, Usable, tables, Requests
<1>2. ASSUME NEW q \in Refreshes, Mark(q) PROVE RevokedIsIndexed'
  BY <1>2, SMT DEF Mark, Goes, Held, Locks, tables, Requests
<1>3. ASSUME NEW q \in Refreshes, Check(q) PROVE RevokedIsIndexed'
  BY <1>3, SMT DEF Check, Goes, Unlocks, Requests
<1>4. ASSUME NEW q \in Refreshes, Mint(q) PROVE RevokedIsIndexed'
  BY <1>4, SMT DEF Mint, Goes, Unlocks, Requests
<1>5. ASSUME NEW q \in Refreshes, Detect(q) PROVE RevokedIsIndexed'
  BY <1>5, SMT DEF Detect, Goes, Sweeps, tables, Requests
<1>6. ASSUME NEW q \in Refreshes, RevokeSession(q) PROVE RevokedIsIndexed'
  BY <1>6, SMT DEF RevokeSession, Goes, tables, Requests
<1>7. ASSUME NEW q \in Refreshes, CommitRevocation(q) PROVE RevokedIsIndexed'
  BY <1>7, SMT DEF CommitRevocation, Goes, Unlocks, Requests
<1>8. ASSUME NEW q \in Refreshes, IndexReuse(q) PROVE RevokedIsIndexed'
  BY <1>8, SMT DEF IndexReuse, Goes, tables, Requests
<1>9. ASSUME NEW q \in SignOuts, Verify(q) PROVE RevokedIsIndexed'
  BY <1>9, SMT DEF Verify, Goes, tables, Requests
<1>10. ASSUME NEW q \in SignOuts, SignOut(q) PROVE RevokedIsIndexed'
  BY <1>10, SMT DEF SignOut, Goes, Sweeps, tables, Requests
<1>11. ASSUME NEW q \in SignOuts, IndexSignOut(q) PROVE RevokedIsIndexed'
  BY <1>11, SMT DEF IndexSignOut, Goes, tables, Requests
<1>12. ASSUME NEW q \in SignOuts, CommitSignOut(q) PROVE RevokedIsIndexed'
  BY <1>12, SMT DEF CommitSignOut, Goes, Unlocks, Requests
<1>13. ASSUME NEW q \in Requests, Deadlocked(q) PROVE RevokedIsIndexed'
  BY <1>13, SMT DEF Deadlocked, Aborts, Goes, Unlocks, WaitsFor, Held, tables
<1>14. ASSUME NEW q \in Requests, RollBack(q) PROVE RevokedIsIndexed'
  BY <1>14, SMT DEF RollBack, Aborts, Goes, Unlocks, Fails, tables, InTransaction
<1>15. ASSUME NEW q \in Requests, IndexFails(q) PROVE RevokedIsIndexed'
  BY <1>15, SMT DEF IndexFails, Goes, Fails, tables
<1>16. CASE Displace
  BY <1>16, SMT DEF Displace, requests
<1>17. CASE LoseIndex
  BY <1>17, SMT DEF LoseIndex, Fails, tables, requests
<1>18. ASSUME NEW q \in Requests,
            RevokeToken(q) \/ WithdrawToken(q)
      PROVE RevokedIsIndexed'
  BY <1>18 DEF RevokeToken, tables, WithdrawToken
<1>19. CASE UNCHANGED vars
  BY <1>19 DEF vars, tables, requests
<1>20. ASSUME NEW q \in Requests, DeadlockedElsewhere(q) PROVE RevokedIsIndexed'
  BY <1>20, SMT DEF DeadlockedElsewhere, Aborts, Goes, Unlocks, tables
<1> QED
  BY <1>1, <1>2, <1>3, <1>4, <1>5, <1>6, <1>7, <1>8, <1>9, <1>10, <1>11, <1>12, <1>13, <1>14,
    <1>15, <1>16, <1>17, <1>18, <1>19, <1>20 DEF Next, RefreshGoesOn, SignOutGoesOn, Requests

\* Of two that deadlock one goes on, and it ends the session.
LEMMA PursuedKept ==
    ASSUME IInv, [Next]_vars
    PROVE  Pursued'
<1> USE SessionAssumption DEF IInv, Types, Clean, Ending, Pursued, Ender, Tainted, faults
<1>1. ASSUME NEW q \in Refreshes, Find(q) PROVE Pursued'
  BY <1>1, SMT DEF Find, Goes, Usable, tables, Requests
<1>2. ASSUME NEW q \in Refreshes, Mark(q) PROVE Pursued'
  BY <1>2, SMT DEF Mark, Goes, Held, Locks, tables, Requests
<1>3. ASSUME NEW q \in Refreshes, Check(q) PROVE Pursued'
  BY <1>3, SMT DEF Check, Goes, Unlocks, Requests
<1>4. ASSUME NEW q \in Refreshes, Mint(q) PROVE Pursued'
  BY <1>4, SMT DEF Mint, Goes, Unlocks, Requests
<1>5. ASSUME NEW q \in Refreshes, Detect(q) PROVE Pursued'
  BY <1>5, SMT DEF Detect, Goes, Sweeps, tables, Requests
<1>6. ASSUME NEW q \in Refreshes, RevokeSession(q) PROVE Pursued'
  BY <1>6, SMT DEF RevokeSession, Goes, tables, Requests
<1>7. ASSUME NEW q \in Refreshes, CommitRevocation(q) PROVE Pursued'
  BY <1>7, SMT DEF CommitRevocation, Goes, Unlocks, Requests
<1>8. ASSUME NEW q \in Refreshes, IndexReuse(q) PROVE Pursued'
  BY <1>8, SMT DEF IndexReuse, Goes, tables, Requests
<1>9. ASSUME NEW q \in SignOuts, Verify(q) PROVE Pursued'
  BY <1>9, SMT DEF Verify, Goes, tables, Requests
<1>10. ASSUME NEW q \in SignOuts, SignOut(q) PROVE Pursued'
  BY <1>10, SMT DEF SignOut, Goes, Sweeps, tables, Requests
<1>11. ASSUME NEW q \in SignOuts, IndexSignOut(q) PROVE Pursued'
  BY <1>11, SMT DEF IndexSignOut, Goes, tables, Requests
<1>12. ASSUME NEW q \in SignOuts, CommitSignOut(q) PROVE Pursued'
  BY <1>12, SMT DEF CommitSignOut, Goes, Unlocks, Requests
<1>13. ASSUME NEW q \in Requests, Deadlocked(q) PROVE Pursued'
  <2>1. PICK p \in Requests : WaitsFor(q, p) /\ WaitsFor(p, q)
    BY <1>13 DEF Deadlocked
  <2>2. p # q /\ at[p] \in {"revoking", "ending", "withdrawing", "withdrawn"}
    BY <2>1, SMT DEF WaitsFor
  <2>3. at'[p] = at[p]
    BY <1>13, <2>2, SMT DEF Deadlocked, Aborts, Goes
  <2> QED
    BY <1>13, <2>2, <2>3 DEF Deadlocked
<1>14. ASSUME NEW q \in Requests, RollBack(q) PROVE Pursued'
  BY <1>14, SMT DEF RollBack, Aborts, Goes, Unlocks, Fails, tables, InTransaction
<1>15. ASSUME NEW q \in Requests, IndexFails(q) PROVE Pursued'
  BY <1>15, SMT DEF IndexFails, Goes, Fails, tables
<1>16. CASE Displace
  BY <1>16, SMT DEF Displace, requests
<1>17. CASE LoseIndex
  BY <1>17, SMT DEF LoseIndex, Fails, tables, requests
<1>18. ASSUME NEW q \in Requests,
            RevokeToken(q) \/ WithdrawToken(q)
      PROVE Pursued'
  BY <1>18 DEF RevokeToken, tables, WithdrawToken
<1>19. CASE UNCHANGED vars
  BY <1>19 DEF vars, tables, requests
<1>20. ASSUME NEW q \in Requests, DeadlockedElsewhere(q) PROVE Pursued'
  <2>1. CASE at[q] = "withdrawn"
    BY <1>20, <2>1 DEF DeadlockedElsewhere
  <2>2. CASE at[q] = "signing"
    <3>1. at' = [at EXCEPT ![q] = "idle"] /\ UNCHANGED <<session, index, undone, failures>>
      BY <1>20, <2>2, SMT DEF DeadlockedElsewhere, Aborts, Goes, tables
    <3>2. Ender' = Ender /\ Tainted' = Tainted
      BY <2>2, <3>1, SMT DEF Requests
    <3> QED
      BY <3>1, <3>2
  <2> QED
    BY <1>20, <2>1, <2>2 DEF DeadlockedElsewhere
<1> QED
  BY <1>1, <1>2, <1>3, <1>4, <1>5, <1>6, <1>7, <1>8, <1>9, <1>10, <1>11, <1>12, <1>13, <1>14,
    <1>15, <1>16, <1>17, <1>18, <1>19, <1>20 DEF Next, RefreshGoesOn, SignOutGoesOn, Requests

LEMMA InvInit == Init => IInv
<1> SUFFICES ASSUME Init PROVE IInv
  OBVIOUS
<1>1. Types
  <2>1. 1 \in Tokens /\ 1 .. minted = {1} /\ minted = 1 /\ 0 \in 0 .. MaxFailures
    BY SessionAssumption, SMT DEF Init, Tokens
  <2>2. "idle" \in Places
    BY DEF Places, Asking
  <2> QED
    BY <2>1, <2>2 DEF Init, Types
<1>2. Clean /\ Exclusive /\ Ending /\ Withdrawn /\ RevokedIsIndexed
  BY SessionAssumption, SMT DEF Init, Clean, Exclusive, Ending, Withdrawn, RevokedIsIndexed, Requests
<1>3. Consuming /\ Chain
  BY SMT DEF Init, Consuming, Chain, Requests
<1>4. Pursued
  BY DEF Init, Pursued, Tainted
<1> QED
  BY <1>1, <1>2, <1>3, <1>4 DEF IInv

LEMMA InvNext == IInv /\ [Next]_vars => IInv'
  BY TypesKept, CleanKept, ExclusiveKept, ConsumingKept, ChainKept, EndingKept, WithdrawnKept,
     RevokedIsIndexedKept, PursuedKept DEF IInv

-----------------------------------------------------------------------------
THEOREM Invariant == Spec => []IInv
  BY InvInit, InvNext, PTL DEF Spec

\* Rows, tokens and requests keep their types, and nobody keeps a lock.
THEOREM TypeCorrect == Spec => []TypeOK
<1>1. IInv => TypeOK
  <2> SUFFICES ASSUME IInv PROVE TypeOK
    OBVIOUS
  <2>1. 1 .. minted \subseteq Tokens /\ Types /\ Clean
    BY SessionAssumption, SMT DEF IInv, Types, Tokens
  <2>2. \A q \in Requests : at[q] \notin InTransaction => rows[q] = {} /\ locked[q] = {} /\ guard # q
    BY <2>1 DEF Clean, InTransaction
  <2>3. token \in [Refreshes -> Tokens] /\ rows \in [Requests -> SUBSET Tokens] /\ locked \in [Requests -> SUBSET Tokens]
    BY <2>1 DEF Types
  <2> QED
    BY <2>1, <2>2, <2>3 DEF TypeOK, Types
<1> QED
  BY Invariant, <1>1, PTL

\* The lineage never forks.
THEOREM LineageNeverForks == Spec => []OneUsable
<1>1. ASSUME IInv PROVE OneUsable
  <2>1. Usable \subseteq {minted}
    BY <1>1, SMT DEF IInv, Types, Chain, Usable, Tokens
  <2>2. IsFiniteSet({minted}) /\ Cardinality({minted}) = 1
    BY FS_Singleton
  <2> QED
    BY <2>1, <2>2, FS_Subset, FS_CardinalityType DEF OneUsable
<1> QED
  BY Invariant, <1>1, PTL

\* The end of a session reaches the index, whoever commits it.
THEOREM EndsReachTheIndex == Spec => []RevokedIsIndexed
<1>1. IInv => RevokedIsIndexed
  BY DEF IInv
<1> QED
  BY Invariant, <1>1, PTL

\* What the index stopped cannot be renewed, deadlocks or not.
THEOREM IndexedSessionsEnd == Spec => []IndexedIsEnded
<1>1. IInv => IndexedIsEnded
  BY DEF IInv, Pursued, Ender, Tainted, IndexedIsEnded, Revoking, Leaving
<1> QED
  BY Invariant, <1>1, PTL
=============================================================================
