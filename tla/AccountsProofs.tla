--------------------------- MODULE AccountsProofs ---------------------------
(* Theorems about Accounts, for any finite sets of requests and subjects,   *)
(* and any accounts, addresses, half-finished sign-ins and deployments.     *)
EXTENDS Accounts, FiniteSetTheorems, TLAPS

-----------------------------------------------------------------------------
(* What a request is at each of its statements *)

Federated == {"callback", "adopt"}

\* Which request may be where.
KindOK(r) ==
    /\ r.pc = "idle" => r = Fresh
    /\ r.pc \in {"exchanging", "refusing"} => r.kind = "callback"
    /\ r.pc \in {"finding", "matching", "linking"} => r.kind \in Federated
    /\ r.pc = "creating" => r.kind \in Federated \cup {"register"}
    /\ r.pc = "starting" => r.kind \in Federated \cup {"register", "login"}
    /\ r.pc = "unlinking" => r.kind = "unlink"
    /\ r.pc = "done" => r.kind # "none"
    /\ r.pc = "refused" => r = Refused \/ r.kind = "callback"

\* Whom it is about.
ClaimsOK(r) ==
    /\ r.kind \in Federated /\ r.pc \notin {"exchanging", "refused"} => r.claims.subject \in Subjects
    /\ r.kind \in {"register", "login"} => r.claims.subject = None
    /\ r.kind = "register" => r.claims.email \in Emails
    /\ r.kind = "unlink" => r.claims.subject \in Subjects
    /\ r.pc \in {"creating", "linking"} /\ r.kind \in Federated => r.claims.verified /\ r.claims.email \in Emails
    /\ r.wrote \cap {"user", "link"} # {} /\ r.kind \in Federated => r.claims.verified /\ r.claims.email \in Emails

\* The account it has.
AccountOK(r) ==
    /\ r.pc \in {"exchanging", "finding", "matching", "creating"} => r.account = None
    /\ r.pc \in {"linking", "starting", "unlinking", "done"} => r.account \in Accounts
    /\ r.wrote # {} => r.account \in Accounts

\* What it has written.
WroteOK(r) ==
    /\ r.pc \in {"exchanging", "finding", "matching", "creating"} => r.wrote = {}
    /\ r.pc \in {"linking", "refusing", "refused"} => r.wrote \subseteq {"user"}
    /\ r.kind = "callback" \/ r.kind = "adopt" => r.wrote \subseteq {"user", "link"}
    /\ r.kind = "register" => r.wrote \subseteq {"user"}
    /\ r.kind = "register" /\ r.pc \in {"starting", "done"} => r.wrote = {"user"}
    /\ r.kind = "login" => r.wrote = {}
    /\ r.kind = "unlink" => r.wrote \subseteq {"drop"}
    /\ r.kind = "unlink" /\ r.pc = "done" => r.wrote = {"drop"}
    /\ r.kind = "none" => r.wrote = {}

RecordOK(r) == KindOK(r) /\ ClaimsOK(r) /\ AccountOK(r) /\ WroteOK(r)

-----------------------------------------------------------------------------
(* What it has found out *)

\* The account of a link is the one with the verified address.
Matches(r) == users[r.account].email = r.claims.email

\* A link to an account that is not its own is one by address.
ByAddress(q) ==
    request[q].pc = "linking" \/ (request[q].pc = "starting" /\ "link" \in request[q].wrote)
        => "user" \in request[q].wrote \/ (deployment.linking /\ Matches(request[q]))

\* A sign-in that links nothing has found its link.
Found(q) ==
    request[q].pc \in {"starting", "done"} /\ request[q].kind \in Federated /\ "link" \notin request[q].wrote
        => request[q].wrote = {} /\ Linked(request[q].account, request[q].claims.subject)

\* One by password is to an account that has one.
GaveItsPassword(q) ==
    /\ request[q].kind = "login" /\ request[q].pc \in {"starting", "done"} => users[request[q].account].password
    /\ request[q].kind = "register" /\ request[q].pc = "done" => users[request[q].account].password

\* A request that has ended left what it wrote.
Left(q) ==
    /\ request[q].pc = "done" => Exists(request[q].account)
    /\ request[q].pc = "done" /\ "link" \in request[q].wrote => Matches(request[q])

\* An account is there, or is written by the request.
HasAccount(q) ==
    Open(q) /\ request[q].account # None => (Exists(request[q].account) <=> "user" \notin request[q].wrote)

FactsOK(q) == ByAddress(q) /\ Found(q) /\ GaveItsPassword(q) /\ Left(q) /\ HasAccount(q)

-----------------------------------------------------------------------------
(* What requests keep from each other *)

Writing(q, what) == Open(q) /\ request[q].wrote \cap what # {}

\* Nobody else writes the account, or the subject, that a request writes.
WritersApart ==
    \A q, p \in Requests : q # p =>
        /\ Writing(q, {"user"}) /\ Writing(p, {"user"}) => request[q].account # request[p].account
        /\ Writing(q, {"link", "drop"}) /\ Writing(p, {"link", "drop"})
             => request[q].claims.subject # request[p].claims.subject

\* The row a request writes is as it found it.
RowsAsFound ==
    \A q \in Requests :
        /\ Writing(q, {"link"}) => identities[request[q].claims.subject] = None
        /\ Writing(q, {"drop"}) => identities[request[q].claims.subject] = request[q].account

\* One callback takes a half-finished sign-in.
TakenOnce ==
    \A q \in Requests : request[q].flow # None =>
        /\ flows[request[q].flow] = "gone"
        /\ \A p \in Requests \ {q} : request[p].flow # request[q].flow

RequestInv ==
    /\ TypeOK
    /\ \A q \in Requests : RecordOK(request[q]) /\ FactsOK(q)
    /\ WritersApart /\ RowsAsFound /\ TakenOnce

\* A committed identity is the doing of a sign-in that has ended.
LinksLeft ==
    \A s \in Subjects : identities[s] # None =>
        /\ Linked(identities[s], s)
        /\ ~deployment.linking =>
              /\ ~users[identities[s]].password
              /\ \A u \in Subjects \ {s} : identities[u] # identities[s]

-----------------------------------------------------------------------------
(* Ways in *)

Several(S) == \E x, y \in S : x # y

Ways(a) == {s \in Subjects : identities[s] = a}
Unlinked(a) == {q \in Requests : request[q].kind = "unlink" /\ request[q].pc = "done" /\ request[q].account = a}
Unlinking(q, a) == request[q].pc = "unlinking" /\ request[q].account = a

\* The callback that committed an account without its link.
Orphaned(a) ==
    \E q \in Requests : /\ request[q].kind = "callback" /\ request[q].pc = "refused"
                        /\ request[q].account = a /\ request[q].wrote = {"user"}

\* An unlink that counted saw another way in, or one has ended since.
WaysLeft(a) ==
    Exists(a) /\ ~users[a].password /\ ~Orphaned(a) =>
        /\ Ways(a) = {} => Several(Unlinked(a))
        /\ (\E q \in Requests : Unlinking(q, a)) => Several(Ways(a)) \/ Unlinked(a) # {}

AccountInv == RequestInv /\ LinksLeft /\ \A a \in Accounts : WaysLeft(a)

-----------------------------------------------------------------------------
(* A request steps by itself *)

\* Request q is now n, and the others are what they were.
Steps(q, n) ==
    /\ n \in Request /\ RecordOK(n)
    /\ request' = [request EXCEPT ![q] = n]

\* What it is about is as it was.
Alike(n, r) == n.kind = r.kind /\ n.flow = r.flow /\ n.claims = r.claims

\* It has nothing.
Bare(n) == n.account = None /\ n.wrote = {}

Rows == <<users, identities, deployment>>

LEMMA Apart == None \notin Accounts /\ None \notin Emails /\ None \notin Subjects /\ None \notin Flows
  BY NoneApart

LEMMA Refusals ==
    /\ Fresh \in Request /\ Refused \in Request /\ RecordOK(Refused)
    /\ Refused.pc = "refused" /\ Refused.flow = None /\ Bare(Refused)
    /\ Fresh.kind = "none" /\ Fresh.flow = None /\ Bare(Fresh) /\ Fresh.claims = NoClaims /\ Fresh.pc = "idle"
<1>1. /\ Fresh \in Request
      /\ Fresh.kind = "none" /\ Fresh.flow = None /\ Bare(Fresh) /\ Fresh.claims = NoClaims /\ Fresh.pc = "idle"
  BY DEF Fresh, NoClaims, Request, Claims, Bare
<1>2. /\ Refused \in Request /\ Refused.pc = "refused" /\ Refused.kind = "none" /\ Refused.wrote = {}
      /\ Refused.flow = None /\ Bare(Refused)
  BY <1>1 DEF Refused, Fresh, Request, Bare
<1>3. RecordOK(Refused)
  BY <1>2 DEF RecordOK, KindOK, ClaimsOK, AccountOK, WroteOK, Federated
<1> QED
  BY <1>1, <1>2, <1>3

LEMMA RefusalSteps ==
    ASSUME TypeOK, NEW q \in Requests, Goto(q, "refused")
    PROVE  Steps(q, Refused)
  BY Refusals DEF Goto, Steps

LEMMA CallbackSteps ==
    ASSUME TypeOK, NEW q \in Requests, NEW f \in Flows, Callback(q, f)
    PROVE  /\ request[q].pc = "idle" /\ UNCHANGED Rows
           /\ \/ Steps(q, Refused) /\ flows' \in {flows, Taken(f)}
              \/ \E n : /\ Steps(q, n) /\ Bare(n) /\ n.pc = "exchanging" /\ n.flow = f
                        /\ flows[f] = "pending" /\ flows' = Taken(f)
<1> DEFINE n == [Fresh EXCEPT !.pc = "exchanging", !.kind = "callback", !.flow = f]
<1>1. n \in Request /\ n.pc = "exchanging" /\ n.kind = "callback" /\ n.flow = f /\ Bare(n)
  BY Refusals DEF Request, Bare
<1>2. RecordOK(n)
  BY <1>1 DEF RecordOK, KindOK, ClaimsOK, AccountOK, WroteOK, Federated, Bare
<1> HIDE DEF n
<1>3. \/ Goto(q, "refused") /\ flows' \in {flows, Taken(f)}
      \/ request' = [request EXCEPT ![q] = n] /\ flows[f] = "pending" /\ flows' = Taken(f)
  BY DEF Callback, n
<1> QED
  BY <1>1, <1>2, <1>3, RefusalSteps DEF Callback, Steps, Rows

LEMMA TakeFailsSteps ==
    ASSUME TypeOK, NEW q \in Requests, NEW f \in Flows, TakeFails(q, f)
    PROVE  /\ request[q].pc = "idle" /\ UNCHANGED Rows /\ Steps(q, Refused)
           /\ \E state \in {"pending", "gone"} : flows' = [flows EXCEPT ![f] = state]
           /\ flows[f] = "pending"
  BY RefusalSteps DEF TakeFails, Rows

LEMMA ExchangeSteps ==
    ASSUME TypeOK, NEW q \in Requests, RecordOK(request[q]), Exchange(q)
    PROVE  /\ request[q].pc = "exchanging" /\ UNCHANGED <<Rows, flows>>
           /\ \/ Steps(q, Refused)
              \/ \E n : Steps(q, n) /\ Bare(n) /\ n.pc = "finding" /\ n.flow = request[q].flow
<1>1. ASSUME NEW c \in Claims, c.subject # None,
             request' = [request EXCEPT ![q].pc = "finding", ![q].claims = c]
      PROVE  \E n : Steps(q, n) /\ Bare(n) /\ n.pc = "finding" /\ n.flow = request[q].flow
  <2> DEFINE r == request[q]
             n == [r EXCEPT !.pc = "finding", !.claims = c]
  <2>1. r \in Request /\ r.pc = "exchanging" /\ RecordOK(r)
    BY DEF TypeOK, Exchange
  <2>2. n \in Request
    BY <2>1 DEF Request
  <2>3. /\ n.pc = "finding" /\ n.claims = c /\ n.kind = r.kind /\ n.account = r.account /\ n.wrote = r.wrote
        /\ n.flow = r.flow
    BY <2>1 DEF Request
  <2>4. c.subject \in Subjects
    BY <1>1 DEF Claims
  <2>5. request' = [request EXCEPT ![q] = n]
    BY <1>1 DEF TypeOK
  <2>6. r.kind = "callback" /\ r.account = None /\ r.wrote = {}
    BY <2>1 DEF RecordOK, KindOK, AccountOK, WroteOK
  <2> HIDE DEF n
  <2>7. RecordOK(n)
    BY <2>3, <2>4, <2>6 DEF RecordOK, KindOK, ClaimsOK, AccountOK, WroteOK, Federated
  <2>8. Steps(q, n) /\ Bare(n) /\ n.pc = "finding" /\ n.flow = request[q].flow
    BY <2>2, <2>3, <2>5, <2>6, <2>7 DEF Steps, Bare
  <2> QED
    BY <2>8
<1> QED
  BY <1>1, RefusalSteps DEF Exchange, Rows

LEMMA AdoptSteps ==
    ASSUME TypeOK, NEW q \in Requests, NEW c \in Claims, Adopt(q, c)
    PROVE  /\ request[q].pc = "idle" /\ UNCHANGED <<Rows, flows>>
           /\ \E n : Steps(q, n) /\ Bare(n) /\ n.pc = "finding" /\ n.flow = None
<1> DEFINE n == [Fresh EXCEPT !.pc = "finding", !.kind = "adopt", !.claims = c]
<1>1. n \in Request /\ n.pc = "finding" /\ n.kind = "adopt" /\ n.flow = None /\ Bare(n) /\ n.claims = c
  BY Refusals DEF Request, Bare
<1>2. c.subject \in Subjects
  BY DEF Adopt, Claims
<1>3. request' = [request EXCEPT ![q] = n]
  BY DEF Adopt
<1> HIDE DEF n
<1>4. RecordOK(n)
  BY <1>1, <1>2 DEF RecordOK, KindOK, ClaimsOK, AccountOK, WroteOK, Federated, Bare
<1> QED
  BY <1>1, <1>3, <1>4 DEF Adopt, Steps, Rows

\* The account of a subject, if it has one.
LEMMA FindSteps ==
    ASSUME TypeOK, NEW q \in Requests, RecordOK(request[q]), Find(q)
    PROVE  /\ request[q].pc = "finding" /\ UNCHANGED <<Rows, flows>>
           /\ request[q].claims.subject \in Subjects /\ request[q].kind \in Federated
           /\ \E n : /\ Steps(q, n) /\ Alike(n, request[q]) /\ n.wrote = {}
                     /\ n.account = identities[request[q].claims.subject]
                     /\ n.pc = IF n.account # None THEN "starting" ELSE "matching"
<1> DEFINE r == request[q]
           a == identities[r.claims.subject]
           n == [r EXCEPT !.pc = IF a # None THEN "starting" ELSE "matching", !.account = a]
<1>1. r \in Request /\ r.pc = "finding" /\ RecordOK(r)
  BY DEF TypeOK, Find
<1>2. r.claims.subject \in Subjects /\ r.kind \in Federated /\ r.wrote = {}
  BY <1>1 DEF RecordOK, KindOK, ClaimsOK, WroteOK
<1>3. a \in Accounts \cup {None}
  BY <1>2 DEF TypeOK
<1>4. n \in Request
  BY <1>1, <1>3 DEF Request
<1>5. Alike(n, r) /\ n.wrote = {} /\ n.account = a /\ n.pc = IF a # None THEN "starting" ELSE "matching"
  BY <1>1, <1>2 DEF Request, Alike
<1>6. request' = [request EXCEPT ![q] = n]
  BY DEF Find, TypeOK
<1>7. RecordOK(n)
  <2> HIDE DEF n
  <2> QED
    BY <1>2, <1>3, <1>5 DEF RecordOK, KindOK, ClaimsOK, AccountOK, WroteOK, Federated, Alike
<1>8. Steps(q, n) /\ n.account = a /\ n.pc = IF n.account # None THEN "starting" ELSE "matching"
  BY <1>4, <1>5, <1>6, <1>7 DEF Steps
<1> QED
  BY <1>1, <1>2, <1>5, <1>8 DEF Find, Rows

LEMMA MatchSteps ==
    ASSUME TypeOK, NEW q \in Requests, RecordOK(request[q]), Match(q)
    PROVE  /\ request[q].pc = "matching" /\ UNCHANGED <<Rows, flows>>
           /\ \/ Steps(q, Refused)
              \/ \E n : /\ Steps(q, n) /\ Alike(n, request[q]) /\ n.wrote = {} /\ n.pc = "linking"
                        /\ n.account \in ByEmail(n.claims.email) /\ deployment.linking
              \/ \E n : Steps(q, n) /\ Alike(n, request[q]) /\ Bare(n) /\ n.pc = "creating"
<1> DEFINE r == request[q]
           e == UsableEmail(r.claims)
<1>1. r \in Request /\ r.pc = "matching" /\ RecordOK(r)
  BY DEF TypeOK, Match
<1>2. r.claims.subject \in Subjects /\ r.kind \in Federated /\ Bare(r)
  BY <1>1 DEF RecordOK, KindOK, ClaimsOK, AccountOK, WroteOK, Bare
<1>3. e # None => r.claims.verified /\ r.claims.email = e /\ e \in Emails
  BY <1>1 DEF UsableEmail, Request, Claims
<1>4. ASSUME e # None, NEW a \in ByEmail(e), deployment.linking,
             request' = [request EXCEPT ![q].pc = "linking", ![q].account = a]
      PROVE  \E n : /\ Steps(q, n) /\ Alike(n, r) /\ n.wrote = {} /\ n.pc = "linking"
                    /\ n.account \in ByEmail(n.claims.email)
  <2> DEFINE n == [r EXCEPT !.pc = "linking", !.account = a]
  <2>1. a \in Accounts
    BY DEF ByEmail
  <2>2. n \in Request /\ Alike(n, r) /\ n.wrote = {} /\ n.pc = "linking" /\ n.account = a
    BY <1>1, <1>2, <2>1 DEF Request, Alike, Bare
  <2>3. request' = [request EXCEPT ![q] = n]
    BY <1>4 DEF TypeOK
  <2>4. RecordOK(n)
    <3> HIDE DEF n
    <3> QED
      BY <1>2, <1>3, <1>4, <2>1, <2>2 DEF RecordOK, KindOK, ClaimsOK, AccountOK, WroteOK, Federated, Alike
  <2>5. Steps(q, n) /\ n.account \in ByEmail(n.claims.email)
    BY <1>3, <1>4, <2>2, <2>3, <2>4 DEF Steps, Alike
  <2> QED
    BY <2>2, <2>5
<1>5. ASSUME e # None, Goto(q, "creating")
      PROVE  \E n : Steps(q, n) /\ Alike(n, r) /\ Bare(n) /\ n.pc = "creating"
  <2> DEFINE n == [r EXCEPT !.pc = "creating"]
  <2>1. n \in Request /\ Alike(n, r) /\ Bare(n) /\ n.pc = "creating"
    BY <1>1, <1>2 DEF Request, Alike, Bare
  <2>2. request' = [request EXCEPT ![q] = n]
    BY <1>5 DEF TypeOK, Goto
  <2>3. RecordOK(n)
    <3> HIDE DEF n
    <3> QED
      BY <1>2, <1>3, <1>5, <2>1 DEF RecordOK, KindOK, ClaimsOK, AccountOK, WroteOK, Federated, Alike, Bare
  <2> QED
    BY <2>1, <2>2, <2>3 DEF Steps
<1> QED
  BY <1>1, <1>4, <1>5, RefusalSteps DEF Match, Rows

LEMMA CreateUserSteps ==
    ASSUME TypeOK, NEW q \in Requests, RecordOK(request[q]), CreateUser(q)
    PROVE  /\ request[q].pc = "creating" /\ UNCHANGED <<Rows, flows>>
           /\ \/ Steps(q, Refused)
              \/ \E n : /\ Steps(q, n) /\ Alike(n, request[q]) /\ n.wrote = {"user"}
                        /\ n.account \in Accounts /\ ~Exists(n.account)
                        /\ \A p \in Requests : Open(p) => request[p].account # n.account
                        /\ n.pc = IF n.kind = "register" THEN "starting" ELSE "linking"
<1> DEFINE r == request[q]
<1>1. r \in Request /\ r.pc = "creating" /\ RecordOK(r)
  BY DEF TypeOK, CreateUser
<1>2. /\ r.kind \in Federated \cup {"register"}
      /\ r.kind \in Federated => r.claims.subject \in Subjects /\ r.claims.verified /\ r.claims.email \in Emails
      /\ r.kind = "register" => r.claims.subject = None /\ r.claims.email \in Emails
  BY <1>1 DEF RecordOK, KindOK, ClaimsOK, Federated
<1>3. ASSUME NEW a \in Accounts, ~Exists(a), \A p \in Requests : Open(p) => request[p].account # a,
             request' = [request EXCEPT
                      ![q].pc = IF request[q].kind = "register" THEN "starting" ELSE "linking",
                      ![q].account = a,
                      ![q].wrote = {"user"}]
      PROVE  \E n : /\ Steps(q, n) /\ Alike(n, request[q]) /\ n.wrote = {"user"}
                    /\ n.account \in Accounts /\ ~Exists(n.account)
                    /\ \A p \in Requests : Open(p) => request[p].account # n.account
                    /\ n.pc = IF n.kind = "register" THEN "starting" ELSE "linking"
  <2> DEFINE n == [r EXCEPT !.pc = IF request[q].kind = "register" THEN "starting" ELSE "linking",
                            !.account = a, !.wrote = {"user"}]
  <2>1. /\ n \in Request /\ Alike(n, r) /\ n.wrote = {"user"} /\ n.account = a
        /\ n.pc = IF n.kind = "register" THEN "starting" ELSE "linking"
    BY <1>1 DEF Request, Alike
  <2>2. request' = [request EXCEPT ![q] = n]
    BY <1>3 DEF TypeOK
  <2>3. RecordOK(n)
    <3> HIDE DEF n
    <3> QED
      BY <1>2, <2>1 DEF RecordOK, KindOK, ClaimsOK, AccountOK, WroteOK, Federated, Alike
  <2>4. Steps(q, n)
    BY <2>1, <2>2, <2>3 DEF Steps
  <2> HIDE DEF n
  <2> QED
    BY <1>3, <2>1, <2>4
<1> QED
  BY <1>1, <1>3, RefusalSteps DEF CreateUser, Rows

LEMMA LinkSteps ==
    ASSUME TypeOK, NEW q \in Requests, RecordOK(request[q]), Link(q)
    PROVE  /\ request[q].pc = "linking" /\ UNCHANGED <<Rows, flows>>
           /\ \/ Steps(q, Refused)
              \/ \E n : /\ Steps(q, n) /\ Alike(n, request[q]) /\ n.account = request[q].account
                        /\ n.wrote = request[q].wrote /\ n.pc = "refusing"
              \/ \E n : /\ Steps(q, n) /\ Alike(n, request[q]) /\ n.account = request[q].account
                        /\ n.wrote = request[q].wrote \cup {"link"} /\ n.pc = "starting"
                        /\ NobodyElseHolds(q, "subject") /\ identities[n.claims.subject] = None
<1> DEFINE r == request[q]
<1>1. r \in Request /\ r.pc = "linking" /\ RecordOK(r)
  BY DEF TypeOK, Link
<1>2. /\ r.kind \in Federated /\ r.claims.subject \in Subjects /\ r.claims.verified /\ r.claims.email \in Emails
      /\ r.account \in Accounts /\ r.wrote \subseteq {"user"}
  BY <1>1 DEF RecordOK, KindOK, ClaimsOK, AccountOK, WroteOK, Federated
<1>3. ASSUME r.kind = "callback", Goto(q, "refusing")
      PROVE  \E n : /\ Steps(q, n) /\ Alike(n, r) /\ n.account = r.account
                    /\ n.wrote = r.wrote /\ n.pc = "refusing"
  <2> DEFINE n == [r EXCEPT !.pc = "refusing"]
  <2>1. n \in Request /\ Alike(n, r) /\ n.account = r.account /\ n.wrote = r.wrote /\ n.pc = "refusing"
    BY <1>1 DEF Request, Alike
  <2>2. request' = [request EXCEPT ![q] = n]
    BY <1>3 DEF TypeOK, Goto
  <2>3. RecordOK(n)
    <3> HIDE DEF n
    <3> QED
      BY <1>2, <1>3, <2>1 DEF RecordOK, KindOK, ClaimsOK, AccountOK, WroteOK, Federated, Alike
  <2> QED
    BY <2>1, <2>2, <2>3 DEF Steps
<1>4. ASSUME request' = [request EXCEPT ![q].pc = "starting", ![q].wrote = @ \cup {"link"}]
      PROVE  \E n : /\ Steps(q, n) /\ Alike(n, r) /\ n.account = r.account
                    /\ n.wrote = r.wrote \cup {"link"} /\ n.pc = "starting"
  <2> DEFINE n == [r EXCEPT !.pc = "starting", !.wrote = @ \cup {"link"}]
  <2>1. /\ Alike(n, r) /\ n.account = r.account /\ n.wrote = r.wrote \cup {"link"} /\ n.pc = "starting"
    BY <1>1 DEF Request, Alike
  <2>2. n \in Request
    BY <1>1, <1>2 DEF Request
  <2>3. request' = [request EXCEPT ![q] = n]
    BY <1>4 DEF TypeOK
  <2>4. RecordOK(n)
    <3> HIDE DEF n
    <3> QED
      BY <1>2, <2>1 DEF RecordOK, KindOK, ClaimsOK, AccountOK, WroteOK, Federated, Alike
  <2> QED
    BY <2>1, <2>2, <2>3, <2>4 DEF Steps
<1>5. CASE NotLinked(r.claims.subject)
  <2>1. PICK n : /\ Steps(q, n) /\ Alike(n, r) /\ n.account = r.account
                 /\ n.wrote = r.wrote \cup {"link"} /\ n.pc = "starting"
    BY <1>4, <1>5 DEF Link
  <2>2. identities[n.claims.subject] = None
    BY <1>5, <2>1 DEF NotLinked, Alike
  <2> QED
    BY <1>1, <2>1, <2>2 DEF Link, Rows
<1>6. CASE ~NotLinked(r.claims.subject)
  BY <1>1, <1>3, <1>6, RefusalSteps DEF Link, Conflict, Rows
<1> QED
  BY <1>5, <1>6

LEMMA RegisterSteps ==
    ASSUME TypeOK, NEW q \in Requests, NEW e \in Emails, Register(q, e)
    PROVE  /\ request[q].pc = "idle" /\ UNCHANGED <<Rows, flows>>
           /\ \E n : Steps(q, n) /\ Bare(n) /\ n.pc = "creating" /\ n.flow = None
<1> DEFINE n == [Fresh EXCEPT !.pc = "creating", !.kind = "register", !.claims.email = e]
<1>1. /\ n \in Request /\ n.pc = "creating" /\ n.kind = "register" /\ n.flow = None /\ Bare(n)
      /\ n.claims.email = e /\ n.claims.subject = None
  BY DEF Fresh, NoClaims, Request, Claims, Bare
<1>2. request' = [request EXCEPT ![q] = n]
  BY DEF Register
<1> HIDE DEF n
<1>3. RecordOK(n)
  BY <1>1 DEF RecordOK, KindOK, ClaimsOK, AccountOK, WroteOK, Federated, Bare
<1> QED
  BY <1>1, <1>2, <1>3 DEF Register, Steps, Rows

LEMMA LoginSteps ==
    ASSUME TypeOK, NEW q \in Requests, NEW e \in Emails, Login(q, e)
    PROVE  /\ request[q].pc = "idle" /\ UNCHANGED <<Rows, flows>>
           /\ \/ Steps(q, Refused)
              \/ \E n : /\ Steps(q, n) /\ n.pc = "starting" /\ n.kind = "login" /\ n.flow = None /\ n.wrote = {}
                        /\ n.account \in Accounts /\ Exists(n.account) /\ users[n.account].password
<1>1. ASSUME NEW a \in ByEmail(e), users[a].password,
             request' = [request EXCEPT ![q] =
                    [Fresh EXCEPT !.pc = "starting", !.kind = "login", !.claims.email = e, !.account = a]]
      PROVE  \E n : /\ Steps(q, n) /\ n.pc = "starting" /\ n.kind = "login" /\ n.flow = None /\ n.wrote = {}
                    /\ n.account \in Accounts /\ Exists(n.account) /\ users[n.account].password
  <2> DEFINE n == [Fresh EXCEPT !.pc = "starting", !.kind = "login", !.claims.email = e, !.account = a]
  <2>1. a \in Accounts /\ Exists(a)
    BY DEF ByEmail
  <2>2. /\ n \in Request /\ n.pc = "starting" /\ n.kind = "login" /\ n.flow = None /\ n.wrote = {} /\ n.account = a
        /\ n.claims.subject = None
    BY <2>1 DEF Fresh, NoClaims, Request, Claims
  <2>3. request' = [request EXCEPT ![q] = n]
    BY <1>1
  <2> HIDE DEF n
  <2>4. RecordOK(n)
    BY <2>1, <2>2 DEF RecordOK, KindOK, ClaimsOK, AccountOK, WroteOK, Federated
  <2> QED
    BY <1>1, <2>1, <2>2, <2>3, <2>4 DEF Steps
<1> QED
  BY <1>1, RefusalSteps DEF Login, Rows

LEMMA UnlinkSteps ==
    ASSUME TypeOK, NEW q \in Requests, NEW a \in Accounts, NEW s \in Subjects, Unlink(q, a, s)
    PROVE  /\ request[q].pc = "idle" /\ UNCHANGED <<Rows, flows>>
           /\ \/ Steps(q, Refused)
              \/ \E n : /\ Steps(q, n) /\ n.pc = "unlinking" /\ n.flow = None /\ n.wrote = {} /\ n.kind = "unlink"
                        /\ n.account = a /\ SignedIn(a) /\ MayUnlink(a)
<1> DEFINE n == [Fresh EXCEPT !.pc = "unlinking", !.kind = "unlink", !.account = a, !.claims.subject = s]
<1>1. /\ n \in Request /\ n.pc = "unlinking" /\ n.kind = "unlink" /\ n.flow = None /\ n.wrote = {} /\ n.account = a
      /\ n.claims.subject = s
  BY DEF Fresh, NoClaims, Request, Claims
<1>2. MayUnlink(a) => request' = [request EXCEPT ![q] = n]
  BY DEF Unlink
<1> HIDE DEF n
<1>3. RecordOK(n)
  BY <1>1 DEF RecordOK, KindOK, ClaimsOK, AccountOK, WroteOK, Federated
<1>4. CASE MayUnlink(a)
  BY <1>1, <1>2, <1>3, <1>4 DEF Unlink, Steps, Rows
<1>5. CASE ~MayUnlink(a)
  BY <1>5, RefusalSteps DEF Unlink, Rows
<1> QED
  BY <1>4, <1>5

LEMMA DeleteLinkSteps ==
    ASSUME TypeOK, NEW q \in Requests, RecordOK(request[q]), DeleteLink(q)
    PROVE  /\ request[q].pc = "unlinking" /\ UNCHANGED <<Rows, flows>>
           /\ \/ Steps(q, Refused)
              \/ \E n : /\ Steps(q, n) /\ Alike(n, request[q]) /\ n.pc = "unlinking"
                        /\ n.account = request[q].account /\ n.wrote = {"drop"} /\ request[q].wrote = {}
                        /\ NobodyElseHolds(q, "subject") /\ identities[n.claims.subject] = n.account
<1> DEFINE r == request[q]
           n == [r EXCEPT !.wrote = {"drop"}]
<1>1. r \in Request /\ r.pc = "unlinking" /\ RecordOK(r) /\ r.wrote = {}
  BY DEF TypeOK, DeleteLink
<1>2. r.kind = "unlink" /\ r.account \in Accounts /\ r.claims.subject \in Subjects
  BY <1>1 DEF RecordOK, KindOK, ClaimsOK, AccountOK
<1>3. /\ n \in Request /\ Alike(n, r) /\ n.pc = "unlinking" /\ n.account = r.account /\ n.wrote = {"drop"}
  BY <1>1 DEF Request, Alike
<1>4. identities[r.claims.subject] = r.account => request' = [request EXCEPT ![q] = n]
  BY DEF DeleteLink, TypeOK
<1> HIDE DEF n
<1>5. RecordOK(n)
  BY <1>2, <1>3 DEF RecordOK, KindOK, ClaimsOK, AccountOK, WroteOK, Federated, Alike
<1>6. CASE identities[r.claims.subject] = r.account
  BY <1>1, <1>3, <1>4, <1>5, <1>6 DEF DeleteLink, Steps, Rows, Alike
<1>7. CASE identities[r.claims.subject] # r.account
  BY <1>1, <1>7, RefusalSteps DEF DeleteLink, Rows
<1> QED
  BY <1>6, <1>7

LEMMA CommitSteps ==
    ASSUME TypeOK, NEW q \in Requests, RecordOK(request[q]), Commit(q)
    PROVE  /\ UNCHANGED <<flows, deployment>>
           /\ request[q].pc \in {"starting", "unlinking", "refusing"}
           /\ request[q].pc = "unlinking" => request[q].wrote = {"drop"}
           /\ \E n : /\ Steps(q, n) /\ Alike(n, request[q])
                     /\ n.account = request[q].account /\ n.wrote = request[q].wrote
                     /\ n.pc = IF request[q].pc = "refusing" THEN "refused" ELSE "done"
<1> DEFINE r == request[q]
           n == [r EXCEPT !.pc = IF r.pc = "refusing" THEN "refused" ELSE "done"]
<1>1. r \in Request /\ r.pc \in {"starting", "unlinking", "refusing"} /\ RecordOK(r)
  BY DEF TypeOK, Commit
<1>2. r.pc = "unlinking" => r.wrote = {"drop"} /\ r.kind = "unlink"
  BY <1>1 DEF Commit, RecordOK, KindOK, WroteOK
<1>3. /\ n \in Request /\ Alike(n, r) /\ n.account = r.account /\ n.wrote = r.wrote
      /\ n.pc = IF r.pc = "refusing" THEN "refused" ELSE "done"
  BY <1>1 DEF Request, Alike
<1>4. request' = [request EXCEPT ![q] = n]
  BY <1>1 DEF Commit, Goto, TypeOK
<1> HIDE DEF n
<1>5. RecordOK(n)
  BY <1>1, <1>2, <1>3 DEF RecordOK, KindOK, ClaimsOK, AccountOK, WroteOK, Federated, Alike
<1> QED
  BY <1>1, <1>2, <1>3, <1>4, <1>5 DEF Commit, Steps

LEMMA RollbackSteps ==
    ASSUME TypeOK, NEW q \in Requests, Rollback(q)
    PROVE  Open(q) /\ UNCHANGED <<Rows, flows>> /\ Steps(q, Refused)
  BY RefusalSteps DEF Rollback, Rows

-----------------------------------------------------------------------------
(* The ways a request steps *)

Recorded == TypeOK /\ \A q \in Requests : RecordOK(request[q])

\* Nothing written and no account, yet or any more.
Blank(n) == Bare(n) /\ n.pc \in {"exchanging", "finding", "matching", "creating", "refused"}

SameWrites(q, n) == Alike(n, request[q]) /\ n.account = request[q].account /\ n.wrote = request[q].wrote

Finds(q, n) ==
    /\ n.wrote = {} /\ n.pc = "starting" /\ n.kind \in Federated
    /\ n.claims.subject \in Subjects /\ n.account = identities[n.claims.subject] /\ n.account \in Accounts

Chooses(q, n) ==
    /\ n.wrote = {} /\ n.pc = "linking"
    /\ n.account \in ByEmail(n.claims.email) /\ deployment.linking

Creates(q, n) ==
    /\ n.wrote = {"user"} /\ n.pc \in {"starting", "linking"} /\ (n.pc = "starting" => n.kind = "register")
    /\ n.account \in Accounts /\ ~Exists(n.account)
    /\ \A p \in Requests : Open(p) => request[p].account # n.account

GivesWay(q, n) == request[q].pc = "linking" /\ SameWrites(q, n) /\ n.pc = "refusing"

Links(q, n) ==
    /\ request[q].pc = "linking" /\ Alike(n, request[q]) /\ n.account = request[q].account
    /\ n.wrote = request[q].wrote \cup {"link"} /\ n.pc = "starting"
    /\ NobodyElseHolds(q, "subject") /\ identities[n.claims.subject] = None

LogsIn(q, n) ==
    /\ n.pc = "starting" /\ n.kind = "login" /\ n.wrote = {}
    /\ n.account \in Accounts /\ Exists(n.account) /\ users[n.account].password

Counted(q, n) ==
    /\ n.pc = "unlinking" /\ n.wrote = {} /\ n.kind = "unlink"
    /\ n.account \in Accounts /\ SignedIn(n.account) /\ MayUnlink(n.account)

Deletes(q, n) ==
    /\ request[q].pc = "unlinking" /\ Alike(n, request[q]) /\ n.account = request[q].account
    /\ n.pc = "unlinking" /\ n.wrote = {"drop"}
    /\ NobodyElseHolds(q, "subject") /\ identities[n.claims.subject] = n.account

Reads(q, n) ==
    \/ Blank(n) \/ Finds(q, n) \/ Chooses(q, n) \/ Creates(q, n) \/ GivesWay(q, n)
    \/ Links(q, n) \/ LogsIn(q, n) \/ Counted(q, n) \/ Deletes(q, n)

Ends(q, n) ==
    /\ SameWrites(q, n)
    /\ request[q].pc \in {"starting", "unlinking", "refusing"}
    /\ n.pc = IF request[q].pc = "refusing" THEN "refused" ELSE "done"
    /\ users' = IF "user" \in n.wrote
                THEN [users EXCEPT ![n.account] = [email    |-> n.claims.email,
                                                   password |-> n.kind = "register"]]
                ELSE users
    /\ identities' = CASE "link" \in n.wrote -> [identities EXCEPT ![n.claims.subject] = n.account]
                       [] "drop" \in n.wrote -> [identities EXCEPT ![n.claims.subject] = None]
                       [] OTHER              -> identities

\* What a step does to one request.
Turn(q, n) ==
    /\ request[q].pc \notin {"done", "refused"} /\ Steps(q, n) /\ UNCHANGED deployment
    /\ \/ Reads(q, n) /\ UNCHANGED <<users, identities>>
       \/ Ends(q, n)

LEMMA Turns ==
    ASSUME Recorded, NEW q \in Requests, Arrive(q) \/ GoOn(q) \/ Rollback(q)
    PROVE  \E n : Turn(q, n)
<1> USE DEF Recorded
<1>1. Blank(Refused)
  BY Refusals DEF Blank
<1>2. ASSUME NEW n, Steps(q, n), Reads(q, n), UNCHANGED Rows, request[q].pc \notin {"done", "refused"}
      PROVE  Turn(q, n)
  BY <1>2 DEF Turn, Rows
<1>3. ASSUME NEW f \in Flows, Callback(q, f) \/ TakeFails(q, f) PROVE \E n : Turn(q, n)
  BY <1>1, <1>2, <1>3, CallbackSteps, TakeFailsSteps DEF Reads, Blank
<1>4. ASSUME NEW c \in Claims, Adopt(q, c) PROVE \E n : Turn(q, n)
  BY <1>2, <1>4, AdoptSteps DEF Reads, Blank
<1>5. ASSUME NEW e \in Emails, Register(q, e) PROVE \E n : Turn(q, n)
  BY <1>2, <1>5, RegisterSteps DEF Reads, Blank
<1>6. ASSUME NEW e \in Emails, Login(q, e) PROVE \E n : Turn(q, n)
  BY <1>1, <1>2, <1>6, LoginSteps DEF Reads, LogsIn
<1>7. ASSUME NEW a \in Accounts, NEW s \in Subjects, Unlink(q, a, s) PROVE \E n : Turn(q, n)
  BY <1>1, <1>2, <1>7, UnlinkSteps DEF Reads, Counted
<1>8. CASE Exchange(q)
  BY <1>1, <1>2, <1>8, ExchangeSteps DEF Reads, Blank
<1>9. CASE Find(q)
  <2>1. PICK n : /\ Steps(q, n) /\ Alike(n, request[q]) /\ n.wrote = {}
                 /\ n.account = identities[request[q].claims.subject]
                 /\ n.pc = IF n.account # None THEN "starting" ELSE "matching"
    BY <1>9, FindSteps
  <2>2. /\ request[q].claims.subject \in Subjects /\ request[q].kind \in Federated /\ UNCHANGED Rows
        /\ request[q].pc = "finding"
    BY <1>9, FindSteps
  <2>3. n.account \in Accounts \cup {None}
    BY <2>1, <2>2 DEF TypeOK
  <2>4. CASE n.account = None
    BY <1>2, <2>1, <2>2, <2>4 DEF Reads, Blank, Bare
  <2>5. CASE n.account # None
    BY <1>2, <2>1, <2>2, <2>3, <2>5 DEF Reads, Finds, Alike
  <2> QED
    BY <2>4, <2>5
<1>10. CASE Match(q)
  BY <1>1, <1>2, <1>10, MatchSteps DEF Reads, Blank, Chooses
<1>11. CASE CreateUser(q)
  <2>1. CASE Steps(q, Refused)
    BY <1>1, <1>2, <1>11, <2>1, CreateUserSteps DEF Reads
  <2>2. CASE ~ Steps(q, Refused)
    BY <1>2, <1>11, <2>2, CreateUserSteps DEF Reads, Creates
  <2> QED
    BY <2>1, <2>2
<1>12. CASE Link(q)
  BY <1>1, <1>2, <1>12, LinkSteps DEF Reads, GivesWay, SameWrites, Links
<1>13. CASE DeleteLink(q)
  BY <1>1, <1>2, <1>13, DeleteLinkSteps DEF Reads, Deletes
<1>14. CASE Commit(q)
  <2>1. PICK n : /\ Steps(q, n) /\ Alike(n, request[q])
                 /\ n.account = request[q].account /\ n.wrote = request[q].wrote
                 /\ n.pc = IF request[q].pc = "refusing" THEN "refused" ELSE "done"
    BY <1>14, CommitSteps
  <2>2. request[q].pc \in {"starting", "unlinking", "refusing"} /\ UNCHANGED deployment
    BY <1>14, CommitSteps
  <2>3. Ends(q, n)
    BY <1>14, <2>1, <2>2 DEF Ends, SameWrites, Alike, Commit
  <2> QED
    BY <2>1, <2>2, <2>3 DEF Turn
<1>15. CASE Rollback(q)
  BY <1>1, <1>2, <1>15, RollbackSteps DEF Reads, Open
<1> QED
  BY <1>3, <1>4, <1>5, <1>6, <1>7, <1>8, <1>9, <1>10, <1>11, <1>12, <1>13, <1>14, <1>15 DEF Arrive, GoOn

\* A flow begins, ends or is taken up by itself.
FlowStep == \E f \in Flows : StartFlow(f) \/ FlowExpires(f)

\* A step begins one half-finished sign-in, ends one, or touches none.
LEMMA FlowMoves ==
    ASSUME TypeOK, [Next]_vars
    PROVE  \/ UNCHANGED flows
           \/ \E f \in Flows : flows[f] = "unstarted" /\ flows' = [flows EXCEPT ![f] = "pending"]
           \/ \E f \in Flows : flows' = [flows EXCEPT ![f] = "gone"]
<1>1. CASE UNCHANGED vars
  BY <1>1 DEF vars
<1>2. ASSUME NEW f \in Flows, StartFlow(f)
      PROVE  flows[f] = "unstarted" /\ flows' = [flows EXCEPT ![f] = "pending"]
  BY <1>2 DEF StartFlow
<1>3. ASSUME NEW f \in Flows, FlowExpires(f) PROVE flows' = [flows EXCEPT ![f] = "gone"]
  BY <1>3 DEF FlowExpires
<1>4. ASSUME NEW q \in Requests, NEW f \in Flows, Callback(q, f) \/ TakeFails(q, f)
      PROVE  \/ UNCHANGED flows
             \/ flows[f] = "pending" /\ flows' = [flows EXCEPT ![f] = "pending"]
             \/ flows' = [flows EXCEPT ![f] = "gone"]
  BY <1>4 DEF Callback, TakeFails, Taken
<1>5. ASSUME NEW f, flows[f] = "pending", flows' = [flows EXCEPT ![f] = "pending"]
      PROVE  UNCHANGED flows
  BY <1>5 DEF TypeOK
<1>6. ASSUME NEW q \in Requests, Arrive(q),
             ~ \E f \in Flows : Callback(q, f) \/ TakeFails(q, f)
      PROVE  UNCHANGED flows
  BY <1>6 DEF Arrive, Adopt, Register, Login, Unlink
<1>7. ASSUME NEW q \in Requests, GoOn(q) \/ Rollback(q) PROVE UNCHANGED flows
  BY <1>7 DEF GoOn, Rollback, Exchange, Find, Match, CreateUser, Link, DeleteLink, Commit
<1> QED
  BY <1>1, <1>2, <1>3, <1>4, <1>5, <1>6, <1>7, Zenon DEF Next

LEMMA AllSteps ==
    ASSUME Recorded, [Next]_vars
    PROVE  \/ UNCHANGED <<Rows, request>>
           \/ \E q \in Requests : \E n : Turn(q, n)
  BY Turns DEF Next, vars, StartFlow, FlowExpires, Rows

\* The records that result.
LEMMA TurnRecords ==
    ASSUME Recorded, NEW q \in Requests, NEW n, Turn(q, n)
    PROVE  /\ request' \in [Requests -> Request] /\ request'[q] = n /\ n \in Request /\ RecordOK(n)
           /\ \A p \in Requests \ {q} : request'[p] = request[p]
           /\ \A p \in Requests : RecordOK(request'[p])
  BY DEF Turn, Steps, Recorded, TypeOK

\* A user row is that of the account a request writes.
LEMMA UserRows ==
    ASSUME NEW n \in Request, RecordOK(n), "user" \in n.wrote
    PROVE  n.account \in Accounts /\ n.claims.email \in Emails /\ n.kind \in {"callback", "adopt", "register"}
  BY DEF RecordOK, ClaimsOK, AccountOK, WroteOK, Federated, Request

LEMMA LinkRows ==
    ASSUME NEW n \in Request, RecordOK(n), n.wrote \cap {"link", "drop"} # {}
    PROVE  /\ n.account \in Accounts
           /\ n.claims.subject \in Subjects
           /\ "link" \in n.wrote => n.kind \in Federated /\ n.claims.verified /\ n.claims.email \in Emails
           /\ "drop" \in n.wrote => n.kind = "unlink" /\ n.wrote = {"drop"}
<1>1. n.account \in Accounts /\ n.kind \in {"none", "callback", "adopt", "register", "login", "unlink"}
  BY DEF RecordOK, AccountOK, Request
<1>2. n.kind \in Federated \/ n.kind = "unlink"
  BY <1>1 DEF RecordOK, WroteOK, Federated
<1>3. n.pc \notin {"exchanging", "refused"}
  BY DEF RecordOK, WroteOK
<1>4. n.claims.subject \in Subjects
  BY <1>2, <1>3 DEF RecordOK, ClaimsOK
<1>5. CASE n.kind = "unlink"
  BY <1>1, <1>4, <1>5 DEF RecordOK, WroteOK
<1>6. CASE n.kind \in Federated
  BY <1>1, <1>4, <1>6 DEF RecordOK, WroteOK, ClaimsOK, Federated
<1> QED
  BY <1>2, <1>5, <1>6

LEMMA RecordedKept ==
    ASSUME Recorded, [Next]_vars
    PROVE  Recorded'
<1>1. flows' \in [Flows -> {"unstarted", "pending", "gone"}]
  BY FlowMoves DEF Recorded, TypeOK
<1>2. ASSUME NEW q \in Requests, NEW n, Turn(q, n)
      PROVE  /\ users' \in [Accounts -> User \cup {NoUser}]
             /\ identities' \in [Subjects -> Accounts \cup {None}]
  <2>1. n \in Request /\ RecordOK(n)
    BY <1>2, TurnRecords
  <2>2. CASE Reads(q, n) /\ UNCHANGED <<users, identities>>
    BY <2>2 DEF Recorded, TypeOK
  <2>3. CASE Ends(q, n)
    <3>1. users' \in [Accounts -> User \cup {NoUser}]
      <4>1. CASE "user" \in n.wrote
        <5>1. [email |-> n.claims.email, password |-> n.kind = "register"] \in User
          BY <2>1, <4>1, UserRows DEF User
        <5> QED
          BY <2>3, <4>1, <5>1 DEF Ends, Recorded, TypeOK
      <4>2. CASE "user" \notin n.wrote
        BY <2>3, <4>2 DEF Ends, Recorded, TypeOK
      <4> QED
        BY <4>1, <4>2
    <3>2. identities' \in [Subjects -> Accounts \cup {None}]
      <4>1. CASE "link" \in n.wrote
        BY <2>1, <2>3, <4>1, LinkRows DEF Ends, Recorded, TypeOK
      <4>2. CASE "link" \notin n.wrote /\ "drop" \in n.wrote
        BY <2>3, <4>2 DEF Ends, Recorded, TypeOK
      <4>3. CASE "link" \notin n.wrote /\ "drop" \notin n.wrote
        BY <2>3, <4>3 DEF Ends, Recorded, TypeOK
      <4> QED
        BY <4>1, <4>2, <4>3
    <3> QED
      BY <3>1, <3>2
  <2> QED
    BY <1>2, <2>2, <2>3 DEF Turn
<1>3. ASSUME NEW q \in Requests, NEW n, Turn(q, n) PROVE Recorded'
  <2>1. deployment' \in Deployments
    BY <1>3 DEF Turn, Recorded, TypeOK
  <2> QED
    BY <1>1, <1>2, <1>3, <2>1, TurnRecords DEF Recorded, TypeOK
<1>4. CASE UNCHANGED <<Rows, request>>
  BY <1>1, <1>4 DEF Rows, Recorded, TypeOK
<1> QED
  BY <1>3, <1>4, AllSteps

-----------------------------------------------------------------------------
(* What one request's step leaves the others *)

LEMMA InvRecorded == RequestInv => Recorded
  BY DEF RequestInv, Recorded

\* A row has an address.
LEMMA RowOfUser ==
    ASSUME NEW e \in Emails, NEW b \in BOOLEAN
    PROVE  [email |-> e, password |-> b] # NoUser
<1>1. e # None
  BY Apart
<1>2. [email |-> e, password |-> b].email = e /\ NoUser.email = None
  BY DEF NoUser
<1> QED
  BY <1>1, <1>2

\* A row of users changes by being written, by the request that wrote it and
\* nobody else.
LEMMA UserRowsStay ==
    ASSUME RequestInv, NEW q \in Requests, NEW n, Turn(q, n)
    PROVE  /\ \A a \in Accounts : Exists(a) => users'[a] = users[a]
           /\ \A a \in Accounts : users'[a] # users[a] =>
                 /\ Ends(q, n) /\ "user" \in n.wrote /\ a = n.account
           /\ \A p \in Requests \ {q} :
                 Writing(p, {"user"}) => users'[request[p].account] = users[request[p].account]
<1>1. CASE Reads(q, n) /\ UNCHANGED <<users, identities>>
  BY <1>1
<1>2. CASE Ends(q, n)
  <2>1. n \in Request /\ RecordOK(n) /\ request[q].account = n.account /\ request[q].wrote = n.wrote /\ Open(q)
    BY <1>2, InvRecorded, TurnRecords DEF Ends, SameWrites, Open
  <2>2. CASE "user" \notin n.wrote
    BY <1>2, <2>2 DEF Ends
  <2>3. CASE "user" \in n.wrote
    <3>1. n.account \in Accounts
      BY <2>1, <2>3, UserRows
    <3>2. ~Exists(n.account)
      BY <2>1, <2>3, <3>1, Apart DEF RequestInv, FactsOK, HasAccount
    <3>3. \A a \in Accounts : a # n.account => users'[a] = users[a]
      BY <1>2, <2>3 DEF Ends, RequestInv, TypeOK
    <3>4. \A p \in Requests \ {q} : Writing(p, {"user"}) => request[p].account # n.account
      BY <2>1, <2>3 DEF RequestInv, WritersApart, Writing
    <3>5. \A p \in Requests \ {q} : Writing(p, {"user"}) => request[p].account \in Accounts
      BY DEF RequestInv, RecordOK, AccountOK, Writing
    <3> QED
      BY <1>2, <2>3, <3>2, <3>3, <3>4, <3>5
  <2> QED
    BY <2>2, <2>3
<1> QED
  BY <1>1, <1>2 DEF Turn

LEMMA ExistsStays ==
    ASSUME RequestInv, NEW q \in Requests, NEW n, Turn(q, n), NEW a \in Accounts, Exists(a)
    PROVE  Exists(a)' /\ users'[a] = users[a]
  BY UserRowsStay DEF Exists

\* An account with a password is there.
LEMMA PasswordExists ==
    ASSUME NEW a \in Accounts, users[a].password
    PROVE  Exists(a)
  BY DEF Exists, NoUser

\* What has ended has ended.
LEMMA LinkedStays ==
    ASSUME RequestInv, NEW q \in Requests, NEW n, Turn(q, n), NEW a, NEW s, Linked(a, s)
    PROVE  Linked(a, s)'
<1>1. PICK p \in Requests : /\ request[p].pc = "done" /\ "link" \in request[p].wrote
                            /\ request[p].account = a /\ request[p].claims.subject = s
  BY DEF Linked
<1>2. p # q
  BY <1>1 DEF Turn
<1>3. request'[p] = request[p]
  BY <1>2, InvRecorded, TurnRecords
<1> QED
  BY <1>1, <1>3 DEF Linked

\* A linked account is there.
LEMMA LinkedExists ==
    ASSUME RequestInv, NEW a, NEW s, Linked(a, s)
    PROVE  a \in Accounts /\ Exists(a)
  BY DEF RequestInv, Linked, FactsOK, Left, RecordOK, AccountOK

LEMMA OthersKeep ==
    ASSUME RequestInv, NEW q \in Requests, NEW n, Turn(q, n), NEW p \in Requests \ {q}
    PROVE  FactsOK(p)'
<1>0. PICK r : r = request[p]
  OBVIOUS
<1>1. request'[p] = r /\ request[p] = r /\ r \in Request /\ RecordOK(r) /\ FactsOK(p) /\ deployment' = deployment
  BY <1>0, InvRecorded, TurnRecords DEF RequestInv, TypeOK, Turn
<1>2. \A a \in Accounts : Exists(a) => Exists(a)' /\ users'[a] = users[a]
  BY ExistsStays
<1>3. r.pc \in {"linking", "starting", "done"} => r.account \in Accounts
  BY <1>1 DEF RecordOK, AccountOK
<1>4. ByAddress(p)'
  <2> SUFFICES ASSUME r.pc = "linking" \/ (r.pc = "starting" /\ "link" \in r.wrote), "user" \notin r.wrote
               PROVE  deployment.linking /\ Matches(r)'
    BY <1>1 DEF ByAddress, Matches
  <2>1. deployment.linking /\ Matches(r)
    BY <1>1 DEF FactsOK, ByAddress
  <2>2. Open(p) /\ r.account # None
    BY <1>1, <1>3, Apart DEF Open
  <2>3. Exists(r.account)
    BY <1>1, <2>2 DEF FactsOK, HasAccount
  <2> QED
    BY <1>2, <1>3, <2>1, <2>3 DEF Matches
<1>5. Found(p)'
  <2> SUFFICES ASSUME r.pc \in {"starting", "done"}, r.kind \in Federated, "link" \notin r.wrote
               PROVE  r.wrote = {} /\ Linked(r.account, r.claims.subject)'
    BY <1>1 DEF Found, Linked
  <2>1. r.wrote = {} /\ Linked(r.account, r.claims.subject)
    BY <1>1 DEF FactsOK, Found
  <2> QED
    BY <2>1, LinkedStays
<1>6. GaveItsPassword(p)'
  <2> SUFFICES ASSUME \/ r.kind = "login" /\ r.pc \in {"starting", "done"}
                      \/ r.kind = "register" /\ r.pc = "done"
               PROVE  users'[r.account].password
    BY <1>1 DEF GaveItsPassword
  <2>1. users[r.account].password
    BY <1>1 DEF FactsOK, GaveItsPassword
  <2>2. r.account \in Accounts
    BY <1>3
  <2>3. Exists(r.account)
    BY <2>1, <2>2, PasswordExists
  <2>4. users'[r.account] = users[r.account]
    BY <1>2, <2>2, <2>3
  <2> QED
    BY <2>1, <2>4
<1>7. Left(p)'
  BY <1>1, <1>2, <1>3 DEF FactsOK, Left, Matches
<1>8. HasAccount(p)'
  <2> SUFFICES ASSUME Open(p), r.account # None
               PROVE  Exists(r.account)' <=> "user" \notin r.wrote
    BY <1>1 DEF HasAccount, Open, Exists
  <2>1. r.account \in Accounts
    BY <1>1 DEF Request
  <2>2. Exists(r.account) <=> "user" \notin r.wrote
    BY <1>1 DEF FactsOK, HasAccount
  <2>3. "user" \in r.wrote => users'[r.account] = users[r.account]
    BY <1>1, UserRowsStay DEF Writing
  <2> QED
    BY <1>2, <2>1, <2>2, <2>3 DEF Exists
<1> QED
  BY <1>4, <1>5, <1>6, <1>7, <1>8 DEF FactsOK

\* What the request itself has found out.
LEMMA ItselfKeeps ==
    ASSUME RequestInv, LinksLeft, NEW q \in Requests, NEW n, Turn(q, n)
    PROVE  FactsOK(q)'
<1>0. PICK r : r = request[q]
  OBVIOUS
<1>1. /\ request'[q] = n /\ n \in Request /\ RecordOK(n) /\ request[q] = r /\ r \in Request /\ RecordOK(r)
      /\ FactsOK(q) /\ deployment' = deployment
  BY <1>0, InvRecorded, TurnRecords DEF RequestInv, TypeOK, Turn
<1>2. \A s \in Subjects : identities[s] # None => Exists(identities[s]) /\ Linked(identities[s], s)
  BY LinkedExists DEF LinksLeft
<1>3. CASE Reads(q, n) /\ UNCHANGED <<users, identities>>
  <2>1. ByAddress(q)'
    <3> SUFFICES ASSUME n.pc = "linking" \/ (n.pc = "starting" /\ "link" \in n.wrote), "user" \notin n.wrote
                 PROVE  deployment.linking /\ Matches(n)
      BY <1>1, <1>3 DEF ByAddress, Matches
    <3>1. Chooses(q, n) \/ Links(q, n)
      BY <1>3 DEF Reads, Blank, Finds, Creates, GivesWay, LogsIn, Counted, Deletes
    <3>2. CASE Chooses(q, n)
      BY <3>2 DEF Chooses, ByEmail, Matches
    <3>3. CASE Links(q, n)
      BY <1>1, <3>3 DEF Links, Alike, FactsOK, ByAddress, Matches
    <3> QED
      BY <3>1, <3>2, <3>3
  <2>2. Found(q)'
    <3> SUFFICES ASSUME n.pc \in {"starting", "done"}, n.kind \in Federated, "link" \notin n.wrote
                 PROVE  n.wrote = {} /\ Linked(n.account, n.claims.subject)'
      BY <1>1 DEF Found, Linked
    <3>1. Finds(q, n)
      BY <1>3 DEF Reads, Blank, Chooses, Creates, GivesWay, Links, LogsIn, Counted, Deletes, Federated
    <3>2. n.wrote = {} /\ Linked(n.account, n.claims.subject)
      BY <1>2, <3>1, Apart DEF Finds
    <3> QED
      BY <3>2, LinkedStays
  <2>3. GaveItsPassword(q)'
    <3> SUFFICES ASSUME \/ n.kind = "login" /\ n.pc \in {"starting", "done"}
                        \/ n.kind = "register" /\ n.pc = "done"
                 PROVE  users[n.account].password
      BY <1>1, <1>3 DEF GaveItsPassword
    <3>0. Links(q, n) => n.kind \in Federated
      BY <1>1 DEF Links, Alike, RecordOK, KindOK
    <3>1. LogsIn(q, n)
      BY <1>3, <3>0 DEF Reads, Blank, Finds, Chooses, Creates, GivesWay, Links, Counted, Deletes, Federated
    <3> QED
      BY <3>1 DEF LogsIn
  <2>4. Left(q)'
    <3>1. n.pc # "done"
      BY <1>3 DEF Reads, Blank, Finds, Chooses, Creates, GivesWay, Links, LogsIn, Counted, Deletes
    <3> QED
      BY <1>1, <3>1 DEF Left
  <2>5. HasAccount(q)'
    <3> SUFFICES ASSUME n.account # None
                 PROVE  Exists(n.account) <=> "user" \notin n.wrote
      BY <1>1, <1>3 DEF HasAccount, Open, Exists
    <3>1. CASE Finds(q, n)
      BY <1>2, <3>1 DEF Finds
    <3>2. CASE Chooses(q, n)
      BY <3>2 DEF Chooses, ByEmail
    <3>3. CASE Creates(q, n)
      BY <3>3 DEF Creates
    <3>4. CASE GivesWay(q, n) \/ Links(q, n)
      BY <1>1, <3>4 DEF GivesWay, Links, SameWrites, FactsOK, HasAccount, Open
    <3>5. CASE LogsIn(q, n)
      BY <3>5 DEF LogsIn
    <3>6. CASE Counted(q, n)
      BY <3>6 DEF Counted, SignedIn, RequestInv, FactsOK, Left
    <3>7. CASE Deletes(q, n)
      <4>1. r.kind = "unlink" /\ r.wrote \subseteq {"drop"} /\ r.pc = "unlinking" /\ r.account = n.account
        BY <1>1, <3>7 DEF Deletes, RecordOK, KindOK, WroteOK
      <4> QED
        BY <1>1, <3>7, <4>1 DEF Deletes, FactsOK, HasAccount, Open
    <3> QED
      BY <1>3, <3>1, <3>2, <3>3, <3>4, <3>5, <3>6, <3>7 DEF Reads, Blank, Bare
  <2> QED
    BY <2>1, <2>2, <2>3, <2>4, <2>5 DEF FactsOK
<1>4. CASE Ends(q, n)
  <2>1. /\ r.kind = n.kind /\ r.claims = n.claims /\ r.account = n.account /\ r.wrote = n.wrote
        /\ r.pc \in {"starting", "unlinking", "refusing"} /\ Open(q)
        /\ n.pc = IF r.pc = "refusing" THEN "refused" ELSE "done"
    BY <1>1, <1>4 DEF Ends, SameWrites, Alike, Open
  <2>2. ByAddress(q)'
    BY <1>1, <2>1 DEF ByAddress
  <2>3. Found(q)'
    <3> SUFFICES ASSUME n.pc = "done", n.kind \in Federated, "link" \notin n.wrote
                 PROVE  n.wrote = {} /\ Linked(n.account, n.claims.subject)'
      BY <1>1, <2>1 DEF Found, Linked
    <3>1. r.pc = "starting"
      BY <1>1, <2>1 DEF RecordOK, KindOK, Federated
    <3>2. n.wrote = {} /\ Linked(n.account, n.claims.subject)
      BY <1>1, <2>1, <3>1 DEF FactsOK, Found
    <3> QED
      BY <3>2, LinkedStays
  <2>4. GaveItsPassword(q)'
    <3> SUFFICES ASSUME n.kind \in {"login", "register"}, n.pc = "done"
                 PROVE  users'[n.account].password
      BY <1>1, <2>1 DEF GaveItsPassword
    <3>1. n.account \in Accounts
      BY <1>1 DEF RecordOK, AccountOK
    <3>2. CASE n.kind = "login"
      <4>1. r.pc = "starting"
        BY <1>1, <2>1, <3>2 DEF RecordOK, KindOK, Federated
      <4>2. users[n.account].password
        BY <1>1, <2>1, <3>2, <4>1 DEF FactsOK, GaveItsPassword
      <4>3. users'[n.account] = users[n.account]
        BY <3>1, <4>2, PasswordExists, ExistsStays
      <4> QED
        BY <4>2, <4>3
    <3>3. CASE n.kind = "register"
      <4>1. n.wrote = {"user"}
        BY <1>1, <3>3 DEF RecordOK, WroteOK
      <4>2. users'[n.account] = [email |-> n.claims.email, password |-> n.kind = "register"]
        BY <1>4, <3>1, <4>1 DEF Ends, RequestInv, TypeOK
      <4>3. users'[n.account].password = (n.kind = "register")
        BY <4>2
      <4> QED
        BY <3>3, <4>3
    <3> QED
      BY <3>2, <3>3
  <2>5. Left(q)'
    <3> SUFFICES ASSUME n.pc = "done"
                 PROVE  Exists(n.account)' /\ ("link" \in n.wrote => Matches(n)')
      BY <1>1 DEF Left, Matches, Exists
    <3>1. n.account \in Accounts
      BY <1>1 DEF RecordOK, AccountOK
    <3>2. CASE "user" \in n.wrote
      <4>1. users'[n.account] = [email |-> n.claims.email, password |-> n.kind = "register"]
        BY <1>4, <3>1, <3>2 DEF Ends, RequestInv, TypeOK
      <4>2. n.claims.email \in Emails
        BY <1>1, <3>2, UserRows
      <4>3. users'[n.account] # NoUser
        BY <4>1, <4>2, RowOfUser
      <4> QED
        BY <4>1, <4>3 DEF Exists, Matches
    <3>3. CASE "user" \notin n.wrote
      <4>1. Exists(n.account)
        BY <1>1, <2>1, <3>1, <3>3, Apart DEF FactsOK, HasAccount
      <4>2. "link" \in n.wrote => r.pc = "starting"
        BY <1>1, <2>1 DEF RecordOK, KindOK, WroteOK
      <4>3. "link" \in n.wrote => Matches(n)
        BY <1>1, <2>1, <3>3, <4>2 DEF FactsOK, ByAddress, Matches
      <4> QED
        BY <3>1, <4>1, <4>3, ExistsStays DEF Matches
    <3> QED
      BY <3>2, <3>3
  <2>6. HasAccount(q)'
    BY <1>1, <2>1 DEF HasAccount, Open
  <2> QED
    BY <2>2, <2>3, <2>4, <2>5, <2>6 DEF FactsOK
<1> QED
  BY <1>3, <1>4 DEF Turn

-----------------------------------------------------------------------------
(* What requests keep from each other *)

\* What an open request has written after its step, and by which statement.
LEMMA WritesAfter ==
    ASSUME RequestInv, NEW q \in Requests, NEW n, Turn(q, n), n.pc \notin {"idle", "done", "refused"}
    PROVE  /\ UNCHANGED <<users, identities>>
           /\ "user" \in n.wrote =>
                 \/ \A p \in Requests : Open(p) => request[p].account # n.account
                 \/ Writing(q, {"user"}) /\ request[q].account = n.account
           /\ n.wrote \cap {"link", "drop"} # {} =>
                 /\ NobodyElseHolds(q, "subject") /\ n.claims = request[q].claims
                 /\ "link" \in n.wrote => identities[n.claims.subject] = None
                 /\ "drop" \in n.wrote => identities[n.claims.subject] = n.account
<1>1. /\ n \in Request /\ RecordOK(n) /\ request[q] \in Request /\ RecordOK(request[q])
  BY InvRecorded, TurnRecords DEF RequestInv, TypeOK
<1>2. Reads(q, n) /\ UNCHANGED <<users, identities>>
  BY DEF Turn, Ends
<1>3. CASE n.wrote = {}
  BY <1>2, <1>3
<1>4. CASE Creates(q, n)
  BY <1>2, <1>4 DEF Creates
<1>5. CASE GivesWay(q, n)
  <2>1. n.wrote \subseteq {"user"} /\ Open(q) /\ n.wrote = request[q].wrote /\ n.account = request[q].account
    BY <1>1, <1>5 DEF GivesWay, SameWrites, RecordOK, WroteOK, Open
  <2> QED
    BY <1>2, <2>1 DEF Writing
<1>6. CASE Links(q, n)
  <2>1. request[q].wrote \subseteq {"user"} /\ Open(q)
    BY <1>1, <1>6 DEF Links, RecordOK, WroteOK, Open
  <2>2. "drop" \notin n.wrote /\ ("user" \in n.wrote => "user" \in request[q].wrote)
    BY <1>6, <2>1 DEF Links
  <2> QED
    BY <1>2, <1>6, <2>1, <2>2 DEF Links, Alike, Writing
<1>7. CASE Deletes(q, n)
  BY <1>2, <1>7 DEF Deletes, Alike
<1> QED
  BY <1>2, <1>3, <1>4, <1>5, <1>6, <1>7 DEF Reads, Blank, Bare, Finds, Chooses, LogsIn, Counted

LEMMA WritersApartKept ==
    ASSUME RequestInv, NEW q \in Requests, NEW n, Turn(q, n)
    PROVE  WritersApart'
<1>1. /\ request'[q] = n /\ n \in Request
      /\ \A p \in Requests \ {q} : request'[p] = request[p]
  BY InvRecorded, TurnRecords
<1>2. ASSUME NEW p \in Requests \ {q}, NEW what
      PROVE  Writing(p, what)' <=> Writing(p, what)
  BY <1>1 DEF Writing, Open
<1>3. ASSUME NEW p \in Requests \ {q}, Writing(q, {"user"})', Writing(p, {"user"})
      PROVE  n.account # request[p].account
  <2>1. n.pc \notin {"idle", "done", "refused"} /\ "user" \in n.wrote
    BY <1>1, <1>3 DEF Writing, Open
  <2>2. \/ Open(p) => request[p].account # n.account
        \/ Writing(q, {"user"}) /\ request[q].account = n.account
    BY <2>1, WritesAfter
  <2> QED
    BY <1>3, <2>2 DEF RequestInv, WritersApart, Writing
<1>4. ASSUME NEW p \in Requests \ {q}, Writing(q, {"link", "drop"})', Writing(p, {"link", "drop"})
      PROVE  n.claims.subject # request[p].claims.subject
  <2>1. n.pc \notin {"idle", "done", "refused"} /\ n.wrote \cap {"link", "drop"} # {}
    BY <1>1, <1>4 DEF Writing, Open
  <2>2. NobodyElseHolds(q, "subject") /\ n.claims = request[q].claims
    BY <2>1, WritesAfter
  <2> QED
    BY <1>4, <2>2 DEF NobodyElseHolds, Holding, Writing
<1>5. ASSUME NEW x \in Requests, NEW y \in Requests, x # y
      PROVE  /\ Writing(x, {"user"})' /\ Writing(y, {"user"})' => request'[x].account # request'[y].account
             /\ Writing(x, {"link", "drop"})' /\ Writing(y, {"link", "drop"})'
                  => request'[x].claims.subject # request'[y].claims.subject
  <2>1. CASE x # q /\ y # q
    BY <1>1, <1>2, <1>5, <2>1 DEF RequestInv, WritersApart
  <2>2. CASE x = q
    <3>1. y \in Requests \ {q} /\ request'[y] = request[y] /\ request'[x] = n
      BY <1>1, <1>5, <2>2
    <3> QED
      BY <1>2, <1>3, <1>4, <2>2, <3>1
  <2>3. CASE y = q
    <3>1. x \in Requests \ {q} /\ request'[x] = request[x] /\ request'[y] = n
      BY <1>1, <1>5, <2>3
    <3> QED
      BY <1>2, <1>3, <1>4, <2>3, <3>1
  <2> QED
    BY <2>1, <2>2, <2>3
<1> QED
  BY <1>5 DEF WritersApart

LEMMA RowsAsFoundKept ==
    ASSUME RequestInv, NEW q \in Requests, NEW n, Turn(q, n)
    PROVE  RowsAsFound'
<1>1. /\ request'[q] = n /\ n \in Request /\ RecordOK(n)
      /\ \A p \in Requests \ {q} : request'[p] = request[p]
  BY InvRecorded, TurnRecords
<1>2. ASSUME NEW what \in {"link", "drop"}, Writing(q, {what})'
      PROVE  /\ what = "link" => identities'[n.claims.subject] = None
             /\ what = "drop" => identities'[n.claims.subject] = n.account
  <2>1. n.pc \notin {"idle", "done", "refused"} /\ what \in n.wrote
    BY <1>1, <1>2 DEF Writing, Open
  <2>2. n.wrote \cap {"link", "drop"} # {}
    BY <2>1
  <2> QED
    BY <2>1, <2>2, WritesAfter
<1>3. ASSUME NEW p \in Requests \ {q}, NEW what \in {"link", "drop"}, Writing(p, {what})
      PROVE  identities'[request[p].claims.subject] = identities[request[p].claims.subject]
  <2>1. CASE Reads(q, n) /\ UNCHANGED <<users, identities>>
    BY <2>1
  <2>2. CASE Ends(q, n)
    <3>1. n.wrote = request[q].wrote /\ n.claims = request[q].claims /\ Open(q)
      BY <2>2 DEF Ends, SameWrites, Alike, Open
    <3>2. CASE n.wrote \cap {"link", "drop"} = {}
      BY <2>2, <3>2 DEF Ends
    <3>3. CASE n.wrote \cap {"link", "drop"} # {}
      <4>1. Writing(p, {"link", "drop"}) /\ Writing(q, {"link", "drop"})
        BY <1>3, <3>1, <3>3 DEF Writing
      <4>2. n.claims.subject # request[p].claims.subject
        BY <3>1, <4>1 DEF RequestInv, WritersApart
      <4>3. /\ request[p] \in Request /\ RecordOK(request[p]) /\ request[p].wrote \cap {"link", "drop"} # {}
        BY <4>1 DEF RequestInv, TypeOK, Writing
      <4>4. request[p].claims.subject \in Subjects
        BY <4>3, LinkRows
      <4> QED
        BY <2>2, <3>3, <4>2, <4>4 DEF Ends, RequestInv, TypeOK
    <3> QED
      BY <3>2, <3>3
  <2> QED
    BY <2>1, <2>2 DEF Turn
<1>4. ASSUME NEW p \in Requests \ {q}, NEW what \in {"link", "drop"}
      PROVE  Writing(p, {what})' <=> Writing(p, {what})
  BY <1>1 DEF Writing, Open
<1> QED
  BY <1>1, <1>2, <1>3, <1>4 DEF RequestInv, RowsAsFound

\* A half-finished sign-in that is gone stays gone: its handle is given out once.
LEMMA GoneForGood ==
    ASSUME TypeOK, [Next]_vars, NEW f \in Flows, flows[f] = "gone"
    PROVE  flows'[f] = "gone"
  BY FlowMoves DEF TypeOK

\* A request takes a flow nobody has taken, or keeps the one it had.
LEMMA FlowTaken ==
    ASSUME Recorded, NEW q \in Requests, Arrive(q) \/ GoOn(q) \/ Rollback(q)
    PROVE  \E n : /\ Steps(q, n)
                  /\ \/ n.flow \in {None, request[q].flow}
                     \/ n.flow \in Flows /\ flows[n.flow] = "pending" /\ flows'[n.flow] = "gone"
<1> USE DEF Recorded
<1>1. ASSUME NEW f \in Flows, Callback(q, f)
      PROVE  \E n : /\ Steps(q, n)
                    /\ \/ n.flow \in {None, request[q].flow}
                       \/ n.flow \in Flows /\ flows[n.flow] = "pending" /\ flows'[n.flow] = "gone"
  <2>1. CASE Steps(q, Refused)
    BY <2>1, Refusals
  <2>2. CASE ~Steps(q, Refused)
    <3>1. PICK n : Steps(q, n) /\ n.flow = f /\ flows[f] = "pending" /\ flows' = Taken(f)
      BY <1>1, <2>2, CallbackSteps
    <3>2. flows'[f] = "gone"
      BY <3>1 DEF Taken, TypeOK
    <3> QED
      BY <3>1, <3>2
  <2> QED
    BY <2>1, <2>2
<1>2. ASSUME NEW n, Steps(q, n), Alike(n, request[q]) \/ n.flow = None
      PROVE  \E m : /\ Steps(q, m)
                    /\ \/ m.flow \in {None, request[q].flow}
                       \/ m.flow \in Flows /\ flows[m.flow] = "pending" /\ flows'[m.flow] = "gone"
  BY <1>2 DEF Alike
<1>3. Refused.flow = None
  BY Refusals
<1>4. ASSUME NEW f \in Flows, TakeFails(q, f) PROVE Steps(q, Refused)
  BY <1>4, TakeFailsSteps
<1>5. ASSUME NEW c \in Claims, Adopt(q, c) PROVE \E n : Steps(q, n) /\ n.flow = None
  BY <1>5, AdoptSteps
<1>6. ASSUME NEW e \in Emails, Register(q, e) \/ Login(q, e) PROVE \E n : Steps(q, n) /\ n.flow = None
  BY <1>3, <1>6, RegisterSteps, LoginSteps
<1>7. ASSUME NEW a \in Accounts, NEW s \in Subjects, Unlink(q, a, s) PROVE \E n : Steps(q, n) /\ n.flow = None
  BY <1>3, <1>7, UnlinkSteps
<1>8. Exchange(q) => \E n : Steps(q, n) /\ n.flow \in {None, request[q].flow}
  BY <1>3, ExchangeSteps
<1>9. Find(q) => \E n : Steps(q, n) /\ Alike(n, request[q])
  BY FindSteps
<1>10. Match(q) \/ CreateUser(q) \/ Link(q) \/ DeleteLink(q)
         => \E n : Steps(q, n) /\ (Alike(n, request[q]) \/ n.flow = None)
  BY <1>3, MatchSteps, CreateUserSteps, LinkSteps, DeleteLinkSteps
<1>11. Commit(q) => \E n : Steps(q, n) /\ Alike(n, request[q])
  BY CommitSteps
<1>12. Rollback(q) => Steps(q, Refused)
  BY RollbackSteps
<1> QED
  BY <1>1, <1>2, <1>3, <1>4, <1>5, <1>6, <1>7, <1>8, <1>9, <1>10, <1>11, <1>12 DEF Arrive, GoOn

LEMMA TakenOnceKept ==
    ASSUME RequestInv, [Next]_vars
    PROVE  TakenOnce'
<1>1. TypeOK /\ Recorded /\ TakenOnce
  BY InvRecorded DEF RequestInv
<1>2. \A f \in Flows : flows[f] = "gone" => flows'[f] = "gone"
  BY <1>1, GoneForGood
<1>3. ASSUME NEW p \in Requests, request[p].flow # None PROVE request[p].flow \in Flows
  BY <1>1, <1>3 DEF TypeOK, Request
<1>4. CASE UNCHANGED request
  BY <1>1, <1>2, <1>3, <1>4 DEF TakenOnce
<1>5. ASSUME NEW q \in Requests, Arrive(q) \/ GoOn(q) \/ Rollback(q) PROVE TakenOnce'
  <2>1. PICK n : /\ Steps(q, n)
                 /\ \/ n.flow \in {None, request[q].flow}
                    \/ n.flow \in Flows /\ flows[n.flow] = "pending" /\ flows'[n.flow] = "gone"
    BY <1>1, <1>5, FlowTaken
  <2>2. request'[q] = n /\ \A p \in Requests \ {q} : request'[p] = request[p]
    BY <1>1, <2>1 DEF Steps, TypeOK
  <2>3. CASE n.flow = None
    BY <1>1, <1>2, <1>3, <2>2, <2>3 DEF TakenOnce
  <2>4. CASE n.flow = request[q].flow
    BY <1>1, <1>2, <1>3, <2>2, <2>4 DEF TakenOnce
  <2>5. CASE n.flow \in Flows /\ flows[n.flow] = "pending" /\ flows'[n.flow] = "gone"
    <3>1. \A p \in Requests : request[p].flow # n.flow
      BY <1>1, <2>5, Apart DEF TakenOnce
    <3> QED
      BY <1>1, <1>2, <1>3, <2>2, <2>5, <3>1 DEF TakenOnce
  <2> QED
    BY <2>1, <2>3, <2>4, <2>5
<1> QED
  BY <1>4, <1>5 DEF Next, vars, StartFlow, FlowExpires

\* A link is the doing of a request that has ended, with an account that had
\* nothing else where the deployment does not link by address.
LEMMA LinksLeftKept ==
    ASSUME RequestInv, LinksLeft, NEW q \in Requests, NEW n, Turn(q, n)
    PROVE  LinksLeft'
<1>1. /\ request'[q] = n /\ n \in Request /\ RecordOK(n) /\ FactsOK(q) /\ deployment' = deployment
      /\ request[q] \in Request /\ RecordOK(request[q])
  BY InvRecorded, TurnRecords DEF RequestInv, TypeOK, Turn
<1>2. ASSUME NEW s \in Subjects, NEW b, b = identities[s], b # None
      PROVE  b \in Accounts /\ Exists(b) /\ users'[b] = users[b] /\ Linked(b, s)'
  <2>1. Linked(b, s)
    BY <1>2 DEF LinksLeft
  <2>2. b \in Accounts /\ Exists(b)
    BY <2>1, LinkedExists
  <2> QED
    BY <2>1, <2>2, LinkedStays, ExistsStays
<1>3. CASE UNCHANGED identities
  BY <1>1, <1>2, <1>3 DEF LinksLeft
<1>4. CASE Ends(q, n) /\ "link" \notin n.wrote
  <2>1. \A s \in Subjects : identities'[s] \in {identities[s], None}
    BY <1>4 DEF Ends, RequestInv, TypeOK
  <2> QED
    BY <1>1, <1>2, <2>1 DEF LinksLeft
<1>5. CASE Ends(q, n) /\ "link" \in n.wrote
  <2> DEFINE u == n.claims.subject
             a == n.account
  <2>1. /\ u \in Subjects /\ a \in Accounts /\ n.kind \in Federated /\ n.pc = "done" /\ "drop" \notin n.wrote
        /\ a = request[q].account /\ n.wrote = request[q].wrote /\ request[q].pc = "starting" /\ Open(q)
    <3>1. n.wrote \cap {"link", "drop"} # {} /\ n.pc # "refused"
      BY <1>1, <1>5 DEF RecordOK, WroteOK
    <3>2. u \in Subjects /\ a \in Accounts /\ n.kind \in Federated /\ "drop" \notin n.wrote
      BY <1>1, <1>5, <3>1, LinkRows DEF Federated
    <3>3. request[q].pc # "unlinking"
      BY <1>1, <1>5, <3>2 DEF Ends, SameWrites, Alike, RecordOK, KindOK, Federated
    <3> QED
      BY <1>5, <3>1, <3>2, <3>3 DEF Ends, SameWrites, Open
  <2>2. identities' = [identities EXCEPT ![u] = a] /\ identities'[u] = a
    <3>1. identities' = [identities EXCEPT ![u] = a]
      BY <1>5, <2>1 DEF Ends
    <3>2. identities \in [Subjects -> Accounts \cup {None}]
      BY DEF RequestInv, TypeOK
    <3> QED
      BY <2>1, <3>1, <3>2
  <2>3. \A s \in Subjects \ {u} : identities'[s] = identities[s]
    BY <2>2 DEF RequestInv, TypeOK
  <2>4. Linked(a, u)'
    BY <1>1, <1>5, <2>1 DEF Linked
  <2>5. ASSUME ~deployment.linking
        PROVE  ~users'[a].password /\ \A s \in Subjects : identities[s] # a
    <3>1. "user" \in n.wrote
      BY <1>1, <1>5, <2>1, <2>5 DEF FactsOK, ByAddress
    <3>2. ~Exists(a)
      BY <1>1, <2>1, <3>1, Apart DEF FactsOK, HasAccount
    <3>3. users'[a] = [email |-> n.claims.email, password |-> n.kind = "register"]
      BY <1>5, <2>1, <3>1 DEF Ends, RequestInv, TypeOK
    <3>4. users'[a].password = (n.kind = "register") /\ n.kind # "register"
      BY <2>1, <3>3 DEF Federated
    <3>5. ~users'[a].password
      BY <3>4
    <3>6. \A s \in Subjects : identities[s] # a
      BY <1>2, <2>1, <3>2, Apart
    <3> QED
      BY <3>5, <3>6
  <2>6. ASSUME NEW s \in Subjects, identities'[s] # None, ~deployment.linking
        PROVE  ~users'[identities'[s]].password /\ \A v \in Subjects \ {s} : identities'[v] # identities'[s]
    <3>1. CASE s = u
      BY <2>2, <2>3, <2>5, <2>6, <3>1
    <3>2. CASE s # u
      <4>1. identities'[s] = identities[s] /\ identities[s] # None /\ identities[s] # a
        BY <2>3, <2>5, <2>6, <3>2
      <4>2. ~users[identities[s]].password /\ \A v \in Subjects \ {s} : identities[v] # identities[s]
        BY <2>6, <4>1 DEF LinksLeft
      <4>3. users'[identities[s]] = users[identities[s]]
        BY <1>2, <4>1
      <4>4. ~users'[identities'[s]].password
        BY <4>1, <4>2, <4>3
      <4>5. \A v \in Subjects \ {s} : identities'[v] # identities'[s]
        BY <2>2, <2>3, <4>1, <4>2
      <4> QED
        BY <4>4, <4>5
    <3> QED
      BY <3>1, <3>2
  <2>8. ASSUME NEW s \in Subjects, identities'[s] # None
        PROVE  \E p \in Requests : /\ request'[p].pc = "done" /\ "link" \in request'[p].wrote
                                   /\ request'[p].account = identities'[s] /\ request'[p].claims.subject = s
    <3>1. CASE s = u
      BY <2>2, <2>4, <3>1 DEF Linked
    <3>2. CASE s # u
      BY <1>2, <2>3, <2>8, <3>2 DEF Linked
    <3> QED
      BY <3>1, <3>2
  <2> QED
    BY <1>1, <2>6, <2>8 DEF LinksLeft, Linked
<1> QED
  BY <1>3, <1>4, <1>5 DEF Turn

-----------------------------------------------------------------------------
(* Ways in *)

LEMMA MoreThanOne ==
    ASSUME NEW S, IsFiniteSet(S)
    PROVE  Cardinality(S) > 1 <=> Several(S)
<1>1. Cardinality(S) \in Nat
  BY FS_CardinalityType
<1>2. CASE S = {}
  BY <1>2, FS_EmptySet DEF Several
<1>3. ASSUME NEW x \in S PROVE Cardinality(S) > 1 <=> Several(S)
  <2> DEFINE T == S \ {x}
  <2>1. IsFiniteSet(T) /\ Cardinality(T) = Cardinality(S) - 1
    BY FS_RemoveElement
  <2>2. Cardinality(T) \in Nat /\ (Cardinality(T) = 0 <=> T = {})
    BY <2>1, FS_CardinalityType, FS_EmptySet
  <2>3. T # {} <=> Several(S)
    BY DEF Several
  <2> HIDE DEF T
  <2> QED
    BY <1>1, <2>1, <2>2, <2>3
<1> QED
  BY <1>2, <1>3

LEMMA SeveralGrows ==
    ASSUME NEW S, NEW T, S \subseteq T, Several(S)
    PROVE  Several(T)
  BY DEF Several

\* Who counted two identities had another way in.
LEMMA CountedTwo ==
    ASSUME TypeOK, NEW a \in Accounts, MayUnlink(a), ~users[a].password
    PROVE  Several(Ways(a))
<1>1. Cardinality(Ways(a)) > 1
  BY DEF MayUnlink, Ways
<1>2. IsFiniteSet(Ways(a))
  BY Finitely, FS_Subset DEF Ways
<1> QED
  BY <1>1, <1>2, MoreThanOne

LEMMA UnlinkedGrows ==
    ASSUME RequestInv, NEW q \in Requests, NEW n, Turn(q, n), NEW a \in Accounts
    PROVE  /\ Unlinked(a) \subseteq Unlinked(a)'
           /\ q \notin Unlinked(a)
           /\ Orphaned(a) => Orphaned(a)'
  BY InvRecorded, TurnRecords DEF Unlinked, Orphaned, Turn

LEMMA WaysLeftKept ==
    ASSUME RequestInv, LinksLeft, NEW q \in Requests, NEW n, Turn(q, n), NEW a \in Accounts, WaysLeft(a)
    PROVE  WaysLeft(a)'
<1>1. /\ request'[q] = n /\ n \in Request /\ RecordOK(n) /\ FactsOK(q)
      /\ request[q] \in Request /\ RecordOK(request[q])
      /\ \A p \in Requests \ {q} : request'[p] = request[p]
  BY InvRecorded, TurnRecords DEF RequestInv, TypeOK
<1>2. \A s \in Subjects : identities[s] # None => identities[s] \in Accounts /\ Exists(identities[s])
  BY LinkedExists DEF LinksLeft
<1>3. Unlinked(a) \subseteq Unlinked(a)' /\ q \notin Unlinked(a) /\ (Orphaned(a) => Orphaned(a)')
  BY UnlinkedGrows
<1>4. Several(Unlinked(a)) => Several(Unlinked(a)')
  BY <1>3, SeveralGrows
<1> SUFFICES ASSUME Exists(a)', ~users'[a].password, ~Orphaned(a)'
             PROVE  /\ Ways(a)' = {} => Several(Unlinked(a)')
                    /\ (\E p \in Requests : Unlinking(p, a)') => Several(Ways(a)') \/ Unlinked(a)' # {}
  BY DEF WaysLeft, Several
<1>5. CASE Reads(q, n) /\ UNCHANGED <<users, identities>>
  <2>1. Ways(a)' = Ways(a) /\ Exists(a) /\ ~users[a].password /\ ~Orphaned(a)
    BY <1>3, <1>5 DEF Ways, Exists
  <2>2. ASSUME NEW p \in Requests, Unlinking(p, a)'
        PROVE  (\E x \in Requests : Unlinking(x, a)) \/ Several(Ways(a))
    <3>1. CASE p # q
      BY <1>1, <2>2, <3>1 DEF Unlinking
    <3>2. CASE p = q
      <4>1. n.pc = "unlinking" /\ n.account = a
        BY <1>1, <2>2, <3>2 DEF Unlinking
      <4>2. Counted(q, n) \/ Deletes(q, n)
        BY <1>5, <4>1 DEF Reads, Blank, Finds, Chooses, Creates, GivesWay, Links, LogsIn
      <4>3. CASE Counted(q, n)
        BY <2>1, <4>1, <4>3, CountedTwo DEF Counted, RequestInv
      <4>4. CASE Deletes(q, n)
        BY <4>1, <4>4 DEF Deletes, Unlinking
      <4> QED
        BY <4>2, <4>3, <4>4
    <3> QED
      BY <3>1, <3>2
  <2> QED
    BY <1>3, <1>4, <2>1, <2>2 DEF WaysLeft
<1>6. CASE Ends(q, n)
  <2>1. /\ n.account = request[q].account /\ n.wrote = request[q].wrote /\ n.claims = request[q].claims
        /\ n.kind = request[q].kind
        /\ request[q].pc \in {"starting", "unlinking", "refusing"} /\ Open(q)
        /\ n.pc = IF request[q].pc = "refusing" THEN "refused" ELSE "done"
    BY <1>6 DEF Ends, SameWrites, Alike, Open
  <2>2. ASSUME NEW p \in Requests, Unlinking(p, a)' PROVE p # q /\ Unlinking(p, a)
    BY <1>1, <2>1, <2>2 DEF Unlinking
  <2>3. CASE ~Exists(a)
    <3>1. users'[a] # users[a]
      BY <2>3 DEF Exists
    <3>2. "user" \in n.wrote /\ a = n.account
      BY <3>1, UserRowsStay
    <3>3. users'[a] = [email |-> n.claims.email, password |-> n.kind = "register"]
      BY <1>6, <3>2 DEF Ends, RequestInv, TypeOK
    <3>4. users'[a].password = (n.kind = "register")
      BY <3>3
    <3>5. n.kind \in Federated
      BY <1>1, <3>2, <3>4, UserRows DEF Federated
    <3>6. n.pc # "refused"
      <4>1. ASSUME n.pc = "refused" PROVE FALSE
        <5>1. n.wrote = {"user"}
          BY <1>1, <3>2, <4>1 DEF RecordOK, WroteOK
        <5>2. n.kind = "callback"
          BY <2>1, <1>1, <4>1 DEF RecordOK, KindOK
        <5> QED
          BY <1>1, <3>2, <4>1, <5>1, <5>2 DEF Orphaned
      <4> QED
        BY <4>1
    <3>7. request[q].pc = "starting"
      BY <1>1, <2>1, <3>5, <3>6 DEF RecordOK, KindOK, Federated
    <3>8. "link" \in n.wrote
      BY <1>1, <2>1, <3>2, <3>5, <3>7 DEF FactsOK, Found
    <3>9. n.claims.subject \in Subjects /\ "drop" \notin n.wrote
      BY <1>1, <3>5, <3>8, LinkRows DEF Federated
    <3>10. identities'[n.claims.subject] = a
      BY <1>6, <3>2, <3>8, <3>9 DEF Ends, RequestInv, TypeOK
    <3>11. Ways(a)' # {}
      BY <3>9, <3>10 DEF Ways
    <3>12. ASSUME NEW p \in Requests, Unlinking(p, a) PROVE FALSE
      <4>1. Open(p) /\ request[p].account = a /\ a # None
        BY <3>12, Apart DEF Unlinking, Open
      <4>2. request[p].kind = "unlink" /\ request[p].wrote \subseteq {"drop"}
        BY <3>12 DEF Unlinking, RequestInv, RecordOK, KindOK, WroteOK
      <4> QED
        BY <2>3, <4>1, <4>2 DEF RequestInv, FactsOK, HasAccount
    <3> QED
      BY <2>2, <3>11, <3>12
  <2>4. CASE Exists(a)
    <3>1. users'[a] = users[a]
      BY <2>4, ExistsStays
    <3>2. ~users[a].password /\ ~Orphaned(a)
      BY <1>3, <3>1
    <3>3. /\ Ways(a) = {} => Several(Unlinked(a))
          /\ (\E p \in Requests : Unlinking(p, a)) => Several(Ways(a)) \/ Unlinked(a) # {}
      BY <2>4, <3>2 DEF WaysLeft
    <3>4. ASSUME Ways(a) \subseteq Ways(a)'
          PROVE  /\ Ways(a)' = {} => Several(Unlinked(a)')
                 /\ (\E p \in Requests : Unlinking(p, a)') => Several(Ways(a)') \/ Unlinked(a)' # {}
      <4>1. Several(Ways(a)) => Several(Ways(a)')
        BY <3>4, SeveralGrows
      <4> QED
        BY <1>3, <1>4, <2>2, <3>3, <3>4, <4>1
    <3>5. CASE n.wrote \cap {"link", "drop"} = {}
      BY <1>6, <3>4, <3>5 DEF Ends, Ways
    <3>6. CASE "link" \in n.wrote
      <4>1. n.claims.subject \in Subjects /\ "drop" \notin n.wrote
        BY <1>1, <3>6, LinkRows DEF Federated
      <4>2. identities[n.claims.subject] = None
        BY <2>1, <3>6 DEF RequestInv, RowsAsFound, Writing
      <4>3. identities' = [identities EXCEPT ![n.claims.subject] = n.account]
        BY <1>6, <3>6, <4>1 DEF Ends
      <4>4. identities \in [Subjects -> Accounts \cup {None}]
        BY DEF RequestInv, TypeOK
      <4>5. Ways(a) \subseteq Ways(a)'
        BY <4>1, <4>2, <4>3, <4>4, Apart DEF Ways
      <4> QED
        BY <3>4, <4>5
    <3>7. CASE "drop" \in n.wrote
      <4>1. /\ n.claims.subject \in Subjects /\ n.kind = "unlink" /\ n.wrote = {"drop"}
        BY <1>1, <3>7, LinkRows
      <4>2. identities[n.claims.subject] = n.account
        BY <2>1, <3>7 DEF RequestInv, RowsAsFound, Writing
      <4>3. identities' = [identities EXCEPT ![n.claims.subject] = None]
        BY <1>6, <4>1 DEF Ends
      <4>4. identities \in [Subjects -> Accounts \cup {None}]
        BY DEF RequestInv, TypeOK
      <4>5. request[q].pc = "unlinking" /\ n.pc = "done"
        BY <1>1, <2>1, <4>1 DEF RecordOK, KindOK, Federated
      <4>6. CASE n.account # a
        <5>1. Ways(a) \subseteq Ways(a)'
          BY <4>1, <4>2, <4>3, <4>4, <4>6 DEF Ways
        <5> QED
          BY <3>4, <5>1
      <4>7. CASE n.account = a
        <5>1. q \in Unlinked(a)'
          BY <1>1, <4>1, <4>5, <4>7 DEF Unlinked
        <5>2. Unlinking(q, a)
          BY <2>1, <4>5, <4>7 DEF Unlinking
        <5>3. Ways(a) \subseteq Ways(a)' \cup {n.claims.subject}
          BY <4>1, <4>2, <4>3, <4>4 DEF Ways
        <5>4. Ways(a)' = {} => Unlinked(a) # {}
          BY <3>3, <5>2, <5>3 DEF Several
        <5>5. Ways(a)' = {} => Several(Unlinked(a)')
          BY <1>3, <5>1, <5>4 DEF Several
        <5> QED
          BY <5>1, <5>5
      <4> QED
        BY <4>6, <4>7
    <3> QED
      BY <3>5, <3>6, <3>7
  <2> QED
    BY <2>3, <2>4
<1> QED
  BY <1>5, <1>6 DEF Turn

-----------------------------------------------------------------------------
(* All of it, and what follows *)

LEMMA InvInit ==
    ASSUME Init
    PROVE  AccountInv
<1> USE Refusals DEF Init
<1>1. TypeOK
  BY DEF TypeOK
<1>2. \A q \in Requests : request[q] = Fresh
  OBVIOUS
<1>3. ASSUME NEW q \in Requests PROVE RecordOK(request[q]) /\ FactsOK(q)
  <2>1. RecordOK(Fresh)
    BY DEF RecordOK, KindOK, ClaimsOK, AccountOK, WroteOK, Federated, Bare
  <2> QED
    BY <1>2, <2>1 DEF FactsOK, ByAddress, Found, GaveItsPassword, Left, HasAccount, Open
<1>4. WritersApart /\ RowsAsFound /\ TakenOnce
  BY <1>2 DEF WritersApart, RowsAsFound, TakenOnce, Writing, Open
<1>5. LinksLeft
  BY DEF LinksLeft
<1>6. \A a \in Accounts : ~Exists(a)
  BY DEF Exists
<1> QED
  BY <1>1, <1>3, <1>4, <1>5, <1>6 DEF AccountInv, RequestInv, WaysLeft

LEMMA InvNext ==
    ASSUME AccountInv, [Next]_vars
    PROVE  AccountInv'
<1>1. RequestInv /\ LinksLeft /\ Recorded
  BY InvRecorded DEF AccountInv
<1>2. Recorded' /\ TakenOnce'
  BY <1>1, RecordedKept, TakenOnceKept
<1>3. ASSUME NEW q \in Requests, NEW n, Turn(q, n) PROVE AccountInv'
  <2>1. \A p \in Requests : FactsOK(p)'
    BY <1>1, <1>3, ItselfKeeps, OthersKeep
  <2>2. WritersApart' /\ RowsAsFound'
    BY <1>1, <1>3, WritersApartKept, RowsAsFoundKept
  <2>3. LinksLeft'
    BY <1>1, <1>3, LinksLeftKept
  <2>4. \A a \in Accounts : WaysLeft(a)'
    BY <1>1, <1>3, WaysLeftKept DEF AccountInv
  <2> QED
    BY <1>2, <2>1, <2>2, <2>3, <2>4 DEF AccountInv, RequestInv, Recorded
<1>4. CASE UNCHANGED <<Rows, request>>
  <2>1. \A p \in Requests : FactsOK(p)'
    BY <1>1, <1>4 DEF Rows, RequestInv, FactsOK, ByAddress, Matches, Found, Linked, GaveItsPassword, Left, HasAccount,
       Exists, Open
  <2>2. WritersApart' /\ RowsAsFound'
    BY <1>1, <1>4 DEF Rows, RequestInv, WritersApart, RowsAsFound, Writing, Open
  <2>3. LinksLeft'
    BY <1>1, <1>4 DEF Rows, LinksLeft, Linked
  <2>4. \A a \in Accounts : WaysLeft(a)'
    BY <1>4 DEF Rows, AccountInv, WaysLeft, Ways, Unlinked, Unlinking, Orphaned, Exists, Several
  <2> QED
    BY <1>2, <2>1, <2>2, <2>3, <2>4 DEF AccountInv, RequestInv, Recorded
<1> QED
  BY <1>1, <1>3, <1>4, AllSteps

\* What the theorems below follow from.
LEMMA Accounted == Spec => []AccountInv
<1>1. Init => AccountInv
  BY InvInit
<1>2. AccountInv /\ [Next]_vars => AccountInv'
  BY InvNext
<1> QED
  BY <1>1, <1>2, PTL DEF Spec

\* Rows, flows and requests have their types: what is committed is a row of the
\* table it is in (db/models/user.py, db/models/identity.py).
THEOREM AccountTypesKept == Spec => []TypeOK
<1>1. AccountInv => TypeOK
  BY DEF AccountInv, RequestInv
<1> QED
  BY <1>1, Accounted, PTL

\* An identity is attached to an account whose address the provider verified for
\* it, and where the deployment does not link by address only to an account
\* created for it (auth/federation.py, rules 2 and 3).
THEOREM LinksStayEarned == Spec => []LinksAreEarned
<1>1. ASSUME AccountInv, NEW s \in Subjects, identities[s] # None
      PROVE  /\ Exists(identities[s]) /\ Proved(s, users[identities[s]].email)
             /\ ~deployment.linking =>
                /\ ~users[identities[s]].password
                /\ \A u \in Subjects \ {s} : identities[u] # identities[s]
  <2>1. RequestInv /\ LinksLeft
    BY <1>1 DEF AccountInv
  <2>2. PICK q \in Requests : /\ request[q].pc = "done" /\ "link" \in request[q].wrote
                              /\ request[q].account = identities[s] /\ request[q].claims.subject = s
    BY <1>1, <2>1 DEF LinksLeft, Linked
  <2>3. /\ request[q] \in Request /\ RecordOK(request[q]) /\ FactsOK(q)
    BY <2>1 DEF RequestInv, TypeOK
  <2>4. Exists(identities[s]) /\ users[identities[s]].email = request[q].claims.email
    BY <2>2, <2>3 DEF FactsOK, Left, Matches
  <2>5. request[q].claims.verified
    BY <2>2, <2>3, LinkRows
  <2>6. request[q].claims = [subject |-> s, email |-> users[identities[s]].email, verified |-> TRUE]
    <3>1. request[q].claims \in Claims
      BY <2>3 DEF Request
    <3>2. request[q].claims.verified = TRUE
      BY <2>5, <3>1 DEF Claims
    <3> QED
      BY <2>2, <2>4, <3>1, <3>2 DEF Claims
  <2> QED
    BY <1>1, <2>1, <2>4, <2>6 DEF Proved, LinksLeft
<1>2. AccountInv => LinksAreEarned
  BY <1>1 DEF LinksAreEarned
<1> QED
  BY <1>2, Accounted, PTL

\* A sign-in lets somebody into the account their subject was linked to, or whose
\* password they gave, and a half-finished sign-in is finished once
\* (FederationService.resolve, AuthService.login, auth/transactions.py).
THEOREM SessionsStayTheirs == Spec => []SessionsAreTheirs
<1>1. ASSUME AccountInv, NEW a \in Accounts, NEW s, Admitted(a, s)
      PROVE  /\ s = None => users[a].password
             /\ s \in Subjects => Linked(a, s)
  <2>1. PICK q \in Requests : /\ request[q].pc = "done" /\ request[q].kind # "unlink"
                              /\ request[q].account = a /\ request[q].claims.subject = s
    BY <1>1 DEF Admitted
  <2>2. request[q] \in Request /\ RecordOK(request[q]) /\ FactsOK(q)
    BY <1>1 DEF AccountInv, RequestInv, TypeOK
  <2>3. request[q].kind \in Federated \cup {"register", "login"}
    BY <2>1, <2>2 DEF Request, RecordOK, KindOK, Federated
  <2>4. request[q].kind \in Federated => s \in Subjects /\ Linked(a, s)
    BY <2>1, <2>2 DEF RecordOK, ClaimsOK, FactsOK, Found, Linked
  <2>5. request[q].kind \in {"register", "login"} => s = None /\ users[a].password
    BY <2>1, <2>2 DEF RecordOK, ClaimsOK, FactsOK, GaveItsPassword
  <2> QED
    BY <2>3, <2>4, <2>5, Apart
<1>2. AccountInv => \A q, p \in Requests :
          request[q].flow # None /\ request[q].flow = request[p].flow => q = p
  BY DEF AccountInv, RequestInv, TakenOnce
<1>3. AccountInv => SessionsAreTheirs
  BY <1>1, <1>2 DEF SessionsAreTheirs
<1> QED
  BY <1>3, Accounted, PTL

\* An account without password and identity is left only by two unlinks that had
\* both counted two ways in, or by a callback that created it and lost its
\* subject (unlink_identity and sso_callback of api/v1/sso.py).
THEOREM StrandedStaysThere == Spec => []StrandedOnlyThere
<1>1. ASSUME AccountInv, NEW a \in Accounts, Exists(a), ~users[a].password,
             \A s \in Subjects : identities[s] # a
      PROVE  Orphaned(a) \/ Cardinality(Unlinked(a)) > 1
  <2>1. Ways(a) = {} /\ WaysLeft(a)
    BY <1>1 DEF Ways, AccountInv
  <2>2. Orphaned(a) \/ Several(Unlinked(a))
    BY <1>1, <2>1 DEF WaysLeft
  <2>3. IsFiniteSet(Unlinked(a))
    BY Finitely, FS_Subset DEF Unlinked
  <2> QED
    BY <2>2, <2>3, MoreThanOne
<1>2. AccountInv => StrandedOnlyThere
  BY <1>1 DEF StrandedOnlyThere, Orphaned, Unlinked
<1> QED
  BY <1>2, Accounted, PTL

-----------------------------------------------------------------------------
(* Waiting *)

\* The statements that wait for a row another request has written.
Waits(q) ==
    \/ request[q].pc = "creating" /\ ~NobodyElseHolds(q, "email")
    \/ request[q].pc = "linking" /\ ~NobodyElseHolds(q, "subject")
    \/ /\ request[q].pc = "unlinking" /\ request[q].wrote = {}
       /\ identities[request[q].claims.subject] = request[q].account
       /\ ~NobodyElseHolds(q, "subject")

NobodyStuck == (\E q \in Requests : Open(q)) => \E q \in Requests : Open(q) /\ ~Waits(q)

\* Requests do not wait in a circle: who waits for a subject waits for a request
\* that waits for nothing any more, and who waits for an address at most for one
\* that waits for a subject (UserRepository.create, IdentityRepository.link and
\* unlink).
THEOREM NobodyGetsStuck == Spec => []NobodyStuck
<1>1. ASSUME AccountInv, NEW q \in Requests, Open(q), Waits(q)
      PROVE  \E p \in Requests : /\ Open(p) /\ request[p].wrote # {}
                                 /\ request[q].pc # "creating" => request[p].wrote \cap {"link", "drop"} # {}
  BY <1>1 DEF Waits, NobodyElseHolds, Holding
<1>2. ASSUME AccountInv, NEW p \in Requests, Open(p), Waits(p)
      PROVE  /\ request[p].wrote \cap {"link", "drop"} = {}
             /\ request[p].wrote # {} => request[p].pc # "creating"
  BY <1>2 DEF Waits, AccountInv, RequestInv, RecordOK, WroteOK
<1>3. AccountInv => NobodyStuck
  BY <1>1, <1>2 DEF NobodyStuck
<1> QED
  BY <1>3, Accounted, PTL
=============================================================================
