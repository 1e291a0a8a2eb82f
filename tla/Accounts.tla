------------------------------ MODULE Accounts ------------------------------
(***************************************************************************)
(* Who a sign-in makes somebody here: single sign-on and the Supabase      *)
(* password path through auth/federation.py, registration and sign-in of   *)
(* auth/service.py, and the unlinking of an identity (api/v1/sso.py), by   *)
(* concurrent requests over db/repositories/user.py and identity.py.       *)
(*                                                                         *)
(* A request is one READ COMMITTED transaction: each statement is a step,  *)
(* reads what has been committed, and an insert under a unique key that    *)
(* another open transaction has written waits for that transaction.  What  *)
(* a request wrote becomes visible when it commits.  Accounts are never    *)
(* deleted, and a password is never taken away.                            *)
(***************************************************************************)
EXTENDS Naturals, FiniteSets

CONSTANTS
    Requests,  \* bound: the requests of one behaviour, each made once
    Accounts,  \* user ids
    Emails,    \* addresses
    Subjects,  \* (provider, subject) pairs
    Flows,     \* handles of half-finished sign-ins (auth/transactions.py)
    Deployments,  \* the settings a deployment may have, see Settings
    None       \* no account, no address, no subject, no flow

\* The rows unlink_identity counts, and the requests of one behaviour, are finitely many.
ASSUME Finitely == IsFiniteSet(Requests) /\ IsFiniteSet(Subjects)

ASSUME NoneApart == None \notin Accounts \cup Emails \cup Subjects \cup Flows

\* sso_link_by_verified_email, and where passwords live (auth_backend).
Settings == [linking : BOOLEAN, backend : {"local", "supabase"}]

ASSUME SomeDeployment == Deployments \subseteq Settings

VARIABLES
    users,       \* committed rows of users: the address, and if it has a password
    identities,  \* committed rows of identities: the account of each subject
    flows,       \* the transaction store
    request,     \* where each request is, and what it has written
    deployment   \* its settings, which no request changes

vars == <<users, identities, flows, request, deployment>>

-----------------------------------------------------------------------------
(* Types *)

User == [email : Emails, password : BOOLEAN]

NoUser == [email |-> None, password |-> FALSE]

Claims == [subject  : Subjects \cup {None},
           email    : Emails \cup {None},
           verified : BOOLEAN]

Request == [pc      : {"idle", "exchanging", "finding", "matching", "creating", "linking",
                       "starting", "refusing", "unlinking", "done", "refused"},
            kind    : {"none", "callback", "adopt", "register", "login", "unlink"},
            flow    : Flows \cup {None},
            claims  : Claims,
            account : Accounts \cup {None},
            wrote   : SUBSET {"user", "link", "drop"}]

NoClaims == [subject |-> None, email |-> None, verified |-> FALSE]

Fresh == [pc |-> "idle", kind |-> "none", flow |-> None, claims |-> NoClaims,
          account |-> None, wrote |-> {}]

TypeOK ==
    /\ users \in [Accounts -> User \cup {NoUser}]
    /\ identities \in [Subjects -> Accounts \cup {None}]
    /\ flows \in [Flows -> {"unstarted", "pending", "gone"}]
    /\ request \in [Requests -> Request]
    /\ deployment \in Deployments

-----------------------------------------------------------------------------
(* Mistakes a change to this code could make.  Each is the mutated form of a
   definition below that some property has to notice. *)

\* usable_email without the provider's word for it.
AnyEmail(c) == c.email

\* The handle goes with its entry, so that it may be given out again.
Forgotten(f) == [g \in Flows \ {f} |-> flows[g]]

\* resolve signs in as the account it meant to link, although it lost the race.
LostRaceIgnored(q) == "starting"

\* An insert that meets an uncommitted one waits for a lock nobody releases.
NobodyElseEver(q, key) ==
    \A p \in Requests \ {q} : request[p].claims[key] # request[q].claims[key]

\* remaining < 1 for remaining <= 1.
OneIsEnough(a) == \/ Cardinality({s \in Subjects : identities[s] = a}) >= 1
                  \/ users[a].password

-----------------------------------------------------------------------------
(* What a transaction sees and waits for *)

Exists(a) == users[a] # NoUser

\* get_by_email, on committed rows.
ByEmail(e) == {a \in Accounts : Exists(a) /\ users[a].email = e}

Open(q) == request[q].pc \notin {"idle", "done", "refused"}

\* The writes that hold a unique key until their transaction ends: a user's
\* address, an identity's subject.
Holding(key) == IF key = "email" THEN {"user"} ELSE {"link", "drop"}

NobodyElseHolds(q, key) ==
    \A p \in Requests \ {q} :
        ~(/\ Open(p)
          /\ request[p].wrote \cap Holding(key) # {}
          /\ request[p].claims[key] = request[q].claims[key])

\* No row of identities has the pair.
NotLinked(s) == identities[s] = None

UsableEmail(c) == IF c.verified THEN c.email ELSE None

\* A refused request wrote nothing and is forgotten.
Refused == [Fresh EXCEPT !.pc = "refused"]

Goto(q, pc) ==
    request' = [request EXCEPT ![q] = IF pc = "refused" THEN Refused ELSE [@ EXCEPT !.pc = pc]]

Init ==
    /\ users = [a \in Accounts |-> NoUser]
    /\ identities = [s \in Subjects |-> None]
    /\ flows = [f \in Flows |-> "unstarted"]
    /\ request = [q \in Requests |-> Fresh]
    /\ deployment \in Deployments

-----------------------------------------------------------------------------
(* The half-finished sign-in: sso_start and the transaction store *)

\* sso_start stores the transaction under a handle nobody had.
StartFlow(f) ==
    /\ flows[f] = "unstarted"
    /\ flows' = [flows EXCEPT ![f] = "pending"]
    /\ UNCHANGED <<users, identities, request, deployment>>

\* sso_transaction_ttl_seconds.
FlowExpires(f) ==
    /\ flows[f] = "pending"
    /\ flows' = [flows EXCEPT ![f] = "gone"]
    /\ UNCHANGED <<users, identities, request, deployment>>

\* GETDEL: one read that removes.
Taken(f) == [flows EXCEPT ![f] = "gone"]

\* sso_callback, with the handle its cookie carries.  The transaction is taken
\* before anything is decided; a provider's error or a state that does not
\* match is refused after that.
Callback(q, f) ==
    /\ request[q].pc = "idle"
    /\ IF flows[f] = "pending"
       THEN /\ flows' = Taken(f)
            /\ \/ request' = [request EXCEPT ![q] =
                      [Fresh EXCEPT !.pc = "exchanging", !.kind = "callback", !.flow = f]]
               \/ Goto(q, "refused")
       ELSE /\ Goto(q, "refused")
            /\ UNCHANGED flows
    /\ UNCHANGED <<users, identities, deployment>>

\* The store cannot be reached, before or after it removed the entry: take
\* answers that there was none.
TakeFails(q, f) ==
    /\ request[q].pc = "idle"
    /\ flows[f] = "pending"
    /\ Goto(q, "refused")
    /\ \E state \in {"pending", "gone"} : flows' = [flows EXCEPT ![f] = state]
    /\ UNCHANGED <<users, identities, deployment>>

\* The code is exchanged, and the provider says who this is; or it refuses, or
\* it names an address it has not verified.
Exchange(q) ==
    /\ request[q].pc = "exchanging"
    /\ \/ Goto(q, "refused")
       \/ \E c \in Claims :
             /\ c.subject # None
             /\ ~(UsableEmail(c) = None /\ c.email # None)
             /\ request' = [request EXCEPT ![q].pc = "finding", ![q].claims = c]
    /\ UNCHANGED <<users, identities, flows, deployment>>

-----------------------------------------------------------------------------
(* FederationService.resolve *)

\* AuthService._adopt: a password sign-in Supabase admitted resolves through the
\* same rules.
Adopt(q, c) ==
    /\ request[q].pc = "idle"
    /\ deployment.backend = "supabase"
    /\ c.subject # None
    /\ request' = [request EXCEPT ![q] =
           [Fresh EXCEPT !.pc = "finding", !.kind = "adopt", !.claims = c]]
    /\ UNCHANGED <<users, identities, flows, deployment>>

\* Rule 1: a known subject signs in as its linked account.
Find(q) ==
    LET a == identities[request[q].claims.subject] IN
    /\ request[q].pc = "finding"
    /\ request' = [request EXCEPT ![q].pc = IF a # None THEN "starting" ELSE "matching",
                                  ![q].account = a]
    /\ UNCHANGED <<users, identities, flows, deployment>>

\* Rule 2: an unknown subject may attach to the account that has its verified
\* address, where the deployment allows it.  Rule 3: otherwise an account is
\* created, if registration is open and there is an address to create it with.
Match(q) ==
    LET e == UsableEmail(request[q].claims) IN
    /\ request[q].pc = "matching"
    /\ \/ /\ e # None /\ ByEmail(e) # {} /\ deployment.linking
          /\ \E a \in ByEmail(e) :
                request' = [request EXCEPT ![q].pc = "linking", ![q].account = a]
       \/ /\ e # None /\ ByEmail(e) # {} /\ ~deployment.linking
          /\ Goto(q, "refused")
       \/ /\ e # None /\ ByEmail(e) = {}
          /\ \E pc \in {"creating", "refused"} : Goto(q, pc)
       \/ /\ e = None
          /\ Goto(q, "refused")
    /\ UNCHANGED <<users, identities, flows, deployment>>

\* UserRepository.create, under a savepoint: the address is taken, or the row is
\* written.
CreateUser(q) ==
    /\ request[q].pc = "creating"
    /\ NobodyElseHolds(q, "email")
    /\ IF ByEmail(request[q].claims.email) # {}
       THEN Goto(q, "refused")
       ELSE \E a \in Accounts :
               /\ ~Exists(a)
               /\ \A p \in Requests : Open(p) => request[p].account # a
               /\ request' = [request EXCEPT
                      ![q].pc = IF request[q].kind = "register" THEN "starting" ELSE "linking",
                      ![q].account = a,
                      ![q].wrote = {"user"}]
    /\ UNCHANGED <<users, identities, flows, deployment>>

\* A sign-in that lost its subject to another is refused: the callback handles
\* the conflict and its session commits; _adopt raises and its session rolls
\* back.
Conflict(q) == IF request[q].kind = "callback" THEN "refusing" ELSE "refused"

\* IdentityRepository.link, under a savepoint: the pair is somebody's, or the row
\* is written.
Link(q) ==
    /\ request[q].pc = "linking"
    /\ NobodyElseHolds(q, "subject")
    /\ IF NotLinked(request[q].claims.subject)
       THEN request' = [request EXCEPT ![q].pc = "starting", ![q].wrote = @ \cup {"link"}]
       ELSE Goto(q, Conflict(q))
    /\ UNCHANGED <<users, identities, flows, deployment>>

-----------------------------------------------------------------------------
(* Registration and sign-in by password, where this system holds it *)

Register(q, e) ==
    /\ request[q].pc = "idle"
    /\ deployment.backend = "local"
    /\ request' = [request EXCEPT ![q] =
           [Fresh EXCEPT !.pc = "creating", !.kind = "register", !.claims.email = e]]
    /\ UNCHANGED <<users, identities, flows, deployment>>

\* sign_in: an address nobody has, an account without a password and a wrong
\* password are refused alike.
Login(q, e) ==
    /\ request[q].pc = "idle"
    /\ deployment.backend = "local"
    /\ \/ \E a \in ByEmail(e) :
             /\ users[a].password
             /\ request' = [request EXCEPT ![q] =
                    [Fresh EXCEPT !.pc = "starting", !.kind = "login", !.claims.email = e,
                                  !.account = a]]
       \/ Goto(q, "refused")
    /\ UNCHANGED <<users, identities, flows, deployment>>

-----------------------------------------------------------------------------
(* Unlinking *)

SignedIn(a) ==
    \E q \in Requests : request[q].pc = "done" /\ request[q].kind # "unlink"
                          /\ request[q].account = a

\* unlink_identity refuses to remove an account's only way in.
MayUnlink(a) == Cardinality({s \in Subjects : identities[s] = a}) > 1 \/ users[a].password

\* The count, on behalf of somebody signed in.
Unlink(q, a, s) ==
    /\ request[q].pc = "idle"
    /\ SignedIn(a)
    /\ IF MayUnlink(a)
       THEN request' = [request EXCEPT ![q] =
                [Fresh EXCEPT !.pc = "unlinking", !.kind = "unlink", !.account = a,
                              !.claims.subject = s]]
       ELSE Goto(q, "refused")
    /\ UNCHANGED <<users, identities, flows, deployment>>

\* The delete, scoped by owner: a row that another transaction is removing is
\* waited for.
DeleteLink(q) ==
    /\ request[q].pc = "unlinking"
    /\ request[q].wrote = {}
    /\ IF identities[request[q].claims.subject] = request[q].account
       THEN /\ NobodyElseHolds(q, "subject")
            /\ request' = [request EXCEPT ![q].wrote = {"drop"}]
       ELSE Goto(q, "refused")
    /\ UNCHANGED <<users, identities, flows, deployment>>

-----------------------------------------------------------------------------
(* The end of a request *)

\* The request's session commits: the writes become visible, with the session a
\* sign-in starts.
Commit(q) ==
    LET c == request[q].claims
        a == request[q].account
        w == request[q].wrote
    IN
    /\ \/ request[q].pc = "starting" /\ Goto(q, "done")
       \/ request[q].pc = "unlinking" /\ w # {} /\ Goto(q, "done")
       \/ request[q].pc = "refusing" /\ request' = [request EXCEPT ![q].pc = "refused"]
    /\ users' = IF "user" \in w
                THEN [users EXCEPT ![a] = [email    |-> c.email,
                                           password |-> request[q].kind = "register"]]
                ELSE users
    /\ identities' = CASE "link" \in w -> [identities EXCEPT ![c.subject] = a]
                       [] "drop" \in w -> [identities EXCEPT ![c.subject] = None]
                       [] OTHER        -> identities
    /\ UNCHANGED <<flows, deployment>>

\* Anything else that raises, or a process that dies: nothing of it was written.
Rollback(q) ==
    /\ Open(q)
    /\ Goto(q, "refused")
    /\ UNCHANGED <<users, identities, flows, deployment>>

-----------------------------------------------------------------------------

Arrive(q) ==
    \/ \E f \in Flows : Callback(q, f) \/ TakeFails(q, f)
    \/ \E c \in Claims : Adopt(q, c)
    \/ \E e \in Emails : Register(q, e) \/ Login(q, e)
    \/ \E a \in Accounts, s \in Subjects : Unlink(q, a, s)

\* The statements a request makes on its own once it has arrived.
GoOn(q) ==
    \/ Exchange(q) \/ Find(q) \/ Match(q) \/ CreateUser(q) \/ Link(q)
    \/ DeleteLink(q) \/ Commit(q)

Next ==
    \/ \E f \in Flows : StartFlow(f) \/ FlowExpires(f)
    \/ \E q \in Requests : Arrive(q) \/ GoOn(q) \/ Rollback(q)

Spec == Init /\ [][Next]_vars

-----------------------------------------------------------------------------
(* Properties *)

\* Somebody a sign-in let in as a, through subject s or by password (None).
Admitted(a, s) ==
    \E q \in Requests : /\ request[q].pc = "done" /\ request[q].kind # "unlink"
                        /\ request[q].account = a /\ request[q].claims.subject = s

\* The provider told some request that e is the verified address of s.
Proved(s, e) ==
    \E q \in Requests : request[q].claims = [subject |-> s, email |-> e, verified |-> TRUE]

\* An identity is attached to an account only where it may be: the provider
\* verified the account's address for that subject, whatever the account and
\* the identity became between the reads and the insert; and where the
\* deployment does not link by address, never to an account with a password
\* or with another identity (auth/federation.py, rules 2 and 3).
LinksAreEarned ==
    \A s \in Subjects : LET a == identities[s] IN
        a # None =>
            /\ Exists(a) /\ Proved(s, users[a].email)
            /\ ~deployment.linking =>
               /\ ~users[a].password
               /\ \A u \in Subjects \ {s} : identities[u] # a

\* The request that linked s to a committed.
Linked(a, s) ==
    \E q \in Requests : /\ request[q].pc = "done" /\ "link" \in request[q].wrote
                        /\ request[q].account = a /\ request[q].claims.subject = s

\* A sign-in lets somebody into the account their subject was linked to, or whose
\* password they gave: a sign-in that lost the race to link its subject lets
\* nobody in, an account without a password has no password sign-in, and one
\* half-finished sign-in is finished once, however often its callback arrives
\* (auth/federation.py, auth/transactions.py).
SessionsAreTheirs ==
    /\ \A a \in Accounts :
          /\ Admitted(a, None) => users[a].password
          /\ \A s \in Subjects : Admitted(a, s) => Linked(a, s)
    /\ \A q, p \in Requests :
          request[q].flow # None /\ request[q].flow = request[p].flow => q = p

\* An account nobody can enter, without password and identity, is left in two
\* places only: where two unlinks of one account ran at once, and where a first
\* sign-in created its account, lost its subject to another, and the callback
\* that handled the conflict committed (api/v1/sso.py, sso_callback).
StrandedOnlyThere ==
    \A a \in Accounts :
        /\ Exists(a) /\ ~users[a].password
        /\ \A s \in Subjects : identities[s] # a
        => \/ \E q \in Requests : /\ request[q].kind = "callback" /\ request[q].pc = "refused"
                                 /\ request[q].account = a /\ request[q].wrote = {"user"}
           \/ Cardinality({q \in Requests : /\ request[q].kind = "unlink"
                                            /\ request[q].pc = "done"
                                            /\ request[q].account = a}) > 1

\* Requests wait for each other's rows, an address and then a subject, and never
\* in a circle: as long as a handler has not ended, one can go on
\* (db/repositories/user.py, create; db/repositories/identity.py, link, unlink).
NoCircleOfWaits ==
    (\E q \in Requests : Open(q)) => \E q \in Requests : ENABLED GoOn(q)
=============================================================================
