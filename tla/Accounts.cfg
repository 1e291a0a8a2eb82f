\* Four requests over two accounts, addresses and subjects, linking by address or not:
\* enough for an account with two identities and two unlinks at once.
SPECIFICATION Spec
CONSTANTS
    Requests = {q1, q2, q3, q4}
    Accounts = {a1, a2}
    Emails = {e1, e2}
    Subjects = {s1, s2}
    Flows = {f1}
    Deployments <- Deployed
    None = None
SYMMETRY Symmetry
INVARIANTS TypeOK LinksAreEarned SessionsAreTheirs StrandedOnlyThere NoCircleOfWaits
CHECK_DEADLOCK FALSE
