CONSTANTS
    Refreshes = {r1, r2, r3}
    SignOuts = {o1, o2}
    Remote = {o2}
    MaxTokens = 3
    MaxFailures = 1
    None = None
SPECIFICATION Spec
INVARIANT OneUsable
INVARIANT RevokedIsIndexed
INVARIANT IndexedIsEnded
