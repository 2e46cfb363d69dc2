\* Two accounts and two concurrent requests with two credentials, one reset and one
\* disabling; every route with every kind of caller and one change of the account
\* before the effect; three attempts of two accounts at two addresses; up to five rows
\* in pages of two; four operations of one server with three generations.
SPECIFICATION AccessSpec
CONSTANTS
    People = {u1, u2}
    Calls = {q1, q2}
    MaxCredentials = 2
    MaxResets = 1
    MaxDisables = 1
    Grants <- MCGrants
    Updates <- MCUpdates
    ServerPermissions <- MCServerPermissions
    MemberSets <- MCMemberSets
    MaxChanges = 1
    Accounts = {l1, l2}
    Addresses = {i1, i2}
    Attempts = {a1, a2, a3}
    Maximum = 2
    Window = 2
    BlockFor = 3
    Capacity = 3
    MaxTime = 4
    Times = {1, 2, 3, 4, 5}
    PageSize = 2
    Operations = {1, 2, 3, 4}
    Points = {b1}
    RetryKeys = {k1, k2}
    MaxGeneration = 3
SYMMETRY Symmetric
INVARIANTS
    SecretsUsedOnce
    MemoryAccountsSound
    EffectIsAuthorized
    AttemptsAreLimited
    PagingIsComplete
    OperationsAreSound
CHECK_DEADLOCK FALSE
