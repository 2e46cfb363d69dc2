\* Two replicas, no fault, two backups with the same content of which one is deleted.
SPECIFICATION Spec
CONSTANTS
    Backups = {1, 2}
    Digests = {1}
    Replicas = {r1, r2}
    DataKeys = {k1, k2, k3, k4}
    Deletable = {1, 2}
    Flaky = {}
    StoreFails = FALSE
    KeepsExisting = FALSE
    Prompt = TRUE
    MaxCrashes = 0
    Nothing = Nothing
    None = None
    DigestOf <- MCDigestOf
INVARIANTS
    LiveObjectPresent
CHECK_DEADLOCK FALSE
