SPECIFICATION Spec
CONSTANTS
    t1 = t1
    t2 = t2
    r1 = r1
    r2 = r2
    None = None
    Partial = Partial
    Foreign = Foreign
    Trees = {t1}
    Revisions <- MCRevisions
    Kinds = {"tarball"}
    Attempts = 2
    Patches = 1
    MaxKills = 0
INVARIANTS
    EveryDeliveryIsPinned
