\* Overlapping readers, competing reclaimers, a pool that runs out.
CONSTANTS
    PoolSize = 4
    Reader = {r1, r2}
    Reclaimer = {k1, k2}
    NONE = NONE
SPECIFICATION RcuFairSpec
INVARIANTS
    NoUseAfterReclaim
    CallbacksExact
PROPERTY RetiredComesBack
