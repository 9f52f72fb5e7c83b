SPECIFICATION FairSpec
CONSTANTS
    Threads = {t1, t2, t3}
    StdAtomics = FALSE
INVARIANT LockInv MutualExclusion
PROPERTY WriterGetsIn ImplementsAbstract
