SPECIFICATION Spec
CONSTANTS
    r1 = r1
    r2 = r2
    t1 = t1
    t2 = t2
    h1 = h1
    Roots = {r1, r2}
    Texts = {t1, t2}
    Programs = {h1}
    Lengths <- MCLengths
    ForeignItems <- MCForeignItems
INVARIANTS
    DigReadsWhatItWrote
    DigStoreIsAnSdkStore
    SizeIsTight
    SizeIsCanonical
