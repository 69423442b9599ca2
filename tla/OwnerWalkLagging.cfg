SPECIFICATION FairSpec
CONSTANTS
    d1 = d1
    d2 = d2
    MintNumbers = {1}
    Dids = {d1}
    OutputSpecs <- MCOutputSpecs
    Fabricated = {}
    Faults = {"withhold", "error"}
    MaxSpends = 4
INVARIANTS
    TypeOK
    HonestSourceIsNeverAnError
PROPERTIES
    AnswersAsOneLook
    EveryCallReturns
