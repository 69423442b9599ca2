SPECIFICATION Spec
CONSTANTS
    d1 = d1
    d2 = d2
    MintNumbers = {1}
    Dids = {d1, d2}
    OutputSpecs <- SmallOutputSpecs
    Fabricated <- MCFabricated
    Faults = {"error", "withhold", "forge"}
    MaxSpends = 2
INVARIANTS
    SourceCannotChooseTheDid
    OnlyTheAuthorizingDid
    SubstitutionIsNotNone
    
