CONSTANTS
    Docs = {d1, d2, d3, d4}
    Vals = {1, 2, 3}
    NoValue = NoValue
    None = None
    Threshold = 3
    Containing <- SomeTexts
    Joinable <- SomeClauses
SPECIFICATION Spec
INVARIANTS TypeOK FwdMatchesRev FormFits Counted
INVARIANTS SearchesFind JsonFinds PagesAreParts
PROPERTIES ImplementsFieldMap
CHECK_DEADLOCK FALSE
