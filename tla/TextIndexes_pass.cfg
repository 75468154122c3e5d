CONSTANTS
    Docs = {d1, d2, d3}
    Words = {a, b}
    MaxCount = 2
    NoRecord = NoRecord
    keep_phrases = TRUE
    EmptyTexts = TRUE
    DICT_CUTOFF = 2
    MaxDrift = 2
SPECIFICATION SpecBoth
INVARIANTS PostingsMatchDocs WeightsMatchDocs
CHECK_DEADLOCK FALSE
