\* The program ends.
CHECK_DEADLOCK FALSE
SPECIFICATION Spec
CONSTANTS
    Tables <- MCTables
    Sequences <- MCSequences
    Lines <- MCLines
INVARIANTS
    MeaningKept
    NothingLeft
    ReadsBack
PROPERTIES
    TokenizingEnds
