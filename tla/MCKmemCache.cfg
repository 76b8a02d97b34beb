SPECIFICATION Spec
CONSTANTS
    Pages = 7
    Top = 3
    Counts = {1, 2, 3}
    Slots = 2
    Null = Null
CONSTRAINT Sound
INVARIANTS
    PagesExact
    Coalesced
    SlabsExact
