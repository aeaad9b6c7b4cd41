CONSTANT
    Proc = {p1, p2, p3}
SPECIFICATION RwFairSpec
INVARIANTS
    Exclusion
    CountExact
PROPERTIES
    WriterDrains
    SomeoneEnters
