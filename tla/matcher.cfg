CONSTANTS
    i1 = i1
    i2 = i2
    yes = yes
    no = no
    None = None
    Inputs = {i1, i2}
    Partial = {i2}
    Words = {1, 2}
    Trees <- AllTrees
SPECIFICATION MatcherSpec
INVARIANTS
    
    
    FailsOnlyOnInput
    WaitsOnlyForData
CHECK_DEADLOCK FALSE
