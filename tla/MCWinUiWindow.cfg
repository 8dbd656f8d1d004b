SPECIFICATION WindowSpec
CONSTANT MaxEvents = 4
CONSTRAINT NotMisledForGood
INVARIANTS
    WindowTruthful

    
