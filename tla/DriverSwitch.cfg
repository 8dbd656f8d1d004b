SPECIFICATION SwitchSpec
INVARIANTS
    DongleNotLost
    OkMeansSwitched
PROPERTIES
    SwitchEnds
