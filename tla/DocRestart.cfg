SPECIFICATION Spec
CONSTANTS
    InterpOrder = 2
    Configs <- Restarting
    MaxLives = 1
INVARIANTS
    FollowsDriver
