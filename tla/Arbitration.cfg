CONSTANTS
    MaxPasses = 2
    MaxMissed = 1
SPECIFICATION FairSpec
INVARIANTS
    ReceiveExclusion
    PauseHasCause
    StandbyIsFinal
    StopWasMeant
    TestModeIsSilent
    PassesAsAsked
PROPERTIES
    ReceiveUndisturbed
    DeleteIsExclusive
    CommandsReturn
    LoopsEnd
