SPECIFICATION Spec
CONSTANTS
    Tasks <- MCTasks
    Boots <- MCBoots
    Delays <- MCDelays
INVARIANTS
    BenchTypeOK
    ReferencePasses
    SimulatorsAgree
    StimulusFits
    InputsFollowStimulus
    ReportsFollowPresses
    SafeOpensOnCode
    ScreenIsIntended
    ReadingsAreValues
    TraceIsHistory
    VariantsRefuteConstants
CHECK_DEADLOCK FALSE
