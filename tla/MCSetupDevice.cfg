SPECIFICATION Spec
CONSTANTS
    DevCounts <- MCDevCounts
    DevInputs <- MCDevInputs
    PortInputs <- MCPortInputs
    StackPorts <- MCStackPorts
    Moves = TRUE
    MaxFile = 28
INVARIANTS
    ChosenDeviceValid
