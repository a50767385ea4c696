SPECIFICATION Spec
CONSTANTS
    Fragment <- MCFragment
    JsonObjects <- MCJsonObjects
    NoName = NoName
    Null = Null
    n1 = n1
    n2 = n2
    Name = {n1, n2}
    Slot = {0, 1}
    Part = {0}
    Deltas <- ToolDeltas
    Bodies <- ToolBodies
    Items <- ToolItems
    Terminals <- ToolTerminals
    Alphabet = {"item.added", "arguments.delta", "arguments.done", "item.done", "terminal"}
    MaxEvents = 4
    LateArguments = FALSE
INVARIANTS
    ToolArgumentsAreObjects
CHECK_DEADLOCK FALSE
