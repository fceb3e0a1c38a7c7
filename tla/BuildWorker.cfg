\* Two builds for one slot: while one is being stopped, killed or cleaned up
\* the other tries to start.
CONSTANTS
    Requests = {r1, r2}
    Limit = 1
SPECIFICATION PromptSpec
INVARIANT SlotNotStranded
PROPERTIES ImplementsCapacity EveryBuildAnswered
CHECK_DEADLOCK FALSE
