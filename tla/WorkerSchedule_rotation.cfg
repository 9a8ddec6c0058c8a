\* Three batch capabilities and single work; more workers than capabilities.
CONSTANTS
    N = 3
    Workers = 5
SPECIFICATION Spec
INVARIANTS OvertakingBounded
PROPERTIES NoStarvation
