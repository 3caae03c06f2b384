SPECIFICATION Spec
CONSTANTS
    aura = aura
    grandpa = grandpa
    Difficulties = {1, 2}
    DIFFICULTY_SCALE = 2
    INITIAL_DIFFICULTY = 1
    Setups <- PruningValidator
SYMMETRY Callers
INVARIANT WeightsAddUp
