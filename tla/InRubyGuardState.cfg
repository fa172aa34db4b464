SPECIFICATION GuardSpec
CONSTANTS
    Guards = {main, temp}
    MaxUses = 4
INVARIANT StateEndsWithGuards
