CONSTANTS Homes = {"h1", "h2"} Fixed = {} VaultNames = {"n1"} Commands = {1, 2, 3} Alone = TRUE DeathBound = 1
SPECIFICATION Spec
INVARIANTS OriginalStaysReadable
CHECK_DEADLOCK FALSE
