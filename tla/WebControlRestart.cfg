CONSTANTS
    None = None
    p1 = p1
    w1 = w1
    Pages = {p1}
    Wishes = {w1}
    MaxChanges = 7
    MaxGeneration = 1
    MaxBoot = 2
    MaxMail = 1
SPECIFICATION WebSpec
PROPERTIES
    StartsOverwriteNothing
CHECK_DEADLOCK FALSE
