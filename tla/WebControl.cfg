CONSTANTS
    None = None
    p1 = p1
    w1 = w1
    Pages = {p1}
    Wishes = {w1}
    MaxChanges = 5
    MaxGeneration = 2
    MaxBoot = 2
    MaxMail = 2
SPECIFICATION WebSpec
PROPERTIES
    StartsAreCurrent
    AnswersAreTrue
CHECK_DEADLOCK FALSE
