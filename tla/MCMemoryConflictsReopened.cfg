SPECIFICATION Spec
CONSTANTS
    red = red
    green = green
    blue = blue
    NoContent = NoContent
    Contents <- MCContents
    Related <- MCRelated
    Turns = {t1}
    MaxShown = 1
    MaxFacts = 4
    MaxConflicts = 3
    MaxReviews = 2
SYMMETRY ContentSymmetry
CHECK_DEADLOCK FALSE
INVARIANT Decidable
