SPECIFICATION DayViewSpec

CONSTANTS
    e1 = e1
    e2 = e2
    Entries = {e1, e2}
    Standing <- DStanding
    Horizon = 3
    DayLength = 3
    Lengths = {1}
    Handlers = {h1}
    MaxOutside = 0
    MaxDrops = 0

PROPERTIES
    OverlapIsWarned

CHECK_DEADLOCK FALSE
