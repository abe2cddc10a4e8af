SPECIFICATION Spec
CONSTANTS
    p1 = p1
    p2 = p2
    Players = {p1}
    Delay = 1
    MaxClock = 2
    MaxSearches = 2
PROPERTIES
    SearchAnswered
