CONSTANTS
    s1 = s1
    s2 = s2
    cA = cA
    cB = cB
    cX = cX
    mainTab = mainTab
    otherTab = otherTab
    newTab = newTab
    none = none
    inbox = inbox
    later = later
    Sessions = {s1, s2}
    Start <- MCStart
    MaxCalls = 2
    MaxFaults = 1
    Letters = {cA, cB, cX}
    None = none
    Refused = Refused
    Failed = Failed
    Main = mainTab
    Other = otherTab
    New = newTab
    Spots <- MCSpots
    Tables <- MCTables
    Needles <- MCNeedles
    Word = cX
    Needle <- MCNeedle
    Base = 2
    Columns = 4
    Sheet1 = inbox
    Titles = {later}
SPECIFICATION Spec
SYMMETRY AllSessions
CHECK_DEADLOCK FALSE
INVARIANTS
    ImagesAreCleared
PROPERTIES
    EditsHitTheirTarget
    EditsStayInTheirPart
