SPECIFICATION PagesSpec
CONSTANTS
    Ids = {b1, b2, o, c1, c2, nc}
    Answers <- MCAnswers
    b1 = b1  b2 = b2  o = o  c1 = c1  c2 = c2  nc = nc
    Nil = Nil
    MaxWire = 1
    MaxChanges = 1
    MaxClicks = 2
    NewClone = nc
    WithPorts = {c1}
    AutoView = {c1, nc}
    MaxSockets = 2
    MaxTroubles = 1
    Days = 3
    Week = 2
    Hours = 2
    Existing <- MCExisting
    Selections <- MCSelections
    Elsewhere <- MCElsewhere
    MaxForms = 2
    MaxEdits = 1
INVARIANTS
    ChosenIsListed
PROPERTIES
    ShowsTheAnswer
    KeepsTheChoice
    ShowsTheServer
    StartIsNoticed
    ListensOrTells
    NewIsFree
    ShowsWhatISaved
CHECK_DEADLOCK FALSE
