SPECIFICATION PagesSpec
CONSTANTS
    root = root  c = c  g = g  d1 = d1  d2 = d2  d3 = d3
    Nil = Nil
    Order <- MCOrder
    Base <- MCBase
    Runnable = {g}
    MaxChanges = 1
    MaxClicks = 3
    MaxLosses = 1
    Added = {d3}
    WithFile = {d1, d2}
    Hardware <- MCTwoDisks
    Kinds = {"rename", "rebase"}
    Others <- MCOthers
    MaxRequests = 2
    MaxEdits = 2
    MaxPosts = 2
    Nodes = {v1, v2}
    WithMachines = {v1}
    MaxEvents = 2
    MaxLoads = 1
PROPERTIES
    RemovesTheNamed
CHECK_DEADLOCK FALSE
