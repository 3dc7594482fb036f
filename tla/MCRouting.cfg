SPECIFICATION FairSpec
CONSTANTS
    a = a  b = b  c = c
    short = short  long = long
    e1 = e1  e2 = e2
    Nodes = {a, b, c}
    Paths = {short, long}
    Length <- Lengths
    Endpoints = {e1, e2}
    NodeOf <- AtA
    PathOf <- TwoPaths
    Plugin = {e1}
    Changing = {e1, e2}
    Requests = {r1}
    Contains <- PartOfB
    Mortal = {a}
    None = None
INVARIANTS NeverBack Balanced
  
CHECK_DEADLOCK FALSE
