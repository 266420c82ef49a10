SPECIFICATION Spec
CONSTANTS
    Handsets = {h1, h2}
    NoHandset = NoHandset
    Requests = {r1, r2, r3}
    Delay = 2
    MaxChanges = 4
SYMMETRY Symmetry
INVARIANTS
    DelaysBounded
PROPERTIES
    TransferWaits
