SPECIFICATION Spec
CONSTANTS
    Handsets = {h1, h2}
    NoHandset = NoHandset
    Requests = {r1}
    Delay = 2
    MaxChanges = 4
SYMMETRY Symmetry
INVARIANTS
    ReplacedWaitsAgain
