SPECIFICATION Spec
CONSTANTS
    Length = 2
    Depth = 2
    Period = 4
PROPERTY PutsReturns
