SPECIFICATION Spec
CONSTANTS
    a = a
    b = b
    NoItem = NoItem
    Item = {a, b}
    Weight <- Weights
    initCap = 1
    MaxLen = 7
PROPERTY ImplementsFIFO
