SPECIFICATION Spec
CONSTANTS
    MaxCells = 6
INVARIANTS Durable Reconstructible ReadsByNumber
PROPERTY AppendOnly
