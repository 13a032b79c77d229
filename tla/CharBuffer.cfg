SPECIFICATION Spec
CONSTANTS
    BufferSize = 4
    Char = {a, b, z}
    Zero = z
INVARIANTS
    TypeOK
    ZeroIffEmpty
PROPERTY ImplementsLossyQueue
