CONSTANTS
    Items = {x, y, z}
    None = None
    Capacity = 3
    MaxStart = 7
SPECIFICATION Spec
PROPERTY ImplementsQueue
