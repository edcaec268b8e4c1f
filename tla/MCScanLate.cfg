CONSTANTS
    MaxRecursion = 2
    MaxScanned = 2
    MaxObjects = 3
    Options <- MCOptions
SPECIFICATION Spec
INVARIANT LimitsSuppressNothing
