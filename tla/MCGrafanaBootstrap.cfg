CONSTANTS
    MaxExternal <- MCMaxExternal
    MaxFaults <- MCMaxFaults

SPECIFICATION Spec

INVARIANTS
    TypeOK
    DependencyOrder

PROPERTIES
    Converges
