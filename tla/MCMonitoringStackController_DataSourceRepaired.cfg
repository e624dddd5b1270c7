CONSTANTS
    Order <- MCOrder
    Kind <- MCKindOf
    MaxGen <- MCMaxGen
    MaxExternal <- MCMaxExternal
    MaxFaults <- MCMaxFaults

SPECIFICATION Spec

PROPERTIES
    DataSourceRepaired

\* The controller has no periodic trigger: with no event and no requeue
\* pending it waits, which is the expected end state.
CHECK_DEADLOCK FALSE
