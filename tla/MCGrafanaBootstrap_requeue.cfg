CONSTANTS
    MaxExternal <- MCMaxExternal
    MaxFaults <- MCMaxFaults

SPECIFICATION Spec

PROPERTIES
    RequeueHonoured
