CONSTANTS
    q1 = q1
    q2 = q2
    s1 = s1
    s2 = s2
    Queriers <- MCQueriers
    Stacks <- MCStacks
    Labels <- MCLabels
    Selectors <- MCAllSelectors
    Bad = "bad"
    Absent = "absent"
    StackNs <- MCStackNs
    NsSel <- MCNsSel
    MaxExternal <- MCMaxExternal
    MaxFaults <- MCMaxFaults
SPECIFICATION Spec
INVARIANTS TypeOK
PROPERTIES ValidSelectorsConverge
\* Once users and faults are spent and every change is applied, nothing
\* is left to do: the controller has no periodic trigger.
CHECK_DEADLOCK FALSE
