SPECIFICATION Spec
CONSTANTS
    hiring = hiring
    ours = ours
    acme = acme
    Operator = Operator
    ada = ada
    bea = bea
    None = None
    a = a
    b = b
    run = run
    NoTrace = NoTrace
    AllSystems = {hiring, ours}
    AllOrganizations = {acme}
    Persons = {ada, bea}
    OwnerOf <- MCOwnerOf
    Contents = {a, b}
    MaxLength = 2
    MaxUpsets = 2
    Traces = {run}
    Naming = {TRUE}
    MaxDrawn = 3
    MaxRestores = 1
SYMMETRY PeopleSymmetry
INVARIANTS
    OneBranch
    OneMeaning
    LinksLostOnPurpose
CHECK_DEADLOCK FALSE
