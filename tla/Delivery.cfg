SPECIFICATION Spec
CONSTANTS
    r1 = r1
    r2 = r2
    Calls = {r1, r2}
    Tenants = {"default", "acme"}
    Unset = Unset
    Wired = {"MJML", "Handlebars"}
    Inputs <- MCInputs
    MaxFaults = 2
INVARIANTS SentMeansTaken UnderOwnTenant BodiesAreSafe HolesAreFilled AuditNeverBlocks
SYMMETRY CallSymmetry
CHECK_DEADLOCK FALSE
