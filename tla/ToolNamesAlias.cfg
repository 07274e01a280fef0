SPECIFICATION Spec
CONSTANTS
    Pod = {p1, p2}
    Part <- Parts
    Server = {"web", "default"}
    Deployment <- Deployments
    Serves <- Listings
    Local <- BuiltIn
    Frontend <- Clients
    Asks <- Asking
    InputWriters <- Writers
    OutputTools <- Outputs
    Mode = {"working_copy", "workflow"}
    Requests <- Some
    FilterConflicts = FALSE
INVARIANT AliasResolves
