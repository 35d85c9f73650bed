SPECIFICATION Spec
CONSTANTS
    r1 = r1
    r2 = r2
    k1 = k1
    k2 = k2
    None = None
    Requests = {r1, r2}
    Keys = {k1, k2}
    RoleNames = {"user", "editor", "admin"}
    ScopeNames = {"files:read"}
    Endpoints = {"files:read"}
    AuthTypes = {"none", "apikey", "jwt", "chain"}
    RoleConfigs <- MCRoleConfigs
    Credentials <- MCCredentials
PROPERTIES NoOverdueKey KnownKeyAccepted Answered
