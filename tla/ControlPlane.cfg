SPECIFICATION ApiSpec
CONSTANTS
    admin1 = admin1
    admin2 = admin2
    viewer = viewer
    None = None
    PublicKeys = {"pem"}
    Clients = {admin1, admin2, viewer}
    Role <- MCRole
    Requests <- MCRequests
    Databases <- MCDatabases
    FirstId = 10
    MaxOps = 2
SYMMETRY Admins
INVARIANTS
    RowsSound
    AnswersTell
    AuditAccounted
PROPERTIES
    NothingComesBack
    TenantScoped
CHECK_DEADLOCK FALSE
