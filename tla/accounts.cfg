SPECIFICATION Spec
CONSTANTS
    Emails = {a, b}
    Names = {north}
    GroupIds = {g1, g2}
    Statuses = {"Signing", "Activating"}
    Requests = {r1, r2}
    MaxResets = 1
    None = None
SYMMETRY Symmetric
INVARIANTS
    TypeOK
    RoleHasRow
    NoOrphanGroup
    TwinsWereRaced
    ConfirmedIffActivated
