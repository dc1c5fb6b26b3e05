\* Every operation, database errors and kills, old and new tables.
CONSTANTS
    Threads = {t1, t2}
    Devices = {d1, d2}
    Users = {u1, u2}
    Tokens = {k1}
    NoOne = NoOne
    Ops = {"register", "clear_voip_token", "delete", "get"}
    Errors = TRUE
    Kills = TRUE
SPECIFICATION Spec
INVARIANTS TypeOK OneOpenTransaction SchemaComplete
PROPERTIES DurableKeyPinned ImplementsRegistry
SYMMETRY Symmetry
