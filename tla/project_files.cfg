SPECIFICATION FilesSpec
CONSTANTS
    Add = {a, w}
    PostMerge = {g}
    Mark = {m, x}
    CliMark = {c}
    Backfill = {f}
    Claim = {p}
    Create = {n}
    InitCmd = {i}
    Delete = {d}
    Edit = {e}
    Bump = {u}
    Nameless = {w, x}
    MaxJobs = 4
    MaxFaults = 2
    None = None
CHECK_DEADLOCK FALSE
INVARIANTS FindingsKept MirrorAgrees
PROPERTY IdentityKept
