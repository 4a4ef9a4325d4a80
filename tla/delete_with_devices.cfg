SPECIFICATION Spec
CONSTANTS
    u1 = u1  u2 = u2  p1 = p1  p2 = p2  r1 = r1  r2 = r2  r3 = r3
    User = {u1, u2}
    Attrs = {a1}
    CreatedAt = {t1}
    NULL = NULL
    Absent = Absent
    DevEnv = TRUE
    Pod = {p1}
    Req = {r1}
    PodOf <- OneRequest
    MaxOpen = 3
    MaxDevices = 1
PROPERTIES
    FailsIfUserHasDevices
