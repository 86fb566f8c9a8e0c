SPECIFICATION Spec
CONSTANTS
    None = None
    c1 = c1
    c2 = c2
    Calls = {c1, c2}
    Anonymous = {c2}
    Mails = {m1, m2}
    Boxes = {"inbox", "drafts", "sent", "trash", "junk", "extra"}
    RoleOf <- MCRoleOf
    ArgBoxes = {"sent", "trash"}
    IdSets = {{}, {m1, m2}}
    Uses <- MCUses
    InTrash = {{m1}, {m1, m2}}
    BatchLimit = 1
INVARIANT EveryWriteAudited
CHECK_DEADLOCK FALSE
