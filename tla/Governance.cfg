SPECIFICATION Spec
CONSTANTS
    Subjects = {s1, s2, s3}
    s1 = s1
    s2 = s2
    s3 = s3
    Groups = {"group"}
    Path <- MCPath
    RoleNames = {"helper"}
    Asked <- MCAsked
    AskedRoles = {"owner", "admin", "member", "helper"}
    Calls = {c1, c2}
    c1 = c1
    c2 = c2
SYMMETRY Symmetry
INVARIANTS TypeOK AlwaysAnOwner
PROPERTIES OnlyOwnersMoveOwners
