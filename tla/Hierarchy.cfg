SPECIFICATION Spec
CONSTANTS
    Groups = {g1, g2, g3}
    g1 = g1
    g2 = g2
    g3 = g3
    Apps = {"app"}
    Calls = {c1, c2}
    c1 = c1
    c2 = c2
    LastMonth = 1
    MaxDepth = 2
SYMMETRY Symmetry
INVARIANTS TypeOK Acyclic PathIsCurrent
