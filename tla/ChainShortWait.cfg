SPECIFICATION Spec
CONSTANTS
    Members = {m1, m2, m3, m4, m5}
    Learners = {}
    Rules = {"clique"}
    Window = 10
    WaitBlocks = 4
INVARIANTS
    QuorumKept
SYMMETRY MemberSymmetry
