SPECIFICATION Spec
CONSTANTS
    Members = {m1, m2, m3, m4, m5}
    Learners = {m5}
    Rules <- AllRules
    Window = 10
    WaitBlocks = 6
INVARIANTS
    TypeOK
    QuorumUnlessEarly
PROPERTIES
    RulesSeeTheRest
SYMMETRY MemberSymmetry
