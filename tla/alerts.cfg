\* Two detections of one subject and one of another, three requests of users.
CONSTANTS
    d1 = d1
    d2 = d2
    d3 = d3
    s1 = s1
    s2 = s2
    Detection = {d1, d2, d3}
    Subject = {s1, s2}
    SubjectOf <- TwoSubjects
    Request = {r1, r2, r3}
    None = None
SPECIFICATION Spec
SYMMETRY Symmetry
INVARIANTS
    DuplicatesExplained
    NothingOverlooked
    MessageOfResolver
PROPERTY LegalUnlessContested
CHECK_DEADLOCK FALSE
