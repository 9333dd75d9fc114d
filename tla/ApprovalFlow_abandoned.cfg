SPECIFICATION Spec
CONSTANTS
    Approval = {p1, demo}
    Computer = {}
    Suggestion = {}
    Demo = demo
    Session = {s1}
    NoSession = none
    SessionOf <- Askers
    Handler = {h1}
    MaxAsks = 1
    p1 = p1
    p2 = p2
    s1 = s1
INVARIANTS
    ResolvedSessionResumes
