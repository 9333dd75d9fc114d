SPECIFICATION FairSpec
CONSTANTS
    Approval = {c1, m1, demo, p1, p2}
    Computer = {c1}
    Suggestion = {m1}
    Demo = demo
    Session = {s1}
    NoSession = none
    SessionOf <- Askers
    Handler = {h1, h2}
    MaxAsks = 2
    p1 = p1
    p2 = p2
    s1 = s1
CONSTRAINT OneKind
INVARIANTS
    EffectAtMostOnce
    EffectNeedsConsent
PROPERTIES
    ImplementsConsentGate
    AllowTakesEffect
