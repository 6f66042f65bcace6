SPECIFICATION Spec
CONSTANTS
    Attempts = {a1, a2}
    Candidates = {"postcode", "accounts"}
    Own = Own
    Others = {other}
    Nobody = Nobody
    MaxEdits = 2
SYMMETRY PublicationSymmetry
INVARIANTS
    TypeOK
    PublishedIsThere
PROPERTIES
    OverwritesOnlyLateEdits
    OutcomeIsFinal
