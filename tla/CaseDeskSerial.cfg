SPECIFICATION Spec
CONSTANTS
    Handlers = {h1}
    Incidents = {1, 2}
    Items = {x1}
    Sources = {s1, s2}
    Texts = {t1}
    MaxEvidence = 2
    None = None
    s1 = s1
    s2 = s2
    x1 = x1
    t1 = t1
    SourceOf <- MCSourceOf
    EditInputs <- MCEditTwo
    ReviewInputs <- MCReviewTwo
INVARIANTS
    ApprovedContentIsVetted
    ExportedContentIsVetted
    ItemResolvedOnce
PROPERTIES
    ApprovedCaseIsLocked
    LifecycleMovesForward
