SPECIFICATION Spec
CONSTANTS
    Handlers = {h1, h2}
    Incidents = {1}
    Items = {x1}
    Sources = {s1}
    Texts = {t1}
    MaxEvidence = 2
    None = None
    s1 = s1
    s2 = s2
    x1 = x1
    t1 = t1
    SourceOf <- MCSourceOf
    EditInputs <- MCEditOne
    ReviewInputs <- MCReviewOne
INVARIANTS
    ExportedContentIsVetted
