SPECIFICATION Spec
CONSTANTS
    b0 = b0
    h1 = h1
    h2 = h2
    h9 = h9
    me = me
    bot = bot
    you = you
    t1 = t1
    t2 = t2
    None = None
    Invalid = Invalid
    Nested = {".greptile/config.json"}
    NoResponse = 5
    Observations <- MCObservations
    Evidences <- MCEvidences
    Contents <- MCContents
    Writers <- MCWriters
    Lineages = {h1, h2, h9}
    MaxChanges = 2
PROPERTY RecordedAnswersRestrict
CHECK_DEADLOCK FALSE
