SPECIFICATION FairSpec
CONSTANTS
    a = a  b = b  c = c  s = s  x = x  z = z  u = u  one = one  two = two
    p1 = p1  p2 = p2  q = q  w = w
    Varbinds <- MCVarbinds
    System <- MCSystem
    Names = {p1, p2, q, w}
    Conditional = {q}
    Mibs = {a, b, c, s}
    Standard = {s}
    Indexes <- MCIndexes
    NoIndex <- NoMibs
    Unusable = Unusable
    Failing = Failing
    Down = Down
    Instances <- MCInstances
    Nested <- MCNested
    Above <- MCAbove
    Mentions <- MCMentions
    Numeric <- MCNumeric
    Collections <- MCCollections
    WalkProfile <- MCWalkProfile
    PollProfiles <- MCPollProfiles
    MaxOid = 1
    MaxFaults = 1
    MaxChanges = 1
INVARIANTS
    TypeOK
    RequestIsTheUnion
    EveryValueHasItsAsker
    FailuresStayInTheirChunk
PROPERTIES
    EventuallyTranslated
    IndexOutageIsHarmless
