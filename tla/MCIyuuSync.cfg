\* The catalogue, its rules and the service that fetches it.
SPECIFICATION Spec

CONSTANTS
    s1 = s1
    s2 = s2
    s3 = s3
    a = a
    b = b
    c = c
    c1 = c1
    c2 = c2
    o1 = o1
    o2 = o2
    raw = raw
    x = x
    y = y
    z = z
    org = org
    net = net
    cc = cc
    key = key
    bare = bare
    slash = slash
    typed = typed
    i1 = i1
    NoDomain = NoDomain
    NoKeyword = NoKeyword
    NoSite = NoSite
    Invalid = Invalid
    Observations = {o1, o2, raw}
    Hosts = {x, y, z}
    HostOf <- HostOfAll
    DomainOf <- DomainOfAll
    KeywordOf <- KeywordOfAll
    Patterns = {bare, slash, typed}
    Covers <- CoversAll
    Exact = {bare}
    Order <- OrderAll
    SiteIds = {s1, s2, s3}
    Names = {a, b, c}
    Displays = {1, 2}
    Canon <- CanonAll
    CanonRow <- CanonRowAll
    Instance <- OneInstance
    Snapshots <- SomeSnapshots
    Callers = {c1, c2}
    SuccessDelay = 1
    FailureDelays = {2}
    LegacyRules <- SomeLegacy
    LegacyRows = {{o1, raw}}
    MaxTime = 3
    MaxEdits = 2

SYMMETRY Symmetric

INVARIANTS
    TypeOK
    AlwaysClassified
    CatalogueLinked
    StaleWhenMissing

PROPERTIES
    SlugsStay
    RulesLeaveForAReason
    TimesMoveOn

CHECK_DEADLOCK FALSE
