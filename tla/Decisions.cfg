SPECIFICATION Spec
CONSTANTS
    a = a
    b = b
    c = c
    street = street
    other = other
    exova = exova
    kyte = kyte
    alice = alice
    inside = inside
    site = site
    mail = mail
    p = p
    r = r
    vague = vague
    AccountIds = {a, b, c}
    Domains = {street, other}
    Names = {exova, kyte}
    Addresses = {alice}
    None = None
    Hosts = {inside, site, mail}
    DomainOf <- DomainOfHost
    Internal = {inside}
    Generic = {mail}
    Unreadable = Unreadable
    MarkerWindow = 2
    HeaderWindow = 2
    NoOne = NoOne
    Postcodes = {"NW1", "E2"}
    AreaOf <- AreaOfPostcode
    Identities = {p, r, vague}
    Distinctive = {p, r}
    Nothing = Nothing
    Delays = {20, 2000}
    LimitDelay = 60
    TransientDelay = 30
    Midnight = 5000
    BaseBackoff = 30
    MaxBackoff = 900
    MaxAttempts = 3
    Unset = Unset
    LabelNames = {"NW", "nw", "E"}
    AreaNamed <- AreaOfName
    Required <- Contract
    Foreign = {3}
    Columns = {"files", "accounts", "postcode"}
    Boards = {"sales", "accounts"}
    SalesBoard = "sales"
    AccountsBoard = "accounts"
    Unlabelled = Unlabelled
    Messages <- SomeMessages
    Questions <- SomeQuestions
    Enquiries <- SomeEnquiries
    Failures <- SomeFailures
    Schemas <- SomeSchemas
INVARIANTS
    VouchedByOwnMessage
    NoRivalHasAsMuch
    DomainAndNameAgree
    LazyEqualsEager
    NoBorrowedPostcode
    OpenGatePinsLabels
    RetryIsWarranted
CHECK_DEADLOCK FALSE
