SPECIFICATION Spec
CONSTANTS
    Users = {own, ann, bob}
    Configured = own
    RoleNames = {"Owner", "Admin"}
    Nobody = nobody
    Kinds = {"model_edit", "report", "proxy", "code", "post", "creator"}
    MaxPrompts = 2
    NoEntry = none
    Accounts = {a1, a2}
    MaxTests = 3
    NoProxy = none
    Suffixes = {s1, s2, s3, s4}
    Window = 2
    NoSuffix = none
    MaxSessions = 3
    Types = {"account", "model", "opportunity", "creator", "readiness", "daily"}
    MaxFlows = 3
    Pages = {p1, p2, p3}
    Scanned = {p2, p3}
    Announced = {p3}
    Limits = {2, 3}
    MaxTime = 4
    Categories = {"recovery", "telegram_bot", "navigation", "platform_connection", "opportunity"}
    Versions = {v1}
    NoMemory = none
    MaxSignals = 2
    Rates = {0, 85, 100}
    Domains = 2
    MaxPressure = 10
    MaxChanges = 2
    Threads = {t1, t2}
    Truths <- MCTruths
    Pressures = {0}
    Ttl = 1
    Nothing = nothing
    Chatters = {c1}
    NoChatter = none
    Priorities = {"normal", "critical"}
    MaxWork = 2
    MaxActs = 2
    Followed = {"posting", "command_verification"}
    Reporters = {r1, r2}
    Committed = committed
    Gone = gone
    Idle = idle
    MaxPlans = 1
    MaxFindings = 2
INVARIANTS
    TypeOK
    AnswersMeetTheirPrompt
    NobodyLeftBehind
    DriftIsHonest
PROPERTIES
    Ownership
    UseAsShown
    SignInIsSound
    FlowsAreKept
    
    MemoryIsFair
    EndsTogether
    ScoresAgree
    ReportsAreRecent
    WayBack
    BooksAgree
    BackReachesHome
CHECK_DEADLOCK FALSE
