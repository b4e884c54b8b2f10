SPECIFICATION Spec
CONSTANTS
    citizen_service = citizen_service
    auth_db = auth_db
    old_url = old_url
    new_url = new_url
    bad_url = bad_url
    openai = openai
    gemini = gemini
    Admin = {alice, bob}
    Requests <- MCRequests
    Defaults <- MCDefaults
    DefaultProvider = openai
    DefaultUrl = old_url
    Urls = {old_url, new_url}
    Frozen = {auth_db}
    Providers = {openai, gemini}
    Keyed = {gemini}
    NoReasoner = NoReasoner
    FirstEnvironment = env_a
    OtherEnvironments = {env_b}
    MaxRequests = 3
    MaxFailures = 1
INVARIANTS
    TypeOK
    BoundsHold
    EnginesAgree
    RestartChangesNothing
    HistoryIsAChain
