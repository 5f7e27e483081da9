SPECIFICATION UpdatesSpec
CONSTANTS
    f1 = f1
    k1 = k1
    s1 = s1
    r1 = r1
    h1 = h1
    Boot = Boot
    Loop = Loop
    None = None
    NoHash = NoHash
    Files <- OneFile
    Keys <- OneKey
    Channels <- OneChannel
    Reloads <- OneReload
    Hooks <- OneHook
    v1 = v1
    Versions <- OneVersion
    claude = claude
    gemini = gemini
    Providers <- TwoProviders
    Provider <- ProviderOf
    Broken = Broken
    Absent = Absent
    Present = Present
    QueueSize = 1
    MaxChanges = 2
INVARIANTS
    UpdatesTypeOK
    ManagerFollows
    SourcesFollowed
CHECK_DEADLOCK FALSE
