SPECIFICATION Spec
CONSTANTS
    Interfaces <- MCInterfaces
    EncryptedContainer <- MCEncryptedContainer
    Queries <- MCQueries
    BatteryName <- MCBatteryName
    Actions <- MCActions
    Plugins <- MCPlugins
    Devices <- MCDevices
    Suppressions = {"sleep", "screen"}
    Applications = {"player", "editor"}
    Shell = "shell"
    NoDevice = "none"
    NoAction = "none"
    NoCookie = 0
    Assumed <- Assumptions
    Sizes = {1, 5, 8}
    IntWidth = 3
    Asked <- MCAsked
    MaxChanges <- MCMaxChanges
INVARIANTS
    DevicesShown
    QueriesCurrent
    ActionsShown
    NotificationIsLast
    BatteriesShown
    ServiceShown
CHECK_DEADLOCK FALSE
