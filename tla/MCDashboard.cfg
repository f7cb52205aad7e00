SPECIFICATION Spec
CONSTANTS
    Ids = {1, 2}
    Impact <- MCImpact
    StatusChoices = {"all", "active"}
    RiskChoices = {"all", "high"}
    Texts = {"", "a"}
    FoundBy <- MCFoundBy
    Columns = {"last_seen", "status"}
    PageSize = 1
    OtherStatuses = {"fixed"}
    MaxClicks = 2
    MaxOthers = 1
    RowIds = {1, 2}
    Stocked = {1}
    TabClicks = 3
    Periods = {"day", "week"}
    Days = {7, 30}
    Frameworks = {"SOC2", "HIPAA"}
    ReadClicks = 2
    SidebarClicks = 3
    MaxSessions = 2
    SessionClicks = 4
    Budgets <- MCBudgets
CHECK_DEADLOCK FALSE
INVARIANTS FilterShown EmptyPageHasCause RowsFresh RowsListed LoadedWhole UserIsSession
PROPERTIES ListingIsView TrendsIsView TogglesShow FindingsSettle VisitorsMoveOn
