SPECIFICATION Spec
CONSTANTS
    Plan <- Plans
    Period <- Periods
    TrialDays <- Trials
    GraceDays <- Graces
    Price <- Prices
    GrantDays = 2
    None = None
    QUIET_AFTER = 3
    QUIET_BANDS <- Bands
    TRIAL_ENDING_WITHIN = 2
    LOSING_ACCESS_WITHIN = 2
    MAX_PAGE_SIZE = 2
    Request = {r1, r2}
    Operation <- Menu
    Opening <- People
    Projection <- Views
    History <- Earlier
    Trail <- Abroad
    Program = {"partners"}
    Limit <- OneEach
    Email = {1, 2}
    Colleagues = {2}
    Ticker = ticker
    Here = "here"
    Watched = 1
    Walk <- Walks
    PageSize = 1
    MaxActors = 2
    Start = 10
    End = 11
SYMMETRY Slots
INVARIANTS AnswersMatchTheBooks PaymentsCountOnce PagersSkipNothing PagesAreCut
CHECK_DEADLOCK FALSE
