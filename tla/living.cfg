SPECIFICATION Spec
CONSTANTS
    Plan <- Plans
    Period <- Periods
    TrialDays <- Trials
    GraceDays <- Graces
    Price <- Prices
    GrantDays = 2
    None = None
    QUIET_AFTER = 4
    QUIET_BANDS <- Bands
    TRIAL_ENDING_WITHIN = 2
    LOSING_ACCESS_WITHIN = 2
    MAX_PAGE_SIZE = 2
    Day = 2
    Week = 4
    MonthStart <- Months
    MonthHop = 7
    DEFAULT_PERIOD = 6
    MaxUsers = 1
    Offered = {"days"}
    FirstDays = 3
    MaxDays = 5
    MaxWall = 2
    FRESHEST = 1
    QUIET_WINDOW <- QuietWindow
    PRESENT_WINDOW <- PresentWindow
    EXPIRED_WINDOW <- ExpiredWindow
    CANCELLED_WINDOW <- CancelledWindow
INVARIANTS FiguresAddUp
PROPERTIES RenewalsAreRuledOnce MarksAreHonest
CHECK_DEADLOCK FALSE
