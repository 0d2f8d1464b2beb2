SPECIFICATION TimeSpec
CONSTANTS
    KERNEL_TIME_SECONDS_MAX = 2
    KERNEL_TIME_MINUTE_MAX = 1
    KERNEL_TIME_HOUR_MAX = 3
    StartYears = {1901, 1999, 2023, 2026, 2099}
    MaxYear = 2099
CHECK_DEADLOCK FALSE
PROPERTIES
    ClockSpec
