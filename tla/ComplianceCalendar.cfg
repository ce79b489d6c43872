\* MCComplianceCalendar: four kinds of company over a New Year.
SPECIFICATION CalendarSpec
CONSTANTS
    Profiles <- MCProfiles
    RuleBook <- MCRules
    AnchorDates <- MCAnchorDates
    EditedDays <- MCEditedDays
    Updaters = {"cron"}
    FirstYear = 2026
    LastYear = 2027
    MaxChanges = 2
CHECK_DEADLOCK FALSE
PROPERTIES
    CalendarIsLawful
    AnnouncedStays
