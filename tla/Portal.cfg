SPECIFICATION PortalSpec
CONSTANTS
    e1 = e1
    e2 = e2
    y1 = y1
    y2 = y2
    Tab = {t1, t2}
    Call = {c1, c2}
    MaxTokens = 2
    MaxPasswords = 1
    Submission = {c1, c2}
    Reviewer = {t1, t2}
    Survey = {c1, c2}
    NoSurvey = NoSurvey
    NoFiles = NoFiles
    BrandScope = {co, e1}
    Corporate = co
    Picture = {c1, c2}
    Editor = {t1, t2}
    Blank = Blank
    Nowhere = Nowhere
    MaxSaves = 3
    DayLength = 4
    Week = 2
    HoursOption <- MCHours
    BreaksOption <- MCBreaks
    ClosuresOption <- MCClosures
    SlotLength = {1, 2}
    Notice = {0, 5}
    Zone <- MCZones
    Now = {17, 18, 19, 20, 21, 22}
    Taken <- MCTaken
    Field = {"hours", "breaks"}
    Setting = {"a", "b"}
    LayerClosure = {"c"}
    Site = {e1, e2}
    Bay = {y1, y2}
    SiteOf <- MCSiteOf
    WholeCompany = WholeCompany
    DriveStart = 2
    DriveEnd = 4
    ClockEnd = 4
    Cutoff = {0, 2}
    CheckInLead = {0, 1}
    Hour = 2
    MaxGroups = 2
    Place = {y1, y2}
    Agent = {a1}
    Integration = Integration
    Shopper = 3
    Period = {2, 3}
SYMMETRY Symmetric
INVARIANTS
    PortalTypeOK
    ResetEndsSessions
    SignedInTabsHoldTokens
    DriveStartsOnSignedPapers
    NamedFilesAreStored
    OneSurveyPerDrive
    SitesShowTheirImages
    ScheduleIsSound
    OffersAreGranted
    DashboardIsRight
    RecordsKeepData
CHECK_DEADLOCK FALSE
