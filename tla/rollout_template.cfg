SPECIFICATION FairSpec
CONSTANTS
    Apps = {"a", "b", "c"}
    NameOrder <- ABC
    Plans <- TemplatePlans
    NoApp = NoApp
    NoEntry = NoEntry
PROPERTY TemplateReachesApplications
CHECK_DEADLOCK FALSE
