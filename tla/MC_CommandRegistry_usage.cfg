CONSTANTS
    nosuchcmd = nosuchcmd
    Unknown <- nosuchcmd
    Usage <- DocumentedUsage
    MaxArgc = 6
SPECIFICATION Spec
INVARIANT UsageAdmitted
