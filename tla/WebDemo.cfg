\* Two approvals, two purchases, and verifications that overlap them.
CONSTANTS
    None = None
    Blocks = {"operation", "budget", "challenge"}
    MaxSessions = 2
    MaxApprovals = 2
    MaxRuns = 2
    MaxChecks = 3
SPECIFICATION WebSpec
INVARIANT ComparesOnePermit
PROPERTY ButtonsComeBack
CHECK_DEADLOCK FALSE
