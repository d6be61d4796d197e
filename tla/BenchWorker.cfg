SPECIFICATION FairSpec
CONSTANTS
    Worker = {w1, w2}
    ours = ours
    Request = {r1, r2}
    Team <- MCTeam
    TeamOf <- OneTeam
    None = None
    MaxFault = 1
INVARIANTS
    OneRunPerTeam
    FinishedMeansPosted
    CleanEnd
    LockInv
PROPERTIES
    QuietTeamEnds
