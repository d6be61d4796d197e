SPECIFICATION Spec
CONSTANTS
    Worker = {w1}
    ours = ours
    Request = {r1, r2}
    Team <- MCTeam
    TeamOf <- OneTeam
    None = None
    MaxFault = 0
PROPERTIES
    SkipsMeanProgress
