SPECIFICATION ServerFairSpec
CONSTANTS
    SectorSize = 2
    Size = 5
    Cap = 1
    Values = {0, 1}
    Images <- MCImages
    Commands <- MCCommands
    Policies <- MCPolicies
    MaxCommands = 3
    MaxArms = 2
    MaxSessions = 2
PROPERTIES KeepsCache FailsInTime 
