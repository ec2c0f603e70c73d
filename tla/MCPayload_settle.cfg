SPECIFICATION Spec
CONSTANTS
    SpecChoices <- MCSpecs
    ServerChoices <- MCServers
    SecretChoices <- MCSecrets
    ConsoleEdits <- MCEdits
    Marker = "managed"
    Sensitive <- MCSensitive
    MaxEdits = 3
    Norms <- MCNorms
    Values <- MCValues
    Depth <- MCDepth
    NestedEqual <- MCEqual
    NestedCarries <- MCCarries
PROPERTIES
    SpecEnforced
    Settled
    ScalarsReset
    OthersKept
