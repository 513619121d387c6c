SPECIFICATION Spec
CONSTANTS
    Sources <- MCSources
    Targets <- MCTargets
    SourceKinds <- MCSourceKinds
    TargetKinds <- MCTargetKinds
    Lower <- MCLower
    Tokens <- MCTokens
    Broker = "b"
    Scopes = {a, b}
    Invalid = Invalid
    Ref = Ref
    Redacted = Redacted
    None = None
    k1 = k1
    k2 = k2
    MaxCommands = 4
    MaxFaults = 1
    MaxKills = 1
SYMMETRY TokenSymmetry
CHECK_DEADLOCK FALSE
INVARIANTS
    IndInv
    CreateCompletes
    RestartServes
    DeleteCleans
    CredentialsKept
    DumpServes
