SPECIFICATION Spec
CONSTANTS
    Voice = {v1, v2}
    NoVoice = NoVoice
    Default = v1
    Catalogued = {v2}
    Pack <- MCPack
    NoPack = 0
    MaxVersion = 4
    MaxText = 1
    MaxCrashes = 1
    MaxFaults = 1
INVARIANTS TypeOK 
PROPERTIES WayBack
