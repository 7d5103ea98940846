SPECIFICATION FairSpec
CONSTANTS
    Host = {h1}
    Mount = {m1}
    Cpu = Cpu
    Enabled = {"cpu"}
    MaxWork = 4
INVARIANT TypeOK
INVARIANT CpuExact
PROPERTY Recovers
