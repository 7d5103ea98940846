SPECIFICATION Spec
CONSTANTS
  Host = {h1}
  Mount = {m1}
  Cpu = Cpu
  Enabled = {"cpu", "disk"}
  MaxWork = 4
INVARIANT CpuIsInterval
