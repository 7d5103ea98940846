SPECIFICATION ServerSpec
CONSTANTS
  Host = {h1, h2}
  Mount = {m1}
  Cpu = Cpu
  Enabled = {"disk"}
  MaxWork = 0
  MaxSeries = 3
SYMMETRY HostSymmetry
INVARIANT AnswerCovers NoEmptyInstance InstancesBacked
