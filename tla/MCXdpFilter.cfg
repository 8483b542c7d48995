SPECIFICATION XdpSpec
CONSTANTS
  Cpus = {c1, c2}
  rate = 2
  Second = 3
  Word = 16
  MaxTime = 4
  MaxPackets = 5
SYMMETRY CpuSymmetry
INVARIANTS XdpTypeOK RateKept PacedNotStarved
CHECK_DEADLOCK FALSE
