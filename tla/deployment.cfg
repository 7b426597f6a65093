SPECIFICATION Spec
CONSTANTS
  Commands = {c1, c2}
  Green = {"qwen2.5:7b-instruct"}
  Yellow = {"gemma2:9b-instruct"}
  Default = "qwen2.5:7b-instruct"
  Locked = "qwen2.5:7b-instruct"
  Keep = Keep
  Threads = {w}
  Loop = Loop
  Scans = {s1, s2}
  AutoDetect = FALSE
SYMMETRY Symmetry
INVARIANTS
  YellowOnlyAccepted
  SetupStands
  ScansShareTheApp
