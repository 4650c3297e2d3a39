\* Two handlers, a picture, two clips, two writes and two faults.
SPECIFICATION Spec
CONSTANTS
  Handler = {h1, h2}
  Slot = {icon}
  Clip = {c1, c2}
  Silence = silence
  MaxWrites = 3
  MaxFaults = 2
SYMMETRY Alike
INVARIANTS TypeOK ClipsKept VersionTells
