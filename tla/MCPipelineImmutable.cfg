\* The same instance, for one action property (no symmetry).
SPECIFICATION Spec
CONSTANTS
  NoRun = NoRun
  x = x
  bad = bad
  Runs = {r1, r2}
  Files = {f1, f2}
  Rows = {x, bad}
  BadRows = {bad}
  Contents <- SomeContents
  Tries = 2
  LastAttempt = 2
PROPERTY ManifestImmutable
