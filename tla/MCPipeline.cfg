\* Two runs, two tries, two raw objects, two attempts of transforms.
SPECIFICATION Spec
CONSTANTS
  NoRun = NoRun
  x = x
  bad = bad
  Runs = {r1, r2}
  Files = {f1, f2}
  Rows = {x, bad}
  BadRows = {bad}
  Contents <- SomeContents
  Tries = 2
  LastAttempt = 2
SYMMETRY Symmetric
INVARIANTS
  TypeOK
  NamesPublished
  SettledAgrees
PROPERTIES
  ImplementsCatalog
