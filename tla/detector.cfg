SPECIFICATION FairSpec
CONSTANTS
  a = a
  a2 = a2
  b = b
  p = p
  sketch = sketch
  ha = ha
  hb = hb
  hp = hp
  nolib = nolib
  Sketch = sketch
  Libs = {a, a2, b, p}
  Headers = {ha, hb, hp, nolib}
  HeaderOf <- Headered
  Attr <- Seen
  Profile = {p}
  Wrong = {a2}
  Contents <- SomeContents
  MaxBuilds = 3
  MaxEdits = 2
  None = none
INVARIANTS DetectorInv NothingMissing PreprocessedCurrentIfSound
PROPERTY BuildEnds
CHECK_DEADLOCK FALSE
