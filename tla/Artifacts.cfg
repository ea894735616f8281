\* Two concurrent callers, two large contents and an inline one, one crash.
CONSTANTS
  a1 = a1
  a2 = a2
  x = x
  y = y
  small = small
  c1 = c1
  c2 = c2
  Artifacts = {a1, a2}
  Contents = {x, y, small}
  InlineContents = {small}
  NoContent = NoContent
  ResultArtifacts <- TwoLarge
  Callers = {c1, c2}
  MaxCrashes = 1
SPECIFICATION Spec
SYMMETRY CallerSymmetry
INVARIANTS
  RefCountExact
  BlobBacked
  LeftoversExplained
