SPECIFICATION Spec
CHECK_DEADLOCK FALSE
CONSTANTS
  Sessions = {s1, s2}
  VmNames = {"ci", "ci-2"}
  Generated = {}
  Images = {"rust"}
  Typed = {"ci", "ci-2", "rust"}
  Begins <- MCBegins
  MaxStarts = 3
PROPERTY RemovesItsOwn
