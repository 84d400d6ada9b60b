SPECIFICATION Spec
CONSTANTS
  u1 = u1
  u2 = u2
  s1 = s1
  s2 = s2
  s3 = s3
  s4 = s4
  p1 = p1
  p2 = p2
  p3 = p3
  p4 = p4
  p5 = p5
  p6 = p6
  t1 = t1
  Nil = Nil
  Users = {u1, u2}
  Sections = {s1, s2, s3, s4}
  Products = {p1, p2, p3, p4, p5, p6}
  Titles = {t1}
  DefaultName = t1
  SeedName = t1
  Int16Max = 2
  ProductValues <- MCProductValues
  SectionValues <- MCSectionValues
  Seed <- MCSeed
  Limit = 2
  MaxFaults = 1
  MaxEdits = 1
INVARIANTS ViewIsSortedPermutation ViewFollowsStore ArrowsMatchRule
  EveryRowHasContent SectionsAreWhole FirstRunHappensOnce LoadFindsUser StoredSectionsAreShown
PROPERTY FirstRunIsNotResumed
