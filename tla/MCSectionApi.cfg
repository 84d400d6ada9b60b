SPECIFICATION ApiFairSpec
CONSTANTS
  u1 = u1
  s1 = s1
  s2 = s2
  p1 = p1
  p2 = p2
  p3 = p3
  t1 = t1
  t2 = t2
  Nil = Nil
  Users = {u1}
  Sections = {s1, s2}
  Products = {p1, p2, p3}
  Titles = {t1, t2}
  DefaultName = t1
  SeedName = t1
  Int16Max = 1
  ProductValues <- MCProductValues
  SectionValues <- MCSectionValues
  Seed <- MCSeed
  Limit = 1
  MaxEdits = 1
  MaxFaults = 1
PROPERTIES UsesRepositories WriteBackLosesNothing FirstRunCompletes
