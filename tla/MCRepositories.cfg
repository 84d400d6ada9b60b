SPECIFICATION Spec
CONSTANTS
  u1 = u1
  u2 = u2
  s1 = s1
  s2 = s2
  p1 = p1
  p2 = p2
  t1 = t1
  Nil = Nil
  Users = {u1, u2}
  Sections = {s1, s2}
  Products = {p1, p2}
  Titles = {t1}
  DefaultName = t1
  Int16Max = 0
  ProductValues <- MCProductValues
  SectionValues <- MCSectionValues
INVARIANTS TypeOK NoDanglingReference DurableWhenIdle
PROPERTY StoredObjectsAreKept
