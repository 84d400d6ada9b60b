SPECIFICATION Spec
CONSTANTS
  c1 = c1
  c2 = c2
  o1 = o1
  o2 = o2
  o3 = o3
  o4 = o4
  Nil = Nil
  Cells <- MCCells
  Objects <- MCObjects
  Rows <- MCRows
  Stocks <- MCStocks
  MaxEdits = 2
SYMMETRY Symmetry
INVARIANTS FacesShowProduct EditsReachSection OneFaceVisible
