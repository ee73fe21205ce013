SPECIFICATION Spec
CONSTANTS
  None = None
  Roots = {A, B}
  Home = A
  Dirs = {d}
  Notes = {n}
  Target = d
  Handlers = {h1, h2}
  Workers = {w1}
  Windows = {v1, v2}
  MaxEvents = 3
 
PROPERTY NoBlindOverwrite
CHECK_DEADLOCK FALSE
SYMMETRY Symmetry
