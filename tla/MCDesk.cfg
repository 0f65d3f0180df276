SPECIFICATION DeskSpec
SYMMETRY Symmetry
CONSTANTS
  NCred = 1
  Slots = {r1, r2}
  MaxKey = 3
  MaxEdit = 2
  MaxRestart = 1
  Users = {"ann", "bob"}
  Roles = {"admin"}
  Tokens = {t1}
  Desks = {r1, r2}
  Bootstrap = "ann"
  MaxPassword = 2
  Orders = {w1}
  Parts = {p1}
  Clerks = {r1, r2}
  MaxStock = 2
  MaxEvents = 2
INVARIANTS
  VaultGuarded
  
  SessionsFollowPassword
  TimelineTellsStatus
  StockConserved
PROPERTIES KeepsSecrets
CHECK_DEADLOCK FALSE
