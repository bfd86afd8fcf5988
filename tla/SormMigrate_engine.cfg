SPECIFICATION MigrateSpec
CONSTANTS
  s1 = s1
  t1 = t1
  m1 = m1
  Sessions = {s1}
  Transactions = {t1, m1}
  Migrations = {m1}
  MaxWrites <- MCMaxWrites
  MaxBegins = 2
  Fails = TRUE
  Columns = {"a", "b", "x"}
  Fields = {"a", "b"}
INVARIANTS Inv ReturnTells
PROPERTY MigratesWhole
