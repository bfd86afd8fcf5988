SPECIFICATION SessionSpec
CONSTANTS
  user = user
  userPointer = userPointer
  order = order
  Types = {user, userPointer, order}
  TypeName <- MCTypeName
  TableName <- MCTableName
  Structs = {user, order}
  HasBeforeInsert = {userPointer}
  HasAfterQuery = {user, userPointer}
  Conditions = {c1, c2}
  MaxValues = 2
  MaxRaw = 1
  Nil = Nil
INVARIANTS SessionInv StatementIsGiven
