SPECIFICATION Spec
CONSTANTS
  nA = nA
  nB = nB
  tEmpty = tEmpty
  tNull = tNull
  tTrue = tTrue
  tUS = tUS
  tArray = tArray
  tObject = tObject
  tWrapped = tWrapped
  Width = 3
  EmptyText = tEmpty
  NullText = tNull
  Segments <- MCSegments
  Path <- MCPath
  Text <- MCText
  TypeText <- MCTypeText
  Decimal <- MCDecimal
  Documents <- MCDocuments
  Values <- MCValues
INVARIANTS
  TypeOK
  PresentIsFound
  AbsentIsDenied
