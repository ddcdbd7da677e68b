SPECIFICATION Spec
CONSTANTS
  country = country
  city = city
  null = null
  us = us
  xx = xx
  url1 = url1
  url2 = url2
  mistyped = mistyped
  empty = empty
  Path <- MCPath
  Text <- MCText
  NullText = null
  Urls <- MCUrls
  BadUrls = {mistyped, empty}
  Empty = empty
  Files <- MCFiles
  NoMemory = FALSE
INVARIANTS
  FailedLoadBlocks
