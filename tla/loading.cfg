SPECIFICATION PluginSpec
CONSTANTS
  country = country
  city = city
  null = null
  us = us
  xx = xx
  url1 = url1
  url2 = url2
  mistyped = mistyped
  empty = empty
  plain = plain
  c1 = c1
  f1 = f1
  Missing = Missing
  NoFrame = NoFrame
  NoDoc = NoDoc
  Path <- MCPath
  Text <- MCText
  NullText = null
  Urls <- MCUrls
  BadUrls = {mistyped, empty}
  Empty = empty
  Files <- MCContents
  NoMemory = TRUE
  Versions <- MCVersions
  Saves <- MCSaves
  MaxSaves = 2
  Width = 5
  Failures = {"memory", "disk"}
  Meanings <- MCMeanings
  Rejects <- MCRejects
  Calls = {c1}
  Frames = {f1}
  Ips = {plain}
  Docs <- UsOrXx
  MaxPolls = 1
  Prompt = TRUE
  Faults = {"body", "memory"}
INVARIANTS
  TypeOK
  CleanIsComplete
  NothingInvented
  OnlyLastLacksClient
  SettledIsWhole
  OnlySaved
  AllowedAsStated
  UnreadBlocks
