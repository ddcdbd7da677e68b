CONSTANTS
  Calls = {c1, c2}
  Frames = {f1}
  NoFrame = NoFrame
  NoDoc = NoDoc
  country = country
  null = null
  us = us
  xx = xx
  plain = plain
  bracketed = bracketed
  Path <- MCPath
  Text <- MCText
  NullText = null
  Ips = {plain, bracketed}
  SettingsSpace <- FewServers
  Docs <- OnlyXx
  MaxPolls = 1
  Prompt = FALSE
  Faults = {"connect"}
SPECIFICATION FairSpec
PROPERTIES
  CountedFailureBlocks
  EveryCallEnds
