CONSTANTS
  Calls = {c1, c2}
  Frames = {f1}
  NoFrame = NoFrame
  NoDoc = NoDoc
  country = country
  null = null
  us = us
  xx = xx
  plain = plain
  bracketed = bracketed
  Path <- MCPath
  Text <- MCText
  NullText = null
  Ips = {plain}
  SettingsSpace <- SmallPair
  Docs <- AllDocs
  MaxPolls = 2
  Prompt = FALSE
  Faults = {}
SPECIFICATION Spec
INVARIANTS
  BlockedWithCause
