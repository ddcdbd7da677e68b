CONSTANTS
  Calls = {c1}
  Frames = {f1}
  NoFrame = NoFrame
  NoDoc = NoDoc
  country = country
  null = null
  us = us
  xx = xx
  plain = plain
  bracketed = bracketed
  Path <- MCPath
  Text <- MCText
  NullText = null
  Ips = {plain}
  SettingsSpace <- OneServer
  Docs <- AllDocs
  MaxPolls = 2
  Prompt = TRUE
  Faults = {"connect"}
SPECIFICATION Spec
INVARIANTS
  ProcessSurvives
