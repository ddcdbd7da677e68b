CONSTANTS
  Calls = {c1}
  Frames = {f1}
  NoFrame = NoFrame
  NoDoc = NoDoc
  country = country
  null = null
  us = us
  xx = xx
  plain = plain
  bracketed = bracketed
  Path <- MCPath
  Text <- MCText
  NullText = null
  Ips = {plain}
  SettingsSpace <- Races
  Docs <- AllDocs
  MaxPolls = 3
  Prompt = TRUE
  Faults = {"connect", "body", "memory"}
SPECIFICATION Spec
INVARIANTS
  TypeOK
  AllowedByEveryServer
  WaitCoversOutstanding
  NoDanglingContinuation
  BlockedWithCause
PROPERTIES
  PromiseKept
