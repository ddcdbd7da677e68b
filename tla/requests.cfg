SPECIFICATION Spec
CONSTANTS
  Urls <- MCUrls
  Addresses <- MCAddresses
  Illegal = {"[", "]", " "}
INVARIANTS
  TypeOK
  AsksAsConfigured
  OnlyIllegalThrows
  SplitsRightly
  ReplacesFirst
  ReplacesAll
