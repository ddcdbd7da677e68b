SPECIFICATION Spec
CONSTANTS
  Urls <- PathUrls
  Addresses <- Unscoped
  Illegal = {"[", "]", " "}
INVARIANTS
  AddressIsAsked
