CONSTANTS
  Api <- AllApi
  Refused <- RefusedForms
  Misbound <- MisboundForms
  Defaults <- DefaultsForms
  Ignoring <- IgnoringForms
  Narrow <- NarrowForms
SPECIFICATION Spec
INVARIANTS
  DeclaredCallAccepted
  ValuesArrive
  NothingIgnored
  DocumentedRangeFits
