SPECIFICATION Spec
CONSTANTS
  c1 = c1  c2 = c2  c3 = c3
  Calls <- MCCalls
  Fields <- MCFields
  Texts <- MCTexts
  Configurations <- MCConfigurations
  None = None
SYMMETRY CallSymmetry
INVARIANTS
  TypeOK
  OneClientPerConfiguration
  ClientFitsConfiguration
