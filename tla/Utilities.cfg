SPECIFICATION Spec
CONSTANTS
  MaxLength = 6
  MaxLong = 40
  MaxTokens = 3
  Letters = {1, 2}
  Modulus = 65536
CHECK_DEADLOCK FALSE
INVARIANTS
  DecryptsWhatWasEncrypted HashIsPolynomial BatchesKeepTheList PagesTileTheList LastOfItsKind
