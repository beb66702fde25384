SPECIFICATION Spec
CONSTANTS
  Duree = 2
  MaxRetries = 1
  MaxRenouvellements = 1
  MaxRedemarrages = 1
INVARIANTS
  TypeOK
  CoupureSuivie
PROPERTIES
  EcheanceConstatee
