SPECIFICATION Spec
CONSTANTS
  Seuil = 3
  Repos = 3
  BudgetSonde = 2
  Appels = {c1, c2, c3}
INVARIANTS
  TypeOK
  UneSeuleSonde
  LienMortGarde
PROPERTIES
  JamaisFermePourToujours
  TientSaPromesse
