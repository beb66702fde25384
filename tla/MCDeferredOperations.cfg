SPECIFICATION Spec
CONSTANTS
  Seuil = 1
  Repos = 1
  BudgetSonde = 1
  Liens = {"bon", "coupe"}
  Modifiable = TRUE
  Ops = {couper, basculer}
  Impossibles = {basculer}
  Demandeurs = {d1}
  Vidanges = {v1, v2}
  MaxLignes = 2
  MaxAttempts = 2
  Lot = 2
  MaxRedemarrages = 1
  MaxPannes = 1
INVARIANTS
  TypeOK
  RejeuFidele
  TentativesExactes
PROPERTIES
  LaFileAvance
