SPECIFICATION SpecOffre
CONSTANTS
  Demandes = {a1, a2}
  Versions = {1, 2}
  Partages = {TRUE, FALSE}
  MaxRetries = 1
  Jonctions = {j1, j2}
  MaxChangements = 2
SYMMETRY Symetrie
INVARIANTS
  TypeOKOffre
  ReconciliationTient
  ReconciliationRejouable
