CHECK_DEADLOCK FALSE
SPECIFICATION Spec
CONSTANTS
  central = central
  annexe = annexe
  References = {r1, r2}
  Clients = {c1}
  NbCodes = 2
  Noms <- MCNoms
  Stock <- MCStock
  Routeurs = {central}
  Defaut = central
  Pages = {central}
  Requetes = {q1}
  Historiques <- MCStock
  MaxRetires = 0
  MaxRompus = 0
  MaxRetries = 2
INVARIANT
  ReabonnementHonore
