CHECK_DEADLOCK FALSE
SPECIFICATION Spec
CONSTANTS
  central = central
  annexe = annexe
  References = {r1, r2}
  Clients = {c1, c2}
  NbCodes = 2
  Noms <- MCNoms
  Stock = {}
  Routeurs = {central}
  Defaut = central
  Pages = {central}
  Requetes = {q1, q2}
  Historiques = {}
  MaxRetires = 1
  MaxRompus = 1
  MaxRetries = 2
SYMMETRY MCSymetrie
INVARIANTS
  TypeOK
  ReserveAuSien
  VerifieOuvert
  EnAttenteReglable
PROPERTY
  TientLeGrandLivre
