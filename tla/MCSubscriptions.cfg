CHECK_DEADLOCK FALSE
SPECIFICATION FairSpec
CONSTANTS
  Abonnes = {s1, s2}
  Anciens = {s1}
  Requetes = {q1, q2}
  Periode = 1
  Grace = 1
  MaxRetries = 1
  MaxGestes = 2
  MaxPannes = 1
INVARIANTS
  TypeOK
  AccesSuitStatut
  PeriodesPayees
PROPERTIES
  ToleranceFinie
