CHECK_DEADLOCK FALSE
SPECIFICATION FairSpec
CONSTANTS
  Abonnes = {s1, s2}
  Anciens = {}
  Requetes = {q1}
  Periode = 1
  Grace = 0
  MaxRetries = 1
  MaxGestes = 2
  MaxPannes = 1
PROPERTIES
  AccesExpireCoupe
