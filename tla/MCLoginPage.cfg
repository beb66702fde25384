CHECK_DEADLOCK FALSE
SPECIFICATION Spec
CONSTANTS
  nom = nom
  nomPort = nomPort
  lan = lan
  lanPort = lanPort
  Requetes = {r1, r2}
  Dossiers = {d1, d2}
  Adresses = {nom, nomPort, lan, lanPort}
  SansPort <- MCSansPort
  Noms = {nom, nomPort}
  Publiques = {nom, nomPort}
  MaxGestes = 2
  MaxMains = 1
SYMMETRY Symetrie
INVARIANTS
  TypeOK
  ReparationOuvre
  PublicationFidele
