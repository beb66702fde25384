SPECIFICATION Spec
CONSTANTS
  Requetes = {r1, r2}
  Titulaire = titulaire
  Autres = {autre}
  MaxParCompte = 1
  MaxParAdresse = 2
  Fenetre = 1
  EssaiJours = 1
  PeriodeJours = 2
  Tolerance = 1
  Validite = 1
  MaxGestes = 4
  MaxRouteurs = 2
SYMMETRY Symetrie
INVARIANTS
  TypeOK
  EssaisBornes
  PlateformePayee
  CodeRecuVaut
PROPERTIES
  PlafondTenu
