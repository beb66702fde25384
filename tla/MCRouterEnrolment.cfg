CHECK_DEADLOCK FALSE
SPECIFICATION Spec
CONSTANTS
  Appareils = {a1, a2}
  Invitations = {i1, i2}
  Fiches = {f1, f2}
  NbAdresses = 2
  Plafond = 1
  Requetes = {q1, q2}
  MaxAleas = 1
SYMMETRY MCSymetrie
INVARIANTS
  TypeOK
  TunnelCoherent
  AdresseRendue
  JetonServiUneFois
