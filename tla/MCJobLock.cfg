SPECIFICATION SpecVerrou
CONSTANTS
  p1 = p1
  p2 = p2
  Processus <- MCProcessus
  Executions <- MCExecutions
  De <- MCDe
  Ttl = 2
INVARIANTS
  TypeOKVerrou
  PasDeChevauchement
  RetardsSansContagion
PROPERTY
  LeTravailReprend
