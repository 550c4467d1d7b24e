CONSTANTS
  None = None
  i1 = i1
  s1 = s1
  s2 = s2
  a1 = a1
  a2 = a2
  Issuers = {i1}
  Subjects = {s1, s2}
  Types = {t1}
  t1 = t1
  Recipients = {s1, s2}
  Approvers = {a1, a2}
  Thresholds = {1, 2}
  MaxCredentials = 2
  MaxRecoveries = 1
SPECIFICATION Spec
INVARIANTS
  RevokedIsAnswered
SYMMETRY Symmetry
