SPECIFICATION MCSpec
CONSTANTS
  f1 = f1
  f2 = f2
  f3 = f3
  s1 = s1
  s2 = s2
  p1 = p1
  o1 = o1
  o2 = o2
  t1 = t1
  d1 = d1
  None = None
  Prose = Prose
  FactIds <- ThreeFacts
  Subjects <- TwoSubjects
  Predicates = {p1}
  Objects = {o1, o2}
  FactTypes = {t1}
  Names = {d1}
  MaxBatch = 2
SYMMETRY Interchangeable
INVARIANTS RelationsSound QueryIsScan TraverseByDistance StoresAgree RetrievedOnce
