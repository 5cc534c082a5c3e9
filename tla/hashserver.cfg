SPECIFICATION MCSpec
CONSTANTS
  Tasks = {t1, t2, t3}
  Outs = {o1, o2}
  Unis = {u1, u2}
  Marks = {m1}
  Conns = {c1, c2}
  None = None
  Conditions <- SomeConditions
  MaxAges = {0, 1}
  MaxDays = 1
  MaxRows = 4
  MaxUpstream = 1
  MaxQueue = 1
  MaxCrashes = 1
  Uses <- AllUses
SYMMETRY Interchangeable
INVARIANTS
  AnswersHaveASource
  EqualOutputs
  SweepKeepsMarked
