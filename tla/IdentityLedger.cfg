SPECIFICATION Spec
CONSTANTS
  Entities = {e1, e2}
  Mints = {m1, m2, m3}
  Relationships = {r1, r2}
  Proposals = {p1, p2}
  EntityLimit = 1
  VariantLimit = 3
  RelationshipLimit = 1
  PendingLimit = 1
  None = None
SYMMETRY Symmetry
INVARIANTS
  RegistryConstructs
  CapacityIsKept
  DecidedIsRetained
