SPECIFICATION Spec
CONSTANTS
  c1 = c1
  c2 = c2
  t1 = t1
  p1 = p1
  Consumer = {c1, c2}
  Topic = {t1}
  Payload = {p1}
  MaxSeq = 3
  MaxPending = 2
SYMMETRY Symmetry
INVARIANTS
  TypeOK
  OrderedDelivery
  NothingDropped
  NoHeadOfLineBlock
  OffsetsAccountFor
