\* Contents of every kind, encoded up to three times.
CONSTANT MaxCoats = 3
SPECIFICATION ContentSpec
INVARIANTS
  SeenAsMeant
  PlainArrives
  RequestIsRestored
