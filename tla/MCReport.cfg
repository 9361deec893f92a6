SPECIFICATION Spec
CONSTANTS
  Database = {d1, d2}
  Index <- Indexes
  SchemaOf <- Schemas
  Public = 2
  Windows = {1, 2}
  MaxTime = 2
  MaxScans = 2
  MaxResets = 1
  Catalog = {1}
  HomeOf <- Home
  d1 = d1
  d2 = d2
  None = None
  Gone = Gone
INVARIANTS TypeOK VelocityIsTrue VelocityCoversWindow VelocityWhenKnown ReportSorted
CHECK_DEADLOCK FALSE
