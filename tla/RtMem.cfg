SPECIFICATION Spec
CONSTANTS
  RegionSize = 6
  Alignment = 2
  PageSize = 2
  Capacity = 2
  Base = 4
  Counts = {1, 2, 7}
  Lengths = {2}
  Byte = {zero, poison}
  Zero = zero
  Poison = poison
  Discipline = "carved"
INVARIANTS RegistrySound TrapJustified
PROPERTIES TrackedPoisoned OwnedUndisturbed ImplementsContract
CHECK_DEADLOCK FALSE
