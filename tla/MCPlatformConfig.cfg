\* Overlapping PUTs of different fields by two admins, and overlapping toggles
\* of two flags; the two share no table, so each is explored with the other
\* idle.
SPECIFICATION Spec
CONSTRAINT OneTableAtATime
SYMMETRY Interchangeable
CONSTANTS
  None = None
  commission = commission
  cities = cities
  extra = extra
  old = old
  new = new
  rollout = rollout
  payments = payments
  Keys = {commission, cities, extra}
  Values = {old, new}
  FlagKeys = {rollout, payments}
  DefaultConfig <- Defaults
  Patches <- OneFieldPatches
  Slots = {s1, s2}
  FlagSlots = {t1, t2}
  Admins = {a1, a2}
  DefaultFlags <- TwoFlagDefaults
INVARIANTS TypeOK
PROPERTIES SettledFieldsNeedAPatch FlagsAreARegister
