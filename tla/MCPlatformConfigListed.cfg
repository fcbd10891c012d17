\* Are the default flags listed until they are stored?
SPECIFICATION Spec
CONSTANTS
  None = None
  commission = commission
  cities = cities
  extra = extra
  old = old
  new = new
  rollout = rollout
  payments = payments
  Keys = {commission, cities, extra}
  Values = {old, new}
  FlagKeys = {rollout, payments}
  DefaultConfig <- Defaults
  Patches <- OneFieldPatches
  Slots = {}
  FlagSlots = {t1}
  Admins = {a1}
  DefaultFlags <- TwoFlagDefaults
INVARIANTS DefaultsAreListed
