SPECIFICATION Spec
CONSTANTS
  MaxPrincipals = 2
  MaxKeys = 2
  MaxFailures = 1
  Loop = loop
  w1 = w1
  Pool = {w1}
  Setting = {"auth", "register"}
  MaxOps = 4
INVARIANTS RevocationLasts IssuedKeyWorks SettingHolds  
CHECK_DEADLOCK FALSE
