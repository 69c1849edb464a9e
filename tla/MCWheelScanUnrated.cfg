SPECIFICATION ScanSpec
CONSTANTS
  Libraries = {"openssl", "argon2"}
  AlwaysReport = {"openssl"}
  CopyMarked = {"openssl"}
  CratesOf <- MCCratesOf
  RustCrates <- MCRustCrates
  Stems = {"ext", "crypto", "crypto-hash", "other", "ssl", "x", "argon2"}
  Paths = {"a", "b", "b(x)", "c", "m.py", "n.py", "n.pyc"}
  Routine = {"ordinal_import"}
  Costing = {"symtab_cut", "dynamic_unread"}
  Identity = {"dynamic_unread"}
  Wheels <- MCScanWheels
  NoAnswer = NoAnswer
  WheelPath = "wheel"
  GroupName <- MCGroupName
  Generator = "generator"
  Rulesets <- MCRulesets
  Scans <- MCScans
  PathOrder <- MCPathOrder
  NameOrder <- MCNameOrder
  Matches = 2
  Inventory = {"adler", "ahash", "anyhow", "autocfg"}
  NoRecord = NoRecord
INVARIANT
  EmptyInventory
CHECK_DEADLOCK FALSE
