SPECIFICATION Spec
CONSTANTS
  Libraries = {"openssl", "argon2"}
  AlwaysReport = {"openssl"}
  CopyMarked = {"openssl"}
  CratesOf <- MCCratesOf
  RustCrates = {"openssl", "openssl-sys", "argon2"}
  Stems = {"ext", "crypto", "crypto-hash", "other", "ssl", "x"}
  Paths = {"a", "b", "b(x)"}
  Routine = {"ordinal_import"}
  Costing = {"symtab_cut", "dynamic_unread"}
  Identity = {"dynamic_unread"}
  Wheels <- MCWheels
  NoAnswer = NoAnswer
INVARIANT
  UnrecordedIsUnanswered
CHECK_DEADLOCK FALSE
