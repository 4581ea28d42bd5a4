SPECIFICATION FormSpec
CONSTANTS
  Bodies <- MCBodies
  Opaque = Opaque
  Invalid = Invalid
  Forms <- MCForms
  FoldCase <- MCFold
  Languages = {"ru", "de"}
  Alnum = {"a"}
  AllocMayFail = FALSE
INVARIANTS
  TypesAreChecked
CHECK_DEADLOCK FALSE
