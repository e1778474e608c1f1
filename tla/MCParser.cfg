CONSTANTS
  Names = {"x", "f", "s", "self", "mut", "i32", "u64", "inline", "no_inline", "deprecated", "always"}
  Numbers = {"0", "1"}
  Templates <- AllTemplates
  Edits = {"(", ")", "{", "}", ",", ";", ":", "=", "x", "1", "+", "fn"}
  Anything = {"x", "1", "(", ")", "{", "}", ";", ":", "=", ".", "if"}
SPECIFICATION Spec
INVARIANTS AcceptedIsKept LegalAccepted NeverStuck
CHECK_DEADLOCK FALSE
