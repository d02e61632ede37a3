SPECIFICATION Spec
CONSTANTS
  Chars = {"%", "d", "f", "s", "p", "a"}
  Kinds = {"int", "lua_Number", "LuaInteger", "LuaNumber", "LuaString", "const char*", "nullptr_t"}
  MaxFmt = 4
  MaxArgs = 2
INVARIANTS ChecksWholeFormat NumbersAreNotAddresses
PROPERTY AlwaysAnswers
CHECK_DEADLOCK FALSE
