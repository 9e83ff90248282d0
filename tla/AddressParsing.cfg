SPECIFICATION TextSpec
CONSTANTS
  V4 = {}
  V6 = {}
  Port = {}
  Scope = {}
  Path = {}
  Tokens = {{"1.2.3.4", "[", "]", ":", "::1", "80", "65536"}}
  MaxTokens = 5
INVARIANT WellFormedIsParsed
CHECK_DEADLOCK FALSE
