CONSTANTS
  r1 = r1
  r2 = r2
  Request = {r1, r2}
  Provider = {"openai", "anthropic"}
  Model = {"gpt-4o", "gpt-4o-mini", "gemini-2.5-flash"}
  Threshold = 2
  Timeout = 0
  OpenTtl = 1
  FailTtl = 2
SPECIFICATION FairSpec
INVARIANTS TypeOK HalfOpenIsArmed
PROPERTIES TripHolds Recovers
