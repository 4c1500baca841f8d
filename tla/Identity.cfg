SPECIFICATION MCSpec
CONSTANTS
  Users = {"alice", "bob"}
  Payloads = {{}, {"ADMIN"}}
  Calls = {c1, c2}
  Limit = 2
  Window = 2
  TokenTTL = 1
  MaxTokens = 1
  MaxCount = 3
INVARIANTS
  NoSelfPromotion
  OverrunBounded
  RevokedAtOnce
PROPERTY
  BlockEndsUnlessLost
