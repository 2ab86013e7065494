\* Two sessions, two keys, two requests and an auth command; a session lives for a
\* tick, and three failed logins of one address within two minutes are one too many.
SPECIFICATION FairSpec
CONSTANTS
  Tokens = {t1, t2}
  Keys = {k1, k2}
  Requests = {r1, r2}
  Commands = {c1}
  Addresses = {a1}
  MaxIdle = 2
  Window = 2
  MaxFail = 2
  MaxHits = 4
  NoFile = NoFile  NoKey = NoKey  NoToken = NoToken
INVARIANTS TypeOK LogoutSticks RevokedGone KeyInUse RefusedOverLimit
PROPERTIES StreamsEnd
