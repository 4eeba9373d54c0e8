\* Two terminals, two names of credentials, two secrets.
SPECIFICATION FairSpec
CONSTANTS
  t1 = t1
  t2 = t2
  Terminals <- MCTerminals
  Backends = {"linux", "darwin", "windows", "none"}
  Names <- MCNames
  Secrets <- MCSecrets
  Settings <- MCSettings
INVARIANTS StoredKeyIsUsed KeyIsOwn 
PROPERTIES RunReturns
