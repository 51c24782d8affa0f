\* Two uploads of the same artifact, the second a further version; a request.
CONSTANTS
  u1 = u1
  u2 = u2
  u3 = u3
  a1 = a1
  a2 = a2
  d1 = d1
  Uploads = {u1, u3}
  Archives = {}
  Restores = {}
  Artifacts = {a1}
  Contents = {d1}
  Of <- MCOf
  FirstOf <- MCFirstOf
  ContentOf <- MCContentOf
  Clients = {c1}
  Reaper = Reaper
  NoUpload = NoUpload
SPECIFICATION Spec
INVARIANTS
  VersionsAreRetained
CHECK_DEADLOCK FALSE
