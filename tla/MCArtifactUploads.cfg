\* An upload of a client, an archive of another artifact, a restored version;
\* two requests, and the reaper.
CONSTANTS
  u1 = u1
  u2 = u2
  u3 = u3
  a1 = a1
  a2 = a2
  d1 = d1
  Uploads = {u1, u2, u3}
  Archives = {u2}
  Restores = {u3}
  Artifacts = {a1, a2}
  Contents = {d1}
  Of <- MCOf
  FirstOf <- MCFirstOf
  ContentOf <- MCContentOf
  Clients = {c1, c2}
  Reaper = Reaper
  NoUpload = NoUpload
SYMMETRY MCSymmetry
SPECIFICATION Spec
INVARIANTS
  UTypeOK
  RowsAgree
  ContentIsVerified
PROPERTIES
  EndIsFinal
  ConfirmedIsUntouched
  SharedBytesAreKept
CHECK_DEADLOCK FALSE
