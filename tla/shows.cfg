SPECIFICATION Spec
CONSTANTS
  None = None
  Request = {r1, r2, r3, r4}
  User = {u1, u2}
  Ops = {"Create", "Update", "Delete", "UploadPoster", "CancelShow", "Moderate"}
  MaxShow = 1
SYMMETRY Symmetry
INVARIANTS
  TypeOK
  PosterFileExists
PROPERTIES
  PosterOnlyByUpload
  DeletedStaysDeleted
  OnlyOwnersWrite
  StatusChangesAsRead
  EditsSurvive
CHECK_DEADLOCK FALSE
