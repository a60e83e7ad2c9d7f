\* One request with an upload and an image, a crash or a failure at any step,
\* cleanup all the time.
SPECIFICATION FairSpec
CONSTANTS
  u1 = u1
  g1 = g1
  m1 = m1
  s1 = s1
  NoAsset = NoAsset
  NoSession = NoSession
  Uploads <- OneUpload
  Images <- OneImage
  Sends <- OneSend
  Sessions <- OneSession
  SessionOf <- ItsSession
  AttachmentOf <- TheUpload
  ImageOf <- AnImage
INVARIANTS TypeOK FilesGoWhenDue
PROPERTIES ImplementsFileLife StoredIsBoundOrDeleted
CHECK_DEADLOCK FALSE
