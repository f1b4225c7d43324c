CONSTANTS
  Fd = {f1, f2}
  Host = {h1, h2}
  Tags = {t1}
  NoTags = NoTags
  NoName = NoName
  NoFd = NoFd
  MaxCalls = 3
SPECIFICATION Spec
INVARIANTS
  TypeOK
  NoDescriptorLeaks
  NoHandshakeByDefault
  EncryptedPerConnect
CHECK_DEADLOCK FALSE
