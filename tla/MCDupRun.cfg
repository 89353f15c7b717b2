SPECIFICATION Spec
CONSTANTS
  Files <- Inputs
  Settings <- Lines
  BlockSize = 6
  Compress <- BlocksOf
  Crc <- Polynomial
  GearTest <- EvenSum
  MinChunk = 1
  MaxChunk = 3
  Avg = 3
  DefaultBuffer = 7
  HashWord = 3
  Prime = 5
  HashModulus = 256
  DuprMagic = 501
  MetaVersion = 1
  OdupMagic <- Odup
  Signature = 601
  SignatureInv = 602
  ArcSignatureInv = 603
  FooterVersion = 1
  V5Magic = 605
  V5FooterMagic = 606
  DamageRun = 3
  DamageValues = {0, 2}
  DamageLimit = 36
INVARIANTS
  TypeOK
  StreamAgrees
  ReadAsWritten
  Restored
  NeverItsBody
  InspectAgrees
  SummaryExact
  VerifyCovers
