SPECIFICATION Spec
CONSTANTS
  Headers <- MCHeaders
  Files <- MCFiles
INVARIANTS
  TypeOK
  NoWildPointer
  NothingLeft
  CpuSeesPrgBanks
  NesInfoAgrees
PROPERTIES
  LoaderPromise
  GoodFilesRun
  BadFilesEnd
