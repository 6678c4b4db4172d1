SPECIFICATION Spec
CONSTANTS
  Threads = {t1, t2}
  Main = main
  NULL = null
INVARIANTS
  TypeOK
  NoUseAfterFree
  NoDoubleUnmap
  RunsOnItsStack
  RegistryTracksHandles
  FreedIsReleased
PROPERTY JoinedIsFreed
