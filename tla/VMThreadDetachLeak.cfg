SPECIFICATION Spec
CONSTANTS
  Threads = {t1}
  Main = main
  NULL = null
PROPERTY DetachedIsFreed
