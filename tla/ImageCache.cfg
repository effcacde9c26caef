SPECIFICATION Spec
CONSTANTS
  Requests = {r1, r2}
  Cleaners = {k1, k2}
  Exts = {jpg, png}
  Slots = 1
  MaxFiles = 1
  MaxAge = 1
  HotDays = 1
  FirstDay = 2
  LastDay = 4
  None = None
SYMMETRY Symm
INVARIANTS OnePictureEach NoLitter SlotsAccounted PicturesWhole CleanupSuffices
PROPERTIES HotPicturesKept ImplementsPictureStore
