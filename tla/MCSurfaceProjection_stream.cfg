SPECIFICATION Spec
CONSTANTS
  b1 = b1
  b2 = b2
  k1 = k1
  k2 = k2
  None = None
  EmptyBoot = EmptyBoot
  Boots = {b1, b2}
  Welcomes <- MCWelcomes
  Revs <- TwoRevs
  SurfaceRevs <- ThreeRevs
  Keys = {k1, k2}
  Size <- BigSizes
  MaxImages = 2
  MaxBytes = 2
  EventCapacity = 1
INVARIANTS BaselineExact StoreBounded EmittedPixelsKept
PROPERTIES FencedSurfaces PixelsPrecedeSurface
SYMMETRY BootSymmetry
CHECK_DEADLOCK FALSE
