SPECIFICATION ImageSpec
CONSTANTS
  Images = {i1, i2}
  Uploads = {p1}
  Cleanups = {r1}
  Hours = {17, 23}
  MaxDay = 1
INVARIANT ShownImagesStay
CHECK_DEADLOCK FALSE
