SPECIFICATION Spec
CONSTANTS
  Cameras = {cam1, cam2}
  cam1 = cam1
  cam2 = cam2
  MAP_ENTRIES = 2
  WIRE_MAX = 1
  COOLDOWN = 2
  NUM_BUFFERS = 1
  MaxNow = 3
SYMMETRY CameraSymmetry
INVARIANT TypeOK
INVARIANT MisattributedOnlyByOverlap
INVARIANT StarvationBlamesItsCamera
INVARIANT StarvedOncePerCooldown
CHECK_DEADLOCK FALSE
