SPECIFICATION Spec
CONSTANTS
  FRAME_PKTS = 2
  URB_PKTS = 3
  MaxSent = 8
INVARIANT TypeOK
INVARIANT CleanFrameIsOneFrame
INVARIANT NoFrameSplit
INVARIANT ErrorsChargedToTheirFrame
INVARIANT IntactFrameReported
CHECK_DEADLOCK FALSE
