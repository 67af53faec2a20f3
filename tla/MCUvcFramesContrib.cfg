SPECIFICATION Spec
CONSTANTS
  FRAME_PKTS = 2
  URB_PKTS = 3
  MaxSent = 8
INVARIANT ContributingErrorIsReported
CHECK_DEADLOCK FALSE
