SPECIFICATION Spec
CONSTANTS
  Cameras = {"uvc", "dvp"}
  Intervals = {1, 2}
  MaxTimers = 1
  MaxFaults = 1
INVARIANTS EncoderFed DisplayUsersStopped AllReleased VotesMatch OneHeartbeat
