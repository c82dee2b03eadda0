\* Up to three chunks, two in flight, two retries, two faults; any copy found.
\* A download ends: deadlock is not checked.
SPECIFICATION Spec
CONSTANTS
  Sizes = {0, 1, 3}
  Hashes = {"none", "right", "stale"}
  Local <- AnyCopy
  NoFile = NoFile
  max_inflight = 2
  max_retries = 2
  MaxFaults = 2
INVARIANTS
  TypeOK
  Contract
  EveryChunkWritten
PROPERTIES
  VerifiedIsKept
CHECK_DEADLOCK FALSE
