\* Two versions of the raw data; dataset.csv is big once it has both chunks.
SPECIFICATION Spec
CONSTANTS
  Parts = 2
  Big = 1
  MaxVersions = 2
INVARIANTS TypeOK EncodingAgrees HalvesMatch RerunRepairs
