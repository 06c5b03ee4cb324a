SPECIFICATION Spec
CONSTANTS
  Workers = {w1}
  Timeout = 1
  Grace = 1
PROPERTY CleanMeansJoined
