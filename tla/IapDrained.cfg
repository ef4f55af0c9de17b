SPECIFICATION FairSpec
CONSTANTS
  GateTries = 1
  MaxMishaps = 1
PROPERTY EventsDrained
