CONSTANTS
    MaxStops = 2
    EnableTelnet = TRUE
SPECIFICATION FairSpec
PROPERTIES StopExits
