CONSTANTS
    MaxClients = 2
    MaxStops = 1
    EnableTelnet = TRUE
SPECIFICATION FairConsoleSpec
INVARIANTS ConsoleTypeOK ExitCodeTellsStartup ClientsEndBeforeServer
PROPERTIES ImplementsAppThread StopOutsideGapExits StopEndsProcess EveryClientIsServed
