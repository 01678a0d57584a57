\* A server that has not met the other one yet waits for ever when that one ends,
\* and nothing more need happen once both agree.
CONSTANTS
    MaxAiSocket = 2
    BatchSize = 3
    MaxUsers = 1
    MaxBreaks = 1
    MaxCrashes = 1
    MaxEvents = 3
SPECIFICATION FairSpec
INVARIANT NoGhosts
PROPERTIES UsersConverge NpcsConverge
CHECK_DEADLOCK FALSE
