SPECIFICATION NegotiationSpec
CONSTANT WillAccepts = TRUE
CONSTANT DoAccepts = TRUE
CONSTANT MaxRequests = 8
CONSTANT TypeList <- MCTypes
CONSTANT Worlds <- MCWorlds
CONSTANT UserWorlds <- MCUserWorlds
CONSTANT MaxRetypes = 1
CONSTANT MaxEvents = 2
CONSTANT Values = {1, 2}
CONSTANT VDisables = {0, 255}
CONSTANT MaxSlc = 2
INVARIANT Agreement
INVARIANT OptionInv
INVARIANT SecureSafe
PROPERTY NegotiationsEnd
PROPERTY Channels
INVARIANT SlcSafe
CHECK_DEADLOCK FALSE
