SPECIFICATION GatewaySpec
CONSTANTS
  MaxConns = 4
  MaxOpeners = 3
  MaxEvents = 2
  MaxFailures = 2
  MaxSends = 1
PROPERTY Reconnects
CHECK_DEADLOCK FALSE
