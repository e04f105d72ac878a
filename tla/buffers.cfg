SPECIFICATION BuffersSpec
CONSTANT SEGSIZE = 2
CONSTANT MaxFile = 4
CONSTANT RingSize = 4
CONSTANT MaxBytes = 8
CONSTANT MaxMarks = 2
CONSTANT MaxToggles = 2
CONSTANT TabSize = 2
CONSTANT SeqValues = 4
CONSTANT PingLines <- Lines
CONSTANT MaxXmit = 2
CONSTANT MaxOdd = 1
CONSTANT opt_max_hops = 3
CONSTANT opt_max_tries = 2
CONSTANT opt_port = 2
CONSTANT PortMod = 4
CONSTANT Distances = {0, 2}
CONSTANT MaxStrays = 1
INVARIANT SameBytes
INVARIANT RingSafe
INVARIANT PingTrue
INVARIANT RouteTrue
PROPERTY RetransmitStable
PROPERTY AllEnd
CHECK_DEADLOCK FALSE
