\* One agent, no fault: only the certificate ages.
SPECIFICATION EnrollmentSpec
CONSTANTS
    Agents = {a1}
    Tokens = {t1}
    Static = Static
    NoToken = NoToken
    MaxNodes = 1
    MaxKeys = 3
    MaxStops = 0
PROPERTIES
    RotatedOverTheConnection
CHECK_DEADLOCK FALSE
