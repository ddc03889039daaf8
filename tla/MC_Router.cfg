\* The router as configured without LetsEncrypt: production and debug builds,
\* the admin routes attached, Stop racing the listener goroutine.
CONSTANTS
    LetsEncrypt = FALSE
    MainAddr = MainAddr
    LEAddr = LEAddr
    OtherPath = "/nowhere"
    NoGoroutine = NoGoroutine
SPECIFICATION Spec
INVARIANTS
    TypeOK
    NoFatalExit
PROPERTIES
    ListenersEndAfterStop
