\* LetsEncrypt enabled: Start aliases the server for the challenge listener,
\* so two goroutines run ListenAndServe[TLS] on one *http.Server.
CONSTANTS
    LetsEncrypt = TRUE
    MainAddr = MainAddr
    LEAddr = LEAddr
    OtherPath = "/nowhere"
    NoGoroutine = NoGoroutine
SPECIFICATION Spec
INVARIANT
    NoFatalExit
