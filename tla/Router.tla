------------------------------- MODULE Router -------------------------------
(***************************************************************************)
(* The HTTP router of GoToSocial (internal/router/router.go) and the admin *)
(* client module that attaches its routes to it (api/client/admin).        *)
(*                                                                         *)
(* New builds the gin engine and one *http.Server; modules attach routes;  *)
(* Start runs on the caller's goroutine and spawns the listener            *)
(* goroutines (a second one for the LetsEncrypt HTTP challenge server when *)
(* LetsEncrypt is enabled); Stop is http.Server.Shutdown.  The server is a *)
(* record of the fields Start touches: its address, its Handler (a         *)
(* sequence of layers, outermost first), its read/write timeouts and       *)
(* whether TLSConfig was set.  A listener goroutine is ListenAndServe[TLS] *)
(* on that server: it returns ErrServerClosed once Shutdown began, fails   *)
(* when its address is already bound, and logrus.Fatalf ends the process   *)
(* on any other error.  A request is served by whatever srv.Handler holds  *)
(* when it arrives (net/http reads it per request).                        *)
(***************************************************************************)
EXTENDS Naturals, Sequences, FiniteSets

CONSTANTS
    LetsEncrypt,   \* config LetsEncryptEnabled
    MainAddr,      \* BindAddress:Port
    LEAddr,        \* BindAddress:LetsEncryptPort
    OtherPath,     \* a request path no module attaches
    NoGoroutine

Goroutines == {"le", "main"}
Addrs      == {MainAddr, LEAddr}

\* the admin module's paths, built as admin.go builds them
BasePath               == "/api/v1/admin"
EmojiPath              == BasePath \o "/custom_emojis"
DomainBlocksPath       == BasePath \o "/domain_blocks"
IDKey                  == "id"
DomainBlocksPathWithID == DomainBlocksPath \o "/:" \o IDKey
AccountsPath           == BasePath \o "/accounts"
AccountsPathWithID     == AccountsPath \o "/:" \o IDKey
AccountsActionPath     == AccountsPathWithID \o "/action"

\* (*Module).Route: the six handlers it attaches
AdminRoutes ==
    { [method |-> "POST",   path |-> EmojiPath],
      [method |-> "POST",   path |-> DomainBlocksPath],
      [method |-> "GET",    path |-> DomainBlocksPath],
      [method |-> "GET",    path |-> DomainBlocksPathWithID],
      [method |-> "DELETE", path |-> DomainBlocksPathWithID],
      [method |-> "POST",   path |-> AccountsActionPath] }

\* the requests clients send: every admin route and one unknown path
Requests == AdminRoutes \cup {[method |-> "GET", path |-> OtherPath]}

\* readTimeout and writeTimeout in seconds (the package constants), and
\* the 0 the debug reset stores
readTimeout  == 60
writeTimeout == 30
Timeouts == {readTimeout, writeTimeout, 0}

VARIABLES
    phase,    \* the router's life on the caller's goroutine
    debug,    \* built with the "debug" tag (debug.DEBUG())
    routes,   \* routes attached to the gin engine
    srv,      \* the one *http.Server
    listen,   \* the listen function Start chose: "plain" or "tls"
    gor,      \* each listener goroutine: "none", "spawned", "serving", "done"
    bound,    \* the goroutine listening on each address, or NoGoroutine
    shut,     \* srv.Shutdown has begun (inShutdown)
    exited,   \* logrus.Fatalf ended the process
    served    \* requests answered: address, request and what answered it

vars == <<phase, debug, routes, srv, listen, gor, bound, shut, exited, served>>

Layers == {"engine", "pprof", "autocert", "redirect"}

-----------------------------------------------------------------------------

\* router.New: gin engine and middleware, trusted proxies, CORS, gzip,
\* session store and templates (each of which may fail), then the server
\* with the package timeouts, and TLSConfig from autocert when LetsEncrypt
New ==
    /\ phase = "init"
    /\ \/ phase' = "failed" /\ UNCHANGED srv
       \/ /\ phase' = "ready"
          /\ srv' = [addr |-> MainAddr, handler |-> <<"engine">>,
                     readTimeout |-> readTimeout, writeTimeout |-> writeTimeout,
                     tls |-> LetsEncrypt]
    /\ UNCHANGED <<debug, routes, listen, gor, bound, shut, exited, served>>

\* Mutant: the DELETE handler is attached on the collection path
AttachAdminRoutesWrongPath ==
    /\ phase = "ready"
    /\ ~(AdminRoutes \subseteq routes)
    /\ routes' = routes \cup AdminRoutes
                 \cup {[method |-> "DELETE", path |-> DomainBlocksPath]}
    /\ UNCHANGED <<phase, debug, srv, listen, gor, bound, shut, exited, served>>

\* admin (*Module).Route: AttachHandler for each admin route (gin panics
\* on a route registered twice, so a module attaches its routes once)
AttachAdminRoutes ==
    /\ phase = "ready"
    /\ ~(AdminRoutes \subseteq routes)
    /\ routes' = routes \cup AdminRoutes
    /\ UNCHANGED <<phase, debug, srv, listen, gor, bound, shut, exited, served>>

\* (the server's startup attaches every module's routes before Start)
\* Start, up to spawning the LetsEncrypt goroutine: "srv := r.srv" copies
\* the pointer, so the redirect handler replaces the main server's Handler
StartLetsEncrypt ==
    /\ phase = "ready"
    /\ AdminRoutes \subseteq routes
    /\ phase' = "starting"
    /\ IF LetsEncrypt
       THEN /\ srv' = [srv EXCEPT !.handler = <<"autocert", "redirect">>]
            /\ gor' = [gor EXCEPT !["le"] = "spawned"]
            /\ listen' = "tls"
       ELSE /\ listen' = "plain"
            /\ UNCHANGED <<srv, gor>>
    /\ UNCHANGED <<debug, routes, bound, shut, exited, served>>

\* the rest of Start: debug.WithPprof (a no-op in a production build),
\* the debug timeout reset, and spawning the main listener goroutine
StartMain ==
    /\ phase = "starting"
    /\ phase' = "started"
    /\ srv' = IF debug
              THEN [srv EXCEPT !.handler = <<"pprof">> \o @,
                               !.readTimeout = 0, !.writeTimeout = 0]
              ELSE srv
    /\ gor' = [gor EXCEPT !["main"] = "spawned"]
    /\ UNCHANGED <<debug, routes, listen, bound, shut, exited, served>>

\* Mutant: the goroutine calls Fatalf on every error, ErrServerClosed too
ListenOnNoClosedCheck(g) ==
    /\ gor[g] = "spawned" /\ ~exited
    /\ \/ /\ shut \/ bound[srv.addr] # NoGoroutine
          /\ exited' = TRUE
          /\ UNCHANGED <<gor, bound>>
       \/ /\ ~shut /\ bound[srv.addr] = NoGoroutine
          /\ bound' = [bound EXCEPT ![srv.addr] = g]
          /\ gor' = [gor EXCEPT ![g] = "serving"]
          /\ UNCHANGED exited
    /\ UNCHANGED <<phase, debug, routes, srv, listen, shut, served>>

\* srv.ListenAndServe / ListenAndServeTLS on srv.Addr from goroutine g,
\* and the check of its error against http.ErrServerClosed
ListenOn(g) ==
    /\ gor[g] = "spawned" /\ ~exited
    /\ \/ /\ shut
          /\ gor' = [gor EXCEPT ![g] = "done"]
          /\ UNCHANGED <<bound, exited>>
       \/ /\ ~shut /\ bound[srv.addr] # NoGoroutine
          /\ exited' = TRUE
          /\ UNCHANGED <<gor, bound>>
       \/ /\ ~shut /\ bound[srv.addr] = NoGoroutine
          /\ bound' = [bound EXCEPT ![srv.addr] = g]
          /\ gor' = [gor EXCEPT ![g] = "serving"]
          /\ UNCHANGED exited
    /\ UNCHANGED <<phase, debug, routes, srv, listen, shut, served>>

\* Serve returns ErrServerClosed once Shutdown closed the listener; the
\* goroutine's check lets it end without Fatalf
ServeReturns(g) ==
    /\ gor[g] = "serving" /\ shut /\ ~exited
    /\ \A a \in Addrs : bound[a] # g
    /\ gor' = [gor EXCEPT ![g] = "done"]
    /\ UNCHANGED <<phase, debug, routes, srv, listen, bound, shut, exited,
                   served>>

\* the layer of a handler chain that answers a request: debug's pprof
\* wrapper passes it on (outside /debug/pprof) and so does autocert's HTTP
\* handler (outside the ACME challenge path)
Answerer(handler) ==
    LET ends == SelectSeq(handler, LAMBDA l : l \notin {"pprof", "autocert"})
    IN IF ends = <<>> THEN "none" ELSE Head(ends)

\* a client request arrives at a bound address and srv.Handler answers it
Serve(a, r) ==
    /\ bound[a] # NoGoroutine /\ ~exited
    /\ served' = served \cup
          {[addr |-> a, req |-> r, by |-> Answerer(srv.handler),
            found |-> r \in routes]}
    /\ UNCHANGED <<phase, debug, routes, srv, listen, gor, bound, shut, exited>>

\* Mutant: Shutdown marks the server closed but leaves the listeners open
StopNoClose ==
    /\ phase = "started" /\ ~exited
    /\ phase' = "stopped"
    /\ shut' = TRUE
    /\ UNCHANGED <<debug, routes, srv, listen, gor, bound, exited, served>>

\* Stop: srv.Shutdown closes the listeners
Stop ==
    /\ phase = "started" /\ ~exited
    /\ phase' = "stopped"
    /\ shut' = TRUE
    /\ bound' = [a \in Addrs |-> NoGoroutine]
    /\ UNCHANGED <<debug, routes, srv, listen, gor, exited, served>>

\* the process has stopped: New failed, it exited, or everything returned
Terminating ==
    /\ \/ phase = "failed" \/ exited
       \/ phase = "stopped" /\ \A g \in Goroutines : gor[g] # "serving"
                                                     /\ gor[g] # "spawned"
    /\ UNCHANGED vars

Init ==
    /\ phase = "init"
    /\ debug \in BOOLEAN
    /\ routes = {}
    /\ srv = [addr |-> MainAddr, handler |-> <<>>, readTimeout |-> 0,
              writeTimeout |-> 0, tls |-> FALSE]
    /\ listen = "plain"
    /\ gor = [g \in Goroutines |-> "none"]
    /\ bound = [a \in Addrs |-> NoGoroutine]
    /\ shut = FALSE
    /\ exited = FALSE
    /\ served = {}

Next ==
    \/ New \/ AttachAdminRoutes \/ StartLetsEncrypt \/ StartMain \/ Stop
    \/ \E g \in Goroutines : ListenOn(g) \/ ServeReturns(g)
    \/ \E a \in Addrs, r \in Requests : Serve(a, r)
    \/ Terminating

\* Start runs to its end on the caller's goroutine; the Go scheduler runs
\* every spawned goroutine.  New, Stop and requests are the caller's choice.
Fairness ==
    /\ WF_vars(StartMain)
    /\ \A g \in Goroutines : WF_vars(ListenOn(g)) /\ WF_vars(ServeReturns(g))

Spec == Init /\ [][Next]_vars /\ Fairness

-----------------------------------------------------------------------------
(***************************************************************************)
(* Properties.                                                             *)
(***************************************************************************)

TypeOK ==
    /\ phase \in {"init", "failed", "ready", "starting", "started", "stopped"}
    /\ debug \in BOOLEAN
    /\ routes \subseteq Requests
    /\ srv.handler \in Seq(Layers) /\ srv.addr \in Addrs
    /\ {srv.readTimeout, srv.writeTimeout} \subseteq Timeouts
    /\ listen \in {"plain", "tls"}
    /\ gor \in [Goroutines -> {"none", "spawned", "serving", "done"}]
    /\ bound \in [Addrs -> Goroutines \cup {NoGoroutine}]
    /\ served \subseteq [addr : Addrs, req : Requests, by : Layers \cup {"none"},
                         found : BOOLEAN]

\* The process is never ended by a listener goroutine's logrus.Fatalf: no
\* listener binds an address that is already bound, and a Stop racing a
\* goroutine that has not yet called ListenAndServe ends it quietly.
NoFatalExit == ~exited

\* Every request answered on the main address is answered by the gin
\* engine, and a request for an admin route finds its handler: neither the
\* LetsEncrypt redirect nor the debug wrapper stands in for the API.
MainServesEngine ==
    \A s \in served :
        s.addr = MainAddr => s.by = "engine" /\ (s.req \in AdminRoutes => s.found)

\* After Stop, every listener goroutine Start spawned returns.
ListenersEndAfterStop ==
    phase = "stopped" ~> \A g \in Goroutines : gor[g] \in {"none", "done"}

====
