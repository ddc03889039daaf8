---------------------------- MODULE EmailSender ----------------------------
(***************************************************************************)
(* The email sender (internal/email/sender.go, confirm.go): NewSender     *)
(* reads the SMTP configuration into a sender, and SendConfirmEmail       *)
(* renders the message and delivers it either with smtp.SendMail (which   *)
(* upgrades with STARTTLS) or, with SMTPDirectTLS, over a connection it   *)
(* dials, wraps in TLS and drives command by command.                     *)
(*                                                                         *)
(* The SMTP server and the network are the environment: any step that     *)
(* talks to them may fail, and the ghost `faulted` records that one did.  *)
(* net/smtp is modelled by what it does to the two facts that matter      *)
(* here: NewClient(conn, name) makes `name` the client's serverName, and  *)
(* PlainAuth(host) refuses to authenticate to a server whose name is not  *)
(* `host` ("wrong host name") or, without TLS, to a server that is not    *)
(* localhost ("unencrypted connection").  A name is a sequence: the host  *)
(* is <<host>>, the address "host:port" is <<host, port>>.                *)
(***************************************************************************)
EXTENDS Naturals

CONSTANTS
    Host,        \* config SMTPHost
    Port,        \* config SMTPPort
    Callers,     \* goroutines calling SendConfirmEmail on the shared sender
    MaxSends     \* bound on SendConfirmEmail calls, all callers together

VARIABLES
    built,     \* what NewSender returned: "none" (not called), "failed" or "ok"
    sender,    \* the sender record NewSender built
    sends,     \* calls made so far
    \* per caller:
    pc,        \* where the goroutine is in SendConfirmEmail
    client,    \* serverName and TLS state of its *smtp.Client, or "none"
    open,      \* connections it opened and did not close
    ret,       \* what its last call returned: "none", "nil" or "error"
    faulted,   \* ghost: the server or network failed during its call
    hsFailed   \* ghost: handshakes (NewClient) that failed in its calls

vars == <<built, sender, sends, pc, client, open, ret, faulted, hsFailed>>

\* PlainAuth's checks before it sends credentials (net/smtp plainAuth.Start)
PlainAuthAccepts(authHost, serverName, tls) ==
    /\ tls \/ serverName = <<"localhost">>
    /\ serverName = authHost

\* caller c's call returns r; the deferred closes of the direct-TLS path,
\* once registered, close its connection
Return(c, r, closes) ==
    /\ pc' = [pc EXCEPT ![c] = "idle"]
    /\ ret' = [ret EXCEPT ![c] = r]
    /\ open' = [open EXCEPT ![c] = @ - closes]
    /\ client' = [client EXCEPT ![c] = "none"]

\* caller c moves to step s with its call still running
Goto(c, s) == pc' = [pc EXCEPT ![c] = s]

\* the environment fails caller c's current step
Fault(c) == faulted' = [faulted EXCEPT ![c] = TRUE]

-----------------------------------------------------------------------------

\* NewSender: loadTemplates may fail; otherwise the sender holds the
\* configured SMTPDirectTLS, hostAddress "host:port", serverName host
\* and smtp.PlainAuth(.., host)
NewSender ==
    /\ built = "none"
    /\ \/ built' = "failed" /\ UNCHANGED sender
       \/ \E directTLS \in BOOLEAN :
          /\ built' = "ok"
          /\ sender' = [hostAddress |-> <<Host, Port>>, serverName |-> <<Host>>,
                        useDirectTLS |-> directTLS, authHost |-> <<Host>>]
    /\ UNCHANGED <<sends, pc, client, open, ret, faulted, hsFailed>>

\* SendConfirmEmail up to the transport: ExecuteTemplate and
\* assembleMessage, either of which returns its error
Compose(c) ==
    /\ pc[c] = "idle" /\ built = "ok" /\ sends < MaxSends
    /\ sends' = sends + 1
    /\ \/ /\ Fault(c)
          /\ ret' = [ret EXCEPT ![c] = "error"]
          /\ UNCHANGED pc
       \/ /\ faulted' = [faulted EXCEPT ![c] = FALSE]
          /\ Goto(c, IF sender.useDirectTLS THEN "dial" ELSE "sendmail")
          /\ ret' = [ret EXCEPT ![c] = "none"]
    /\ UNCHANGED <<built, sender, client, open, hsFailed>>

\* smtp.SendMail(hostAddress, auth, ...): dials, NewClient(conn, host),
\* EHLO (falling back to HELO), STARTTLS when the server offers it, AUTH
\* only when EHLO succeeded, MAIL, RCPT, DATA, QUIT, each returning its
\* error, and closes its connection on every path
SendMail(c) ==
    /\ pc[c] = "sendmail"
    /\ \E ehlo, starttls \in BOOLEAN :
       LET tls == ehlo /\ starttls
           ok  == ~ehlo \/ PlainAuthAccepts(sender.authHost, <<Host>>, tls)
       IN
       \/ /\ ok
          /\ ret' = [ret EXCEPT ![c] = "nil"]
          /\ UNCHANGED faulted
       \/ /\ ok /\ Fault(c)
          /\ ret' = [ret EXCEPT ![c] = "error"]
       \/ /\ ~ok
          /\ faulted' = [faulted EXCEPT ![c] = ~tls]
          /\ ret' = [ret EXCEPT ![c] = "error"]
    /\ Goto(c, "idle")
    /\ UNCHANGED <<built, sender, sends, client, open, hsFailed>>

\* net.Dial("tcp", hostAddress)
Dial(c) ==
    /\ pc[c] = "dial"
    /\ \/ /\ Fault(c)
          /\ Goto(c, "idle") /\ ret' = [ret EXCEPT ![c] = "error"]
          /\ UNCHANGED open
       \/ /\ open' = [open EXCEPT ![c] = @ + 1]
          /\ Goto(c, "newclient")
          /\ UNCHANGED <<faulted, ret>>
    /\ UNCHANGED <<built, sender, sends, client, hsFailed>>

\* tls.Client(conn, ServerName: serverName) and smtp.NewClient(tlsConn,
\* hostAddress), which reads the greeting (and so runs the handshake); on
\* its error SendConfirmEmail returns before the deferred closes exist
NewClient(c) ==
    /\ pc[c] = "newclient"
    /\ \/ /\ Fault(c)
          /\ Goto(c, "idle") /\ ret' = [ret EXCEPT ![c] = "error"]
          /\ hsFailed' = [hsFailed EXCEPT ![c] = @ + 1]
          /\ UNCHANGED client
       \/ /\ client' = [client EXCEPT
                           ![c] = [serverName |-> sender.hostAddress,
                                   tls |-> TRUE]]
          /\ Goto(c, "session")
          /\ UNCHANGED <<faulted, ret, hsFailed>>
    /\ UNCHANGED <<built, sender, sends, open>>

Session(c) ==
    /\ pc[c] = "session"
    /\ LET ok == PlainAuthAccepts(sender.authHost, client[c].serverName,
                                  client[c].tls) IN
       \/ /\ ~ok
          /\ Return(c, "error", 1) /\ UNCHANGED faulted
       \/ /\ ok /\ Fault(c)
          /\ Return(c, "error", 1)
       \/ /\ ok
          /\ Return(c, "nil", 1) /\ UNCHANGED faulted
    /\ UNCHANGED <<built, sender, sends, hsFailed>>

Init ==
    /\ built = "none"
    /\ sender = "nil"
    /\ sends = 0
    /\ pc = [c \in Callers |-> "idle"]
    /\ client = [c \in Callers |-> "none"]
    /\ open = [c \in Callers |-> 0]
    /\ ret = [c \in Callers |-> "none"]
    /\ faulted = [c \in Callers |-> FALSE]
    /\ hsFailed = [c \in Callers |-> 0]

\* nothing more is sent once NewSender failed or the bound of calls is used
Terminating ==
    /\ \A c \in Callers : pc[c] = "idle"
    /\ built = "failed" \/ sends = MaxSends
    /\ UNCHANGED vars

Next ==
    \/ NewSender
    \/ \E c \in Callers :
          Compose(c) \/ SendMail(c) \/ Dial(c) \/ NewClient(c) \/ Session(c)
    \/ Terminating

Spec == Init /\ [][Next]_vars

-----------------------------------------------------------------------------
(***************************************************************************)
(* Properties.                                                             *)
(***************************************************************************)

\* A SendConfirmEmail that returns an error met a failure of the server,
\* the network or the configuration: with a server that accepts the
\* configured credentials the confirmation email goes out.
DeliveredUnlessFault ==
    \A c \in Callers : pc[c] = "idle" /\ ret[c] = "error" => faulted[c]

\* Once SendConfirmEmail returns, no connection it dialled is left open.
ConnectionsClosed ==
    \A c \in Callers : pc[c] = "idle" => open[c] = 0

====
