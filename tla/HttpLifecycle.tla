--------------------------- MODULE HttpLifecycle ---------------------------
(***************************************************************************)
(* The life of the `mcp` command (server.go: Command, runHTTP; http.go:    *)
(* ServeHTTP, serveHTTP; tailscale.go; accesslog.go): flags, access log,   *)
(* tunnel, OAuth, listener, requests in flight, SIGINT/SIGTERM, and the    *)
(* deferred clean-up that ends it.                                         *)
(*                                                                         *)
(* Three kinds of goroutine interleave: main (runHTTP), the one that waits *)
(* for the context and calls http.Server.Shutdown, and one per request.    *)
(***************************************************************************)
EXTENDS Naturals, FiniteSets

CONSTANT Requests   \* calls of /mcp that may arrive (the OAuth routes are never gated)

\* The flags: --http, --oauth local, --public-url, --tailscale, --access-log
\* with the path of a file ("-", stderr, is not a file and is never closed).
Flags == [http : BOOLEAN, oauth : BOOLEAN, publicURL : BOOLEAN,
          tailscale : BOOLEAN, accessLog : BOOLEAN]

VARIABLES
  flags,
  main,       \* where runHTTP is
  signalled,  \* ctx is cancelled
  shutdown,   \* the Shutdown goroutine: "none", "waiting", "draining", "over"
  tunnel,     \* is the Tailscale tunnel up?
  tsDown,     \* has wireTailscale returned a teardown func?
  tsFailed,   \* the teardown command failed (reported on stderr)
  gate,       \* is s.oauth set?
  log,        \* the access log: "off", "open", "closed"
  listening,
  req,        \* each request: "none", "active", "answered", "done", "aborted"
  gated,      \* requests that went through Protect
  logged      \* requests with a line in the access log

vars == <<flags, main, signalled, shutdown, tunnel, tsDown, tsFailed, gate, log,
          listening, req, gated, logged>>

Main == {"flags", "stdio", "log", "status", "tunnel", "oauth", "banner", "listen", "serve",
         "unwind", "close", "return", "exited"}

TypeOK ==
  /\ flags \in Flags /\ main \in Main
  /\ signalled \in BOOLEAN /\ tunnel \in BOOLEAN /\ tsDown \in BOOLEAN
  /\ tsFailed \in BOOLEAN /\ gate \in BOOLEAN /\ listening \in BOOLEAN
  /\ shutdown \in {"none", "waiting", "draining", "over"}
  /\ log \in {"off", "open", "closed"}
  /\ req \in [Requests -> {"none", "active", "answered", "done", "aborted"}]
  /\ gated \subseteq Requests /\ logged \subseteq Requests
  /\ main # "serve" => listening = FALSE
  /\ flags.oauth = FALSE => gate = FALSE

Init ==
  /\ flags \in Flags
  /\ main = "flags"
  /\ signalled = FALSE /\ shutdown = "none"
  /\ tunnel = FALSE /\ tsDown = FALSE /\ tsFailed = FALSE
  /\ gate = FALSE /\ log = "off" /\ listening = FALSE
  /\ req = [r \in Requests |-> "none"]
  /\ gated = {} /\ logged = {}

InFlight == {r \in Requests : req[r] \in {"active", "answered"}}

serving == <<shutdown, listening, req, gated, logged>>
tail == <<tunnel, tsDown, tsFailed>>

-----------------------------------------------------------------------------
(***************************************************************************)
(* Start-up.                                                               *)
(***************************************************************************)

\* RunE: --tailscale without --http is an error; without --http the server
\* speaks stdio, whatever --oauth says.
ChooseTransport ==
  /\ main = "flags"
  /\ main' = IF flags.http THEN "log"
             ELSE IF flags.tailscale THEN "exited" ELSE "stdio"
  /\ UNCHANGED <<flags, signalled, tail, gate, log, serving>>

\* runStdio returns when stdin ends.
StdioEnds ==
  /\ main = "stdio"
  /\ main' = "exited"
  /\ UNCHANGED <<flags, signalled, tail, gate, log, serving>>

\* newAccessLogger, when asked for; a failure to open ends the command.
OpenLog(ok) ==
  /\ main = "log"
  /\ IF flags.accessLog
       THEN /\ main' = IF ok THEN "status" ELSE "exited"
            /\ log' = IF ok THEN "open" ELSE "off"
       ELSE main' = "status" /\ log' = "off"
  /\ UNCHANGED <<flags, signalled, tail, gate, serving>>

\* wireTailscale up to startTailscale: nothing to do without --tailscale;
\* `tailscale status` is asked for the URL when there is none.  It runs under
\* ctx: a signal kills it, unless it has just ended.  A bad mode or port, no
\* tailscale CLI and an unreadable status are the other failures.
DeriveURL(ok) ==
  /\ main = "status"
  /\ main' = IF ~ flags.tailscale THEN "oauth"
             ELSE IF ok THEN "tunnel" ELSE "close"
  /\ UNCHANGED <<flags, signalled, tail, gate, log, serving>>

\* `tailscale funnel --bg` succeeds: the tunnel is up and there is a teardown.
StartTunnel ==
  /\ main = "tunnel"
  /\ tunnel' = TRUE /\ tsDown' = TRUE
  /\ main' = "oauth"
  /\ UNCHANGED <<flags, signalled, tsFailed, gate, log, serving>>

\* It fails: an error of its own leaves no tunnel; killed by the cancelled
\* context it may have configured the tunnel already (up).  Either way
\* wireTailscale returns no teardown.
StartTunnelFails(up) ==
  /\ main = "tunnel"
  /\ up => signalled
  /\ tunnel' = up
  /\ main' = "close"
  /\ UNCHANGED <<flags, signalled, tsDown, tsFailed, gate, log, serving>>

HaveURL == flags.publicURL \/ flags.tailscale

\* Mutant of SetupOAuth: its error returns past the deferred teardown.
SetupOAuthExits(ok) ==
  /\ main = "oauth"
  /\ IF ~ flags.oauth THEN main' = "banner" /\ UNCHANGED gate
     ELSE IF ok /\ HaveURL THEN main' = "banner" /\ gate' = TRUE
     ELSE main' = "close" /\ UNCHANGED gate
  /\ UNCHANGED <<flags, signalled, tail, log, serving>>

\* Mutant of SetupOAuth: a setup error is not fatal.
SetupOAuthGoesOn(ok) ==
  /\ main = "oauth"
  /\ gate' = (flags.oauth /\ ok /\ HaveURL)
  /\ main' = "banner"
  /\ UNCHANGED <<flags, signalled, tail, log, serving>>

\* setupOAuth: needs a public URL and a keyring.
SetupOAuth(ok) ==
  /\ main = "oauth"
  /\ IF ~ flags.oauth THEN main' = "banner" /\ UNCHANGED gate
     ELSE IF ok /\ HaveURL THEN main' = "banner" /\ gate' = TRUE
     ELSE main' = "unwind" /\ UNCHANGED gate
  /\ UNCHANGED <<flags, signalled, tail, log, serving>>

\* printHTTPStartup: fails only when the pairing code cannot be read.
PrintStartup(ok) ==
  /\ main = "banner"
  /\ ok \/ gate
  /\ main' = IF ok THEN "listen" ELSE "unwind"
  /\ UNCHANGED <<flags, signalled, tail, gate, log, serving>>

\* net.Listen, and the goroutine that waits for ctx.
Listen(ok) ==
  /\ main = "listen"
  /\ IF ok THEN main' = "serve" /\ listening' = TRUE /\ shutdown' = "waiting"
     ELSE main' = "unwind" /\ UNCHANGED <<listening, shutdown>>
  /\ UNCHANGED <<flags, signalled, tail, gate, log, req, gated, logged>>

-----------------------------------------------------------------------------
(***************************************************************************)
(* Serving.                                                                *)
(***************************************************************************)
Accept(r) ==
  /\ listening /\ main = "serve" /\ req[r] = "none"
  /\ req' = [req EXCEPT ![r] = "active"]
  /\ gated' = IF gate THEN gated \cup {r} ELSE gated
  /\ UNCHANGED <<flags, main, signalled, shutdown, tail, gate, log, listening, logged>>

\* The handler has run; with an access log the middleware still has to write.
Answer(r) ==
  /\ main # "exited" /\ req[r] = "active"
  /\ req' = [req EXCEPT ![r] = IF log = "off" THEN "done" ELSE "answered"]
  /\ UNCHANGED <<flags, main, signalled, shutdown, tail, gate, log, listening,
                 gated, logged>>

\* accessLogger.write ignores the error of a write to a closed file.
WriteLog(r) ==
  /\ main # "exited" /\ req[r] = "answered"
  /\ req' = [req EXCEPT ![r] = "done"]
  /\ logged' = IF log = "open" THEN logged \cup {r} ELSE logged
  /\ UNCHANGED <<flags, main, signalled, shutdown, tail, gate, log, listening, gated>>

\* SIGINT or SIGTERM: NotifyContext cancels ctx (later ones change nothing).
\* Before runHTTP has called NotifyContext, and in stdio, a signal just kills.
Signal ==
  /\ main \notin {"flags", "stdio", "exited"} /\ ~ signalled
  /\ signalled' = TRUE
  /\ UNCHANGED <<flags, main, tail, gate, log, serving>>

\* The other goroutine: Shutdown closes the listener, then waits.
BeginShutdown ==
  /\ shutdown = "waiting" /\ signalled /\ main # "exited"
  /\ shutdown' = "draining"
  /\ listening' = FALSE
  /\ UNCHANGED <<flags, main, signalled, tail, gate, log, req, gated, logged>>

\* Shutdown returns: no request is in flight, or the grace period is over.
EndShutdown ==
  /\ shutdown = "draining" /\ main # "exited"
  /\ shutdown' = "over"
  /\ UNCHANGED <<flags, main, signalled, tail, gate, log, listening, req, gated, logged>>

\* Mutant of ServeReturns: an accept error leaves the listener open.
ServeReturnsOpen(closed) ==
  /\ main = "serve"
  /\ closed => ~ listening
  /\ main' = "unwind"
  /\ UNCHANGED <<flags, signalled, tail, gate, log, serving>>

\* Mutant of ServeReturns: main waits for every request, without a bound.
ServeReturnsWhenIdle(closed) ==
  /\ main = "serve"
  /\ closed => ~ listening
  /\ InFlight = {}
  /\ main' = "unwind"
  /\ listening' = FALSE
  /\ UNCHANGED <<flags, signalled, shutdown, tail, gate, log, req, gated, logged>>

\* srv.Serve returns as soon as the listener is closed (ErrServerClosed), or
\* with an accept error of its own; serveHTTP returns with it.
ServeReturns(closed) ==
  /\ main = "serve"
  /\ closed => ~ listening
  /\ main' = "unwind"
  /\ listening' = FALSE
  /\ UNCHANGED <<flags, signalled, shutdown, tail, gate, log, req, gated, logged>>

-----------------------------------------------------------------------------
(***************************************************************************)
(* The deferred calls of runHTTP, last in first out: tunnel, log, stop.    *)
(***************************************************************************)
Teardown(ok) ==
  /\ main = "unwind"
  /\ IF tsDown THEN /\ tunnel' = ~ ok
                    /\ tsFailed' = ~ ok
     ELSE UNCHANGED <<tunnel, tsFailed>>
  /\ main' = "close"
  /\ UNCHANGED <<flags, signalled, tsDown, gate, log, serving>>

\* accessLogger.Close, whoever is still writing to it.
CloseLog ==
  /\ main = "close"
  /\ log' = IF log = "open" THEN "closed" ELSE log
  /\ main' = "return"
  /\ UNCHANGED <<flags, signalled, tail, gate, serving>>

\* stop(); RunE returns, the process exits and takes its goroutines along.
Exit ==
  /\ main = "return"
  /\ main' = "exited"
  /\ req' = [r \in Requests |-> IF r \in InFlight THEN "aborted" ELSE req[r]]
  /\ UNCHANGED <<flags, signalled, tail, gate, log, shutdown, listening, gated, logged>>

-----------------------------------------------------------------------------
StartUp(ok) ==
  \/ OpenLog(ok) \/ DeriveURL(ok) \/ SetupOAuth(ok) \/ PrintStartup(ok) \/ Listen(ok)
  \/ StartTunnelFails(ok)

MainStep ==
  \/ ChooseTransport \/ StartTunnel \/ CloseLog \/ Exit
  \/ \E ok \in BOOLEAN : StartUp(ok) \/ Teardown(ok)
  \/ ServeReturns(TRUE)

Serving(r) == Accept(r) \/ Answer(r) \/ WriteLog(r)

Next ==
  \/ MainStep \/ StdioEnds \/ ServeReturns(FALSE)
  \/ Signal \/ BeginShutdown \/ EndShutdown
  \/ \E r \in Requests : Serving(r)

Spec == Init /\ [][Next]_vars

(***************************************************************************)
(* Main and the Shutdown goroutine run when they can (Go scheduler); once   *)
(* the context is cancelled every call main makes returns (the tunnel       *)
(* commands are killed with ctx or have a deadline of their own, keyring    *)
(* and file calls are assumed to return), and the grace period of Shutdown  *)
(* is bounded.  Nothing is assumed of requests: a tool may hang.            *)
(***************************************************************************)
FairSpec == Spec /\ WF_vars(signalled /\ MainStep) /\ WF_vars(BeginShutdown) /\ WF_vars(EndShutdown)

-----------------------------------------------------------------------------
(***************************************************************************)
(* Properties                                                              *)
(***************************************************************************)

\* With --oauth, no request is ever served around Protect: the gate is in
\* place before the listener accepts, on every path through start-up.
NoUngatedRequest == flags.oauth => \A r \in Requests : req[r] # "none" => r \in gated

\* server.go:104 "tears the tunnel down on exit": whatever ends the command
\* (OAuth, banner or listen failure, accept error, signal at any time), its
\* tunnel is gone or the failed teardown was reported; the one exception is a
\* signal that killed the start of the tunnel.
TunnelTornDown ==
  main = "exited" /\ tunnel => tsFailed \/ (signalled /\ ~ tsDown)

\* http.go:25 "then draining gracefully": during the grace period of Shutdown
\* the exit cuts no request off, and a request that completes finds the
\* access log open for its line.
GracefulDrain ==
  shutdown = "draining" =>
    \A r \in Requests :
      /\ req[r] # "aborted"
      /\ log # "off" /\ req[r] = "done" => r \in logged

\* Ctrl-C ends the command, even with a tool call that never returns.
SignalEnds == signalled ~> main = "exited"
=============================================================================
