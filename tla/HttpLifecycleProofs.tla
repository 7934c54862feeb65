------------------------ MODULE HttpLifecycleProofs ------------------------
(***************************************************************************)
(* Proofs about HttpLifecycle, for any set of requests: type correctness,  *)
(* no request around the gate, and no tunnel left behind.                  *)
(***************************************************************************)
EXTENDS HttpLifecycle, TLAPS

-----------------------------------------------------------------------------
(***************************************************************************)
(* Types                                                                   *)
(***************************************************************************)

\* Every step of main, of the Shutdown goroutine and of a request keeps every
\* variable in its type, and the listener open only while main serves.
LEMMA TypeStep == TypeOK /\ [Next]_vars => TypeOK'
<1> SUFFICES ASSUME TypeOK, [Next]_vars PROVE TypeOK'
  OBVIOUS
<1> USE DEF TypeOK, Flags, Main, serving, tail, InFlight
<1>1. ASSUME NEW ok \in BOOLEAN, StartUp(ok) PROVE TypeOK'
  <2>1. CASE OpenLog(ok)
    BY <2>1 DEF OpenLog
  <2>2. CASE DeriveURL(ok)
    BY <2>2 DEF DeriveURL
  <2>3. CASE SetupOAuth(ok)
    <3>1. gate' \in BOOLEAN /\ main' \in {"banner", "unwind"}
      BY <2>3 DEF SetupOAuth
    <3>2. flags.oauth = FALSE => gate' = FALSE
      BY <2>3 DEF SetupOAuth
    <3>3. main = "oauth" /\ UNCHANGED <<flags, signalled, tail, log, serving>>
      BY <2>3 DEF SetupOAuth
    <3> QED
      BY <3>1, <3>2, <3>3
  <2>4. CASE PrintStartup(ok)
    BY <2>4 DEF PrintStartup
  <2>5. CASE Listen(ok)
    <3>1. /\ listening' \in BOOLEAN /\ shutdown' \in {"none", "waiting", "draining", "over"}
          /\ main' \in {"serve", "unwind"}
      BY <2>5 DEF Listen
    <3>2. main' # "serve" => listening' = FALSE
      BY <2>5 DEF Listen
    <3>3. UNCHANGED <<flags, signalled, tail, gate, log, req, gated, logged>>
      BY <2>5 DEF Listen
    <3> QED
      BY <3>1, <3>2, <3>3
  <2>6. CASE StartTunnelFails(ok)
    BY <2>6 DEF StartTunnelFails
  <2> QED
    BY <1>1, <2>1, <2>2, <2>3, <2>4, <2>5, <2>6 DEF StartUp
<1>2. ASSUME NEW ok \in BOOLEAN, Teardown(ok) PROVE TypeOK'
  <2>1. tunnel' \in BOOLEAN /\ tsFailed' \in BOOLEAN
    BY <1>2 DEF Teardown
  <2>2. /\ main = "unwind" /\ main' = "close"
        /\ UNCHANGED <<flags, signalled, tsDown, gate, log, serving>>
    BY <1>2 DEF Teardown
  <2> QED
    BY <2>1, <2>2
<1>3. ASSUME NEW closed \in BOOLEAN, ServeReturns(closed) PROVE TypeOK'
  <2>1. listening' \in BOOLEAN /\ (main' # "serve" => listening' = FALSE)
    BY <1>3 DEF ServeReturns
  <2>2. /\ main' = "unwind"
        /\ UNCHANGED <<flags, signalled, shutdown, tail, gate, log, req, gated, logged>>
    BY <1>3 DEF ServeReturns
  <2> QED
    BY <2>1, <2>2
<1>4. CASE ChooseTransport \/ StdioEnds \/ StartTunnel \/ CloseLog
  <2>1. CASE ChooseTransport
    BY <2>1 DEF ChooseTransport
  <2>2. CASE StdioEnds
    BY <2>2 DEF StdioEnds
  <2>3. CASE StartTunnel
    BY <2>3 DEF StartTunnel
  <2>4. CASE CloseLog
    BY <2>4 DEF CloseLog
  <2> QED
    BY <1>4, <2>1, <2>2, <2>3, <2>4
<1>5. CASE Exit
  <2>1. req' \in [Requests -> {"none", "active", "answered", "done", "aborted"}]
    BY <1>5 DEF Exit
  <2>2. /\ main = "return" /\ main' = "exited"
        /\ UNCHANGED <<flags, signalled, tail, gate, log, shutdown, listening, gated, logged>>
    BY <1>5 DEF Exit
  <2> QED
    BY <2>1, <2>2
<1>6. CASE Signal \/ EndShutdown
  <2>1. signalled' \in BOOLEAN /\ shutdown' \in {"none", "waiting", "draining", "over"}
    BY <1>6 DEF Signal, EndShutdown
  <2>2. UNCHANGED <<flags, main, tail, gate, log, listening, req, gated, logged>>
    BY <1>6 DEF Signal, EndShutdown
  <2> QED
    BY <2>1, <2>2
<1>7. CASE BeginShutdown
  <2>1. listening' \in BOOLEAN /\ (main' # "serve" => listening' = FALSE)
    BY <1>7 DEF BeginShutdown
  <2>2. /\ shutdown' = "draining"
        /\ UNCHANGED <<flags, main, signalled, tail, gate, log, req, gated, logged>>
    BY <1>7 DEF BeginShutdown
  <2> QED
    BY <2>1, <2>2
<1>8. ASSUME NEW r \in Requests, Serving(r) PROVE TypeOK'
  BY <1>8 DEF Serving, Accept, Answer, WriteLog
<1>9. CASE UNCHANGED vars
  BY <1>9 DEF vars
<1> QED
  BY <1>1, <1>2, <1>3, <1>4, <1>5, <1>6, <1>7, <1>8, <1>9 DEF Next, MainStep

\* The types hold in every state of the command's life.
THEOREM TypeCorrect == Spec => []TypeOK
<1>1. Init => TypeOK
  BY DEF Init, TypeOK, Flags, Main
<1> QED
  BY <1>1, TypeStep, PTL DEF Spec

-----------------------------------------------------------------------------
(***************************************************************************)
(* The gate                                                                *)
(***************************************************************************)

\* Past setupOAuth and up to the end of serving, --oauth means a gate; and no
\* request is around it.
GateInPlace ==
  flags.oauth => /\ main \in {"banner", "listen", "serve"} => gate
                 /\ \A r \in Requests : req[r] # "none" => r \in gated

\* No step of start-up or serving opens a way around the gate.
LEMMA GateStep == TypeOK /\ GateInPlace /\ [Next]_vars => GateInPlace'
<1> SUFFICES ASSUME TypeOK, GateInPlace, [Next]_vars PROVE GateInPlace'
  OBVIOUS
<1> USE DEF TypeOK, GateInPlace, Flags, serving, tail, InFlight
<1>1. ASSUME NEW ok \in BOOLEAN, StartUp(ok) PROVE GateInPlace'
  BY <1>1 DEF StartUp, OpenLog, DeriveURL, SetupOAuth, PrintStartup, Listen,
              StartTunnelFails
<1>2. ASSUME NEW ok \in BOOLEAN, Teardown(ok) \/ ServeReturns(ok) PROVE GateInPlace'
  BY <1>2 DEF Teardown, ServeReturns
<1>3. CASE ChooseTransport \/ StdioEnds \/ StartTunnel \/ CloseLog
  BY <1>3 DEF ChooseTransport, StdioEnds, StartTunnel, CloseLog
<1>4. CASE Exit
  BY <1>4 DEF Exit
<1>5. CASE Signal \/ BeginShutdown \/ EndShutdown
  BY <1>5 DEF Signal, BeginShutdown, EndShutdown
<1>6. ASSUME NEW r \in Requests, Serving(r) PROVE GateInPlace'
  BY <1>6 DEF Serving, Accept, Answer, WriteLog
<1>7. CASE UNCHANGED vars
  BY <1>7 DEF vars
<1> QED
  BY <1>1, <1>2, <1>3, <1>4, <1>5, <1>6, <1>7 DEF Next, MainStep

\* With --oauth no request is ever served around Protect, whichever steps of
\* start-up fail and whenever the signal comes.
THEOREM NoUngatedRequestCorrect == Spec => []NoUngatedRequest
<1>1. Init => GateInPlace
  BY DEF Init, GateInPlace
<1>2. GateInPlace => NoUngatedRequest
  BY DEF GateInPlace, NoUngatedRequest
<1> QED
  BY <1>1, <1>2, GateStep, TypeCorrect, PTL DEF Spec

-----------------------------------------------------------------------------
(***************************************************************************)
(* The tunnel                                                              *)
(***************************************************************************)

\* Before its start there is no tunnel and no teardown; a tunnel that is up has a teardown,
\* which runs before main gets to "close", unless a signal killed its start:
\* then main goes straight to "close".
TunnelOwned ==
  /\ main \in {"flags", "stdio", "log", "status", "tunnel"} => ~ tunnel /\ ~ tsDown
  /\ tunnel => tsDown \/ (signalled /\ main \in {"close", "return", "exited"})
  /\ tunnel /\ tsDown /\ main \in {"close", "return", "exited"} => tsFailed

\* No step of the command loses track of its tunnel.
LEMMA TunnelStep == TypeOK /\ TunnelOwned /\ [Next]_vars => TunnelOwned'
<1> SUFFICES ASSUME TypeOK, TunnelOwned, [Next]_vars PROVE TunnelOwned'
  OBVIOUS
<1> USE DEF TypeOK, TunnelOwned, Main, Flags, serving, tail
<1>1. ASSUME NEW ok \in BOOLEAN, StartUp(ok) PROVE TunnelOwned'
  <2>1. CASE OpenLog(ok) \/ DeriveURL(ok)
    BY <2>1 DEF OpenLog, DeriveURL
  <2>2. CASE SetupOAuth(ok) \/ PrintStartup(ok) \/ Listen(ok)
    BY <2>2 DEF SetupOAuth, PrintStartup, Listen
  <2>3. CASE StartTunnelFails(ok)
    BY <2>3 DEF StartTunnelFails
  <2> QED
    BY <1>1, <2>1, <2>2, <2>3 DEF StartUp
<1>2. ASSUME NEW ok \in BOOLEAN, Teardown(ok) PROVE TunnelOwned'
  BY <1>2 DEF Teardown
<1>3. ASSUME NEW closed \in BOOLEAN, ServeReturns(closed) PROVE TunnelOwned'
  BY <1>3 DEF ServeReturns
<1>4. CASE ChooseTransport \/ StdioEnds \/ StartTunnel \/ CloseLog \/ Exit
  BY <1>4 DEF ChooseTransport, StdioEnds, StartTunnel, CloseLog, Exit
<1>5. CASE Signal \/ BeginShutdown \/ EndShutdown
  BY <1>5 DEF Signal, BeginShutdown, EndShutdown
<1>6. ASSUME NEW r \in Requests, Serving(r) PROVE TunnelOwned'
  BY <1>6 DEF Serving, Accept, Answer, WriteLog
<1>7. CASE UNCHANGED vars
  BY <1>7 DEF vars
<1> QED
  BY <1>1, <1>2, <1>3, <1>4, <1>5, <1>6, <1>7 DEF Next, MainStep

\* The command never exits with its tunnel up, unless the teardown itself
\* failed and said so or a signal killed the start of the tunnel.
THEOREM TunnelTornDownCorrect == Spec => []TunnelTornDown
<1>1. Init => TunnelOwned
  BY DEF Init, TunnelOwned
<1>2. TunnelOwned => TunnelTornDown
  BY DEF TunnelOwned, TunnelTornDown
<1> QED
  BY <1>1, <1>2, TunnelStep, TypeCorrect, PTL DEF Spec
=============================================================================
