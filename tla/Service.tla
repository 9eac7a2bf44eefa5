------------------------------ MODULE Service ------------------------------
(***************************************************************************)
(* The life of the process: service.New, App.Start, App.Shutdown and       *)
(* service.Admission (internal/service), driven by the main function of    *)
(* cmd/market-analyzer, with the two servers it runs.                      *)
(*                                                                         *)
(* The main goroutine is a program counter.  Beside it run the two Serve   *)
(* goroutines of Start, the two stopping goroutines of Shutdown, one       *)
(* goroutine per call and per HTTP request, and the timer of the shutdown  *)
(* context.  The gRPC and HTTP servers are libraries: their part here is   *)
(* what App relies on.  A step is one operation on shared state.           *)
(***************************************************************************)
EXTENDS Naturals

CONSTANTS
  Calls,          \* the analysis calls clients may make
  HTTPRequests    \* the requests to /health, /ready and /metrics

VARIABLES
  main,         \* where the main goroutine is
  exit,         \* "none", "success" or "failure"
  opened,       \* the resources New acquired and nobody has closed
  accepting,    \* Admission.accepting
  grpcServe,    \* the goroutine of grpcServer.Serve
  httpServe,    \* the goroutine of httpServer.Serve
  errs,         \* the number of errors in App.errors, a channel of two
  signalled,    \* SIGINT or SIGTERM has arrived
  failed,       \* the variable of main
  shutdownErr,  \* App.shutdownErr: "none", or what failed first: "deadline", "connection"
  expired,      \* the shutdown context is done
  quit,         \* the gRPC server was told to stop
  graceful,     \* the goroutine of grpcServer.GracefulStop
  conns,        \* the client connections of the gRPC server
  httpStop,     \* the goroutine of httpServer.Shutdown
  call,         \* each call's progress
  http          \* each HTTP request's progress

mainVars == <<main, exit, opened, accepting, failed, shutdownErr>>
grpcVars == <<grpcServe, quit, graceful, conns>>
httpVars == <<httpServe, httpStop, http>>
envVars  == <<errs, signalled, expired>>
vars     == <<mainVars, grpcVars, httpVars, envVars, call>>

Resources == {"grpcListener", "httpListener", "connection"}

(* The steps of New, each with its successor; wiring acquires no resource. *)
StepAfter ==
  [grpcListener |-> "httpListener", httpListener |-> "connection",
   connection |-> "wiring", wiring |-> "start"]

StartupSteps == {"grpcListener", "httpListener", "connection", "wiring"}

(* The closure a step of New returns through when it fails (the first one  *)
(* returns directly), what each closure closes, and the one it calls next. *)
Failure ==
  [grpcListener |-> "abandoned", httpListener |-> "fail", connection |-> "failBoth",
   wiring |-> "failAll"]

Closures     == {"failAll", "failBoth", "fail"}
Closes       == [failAll |-> "connection", failBoth |-> "httpListener", fail |-> "grpcListener"]
ClosureAfter == [failAll |-> "failBoth", failBoth |-> "fail", fail |-> "abandoned"]

MainStates ==
  {"grpcListener", "httpListener", "connection", "wiring", "start",
   "failAll", "failBoth", "fail", "abandoned", "open", "wait",
   "close", "spawn", "select", "awaitGRPC", "awaitHTTP", "disconnect", "exited"}

(* A call is active while its handler goroutine runs.                      *)
Active == {c \in Calls : call[c] \in {"started", "working"}}
Busy   == {r \in HTTPRequests : http[r] = "active"}

Init ==
  /\ main = "grpcListener"
  /\ exit = "none"
  /\ opened = {}
  /\ accepting = FALSE
  /\ grpcServe = "unstarted"
  /\ httpServe = "unstarted"
  /\ errs = 0
  /\ signalled = FALSE
  /\ failed = FALSE
  /\ shutdownErr = "none"
  /\ expired = FALSE
  /\ quit = FALSE
  /\ graceful = "unstarted"
  /\ conns = "none"
  /\ httpStop = "unstarted"
  /\ call = [c \in Calls |-> "none"]
  /\ http = [r \in HTTPRequests |-> "none"]
-----------------------------------------------------------------------------
(* The main goroutine: New.                                                *)

Goto(from, to) == main = from /\ main' = to

Acquire(step) ==
  /\ Goto(step, StepAfter[step])
  /\ opened' = opened \cup ({step} \cap Resources)
  /\ UNCHANGED <<exit, accepting, failed, shutdownErr, grpcVars, httpVars, envVars, call>>

(* A step of New fails; nothing it was to acquire is there to be closed.   *)
FailToStartMixed(step) ==   \* fault: a failed dial returns through failAll
  /\ Goto(step, IF step = "connection" THEN "failAll" ELSE Failure[step])
  /\ UNCHANGED <<exit, opened, accepting, failed, shutdownErr, grpcVars, httpVars, envVars, call>>

FailToStart(step) ==
  /\ Goto(step, Failure[step])
  /\ UNCHANGED <<exit, opened, accepting, failed, shutdownErr, grpcVars, httpVars, envVars, call>>

(* A closure closes its resource and calls the closure before it.          *)
ReleaseOnce(closure) ==   \* fault: failBoth does not call fail
  /\ Goto(closure, IF closure = "failBoth" THEN "abandoned" ELSE ClosureAfter[closure])
  /\ opened' = opened \ {Closes[closure]}
  /\ UNCHANGED <<exit, accepting, failed, shutdownErr, grpcVars, httpVars, envVars, call>>

Release(closure) ==
  /\ Goto(closure, ClosureAfter[closure])
  /\ opened' = opened \ {Closes[closure]}
  /\ UNCHANGED <<exit, accepting, failed, shutdownErr, grpcVars, httpVars, envVars, call>>

(* New has returned an error, and main exits.                              *)
GiveUp ==
  /\ Goto("abandoned", "exited")
  /\ exit' = "failure"
  /\ UNCHANGED <<opened, accepting, failed, shutdownErr, grpcVars, httpVars, envVars, call>>

(* Start: the two serving goroutines, then admission.                      *)
SpawnServers ==
  /\ Goto("start", "open")
  /\ grpcServe' = "spawned"
  /\ httpServe' = "spawned"
  /\ UNCHANGED <<exit, opened, accepting, failed, shutdownErr, quit, graceful, conns,
                 httpStop, http, envVars, call>>

OpenAdmission ==
  /\ Goto("open", "wait")
  /\ accepting' = TRUE
  /\ UNCHANGED <<exit, opened, failed, shutdownErr, grpcVars, httpVars, envVars, call>>

(* The select of main: a signal, or an error of one of the servers.  When  *)
(* both are there either may be taken.                                     *)
TakeSignal ==
  /\ signalled
  /\ Goto("wait", "close")
  /\ UNCHANGED <<exit, opened, accepting, failed, shutdownErr, grpcVars, httpVars,
                 envVars, call>>

TakeError ==
  /\ errs > 0
  /\ Goto("wait", "close")
  /\ errs' = errs - 1
  /\ failed' = TRUE
  /\ UNCHANGED <<exit, opened, accepting, shutdownErr, grpcVars, httpVars, signalled,
                 expired, call>>

(* Shutdown.                                                               *)
CloseAdmission ==
  /\ Goto("close", "spawn")
  /\ accepting' = FALSE
  /\ UNCHANGED <<exit, opened, failed, shutdownErr, grpcVars, httpVars, envVars, call>>

SpawnStoppers ==
  /\ Goto("spawn", "select")
  /\ graceful' = "spawned"
  /\ httpStop' = "spawned"
  /\ UNCHANGED <<exit, opened, accepting, failed, shutdownErr, grpcServe, quit, conns,
                 httpServe, http, envVars, call>>

GRPCDrainedInTime ==
  /\ graceful = "done"
  /\ Goto("select", "awaitHTTP")
  /\ UNCHANGED <<exit, opened, accepting, failed, shutdownErr, grpcVars, httpVars,
                 envVars, call>>

(* The deadline comes first: Stop closes every connection, which cancels   *)
(* the context of every call still running.                                *)
StopGRPCAtOnce ==   \* fault: the deadline is not waited for
  /\ Goto("select", "awaitGRPC")
  /\ quit' = TRUE
  /\ conns' = "closed"
  /\ grpcServe' = IF grpcServe = "serving" THEN "returned" ELSE grpcServe
  /\ opened' = IF grpcServe = "serving" THEN opened \ {"grpcListener"} ELSE opened
  /\ UNCHANGED <<exit, accepting, failed, shutdownErr, graceful, httpVars, envVars, call>>

StopGRPC ==
  /\ expired
  /\ Goto("select", "awaitGRPC")
  /\ quit' = TRUE
  /\ conns' = "closed"
  /\ grpcServe' = IF grpcServe = "serving" THEN "returned" ELSE grpcServe
  /\ opened' = IF grpcServe = "serving" THEN opened \ {"grpcListener"} ELSE opened
  /\ UNCHANGED <<exit, accepting, failed, shutdownErr, graceful, httpVars, envVars, call>>

AwaitGRPCNot ==   \* fault: the handlers are not waited for after Stop
  /\ Goto("awaitGRPC", "awaitHTTP")
  /\ shutdownErr' = "deadline"
  /\ UNCHANGED <<exit, opened, accepting, failed, grpcVars, httpVars, envVars, call>>

AwaitGRPCQuietly ==   \* fault: the deadline is not reported
  /\ graceful = "done"
  /\ Goto("awaitGRPC", "awaitHTTP")
  /\ UNCHANGED <<exit, opened, accepting, failed, shutdownErr, grpcVars, httpVars,
                 envVars, call>>

AwaitGRPC ==
  /\ graceful = "done"
  /\ Goto("awaitGRPC", "awaitHTTP")
  /\ shutdownErr' = "deadline"
  /\ UNCHANGED <<exit, opened, accepting, failed, grpcVars, httpVars, envVars, call>>

AwaitHTTPNot ==   \* fault: Shutdown does not wait for the HTTP server
  /\ Goto("awaitHTTP", "disconnect")
  /\ shutdownErr' = IF httpStop = "deadline" THEN "deadline" ELSE shutdownErr
  /\ UNCHANGED <<exit, opened, accepting, failed, grpcVars, httpVars, envVars, call>>

AwaitHTTP ==
  /\ httpStop \in {"done", "deadline"}
  /\ Goto("awaitHTTP", "disconnect")
  /\ shutdownErr' = IF httpStop = "deadline" THEN "deadline" ELSE shutdownErr
  /\ UNCHANGED <<exit, opened, accepting, failed, grpcVars, httpVars, envVars, call>>

(* The Market Data connection closes, which may report an error of its     *)
(* own; Shutdown returns the first error there was, and main exits.        *)
Disconnect ==
  /\ Goto("disconnect", "exited")
  /\ opened' = opened \ {"connection"}
  /\ shutdownErr' \in IF shutdownErr = "none" THEN {"none", "connection"} ELSE {shutdownErr}
  /\ exit' = IF failed \/ shutdownErr' # "none" THEN "failure" ELSE "success"
  /\ UNCHANGED <<accepting, failed, grpcVars, httpVars, envVars, call>>

Main ==
  \/ \E step \in StartupSteps : Acquire(step) \/ FailToStart(step)
  \/ \E closure \in Closures : Release(closure)
  \/ GiveUp
  \/ SpawnServers \/ OpenAdmission
  \/ TakeSignal \/ TakeError
  \/ CloseAdmission \/ SpawnStoppers
  \/ GRPCDrainedInTime \/ StopGRPC \/ AwaitGRPC \/ AwaitHTTP \/ Disconnect
-----------------------------------------------------------------------------
(* The gRPC server.                                                        *)

ServeGRPC ==
  /\ grpcServe = "spawned"
  /\ ~quit
  /\ grpcServe' = "serving"
  /\ UNCHANGED <<mainVars, quit, graceful, conns, httpVars, envVars, call>>

(* Serve finds the server stopped before it began: it closes its listener  *)
(* and returns an error.                                                   *)
ServeGRPCTooLate ==
  /\ grpcServe = "spawned"
  /\ quit
  /\ grpcServe' = "returned"
  /\ opened' = opened \ {"grpcListener"}
  /\ errs' = errs + 1
  /\ UNCHANGED <<main, exit, accepting, failed, shutdownErr, quit, graceful, conns,
                 httpVars, signalled, expired, call>>

(* Accepting connections fails for good; open connections live on.         *)
GRPCServeFailsSilently ==   \* fault: the error is not sent to main
  /\ grpcServe = "serving"
  /\ grpcServe' = "returned"
  /\ opened' = opened \ {"grpcListener"}
  /\ UNCHANGED <<main, exit, accepting, failed, shutdownErr, quit, graceful, conns,
                 httpVars, envVars, call>>

GRPCServeFails ==
  /\ grpcServe = "serving"
  /\ grpcServe' = "returned"
  /\ opened' = opened \ {"grpcListener"}
  /\ errs' = errs + 1
  /\ UNCHANGED <<main, exit, accepting, failed, shutdownErr, quit, graceful, conns,
                 httpVars, signalled, expired, call>>

Connect ==
  /\ grpcServe = "serving"
  /\ conns = "none"
  /\ conns' = "open"
  /\ UNCHANGED <<mainVars, grpcServe, quit, graceful, httpVars, envVars, call>>

(* GracefulStop: stop listening and tell the clients to open no more       *)
(* calls, wait until the connections have none, then for the handlers.     *)
BeginGraceful ==
  /\ graceful = "spawned"
  /\ graceful' = "draining"
  /\ quit' = TRUE
  /\ grpcServe' = IF grpcServe = "serving" THEN "returned" ELSE grpcServe
  /\ opened' = IF grpcServe = "serving" THEN opened \ {"grpcListener"} ELSE opened
  /\ UNCHANGED <<main, exit, accepting, failed, shutdownErr, conns, httpVars, envVars, call>>

ConnectionsGone ==
  /\ graceful = "draining"
  /\ conns = "closed" \/ Active = {}
  /\ graceful' = "waiting"
  /\ conns' = "closed"
  /\ UNCHANGED <<mainVars, grpcServe, quit, httpVars, envVars, call>>

HandlersGone ==
  /\ graceful = "waiting"
  /\ Active = {}
  /\ graceful' = "done"
  /\ UNCHANGED <<mainVars, grpcServe, quit, conns, httpVars, envVars, call>>

(* A call's handler goroutine: the admission check, then the analysis.     *)
Arrive(c) ==
  /\ conns = "open"
  /\ call[c] = "none"
  /\ call' = [call EXCEPT ![c] = "started"]
  /\ UNCHANGED <<mainVars, grpcVars, httpVars, envVars>>

AdmitAny(c) ==   \* fault: readiness is not asked for
  /\ call[c] = "started"
  /\ call' = [call EXCEPT ![c] = "working"]
  /\ UNCHANGED <<mainVars, grpcVars, httpVars, envVars>>

Admit(c) ==
  /\ call[c] = "started"
  /\ call' = [call EXCEPT ![c] = IF accepting THEN "working" ELSE "refused"]
  /\ UNCHANGED <<mainVars, grpcVars, httpVars, envVars>>

(* The handler returns, with the outcome of its analysis or, when Stop has *)
(* canceled its context, with nobody left to answer.                       *)
Finish(c) ==
  /\ call[c] = "working"
  /\ call' = [call EXCEPT ![c] = IF conns = "closed" THEN "aborted" ELSE "answered"]
  /\ UNCHANGED <<mainVars, grpcVars, httpVars, envVars>>

GRPC ==
  \/ ServeGRPC \/ ServeGRPCTooLate \/ GRPCServeFails \/ Connect
  \/ BeginGraceful \/ ConnectionsGone \/ HandlersGone
  \/ \E c \in Calls : Arrive(c) \/ Admit(c) \/ Finish(c)
-----------------------------------------------------------------------------
(* The HTTP server.                                                        *)

ServeHTTP ==
  /\ httpServe = "spawned"
  /\ httpServe' = IF httpStop \in {"unstarted", "spawned"} THEN "serving" ELSE "returned"
  /\ opened' = IF httpStop \in {"unstarted", "spawned"} THEN opened
                                                        ELSE opened \ {"httpListener"}
  /\ UNCHANGED <<main, exit, accepting, failed, shutdownErr, grpcVars, httpStop, http,
                 envVars, call>>

HTTPServeFailsRetrying ==   \* fault: the goroutine reports the error and serves again
  /\ httpServe = "serving"
  /\ errs' = errs + 1
  /\ UNCHANGED <<mainVars, grpcVars, httpVars, signalled, expired, call>>

HTTPServeFails ==
  /\ httpServe = "serving"
  /\ httpServe' = "returned"
  /\ opened' = opened \ {"httpListener"}
  /\ errs' = errs + 1
  /\ UNCHANGED <<main, exit, accepting, failed, shutdownErr, grpcVars, httpStop, http,
                 signalled, expired, call>>

Request(r) ==
  /\ httpServe \in {"serving", "returned"}   \* open connections outlive a failed Serve
  /\ httpStop \in {"unstarted", "spawned"}
  /\ http[r] = "none"
  /\ http' = [http EXCEPT ![r] = "active"]
  /\ UNCHANGED <<mainVars, grpcVars, httpServe, httpStop, envVars, call>>

Respond(r) ==
  /\ http[r] = "active"
  /\ http' = [http EXCEPT ![r] = "done"]
  /\ UNCHANGED <<mainVars, grpcVars, httpServe, httpStop, envVars, call>>

(* http.Server.Shutdown: stop listening, then wait for the requests or for *)
(* the context.  Requests still running are left running.                  *)
BeginHTTPStop ==
  /\ httpStop = "spawned"
  /\ httpStop' = "draining"
  /\ httpServe' = IF httpServe = "serving" THEN "returned" ELSE httpServe
  /\ opened' = IF httpServe = "serving" THEN opened \ {"httpListener"} ELSE opened
  /\ UNCHANGED <<main, exit, accepting, failed, shutdownErr, grpcVars, http, envVars, call>>

EndHTTPStopPatiently ==   \* fault: Shutdown is given a context without the deadline
  /\ httpStop = "draining"
  /\ Busy = {} /\ httpStop' = "done"
  /\ UNCHANGED <<mainVars, grpcVars, httpServe, http, envVars, call>>

EndHTTPStop ==
  /\ httpStop = "draining"
  /\ \/ Busy = {} /\ httpStop' = "done"
     \/ expired /\ httpStop' = "deadline"
  /\ UNCHANGED <<mainVars, grpcVars, httpServe, http, envVars, call>>

HTTP ==
  \/ ServeHTTP \/ HTTPServeFails \/ BeginHTTPStop \/ EndHTTPStop
  \/ \E r \in HTTPRequests : Request(r) \/ Respond(r)
-----------------------------------------------------------------------------
(* A signal reaches main once it listens for one.                          *)
Signal ==
  /\ main = "wait"
  /\ ~signalled
  /\ signalled' = TRUE
  /\ UNCHANGED <<mainVars, grpcVars, httpVars, errs, expired, call>>

(* The timeout of the context main made for Shutdown.                      *)
Expire ==
  /\ main \in {"close", "spawn", "select", "awaitGRPC", "awaitHTTP", "disconnect"}
  /\ ~expired
  /\ expired' = TRUE
  /\ UNCHANGED <<mainVars, grpcVars, httpVars, errs, signalled, call>>

(* Nothing moves once main has exited.                                     *)
Next == main # "exited" /\ (Main \/ GRPC \/ HTTP \/ Signal \/ Expire)

Spec == Init /\ [][Next]_vars
-----------------------------------------------------------------------------
(***************************************************************************)
(* Fairness.  Goroutines that can run do, the timer fires, and a handler   *)
(* returns: an analysis has a deadline of its own and checks its context   *)
(* in every loop.  Clients owe nothing: no signal, call or request need    *)
(* come, no server need fail, and an HTTP client may never read its reply. *)
(***************************************************************************)
Fairness ==
  /\ WF_vars(main # "exited" /\ Main)
  /\ WF_vars(main # "exited" /\ (ServeGRPC \/ ServeGRPCTooLate))
  /\ WF_vars(main # "exited" /\ ServeHTTP)
  /\ WF_vars(main # "exited" /\ (BeginGraceful \/ ConnectionsGone \/ HandlersGone))
  /\ WF_vars(main # "exited" /\ (BeginHTTPStop \/ EndHTTPStop))
  /\ WF_vars(Expire)
  /\ \A c \in Calls : WF_vars(main # "exited" /\ (Admit(c) \/ Finish(c)))

FairSpec == Spec /\ Fairness
-----------------------------------------------------------------------------
TypeOK ==
  /\ main \in MainStates
  /\ exit \in {"none", "success", "failure"}
  /\ opened \subseteq Resources
  /\ accepting \in BOOLEAN
  /\ grpcServe \in {"unstarted", "spawned", "serving", "returned"}
  /\ httpServe \in {"unstarted", "spawned", "serving", "returned"}
  /\ errs \in 0 .. 2   \* the capacity of App.errors: no send ever blocks
  /\ signalled \in BOOLEAN
  /\ failed \in BOOLEAN
  /\ shutdownErr \in {"none", "deadline", "connection"}
  /\ expired \in BOOLEAN
  /\ quit \in BOOLEAN
  /\ graceful \in {"unstarted", "spawned", "draining", "waiting", "done"}
  /\ conns \in {"none", "open", "closed"}
  /\ httpStop \in {"unstarted", "spawned", "draining", "done", "deadline"}
  /\ call \in [Calls -> {"none", "started", "working", "refused", "answered", "aborted"}]
  /\ http \in [HTTPRequests -> {"none", "active", "done"}]

(***************************************************************************)
(* The Market Data connection every analysis reads through is open for as  *)
(* long as one is at work (docs/operations.md, "Shutdown", item 4).        *)
(***************************************************************************)
ConnectionOutlivesCalls ==
  (\E c \in Calls : call[c] = "working") => "connection" \in opened

(***************************************************************************)
(* A process that exits with success was told to stop and cut nothing off: *)
(* a failed server alone ends it with failure, and no call lost its answer *)
(* and no handler, gRPC or HTTP, was still running.                        *)
(***************************************************************************)
SuccessLosesNothing ==
  exit = "success" =>
    /\ signalled
    /\ \A c \in Calls : call[c] # "aborted"
    /\ Active = {}
    /\ Busy = {}

(***************************************************************************)
(* Nothing is left open, and nothing is closed that is not.  Whichever     *)
(* step of New fails, each closure finds its resource open, and together   *)
(* they close what was acquired.  After a shutdown the connection is       *)
(* closed, and a listener is left open only by a Serve goroutine that has  *)
(* not yet run: no server still accepts when main exits, however its Serve *)
(* call, its failure and the two stopping goroutines interleave.           *)
(***************************************************************************)
ExitReleasesResources ==
  /\ main \in Closures => Closes[main] \in opened
  /\ main = "exited" =>
       /\ "connection" \notin opened
       /\ "grpcListener" \in opened => grpcServe = "spawned"
       /\ "httpListener" \in opened => httpServe = "spawned"

(* Shutdown and admission keep the promises of ServiceContract.            *)
Contract ==
  INSTANCE ServiceContract WITH
    phase <- IF main = "exited" THEN "closed"
             ELSE IF accepting THEN "open"
             ELSE IF main \in {"spawn", "select", "awaitGRPC", "awaitHTTP", "disconnect"}
               THEN "draining"
             ELSE "down",
    work  <- [c \in Calls |-> IF call[c] \in {"none", "started"} THEN "waiting" ELSE call[c]]

KeepsContract == Contract!Spec

(***************************************************************************)
(* A signal, or the error of a server, ends the process, whatever clients  *)
(* do.                                                                     *)
(***************************************************************************)
StopRequestsEndProcess == (signalled \/ errs > 0) ~> main = "exited"

(* A gRPC server that no longer serves is not reported ready for ever.     *)
FailedServerTurnsUnready == (grpcServe = "returned") ~> ~accepting

(***************************************************************************)
(* docs/operations.md, "Shutdown", item 3: "at the deadline, remaining     *)
(* gRPC work is canceled and servers are forced to stop".  When Shutdown   *)
(* has only the connection left to close, no request is being served.      *)
(***************************************************************************)
ServersForcedToStop == main \in {"disconnect", "exited"} => Active = {} /\ Busy = {}
=============================================================================
