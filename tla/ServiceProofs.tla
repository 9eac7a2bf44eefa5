--------------------------- MODULE ServiceProofs ---------------------------
(***************************************************************************)
(* The safety of startup, admission and shutdown, for any number of calls  *)
(* and HTTP requests, and the proof that Service implements                *)
(* ServiceContract.                                                        *)
(***************************************************************************)
EXTENDS Service, TLAPS

StartingStates == {"grpcListener", "httpListener", "connection", "wiring", "start"}
FailingStates  == {"failAll", "failBoth", "fail", "abandoned"}
DrainingStates == {"spawn", "select", "awaitGRPC", "awaitHTTP", "disconnect"}

(* Nothing runs before Start has spawned it.                               *)
StartInv ==
  /\ main \in StartingStates \cup FailingStates \cup {"exited"} \/ grpcServe # "unstarted"
  /\ main \in StartingStates \cup FailingStates =>
       /\ grpcServe = "unstarted"
       /\ httpServe = "unstarted"
       /\ graceful = "unstarted"
  /\ grpcServe = "unstarted" => conns = "none" /\ errs = 0
  /\ grpcServe = "unstarted" <=> httpServe = "unstarted"
  /\ conns = "none" => \A c \in Calls : call[c] = "none"
  /\ main = "open" => \A c \in Calls : call[c] # "working"

(* Each Serve goroutine sends at most one error, on its way out.           *)
ErrorsInv ==
  /\ grpcServe # "returned" => errs <= 1
  /\ httpServe # "returned" => errs <= 1
  /\ grpcServe # "returned" /\ httpServe # "returned" => errs = 0

(* Admission is open from Start to Shutdown.                               *)
AdmissionInv == accepting <=> main \in {"wait", "close"}

(* The connection is there from the dial to the end of Shutdown, or until  *)
(* the closure that closes it.                                             *)
ConnectionInv ==
  "connection" \in opened <=>
    main \in {"wiring", "start", "failAll", "open", "wait", "close"} \cup DrainingStates

(***************************************************************************)
(* Until the servers start, where main is tells which listeners are open;  *)
(* from then on each belongs to its Serve goroutine, which closes it when  *)
(* it returns, and stopping a server makes a Serve that runs return.       *)
(***************************************************************************)
ListenerInv ==
  /\ main \in StartingStates \cup FailingStates =>
       /\ "grpcListener" \in opened <=> main \notin {"grpcListener", "abandoned"}
       /\ "httpListener" \in opened <=>
            main \in {"connection", "wiring", "start", "failAll", "failBoth"}
  /\ grpcServe = "returned" => "grpcListener" \notin opened
  /\ httpServe = "returned" => "httpListener" \notin opened
  /\ quit => grpcServe # "serving"
  /\ graceful \in {"draining", "waiting", "done"} => quit
  /\ main = "disconnect" => httpStop \in {"done", "deadline"}
  /\ main = "exited" =>
       /\ grpcServe = "unstarted" => opened = {}
       /\ grpcServe # "serving"
       /\ httpServe # "serving"

(***************************************************************************)
(* GracefulStop returns only when the connections and the handlers are     *)
(* gone.  Only Stop, at the deadline, closes connections under a handler,  *)
(* and then main waits for GracefulStop all the same.                      *)
(***************************************************************************)
DrainInv ==
  /\ graceful \in {"unstarted", "spawned", "draining"} \/ conns = "closed"
  /\ graceful # "unstarted" => main \in (DrainingStates \ {"spawn"}) \cup {"exited"}
  /\ main \in DrainingStates \ {"spawn"} => graceful # "unstarted"
  /\ graceful = "done" => Active = {}
  /\ main \in {"awaitHTTP", "disconnect"} => graceful = "done"
  /\ main = "exited" => Active = {}
  /\ main = "awaitGRPC" => conns = "closed" /\ expired
  /\ conns = "closed" => graceful # "unstarted"
  /\ conns = "closed" /\ Active # {} => main = "awaitGRPC"

(* A call that was cut off leaves an error for Shutdown to report.         *)
AbortInv ==
  (\E c \in Calls : call[c] = "aborted") =>
    main = "awaitGRPC" \/ shutdownErr = "deadline"

(* So does an HTTP request left running.                                   *)
HTTPInv ==
  /\ httpStop \in {"draining", "done", "deadline"} => httpServe # "serving"
  /\ httpStop = "done" => Busy = {}
  /\ main = "disconnect" => httpStop = "done" \/ shutdownErr = "deadline"

(* Main leaves its select for a signal or an error only.                   *)
ExitInv ==
  /\ main \in {"close"} \cup DrainingStates => signalled \/ failed
  /\ main = "exited" <=> exit # "none"
  /\ exit = "success" => signalled /\ shutdownErr = "none" /\ Busy = {} /\ Active = {}

CoreInv ==
  /\ TypeOK
  /\ StartInv
  /\ ErrorsInv
  /\ AdmissionInv
  /\ ConnectionInv
  /\ DrainInv
  /\ AbortInv
  /\ HTTPInv
  /\ ExitInv

IInv == CoreInv /\ ListenerInv
-----------------------------------------------------------------------------
USE DEF StartingStates, FailingStates, DrainingStates, Closures, MainStates, Resources, Active, Busy,
        mainVars, grpcVars, httpVars, envVars

LEMMA InitHolds == Init => IInv
<1> SUFFICES ASSUME Init PROVE IInv
  OBVIOUS
<1>1. TypeOK
  <2>1. /\ accepting \in BOOLEAN /\ signalled \in BOOLEAN /\ failed \in BOOLEAN
        /\ expired \in BOOLEAN /\ quit \in BOOLEAN
    BY DEF Init
  <2> QED
    BY <2>1 DEF Init, TypeOK
<1>2. StartInv /\ ErrorsInv /\ AdmissionInv /\ ConnectionInv
  BY DEF Init, StartInv, ErrorsInv, AdmissionInv, ConnectionInv
<1>3. DrainInv /\ AbortInv /\ HTTPInv /\ ExitInv
  BY DEF Init, DrainInv, AbortInv, HTTPInv, ExitInv
<1>4. ListenerInv
  BY DEF Init, ListenerInv
<1> QED
  BY <1>1, <1>2, <1>3, <1>4 DEF IInv, CoreInv

LEMMA NextPreservesCore ==
  ASSUME IInv, main # "exited", Main \/ GRPC \/ HTTP \/ Signal \/ Expire
  PROVE  CoreInv'
<1>1. ASSUME NEW step \in StartupSteps, Acquire(step) PROVE CoreInv'
  <2>1. /\ Goto(step, StepAfter[step])
        /\ opened' = opened \cup ({step} \cap Resources)
        /\ UNCHANGED <<exit, accepting, failed, shutdownErr, grpcVars, httpVars, envVars, call>>
    BY <1>1 DEF Acquire
  <2>2. /\ main \in StartingStates /\ main' \in StartingStates
        /\ opened' \subseteq Resources
        /\ "connection" \in opened' <=> main' \in {"wiring", "start"}
    <3>1. \/ step = "grpcListener" /\ StepAfter[step] = "httpListener"
          \/ step = "httpListener" /\ StepAfter[step] = "connection"
          \/ step = "connection" /\ StepAfter[step] = "wiring"
          \/ step = "wiring" /\ StepAfter[step] = "start"
      BY DEF StepAfter, StartupSteps
    <3>2. main = step /\ main' = StepAfter[step]
      BY <2>1 DEF Goto
    <3>3. opened' \subseteq Resources
      BY <2>1 DEF IInv, CoreInv, TypeOK
    <3>4. "connection" \in opened' <=> step = "connection" \/ "connection" \in opened
      BY <2>1
    <3>5. "connection" \in opened <=> step = "wiring"
      BY <3>1, <3>2 DEF IInv, CoreInv, ConnectionInv
    <3> QED
      BY <3>1, <3>2, <3>3, <3>4, <3>5
  <2> QED
    BY <2>1, <2>2 DEF IInv, CoreInv, TypeOK, StartInv, ErrorsInv, AdmissionInv, ConnectionInv,
         DrainInv, AbortInv, HTTPInv, ExitInv
<1>2. ASSUME NEW step \in StartupSteps, FailToStart(step) PROVE CoreInv'
  <2>1. /\ step \in StartingStates /\ Failure[step] \in FailingStates
        /\ Failure[step] = "failAll" <=> step = "wiring"
    BY DEF Failure, StartupSteps
  <2>2. main \in StartingStates /\ main' \in FailingStates /\ (main' = "failAll" <=> main = "wiring")
    BY <1>2, <2>1 DEF FailToStart, Goto
  <2>3. main # "start"
    BY <1>2 DEF FailToStart, Goto, StartupSteps
  <2> QED
    BY <1>2, <2>2, <2>3 DEF FailToStart, IInv, CoreInv, TypeOK, StartInv, ErrorsInv, AdmissionInv, ConnectionInv,
         DrainInv, AbortInv, HTTPInv, ExitInv
<1>3. CASE SpawnServers
  BY <1>3 DEF SpawnServers, Goto, IInv, CoreInv, TypeOK, StartInv, ErrorsInv, AdmissionInv, ConnectionInv,
         DrainInv, AbortInv, HTTPInv, ExitInv
<1>4. CASE OpenAdmission
  BY <1>4 DEF OpenAdmission, Goto, IInv, CoreInv, TypeOK, StartInv, ErrorsInv, AdmissionInv, ConnectionInv,
         DrainInv, AbortInv, HTTPInv, ExitInv
<1>5. CASE TakeSignal
  BY <1>5 DEF TakeSignal, Goto, IInv, CoreInv, TypeOK, StartInv, ErrorsInv, AdmissionInv, ConnectionInv,
         DrainInv, AbortInv, HTTPInv, ExitInv
<1>6. CASE TakeError
  BY <1>6 DEF TakeError, Goto, IInv, CoreInv, TypeOK, StartInv, ErrorsInv, AdmissionInv, ConnectionInv,
         DrainInv, AbortInv, HTTPInv, ExitInv
<1>7. CASE CloseAdmission
  <2>1. TypeOK'
    <3>1. accepting' \in BOOLEAN
      BY <1>7 DEF CloseAdmission
    <3> QED
      BY <1>7, <3>1 DEF CloseAdmission, Goto, IInv, CoreInv, TypeOK
  <2>2. StartInv' /\ ErrorsInv' /\ AdmissionInv' /\ ConnectionInv'
    BY <1>7 DEF CloseAdmission, Goto, IInv, CoreInv, TypeOK, StartInv, ErrorsInv, AdmissionInv, ConnectionInv
  <2>3. DrainInv' /\ AbortInv' /\ HTTPInv' /\ ExitInv'
    BY <1>7 DEF CloseAdmission, Goto, IInv, CoreInv, TypeOK, StartInv, DrainInv, AbortInv, HTTPInv, ExitInv
  <2> QED
    BY <2>1, <2>2, <2>3 DEF IInv, CoreInv
<1>8. CASE SpawnStoppers
  BY <1>8 DEF SpawnStoppers, Goto, IInv, CoreInv, TypeOK, StartInv, ErrorsInv, AdmissionInv, ConnectionInv,
         DrainInv, AbortInv, HTTPInv, ExitInv
<1>9. CASE GRPCDrainedInTime
  BY <1>9 DEF GRPCDrainedInTime, Goto, IInv, CoreInv, TypeOK, StartInv, ErrorsInv, AdmissionInv, ConnectionInv,
         DrainInv, AbortInv, HTTPInv, ExitInv
<1>10. CASE StopGRPC
  <2>1. TypeOK'
    BY <1>10 DEF StopGRPC, Goto, IInv, CoreInv, TypeOK
  <2>2. StartInv' /\ ErrorsInv' /\ AdmissionInv' /\ ConnectionInv'
    BY <1>10 DEF StopGRPC, Goto, IInv, CoreInv, TypeOK, StartInv, ErrorsInv, AdmissionInv, ConnectionInv
  <2>3. DrainInv' /\ AbortInv' /\ HTTPInv' /\ ExitInv'
    <3>1. DrainInv'
      BY <1>10 DEF StopGRPC, Goto, IInv, CoreInv, TypeOK, DrainInv
    <3>2. AbortInv'
      BY <1>10 DEF StopGRPC, Goto, IInv, CoreInv, AbortInv
    <3>3. HTTPInv'
      BY <1>10 DEF StopGRPC, Goto, IInv, CoreInv, HTTPInv
    <3>4. ExitInv'
      BY <1>10 DEF StopGRPC, Goto, IInv, CoreInv, ExitInv
    <3> QED
      BY <3>1, <3>2, <3>3, <3>4
  <2> QED
    BY <2>1, <2>2, <2>3 DEF IInv, CoreInv
<1>11. CASE AwaitGRPC
  BY <1>11 DEF AwaitGRPC, Goto, IInv, CoreInv, TypeOK, StartInv, ErrorsInv, AdmissionInv, ConnectionInv,
         DrainInv, AbortInv, HTTPInv, ExitInv
<1>12. CASE AwaitHTTP
  BY <1>12 DEF AwaitHTTP, Goto, IInv, CoreInv, TypeOK, StartInv, ErrorsInv, AdmissionInv, ConnectionInv,
         DrainInv, AbortInv, HTTPInv, ExitInv
<1>13. CASE Disconnect
  BY <1>13 DEF Disconnect, Goto, IInv, CoreInv, TypeOK, StartInv, ErrorsInv, AdmissionInv, ConnectionInv,
         DrainInv, AbortInv, HTTPInv, ExitInv
<1>14. CASE ServeGRPC
  BY <1>14 DEF ServeGRPC, Goto, IInv, CoreInv, TypeOK, StartInv, ErrorsInv, AdmissionInv, ConnectionInv,
         DrainInv, AbortInv, HTTPInv, ExitInv
<1>15. CASE ServeGRPCTooLate
  BY <1>15 DEF ServeGRPCTooLate, Goto, IInv, CoreInv, TypeOK, StartInv, ErrorsInv, AdmissionInv, ConnectionInv,
         DrainInv, AbortInv, HTTPInv, ExitInv
<1>16. CASE GRPCServeFails
  BY <1>16 DEF GRPCServeFails, Goto, IInv, CoreInv, TypeOK, StartInv, ErrorsInv, AdmissionInv, ConnectionInv,
         DrainInv, AbortInv, HTTPInv, ExitInv
<1>17. CASE Connect
  BY <1>17 DEF Connect, Goto, IInv, CoreInv, TypeOK, StartInv, ErrorsInv, AdmissionInv, ConnectionInv,
         DrainInv, AbortInv, HTTPInv, ExitInv
<1>18. CASE BeginGraceful
  BY <1>18 DEF BeginGraceful, Goto, IInv, CoreInv, TypeOK, StartInv, ErrorsInv, AdmissionInv, ConnectionInv,
         DrainInv, AbortInv, HTTPInv, ExitInv
<1>19. CASE ConnectionsGone
  BY <1>19 DEF ConnectionsGone, Goto, IInv, CoreInv, TypeOK, StartInv, ErrorsInv, AdmissionInv, ConnectionInv,
         DrainInv, AbortInv, HTTPInv, ExitInv
<1>20. CASE HandlersGone
  BY <1>20 DEF HandlersGone, Goto, IInv, CoreInv, TypeOK, StartInv, ErrorsInv, AdmissionInv, ConnectionInv,
         DrainInv, AbortInv, HTTPInv, ExitInv
<1>21. CASE ServeHTTP
  BY <1>21 DEF ServeHTTP, Goto, IInv, CoreInv, TypeOK, StartInv, ErrorsInv, AdmissionInv, ConnectionInv,
         DrainInv, AbortInv, HTTPInv, ExitInv
<1>22. CASE HTTPServeFails
  BY <1>22 DEF HTTPServeFails, Goto, IInv, CoreInv, TypeOK, StartInv, ErrorsInv, AdmissionInv, ConnectionInv,
         DrainInv, AbortInv, HTTPInv, ExitInv
<1>23. CASE BeginHTTPStop
  BY <1>23 DEF BeginHTTPStop, Goto, IInv, CoreInv, TypeOK, StartInv, ErrorsInv, AdmissionInv, ConnectionInv,
         DrainInv, AbortInv, HTTPInv, ExitInv
<1>24. CASE EndHTTPStop
  BY <1>24 DEF EndHTTPStop, Goto, IInv, CoreInv, TypeOK, StartInv, ErrorsInv, AdmissionInv, ConnectionInv,
         DrainInv, AbortInv, HTTPInv, ExitInv
<1>25. CASE Signal
  BY <1>25 DEF Signal, Goto, IInv, CoreInv, TypeOK, StartInv, ErrorsInv, AdmissionInv, ConnectionInv,
         DrainInv, AbortInv, HTTPInv, ExitInv
<1>26. CASE Expire
  BY <1>26 DEF Expire, Goto, IInv, CoreInv, TypeOK, StartInv, ErrorsInv, AdmissionInv, ConnectionInv,
         DrainInv, AbortInv, HTTPInv, ExitInv
<1>27. ASSUME NEW c \in Calls, Arrive(c) PROVE CoreInv'
  BY <1>27 DEF Arrive, IInv, CoreInv, TypeOK, StartInv, ErrorsInv, AdmissionInv, ConnectionInv,
         DrainInv, AbortInv, HTTPInv, ExitInv
<1>28. ASSUME NEW c \in Calls, Admit(c) PROVE CoreInv'
  BY <1>28 DEF Admit, IInv, CoreInv, TypeOK, StartInv, ErrorsInv, AdmissionInv, ConnectionInv,
         DrainInv, AbortInv, HTTPInv, ExitInv
<1>29. ASSUME NEW c \in Calls, Finish(c) PROVE CoreInv'
  BY <1>29 DEF Finish, IInv, CoreInv, TypeOK, StartInv, ErrorsInv, AdmissionInv, ConnectionInv,
         DrainInv, AbortInv, HTTPInv, ExitInv
<1>30. ASSUME NEW r \in HTTPRequests, Request(r) PROVE CoreInv'
  BY <1>30 DEF Request, IInv, CoreInv, TypeOK, StartInv, ErrorsInv, AdmissionInv, ConnectionInv,
         DrainInv, AbortInv, HTTPInv, ExitInv
<1>31. ASSUME NEW r \in HTTPRequests, Respond(r) PROVE CoreInv'
  BY <1>31 DEF Respond, IInv, CoreInv, TypeOK, StartInv, ErrorsInv, AdmissionInv, ConnectionInv,
         DrainInv, AbortInv, HTTPInv, ExitInv
<1>32. ASSUME NEW closure \in Closures, Release(closure) PROVE CoreInv'
  <2>1. /\ ClosureAfter[closure] \in FailingStates \ {"failAll"}
        /\ Closes[closure] = "connection" <=> closure = "failAll"
    BY DEF ClosureAfter, Closes
  <2>2. main \in FailingStates /\ main' \in FailingStates \ {"failAll"}
    BY <1>32, <2>1 DEF Release, Goto
  <2>3. "connection" \notin opened' /\ opened' \subseteq Resources
    BY <1>32, <2>1, <2>2 DEF Release, Goto, IInv, CoreInv, TypeOK, ConnectionInv
  <2> QED
    BY <1>32, <2>2, <2>3 DEF Release, IInv, CoreInv, TypeOK, StartInv, ErrorsInv, AdmissionInv, ConnectionInv,
         DrainInv, AbortInv, HTTPInv, ExitInv
<1>33. CASE GiveUp
  BY <1>33 DEF GiveUp, Goto, IInv, CoreInv, TypeOK, StartInv, ErrorsInv, AdmissionInv, ConnectionInv,
         DrainInv, AbortInv, HTTPInv, ExitInv
<1> QED
  BY <1>1, <1>2, <1>3, <1>4, <1>5, <1>6, <1>7, <1>8, <1>9, <1>10, <1>11, <1>12, <1>13, <1>14, <1>15, <1>16, <1>17, <1>18, <1>19, <1>20, <1>21, <1>22, <1>23, <1>24, <1>25, <1>26, <1>27, <1>28, <1>29, <1>30, <1>31,
     <1>32, <1>33
     DEF Main, GRPC, HTTP

(* The listeners: most steps change nothing that they depend on but main.  *)
LEMMA NextKeepsListeners ==
  ASSUME IInv, main # "exited", Main \/ GRPC \/ HTTP \/ Signal \/ Expire
  PROVE  ListenerInv'
<1> USE DEF IInv, CoreInv
<1>1. ASSUME NEW step \in StartupSteps, Acquire(step) PROVE ListenerInv'
  <2>1. \/ step = "grpcListener" /\ StepAfter[step] = "httpListener"
        \/ step = "httpListener" /\ StepAfter[step] = "connection"
        \/ step = "connection" /\ StepAfter[step] = "wiring"
        \/ step = "wiring" /\ StepAfter[step] = "start"
    BY DEF StepAfter, StartupSteps
  <2> QED
    BY <1>1, <2>1 DEF Acquire, Goto, TypeOK, StartInv, ListenerInv
<1>2. ASSUME NEW step \in StartupSteps, FailToStart(step) PROVE ListenerInv'
  <2>1. \/ step = "grpcListener" /\ Failure[step] = "abandoned"
        \/ step = "httpListener" /\ Failure[step] = "fail"
        \/ step = "connection" /\ Failure[step] = "failBoth"
        \/ step = "wiring" /\ Failure[step] = "failAll"
    BY DEF Failure, StartupSteps
  <2> QED
    BY <1>2, <2>1 DEF FailToStart, Goto, StartInv, ListenerInv
<1>3. ASSUME NEW closure \in Closures, Release(closure) PROVE ListenerInv'
  <2>1. \/ closure = "failAll" /\ Closes[closure] = "connection" /\ ClosureAfter[closure] = "failBoth"
        \/ closure = "failBoth" /\ Closes[closure] = "httpListener" /\ ClosureAfter[closure] = "fail"
        \/ closure = "fail" /\ Closes[closure] = "grpcListener" /\ ClosureAfter[closure] = "abandoned"
    BY DEF Closes, ClosureAfter
  <2> QED
    BY <1>3, <2>1 DEF Release, Goto, StartInv, ListenerInv
<1>4. CASE GiveUp
  <2>1. opened = {}
    BY <1>4 DEF GiveUp, Goto, TypeOK, ConnectionInv, ListenerInv
  <2> QED
    BY <1>4, <2>1 DEF GiveUp, Goto, StartInv, ListenerInv
<1>5. CASE SpawnServers
  BY <1>5 DEF SpawnServers, Goto, StartInv, ListenerInv
<1>6. CASE OpenAdmission \/ TakeSignal \/ TakeError \/ CloseAdmission
  BY <1>6 DEF OpenAdmission, TakeSignal, TakeError, CloseAdmission, Goto, ListenerInv
<1>7. CASE SpawnStoppers
  BY <1>7 DEF SpawnStoppers, Goto, ListenerInv
<1>8. CASE GRPCDrainedInTime \/ AwaitGRPC \/ AwaitHTTP
  BY <1>8 DEF GRPCDrainedInTime, AwaitGRPC, AwaitHTTP, Goto, ListenerInv
<1>9. CASE StopGRPC
  BY <1>9 DEF StopGRPC, Goto, ListenerInv
<1>10. CASE Disconnect
  <2>1. grpcServe \notin {"unstarted", "serving"} /\ httpServe # "serving"
    BY <1>10 DEF Disconnect, Goto, StartInv, DrainInv, HTTPInv, ListenerInv
  <2> QED
    BY <1>10, <2>1 DEF Disconnect, Goto, ListenerInv
<1>11. CASE ServeGRPC \/ ServeGRPCTooLate \/ GRPCServeFails
  <2>1. main \notin StartingStates \cup FailingStates
    BY <1>11 DEF ServeGRPC, ServeGRPCTooLate, GRPCServeFails, StartInv
  <2> QED
    BY <1>11, <2>1 DEF ServeGRPC, ServeGRPCTooLate, GRPCServeFails, ListenerInv
<1>12. CASE BeginGraceful
  <2>1. main \notin StartingStates \cup FailingStates
    BY <1>12 DEF BeginGraceful, StartInv
  <2> QED
    BY <1>12, <2>1 DEF BeginGraceful, ListenerInv
<1>13. CASE ConnectionsGone \/ HandlersGone
  BY <1>13 DEF ConnectionsGone, HandlersGone, ListenerInv
<1>14. CASE ServeHTTP \/ HTTPServeFails
  <2>1. main \notin StartingStates \cup FailingStates
    BY <1>14 DEF ServeHTTP, HTTPServeFails, StartInv
  <2> QED
    BY <1>14, <2>1 DEF ServeHTTP, HTTPServeFails, ListenerInv
<1>15. CASE BeginHTTPStop
  <2>1. main \notin StartingStates \cup FailingStates \/ httpServe # "serving"
    BY DEF StartInv
  <2> QED
    BY <1>15, <2>1 DEF BeginHTTPStop, ListenerInv
<1>16. CASE EndHTTPStop
  BY <1>16 DEF EndHTTPStop, ListenerInv
<1>17. ASSUME UNCHANGED <<main, opened, grpcServe, httpServe, quit, graceful, httpStop>>
       PROVE  ListenerInv'
  BY <1>17 DEF ListenerInv
<1>18. CASE Connect \/ Signal \/ Expire
  BY <1>17, <1>18 DEF Connect, Signal, Expire
<1>19. ASSUME NEW c \in Calls, Arrive(c) \/ Admit(c) \/ Finish(c) PROVE ListenerInv'
  BY <1>17, <1>19 DEF Arrive, Admit, Finish
<1>20. ASSUME NEW r \in HTTPRequests, Request(r) \/ Respond(r) PROVE ListenerInv'
  BY <1>17, <1>20 DEF Request, Respond
<1> QED
  BY <1>1, <1>2, <1>3, <1>4, <1>5, <1>6, <1>7, <1>8, <1>9, <1>10, <1>11, <1>12, <1>13, <1>14,
     <1>15, <1>16, <1>18, <1>19, <1>20
     DEF Main, GRPC, HTTP

LEMMA NextPreserves ==
  ASSUME IInv, main # "exited", Main \/ GRPC \/ HTTP \/ Signal \/ Expire
  PROVE  IInv'
BY NextPreservesCore, NextKeepsListeners DEF IInv

LEMMA StutterPreserves == IInv /\ UNCHANGED vars => IInv'
<1> SUFFICES ASSUME IInv, UNCHANGED vars PROVE IInv'
  OBVIOUS
<1>1. TypeOK'
  BY DEF vars, IInv, CoreInv, TypeOK
<1>2. StartInv' /\ ErrorsInv' /\ AdmissionInv' /\ ConnectionInv'
  BY DEF vars, IInv, CoreInv, StartInv, ErrorsInv, AdmissionInv, ConnectionInv
<1>3. DrainInv' /\ AbortInv' /\ HTTPInv' /\ ExitInv'
  BY DEF vars, IInv, CoreInv, DrainInv, AbortInv, HTTPInv, ExitInv
<1>4. ListenerInv'
  BY DEF vars, IInv, ListenerInv
<1> QED
  BY <1>1, <1>2, <1>3, <1>4 DEF IInv, CoreInv

(* IInv is an inductive invariant of the process.                          *)
THEOREM IInvHolds == Spec => []IInv
<1>1. IInv /\ [Next]_vars => IInv'
  BY NextPreserves, StutterPreserves DEF Next
<1> QED
  BY <1>1, InitHolds, PTL DEF Spec

(* Types, and with them: no send on App.errors ever blocks.                *)
THEOREM TypeCorrect == Spec => []TypeOK
<1>1. IInv => TypeOK
  BY DEF IInv, CoreInv
<1> QED
  BY <1>1, IInvHolds, PTL

(* The Market Data connection is open while any analysis is at work.       *)
THEOREM ConnectionIsKept == Spec => []ConnectionOutlivesCalls
<1>1. IInv => ConnectionOutlivesCalls
  <2> SUFFICES ASSUME IInv, NEW c \in Calls, call[c] = "working"
               PROVE  "connection" \in opened
    BY DEF ConnectionOutlivesCalls
  <2>1. Active # {} /\ call[c] # "none"
    OBVIOUS
  <2>2. main \notin StartingStates \cup FailingStates \cup {"exited"}
    BY <2>1 DEF IInv, CoreInv, StartInv, DrainInv
  <2> QED
    BY <2>2 DEF IInv, CoreInv, TypeOK, ConnectionInv
<1> QED
  BY <1>1, IInvHolds, PTL

(* Success is reported only to a signal, and only when nothing was cut off *)
(* or left running.                                                        *)
THEOREM SuccessIsClean == Spec => []SuccessLosesNothing
<1>1. IInv => SuccessLosesNothing
  BY DEF IInv, CoreInv, ExitInv, AbortInv, SuccessLosesNothing
<1> QED
  BY <1>1, IInvHolds, PTL

(* Whichever step of New fails, its closures close exactly what is open;   *)
(* and after a shutdown no server still accepts and no connection is left. *)
THEOREM ExitIsClean == Spec => []ExitReleasesResources
<1>1. ASSUME IInv, main \in Closures PROVE Closes[main] \in opened
  <2>1. \/ main = "failAll" /\ Closes[main] = "connection"
        \/ main = "failBoth" /\ Closes[main] = "httpListener"
        \/ main = "fail" /\ Closes[main] = "grpcListener"
    BY <1>1 DEF Closes
  <2> QED
    BY <1>1, <2>1 DEF IInv, CoreInv, ConnectionInv, ListenerInv
<1>2. ASSUME IInv, main = "exited"
      PROVE  /\ "connection" \notin opened
             /\ "grpcListener" \in opened => grpcServe = "spawned"
             /\ "httpListener" \in opened => httpServe = "spawned"
  <2>1. "connection" \notin opened
    BY <1>2 DEF IInv, CoreInv, ConnectionInv
  <2>2. grpcServe = "unstarted" => opened = {}
    BY <1>2 DEF IInv, ListenerInv
  <2>3. /\ "grpcListener" \in opened => grpcServe \notin {"returned", "serving"}
        /\ "httpListener" \in opened => httpServe \notin {"returned", "serving"}
    BY <1>2 DEF IInv, ListenerInv
  <2>4. grpcServe = "unstarted" <=> httpServe = "unstarted"
    BY <1>2 DEF IInv, CoreInv, StartInv
  <2> QED
    BY <1>2, <2>1, <2>2, <2>3, <2>4 DEF IInv, CoreInv, TypeOK
<1>3. IInv => ExitReleasesResources
  BY <1>1, <1>2 DEF ExitReleasesResources
<1> QED
  BY <1>3, IInvHolds, PTL
-----------------------------------------------------------------------------
(***************************************************************************)
(* The refinement.  phaseBar and workBar are what Contract substitutes.    *)
(***************************************************************************)
phaseBar ==
  IF main = "exited" THEN "closed"
  ELSE IF accepting THEN "open"
  ELSE IF main \in {"spawn", "select", "awaitGRPC", "awaitHTTP", "disconnect"} THEN "draining"
  ELSE "down"

workBar == [c \in Calls |-> IF call[c] \in {"none", "started"} THEN "waiting" ELSE call[c]]

LEMMA InitRefines == Init => Contract!Init
BY DEF Init, Contract!Init

(* A step that leaves phase, deadline and calls alone is a stutter.        *)
LEMMA StutterRefines ==
  ASSUME phaseBar' = phaseBar, expired' = expired, call' = call
  PROVE  UNCHANGED Contract!vars
BY DEF Contract!vars, phaseBar

(* Where the main goroutine is fixes the phase.                            *)
LEMMA Phases ==
  ASSUME IInv
  PROVE  /\ main \in StartingStates \cup FailingStates \cup {"open"} => phaseBar = "down"
         /\ main \in {"wait", "close"} => phaseBar = "open"
         /\ main \in DrainingStates => phaseBar = "draining"
         /\ main = "exited" => phaseBar = "closed"
BY DEF IInv, CoreInv, AdmissionInv, phaseBar

LEMMA StepRefines ==
  ASSUME IInv, IInv', main # "exited", Main \/ GRPC \/ HTTP \/ Signal \/ Expire
  PROVE  [Contract!Next]_(Contract!vars)
<1>1. CASE \/ \E step \in StartupSteps : Acquire(step) \/ FailToStart(step)
           \/ \E closure \in Closures : Release(closure)
           \/ SpawnServers \/ TakeSignal \/ TakeError \/ SpawnStoppers
           \/ GRPCDrainedInTime \/ StopGRPC \/ AwaitGRPC \/ AwaitHTTP
  <2>1. /\ expired' = expired /\ call' = call
        /\ \/ /\ main \in StartingStates \cup FailingStates
              /\ main' \in StartingStates \cup FailingStates \cup {"open"}
           \/ main = "wait" /\ main' = "close"
           \/ main \in DrainingStates /\ main' \in DrainingStates
    <3>1. ASSUME NEW step \in StartupSteps, Acquire(step)
          PROVE  /\ expired' = expired /\ call' = call
                 /\ main \in StartingStates /\ main' \in StartingStates
      BY <3>1 DEF Acquire, Goto, StepAfter, StartupSteps
    <3>4. ASSUME NEW step \in StartupSteps, FailToStart(step)
          PROVE  /\ expired' = expired /\ call' = call
                 /\ main \in StartingStates /\ main' \in FailingStates
      BY <3>4 DEF FailToStart, Goto, Failure, StartupSteps
    <3>5. ASSUME NEW closure \in Closures, Release(closure)
          PROVE  /\ expired' = expired /\ call' = call
                 /\ main \in FailingStates /\ main' \in FailingStates
      BY <3>5 DEF Release, Goto, ClosureAfter
    <3>2. CASE SpawnServers \/ TakeSignal \/ TakeError \/ SpawnStoppers
      BY <3>2 DEF SpawnServers, TakeSignal, TakeError, SpawnStoppers, Goto
    <3>3. CASE GRPCDrainedInTime \/ StopGRPC \/ AwaitGRPC \/ AwaitHTTP
      BY <3>3 DEF GRPCDrainedInTime, StopGRPC, AwaitGRPC, AwaitHTTP, Goto
    <3> QED
      BY <1>1, <3>1, <3>2, <3>3, <3>4, <3>5
  <2>2. phaseBar' = phaseBar
    BY <2>1 DEF IInv, CoreInv, AdmissionInv, phaseBar
  <2> QED
    BY <2>1, <2>2, StutterRefines
<1>2. ASSUME GiveUp PROVE Contract!Abandon
  <2>1. main = "abandoned" /\ main' = "exited" /\ expired' = expired /\ call' = call
    BY <1>2 DEF GiveUp, Goto
  <2>2. phaseBar = "down"
    BY <2>1, Phases
  <2>3. phaseBar' = "closed"
    BY <2>1 DEF phaseBar
  <2> QED
    BY <2>1, <2>2, <2>3 DEF Contract!Abandon, phaseBar
<1>3. ASSUME OpenAdmission PROVE Contract!Open
  <2>1. main = "open" /\ main' = "wait" /\ expired' = expired /\ call' = call
    BY <1>3 DEF OpenAdmission, Goto
  <2>2. phaseBar = "down"
    BY <2>1, Phases
  <2>3. phaseBar' = "open"
    BY <2>1 DEF IInv, CoreInv, AdmissionInv, phaseBar
  <2> QED
    BY <2>1, <2>2, <2>3 DEF Contract!Open, phaseBar
<1>4. ASSUME CloseAdmission PROVE Contract!Drain
  <2>1. main = "close" /\ main' = "spawn" /\ expired' = expired /\ call' = call
    BY <1>4 DEF CloseAdmission, Goto
  <2>2. phaseBar = "open"
    BY <2>1, Phases
  <2>3. phaseBar' = "draining"
    BY <2>1 DEF IInv, CoreInv, AdmissionInv, phaseBar
  <2> QED
    BY <2>1, <2>2, <2>3 DEF Contract!Drain, phaseBar
<1>5. ASSUME Disconnect PROVE Contract!Close
  <2>1. main = "disconnect" /\ main' = "exited" /\ expired' = expired /\ call' = call
    BY <1>5 DEF Disconnect, Goto
  <2>2. \A c \in Calls : call[c] # "working"
    BY <2>1 DEF IInv, CoreInv, DrainInv
  <2>3. phaseBar = "draining"
    BY <2>1, Phases
  <2>4. phaseBar' = "closed"
    BY <2>1 DEF phaseBar
  <2> QED
    BY <2>1, <2>2, <2>3, <2>4 DEF Contract!Close, phaseBar
<1>6. ASSUME Expire PROVE Contract!Expire
  <2>1. /\ main \in {"close"} \cup DrainingStates
        /\ expired' = TRUE
        /\ UNCHANGED <<main, accepting, call>>
    BY <1>6 DEF Expire
  <2>2. phaseBar \in {"open", "draining"}
    BY <2>1, Phases
  <2> QED
    BY <2>1, <2>2 DEF Contract!Expire, phaseBar
<1>7. CASE \/ ServeGRPC \/ ServeGRPCTooLate \/ GRPCServeFails \/ Connect
           \/ BeginGraceful \/ ConnectionsGone \/ HandlersGone \/ HTTP \/ Signal
  <2>1. main' = main /\ accepting' = accepting /\ expired' = expired /\ call' = call
    <3>1. CASE ServeGRPC \/ ServeGRPCTooLate \/ GRPCServeFails \/ Connect \/ Signal
      BY <3>1 DEF ServeGRPC, ServeGRPCTooLate, GRPCServeFails, Connect, Signal
    <3>2. CASE BeginGraceful \/ ConnectionsGone \/ HandlersGone
      BY <3>2 DEF BeginGraceful, ConnectionsGone, HandlersGone
    <3>3. CASE HTTP
      BY <3>3 DEF HTTP, ServeHTTP, HTTPServeFails, BeginHTTPStop, EndHTTPStop, Request, Respond
    <3> QED
      BY <1>7, <3>1, <3>2, <3>3
  <2> QED
    BY <2>1, StutterRefines DEF phaseBar
<1>8. ASSUME NEW c \in Calls, Arrive(c) PROVE UNCHANGED Contract!vars
  <2>1. UNCHANGED <<main, accepting, expired>>
    BY <1>8 DEF Arrive
  <2>2. workBar' = workBar
    BY <1>8 DEF Arrive, workBar, IInv, CoreInv, TypeOK
  <2> QED
    BY <2>1, <2>2 DEF Contract!vars, workBar
<1>9. ASSUME NEW c \in Calls, Admit(c) PROVE Contract!Accept(c) \/ Contract!Refuse(c)
  <2>1. UNCHANGED <<main, accepting, expired>> /\ workBar[c] = "waiting"
    BY <1>9 DEF Admit, workBar
  <2>2. workBar' = [workBar EXCEPT ![c] = IF accepting THEN "working" ELSE "refused"]
    BY <1>9 DEF Admit, workBar, IInv, CoreInv, TypeOK
  <2>3. phaseBar = IF accepting THEN "open" ELSE phaseBar
    BY DEF phaseBar, IInv, CoreInv, AdmissionInv
  <2>4. ~accepting => phaseBar \in {"down", "draining"}
    BY DEF phaseBar
  <2> QED
    BY <2>1, <2>2, <2>3, <2>4
       DEF Contract!Accept, Contract!Refuse, Contract!Settle, phaseBar, workBar
<1>10. ASSUME NEW c \in Calls, Finish(c) PROVE Contract!Answer(c) \/ Contract!Abort(c)
  <2>1. UNCHANGED <<main, accepting, expired>> /\ workBar[c] = "working"
    BY <1>10 DEF Finish, workBar
  <2>2. workBar' = [workBar EXCEPT ![c] = IF conns = "closed" THEN "aborted" ELSE "answered"]
    BY <1>10 DEF Finish, workBar, IInv, CoreInv, TypeOK
  <2>3. Active # {} /\ call[c] # "none"
    BY <1>10 DEF Finish
  <2>4. conns = "closed" => main = "awaitGRPC" /\ expired
    BY <2>3 DEF IInv, CoreInv, DrainInv
  <2>5. phaseBar \in {"open", "draining"}
    <3>1. main \notin StartingStates \cup FailingStates \cup {"open", "exited"}
      BY <1>10, <2>3 DEF Finish, IInv, CoreInv, StartInv
    <3>2. main \in {"wait", "close"} \cup DrainingStates
      BY <3>1 DEF IInv, CoreInv, TypeOK
    <3> QED
      BY <3>2, Phases
  <2> QED
    BY <2>1, <2>2, <2>4, <2>5
       DEF Contract!Answer, Contract!Abort, Contract!Settle, phaseBar, workBar, IInv, CoreInv, AdmissionInv
<1> QED
  BY <1>1, <1>2, <1>3, <1>4, <1>5, <1>6, <1>7, <1>8, <1>9, <1>10
     DEF Main, GRPC, Contract!Next

(* Startup, admission and shutdown implement ServiceContract.              *)
THEOREM Refinement == Spec => KeepsContract
<1>1. IInv /\ IInv' /\ [Next]_vars => [Contract!Next]_(Contract!vars)
  <2>1. CASE UNCHANGED vars
    BY <2>1 DEF vars, Contract!vars
  <2>2. CASE IInv /\ IInv' /\ Next
    BY <2>2, StepRefines DEF Next
  <2> QED
    BY <2>1, <2>2
<1> QED
  BY <1>1, InitRefines, IInvHolds, PTL DEF Spec, KeepsContract, Contract!Spec
=============================================================================
