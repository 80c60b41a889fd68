------------------------------ MODULE Inspector ------------------------------
(***************************************************************************)
(* The process of a local inspector from Ctrl+C to its exit                *)
(* (src/inspector/command.go: run), with the echo agents it started.       *)
(* http.Server.Shutdown runs the registered handler.Close in a goroutine   *)
(* of its own; run defers another one.  Once run returns, the process      *)
(* exits and its goroutines with it, but not the child processes.          *)
(***************************************************************************)
EXTENDS EchoRunner

CONSTANTS Hook,       \* the goroutine of srv.RegisterOnShutdown
          Deferred    \* the deferred handler.Close

ASSUME TwoClosers == Closers = {Hook, Deferred} /\ Hook # Deferred

VARIABLE main   \* where run is

vars == <<echoVars, main>>

InspectorTypeOK ==
  /\ EchoTypeOK
  /\ main \in {"serving", "shutdown", "returning", "failed", "exited"}

InspectorInit == EchoInit /\ main = "serving"

(* ctx.Done(): Shutdown closes the listener.                               *)
CtrlC ==
  /\ main = "serving"
  /\ main' = "shutdown"
  /\ UNCHANGED echoVars

(* Serve fails: run returns its error.                                     *)
ServeFails ==
  /\ main = "serving"
  /\ main' = "failed"
  /\ UNCHANGED echoVars

(* Shutdown returns as soon as no request is under way, after a second at  *)
(* the latest; the Close that follows then does not wait for the requests. *)
ShutdownReturns ==
  /\ main = "shutdown"
  /\ main' = "returning"
  /\ UNCHANGED echoVars

(* Shutdown starts the hook, which goes on while Shutdown and run return.  *)
HookCloses ==
  /\ main \in {"shutdown", "returning"}
  /\ CloseBegins(Hook)
  /\ UNCHANGED main

DeferredCloses ==
  /\ main \in {"returning", "failed"}
  /\ CloseBegins(Deferred)
  /\ UNCHANGED main

Exit ==
  /\ main \in {"returning", "failed"} /\ pc[Deferred] = "closed"
  /\ main' = "exited"
  /\ UNCHANGED echoVars

(* A request's first step, while the server takes requests or waits for    *)
(* those it took.                                                          *)
Request ==
  /\ main \in {"serving", "shutdown"}
  /\ \/ \E c \in Starts : Reserve(c)
     \/ \E s \in Stops, i \in Ids : Stop(s, i)
  /\ UNCHANGED main

(* The goroutines go on until the process exits.                           *)
Goes(step) == main # "exited" /\ step /\ UNCHANGED main

StartGoesOn(c) ==
  \/ Launch(c) \/ LaunchFails(c) \/ Served(c) \/ AwaitFails(c) \/ Retry(c)
  \/ StartFails(c) \/ StartReturns(c) \/ StartDiscards(c) \/ StartIsClosed(c)

ProcessExits == (\E i \in Ids : Exits(i)) /\ UNCHANGED main

InspectorNext ==
  \/ CtrlC \/ ServeFails \/ ShutdownReturns \/ HookCloses \/ DeferredCloses
  \/ Exit \/ Request \/ ProcessExits
  \/ \E c \in Starts : Goes(StartGoesOn(c))
  \/ \E k \in Closers : Goes(CloseKills(k) \/ CloseReturns(k))
  \/ \E g \in Goroutines : Goes(Killing(g))

InspectorSpec == InspectorInit /\ [][InspectorNext]_vars

(* The main goroutine runs.                                                *)
InspectorFairSpec ==
  /\ InspectorSpec
  /\ WF_vars(ShutdownReturns) /\ WF_vars(DeferredCloses) /\ WF_vars(Exit)
  /\ WF_vars(Goes(Closing(Deferred)))
-----------------------------------------------------------------------------
(* Ctrl+C ends the inspector, even if an echo agent does not exit.         *)
InspectorExits == main = "shutdown" ~> main = "exited"

(* The echo agents that Start returned are stopped when the inspector      *)
(* exits (README.md:90: "it starts a2a-cli ... and stops it when you do or *)
(* when the inspector exits"), those of requests under way aside.          *)
NoOrphans ==
  main = "exited" =>
    \A i \in Ids : process[i] = "running" =>
      i \in signalled \/ \E c \in Starts : id[c] = i
=============================================================================
