----------------------------- MODULE EchoRunner -----------------------------
(***************************************************************************)
(* The echo agents that a local inspector runs for the user                *)
(* (src/internal/serve/serve.go): child processes, each started by a       *)
(* request that waits until it serves its card, stopped by another, or by  *)
(* Close as the inspector shuts down.  r.mu protects the list only: the    *)
(* processes start, exit and are killed without it.                        *)
(***************************************************************************)
EXTENDS Integers, FiniteSets

CONSTANTS Starts,      \* goroutines that call Start, one request at a time
          Stops,       \* goroutines that call Stop
          Closers,     \* goroutines that call Close, once each
          LastID,      \* bound: agents reserved in a behaviour
          MaxAgents,   \* maxAgents
          None         \* no agent

Ids == 1..LastID
Goroutines == Starts \cup Stops \cup Closers

ASSUME NoneIsNoAgent == None \notin Ids
ASSUME AgentsAreCounted == LastID \in Nat /\ MaxAgents \in Nat
ASSUME GoroutinesDiffer ==
  Starts \cap Stops = {} /\ Starts \cap Closers = {} /\ Stops \cap Closers = {}

VARIABLES
  closed,     \* r.closed
  next,       \* r.next
  slot,       \* what r.agents has: nothing, a placeholder or an agent
  process,    \* the process of each agent
  signalled,  \* the agents whose process was sent the kill signal
  pc,         \* where each call of Start, and of Close, is
  id,         \* the agent each Start is about
  attempt,    \* how often start tried another port
  victim,     \* the agent whose kill each goroutine is in
  sent,       \* the goroutines that sent its signal
  toKill      \* the agents each Close has yet to kill

echoVars == <<closed, next, slot, process, signalled, pc, id, attempt, victim,
              sent, toKill>>

Slots == {"none", "placeholder", "agent"}
StartSteps == {"idle", "launch", "await", "retry", "failing", "served",
               "failed", "discard"}
CloseSteps == {"idle", "closing", "closed"}

EchoTypeOK ==
  /\ closed \in BOOLEAN
  /\ next \in 0..LastID
  /\ slot \in [Ids -> Slots]
  /\ process \in [Ids -> {"none", "running", "exited"}]
  /\ signalled \subseteq Ids
  /\ pc \in [Starts \cup Closers -> StartSteps \cup CloseSteps]
  /\ \A c \in Starts : pc[c] \in StartSteps
  /\ \A k \in Closers : pc[k] \in CloseSteps
  /\ id \in [Starts -> Ids \cup {None}]
  /\ attempt \in [Starts -> 0..1]
  /\ victim \in [Goroutines -> Ids \cup {None}]
  /\ sent \subseteq Goroutines
  /\ toKill \in [Closers -> SUBSET Ids]

EchoInit ==
  /\ closed = FALSE
  /\ next = 0
  /\ slot = [i \in Ids |-> "none"]
  /\ process = [i \in Ids |-> "none"]
  /\ signalled = {}
  /\ pc = [c \in Starts \cup Closers |-> "idle"]
  /\ id = [c \in Starts |-> None]
  /\ attempt = [c \in Starts |-> 0]
  /\ victim = [g \in Goroutines |-> None]
  /\ sent = {}
  /\ toKill = [k \in Closers |-> {}]

Goto(c, label) == pc' = [pc EXCEPT ![c] = label]

-----------------------------------------------------------------------------
(* Mutant: reserve counts the agents that serve their card, no starting    *)
(* ones.                                                                   *)
CountedServing == {i \in Ids : slot[i] = "agent" /\ process[i] # "exited"}

(* What reserve counts: a placeholder never exits, whatever its process.   *)
Counted == {i \in Ids : \/ slot[i] = "placeholder"
                        \/ slot[i] = "agent" /\ process[i] # "exited"}

(* reserve.  It fails, and changes nothing, once the runner is closed or   *)
(* as many agents run as may.                                              *)
Reserve(c) ==
  /\ pc[c] = "idle"
  /\ ~closed
  /\ Cardinality(Counted) < MaxAgents
  /\ next + 1 \in Ids
  /\ next' = next + 1
  /\ slot' = [slot EXCEPT ![next + 1] = "placeholder"]
  /\ id' = [id EXCEPT ![c] = next + 1]
  /\ attempt' = [attempt EXCEPT ![c] = 0]
  /\ Goto(c, "launch")
  /\ UNCHANGED <<closed, process, signalled, victim, sent, toKill>>

(* launch, up to cmd.Start.                                                *)
Launch(c) ==
  /\ pc[c] = "launch"
  /\ process' = [process EXCEPT ![id[c]] = "running"]
  /\ Goto(c, "await")
  /\ UNCHANGED <<closed, next, slot, signalled, id, attempt, victim, sent,
                 toKill>>

(* launch: no free port, no card file or no process.                       *)
LaunchFails(c) ==
  /\ pc[c] = "launch"
  /\ Goto(c, "failed")
  /\ UNCHANGED <<closed, next, slot, process, signalled, id, attempt, victim,
                 sent, toKill>>

(* awaitCard gets the card.                                                *)
Served(c) ==
  /\ pc[c] = "await"
  /\ process[id[c]] = "running"
  /\ Goto(c, "served")
  /\ UNCHANGED <<closed, next, slot, process, signalled, id, attempt, victim,
                 sent, toKill>>

(* Mutant: start tries ports until one is free.                            *)
AwaitFailsAgain(c) ==
  /\ pc[c] = "await"
  /\ victim' = [victim EXCEPT ![c] = id[c]]
  /\ \/ Goto(c, "failing")
     \/ process[id[c]] = "exited" /\ Goto(c, "retry")
  /\ UNCHANGED <<closed, next, slot, process, signalled, id, attempt, sent,
                 toKill>>

(* awaitCard fails, and launch kills: the process exited, maybe because    *)
(* the port was taken, it takes too long or the request ended.             *)
AwaitFails(c) ==
  /\ pc[c] = "await"
  /\ victim' = [victim EXCEPT ![c] = id[c]]
  /\ \/ Goto(c, "failing")
     \/ process[id[c]] = "exited" /\ attempt[c] = 0 /\ Goto(c, "retry")
  /\ UNCHANGED <<closed, next, slot, process, signalled, id, attempt, sent,
                 toKill>>

(* start tries another port once, for a process of its own.                *)
Retry(c) ==
  /\ pc[c] = "retry" /\ victim[c] = None
  /\ attempt' = [attempt EXCEPT ![c] = @ + 1]
  /\ process' = [process EXCEPT ![id[c]] = "none"]
  /\ signalled' = signalled \ {id[c]}
  /\ Goto(c, "launch")
  /\ UNCHANGED <<closed, next, slot, id, victim, sent, toKill>>

(* Mutant: a failed start leaves its placeholder.                          *)
StartFailsReserved(c) ==
  /\ pc[c] \in {"failed", "failing"} /\ victim[c] = None
  /\ slot' = slot
  /\ id' = [id EXCEPT ![c] = None]
  /\ Goto(c, "idle")
  /\ UNCHANGED <<closed, next, process, signalled, attempt, victim, sent,
                 toKill>>

(* Start gives up the slot, if Close did not drop it.                      *)
StartFails(c) ==
  /\ pc[c] \in {"failed", "failing"} /\ victim[c] = None
  /\ slot' = [slot EXCEPT ![id[c]] = "none"]
  /\ id' = [id EXCEPT ![c] = None]
  /\ Goto(c, "idle")
  /\ UNCHANGED <<closed, next, process, signalled, attempt, victim, sent,
                 toKill>>

(* Start puts the agent in the place of its placeholder.                   *)
StartReturns(c) ==
  /\ pc[c] = "served" /\ slot[id[c]] = "placeholder"
  /\ slot' = [slot EXCEPT ![id[c]] = "agent"]
  /\ id' = [id EXCEPT ![c] = None]
  /\ Goto(c, "idle")
  /\ UNCHANGED <<closed, next, process, signalled, attempt, victim, sent,
                 toKill>>

(* Mutant: Start forgets the process when Close dropped the placeholder.   *)
StartForgets(c) ==
  /\ pc[c] = "served" /\ slot[id[c]] = "none"
  /\ id' = [id EXCEPT ![c] = None]
  /\ Goto(c, "idle")
  /\ UNCHANGED <<closed, next, slot, process, signalled, attempt, victim,
                 sent, toKill>>

(* Close dropped the placeholder: Start kills the process.                 *)
StartDiscards(c) ==
  /\ pc[c] = "served" /\ slot[id[c]] = "none"
  /\ victim' = [victim EXCEPT ![c] = id[c]]
  /\ Goto(c, "discard")
  /\ UNCHANGED <<closed, next, slot, process, signalled, id, attempt, sent,
                 toKill>>

StartIsClosed(c) ==
  /\ pc[c] = "discard" /\ victim[c] = None
  /\ id' = [id EXCEPT ![c] = None]
  /\ Goto(c, "idle")
  /\ UNCHANGED <<closed, next, slot, process, signalled, attempt, victim,
                 sent, toKill>>

(* Stop forgets an agent, which placeholders are not, and kills it then.   *)
Stop(s, i) ==
  /\ victim[s] = None
  /\ slot[i] = "agent"
  /\ slot' = [slot EXCEPT ![i] = "none"]
  /\ victim' = [victim EXCEPT ![s] = i]
  /\ UNCHANGED <<closed, next, process, signalled, pc, id, attempt, sent,
                 toKill>>

(* Close takes the list, and then kills the agents in their order.         *)
CloseBegins(k) ==
  /\ pc[k] = "idle"
  /\ closed' = TRUE
  /\ toKill' = [toKill EXCEPT ![k] = {i \in Ids : slot[i] = "agent"}]
  /\ slot' = [i \in Ids |-> "none"]
  /\ Goto(k, "closing")
  /\ UNCHANGED <<next, process, signalled, id, attempt, victim, sent>>

CloseKills(k) ==
  /\ pc[k] = "closing" /\ victim[k] = None
  /\ \E i \in toKill[k] :
       /\ \A j \in toKill[k] : i <= j
       /\ toKill' = [toKill EXCEPT ![k] = @ \ {i}]
       /\ victim' = [victim EXCEPT ![k] = i]
  /\ UNCHANGED <<closed, next, slot, process, signalled, pc, id, attempt, sent>>

CloseReturns(k) ==
  /\ pc[k] = "closing" /\ victim[k] = None /\ toKill[k] = {}
  /\ Goto(k, "closed")
  /\ UNCHANGED <<closed, next, slot, process, signalled, id, attempt, victim,
                 sent, toKill>>

(* kill signals the process.                                               *)
Signals(g) ==
  /\ victim[g] # None /\ g \notin sent
  /\ sent' = sent \cup {g}
  /\ signalled' = signalled \cup {victim[g]}
  /\ UNCHANGED <<closed, next, slot, process, pc, id, attempt, victim, toKill>>

(* Mutant: kill waits for the process as long as it takes.                 *)
KilledExits(g) ==
  /\ g \in sent
  /\ process[victim[g]] = "exited"
  /\ sent' = sent \ {g}
  /\ victim' = [victim EXCEPT ![g] = None]
  /\ UNCHANGED <<closed, next, slot, process, signalled, pc, id, attempt,
                 toKill>>

(* kill returns once the process exited, or after stopTimeout.             *)
Killed(g) ==
  /\ g \in sent
  /\ sent' = sent \ {g}
  /\ victim' = [victim EXCEPT ![g] = None]
  /\ UNCHANGED <<closed, next, slot, process, signalled, pc, id, attempt,
                 toKill>>

(* A process exits by itself, or because it was killed.                    *)
Exits(i) ==
  /\ process[i] = "running"
  /\ process' = [process EXCEPT ![i] = "exited"]
  /\ UNCHANGED <<closed, next, slot, signalled, pc, id, attempt, victim, sent,
                 toKill>>

-----------------------------------------------------------------------------
Starting(c) ==
  \/ Reserve(c) \/ Launch(c) \/ LaunchFails(c) \/ Served(c) \/ AwaitFails(c)
  \/ Retry(c) \/ StartFails(c) \/ StartReturns(c) \/ StartDiscards(c)
  \/ StartIsClosed(c)

Killing(g) == Signals(g) \/ Killed(g)

Closing(k) == CloseKills(k) \/ CloseReturns(k) \/ Killing(k)

EchoNext ==
  \/ \E c \in Starts : Starting(c)
  \/ \E s \in Stops, i \in Ids : Stop(s, i)
  \/ \E k \in Closers : CloseBegins(k) \/ CloseKills(k) \/ CloseReturns(k)
  \/ \E g \in Goroutines : Killing(g)
  \/ \E i \in Ids : Exits(i)

EchoSpec == EchoInit /\ [][EchoNext]_echoVars
-----------------------------------------------------------------------------
(* Somebody is about to kill the process of the agent i.                   *)
Doomed(i) == \/ \E g \in Goroutines : victim[g] = i
             \/ \E k \in Closers : i \in toKill[k]

(* The process of i runs and nobody decided to end it.                     *)
Alive(i) == process[i] = "running" /\ i \notin signalled /\ ~Doomed(i)

(* No process is forgotten: one that runs is an agent of the list, which   *)
(* Stop and Close find, or a Start still waits for it and keeps it or      *)
(* kills it, whatever Close and Stop did meanwhile.                        *)
NoProcessForgotten ==
  \A i \in Ids : Alive(i) => slot[i] = "agent" \/ \E c \in Starts : id[c] = i

(* Not more than maxAgents echo agents run (serve.go:52), those being      *)
(* killed aside, although Start counts them long before they run.          *)
AtMostMaxAgents == Cardinality({i \in Ids : Alive(i)}) <= MaxAgents

(* A placeholder keeps its slot only as long as its Start goes on: no      *)
(* failure uses up a slot for good.                                        *)
SlotsAreFreed ==
  \A i \in Ids : slot[i] = "placeholder" => \E c \in Starts : id[c] = i
=============================================================================
