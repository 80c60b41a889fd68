-------------------------- MODULE InspectorProofs --------------------------
(***************************************************************************)
(* Proofs about the echo agents (EchoRunner) and the inspector that runs   *)
(* them (Inspector), for any numbers of requests and agents.               *)
(*                                                                         *)
(* The safety properties follow from one inductive invariant, EchoInv.     *)
(* Its point is who may touch an agent: the Start that reserved it, until  *)
(* it is on the list, and then the one Stop or Close that took it from     *)
(* there.  So no kill of another goroutine meets the process of a retry.   *)
(***************************************************************************)
EXTENDS Inspector, FiniteSetTheorems, TLAPS

(* A Start is about an agent of its own, from reserve until it returns.    *)
OwnAgents ==
  /\ \A c \in Starts : id[c] = None <=> pc[c] = "idle"
  /\ \A c, d \in Starts : id[c] # None /\ id[c] = id[d] => c = d

(* The slots of these agents: Close, and nobody else, drops placeholders.  *)
Slotted ==
  /\ \A c \in Starts : pc[c] = "discard" => slot[id[c]] = "none"
  /\ \A c \in Starts : id[c] # None => slot[id[c]] # "agent"
  /\ \A c \in Starts : id[c] # None /\ ~closed => slot[id[c]] = "placeholder"

(* The agents so far have the IDs up to next.                              *)
Numbered ==
  /\ \A i \in Ids : i > next => slot[i] = "none" /\ process[i] = "none"
  /\ \A c \in Starts : id[c] # None => id[c] <= next
  /\ \A g \in Goroutines : victim[g] # None => victim[g] <= next
  /\ \A k \in Closers : \A i \in toKill[k] : i <= next

(* A Start kills its own agent only, and the others none that a Start has. *)
KillsApart ==
  /\ \A c \in Starts : victim[c] # None =>
       victim[c] = id[c] /\ pc[c] \in {"failing", "retry", "discard"}
  /\ \A g \in Stops \cup Closers : victim[g] # None =>
       \A c \in Starts : id[c] # victim[g]
  /\ \A k \in Closers : \A c \in Starts : id[c] \notin toKill[k]
  /\ \A k \in Closers : pc[k] = "idle" => toKill[k] = {}
  /\ \A g \in sent : victim[g] # None /\ victim[g] \in signalled

(* What a Start leaves behind does not run, or was killed.                 *)
Ended ==
  /\ \A c \in Starts :
       pc[c] \in {"launch", "failed"} => process[id[c]] # "running"
  /\ \A c \in Starts : pc[c] \in {"failing", "discard"} /\ victim[c] = None =>
       process[id[c]] # "running" \/ id[c] \in signalled
  /\ \A c \in Starts : pc[c] = "retry" => attempt[c] = 0

(* The agents that count or that a Start has: only reserve adds one.       *)
Held == {i \in Ids : \/ slot[i] = "agent" /\ process[i] # "exited"
                     \/ \E c \in Starts : id[c] = i}

EchoInv ==
  /\ EchoTypeOK /\ OwnAgents /\ Slotted /\ Numbered /\ KillsApart /\ Ended
  /\ NoProcessForgotten /\ SlotsAreFreed
  /\ Cardinality(Held) <= MaxAgents

(* The agents of a behaviour are finitely many.                            *)
LEMMA FiniteAgents == IsFiniteSet(Ids)
BY FS_Interval, AgentsAreCounted DEF Ids

(* Steps keep the types.  That a retry comes once needs Ended.             *)
LEMMA TypeStep ==
  ASSUME EchoTypeOK, Ended, EchoNext
  PROVE  EchoTypeOK'
<1>1. ASSUME NEW c \in Starts, Reserve(c) PROVE EchoTypeOK'
  BY <1>1, GoroutinesDiffer
  DEF Reserve, Goto, Ids, EchoTypeOK, Slots, StartSteps
<1>2. ASSUME NEW c \in Starts, Launch(c) PROVE EchoTypeOK'
  BY <1>2, GoroutinesDiffer DEF Launch, Goto, EchoTypeOK, StartSteps
<1>3. ASSUME NEW c \in Starts, LaunchFails(c) PROVE EchoTypeOK'
  BY <1>3, GoroutinesDiffer DEF LaunchFails, Goto, EchoTypeOK, StartSteps
<1>4. ASSUME NEW c \in Starts, Served(c) PROVE EchoTypeOK'
  BY <1>4, GoroutinesDiffer DEF Served, Goto, EchoTypeOK, StartSteps
<1>5. ASSUME NEW c \in Starts, AwaitFails(c) PROVE EchoTypeOK'
  BY <1>5, GoroutinesDiffer DEF AwaitFails, Goto, EchoTypeOK, StartSteps
<1>6. ASSUME NEW c \in Starts, Retry(c) PROVE EchoTypeOK'
  <2>1. attempt' \in [Starts -> 0..1]
    BY <1>6, SMTT(30) DEF Retry, EchoTypeOK, Ended
  <2>2. process' \in [Ids -> {"none", "running", "exited"}]
    BY <1>6 DEF Retry, EchoTypeOK
  <2>3. /\ pc' \in [Starts \cup Closers -> StartSteps \cup CloseSteps]
        /\ \A d \in Starts : pc'[d] \in StartSteps
        /\ \A k \in Closers : pc'[k] \in CloseSteps
    BY <1>6, GoroutinesDiffer
    DEF Retry, Goto, EchoTypeOK, StartSteps, CloseSteps
  <2> QED BY <1>6, <2>1, <2>2, <2>3 DEF Retry, EchoTypeOK
<1>7. ASSUME NEW c \in Starts, StartFails(c) PROVE EchoTypeOK'
  BY <1>7, GoroutinesDiffer
  DEF StartFails, Goto, EchoTypeOK, Slots, StartSteps
<1>8. ASSUME NEW c \in Starts, StartReturns(c) PROVE EchoTypeOK'
  BY <1>8, GoroutinesDiffer
  DEF StartReturns, Goto, EchoTypeOK, Slots, StartSteps
<1>9. ASSUME NEW c \in Starts, StartDiscards(c) PROVE EchoTypeOK'
  BY <1>9, GoroutinesDiffer DEF StartDiscards, Goto, EchoTypeOK, StartSteps
<1>10. ASSUME NEW c \in Starts, StartIsClosed(c) PROVE EchoTypeOK'
  BY <1>10, GoroutinesDiffer DEF StartIsClosed, Goto, EchoTypeOK, StartSteps
<1>11. ASSUME NEW s \in Stops, NEW i \in Ids, Stop(s, i) PROVE EchoTypeOK'
  BY <1>11 DEF Stop, EchoTypeOK, Slots
<1>12. ASSUME NEW k \in Closers, CloseBegins(k) PROVE EchoTypeOK'
  BY <1>12, GoroutinesDiffer
  DEF CloseBegins, Goto, EchoTypeOK, Slots, CloseSteps
<1>13. ASSUME NEW k \in Closers, CloseKills(k) PROVE EchoTypeOK'
  BY <1>13 DEF CloseKills, EchoTypeOK, Goroutines
<1>14. ASSUME NEW k \in Closers, CloseReturns(k) PROVE EchoTypeOK'
  BY <1>14, GoroutinesDiffer DEF CloseReturns, Goto, EchoTypeOK, CloseSteps
<1>15. ASSUME NEW g \in Goroutines, Signals(g) PROVE EchoTypeOK'
  BY <1>15 DEF Signals, EchoTypeOK
<1>16. ASSUME NEW g \in Goroutines, Killed(g) PROVE EchoTypeOK'
  BY <1>16 DEF Killed, EchoTypeOK
<1>17. ASSUME NEW i \in Ids, Exits(i) PROVE EchoTypeOK'
  BY <1>17 DEF Exits, EchoTypeOK
<1> QED BY <1>1, <1>2, <1>3, <1>4, <1>5, <1>6, <1>7, <1>8, <1>9, <1>10, <1>11,
    <1>12, <1>13, <1>14, <1>15, <1>16, <1>17
  DEF EchoNext, Starting, Killing

(* reserve gives out a new ID each time, so no two Starts share an agent.  *)
LEMMA OwnStep ==
  ASSUME EchoTypeOK, OwnAgents, Numbered, EchoNext
  PROVE  OwnAgents'
<1>1. ASSUME NEW c \in Starts, Reserve(c) PROVE OwnAgents'
  BY <1>1, NoneIsNoAgent DEF Reserve, Goto, EchoTypeOK, OwnAgents, Numbered
<1>2. ASSUME NEW c \in Starts, Launch(c) PROVE OwnAgents'
  BY <1>2 DEF Launch, Goto, OwnAgents
<1>3. ASSUME NEW c \in Starts, LaunchFails(c) PROVE OwnAgents'
  BY <1>3 DEF LaunchFails, Goto, OwnAgents
<1>4. ASSUME NEW c \in Starts, Served(c) PROVE OwnAgents'
  BY <1>4 DEF Served, Goto, OwnAgents
<1>5. ASSUME NEW c \in Starts, AwaitFails(c) PROVE OwnAgents'
  BY <1>5 DEF AwaitFails, Goto, EchoTypeOK, OwnAgents
<1>6. ASSUME NEW c \in Starts, Retry(c) PROVE OwnAgents'
  BY <1>6 DEF Retry, Goto, OwnAgents
<1>7. ASSUME NEW c \in Starts, StartFails(c) PROVE OwnAgents'
  BY <1>7 DEF StartFails, Goto, EchoTypeOK, OwnAgents
<1>8. ASSUME NEW c \in Starts, StartReturns(c) PROVE OwnAgents'
  BY <1>8 DEF StartReturns, Goto, EchoTypeOK, OwnAgents
<1>9. ASSUME NEW c \in Starts, StartDiscards(c) PROVE OwnAgents'
  BY <1>9 DEF StartDiscards, Goto, OwnAgents
<1>10. ASSUME NEW c \in Starts, StartIsClosed(c) PROVE OwnAgents'
  BY <1>10 DEF StartIsClosed, Goto, EchoTypeOK, OwnAgents
<1>11. ASSUME NEW s \in Stops, NEW i \in Ids, Stop(s, i) PROVE OwnAgents'
  BY <1>11 DEF Stop, OwnAgents
<1>12. ASSUME NEW k \in Closers, CloseBegins(k) PROVE OwnAgents'
  BY <1>12, GoroutinesDiffer DEF CloseBegins, Goto, OwnAgents
<1>13. ASSUME NEW k \in Closers, CloseKills(k) PROVE OwnAgents'
  BY <1>13 DEF CloseKills, OwnAgents
<1>14. ASSUME NEW k \in Closers, CloseReturns(k) PROVE OwnAgents'
  BY <1>14 DEF CloseReturns, Goto, OwnAgents
<1>15. ASSUME NEW g \in Goroutines, Signals(g) PROVE OwnAgents'
  BY <1>15 DEF Signals, OwnAgents
<1>16. ASSUME NEW g \in Goroutines, Killed(g) PROVE OwnAgents'
  BY <1>16 DEF Killed, OwnAgents
<1>17. ASSUME NEW i \in Ids, Exits(i) PROVE OwnAgents'
  BY <1>17 DEF Exits, OwnAgents
<1> QED BY <1>1, <1>2, <1>3, <1>4, <1>5, <1>6, <1>7, <1>8, <1>9, <1>10, <1>11,
    <1>12, <1>13, <1>14, <1>15, <1>16, <1>17
  DEF EchoNext, Starting, Killing

(* Only Start itself changes the slot of its agent, until Close takes all. *)
LEMMA SlotStep ==
  ASSUME EchoTypeOK, OwnAgents, Numbered, Slotted, EchoNext
  PROVE  Slotted'
<1>1. ASSUME NEW c \in Starts, Reserve(c) PROVE Slotted'
  BY <1>1, NoneIsNoAgent DEF Reserve, Goto, EchoTypeOK, Slotted
<1>2. ASSUME NEW c \in Starts, Launch(c) PROVE Slotted'
  BY <1>2 DEF Launch, Goto, Slotted
<1>3. ASSUME NEW c \in Starts, LaunchFails(c) PROVE Slotted'
  BY <1>3 DEF LaunchFails, Goto, Slotted
<1>4. ASSUME NEW c \in Starts, Served(c) PROVE Slotted'
  BY <1>4 DEF Served, Goto, Slotted
<1>5. ASSUME NEW c \in Starts, AwaitFails(c) PROVE Slotted'
  BY <1>5 DEF AwaitFails, Goto, EchoTypeOK, Slotted
<1>6. ASSUME NEW c \in Starts, Retry(c) PROVE Slotted'
  BY <1>6 DEF Retry, Goto, Slotted
<1>7. ASSUME NEW c \in Starts, StartFails(c) PROVE Slotted'
  BY <1>7 DEF StartFails, Goto, EchoTypeOK, OwnAgents, Slotted
<1>8. ASSUME NEW c \in Starts, StartReturns(c) PROVE Slotted'
  BY <1>8 DEF StartReturns, Goto, EchoTypeOK, OwnAgents, Slotted
<1>9. ASSUME NEW c \in Starts, StartDiscards(c) PROVE Slotted'
  BY <1>9 DEF StartDiscards, Goto, Slotted
<1>10. ASSUME NEW c \in Starts, StartIsClosed(c) PROVE Slotted'
  BY <1>10 DEF StartIsClosed, Goto, EchoTypeOK, Slotted
<1>11. ASSUME NEW s \in Stops, NEW i \in Ids, Stop(s, i) PROVE Slotted'
  BY <1>11 DEF Stop, Slotted
<1>12. ASSUME NEW k \in Closers, CloseBegins(k) PROVE Slotted'
  BY <1>12 DEF CloseBegins, Goto, EchoTypeOK, OwnAgents, Slotted
<1>13. ASSUME NEW k \in Closers, CloseKills(k) PROVE Slotted'
  BY <1>13 DEF CloseKills, Slotted
<1>14. ASSUME NEW k \in Closers, CloseReturns(k) PROVE Slotted'
  BY <1>14 DEF CloseReturns, Goto, Slotted
<1>15. ASSUME NEW g \in Goroutines, Signals(g) PROVE Slotted'
  BY <1>15 DEF Signals, Slotted
<1>16. ASSUME NEW g \in Goroutines, Killed(g) PROVE Slotted'
  BY <1>16 DEF Killed, Slotted
<1>17. ASSUME NEW i \in Ids, Exits(i) PROVE Slotted'
  BY <1>17 DEF Exits, Slotted
<1> QED BY <1>1, <1>2, <1>3, <1>4, <1>5, <1>6, <1>7, <1>8, <1>9, <1>10, <1>11,
    <1>12, <1>13, <1>14, <1>15, <1>16, <1>17
  DEF EchoNext, Starting, Killing

(* Nothing happens to an agent before reserve.                             *)
LEMMA NumberStep ==
  ASSUME EchoTypeOK, OwnAgents, Numbered, EchoNext
  PROVE  Numbered'
<1>1. ASSUME NEW c \in Starts, Reserve(c) PROVE Numbered'
  BY <1>1 DEF Reserve, Ids, EchoTypeOK, Numbered
<1>2. ASSUME NEW c \in Starts, Launch(c) PROVE Numbered'
  BY <1>2, NoneIsNoAgent DEF Launch, Ids, EchoTypeOK, Numbered
<1>3. ASSUME NEW c \in Starts, LaunchFails(c) PROVE Numbered'
  BY <1>3 DEF LaunchFails, Numbered
<1>4. ASSUME NEW c \in Starts, Served(c) PROVE Numbered'
  BY <1>4 DEF Served, Numbered
<1>5. ASSUME NEW c \in Starts, AwaitFails(c) PROVE Numbered'
  BY <1>5 DEF AwaitFails, Numbered
<1>6. ASSUME NEW c \in Starts, Retry(c) PROVE Numbered'
  BY <1>6 DEF Retry, Numbered
<1>7. ASSUME NEW c \in Starts, StartFails(c) PROVE Numbered'
  BY <1>7 DEF StartFails, Numbered
<1>8. ASSUME NEW c \in Starts, StartReturns(c) PROVE Numbered'
  BY <1>8 DEF StartReturns, Numbered
<1>9. ASSUME NEW c \in Starts, StartDiscards(c) PROVE Numbered'
  BY <1>9 DEF StartDiscards, Numbered
<1>10. ASSUME NEW c \in Starts, StartIsClosed(c) PROVE Numbered'
  BY <1>10 DEF StartIsClosed, Numbered
<1>11. ASSUME NEW s \in Stops, NEW i \in Ids, Stop(s, i) PROVE Numbered'
  BY <1>11 DEF Stop, Ids, EchoTypeOK, Numbered
<1>12. ASSUME NEW k \in Closers, CloseBegins(k) PROVE Numbered'
  BY <1>12 DEF CloseBegins, Ids, EchoTypeOK, Numbered
<1>13. ASSUME NEW k \in Closers, CloseKills(k) PROVE Numbered'
  BY <1>13 DEF CloseKills, Numbered
<1>14. ASSUME NEW k \in Closers, CloseReturns(k) PROVE Numbered'
  BY <1>14 DEF CloseReturns, Numbered
<1>15. ASSUME NEW g \in Goroutines, Signals(g) PROVE Numbered'
  BY <1>15 DEF Signals, Numbered
<1>16. ASSUME NEW g \in Goroutines, Killed(g) PROVE Numbered'
  BY <1>16 DEF Killed, Numbered
<1>17. ASSUME NEW i \in Ids, Exits(i) PROVE Numbered'
  BY <1>17 DEF Exits, Numbered
<1> QED BY <1>1, <1>2, <1>3, <1>4, <1>5, <1>6, <1>7, <1>8, <1>9, <1>10, <1>11,
    <1>12, <1>13, <1>14, <1>15, <1>16, <1>17
  DEF EchoNext, Starting, Killing

(* Stop and Close kill agents they took from the list, where no Start has  *)
(* one.                                                                    *)
LEMMA KillStep ==
  ASSUME EchoTypeOK, OwnAgents, Slotted, Numbered, KillsApart, EchoNext
  PROVE  KillsApart'
<1>1. ASSUME NEW c \in Starts, Reserve(c) PROVE KillsApart'
  BY <1>1 DEF Reserve, Goto, EchoTypeOK, Numbered, KillsApart, Goroutines
<1>2. ASSUME NEW c \in Starts, Launch(c) PROVE KillsApart'
  BY <1>2 DEF Launch, Goto, KillsApart
<1>3. ASSUME NEW c \in Starts, LaunchFails(c) PROVE KillsApart'
  BY <1>3 DEF LaunchFails, Goto, KillsApart
<1>4. ASSUME NEW c \in Starts, Served(c) PROVE KillsApart'
  BY <1>4 DEF Served, Goto, KillsApart
<1>5. ASSUME NEW c \in Starts, AwaitFails(c) PROVE KillsApart'
  BY <1>5, GoroutinesDiffer
  DEF AwaitFails, Goto, EchoTypeOK, KillsApart, Goroutines, StartSteps
<1>6. ASSUME NEW c \in Starts, Retry(c) PROVE KillsApart'
  BY <1>6 DEF Retry, Goto, EchoTypeOK, OwnAgents, KillsApart, Goroutines
<1>7. ASSUME NEW c \in Starts, StartFails(c) PROVE KillsApart'
  BY <1>7, NoneIsNoAgent, GoroutinesDiffer
  DEF StartFails, Goto, EchoTypeOK, KillsApart
<1>8. ASSUME NEW c \in Starts, StartReturns(c) PROVE KillsApart'
  BY <1>8, NoneIsNoAgent, GoroutinesDiffer
  DEF StartReturns, Goto, EchoTypeOK, KillsApart
<1>9. ASSUME NEW c \in Starts, StartDiscards(c) PROVE KillsApart'
  BY <1>9, GoroutinesDiffer DEF StartDiscards, Goto, EchoTypeOK, KillsApart
<1>10. ASSUME NEW c \in Starts, StartIsClosed(c) PROVE KillsApart'
  BY <1>10, NoneIsNoAgent, GoroutinesDiffer
  DEF StartIsClosed, Goto, EchoTypeOK, KillsApart
<1>11. ASSUME NEW s \in Stops, NEW i \in Ids, Stop(s, i) PROVE KillsApart'
  BY <1>11, GoroutinesDiffer DEF Stop, Slotted, KillsApart
<1>12. ASSUME NEW k \in Closers, CloseBegins(k) PROVE KillsApart'
  BY <1>12, NoneIsNoAgent
  DEF CloseBegins, Goto, EchoTypeOK, Slotted, KillsApart
<1>13. ASSUME NEW k \in Closers, CloseKills(k) PROVE KillsApart'
  BY <1>13, GoroutinesDiffer DEF CloseKills, KillsApart
<1>14. ASSUME NEW k \in Closers, CloseReturns(k) PROVE KillsApart'
  BY <1>14 DEF CloseReturns, Goto, KillsApart
<1>15. ASSUME NEW g \in Goroutines, Signals(g) PROVE KillsApart'
  BY <1>15 DEF Signals, KillsApart
<1>16. ASSUME NEW g \in Goroutines, Killed(g) PROVE KillsApart'
  BY <1>16 DEF Killed, KillsApart
<1>17. ASSUME NEW i \in Ids, Exits(i) PROVE KillsApart'
  BY <1>17 DEF Exits, KillsApart
<1> QED BY <1>1, <1>2, <1>3, <1>4, <1>5, <1>6, <1>7, <1>8, <1>9, <1>10, <1>11,
    <1>12, <1>13, <1>14, <1>15, <1>16, <1>17
  DEF EchoNext, Starting, Killing

(* A Start that fails left no process running that it did not kill.        *)
LEMMA EndStep ==
  ASSUME EchoTypeOK, OwnAgents, Numbered, KillsApart, Ended, EchoNext
  PROVE  Ended'
<1>1. ASSUME NEW c \in Starts, Reserve(c) PROVE Ended'
  BY <1>1 DEF Reserve, Goto, EchoTypeOK, Numbered, Ended
<1>2. ASSUME NEW c \in Starts, Launch(c) PROVE Ended'
  BY <1>2 DEF Launch, Goto, EchoTypeOK, OwnAgents, Ended
<1>3. ASSUME NEW c \in Starts, LaunchFails(c) PROVE Ended'
  BY <1>3 DEF LaunchFails, Goto, Ended
<1>4. ASSUME NEW c \in Starts, Served(c) PROVE Ended'
  BY <1>4 DEF Served, Goto, Ended
<1>5. ASSUME NEW c \in Starts, AwaitFails(c) PROVE Ended'
  BY <1>5 DEF AwaitFails, Goto, EchoTypeOK, OwnAgents, Ended, Goroutines
<1>6. ASSUME NEW c \in Starts, Retry(c) PROVE Ended'
  BY <1>6 DEF Retry, Goto, EchoTypeOK, OwnAgents, Ended
<1>7. ASSUME NEW c \in Starts, StartFails(c) PROVE Ended'
  BY <1>7 DEF StartFails, Goto, EchoTypeOK, Ended
<1>8. ASSUME NEW c \in Starts, StartReturns(c) PROVE Ended'
  BY <1>8 DEF StartReturns, Goto, Ended
<1>9. ASSUME NEW c \in Starts, StartDiscards(c) PROVE Ended'
  BY <1>9 DEF StartDiscards, Goto, EchoTypeOK, OwnAgents, Ended, Goroutines
<1>10. ASSUME NEW c \in Starts, StartIsClosed(c) PROVE Ended'
  BY <1>10 DEF StartIsClosed, Goto, EchoTypeOK, Ended
<1>11. ASSUME NEW s \in Stops, NEW i \in Ids, Stop(s, i) PROVE Ended'
  BY <1>11 DEF Stop, Ended
<1>12. ASSUME NEW k \in Closers, CloseBegins(k) PROVE Ended'
  BY <1>12 DEF CloseBegins, Goto, Ended
<1>13. ASSUME NEW k \in Closers, CloseKills(k) PROVE Ended'
  BY <1>13 DEF CloseKills, Ended
<1>14. ASSUME NEW k \in Closers, CloseReturns(k) PROVE Ended'
  BY <1>14 DEF CloseReturns, Goto, Ended
<1>15. ASSUME NEW g \in Goroutines, Signals(g) PROVE Ended'
  BY <1>15 DEF Signals, Ended
<1>16. ASSUME NEW g \in Goroutines, Killed(g) PROVE Ended'
  BY <1>16 DEF Killed, KillsApart, Ended
<1>17. ASSUME NEW i \in Ids, Exits(i) PROVE Ended'
  BY <1>17 DEF Exits, Ended
<1> QED BY <1>1, <1>2, <1>3, <1>4, <1>5, <1>6, <1>7, <1>8, <1>9, <1>10, <1>11,
    <1>12, <1>13, <1>14, <1>15, <1>16, <1>17
  DEF EchoNext, Starting, Killing

(* No step forgets a process that runs.                                    *)
LEMMA ForgetStep ==
  ASSUME EchoTypeOK, OwnAgents, Slotted, Numbered, KillsApart, Ended,
         NoProcessForgotten, EchoNext
  PROVE  NoProcessForgotten'
<1>1. ASSUME NEW c \in Starts, Reserve(c) PROVE NoProcessForgotten'
  <2> SUFFICES ASSUME NEW i \in Ids, Alive(i)'
               PROVE  slot'[i] = "agent" \/ \E d \in Starts : id'[d] = i
    BY DEF NoProcessForgotten
  <2>1. Alive(i)
    BY <1>1 DEF Reserve, Alive, Doomed
  <2>2. ASSUME i = next + 1 PROVE id'[c] = i
    BY <1>1, <2>2 DEF Reserve, EchoTypeOK
  <2>3. ASSUME i # next + 1 PROVE slot'[i] = slot[i]
    BY <1>1, <2>3 DEF Reserve, EchoTypeOK
  <2>4. ASSUME NEW d \in Starts, id[d] = i PROVE id'[d] = i
    BY <1>1, <2>4, NoneIsNoAgent DEF Reserve, EchoTypeOK, OwnAgents
  <2> QED BY <2>1, <2>2, <2>3, <2>4 DEF NoProcessForgotten
<1>2. ASSUME NEW c \in Starts, Launch(c) PROVE NoProcessForgotten'
  BY <1>2 DEF Launch, NoProcessForgotten, Alive, Doomed
<1>3. ASSUME NEW c \in Starts, LaunchFails(c) PROVE NoProcessForgotten'
  BY <1>3 DEF LaunchFails, NoProcessForgotten, Alive, Doomed
<1>4. ASSUME NEW c \in Starts, Served(c) PROVE NoProcessForgotten'
  BY <1>4 DEF Served, NoProcessForgotten, Alive, Doomed
<1>5. ASSUME NEW c \in Starts, AwaitFails(c) PROVE NoProcessForgotten'
  BY <1>5, NoneIsNoAgent
  DEF AwaitFails, KillsApart, NoProcessForgotten, Alive, Doomed
<1>6. ASSUME NEW c \in Starts, Retry(c) PROVE NoProcessForgotten'
  <2> SUFFICES ASSUME NEW i \in Ids, Alive(i)'
               PROVE  slot'[i] = "agent" \/ \E d \in Starts : id'[d] = i
    BY DEF NoProcessForgotten
  <2>1. i # id[c]
    BY <1>6 DEF Retry, Alive, EchoTypeOK
  <2>2. Alive(i)
    BY <1>6, <2>1 DEF Retry, Alive, Doomed, EchoTypeOK
  <2> QED BY <1>6, <2>2 DEF Retry, NoProcessForgotten
<1>7. ASSUME NEW c \in Starts, StartFails(c) PROVE NoProcessForgotten'
  BY <1>7
  DEF StartFails, KillsApart, Ended, NoProcessForgotten, Alive, Doomed,
      Goroutines
<1>8. ASSUME NEW c \in Starts, StartReturns(c) PROVE NoProcessForgotten'
  BY <1>8
  DEF StartReturns, EchoTypeOK, KillsApart, Ended, NoProcessForgotten, Alive,
      Doomed, Goroutines, StartSteps, CloseSteps, Slots
<1>9. ASSUME NEW c \in Starts, StartDiscards(c) PROVE NoProcessForgotten'
  BY <1>9, NoneIsNoAgent
  DEF StartDiscards, KillsApart, NoProcessForgotten, Alive, Doomed
<1>10. ASSUME NEW c \in Starts, StartIsClosed(c) PROVE NoProcessForgotten'
  BY <1>10
  DEF StartIsClosed, Ended, NoProcessForgotten, Alive, Doomed, StartSteps
<1>11. ASSUME NEW s \in Stops, NEW i \in Ids, Stop(s, i) PROVE NoProcessForgotten'
  BY <1>11, NoneIsNoAgent
  DEF Stop, EchoTypeOK, NoProcessForgotten, Alive, Doomed, Goroutines
<1>12. ASSUME NEW k \in Closers, CloseBegins(k) PROVE NoProcessForgotten'
  BY <1>12
  DEF CloseBegins, EchoTypeOK, KillsApart, NoProcessForgotten, Alive, Doomed
<1>13. ASSUME NEW k \in Closers, CloseKills(k) PROVE NoProcessForgotten'
  BY <1>13, NoneIsNoAgent
  DEF CloseKills, EchoTypeOK, NoProcessForgotten, Alive, Doomed, Goroutines
<1>14. ASSUME NEW k \in Closers, CloseReturns(k) PROVE NoProcessForgotten'
  BY <1>14 DEF CloseReturns, NoProcessForgotten, Alive, Doomed
<1>15. ASSUME NEW g \in Goroutines, Signals(g) PROVE NoProcessForgotten'
  BY <1>15 DEF Signals, NoProcessForgotten, Alive, Doomed
<1>16. ASSUME NEW g \in Goroutines, Killed(g) PROVE NoProcessForgotten'
  BY <1>16 DEF Killed, KillsApart, NoProcessForgotten, Alive, Doomed
<1>17. ASSUME NEW i \in Ids, Exits(i) PROVE NoProcessForgotten'
  BY <1>17 DEF Exits, NoProcessForgotten, Alive, Doomed, Goroutines
<1> QED BY <1>1, <1>2, <1>3, <1>4, <1>5, <1>6, <1>7, <1>8, <1>9, <1>10, <1>11,
    <1>12, <1>13, <1>14, <1>15, <1>16, <1>17
  DEF EchoNext, Starting, Killing

(* Every way out of Start gives up the placeholder.                        *)
LEMMA FreeStep ==
  ASSUME EchoTypeOK, OwnAgents, Slotted, SlotsAreFreed, EchoNext
  PROVE  SlotsAreFreed'
<1>1. ASSUME NEW c \in Starts, Reserve(c) PROVE SlotsAreFreed'
  BY <1>1, NoneIsNoAgent DEF Reserve, EchoTypeOK, OwnAgents, SlotsAreFreed
<1>2. ASSUME NEW c \in Starts, Launch(c) PROVE SlotsAreFreed'
  BY <1>2 DEF Launch, SlotsAreFreed
<1>3. ASSUME NEW c \in Starts, LaunchFails(c) PROVE SlotsAreFreed'
  BY <1>3 DEF LaunchFails, SlotsAreFreed
<1>4. ASSUME NEW c \in Starts, Served(c) PROVE SlotsAreFreed'
  BY <1>4 DEF Served, SlotsAreFreed
<1>5. ASSUME NEW c \in Starts, AwaitFails(c) PROVE SlotsAreFreed'
  BY <1>5 DEF AwaitFails, SlotsAreFreed
<1>6. ASSUME NEW c \in Starts, Retry(c) PROVE SlotsAreFreed'
  BY <1>6 DEF Retry, SlotsAreFreed
<1>7. ASSUME NEW c \in Starts, StartFails(c) PROVE SlotsAreFreed'
  BY <1>7 DEF StartFails, EchoTypeOK, SlotsAreFreed
<1>8. ASSUME NEW c \in Starts, StartReturns(c) PROVE SlotsAreFreed'
  BY <1>8 DEF StartReturns, EchoTypeOK, SlotsAreFreed
<1>9. ASSUME NEW c \in Starts, StartDiscards(c) PROVE SlotsAreFreed'
  BY <1>9 DEF StartDiscards, SlotsAreFreed
<1>10. ASSUME NEW c \in Starts, StartIsClosed(c) PROVE SlotsAreFreed'
  BY <1>10 DEF StartIsClosed, Slotted, SlotsAreFreed
<1>11. ASSUME NEW s \in Stops, NEW i \in Ids, Stop(s, i) PROVE SlotsAreFreed'
  BY <1>11 DEF Stop, SlotsAreFreed
<1>12. ASSUME NEW k \in Closers, CloseBegins(k) PROVE SlotsAreFreed'
  BY <1>12 DEF CloseBegins, SlotsAreFreed
<1>13. ASSUME NEW k \in Closers, CloseKills(k) PROVE SlotsAreFreed'
  BY <1>13 DEF CloseKills, SlotsAreFreed
<1>14. ASSUME NEW k \in Closers, CloseReturns(k) PROVE SlotsAreFreed'
  BY <1>14 DEF CloseReturns, SlotsAreFreed
<1>15. ASSUME NEW g \in Goroutines, Signals(g) PROVE SlotsAreFreed'
  BY <1>15 DEF Signals, SlotsAreFreed
<1>16. ASSUME NEW g \in Goroutines, Killed(g) PROVE SlotsAreFreed'
  BY <1>16 DEF Killed, SlotsAreFreed
<1>17. ASSUME NEW i \in Ids, Exits(i) PROVE SlotsAreFreed'
  BY <1>17 DEF Exits, SlotsAreFreed
<1> QED BY <1>1, <1>2, <1>3, <1>4, <1>5, <1>6, <1>7, <1>8, <1>9, <1>10, <1>11,
    <1>12, <1>13, <1>14, <1>15, <1>16, <1>17
  DEF EchoNext, Starting, Killing

(* Any step but reserve adds no agent to Held, and reserve makes sure      *)
(* there is room.                                                          *)
LEMMA HeldStep ==
  ASSUME EchoTypeOK, OwnAgents, Slotted, Numbered, SlotsAreFreed,
         Cardinality(Held) <= MaxAgents, EchoNext
  PROVE  Cardinality(Held') <= MaxAgents
<1>0. ASSUME Held' \subseteq Held PROVE Cardinality(Held') <= MaxAgents
  <2>1. IsFiniteSet(Held)
    BY FiniteAgents, FS_Subset DEF Held
  <2>2. IsFiniteSet(Held') /\ Cardinality(Held') <= Cardinality(Held)
    BY <1>0, <2>1, FS_Subset
  <2>3. Cardinality(Held') \in Nat /\ Cardinality(Held) \in Nat
    BY <2>1, <2>2, FS_CardinalityType
  <2> QED BY <2>2, <2>3, AgentsAreCounted
<1>1. ASSUME NEW c \in Starts, Reserve(c)
      PROVE  Cardinality(Held') <= MaxAgents
  <2>1. Held \subseteq Counted
    BY <1>1, NoneIsNoAgent DEF Reserve, Held, Counted, Slotted, EchoTypeOK
  <2>2. Held' \subseteq Held \cup {next + 1}
    BY <1>1 DEF Reserve, Held, EchoTypeOK
  <2>3. IsFiniteSet(Counted) /\ IsFiniteSet(Held)
    BY FiniteAgents, FS_Subset DEF Counted, Held
  <2>4. Cardinality(Held) <= Cardinality(Counted)
    BY <2>1, <2>3, FS_Subset
  <2>5. /\ IsFiniteSet(Held \cup {next + 1})
        /\ Cardinality(Held \cup {next + 1}) <= Cardinality(Held) + 1
    BY <2>3, FS_AddElement, FS_CardinalityType
  <2>6. Cardinality(Held') <= Cardinality(Held \cup {next + 1})
    BY <2>2, <2>5, FS_Subset
  <2>7. /\ Cardinality(Counted) \in Nat /\ Cardinality(Held) \in Nat
        /\ Cardinality(Held \cup {next + 1}) \in Nat
        /\ Cardinality(Held') \in Nat
    BY <2>2, <2>3, <2>5, FS_CardinalityType, FS_Subset
  <2> QED BY <1>1, <2>4, <2>5, <2>6, <2>7, AgentsAreCounted DEF Reserve
<1>2. ASSUME NEW c \in Starts, Launch(c)
      PROVE  Held' \subseteq Held
  BY <1>2 DEF Launch, Held
<1>3. ASSUME NEW c \in Starts, LaunchFails(c)
      PROVE  Held' \subseteq Held
  BY <1>3 DEF LaunchFails, Held
<1>4. ASSUME NEW c \in Starts, Served(c)
      PROVE  Held' \subseteq Held
  BY <1>4 DEF Served, Held
<1>5. ASSUME NEW c \in Starts, AwaitFails(c)
      PROVE  Held' \subseteq Held
  BY <1>5 DEF AwaitFails, Held
<1>6. ASSUME NEW c \in Starts, Retry(c)
      PROVE  Held' \subseteq Held
  BY <1>6 DEF Retry, Held
<1>7. ASSUME NEW c \in Starts, StartFails(c)
      PROVE  Held' \subseteq Held
  BY <1>7, NoneIsNoAgent DEF StartFails, Held
<1>8. ASSUME NEW c \in Starts, StartReturns(c)
      PROVE  Held' \subseteq Held
  BY <1>8, NoneIsNoAgent DEF StartReturns, Held
<1>9. ASSUME NEW c \in Starts, StartDiscards(c)
      PROVE  Held' \subseteq Held
  BY <1>9 DEF StartDiscards, Held
<1>10. ASSUME NEW c \in Starts, StartIsClosed(c)
      PROVE  Held' \subseteq Held
  BY <1>10, NoneIsNoAgent DEF StartIsClosed, Held
<1>11. ASSUME NEW s \in Stops, NEW i \in Ids, Stop(s, i)
      PROVE  Held' \subseteq Held
  BY <1>11 DEF Stop, Held
<1>12. ASSUME NEW k \in Closers, CloseBegins(k)
      PROVE  Held' \subseteq Held
  BY <1>12 DEF CloseBegins, Held
<1>13. ASSUME NEW k \in Closers, CloseKills(k)
      PROVE  Held' \subseteq Held
  BY <1>13 DEF CloseKills, Held
<1>14. ASSUME NEW k \in Closers, CloseReturns(k)
      PROVE  Held' \subseteq Held
  BY <1>14 DEF CloseReturns, Held
<1>15. ASSUME NEW g \in Goroutines, Signals(g)
      PROVE  Held' \subseteq Held
  BY <1>15 DEF Signals, Held
<1>16. ASSUME NEW g \in Goroutines, Killed(g)
      PROVE  Held' \subseteq Held
  BY <1>16 DEF Killed, Held
<1>17. ASSUME NEW i \in Ids, Exits(i)
      PROVE  Held' \subseteq Held
  BY <1>17 DEF Exits, Held
<1> QED BY <1>0, <1>1, <1>2, <1>3, <1>4, <1>5, <1>6, <1>7, <1>8, <1>9, <1>10,
    <1>11, <1>12, <1>13, <1>14, <1>15, <1>16, <1>17
  DEF EchoNext, Starting, Killing

-----------------------------------------------------------------------------
(* The invariant holds in all behaviours of the runner.                    *)
THEOREM EchoInvariant == EchoSpec => []EchoInv
<1>1. EchoInit => EchoInv
  <2> SUFFICES ASSUME EchoInit PROVE EchoInv
    OBVIOUS
  <2>1. EchoTypeOK
    <3>1. pc \in [Starts \cup Closers -> StartSteps \cup CloseSteps]
      BY DEF EchoInit, StartSteps, CloseSteps
    <3>2. /\ \A c \in Starts : pc[c] \in StartSteps
          /\ \A k \in Closers : pc[k] \in CloseSteps
      BY DEF EchoInit, StartSteps, CloseSteps
    <3>3. next \in 0..LastID /\ attempt \in [Starts -> 0..1]
      BY AgentsAreCounted DEF EchoInit
    <3>4. /\ slot \in [Ids -> Slots]
          /\ process \in [Ids -> {"none", "running", "exited"}]
      BY DEF EchoInit, Slots
    <3>5. /\ id \in [Starts -> Ids \cup {None}]
          /\ victim \in [Goroutines -> Ids \cup {None}]
          /\ toKill \in [Closers -> SUBSET Ids]
      BY DEF EchoInit
    <3> QED BY <3>1, <3>2, <3>3, <3>4, <3>5 DEF EchoInit, EchoTypeOK
  <2>3. OwnAgents /\ Slotted /\ Numbered
    BY NoneIsNoAgent, AgentsAreCounted
    DEF EchoInit, OwnAgents, Slotted, Numbered, Goroutines
  <2>4. KillsApart /\ Ended
    BY DEF EchoInit, KillsApart, Ended, Goroutines
  <2>5. NoProcessForgotten /\ SlotsAreFreed
    BY DEF EchoInit, NoProcessForgotten, SlotsAreFreed, Alive
  <2>2. Held = {}
    BY NoneIsNoAgent DEF EchoInit, Held, Ids
  <2> QED BY <2>1, <2>2, <2>3, <2>4, <2>5, FS_EmptySet, AgentsAreCounted
          DEF EchoInv
<1>2. EchoInv /\ [EchoNext]_echoVars => EchoInv'
  <2> SUFFICES ASSUME EchoInv, [EchoNext]_echoVars PROVE EchoInv'
    OBVIOUS
  <2>1. ASSUME EchoNext PROVE EchoInv'
    BY <2>1, TypeStep, OwnStep, SlotStep, NumberStep, KillStep, EndStep,
       ForgetStep, FreeStep, HeldStep DEF EchoInv
  <2>2. ASSUME UNCHANGED echoVars PROVE EchoInv'
    BY <2>2 DEF echoVars, EchoInv, EchoTypeOK, OwnAgents, Slotted, Numbered,
      KillsApart, Ended, NoProcessForgotten, SlotsAreFreed, Alive, Doomed, Held
  <2> QED BY <2>1, <2>2
<1> QED BY <1>1, <1>2, PTL DEF EchoSpec

(* The inspector uses the runner as the requests and Close may: its        *)
(* behaviours are behaviours of the runner, whatever run does around it.   *)
THEOREM InspectorRunsEcho == InspectorSpec => EchoSpec
<1>1. InspectorInit => EchoInit
  BY DEF InspectorInit
<1>2. [InspectorNext]_vars => [EchoNext]_echoVars
  <2> SUFFICES ASSUME [InspectorNext]_vars PROVE [EchoNext]_echoVars
    OBVIOUS
  <2>0. Hook \in Closers /\ Deferred \in Closers
    BY TwoClosers
  <2>1. ASSUME UNCHANGED vars PROVE UNCHANGED echoVars
    BY <2>1 DEF vars
  <2>2. ASSUME CtrlC \/ ServeFails \/ ShutdownReturns \/ Exit
        PROVE  UNCHANGED echoVars
    BY <2>2 DEF CtrlC, ServeFails, ShutdownReturns, Exit
  <2>3. ASSUME HookCloses \/ DeferredCloses PROVE EchoNext
    BY <2>0, <2>3 DEF HookCloses, DeferredCloses, EchoNext
  <2>4. ASSUME Request PROVE EchoNext
    BY <2>4 DEF Request, EchoNext, Starting
  <2>5. ASSUME ProcessExits PROVE EchoNext
    BY <2>5 DEF ProcessExits, EchoNext
  <2>6. ASSUME NEW c \in Starts, Goes(StartGoesOn(c)) PROVE EchoNext
    BY <2>6 DEF Goes, StartGoesOn, EchoNext, Starting
  <2>7. ASSUME NEW k \in Closers, Goes(CloseKills(k) \/ CloseReturns(k))
        PROVE  EchoNext
    BY <2>7 DEF Goes, EchoNext
  <2>8. ASSUME NEW g \in Goroutines, Goes(Killing(g)) PROVE EchoNext
    BY <2>8 DEF Goes, EchoNext
  <2> QED BY <2>1, <2>2, <2>3, <2>4, <2>5, <2>6, <2>7, <2>8 DEF InspectorNext
<1> QED BY <1>1, <1>2, PTL DEF InspectorSpec, EchoSpec

(* The types of the inspector.                                             *)
THEOREM InspectorTyped == InspectorSpec => []InspectorTypeOK
<1> DEFINE Main == main \in {"serving", "shutdown", "returning", "failed",
                              "exited"}
<1>1. InspectorInit => Main
  BY DEF InspectorInit
<1>2. Main /\ [InspectorNext]_vars => Main'
  BY DEF InspectorNext, CtrlC, ServeFails, ShutdownReturns, HookCloses,
         DeferredCloses, Exit, Request, ProcessExits, Goes, vars
<1>3. EchoInv /\ Main => InspectorTypeOK
  BY DEF EchoInv, InspectorTypeOK
<1> QED BY <1>1, <1>2, <1>3, InspectorRunsEcho, EchoInvariant, PTL
        DEF InspectorSpec

(* Whatever requests and Close interleave, a process that runs is on the   *)
(* list or the business of a Start, or somebody kills it.                  *)
THEOREM InspectorForgetsNoProcess == InspectorSpec => []NoProcessForgotten
<1>1. EchoInv => NoProcessForgotten
  BY DEF EchoInv
<1> QED BY <1>1, InspectorRunsEcho, EchoInvariant, PTL

(* Every failure of Start frees the slot it took.                          *)
THEOREM InspectorFreesSlots == InspectorSpec => []SlotsAreFreed
<1>1. EchoInv => SlotsAreFreed
  BY DEF EchoInv
<1> QED BY <1>1, InspectorRunsEcho, EchoInvariant, PTL

(* At most maxAgents echo agents run, although processes start, exit and   *)
(* are counted without a common lock.                                      *)
THEOREM InspectorKeepsMaxAgents == InspectorSpec => []AtMostMaxAgents
<1>1. EchoInv => AtMostMaxAgents
  <2> SUFFICES ASSUME EchoInv PROVE AtMostMaxAgents
    OBVIOUS
  <2> DEFINE Running == {i \in Ids : Alive(i)}
  <2>1. Running \subseteq Held
    BY DEF EchoInv, NoProcessForgotten, Alive, Held
  <2>2. IsFiniteSet(Held)
    BY FiniteAgents, FS_Subset DEF Held
  <2>3. IsFiniteSet(Running) /\ Cardinality(Running) <= Cardinality(Held)
    BY <2>1, <2>2, FS_Subset
  <2>4. Cardinality(Running) \in Nat /\ Cardinality(Held) \in Nat
    BY <2>2, <2>3, FS_CardinalityType
  <2> QED BY <2>3, <2>4, AgentsAreCounted DEF EchoInv, AtMostMaxAgents
<1> QED BY <1>1, InspectorRunsEcho, EchoInvariant, PTL
=============================================================================
