------------------------------ MODULE PageProofs ------------------------------
(***************************************************************************)
(* Theorems about module Page: its parts share no state, so an invariant   *)
(* of one part is one of the page.                                         *)
(***************************************************************************)
EXTENDS Page, AgentListProofs

LEMMA PartStays ==
  ASSUME [PageNext]_pageVars
  PROVE  /\ part' = part
         /\ part = "list" => [ListNext]_listVars
         /\ part = "settings" => [SettingsNext]_formVars
         /\ part = "chat" => [ChatNext]_chatVars
         /\ part = "tasks" => [TasksNext]_taskVars
         /\ part = "host" => [HostNext]_hostVars
         /\ part = "stream" => [StreamNext]_streamVars
         /\ part = "editor" => [EditorNext]_editorVars
BY DEF PageNext, pageVars, listVars, formVars, chatVars, taskVars, hostVars,
       streamVars, agentVars, feedVars, editorVars
-----------------------------------------------------------------------------
(* The chat with the host agent: a turn that started is not asked for      *)
(* again, only one that was refused before it started.                     *)
TurnFields == {"targets", "todo", "conv", "prepare", "again", "refs", "pc",
               "cookie", "answer", "aborted", "known"}

TurnOK(t) ==
  /\ DOMAIN t = TurnFields /\ t = [f \in TurnFields |-> t[f]]
  /\ t.pc \in {"next", "connecting", "asked", "streams"}
  /\ t.pc # "streams" => taken = 0

HostInv == taken \in {0, 1} /\ (turn # None => TurnOK(turn))

(* A turn goes on before it started, or ends.                              *)
LEMMA TurnGoesOn ==
  ASSUME HostInv, turn # None, taken' = taken,
         \/ turn' = None
         \/ \E f, v : /\ f # "pc" /\ turn' = [turn EXCEPT ![f] = v]
         \/ /\ turn.pc # "streams"
            /\ DOMAIN turn' = TurnFields
            /\ turn' = [f \in TurnFields |-> turn'[f]]
            /\ turn'.pc \in {"next", "connecting", "asked"}
  PROVE  HostInv'
<1>1. CASE turn' = None BY <1>1 DEF HostInv
<1>2. CASE \E f, v : /\ f # "pc" /\ turn' = [turn EXCEPT ![f] = v]
  BY <1>2 DEF HostInv, TurnOK, TurnFields
<1>3. CASE /\ turn.pc # "streams"
           /\ DOMAIN turn' = TurnFields
           /\ turn' = [f \in TurnFields |-> turn'[f]]
           /\ turn'.pc \in {"next", "connecting", "asked"}
  BY <1>3 DEF HostInv, TurnOK
<1> QED BY <1>1, <1>2, <1>3

LEMMA HostStarts == HostInit => HostInv
BY DEF HostInit, HostInv
LEMMA HostGoesOn ==
  ASSUME HostInv, [HostNext]_hostVars
  PROVE  HostInv'
<1>1. CASE SendToHost
  <2>1. turn' = Turn(Delegates, host.conv, "same", FALSE) /\ taken' = 0
    BY <1>1 DEF SendToHost
  <2>2. TurnOK(turn)' BY <2>1 DEF TurnOK, Turn, TurnFields
  <2> QED BY <2>1, <2>2 DEF HostInv
<1>2. CASE ConnectNext
  <2>1. turn # None /\ turn.pc = "next" /\ taken' = taken
    BY <1>2 DEF ConnectNext
  <2>2. TurnOK(turn) BY <2>1 DEF HostInv
  <2>3. /\ DOMAIN turn' = TurnFields /\ turn' = [f \in TurnFields |-> turn'[f]]
        /\ turn'.pc \in {"next", "connecting", "asked"}
    BY <1>2, <2>1, <2>2 DEF ConnectNext, TurnOK, TurnFields
  <2> QED BY <2>1, <2>3, TurnGoesOn
<1>3. CASE Connects
  <2>1. turn # None /\ turn.pc = "connecting" /\ taken' = taken
    BY <1>3 DEF Connects
  <2>2. TurnOK(turn) BY <2>1 DEF HostInv
  <2> DEFINE next == [turn EXCEPT !.pc = "next", !.todo = Tail(@)]
  <2>3. \/ turn' = next
        \/ turn' = [next EXCEPT !.refs = Append(@, lastLink + 1)]
    BY <1>3 DEF Connects
  <2>4. /\ DOMAIN turn' = TurnFields /\ turn' = [f \in TurnFields |-> turn'[f]]
        /\ turn'.pc \in {"next", "connecting", "asked"}
    BY <2>2, <2>3 DEF TurnOK, TurnFields
  <2> QED BY <2>1, <2>4, TurnGoesOn
<1>4. CASE AskTurn
  <2>1. turn # None /\ turn.pc = "next" /\ taken' = taken
    BY <1>4 DEF AskTurn
  <2>2. TurnOK(turn) BY <2>1 DEF HostInv
  <2>3. /\ DOMAIN turn' = TurnFields /\ turn' = [f \in TurnFields |-> turn'[f]]
        /\ turn'.pc \in {"next", "connecting", "asked"}
    BY <1>4, <2>1, <2>2 DEF AskTurn, TurnOK, TurnFields
  <2> QED BY <2>1, <2>3, TurnGoesOn
<1>5. CASE TakeTurn
  <2>1. turn # None /\ turn.pc = "asked" BY <1>5 DEF TakeTurn
  <2>2. TurnOK(turn) /\ taken = 0 BY <2>1 DEF HostInv, TurnOK
  <2>3. \/ \E why : turn' = [turn EXCEPT !.answer = why] /\ taken' = taken
        \/ /\ taken' = taken + 1
           /\ \/ turn' = [turn EXCEPT !.pc = "streams"]
              \/ turn' = [turn EXCEPT !.pc = "streams", !.conv = lastTalk + 1]
    BY <1>5, <2>1 DEF TakeTurn
  <2>4. CASE \E why : turn' = [turn EXCEPT !.answer = why] /\ taken' = taken
    BY <2>1, <2>4, TurnGoesOn
  <2>5. CASE /\ taken' = taken + 1
             /\ \/ turn' = [turn EXCEPT !.pc = "streams"]
                \/ turn' = [turn EXCEPT !.pc = "streams", !.conv = lastTalk + 1]
    <3>1. taken' = 1 BY <2>2, <2>5
    <3>2. /\ DOMAIN turn' = TurnFields /\ turn' = [f \in TurnFields |-> turn'[f]]
          /\ turn'.pc = "streams"
      BY <2>2, <2>5 DEF TurnOK, TurnFields
    <3> QED BY <3>1, <3>2 DEF HostInv, TurnOK
  <2> QED BY <2>3, <2>4, <2>5
<1>6. CASE HearEvent
  <2>1. turn # None /\ taken' = taken BY <1>6 DEF HearEvent
  <2>2. turn' = turn \/ \E v : turn' = [turn EXCEPT !.known = v]
    BY <1>6 DEF HearEvent
  <2>3. CASE turn' = turn BY <2>1, <2>3 DEF HostInv, TurnOK
  <2>4. CASE \E v : turn' = [turn EXCEPT !.known = v]
    BY <2>1, <2>4, TurnGoesOn
  <2> QED BY <2>2, <2>3, <2>4
<1>7. ASSUME NEW type, TurnFails(type)
      PROVE  \/ turn' = None
             \/ /\ Retries(type) # "no"
                /\ DOMAIN turn' = TurnFields
                /\ turn' = [f \in TurnFields |-> turn'[f]]
                /\ turn'.pc = "next"
  <2>1. CASE Retries(type) = "no" BY <1>7, <2>1 DEF TurnFails, EndTurn
  <2>2. CASE Retries(type) # "no"
    <3> DEFINE fresh == Turn(turn.targets,
                             IF Retries(type) = "without" THEN turn.conv ELSE None,
                             Retries(type), TRUE)
    <3>1. turn' = [fresh EXCEPT !.aborted = turn.aborted]
      BY <1>7, <2>2 DEF TurnFails
    <3>2. /\ DOMAIN fresh = TurnFields /\ fresh = [f \in TurnFields |-> fresh[f]]
          /\ fresh.pc = "next"
      BY DEF Turn, TurnFields
    <3> HIDE DEF fresh
    <3> QED BY <2>2, <3>1, <3>2 DEF TurnFields
  <2> QED BY <2>1, <2>2
<1>8. CASE TurnRefused
  <2>1. turn # None /\ turn.pc = "asked" /\ taken' = taken
        /\ TurnFails(turn.answer)
    BY <1>8 DEF TurnRefused
  <2> QED BY <1>7, <2>1, TurnGoesOn
<1>9. CASE TurnEnds
  <2>1. turn # None /\ taken' = taken /\ (turn' = None \/ TurnFails("error"))
    BY <1>9 DEF TurnEnds, EndTurn
  <2>2. Retries("error") = "no" BY DEF Retries
  <2> QED BY <1>7, <2>1, <2>2, TurnGoesOn
<1>10. CASE StopHost
  <2>1. turn # None /\ taken' = taken
        /\ (turn' = None \/ turn' = [turn EXCEPT !.aborted = TRUE])
    BY <1>10 DEF StopHost, EndTurn
  <2> QED BY <2>1, TurnGoesOn
<1>11. CASE \/ NewHostConversation \/ PickDelegate \/ RemoveDelegate \/ Loses
            \/ UNCHANGED hostVars
  <2>1. UNCHANGED <<turn, taken>>
    BY <1>11 DEF NewHostConversation, PickDelegate, RemoveDelegate, Loses,
                 hostVars
  <2> QED BY <2>1 DEF HostInv, TurnOK
<1> QED
  BY <1>1, <1>2, <1>3, <1>4, <1>5, <1>6, <1>8, <1>9, <1>10, <1>11 DEF HostNext
(* The host agent gets each message once, however turns are refused, break *)
(* or are tried again while sessions, connections and conversations go     *)
(* (sendToHost of App.tsx).                                                *)
THEOREM PageAsksHostOnce == PageSpec => []HostKept
<1> DEFINE Inv == part = "host" => HostInv
<1>1. PageInit => Inv BY HostStarts DEF PageInit
<1>2. Inv /\ [PageNext]_pageVars => Inv' BY PartStays, HostGoesOn
<1>3. Inv => HostKept BY DEF HostInv, HostKept, HostAsksOnce
<1> HIDE DEF Inv
<1> QED BY <1>1, <1>2, <1>3, PTL DEF PageSpec
-----------------------------------------------------------------------------
(* What the UI keeps of the tasks: which of them show a subscription.      *)
TasksOK(s) ==
  /\ IsList(s)
  /\ \A i \in DOMAIN s : /\ {"id", "subscribed"} \subseteq DOMAIN s[i]
                         /\ s[i].subscribed \in BOOLEAN
  /\ \A i, j \in DOMAIN s : s[i].id = s[j].id => i = j

SubscribedOf(s) == {s[i].id : i \in {j \in DOMAIN s : s[j].subscribed}}

With(s, t) == IF Has(s, t) THEN s ELSE Append(s, EmptyTask(t))

LEMMA WithTask ==
  ASSUME NEW s, TasksOK(s), NEW t
  PROVE  /\ TasksOK(With(s, t)) /\ Has(With(s, t), t)
         /\ SubscribedOf(With(s, t)) = SubscribedOf(s)
<1>1. CASE Has(s, t)
  <2>1. With(s, t) = s BY <1>1 DEF With
  <2> QED BY <1>1, <2>1
<1>2. CASE ~ Has(s, t)
  <2> DEFINE e == EmptyTask(t)
             w == Append(s, e)
  <2>1. {"id", "subscribed"} \subseteq DOMAIN e /\ e.id = t /\ e.subscribed = FALSE
    BY DEF EmptyTask
  <2>2. With(s, t) = w BY <1>2 DEF With
  <2> HIDE DEF e
  <2>3. Len(s) \in Nat /\ DOMAIN s = 1..Len(s) BY ListFacts DEF TasksOK
  <2>4. /\ IsList(w) /\ DOMAIN w = 1..(Len(s) + 1)
        /\ \A i \in DOMAIN s : w[i] = s[i]
        /\ w[Len(s) + 1] = e
    BY ListAppend DEF TasksOK
  <2> HIDE DEF w
  <2>5. \A i \in DOMAIN s : i \in DOMAIN w /\ s[i].id # t
    BY <1>2, <2>3, <2>4 DEF Has
  <2>6. \A i \in DOMAIN w : i \in DOMAIN s \/ i = Len(s) + 1 BY <2>3, <2>4
  <2>a. Len(s) + 1 \in DOMAIN w BY <2>3, <2>4
  <2>7. \A i, j \in DOMAIN w : w[i].id = w[j].id => i = j
    BY <2>1, <2>4, <2>5, <2>6 DEF TasksOK
  <2>b. \A i \in DOMAIN w : /\ {"id", "subscribed"} \subseteq DOMAIN w[i]
                             /\ w[i].subscribed \in BOOLEAN
    BY <2>1, <2>4, <2>6 DEF TasksOK
  <2>8. TasksOK(w) BY <2>4, <2>7, <2>b DEF TasksOK
  <2>9. Has(w, t) BY <2>1, <2>4, <2>a DEF Has
  <2>10. SubscribedOf(w) = SubscribedOf(s)
    BY <2>1, <2>4, <2>5, <2>6 DEF SubscribedOf
  <2> QED BY <2>2, <2>8, <2>9, <2>10
<1> QED BY <1>1, <1>2

(* A task that changes keeps its ID.                                       *)
LEMMA TaskChanged ==
  ASSUME NEW s, TasksOK(s), NEW t, Has(s, t), NEW r,
         DOMAIN r = DOMAIN s, r = [i \in DOMAIN s |-> r[i]],
         \A i \in DOMAIN s : s[i].id # t => r[i] = s[i],
         \A i \in DOMAIN s : s[i].id = t =>
           /\ {"id", "subscribed"} \subseteq DOMAIN r[i]
           /\ r[i].id = t /\ r[i].subscribed \in BOOLEAN
  PROVE  /\ TasksOK(r)
         /\ (\A i \in DOMAIN s : r[i].subscribed = s[i].subscribed)
              => SubscribedOf(r) = SubscribedOf(s)
         /\ (\A i \in DOMAIN s : s[i].id = t => r[i].subscribed)
              => SubscribedOf(r) = SubscribedOf(s) \cup {t}
         /\ (\A i \in DOMAIN s : s[i].id = t => ~ r[i].subscribed)
              => SubscribedOf(r) = SubscribedOf(s) \ {t}
<1>1. Len(s) \in Nat /\ DOMAIN s = 1..Len(s) BY ListFacts DEF TasksOK
<1>2. IsList(r) BY <1>1, ListIs
<1>3. \A i \in DOMAIN s : r[i].id = s[i].id OBVIOUS
<1>4. TasksOK(r) BY <1>2, <1>3 DEF TasksOK
<1>5. ASSUME \A i \in DOMAIN s : r[i].subscribed = s[i].subscribed
      PROVE  SubscribedOf(r) = SubscribedOf(s)
  BY <1>3, <1>5 DEF SubscribedOf
<1>6. ASSUME \A i \in DOMAIN s : s[i].id = t => r[i].subscribed
      PROVE  SubscribedOf(r) = SubscribedOf(s) \cup {t}
  BY <1>3, <1>6 DEF SubscribedOf, Has
<1>7. ASSUME \A i \in DOMAIN s : s[i].id = t => ~ r[i].subscribed
      PROVE  SubscribedOf(r) = SubscribedOf(s) \ {t}
  BY <1>3, <1>7 DEF SubscribedOf, Has
<1> QED BY <1>4, <1>5, <1>6, <1>7
-----------------------------------------------------------------------------
(* The agent whose tasks are shown, as the list of one.                    *)
Shown(l) ==
  /\ DOMAIN l = {TaskAgent}
  /\ {"id", "connection", "resetContext", "tasks"} \subseteq DOMAIN l[1]
  /\ l[1].id = TaskAgent /\ l[1].resetContext = FALSE
  /\ l[1].connection \in Connections
  /\ TasksOK(l[1].tasks)

Same(l, m) ==
  /\ Shown(m) /\ m[1].connection = l[1].connection
  /\ SubscribedOf(m[1].tasks) = SubscribedOf(l[1].tasks)

LEMMA SameSame ==
  ASSUME NEW l, NEW m, NEW k, Same(l, m), Same(m, k)
  PROVE  Same(l, k)
BY DEF Same

(* Whatever else of the agent changes.                                     *)
LEMMA AgentChanged ==
  ASSUME NEW l, Shown(l), NEW m, DOMAIN m = {TaskAgent},
         DOMAIN m[1] = DOMAIN l[1],
         \A f \in {"id", "connection", "resetContext", "tasks"} : m[1][f] = l[1][f]
  PROVE  Same(l, m)
BY DEF Same, Shown

LEMMA TaskSeen ==
  ASSUME NEW l, Shown(l), NEW t, NEW state, NEW context, NEW time,
         NEW activity, NEW select
  PROVE  Same(l, Task(l, TaskAgent, t, state, context, time, activity, select))
<1> DEFINE see(e) == [e EXCEPT !.state = IF state = None THEN @ ELSE state,
                               !.updated = IF state = None THEN @ ELSE time,
                               !.context = IF context = None THEN @ ELSE context,
                               !.activity = IF activity = None THEN @
                                            ELSE Append(@, activity)]
           change(w) == [i \in DOMAIN w |-> IF w[i].id = t THEN see(w[i]) ELSE w[i]]
           set(a) == [a EXCEPT !.tasks = change(With(a.tasks, t))]
           show(a) == [a EXCEPT !.selectedTask = t]
           s == With(l[1].tasks, t)
           r == change(s)
           m == PatchTask(l, TaskAgent, t, see)
           k == Patch(m, TaskAgent, show)
<1>1. DOMAIN l = {TaskAgent} /\ l[1].id = TaskAgent BY DEF Shown
<1>a. m = [i \in DOMAIN l |-> IF l[i].id = TaskAgent THEN set(l[i]) ELSE l[i]]
  BY Zenon DEF PatchTask, Patch, With
<1>b. Task(l, TaskAgent, t, state, context, time, activity, select)
        = IF select THEN k ELSE m
  BY Zenon DEF Task
<1>3. Same(l, m)
  <2>1. \A i \in DOMAIN s : DOMAIN see(s[i]) = DOMAIN s[i]
    OBVIOUS
  <2>2. TasksOK(s) BY WithTask DEF Shown
  <2>3. \A i \in DOMAIN s :
          /\ see(s[i]).id = s[i].id /\ see(s[i]).subscribed = s[i].subscribed
    BY <2>2 DEF TasksOK
  <2>a. s = With(l[1].tasks, t) OBVIOUS
  <2> HIDE DEF s, see
  <2>4. DOMAIN r = DOMAIN s /\ r = [i \in DOMAIN s |-> r[i]] OBVIOUS
  <2>5. \A i \in DOMAIN s : s[i].id # t => r[i] = s[i] OBVIOUS
  <2>6. \A i \in DOMAIN s : s[i].id = t =>
          /\ DOMAIN r[i] = DOMAIN s[i]
          /\ r[i].id = t /\ r[i].subscribed = s[i].subscribed
    BY <2>1, <2>3
  <2>b. change(s) = r OBVIOUS
  <2> HIDE DEF m, r, change
  <2>7. /\ DOMAIN m = {TaskAgent} /\ DOMAIN m[1] = DOMAIN l[1]
        /\ m[1].tasks = r
        /\ \A f \in {"id", "connection", "resetContext"} : m[1][f] = l[1][f]
    BY <1>1, <1>a, <2>a, <2>b DEF TaskAgent, Shown
  <2>8. TasksOK(s) /\ Has(s, t) /\ SubscribedOf(s) = SubscribedOf(l[1].tasks)
    BY <2>a, WithTask DEF Shown
  <2>9. \A i \in DOMAIN s : s[i].id = t =>
          /\ {"id", "subscribed"} \subseteq DOMAIN r[i]
          /\ r[i].id = t /\ r[i].subscribed \in BOOLEAN
    BY <2>6, <2>8 DEF TasksOK
  <2>10. \A i \in DOMAIN s : r[i].subscribed = s[i].subscribed
    BY <2>5, <2>6
  <2>11. TasksOK(r) /\ SubscribedOf(r) = SubscribedOf(s)
    BY <2>4, <2>5, <2>8, <2>9, <2>10, TaskChanged
  <2> QED BY <2>7, <2>8, <2>11 DEF Same, Shown
<1> HIDE DEF m
<1>4. Shown(m) BY <1>3 DEF Same
<1>5. k = [i \in DOMAIN m |-> IF m[i].id = TaskAgent THEN show(m[i]) ELSE m[i]]
  BY Zenon DEF Patch
<1>c. /\ DOMAIN k = {TaskAgent} /\ DOMAIN k[1] = DOMAIN m[1]
      /\ \A f \in {"id", "connection", "resetContext", "tasks"} : k[1][f] = m[1][f]
  BY <1>4, <1>5 DEF TaskAgent, Shown
<1> HIDE DEF k
<1>6. Same(m, k) BY <1>4, <1>c, AgentChanged
<1>7. Same(l, k) BY <1>3, <1>6, SameSame
<1> QED BY <1>3, <1>7, <1>b

LEMMA ConfigsPushed ==
  ASSUME NEW l, Shown(l), NEW t, NEW replace, NEW upsert, NEW remove
  PROVE  Same(l, PushConfigs(l, TaskAgent, t, replace, upsert, remove))
<1> DEFINE without(list1) == IF remove = None THEN list1 ELSE Without(list1, remove)
           put(list1) ==
             IF upsert = None THEN list1
             ELSE IF \E i \in DOMAIN list1 : list1[i].id = upsert.id
             THEN [i \in DOMAIN list1 |->
                     IF list1[i].id = upsert.id THEN upsert ELSE list1[i]]
             ELSE Append(list1, upsert)
           see(e) == [e EXCEPT !.configs =
                        without(put(IF replace = None THEN @ ELSE replace))]
           change(w) == [i \in DOMAIN w |-> IF w[i].id = t THEN see(w[i]) ELSE w[i]]
           set(a) == [a EXCEPT !.tasks = change(With(a.tasks, t))]
           s == With(l[1].tasks, t)
           r == change(s)
           m == PushConfigs(l, TaskAgent, t, replace, upsert, remove)
<1>1. DOMAIN l = {TaskAgent} /\ l[1].id = TaskAgent BY DEF Shown
<1>2. m = [i \in DOMAIN l |-> IF l[i].id = TaskAgent THEN set(l[i]) ELSE l[i]]
  BY Zenon DEF PushConfigs, PatchTask, Patch, With
<1>3. TasksOK(s) /\ Has(s, t) /\ SubscribedOf(s) = SubscribedOf(l[1].tasks)
  BY WithTask DEF Shown
<1>4. s = With(l[1].tasks, t) OBVIOUS
<1> HIDE DEF without, put, s
<1>5. \A i \in DOMAIN s : /\ DOMAIN see(s[i]) = DOMAIN s[i]
                          /\ see(s[i]).id = s[i].id
                          /\ see(s[i]).subscribed = s[i].subscribed
  BY <1>3 DEF TasksOK
<1> HIDE DEF see
<1>6. DOMAIN r = DOMAIN s /\ r = [i \in DOMAIN s |-> r[i]] OBVIOUS
<1>7. \A i \in DOMAIN s : s[i].id # t => r[i] = s[i] OBVIOUS
<1>8. \A i \in DOMAIN s : s[i].id = t =>
        /\ {"id", "subscribed"} \subseteq DOMAIN r[i]
        /\ r[i].id = t /\ r[i].subscribed \in BOOLEAN
  BY <1>3, <1>5 DEF TasksOK
<1>9. \A i \in DOMAIN s : r[i].subscribed = s[i].subscribed
  BY <1>5
<1>10. change(s) = r OBVIOUS
<1> HIDE DEF m, r, change
<1>11. /\ DOMAIN m = {TaskAgent} /\ DOMAIN m[1] = DOMAIN l[1]
       /\ m[1].tasks = r
       /\ \A f \in {"id", "connection", "resetContext"} : m[1][f] = l[1][f]
  BY <1>1, <1>2, <1>4, <1>10 DEF TaskAgent, Shown
<1>12. TasksOK(r) /\ SubscribedOf(r) = SubscribedOf(s)
  BY <1>3, <1>6, <1>7, <1>8, <1>9, TaskChanged
<1>13. Same(l, m) BY <1>3, <1>11, <1>12 DEF Same, Shown
<1> QED BY <1>13 DEF m

LEMMA LookedUp ==
  ASSUME NEW l, Shown(l), NEW lookup
  PROVE  Same(l, TaskLookup(l, TaskAgent, lookup))
<1> DEFINE m == TaskLookup(l, TaskAgent, lookup)
<1>1. m = [i \in DOMAIN l |-> IF l[i].id = TaskAgent
                              THEN [l[i] EXCEPT !.lookup = lookup] ELSE l[i]]
  BY Zenon DEF TaskLookup, Patch
<1> HIDE DEF m
<1>2. /\ DOMAIN m = {TaskAgent} /\ DOMAIN m[1] = DOMAIN l[1]
      /\ \A f \in {"id", "connection", "resetContext", "tasks"} : m[1][f] = l[1][f]
  BY <1>1 DEF TaskAgent, Shown
<1>3. Same(l, m) BY <1>2, AgentChanged
<1> QED BY <1>3 DEF m

LEMMA TaskSelected ==
  ASSUME NEW l, Shown(l), NEW t
  PROVE  Same(l, SelectTask(l, TaskAgent, t))
<1> DEFINE m == SelectTask(l, TaskAgent, t)
<1>1. m = [i \in DOMAIN l |-> IF l[i].id = TaskAgent
                              THEN [l[i] EXCEPT !.selectedTask = t] ELSE l[i]]
  BY Zenon DEF SelectTask, Patch
<1> HIDE DEF m
<1>2. /\ DOMAIN m = {TaskAgent} /\ DOMAIN m[1] = DOMAIN l[1]
      /\ \A f \in {"id", "connection", "resetContext", "tasks"} : m[1][f] = l[1][f]
  BY <1>1 DEF TaskAgent, Shown
<1>3. Same(l, m) BY <1>2, AgentChanged
<1> QED BY <1>3 DEF m

(* A subscription starts or is over.                                       *)
LEMMA TaskSubscribed ==
  ASSUME NEW l, Shown(l), NEW t, NEW on \in BOOLEAN
  PROVE  LET m == Subscribed(l, TaskAgent, t, on)
         IN  /\ Shown(m) /\ m[1].connection = l[1].connection
             /\ SubscribedOf(m[1].tasks)
                  = IF on THEN SubscribedOf(l[1].tasks) \cup {t}
                    ELSE SubscribedOf(l[1].tasks) \ {t}
<1> DEFINE see(e) == [e EXCEPT !.subscribed = on]
           change(w) == [i \in DOMAIN w |-> IF w[i].id = t THEN see(w[i]) ELSE w[i]]
           set(a) == [a EXCEPT !.tasks = change(With(a.tasks, t))]
           s == With(l[1].tasks, t)
           r == change(s)
           m == Subscribed(l, TaskAgent, t, on)
<1>1. DOMAIN l = {TaskAgent} /\ l[1].id = TaskAgent BY DEF Shown
<1>2. m = [i \in DOMAIN l |-> IF l[i].id = TaskAgent THEN set(l[i]) ELSE l[i]]
  BY Zenon DEF Subscribed, PatchTask, Patch, With
<1>3. TasksOK(s) /\ Has(s, t) /\ SubscribedOf(s) = SubscribedOf(l[1].tasks)
  BY WithTask DEF Shown
<1>4. s = With(l[1].tasks, t) OBVIOUS
<1> HIDE DEF s
<1>5. \A i \in DOMAIN s : /\ DOMAIN see(s[i]) = DOMAIN s[i]
                          /\ see(s[i]).id = s[i].id
                          /\ see(s[i]).subscribed = on
  BY <1>3 DEF TasksOK
<1> HIDE DEF see
<1>6. DOMAIN r = DOMAIN s /\ r = [i \in DOMAIN s |-> r[i]] OBVIOUS
<1>7. \A i \in DOMAIN s : s[i].id # t => r[i] = s[i] OBVIOUS
<1>8. \A i \in DOMAIN s : s[i].id = t =>
        /\ {"id", "subscribed"} \subseteq DOMAIN r[i]
        /\ r[i].id = t /\ r[i].subscribed \in BOOLEAN
  BY <1>3, <1>5 DEF TasksOK
<1>9. \A i \in DOMAIN s : s[i].id = t => r[i].subscribed = on
  BY <1>5
<1>10. change(s) = r OBVIOUS
<1> HIDE DEF m, r, change
<1>11. /\ DOMAIN m = {TaskAgent} /\ DOMAIN m[1] = DOMAIN l[1]
       /\ m[1].tasks = r
       /\ \A f \in {"id", "connection", "resetContext"} : m[1][f] = l[1][f]
  BY <1>1, <1>2, <1>4, <1>10 DEF TaskAgent, Shown
<1>12. /\ TasksOK(r)
       /\ (\A i \in DOMAIN s : s[i].id = t => r[i].subscribed)
            => SubscribedOf(r) = SubscribedOf(s) \cup {t}
       /\ (\A i \in DOMAIN s : s[i].id = t => ~ r[i].subscribed)
            => SubscribedOf(r) = SubscribedOf(s) \ {t}
  BY <1>3, <1>6, <1>7, <1>8, TaskChanged
<1>a. SubscribedOf(r) = IF on THEN SubscribedOf(s) \cup {t}
                        ELSE SubscribedOf(s) \ {t}
  BY <1>9, <1>12
<1>13. /\ Shown(m) /\ m[1].connection = l[1].connection
       /\ SubscribedOf(m[1].tasks)
            = IF on THEN SubscribedOf(l[1].tasks) \cup {t}
              ELSE SubscribedOf(l[1].tasks) \ {t}
  BY <1>3, <1>11, <1>12, <1>a DEF Shown
<1> QED BY <1>13 DEF m

LEMMA Recorded ==
  ASSUME NEW l, Shown(l), NEW t, NEW label, NEW out, NEW select
  PROVE  Same(l, RecordTask(l, t, label, out, select))
<1> DEFINE ref == RefOf(out)
           isAbout == IF ref = Nothing THEN FALSE ELSE ref.taskId = t
<1>1. RecordTask(l, t, label, out, select)
        = IF isAbout
          THEN Task(l, TaskAgent, ref.taskId, OrNone(ref.state),
                    OrNone(ref.contextId), clock, label, select)
          ELSE Task(l, TaskAgent, t, None, None, clock, label, select)
  BY Zenon DEF RecordTask, Seen
<1> HIDE DEF ref, isAbout
<1> QED BY <1>1, TaskSeen

LEMMA TaskGot ==
  ASSUME NEW l, Shown(l), NEW out
  PROVE  Same(l, GotTask(l, out))
<1> DEFINE ref == RefOf(out)
           m == RecordTask(l, ref.taskId, "get", out, TRUE)
<1>1. GotTask(l, out)
        = IF ref = Nothing
          THEN TaskLookup(l, TaskAgent, Lookup(FALSE, FALSE))
          ELSE TaskLookup(m, TaskAgent, None)
  BY Zenon DEF GotTask
<1>2. Same(l, m) BY Recorded
<1> HIDE DEF ref, m
<1>3. Same(m, TaskLookup(m, TaskAgent, None)) BY <1>2, LookedUp DEF Same
<1>4. Same(l, TaskLookup(m, TaskAgent, None)) BY <1>2, <1>3, SameSame
<1>5. Same(l, TaskLookup(l, TaskAgent, Lookup(FALSE, FALSE))) BY LookedUp
<1> QED BY <1>1, <1>4, <1>5

(* A page of the list has one task here.                                   *)
LEMMA TasksListed ==
  ASSUME NEW l, Shown(l), NEW out, NEW x, out.ok => out.raw.tasks = <<x>>
  PROVE  Same(l, ListedTasks(l, out))
<1> DEFINE raws == IF out.ok THEN out.raw.tasks ELSE <<>>
           see(k, view) == IF view.taskId = Nothing THEN k
                           ELSE Seen(k, view, None, FALSE)
           step(f, i) == IF i = 0 THEN l
                         ELSE see(f[i - 1], View(raws[i], Version, Binding))
           isSeen(f) == f = [i \in 0..Len(raws) |-> step(f, i)]
           g == CHOOSE f : isSeen(f)
           fold == g[Len(raws)]
           end == Lookup(TRUE, out.ok /\ out.raw.nextPageToken)
<1>1. ListedTasks(l, out) = TaskLookup(fold, TaskAgent, end)
  BY Zenon DEF ListedTasks
<1>a. \A k, view : Same(l, k) => Same(l, see(k, view))
  <2>1. ASSUME NEW k, NEW view, Same(l, k)
        PROVE  Same(k, Seen(k, view, None, FALSE))
    <3>1. Shown(k) BY <2>1 DEF Same
    <3>2. Seen(k, view, None, FALSE)
            = Task(k, TaskAgent, view.taskId, OrNone(view.state),
                   OrNone(view.contextId), clock, None, FALSE)
      BY Zenon DEF Seen
    <3> QED BY <3>1, <3>2, TaskSeen
  <2> QED BY <2>1, SameSame
<1>b. Same(l, l) BY DEF Same
<1>c. (Len(raws) = 0) \/ (Len(raws) = 1)
  <2>1. Len(<<>>) = 0 BY EmptySeq
  <2>2. Len(<<x>>) = 1 OBVIOUS
  <2> QED BY <2>1, <2>2
<1> HIDE DEF see, raws, end
<1> DEFINE first == see(l, View(raws[1], Version, Binding))
           f == [i \in 0..Len(raws) |-> IF i = 0 THEN l ELSE first]
<1>d. \A i \in 0..Len(raws) : i = 0 \/ i = 1
  <2>1. CASE Len(raws) = 0 BY <2>1
  <2>2. CASE Len(raws) = 1 BY <2>2
  <2> QED BY <1>c, <2>1, <2>2
<1>e. isSeen(f)
  <2>1. \A i \in 0..Len(raws) : f[i] = step(f, i)
    <3> SUFFICES ASSUME NEW i \in 0..Len(raws) PROVE f[i] = step(f, i)
      OBVIOUS
    <3>1. CASE i = 0 BY <3>1
    <3>2. CASE i = 1
      <4>1. f[0] = l /\ i - 1 = 0 BY <1>c, <3>2
      <4> QED BY <3>2, <4>1
    <3> QED BY <1>d, <3>1, <3>2
  <2> QED BY <2>1
<1>f. isSeen(g) BY <1>e, Zenon
<1> HIDE DEF g
<1>g. g[0] = l BY <1>c, <1>f
<1>h. Len(raws) = 1 => g[1] = first
  <2>1. ASSUME Len(raws) = 1
        PROVE  g[1] = see(g[1 - 1], View(raws[1], Version, Binding))
    BY <1>f, <2>1
  <2> QED BY <1>g, <2>1
<1>2. Same(l, fold)
  <2>1. Same(l, first) BY <1>a, <1>b
  <2> HIDE DEF first
  <2> QED BY <1>b, <1>c, <1>g, <1>h, <2>1
<1> HIDE DEF fold
<1>3. Same(fold, TaskLookup(fold, TaskAgent, end)) BY <1>2, LookedUp DEF Same
<1> QED BY <1>1, <1>2, <1>3, SameSame

LEMMA OperationDone ==
  ASSUME NEW l, Shown(l), NEW c, NEW out
  PROVE  Same(l, TaskOperation(l, c, out))
<1> DEFINE said == RecordTask(l, c.task, c.op, out, FALSE)
           views(raws) == [i \in DOMAIN raws |-> Configs(c.task, raws[i])]
<1>1. TaskOperation(l, c, out)
        = IF ~ out.ok THEN said
          ELSE IF c.op = "listPush"
          THEN PushConfigs(said, TaskAgent, c.task, views(out.raw.configs), None, None)
          ELSE IF c.op \in {"createPush", "getPush"}
          THEN PushConfigs(said, TaskAgent, c.task, None,
                           Configs(c.task, out.raw), None)
          ELSE IF c.op = "deletePush"
          THEN PushConfigs(said, TaskAgent, c.task, None, None, c.config)
          ELSE said
  BY Zenon DEF TaskOperation
<1>2. Same(l, said) BY Recorded
<1> HIDE DEF said, views
<1>3. Shown(said) BY <1>2 DEF Same
<1>4. \A replace, upsert, remove :
        Same(l, PushConfigs(said, TaskAgent, c.task, replace, upsert, remove))
  BY <1>2, <1>3, ConfigsPushed, SameSame
<1> QED BY <1>1, <1>2, <1>4

LEMMA AnswerShown ==
  ASSUME NEW l, Shown(l), NEW c, NEW out,
         c.op = "list" /\ out.ok => \E x : out.raw.tasks = <<x>>
  PROVE  Same(l, Answered(l, c, out))
<1>1. CASE c.op = "list"
  <2>1. PICK x : out.ok => out.raw.tasks = <<x>> BY <1>1
  <2>2. Answered(l, c, out) = ListedTasks(l, out) BY <1>1, Zenon DEF Answered
  <2> QED BY <2>1, <2>2, TasksListed
<1>2. CASE c.op # "list"
  <2>1. \/ Answered(l, c, out) = GotTask(l, out)
        \/ Answered(l, c, out) = RecordTask(l, c.task, c.op, out, FALSE)
        \/ Answered(l, c, out) = TaskOperation(l, c, out)
    BY <1>2, Zenon DEF Answered
  <2> QED BY <2>1, TaskGot, Recorded, OperationDone
<1> QED BY <1>1, <1>2

(* The feed says what the next message of the connection continues.        *)
LEMMA ConversationMoves ==
  ASSUME NEW l, Shown(l), NEW conv \in Conversations
  PROVE  LET m == NotificationConversation(l, TheConn, conv)
         IN  /\ Shown(m)
             /\ Conv(m[1].connection.context, m[1].connection.task) = conv
             /\ SubscribedOf(m[1].tasks) = SubscribedOf(l[1].tasks)
<1> DEFINE m == NotificationConversation(l, TheConn, conv)
<1>1. /\ DOMAIN l = {1} /\ l[1].connection \in Connections
      /\ l[1].connection # None /\ l[1].connection.id = TheConn
      /\ l[1].resetContext = FALSE
  BY TasksAssumption DEF Shown, Connections, TaskAgent
<1>2. DOMAIN m = {1} /\ m[1] = Conversation(l[1], conv, "other")
  BY <1>1 DEF NotificationConversation
<1> HIDE DEF m
<1>3. /\ DOMAIN m[1] = DOMAIN l[1]
      /\ m[1].connection = [[l[1].connection EXCEPT !.context = conv.context]
                              EXCEPT !.task = conv.task]
      /\ m[1].resetContext = FALSE
      /\ m[1].id = l[1].id /\ m[1].tasks = l[1].tasks
  BY <1>1, <1>2 DEF Conversation, Shown
<1>4. /\ m[1].connection \in Connections
      /\ m[1].connection.context = conv.context
      /\ m[1].connection.task = conv.task
  BY <1>1, <1>3 DEF Connections, Conversations
<1>5. Conv(conv.context, conv.task) = conv BY DEF Conv, Conversations
<1>6. Shown(m) BY <1>2, <1>3, <1>4 DEF Shown, TaskAgent
<1> QED BY <1>3, <1>4, <1>5, <1>6 DEF m
-----------------------------------------------------------------------------
(* The feed.  Some of the notifications were heard and the others are      *)
(* under way: together they are in order, and the inspector keeps the      *)
(* newest of them.                                                         *)
NoticeEvents == [event : {"notification"}, n : Notices]

Notified(n) == [event |-> "notification", n |-> n]

Skipped(k) == IF k > MaxNotices THEN k - MaxNotices ELSE 0

Full(list1, events) ==
  [i \in 1..(Len(list1) + Len(events)) |->
     IF i <= Len(list1) THEN list1[i] ELSE events[i - Len(list1)].n]

Rising(f, k, top) ==
  \A i \in 1..k : /\ f[i].id <= top
                  /\ \A j \in 1..k : i < j => f[i].id < f[j].id

(* What the events say of the conversation, after conv.                    *)
Continues(events, conv, last) ==
  IF \A i \in DOMAIN events : events[i].n.conversation = None THEN conv = last
  ELSE \E i \in DOMAIN events :
         /\ events[i].n.conversation = last
         /\ \A j \in DOMAIN events : j > i => events[j].n.conversation = None

Fed(list1, events, conv, top, kept, last) ==
  /\ list1 \in Seq(Notices) /\ Len(list1) <= MaxNotices
  /\ events \in Seq(NoticeEvents) /\ kept \in Seq(Notices)
  /\ LET k == Len(list1) + Len(events)
         f == Full(list1, events)
     IN  /\ Rising(f, k, top)
         /\ Len(kept) = k - Skipped(k)
         /\ \A i \in 1..Len(kept) : kept[i] = f[i + Skipped(k)]
  /\ last \in Conversations /\ conv \in Conversations
  /\ Continues(events, conv, last)

LEMMA NewestIs ==
  ASSUME NEW s \in Seq(Notices)
  PROVE  /\ Newest(s) \in Seq(Notices)
         /\ Len(Newest(s)) = Len(s) - Skipped(Len(s))
         /\ \A i \in 1..Len(Newest(s)) : Newest(s)[i] = s[i + Skipped(Len(s))]
<1> DEFINE m == IF Len(s) > MaxNotices THEN Len(s) - MaxNotices + 1 ELSE 1
           n == Len(s)
<1>1. n \in Nat /\ \A i \in 1..n : s[i] \in Notices
  BY LenProperties, ElementOfSeq
<1>2. MaxNotices \in Nat /\ MaxNotices > 0 BY TasksAssumption
<1>3. m \in Int /\ n \in Int /\ m >= 1 /\ m <= n + 1 /\ m = Skipped(n) + 1
  BY <1>1, <1>2 DEF Skipped
<1>4. \A i \in m..n : s[i] \in Notices BY <1>1, <1>3
<1>5. Newest(s) = SubSeq(s, m, n) BY DEF Newest
<1> HIDE DEF m, n
<1>6. /\ SubSeq(s, m, n) \in Seq(Notices)
      /\ Len(SubSeq(s, m, n)) = IF m <= n THEN n - m + 1 ELSE 0
      /\ \A i \in 1..(n - m + 1) : SubSeq(s, m, n)[i] = s[m + i - 1]
  BY <1>3, <1>4, SubSeqProperties
<1>7. Skipped(n) \in Nat /\ Skipped(n) <= n BY <1>1, <1>2 DEF Skipped
<1>8. Len(Newest(s)) = n - Skipped(n) BY <1>1, <1>3, <1>5, <1>6, <1>7
<1>9. \A i \in 1..Len(Newest(s)) : Newest(s)[i] = s[i + Skipped(n)]
  <2> SUFFICES ASSUME NEW i \in 1..Len(Newest(s))
               PROVE  Newest(s)[i] = s[i + Skipped(n)]
    OBVIOUS
  <2>1. i \in 1..(n - m + 1) BY <1>1, <1>3, <1>7, <1>8
  <2>2. m + i - 1 = i + Skipped(n) BY <1>3, <1>7, <2>1
  <2> QED BY <1>5, <1>6, <2>1, <2>2
<1> QED BY <1>5, <1>6, <1>8, <1>9 DEF n

LEMMA FeedStarts ==
  ASSUME NEW kept \in Seq(Notices), Len(kept) <= MaxNotices, NEW top,
         Rising(kept, Len(kept), top), NEW last \in Conversations
  PROVE  Fed(kept, <<>>, last, top, kept, last)
<1>1. /\ Len(kept) \in Nat /\ <<>> \in Seq(NoticeEvents) /\ Len(<<>>) = 0
      /\ DOMAIN <<>> = {} /\ MaxNotices \in Nat
  BY LenProperties, EmptySeq, ListOfNone, TasksAssumption
<1>2. Len(kept) + Len(<<>>) = Len(kept) BY <1>1
<1>3. Full(kept, <<>>) = [i \in 1..Len(kept) |-> kept[i]]
  BY <1>1, <1>2 DEF Full
<1>4. Skipped(Len(kept)) = 0 BY <1>1 DEF Skipped
<1>5. Rising(Full(kept, <<>>), Len(kept), top) BY <1>3 DEF Rising
<1>6. \A i \in 1..Len(kept) : kept[i] = Full(kept, <<>>)[i + 0]
  BY <1>1, <1>3
<1>7. Continues(<<>>, last, last) BY <1>1 DEF Continues
<1> QED BY <1>1, <1>2, <1>4, <1>5, <1>6, <1>7 DEF Fed

LEMMA FeedRead ==
  ASSUME NEW list1, NEW conv, NEW top, NEW kept, NEW last,
         Fed(list1, <<>>, conv, top, kept, last)
  PROVE  list1 = kept /\ conv = last
<1>1. /\ Len(list1) \in Nat /\ Len(<<>>) = 0 /\ DOMAIN <<>> = {}
      /\ MaxNotices \in Nat /\ Len(list1) <= MaxNotices
      /\ list1 \in Seq(Notices) /\ kept \in Seq(Notices)
  BY LenProperties, EmptySeq, ListOfNone, TasksAssumption DEF Fed
<1>2. Len(list1) + Len(<<>>) = Len(list1) BY <1>1
<1>3. Full(list1, <<>>) = [i \in 1..Len(list1) |-> list1[i]]
  BY <1>1, <1>2 DEF Full
<1>4. Skipped(Len(list1)) = 0 BY <1>1 DEF Skipped
<1>5. Len(kept) = Len(list1) - 0 BY <1>2, <1>4 DEF Fed
<1>6. \A i \in 1..Len(list1) : kept[i] = list1[i]
  <2>1. \A i \in 1..Len(kept) : kept[i] = Full(list1, <<>>)[i + 0]
    BY <1>2, <1>4 DEF Fed
  <2> QED BY <1>1, <1>3, <1>5, <2>1
<1>7. list1 = kept BY <1>1, <1>5, <1>6, SeqEqual
<1>8. Continues(<<>>, conv, last) BY DEF Fed
<1> QED BY <1>1, <1>7, <1>8 DEF Continues

(* What the inspector keeps is in order too, and bounded.                  *)
LEMMA FeedKept ==
  ASSUME NEW list1, NEW events, NEW conv, NEW top, NEW kept, NEW last,
         Fed(list1, events, conv, top, kept, last)
  PROVE  /\ kept \in Seq(Notices) /\ Len(kept) <= MaxNotices
         /\ Rising(kept, Len(kept), top)
<1> DEFINE k == Len(list1) + Len(events)
           f == Full(list1, events)
<1>1. /\ k \in Nat /\ Len(kept) \in Nat /\ MaxNotices \in Nat
  BY LenProperties, TasksAssumption DEF Fed
<1>2. /\ Rising(f, k, top) /\ Len(kept) = k - Skipped(k)
      /\ \A i \in 1..Len(kept) : kept[i] = f[i + Skipped(k)]
  BY DEF Fed
<1> HIDE DEF k, f
<1>3. Skipped(k) \in Nat /\ Len(kept) <= MaxNotices BY <1>1, <1>2 DEF Skipped
<1>4. \A i \in 1..Len(kept) : i + Skipped(k) \in 1..k
  BY <1>1, <1>2, <1>3
<1>5. ASSUME NEW i \in 1..Len(kept), NEW j \in 1..Len(kept), i < j
      PROVE  i + Skipped(k) < j + Skipped(k)
  BY <1>3, <1>5
<1>6. Rising(kept, Len(kept), top) BY <1>2, <1>4, <1>5 DEF Rising
<1> QED BY <1>3, <1>6 DEF Fed

(* The inspector is notified and passes it on.                             *)
LEMMA FeedNotified ==
  ASSUME NEW list1, NEW events, NEW conv, NEW top \in Nat, NEW kept, NEW last,
         Fed(list1, events, conv, top, kept, last),
         NEW n \in Notices, n.id = top + 1, NEW next \in Conversations,
         IF n.conversation = None THEN next = last ELSE next = n.conversation
  PROVE  Fed(list1, Append(events, Notified(n)), conv, top + 1,
             Newest(Append(kept, n)), next)
<1> DEFINE b == Len(list1)
           q == Len(events)
           k == b + q
           f == Full(list1, events)
           after == Append(events, Notified(n))
           g == Full(list1, after)
           longer == Append(kept, n)
           m == Newest(longer)
<1>1. /\ b \in Nat /\ q \in Nat /\ k \in Nat /\ Len(kept) \in Nat
      /\ list1 \in Seq(Notices) /\ events \in Seq(NoticeEvents)
      /\ kept \in Seq(Notices) /\ b <= MaxNotices
      /\ MaxNotices \in Nat /\ MaxNotices > 0
      /\ DOMAIN events = 1..q
  BY LenProperties, TasksAssumption DEF Fed
<1>2. Notified(n) \in NoticeEvents /\ Notified(n).n = n
  BY DEF Notified, NoticeEvents
<1>3. /\ after \in Seq(NoticeEvents) /\ Len(after) = q + 1
      /\ \A i \in 1..q : after[i] = events[i]
      /\ after[q + 1] = Notified(n)
  BY <1>1, <1>2, AppendProperties
<1>4. DOMAIN after = 1..(q + 1) BY <1>3, LenProperties
<1>5. /\ longer \in Seq(Notices) /\ Len(longer) = Len(kept) + 1
      /\ \A i \in 1..Len(kept) : longer[i] = kept[i]
      /\ longer[Len(kept) + 1] = n
  BY <1>1, AppendProperties
<1>6. /\ m \in Seq(Notices)
      /\ Len(m) = Len(longer) - Skipped(Len(longer))
      /\ \A i \in 1..Len(m) : m[i] = longer[i + Skipped(Len(longer))]
  BY <1>5, NewestIs
<1>7. /\ Rising(f, k, top) /\ Len(kept) = k - Skipped(k)
      /\ \A i \in 1..Len(kept) : kept[i] = f[i + Skipped(k)]
  BY DEF Fed
<1>a. f = [i \in 1..k |-> IF i <= b THEN list1[i] ELSE events[i - b].n]
  BY DEF Full
<1>b. g = [i \in 1..(b + Len(after)) |-> IF i <= b THEN list1[i] ELSE after[i - b].n]
  BY DEF Full
<1>c. \A i \in 1..k : f[i] \in Notices
  <2>1. \A i \in 1..b : list1[i] \in Notices BY <1>1, ElementOfSeq
  <2>2. \A i \in 1..q : events[i] \in NoticeEvents BY <1>1, ElementOfSeq
  <2>3. \A i \in 1..q : events[i].n \in Notices BY <2>2 DEF NoticeEvents
  <2> QED BY <1>1, <1>a, <2>1, <2>3
<1> HIDE DEF after, longer, m, f, g
<1>8. /\ b + Len(after) = k + 1
      /\ \A i \in 1..k : g[i] = f[i]
      /\ g[k + 1] = n
  <2>1. b + Len(after) = k + 1 BY <1>1, <1>3
  <2>2. ASSUME NEW i \in 1..k PROVE g[i] = f[i]
    <3>1. CASE i <= b BY <1>1, <1>a, <1>b, <2>1, <3>1
    <3>2. CASE ~ (i <= b)
      <4>1. i - b \in 1..q BY <1>1, <3>2
      <4>2. f[i] = events[i - b].n BY <1>a, <3>2
      <4>3. i \in 1..(b + Len(after)) BY <1>1, <2>1
      <4>4. g[i] = after[i - b].n BY <1>b, <3>2, <4>3
      <4> QED BY <1>3, <4>1, <4>2, <4>4
    <3> QED BY <3>1, <3>2
  <2>3. g[k + 1] = n
    <3>1. ~ (k + 1 <= b) /\ (k + 1) - b = q + 1
      <4>1. q >= 0 BY <1>1
      <4>2. k + 1 > b
        BY <1>1, <4>1
      <4>3. (k + 1) - b = q + 1 BY <1>1
      <4> QED BY <1>1, <4>2, <4>3
    <3>2. g[k + 1] = after[(k + 1) - b].n BY <1>1, <1>b, <2>1, <3>1
    <3> QED BY <1>2, <1>3, <3>1, <3>2
  <2> QED BY <2>1, <2>2, <2>3
<1> HIDE DEF k
<1>9. Rising(g, k + 1, top + 1)
  <2>1. \A i \in 1..(k + 1) : i \in 1..k \/ i = k + 1 BY <1>1
  <2>2. \A i \in 1..k : /\ f[i].id \in Nat /\ f[i].id <= top
                        /\ \A j \in 1..k : i < j => f[i].id < f[j].id
    BY <1>7, <1>c DEF Rising, Notices
  <2>3. ASSUME NEW i \in 1..(k + 1) PROVE g[i].id <= top + 1
    <3>1. CASE i \in 1..k BY <1>8, <2>2, <3>1
    <3>2. CASE i = k + 1 BY <1>8, <3>2
    <3> QED BY <2>1, <3>1, <3>2
  <2>4. ASSUME NEW i \in 1..(k + 1), NEW j \in 1..(k + 1), i < j
        PROVE  g[i].id < g[j].id
    <3>1. i \in 1..k BY <1>1, <2>4
    <3>2. CASE j \in 1..k BY <1>8, <2>2, <2>4, <3>1, <3>2
    <3>3. CASE j = k + 1
      <4>1. g[i].id <= top /\ g[i].id \in Nat BY <1>8, <2>2, <3>1
      <4>2. g[j].id = top + 1 BY <1>8, <3>3
      <4> QED BY <4>1, <4>2
    <3> QED BY <2>1, <3>2, <3>3
  <2> QED BY <2>3, <2>4 DEF Rising
<1>10. Len(m) = (k + 1) - Skipped(k + 1)
  BY <1>1, <1>5, <1>6, <1>7 DEF Skipped
<1>11. \A i \in 1..Len(m) : m[i] = g[i + Skipped(k + 1)]
  <2> SUFFICES ASSUME NEW i \in 1..Len(m) PROVE m[i] = g[i + Skipped(k + 1)]
    OBVIOUS
  <2>1. /\ Skipped(Len(longer)) \in Nat /\ Skipped(k) \in Nat
        /\ Skipped(k + 1) = Skipped(k) + Skipped(Len(longer))
        /\ Len(kept) + Skipped(k) = k
    BY <1>1, <1>5, <1>7 DEF Skipped
  <2> DEFINE j == i + Skipped(Len(longer))
  <2>2. /\ j \in 1..(Len(kept) + 1)
        /\ i + Skipped(k + 1) = j + Skipped(k)
    <3>1. Len(longer) = Len(kept) + 1 /\ Len(m) = Len(longer) - Skipped(Len(longer))
      BY <1>5, <1>6
    <3>2. Len(m) \in Int BY <1>1, <2>1, <3>1
    <3>3. i \in Int /\ 1 <= i /\ i <= Len(m) BY <3>2
    <3>4. j \in 1..(Len(kept) + 1) BY <1>1, <2>1, <3>1, <3>3
    <3>5. i + Skipped(k + 1) = j + Skipped(k) BY <2>1, <3>3
    <3> QED BY <3>4, <3>5
  <2>3. m[i] = longer[j] BY <1>6
  <2> HIDE DEF j
  <2>4. CASE j \in 1..Len(kept)
    <3>1. j + Skipped(k) \in 1..k BY <1>1, <2>1, <2>4
    <3> QED BY <1>5, <1>7, <1>8, <2>2, <2>3, <2>4, <3>1
  <2>5. CASE j = Len(kept) + 1
    <3>1. j + Skipped(k) = k + 1 BY <1>1, <2>1, <2>5
    <3>2. g[i + Skipped(k + 1)] = n BY <1>8, <2>2, <3>1
    <3>3. longer[j] = n BY <1>5, <2>5
    <3> QED BY <2>3, <3>2, <3>3
  <2>6. j \in 1..Len(kept) \/ j = Len(kept) + 1 BY <1>1, <2>2
  <2> QED BY <2>4, <2>5, <2>6
<1>12. conv \in Conversations /\ Continues(events, conv, last) BY DEF Fed
<1>13. Continues(after, conv, next)
  <2>1. \A i \in 1..(q + 1) : i \in 1..q \/ i = q + 1 BY <1>1
  <2>2. after[q + 1].n = n BY <1>2, <1>3
  <2>3. q + 1 \in DOMAIN after /\ \A j \in DOMAIN after : ~ (j > q + 1)
    BY <1>1, <1>4
  <2>4. CASE n.conversation # None
    BY <1>4, <2>2, <2>3, <2>4 DEF Continues
  <2>5. CASE n.conversation = None
    <3>1. next = last BY <2>5
    <3>2. CASE \A i \in DOMAIN events : events[i].n.conversation = None
      BY <1>1, <1>3, <1>4, <1>12, <2>1, <2>2, <2>5, <3>1, <3>2 DEF Continues
    <3>3. CASE ~ \A i \in DOMAIN events : events[i].n.conversation = None
      <4>1. PICK i \in 1..q :
              /\ events[i].n.conversation = last
              /\ \A j \in 1..q : j > i => events[j].n.conversation = None
        BY <1>1, <1>12, <3>3 DEF Continues
      <4>2. i \in DOMAIN after /\ after[i].n.conversation = last
        BY <1>1, <1>3, <1>4, <4>1
      <4>3. \A j \in DOMAIN after : j > i => after[j].n.conversation = None
        BY <1>3, <1>4, <2>1, <2>2, <2>5, <4>1
      <4>4. last # None BY TasksAssumption DEF Fed
      <4> QED BY <3>1, <4>2, <4>3, <4>4 DEF Continues
    <3> QED BY <3>2, <3>3
  <2> QED BY <2>4, <2>5
<1> QED
  BY <1>1, <1>3, <1>6, <1>8, <1>9, <1>10, <1>11, <1>12, <1>13
  DEF Fed, after, longer, m, f, g, k
(* The UI hears the next notification.                                     *)
LEMMA FeedHeard ==
  ASSUME NEW list1, NEW events, NEW conv, NEW top \in Nat, NEW kept, NEW last,
         Fed(list1, events, conv, top, kept, last), events # <<>>
  PROVE  LET n == Head(events).n
             next == IF n.conversation = None THEN conv ELSE n.conversation
         IN  /\ Head(events) \in NoticeEvents
             /\ \A i \in DOMAIN list1 : list1[i].id # n.id
             /\ Fed(Newest(Append(list1, n)), Tail(events), next, top, kept, last)
<1> DEFINE b == Len(list1)
           q == Len(events)
           k == b + q
           f == Full(list1, events)
           n == Head(events).n
           next == IF n.conversation = None THEN conv ELSE n.conversation
           rest == Tail(events)
           longer == Append(list1, n)
           m == Newest(longer)
           s == Skipped(b + 1)
           h == k - s
           g == Full(m, rest)
<1>1. /\ b \in Nat /\ q \in Nat /\ k \in Nat /\ Len(kept) \in Nat
      /\ list1 \in Seq(Notices) /\ events \in Seq(NoticeEvents)
      /\ kept \in Seq(Notices) /\ b <= MaxNotices
      /\ MaxNotices \in Nat /\ MaxNotices > 0
      /\ DOMAIN events = 1..q /\ DOMAIN list1 = 1..b
  BY LenProperties, TasksAssumption DEF Fed
<1>2. q > 0 /\ Head(events) = events[1]
  <2>1. q # 0 BY <1>1, EmptySeq
  <2> QED BY <1>1, <2>1
<1>3. Head(events) \in NoticeEvents /\ n \in Notices
  <2>1. events[1] \in NoticeEvents BY <1>1, <1>2, ElementOfSeq
  <2> QED BY <1>2, <2>1 DEF NoticeEvents
<1>4. /\ rest \in Seq(NoticeEvents) /\ Len(rest) = q - 1
      /\ \A i \in 1..(q - 1) : rest[i] = events[i + 1]
  BY <1>1, HeadTailProperties
<1>5. DOMAIN rest = 1..(q - 1) BY <1>4, LenProperties
<1>6. /\ longer \in Seq(Notices) /\ Len(longer) = b + 1
      /\ \A i \in 1..b : longer[i] = list1[i]
      /\ longer[b + 1] = n
  BY <1>1, <1>3, AppendProperties
<1>7. /\ m \in Seq(Notices) /\ Len(m) = (b + 1) - s
      /\ \A i \in 1..Len(m) : m[i] = longer[i + s]
  BY <1>6, NewestIs
<1>8. /\ Rising(f, k, top) /\ Len(kept) = k - Skipped(k)
      /\ \A i \in 1..Len(kept) : kept[i] = f[i + Skipped(k)]
  BY DEF Fed
<1>9. /\ s \in {0, 1} /\ h \in Nat /\ Skipped(k) = Skipped(h) + s
      /\ (b + 1) - s <= MaxNotices /\ Skipped(k) \in Nat /\ Skipped(h) \in Nat
  <2>1. k >= b + 1 /\ k = b + q BY <1>1, <1>2
  <2>2. k \in Nat /\ b \in Nat /\ b <= MaxNotices BY <1>1
  <2>a. s = Skipped(b + 1) /\ h = k - s OBVIOUS
  <2> HIDE DEF k, b, s, h
  <2>3. CASE b = MaxNotices
    <3>1. s = 1 BY <1>1, <2>2, <2>3, <2>a DEF Skipped
    <3>2. h = k - 1 /\ h \in Nat /\ h >= MaxNotices
      BY <1>1, <2>1, <2>2, <2>3, <2>a, <3>1
    <3>3. Skipped(k) = k - MaxNotices BY <1>1, <2>1, <2>2, <2>3 DEF Skipped
    <3>4. Skipped(h) = h - MaxNotices
      BY <1>1, <3>2 DEF Skipped
    <3> QED BY <1>1, <2>1, <2>2, <2>3, <3>1, <3>2, <3>3, <3>4
  <2>4. CASE b < MaxNotices
    <3>1. s = 0 BY <1>1, <2>2, <2>4, <2>a DEF Skipped
    <3>2. h = k BY <2>2, <2>a, <3>1
    <3>3. Skipped(k) \in Nat BY <1>1, <2>2 DEF Skipped
    <3> QED BY <1>1, <2>2, <2>4, <3>1, <3>2, <3>3
  <2> QED BY <1>1, <2>2, <2>3, <2>4
<1>a. f = [i \in 1..k |-> IF i <= b THEN list1[i] ELSE events[i - b].n]
  BY DEF Full
<1>b. g = [i \in 1..(Len(m) + Len(rest)) |->
             IF i <= Len(m) THEN m[i] ELSE rest[i - Len(m)].n]
  BY DEF Full
<1>c. Len(m) + Len(rest) = h
  <2>1. h = (b + q) - s OBVIOUS
  <2> HIDE DEF b, q, s, m, rest, h
  <2> QED BY <1>1, <1>4, <1>7, <1>9, <2>1
<1>d. \A i \in 1..k : f[i] \in Notices
  <2>1. \A i \in 1..b : list1[i] \in Notices BY <1>1, ElementOfSeq
  <2>2. \A i \in 1..q : events[i] \in NoticeEvents BY <1>1, ElementOfSeq
  <2>3. \A i \in 1..q : events[i].n \in Notices BY <2>2 DEF NoticeEvents
  <2> QED BY <1>1, <1>a, <2>1, <2>3
<1>e. f[b + 1] = n
  <2>1. b + 1 \in 1..k /\ ~ (b + 1 <= b) /\ (b + 1) - b = 1 BY <1>1, <1>2
  <2>2. f[b + 1] = events[(b + 1) - b].n BY <1>a, <2>1
  <2> QED BY <1>2, <2>1, <2>2
<1> HIDE DEF n, rest, longer, m, f, g, s, h
<1>10. \A i \in 1..h : i + s \in 1..k /\ g[i] = f[i + s]
  <2> SUFFICES ASSUME NEW i \in 1..h PROVE i + s \in 1..k /\ g[i] = f[i + s]
    OBVIOUS
  <2>1. i \in Nat /\ i >= 1 /\ i <= h BY <1>9
  <2>a. h = k - s BY DEF h
  <2>2. i + s \in 1..k BY <1>1, <1>9, <2>1, <2>a
  <2>3. CASE i <= Len(m)
    <3>1. g[i] = m[i] BY <1>b, <1>c, <2>3
    <3>2. Len(m) \in Int BY <1>1, <1>7, <1>9
    <3>3. i \in 1..Len(m) BY <2>1, <2>3, <3>2
    <3>4. m[i] = longer[i + s] BY <1>7, <3>3
    <3>5. i + s \in 1..b \/ i + s = b + 1 BY <1>1, <1>7, <1>9, <2>1, <2>3
    <3>6. CASE i + s \in 1..b
      <4>1. f[i + s] = list1[i + s] BY <1>1, <1>a, <2>2, <3>6
      <4> QED BY <1>6, <2>2, <3>1, <3>4, <3>6, <4>1
    <3>7. CASE i + s = b + 1 BY <1>6, <1>e, <2>2, <3>1, <3>4, <3>7
    <3> QED BY <3>5, <3>6, <3>7
  <2>4. CASE ~ (i <= Len(m))
    <3> DEFINE j == i - Len(m)
    <3>1. g[i] = rest[j].n BY <1>b, <1>c, <2>4
    <3>2. j \in 1..(q - 1) BY <1>1, <1>7, <1>9, <2>1, <2>4, <2>a
    <3>3. ~ (i + s <= b) /\ (i + s) - b = j + 1
      BY <1>1, <1>7, <1>9, <2>1, <2>4
    <3>4. f[i + s] = events[(i + s) - b].n BY <1>a, <2>2, <3>3
    <3>5. rest[j] = events[j + 1] BY <1>4, <3>2
    <3> QED BY <2>2, <3>1, <3>3, <3>4, <3>5
  <2> QED BY <2>3, <2>4
<1> HIDE DEF k
<1>11. Rising(g, h, top)
  <2>1. ASSUME NEW i \in 1..h, NEW j \in 1..h, i < j PROVE i + s < j + s
    BY <1>9, <2>1
  <2> QED BY <1>8, <1>10, <2>1 DEF Rising
<1>12. /\ Len(kept) = h - Skipped(h)
       /\ \A i \in 1..Len(kept) : kept[i] = g[i + Skipped(h)]
  <2>1. h = k - s BY DEF h, k
  <2>2. Len(kept) = h - Skipped(h) BY <1>1, <1>8, <1>9, <2>1
  <2>3. ASSUME NEW i \in 1..Len(kept) PROVE kept[i] = g[i + Skipped(h)]
    <3>1. kept[i] = f[i + Skipped(k)] BY <1>8
    <3>2. i + Skipped(h) \in 1..h BY <1>1, <1>9, <2>2
    <3>3. (i + Skipped(h)) + s = i + Skipped(k) BY <1>1, <1>9
    <3> QED BY <1>10, <3>1, <3>2, <3>3
  <2> QED BY <2>2, <2>3
<1>13. \A i \in DOMAIN list1 : list1[i].id # n.id
  <2> SUFFICES ASSUME NEW i \in 1..b PROVE list1[i].id # n.id
    BY <1>1
  <2>1. i \in 1..k /\ b + 1 \in 1..k /\ i < b + 1 BY <1>1, <1>2 DEF k
  <2>2. f[i] = list1[i] BY <1>1, <1>a, <2>1
  <2>3. f[i].id < f[b + 1].id BY <1>8, <2>1 DEF Rising
  <2>4. f[i].id \in Nat /\ f[b + 1].id \in Nat BY <1>d, <2>1 DEF Notices
  <2> QED BY <1>e, <2>2, <2>3, <2>4
<1>14. last \in Conversations /\ conv \in Conversations /\ Continues(events, conv, last)
  BY DEF Fed
<1>15. next \in Conversations BY <1>3, <1>14 DEF Notices
<1>16. Continues(rest, next, last)
  <2>1. \A i \in 1..q : i = 1 \/ i - 1 \in 1..(q - 1) BY <1>1
  <2>2. \A i \in 1..(q - 1) : i + 1 \in 1..q /\ rest[i] = events[i + 1]
    BY <1>1, <1>4
  <2>3. events[1].n = n BY <1>2 DEF n
  <2>4. CASE \A i \in DOMAIN events : events[i].n.conversation = None
    <3>1. \A i \in DOMAIN rest : rest[i].n.conversation = None
      BY <1>1, <1>5, <2>2, <2>4
    <3>2. conv = last BY <1>14, <2>4 DEF Continues
    <3>3. 1 \in DOMAIN events BY <1>1, <1>2
    <3>4. next = conv BY <2>3, <2>4, <3>3
    <3> QED BY <3>1, <3>2, <3>4 DEF Continues
  <2>5. CASE ~ \A i \in DOMAIN events : events[i].n.conversation = None
    <3>1. PICK i \in 1..q :
            /\ events[i].n.conversation = last
            /\ \A j \in 1..q : j > i => events[j].n.conversation = None
      BY <1>1, <1>14, <2>5 DEF Continues
    <3>a. last # None BY <1>14, TasksAssumption
    <3>2. CASE i = 1
      <4>1. \A j \in DOMAIN rest : rest[j].n.conversation = None
        <5> SUFFICES ASSUME NEW j \in 1..(q - 1)
                     PROVE  rest[j].n.conversation = None
          BY <1>5
        <5>1. j + 1 > i /\ j + 1 \in 1..q BY <1>1, <2>2, <3>2
        <5> QED BY <2>2, <3>1, <5>1
      <4>2. next = last BY <2>3, <3>1, <3>2, <3>a
      <4> QED BY <4>1, <4>2 DEF Continues
    <3>3. CASE i # 1
      <4> DEFINE e == i - 1
      <4>1. e \in 1..(q - 1) /\ e + 1 = i BY <1>1, <2>1, <3>3
      <4>2. rest[e].n.conversation = last BY <2>2, <3>1, <4>1
      <4>3. \A j \in DOMAIN rest : j > e => rest[j].n.conversation = None
        <5> SUFFICES ASSUME NEW j \in 1..(q - 1), j > e
                     PROVE  rest[j].n.conversation = None
          BY <1>5
        <5>1. j + 1 > i /\ j + 1 \in 1..q BY <1>1, <2>2, <4>1
        <5> QED BY <2>2, <3>1, <5>1
      <4> HIDE DEF e
      <4> QED BY <1>5, <3>a, <4>1, <4>2, <4>3 DEF Continues
    <3> QED BY <3>2, <3>3
  <2> QED BY <2>4, <2>5
<1>17. Len(m) <= MaxNotices BY <1>7, <1>9
<1>18. Fed(m, rest, next, top, kept, last)
  BY <1>1, <1>4, <1>7, <1>c, <1>11, <1>12, <1>14, <1>15, <1>16, <1>17
  DEF Fed, g
<1> QED BY <1>3, <1>13, <1>18 DEF m, longer, n, rest
-----------------------------------------------------------------------------
(* The tasks of an agent: operations under way, and the feed.              *)
CallOK(c) ==
  /\ {"op", "task", "answer"} \subseteq DOMAIN c
  /\ c.op = "list" /\ c.answer # None /\ c.answer.ok
       => \E x : c.answer.raw.tasks = <<x>>

Streaming == {c.task : c \in {d \in calls : d.op = "subscribe"}}

CallsInv ==
  /\ \A c \in calls : CallOK(c)
  /\ \A c, d \in calls :
       c.op = "subscribe" /\ d.op = "subscribe" /\ c.task = d.task => c = d

Followed ==
  /\ channel \in Seq(FeedEvents)
  /\ IF heard.live
     THEN Fed(heard.list, channel,
              Conv(T.connection.context, T.connection.task), clock, ring, thread)
     ELSE /\ channel # <<>> /\ Head(channel).event = "snapshot"
          /\ Fed(Head(channel).list, Tail(channel), Head(channel).conv, clock,
                 ring, thread)

FeedInv ==
  /\ clock \in Nat /\ thread \in Conversations /\ DOMAIN states = TaskIds
  /\ ring \in Seq(Notices) /\ Len(ring) <= MaxNotices
  /\ Rising(ring, Len(ring), clock)
  /\ DOMAIN heard = {"live", "list"} /\ heard.live \in BOOLEAN
  /\ heard = [f \in {"live", "list"} |-> heard[f]]
  /\ IF channel = None THEN ~ heard.live ELSE Followed

TasksInv ==
  /\ Shown(tasker) /\ SubscribedOf(T.tasks) = Streaming
  /\ CallsInv /\ FeedInv

(* What does not touch the feed leaves it alone.                           *)
LEMMA FeedStays ==
  ASSUME FeedInv, UNCHANGED <<agentVars, channel, heard>>,
         T.connection' = T.connection
  PROVE  FeedInv'
BY DEF FeedInv, Followed, agentVars

LEMMA FeedGoesOn ==
  ASSUME FeedInv, Shown(tasker),
         \/ AgentNotifies \/ FeedOpens \/ FeedBreaks \/ FeedRefused \/ FeedEvent
  PROVE  /\ FeedInv' /\ Shown(tasker)'
         /\ SubscribedOf(T.tasks)' = SubscribedOf(T.tasks)
<1> USE DEF T
<1>1. CASE AgentNotifies
  <2>1. PICK t \in TaskIds, state \in TaskStates, valid \in BOOLEAN :
          LET conv == Conv("c", IF state = "working" THEN t ELSE None)
              n == Notification(t, valid, IF valid /\ conv # thread THEN conv
                                          ELSE None)
          IN  /\ states' = [states EXCEPT ![t] = state]
              /\ thread' = IF valid THEN conv ELSE thread
              /\ ring' = Newest(Append(ring, n))
              /\ channel' = IF channel = None THEN None
                            ELSE Append(channel, [event |-> "notification", n |-> n])
    BY <1>1 DEF AgentNotifies
  <2>2. clock' = clock + 1 /\ UNCHANGED <<tasker, heard>>
    BY <1>1 DEF AgentNotifies
  <2> DEFINE conv == Conv("c", IF state = "working" THEN t ELSE None)
             said == IF valid /\ conv # thread THEN conv ELSE None
             n == Notification(t, valid, said)
  <2>3. conv \in Conversations /\ None \notin Conversations
    BY TasksAssumption DEF Conv, Conversations
  <2>4. DOMAIN states' = TaskIds /\ states'[t] = state /\ clock \in Nat
    BY <2>1 DEF FeedInv
  <2>5. /\ states' = [states EXCEPT ![t] = state]
        /\ thread' = IF valid THEN conv ELSE thread
        /\ ring' = Newest(Append(ring, n))
        /\ channel' = IF channel = None THEN None
                      ELSE Append(channel, Notified(n))
    BY <2>1 DEF Notified
  <2> HIDE DEF conv
  <2>6. n \in Notices /\ n.id = clock + 1 /\ n.conversation = said
    BY <2>3, <2>4 DEF Notification, Notices, TheConn
  <2>7. /\ thread' \in Conversations
        /\ IF n.conversation = None THEN thread' = thread
           ELSE thread' = n.conversation
    BY <2>3, <2>5, <2>6 DEF FeedInv
  <2> HIDE DEF n, said
  <2>8. Fed(ring, <<>>, thread, clock, ring, thread)
    BY FeedStarts DEF FeedInv
  <2>9. Fed(ring, Append(<<>>, Notified(n)), thread, clock + 1, ring', thread')
    BY <2>4, <2>5, <2>6, <2>7, <2>8, FeedNotified
  <2>10. /\ ring' \in Seq(Notices) /\ Len(ring') <= MaxNotices
         /\ Rising(ring', Len(ring'), clock + 1)
    BY <2>9, FeedKept
  <2>11. CASE channel = None
    <3>1. channel' = None BY <2>5, <2>11
    <3> QED BY <2>2, <2>4, <2>7, <2>10, <2>11, <3>1 DEF FeedInv
  <2>12. CASE channel # None
    <3>1. channel' = Append(channel, Notified(n)) BY <2>5, <2>12
    <3>2. channel \in Seq(FeedEvents) BY <2>12 DEF FeedInv, Followed
    <3>3. Notified(n) \in FeedEvents BY <2>6 DEF Notified, FeedEvents
    <3>4. channel' \in Seq(FeedEvents) /\ channel' # None /\ channel' # <<>>
      BY <3>1, <3>2, <3>3, AppendProperties, TasksAssumption
    <3>5. CASE heard.live
      <4>1. Fed(heard.list, channel,
                Conv(T.connection.context, T.connection.task), clock, ring, thread)
        BY <2>12, <3>5 DEF FeedInv, Followed
      <4>2. Fed(heard.list, channel',
                Conv(T.connection.context, T.connection.task), clock + 1,
                ring', thread')
        BY <2>4, <2>5, <2>6, <2>7, <3>1, <4>1, FeedNotified
      <4>3. Followed' BY <2>2, <3>4, <3>5, <4>2 DEF Followed
      <4> QED BY <2>2, <2>4, <2>7, <2>10, <3>4, <4>3 DEF FeedInv
    <3>6. CASE ~ heard.live
      <4>1. /\ channel # <<>> /\ Head(channel).event = "snapshot"
            /\ Fed(Head(channel).list, Tail(channel), Head(channel).conv, clock,
                   ring, thread)
        BY <2>12, <3>6 DEF FeedInv, Followed
      <4>2. /\ Head(channel') = Head(channel)
            /\ Tail(channel') = Append(Tail(channel), Notified(n))
        BY <3>1, <3>2, <4>1, HeadTailAppend
      <4>3. Fed(Head(channel).list, Append(Tail(channel), Notified(n)),
                Head(channel).conv, clock + 1, ring', thread')
        BY <2>4, <2>5, <2>6, <2>7, <4>1, FeedNotified
      <4>4. Followed' BY <2>2, <3>4, <3>6, <4>1, <4>2, <4>3 DEF Followed
      <4> QED BY <2>2, <2>4, <2>7, <2>10, <3>4, <4>4 DEF FeedInv
    <3> QED BY <3>5, <3>6 DEF FeedInv
  <2> QED BY <2>11, <2>12, <2>2
<1>2. CASE FeedOpens
  <2> DEFINE e == [event |-> "snapshot", list |-> ring, conv |-> thread]
  <2>1. /\ channel = None /\ channel' = <<e>>
        /\ UNCHANGED <<tasker, agentVars, heard>>
    BY <1>2 DEF FeedOpens
  <2>2. ~ heard.live BY <2>1 DEF FeedInv
  <2>3. e \in FeedEvents BY DEF FeedInv, FeedEvents
  <2>4. Fed(ring, <<>>, thread, clock, ring, thread)
    BY FeedStarts DEF FeedInv
  <2>5. e.event = "snapshot" /\ e.list = ring /\ e.conv = thread OBVIOUS
  <2> HIDE DEF e
  <2>6. <<e>> \in Seq(FeedEvents) /\ <<e>> # <<>> BY <2>3
  <2>7. Head(<<e>>) = e /\ Tail(<<e>>) = <<>> OBVIOUS
  <2>8. channel' # None BY <2>1, <2>6, TasksAssumption
  <2>9. Followed' BY <2>1, <2>2, <2>4, <2>5, <2>6, <2>7 DEF Followed, agentVars
  <2> QED BY <2>1, <2>8, <2>9 DEF FeedInv, agentVars
<1>3. CASE FeedBreaks
  <2> QED BY <1>3 DEF FeedBreaks, FeedInv, agentVars
<1>4. CASE FeedRefused
  <2> QED BY <1>4 DEF FeedRefused, FeedInv, Followed, agentVars
<1>5. CASE FeedEvent
  <2>1. /\ channel # None /\ channel # <<>> /\ channel' = Tail(channel)
        /\ heard' = Reduced(heard, Head(channel))
        /\ tasker' = Conversed(tasker, Head(channel))
        /\ UNCHANGED agentVars
    BY <1>5 DEF FeedEvent
  <2>2. channel \in Seq(FeedEvents) /\ Followed BY <2>1 DEF FeedInv, Followed
  <2>3. channel' \in Seq(FeedEvents) /\ channel' # None
    BY <2>1, <2>2, HeadTailProperties, TasksAssumption
  <2> DEFINE e == Head(channel)
  <2>4. CASE heard.live
    <3>1. Fed(heard.list, channel,
              Conv(T.connection.context, T.connection.task), clock, ring, thread)
      BY <2>2, <2>4 DEF Followed
    <3> DEFINE now == Conv(T.connection.context, T.connection.task)
               next == IF e.n.conversation = None THEN now ELSE e.n.conversation
    <3> HIDE DEF now
    <3>2. /\ e \in NoticeEvents
          /\ \A i \in DOMAIN heard.list : heard.list[i].id # e.n.id
          /\ Fed(Newest(Append(heard.list, e.n)), Tail(channel), next, clock,
                 ring, thread)
      BY <2>1, <3>1, FeedHeard DEF FeedInv, now
    <3> HIDE DEF e
    <3>3. e.event # "snapshot" /\ e.n.connectionId = TheConn
          /\ e.n.conversation \in Conversations \cup {None}
      BY <3>2 DEF NoticeEvents, Notices
    <3>4. heard' = [heard EXCEPT !.list = Newest(Append(@, e.n))]
      BY <2>1, <3>2, <3>3 DEF Reduced, e
    <3>5. /\ heard'.live /\ heard'.list = Newest(Append(heard.list, e.n))
          /\ DOMAIN heard' = {"live", "list"} /\ heard'.live \in BOOLEAN
          /\ heard' = [f \in {"live", "list"} |-> heard'[f]]
      BY <2>4, <3>4 DEF FeedInv
    <3>6. tasker' = IF e.n.conversation = None THEN tasker
                    ELSE NotificationConversation(tasker, TheConn, e.n.conversation)
      BY <2>1, <3>3 DEF Conversed, e
    <3>7. /\ Shown(tasker') /\ SubscribedOf(T'.tasks) = SubscribedOf(T.tasks)
          /\ Conv(T'.connection.context, T'.connection.task) = next
      <4>1. CASE e.n.conversation = None BY <3>6, <4>1 DEF now
      <4>2. CASE e.n.conversation # None
        BY <3>3, <3>6, <4>2, ConversationMoves
      <4> QED BY <4>1, <4>2
    <3>8. Followed' BY <2>1, <2>3, <3>2, <3>5, <3>7 DEF Followed, agentVars
    <3> QED BY <2>1, <2>3, <3>5, <3>7, <3>8 DEF FeedInv, agentVars
  <2>5. CASE ~ heard.live
    <3>1. /\ e.event = "snapshot"
          /\ Fed(e.list, Tail(channel), e.conv, clock, ring, thread)
      BY <2>2, <2>5 DEF Followed
    <3> HIDE DEF e
    <3>2. heard' = [live |-> TRUE, list |-> e.list] BY <2>1, <3>1 DEF Reduced, e
    <3>3. tasker' = NotificationConversation(tasker, TheConn, e.conv)
      BY <2>1, <3>1 DEF Conversed, e
    <3>4. e.conv \in Conversations BY <3>1 DEF Fed
    <3>5. /\ Shown(tasker') /\ SubscribedOf(T'.tasks) = SubscribedOf(T.tasks)
          /\ Conv(T'.connection.context, T'.connection.task) = e.conv
      BY <3>3, <3>4, ConversationMoves
    <3>6. /\ heard'.live /\ heard'.list = e.list
          /\ DOMAIN heard' = {"live", "list"} /\ heard'.live \in BOOLEAN
          /\ heard' = [f \in {"live", "list"} |-> heard'[f]]
      BY <3>2
    <3>7. Followed' BY <2>1, <2>3, <3>1, <3>5, <3>6 DEF Followed, agentVars
    <3> QED BY <2>1, <2>3, <3>5, <3>6, <3>7 DEF FeedInv, agentVars
  <2> QED BY <2>4, <2>5 DEF FeedInv
<1> QED BY <1>1, <1>2, <1>3, <1>4, <1>5

(* An operation that starts, is asked for or is over.                      *)
LEMMA CallStarts ==
  ASSUME CallsInv, NEW c, Starts(c),
         c.op = "subscribe" => ~ \E d \in calls : d.op = c.op /\ d.task = c.task
  PROVE  /\ CallsInv'
         /\ Streaming' = IF c.op = "subscribe" THEN Streaming \cup {c.task}
                         ELSE Streaming
<1> DEFINE e == [op |-> c.op, task |-> c.task, config |-> c.config,
                 n |-> lastCall + 1, answer |-> None]
<1>1. calls' = calls \cup {e} BY DEF Starts
<1>2. /\ {"op", "task", "answer"} \subseteq DOMAIN e
      /\ e.op = c.op /\ e.task = c.task /\ e.answer = None
  OBVIOUS
<1> HIDE DEF e
<1>3. \A d \in calls' : CallOK(d) BY <1>1, <1>2 DEF CallsInv, CallOK
<1>4. \A d, f \in calls' :
        d.op = "subscribe" /\ f.op = "subscribe" /\ d.task = f.task => d = f
  BY <1>1, <1>2 DEF CallsInv
<1>5. Streaming' = IF c.op = "subscribe" THEN Streaming \cup {c.task}
                   ELSE Streaming
  BY <1>1, <1>2 DEF Streaming
<1> QED BY <1>3, <1>4, <1>5 DEF CallsInv

LEMMA CallAnswered ==
  ASSUME CallsInv, NEW c \in calls, NEW out,
         c.op = "list" /\ out # None /\ out.ok => \E x : out.raw.tasks = <<x>>,
         calls' = (calls \ {c}) \cup {[c EXCEPT !.answer = out]}
  PROVE  CallsInv' /\ Streaming' = Streaming
<1> DEFINE e == [c EXCEPT !.answer = out]
<1>1. CallOK(c) BY DEF CallsInv
<1>2. /\ {"op", "task", "answer"} \subseteq DOMAIN e
      /\ e.op = c.op /\ e.task = c.task /\ e.answer = out
  BY <1>1 DEF CallOK
<1>3. calls' = (calls \ {c}) \cup {e} OBVIOUS
<1> HIDE DEF e
<1>a. CallOK(e) BY <1>2 DEF CallOK
<1>4. \A d \in calls' : CallOK(d) BY <1>3, <1>a DEF CallsInv
<1>5. \A d, f \in calls' :
        d.op = "subscribe" /\ f.op = "subscribe" /\ d.task = f.task => d = f
  BY <1>2, <1>3 DEF CallsInv
<1>6. Streaming' = Streaming BY <1>2, <1>3 DEF Streaming
<1> QED BY <1>4, <1>5, <1>6 DEF CallsInv

LEMMA CallOver ==
  ASSUME CallsInv, NEW c \in calls, calls' = calls \ {c}
  PROVE  /\ CallsInv'
         /\ Streaming' = IF c.op = "subscribe" THEN Streaming \ {c.task}
                         ELSE Streaming
<1>1. CallsInv' BY DEF CallsInv
<1>2. Streaming' = IF c.op = "subscribe" THEN Streaming \ {c.task}
                   ELSE Streaming
  BY DEF CallsInv, Streaming
<1> QED BY <1>1, <1>2

LEMMA TasksGoOn ==
  ASSUME TasksInv, [TasksNext]_taskVars
  PROVE  TasksInv'
<1> USE DEF T
<1>1. /\ Shown(tasker) /\ SubscribedOf(T.tasks) = Streaming
      /\ CallsInv /\ FeedInv
  BY DEF TasksInv
<1>2. CASE AskToolbar
  <2>1. /\ UNCHANGED <<tasker, agentVars, feedVars>>
        /\ \E op, task, config : /\ op # "subscribe"
                                 /\ Starts([op |-> op, task |-> task,
                                            config |-> config])
    BY <1>2 DEF AskToolbar
  <2>2. PICK op, task, config :
          op # "subscribe" /\ Starts([op |-> op, task |-> task, config |-> config])
    BY <2>1
  <2>3. CallsInv' /\ Streaming' = Streaming BY <1>1, <2>2, CallStarts
  <2> QED BY <1>1, <2>1, <2>3, FeedStays DEF TasksInv, feedVars
<1>3. CASE AskOperation
  <2>1. UNCHANGED <<agentVars, feedVars>> BY <1>3 DEF AskOperation
  <2>2. PICK t \in Open : \E c \in Offered(t) :
          /\ c.op = "subscribe" => ~ \E d \in calls : d.op = c.op /\ d.task = t
          /\ Starts(c)
          /\ tasker' = IF c.op = "subscribe"
                       THEN Subscribed(tasker, TaskAgent, t, TRUE) ELSE tasker
    BY <1>3 DEF AskOperation
  <2>3. PICK c \in Offered(t) :
          /\ c.op = "subscribe" => ~ \E d \in calls : d.op = c.op /\ d.task = t
          /\ Starts(c)
          /\ tasker' = IF c.op = "subscribe"
                       THEN Subscribed(tasker, TaskAgent, t, TRUE) ELSE tasker
    BY <2>2
  <2>4. c.task = t BY DEF Offered
  <2>5. /\ CallsInv'
        /\ Streaming' = IF c.op = "subscribe" THEN Streaming \cup {c.task}
                        ELSE Streaming
    BY <1>1, <2>3, <2>4, CallStarts
  <2>6. CASE c.op # "subscribe"
    <3>1. tasker' = tasker /\ Streaming' = Streaming BY <2>3, <2>5, <2>6
    <3> QED BY <1>1, <2>1, <2>5, <3>1, FeedStays DEF TasksInv, feedVars
  <2>7. CASE c.op = "subscribe"
    <3>1. tasker' = Subscribed(tasker, TaskAgent, t, TRUE)
          /\ Streaming' = Streaming \cup {t}
      BY <2>3, <2>4, <2>5, <2>7
    <3>2. /\ Shown(tasker') /\ T'.connection = T.connection
          /\ SubscribedOf(T'.tasks) = SubscribedOf(T.tasks) \cup {t}
      BY <1>1, <3>1, TaskSubscribed
    <3> QED BY <1>1, <2>1, <2>5, <3>1, <3>2, FeedStays DEF TasksInv, feedVars
  <2> QED BY <2>6, <2>7
<1>4. CASE StopSubscription
  <2>1. UNCHANGED <<agentVars, feedVars>> BY <1>4 DEF StopSubscription
  <2>2. PICK t \in Open : \E c \in calls :
          /\ c.op = "subscribe" /\ c.task = t
          /\ calls' = calls \ {c}
          /\ tasker' = Subscribed(tasker, TaskAgent, t, FALSE)
    BY <1>4 DEF StopSubscription
  <2>3. PICK c \in calls : /\ c.op = "subscribe" /\ c.task = t
                           /\ calls' = calls \ {c}
    BY <2>2
  <2>4. CallsInv' /\ Streaming' = Streaming \ {t} BY <1>1, <2>3, CallOver
  <2> DEFINE off == Subscribed(tasker, TaskAgent, t, FALSE)
  <2>a. /\ Shown(off) /\ off[1].connection = T.connection
        /\ SubscribedOf(off[1].tasks) = SubscribedOf(T.tasks) \ {t}
    BY <1>1, TaskSubscribed
  <2>5. /\ Shown(tasker') /\ T'.connection = T.connection
        /\ SubscribedOf(T'.tasks) = SubscribedOf(T.tasks) \ {t}
    BY <2>2, <2>a
  <2> QED BY <1>1, <2>1, <2>4, <2>5, FeedStays DEF TasksInv, feedVars
<1>5. CASE ShowTask
  <2>1. UNCHANGED <<calls, agentVars, feedVars>> BY <1>5 DEF ShowTask
  <2>2. PICK t : tasker' = SelectTask(tasker, TaskAgent, t)
    BY <1>5 DEF ShowTask
  <2>3. Same(tasker, tasker') BY <1>1, <2>2, TaskSelected
  <2>4. CallsInv' /\ Streaming' = Streaming
    BY <1>1, <2>1 DEF CallsInv, Streaming
  <2> QED BY <1>1, <2>1, <2>3, <2>4, FeedStays DEF TasksInv, feedVars, Same
<1>6. CASE AgentAnswers
  <2>1. UNCHANGED <<tasker, agentVars, feedVars>> BY <1>6 DEF AgentAnswers
  <2>2. PICK c \in calls : \E out \in Replies(c) :
          calls' = (calls \ {c}) \cup {[c EXCEPT !.answer = out]}
    BY <1>6 DEF AgentAnswers
  <2>3. PICK out \in Replies(c) :
          calls' = (calls \ {c}) \cup {[c EXCEPT !.answer = out]}
    BY <2>2
  <2>4. c.op = "list" /\ out.ok => \E x : out.raw.tasks = <<x>>
    BY DEF Replies, Outcome, NoResult
  <2>5. CallsInv' /\ Streaming' = Streaming
    BY <1>1, <2>3, <2>4, CallAnswered
  <2> QED BY <1>1, <2>1, <2>5, FeedStays DEF TasksInv, feedVars
<1>7. CASE AnswerCame
  <2>1. UNCHANGED <<agentVars, feedVars>> BY <1>7 DEF AnswerCame
  <2>2. PICK c \in calls :
          /\ c.answer # None
          /\ LET said == Answered(tasker, c, c.answer)
                 others == calls \ {c}
             IN  \/ /\ c.op # "subscribe"
                    /\ calls' = others /\ tasker' = said
                 \/ /\ c.op = "subscribe"
                    /\ calls' = others \cup {[c EXCEPT !.answer = None]}
                    /\ tasker' = said
                 \/ /\ c.op = "subscribe"
                    /\ calls' = others
                    /\ tasker' = Subscribed(said, TaskAgent, c.task, FALSE)
    BY <1>7 DEF AnswerCame
  <2> DEFINE said == Answered(tasker, c, c.answer)
  <2>3. Same(tasker, said) BY <1>1, <2>2, AnswerShown DEF CallsInv, CallOK
  <2>a. \/ /\ c.op # "subscribe"
           /\ calls' = calls \ {c} /\ tasker' = said
        \/ /\ c.op = "subscribe"
           /\ calls' = (calls \ {c}) \cup {[c EXCEPT !.answer = None]}
           /\ tasker' = said
        \/ /\ c.op = "subscribe"
           /\ calls' = calls \ {c}
           /\ tasker' = Subscribed(said, TaskAgent, c.task, FALSE)
    BY <2>2
  <2> HIDE DEF said
  <2>4. CASE c.op # "subscribe" /\ calls' = calls \ {c} /\ tasker' = said
    <3>1. CallsInv' /\ Streaming' = Streaming BY <1>1, <2>4, CallOver
    <3> QED BY <1>1, <2>1, <2>3, <2>4, <3>1, FeedStays
            DEF TasksInv, feedVars, Same
  <2>5. CASE /\ c.op = "subscribe"
             /\ calls' = (calls \ {c}) \cup {[c EXCEPT !.answer = None]}
             /\ tasker' = said
    <3>1. CallsInv' /\ Streaming' = Streaming BY <1>1, <2>5, CallAnswered
    <3> QED BY <1>1, <2>1, <2>3, <2>5, <3>1, FeedStays
            DEF TasksInv, feedVars, Same
  <2>6. CASE /\ c.op = "subscribe"
             /\ calls' = calls \ {c}
             /\ tasker' = Subscribed(said, TaskAgent, c.task, FALSE)
    <3>1. CallsInv' /\ Streaming' = Streaming \ {c.task} BY <1>1, <2>6, CallOver
    <3>2. /\ Shown(tasker') /\ T'.connection = said[1].connection
          /\ SubscribedOf(T'.tasks) = SubscribedOf(said[1].tasks) \ {c.task}
      BY <2>3, <2>6, TaskSubscribed DEF Same
    <3> QED BY <1>1, <2>1, <2>3, <3>1, <3>2, FeedStays
            DEF TasksInv, feedVars, Same
  <2> QED BY <2>a, <2>4, <2>5, <2>6
<1>8. CASE \/ AgentNotifies \/ FeedOpens \/ FeedBreaks \/ FeedRefused \/ FeedEvent
  <2>1. UNCHANGED calls
    BY <1>8 DEF AgentNotifies, FeedOpens, FeedBreaks, FeedRefused, FeedEvent
  <2>2. CallsInv' /\ Streaming' = Streaming
    BY <1>1, <2>1 DEF CallsInv, Streaming
  <2>3. FeedInv' /\ Shown(tasker)' /\ SubscribedOf(T.tasks)' = SubscribedOf(T.tasks)
    BY <1>1, <1>8, FeedGoesOn
  <2> QED BY <1>1, <2>2, <2>3 DEF TasksInv
<1>9. CASE EditBase \/ BaseSaved \/ UNCHANGED taskVars
  <2>1. UNCHANGED <<tasker, calls, agentVars, feedVars>>
    BY <1>9 DEF EditBase, BaseSaved, taskVars, agentVars, feedVars
  <2>2. CallsInv' /\ Streaming' = Streaming
    BY <1>1, <2>1 DEF CallsInv, Streaming
  <2> QED BY <1>1, <2>1, <2>2, FeedStays DEF TasksInv, feedVars
<1> QED BY <1>2, <1>3, <1>4, <1>5, <1>6, <1>7, <1>8, <1>9 DEF TasksNext

LEMMA TasksStart == TasksInit => TasksInv
<1> SUFFICES ASSUME TasksInit PROVE TasksInv
  OBVIOUS
<1> USE DEF T
<1> DEFINE iface == [key |-> "i", supported |-> TRUE]
           added == [NewEntry(TaskAgent, iface.key, "endpoint", DefaultSettings)
                       EXCEPT !.status = "done", !.custom = <<iface>>,
                              !.selected = 1]
           conn == [id |-> TheConn, context |-> None, task |-> None]
           s == State(<<>>, None)
<1>1. AddEndpoint(s, TaskAgent, iface, None).agents = <<added>>
  <2>1. DOMAIN s.agents = {} /\ s.agents = <<>>
    BY ListOfNone DEF State
  <2> HIDE DEF s
  <2>2. AddEndpoint(s, TaskAgent, iface, None) = State(Append(s.agents, added), TaskAgent)
    BY <2>1 DEF AddEndpoint, SameAt, FirstAt
  <2>3. Append(<<>>, added) = <<added>> OBVIOUS
  <2> QED BY <2>1, <2>2, <2>3 DEF State
<1>2. tasker = Connected(<<added>>, TaskAgent, conn, None, DefaultSettings)
  BY <1>1 DEF TasksInit
<1>3. /\ {"id", "connection", "resetContext", "tasks", "connectionIds"} \subseteq DOMAIN added
      /\ added.id = TaskAgent /\ added.resetContext = FALSE /\ added.tasks = <<>>
  BY DEF NewEntry
<1>4. conn \in Connections /\ conn.context = None /\ conn.task = None
  BY DEF Connections
<1> HIDE DEF added, conn
<1>5. /\ DOMAIN tasker = {1}
      /\ tasker[1] = [added EXCEPT !.connection = conn, !.key = None,
                                   !.settings = DefaultSettings, !.resume = None,
                                   !.connectionIds = @ \cup {conn.id}]
  <2>1. DOMAIN <<added>> = {1} /\ <<added>>[1] = added OBVIOUS
  <2> QED BY <1>2, <1>3, <2>1 DEF Connected, Patch
<1>6. /\ {"id", "connection", "resetContext", "tasks"} \subseteq DOMAIN tasker[1]
      /\ tasker[1].id = TaskAgent /\ tasker[1].resetContext = FALSE
      /\ tasker[1].connection = conn /\ tasker[1].tasks = <<>>
  BY <1>3, <1>5
<1>7. TasksOK(<<>>) BY ListOfNone DEF TasksOK
<1>8. Shown(tasker) BY <1>4, <1>5, <1>6, <1>7 DEF Shown, TaskAgent
<1>9. SubscribedOf(T.tasks) = {} BY <1>6, ListOfNone DEF SubscribedOf
<1>10. CallsInv /\ Streaming = {} BY DEF TasksInit, CallsInv, Streaming
<1>11. FeedInv
  <2>1. clock \in Nat /\ thread \in Conversations /\ DOMAIN states = TaskIds
    BY DEF TasksInit, Conversations, Conv
  <2>2. ring \in Seq(Notices) /\ Len(ring) = 0 BY EmptySeq DEF TasksInit
  <2>3. Len(ring) <= MaxNotices /\ Rising(ring, Len(ring), clock)
    BY <2>2, TasksAssumption DEF Rising
  <2> QED BY <2>1, <2>2, <2>3 DEF TasksInit, FeedInv
<1> QED BY <1>8, <1>9, <1>10, <1>11 DEF TasksInv

(* Once the feed is live and read, the UI's notifications and the          *)
(* conversation are the inspector's; a task shows a subscription exactly   *)
(* while one is under way (notifications.ts, subscribe of App.tsx).        *)
THEOREM PageFeedSound == PageSpec => []FeedSound
<1> DEFINE Inv == part = "tasks" => TasksInv
<1>1. PageInit => Inv BY TasksStart DEF PageInit
<1>2. Inv /\ [PageNext]_pageVars => Inv' BY PartStays, TasksGoOn
<1>3. Inv => FeedSound
  <2> SUFFICES ASSUME TasksInv PROVE FeedCaughtUp /\ SubscribedHasStream
    BY DEF FeedSound
  <2>1. SubscribedHasStream
    <3> DEFINE s == T.tasks
    <3>1. TasksOK(s) /\ SubscribedOf(s) = Streaming
      BY DEF TasksInv, Shown, T
    <3> HIDE DEF s
    <3> SUFFICES ASSUME NEW i \in DOMAIN s
                 PROVE  s[i].subscribed <=> \E c \in calls :
                          c.op = "subscribe" /\ c.task = s[i].id
      BY DEF SubscribedHasStream, s
    <3>2. s[i].subscribed <=> s[i].id \in SubscribedOf(s)
      BY <3>1 DEF TasksOK, SubscribedOf
    <3>3. s[i].id \in Streaming <=> \E c \in calls :
            c.op = "subscribe" /\ c.task = s[i].id
      BY DEF Streaming
    <3> QED BY <3>1, <3>2, <3>3
  <2>2. FeedCaughtUp
    <3> SUFFICES ASSUME heard.live, channel = <<>>
                 PROVE  /\ heard.list = ring
                        /\ Conv(T.connection.context, T.connection.task) = thread
      BY DEF FeedCaughtUp
    <3>1. Followed BY DEF TasksInv, FeedInv
    <3> QED BY <3>1, FeedRead DEF Followed
  <2> QED BY <2>1, <2>2
<1> HIDE DEF Inv
<1> QED BY <1>1, <1>2, <1>3, PTL DEF PageSpec
-----------------------------------------------------------------------------
(* The chat: the agent as a list of one, and what is said to it.           *)
Chats(l) ==
  /\ DOMAIN l = {1} /\ {"id", "chat", "busy", "forms"} \subseteq DOMAIN l[1]
  /\ l[1].id = 1

LEMMA ChatSaid ==
  ASSUME NEW l, Chats(l), NEW item, NEW b
  PROVE  /\ Chats(Busy(Chat(l, 1, item), 1, b))
         /\ Busy(Chat(l, 1, item), 1, b)[1].busy = b
         /\ Busy(Chat(l, 1, item), 1, b)[1].forms = l[1].forms
<1> DEFINE add(a) == [a EXCEPT !.chat = IF item = "sent" THEN Append(@, item)
                                        ELSE [@ EXCEPT ![Len(@)] = item]]
           set(a) == [a EXCEPT !.busy = b]
           m == Chat(l, 1, item)
           k == Busy(m, 1, b)
<1>1. m = [i \in DOMAIN l |-> IF l[i].id = 1 THEN add(l[i]) ELSE l[i]]
  BY Zenon DEF Chat, Patch
<1>2. k = [i \in DOMAIN m |-> IF m[i].id = 1 THEN set(m[i]) ELSE m[i]]
  BY Zenon DEF Busy, Patch
<1> HIDE DEF k, m
<1>3. DOMAIN m = {1} /\ m[1] = add(l[1]) BY <1>1 DEF Chats
<1>4. Chats(m) /\ m[1].forms = l[1].forms BY <1>3 DEF Chats
<1>5. DOMAIN k = {1} /\ k[1] = set(m[1]) BY <1>2, <1>4 DEF Chats
<1> HIDE DEF add, set
<1>6. /\ DOMAIN set(m[1]) = DOMAIN m[1] /\ set(m[1]).busy = b
      /\ set(m[1]).id = m[1].id /\ set(m[1]).forms = m[1].forms
  BY <1>4 DEF Chats, set
<1>7. Chats(k) /\ k[1].busy = b /\ k[1].forms = l[1].forms
  BY <1>4, <1>5, <1>6 DEF Chats
<1> QED BY <1>7 DEF k, m

LEMMA FormKept ==
  ASSUME NEW l, Chats(l), NEW f, NEW v
  PROVE  /\ Chats(FormSubmitted(l, 1, f, v))
         /\ FormSubmitted(l, 1, f, v)[1].busy = l[1].busy
         /\ FormSubmitted(l, 1, f, v)[1].forms
              = [g \in DOMAIN l[1].forms \cup {f} |->
                   IF g = f THEN v ELSE l[1].forms[g]]
<1> DEFINE set(a) == [a EXCEPT !.forms =
                        [g \in DOMAIN @ \cup {f} |->
                           IF g = f THEN v ELSE @[g]]]
           k == FormSubmitted(l, 1, f, v)
<1>1. k = [i \in DOMAIN l |-> IF l[i].id = 1 THEN set(l[i]) ELSE l[i]]
  BY Zenon DEF FormSubmitted, Patch
<1> HIDE DEF k
<1>2. DOMAIN k = {1} /\ k[1] = set(l[1]) BY <1>1 DEF Chats
<1>3. /\ DOMAIN set(l[1]) = DOMAIN l[1] /\ set(l[1]).busy = l[1].busy
      /\ set(l[1]).id = l[1].id
      /\ set(l[1]).forms = [g \in DOMAIN l[1].forms \cup {f} |->
                              IF g = f THEN v ELSE l[1].forms[g]]
  BY DEF Chats
<1> HIDE DEF set
<1>4. /\ Chats(k) /\ k[1].busy = l[1].busy
      /\ k[1].forms = [g \in DOMAIN l[1].forms \cup {f} |->
                         IF g = f THEN v ELSE l[1].forms[g]]
  BY <1>2, <1>3 DEF Chats
<1> QED BY <1>4 DEF k

(* Where a file is: gone, being read, beside the next message, or sent     *)
(* with one that was answered or is not yet.                               *)
Gone(n) == n \in dropped
BeingRead(n) == \E b \in reading : n \in Range(b.files)
Beside(n) == n \in Range(composer.attachments)
Sent(n) == \E i \in DOMAIN log : n \in Range(log[i].files)
OnItsWay(n) == sending # <<>> /\ n \in Range(sending[1].files)

Alone(n) ==
  /\ Gone(n) => ~ BeingRead(n) /\ ~ Beside(n) /\ ~ Sent(n) /\ ~ OnItsWay(n)
  /\ BeingRead(n) => ~ Beside(n) /\ ~ Sent(n) /\ ~ OnItsWay(n)
  /\ Beside(n) => ~ Sent(n) /\ ~ OnItsWay(n)
  /\ Sent(n) => ~ OnItsWay(n)

Somewhere(n) ==
  Gone(n) \/ BeingRead(n) \/ Beside(n) \/ Sent(n) \/ OnItsWay(n)

Injective(s) == \A i, j \in DOMAIN s : s[i] = s[j] => i = j

FilesPlaced ==
  /\ lastFile \in Nat
  /\ \A n : Somewhere(n) <=> n \in 1..lastFile
  /\ \A n : Alone(n)

BatchesApart ==
  /\ \A b \in reading : IsList(b.files) /\ Injective(b.files)
  /\ \A b, c \in reading :
       \A n : n \in Range(b.files) /\ n \in Range(c.files) => b = c

AttachmentsApart ==
  /\ "attachments" \in DOMAIN composer
  /\ IsList(composer.attachments) /\ Injective(composer.attachments)

MessageFields == {"form", "values", "files", "push", "typed", "ok"}

SentApart ==
  /\ IsList(log) /\ \A i \in DOMAIN log : DOMAIN log[i] = MessageFields
  /\ \A i, j \in DOMAIN log :
       \A n : n \in Range(log[i].files) /\ n \in Range(log[j].files) => i = j

OneMessage ==
  /\ Chats(chatter) /\ chatter[1].busy = (sending # <<>>)
  /\ sending # <<>> => /\ DOMAIN sending = {1} /\ Len(sending) = 1
                       /\ IsList(sending)
                       /\ DOMAIN sending[1] = MessageFields

FilesInv ==
  /\ FilesPlaced /\ BatchesApart /\ AttachmentsApart /\ SentApart
  /\ OneMessage
LEMMA FilesCounted ==
  ASSUME FilesInv
  PROVE  FilesOnce
<1> DEFINE sent == log \o sending
           R(n) == {b \in reading : n \in Range(b.files)}
           C(n) == {i \in DOMAIN composer.attachments :
                      composer.attachments[i] = n}
           M(n) == {i \in DOMAIN sent : n \in Range(sent[i].files)}
<1> SUFFICES ASSUME NEW n \in 1..lastFile
             PROVE  (IF n \in dropped THEN 1 ELSE 0) + Cardinality(R(n))
                      + Cardinality(C(n)) + Cardinality(M(n)) = 1
  BY DEF FilesOnce
<1>1. Somewhere(n) /\ Alone(n) BY DEF FilesInv, FilesPlaced
<1>2. Cardinality(R(n)) = IF BeingRead(n) THEN 1 ELSE 0
  <2>1. \A x, y \in R(n) : x = y BY DEF FilesInv, BatchesApart
  <2>2. R(n) = {} <=> ~ BeingRead(n) BY DEF BeingRead
  <2> HIDE DEF R
  <2> QED BY <2>1, <2>2, AtMostOneCounts
<1>3. Cardinality(C(n)) = IF Beside(n) THEN 1 ELSE 0
  <2>1. \A x, y \in C(n) : x = y
    BY DEF FilesInv, AttachmentsApart, Injective
  <2>2. C(n) = {} <=> ~ Beside(n) BY DEF Beside, Range
  <2> HIDE DEF C
  <2> QED BY <2>1, <2>2, AtMostOneCounts
<1>4. Cardinality(M(n)) = IF Sent(n) \/ OnItsWay(n) THEN 1 ELSE 0
  <2>1. IsList(log) /\ IsList(sending) /\ Len(log) \in Nat
        /\ DOMAIN log = 1..Len(log)
    <3>1. CASE sending = <<>>
      BY <3>1, ListOfNone, ListFacts DEF FilesInv, SentApart
    <3>2. CASE sending # <<>>
      BY <3>2, ListFacts DEF FilesInv, OneMessage, SentApart
    <3> QED BY <3>1, <3>2
  <2>2. /\ \A i \in DOMAIN log : i \in DOMAIN sent /\ sent[i] = log[i]
        /\ \A i \in DOMAIN sending : sent[Len(log) + i] = sending[i]
        /\ \A i \in DOMAIN sent :
             i \in DOMAIN log \/ \E j \in DOMAIN sending : i = Len(log) + j
        /\ DOMAIN sent = 1..(Len(log) + Len(sending))
    <3>1. Len(sending) \in Nat BY <2>1, ListFacts
    <3>2. DOMAIN sent = 1..(Len(log) + Len(sending)) BY <2>1, ListConcat
    <3>3. \A i \in DOMAIN log : i \in DOMAIN sent BY <2>1, <3>1, <3>2
    <3>4. \A i \in DOMAIN log : sent[i] = log[i] BY <2>1, ListConcat
    <3>5. \A i \in DOMAIN sending : sent[Len(log) + i] = sending[i]
      BY <2>1, ListSecond
    <3>6. \A i \in DOMAIN sent :
            i \in DOMAIN log \/ \E j \in DOMAIN sending : i = Len(log) + j
      BY <2>1, ListSplits
    <3> HIDE DEF sent
    <3> QED BY <3>2, <3>3, <3>4, <3>5, <3>6
  <2>3. CASE sending = <<>>
    <3>1. DOMAIN sending = {} BY <2>3, ListOfNone
    <3>2. M(n) = {i \in DOMAIN log : n \in Range(log[i].files)}
      BY <2>2, <3>1
    <3> HIDE DEF M
    <3>3. \A x, y \in M(n) : x = y BY <3>2 DEF FilesInv, SentApart
    <3>4. M(n) = {} <=> ~ Sent(n) BY <3>2 DEF Sent
    <3>5. ~ OnItsWay(n) BY <2>3 DEF OnItsWay
    <3> QED BY <3>3, <3>4, <3>5, AtMostOneCounts
  <2>4. CASE sending # <<>>
    <3>1. DOMAIN sending = {1} /\ Len(sending) = 1
      BY <2>4 DEF FilesInv, OneMessage
    <3> DEFINE k == Len(log) + 1
    <3>2. k \in DOMAIN sent /\ sent[k] = sending[1] /\ k \notin DOMAIN log
      BY <2>1, <2>2, <3>1
    <3>3. \A i \in DOMAIN sent : i \in DOMAIN log \/ i = k BY <2>2, <3>1
    <3>4. OnItsWay(n) <=> n \in Range(sending[1].files)
      BY <2>4 DEF OnItsWay
    <3> HIDE DEF k, sent
    <3>a. Sent(n) => ~ n \in Range(sending[1].files)
      BY <1>1, <3>4 DEF Alone
    <3>b. ASSUME NEW x \in M(n)
          PROVE  \/ x \in DOMAIN log /\ n \in Range(log[x].files)
                 \/ x = k /\ n \in Range(sending[1].files)
      <4>1. x \in DOMAIN sent /\ n \in Range(sent[x].files) OBVIOUS
      <4> QED BY <2>2, <3>2, <3>3, <4>1
    <3>5. ASSUME NEW x \in M(n), NEW y \in M(n) PROVE x = y
      BY <3>a, <3>b DEF FilesInv, SentApart, Sent
    <3>6. M(n) = {} <=> ~ (Sent(n) \/ OnItsWay(n))
      BY <2>2, <3>2, <3>3, <3>4 DEF Sent
    <3> HIDE DEF M
    <3> QED BY <3>5, <3>6, AtMostOneCounts
  <2> QED BY <2>3, <2>4
<1> HIDE DEF R, C, M
<1> QED BY <1>1, <1>2, <1>3, <1>4 DEF Somewhere, Alone, Gone

LEMMA FilesStart == ChatInit => FilesInv
<1> SUFFICES ASSUME ChatInit PROVE FilesInv OBVIOUS
<1>1. \A n : ~ Somewhere(n)
  <2>1. DOMAIN <<>> = {} BY ListOfNone
  <2> QED
    BY <2>1 DEF ChatInit, Somewhere, Gone, BeingRead, Beside, Sent, OnItsWay,
                EmptyComposer, Range
<1>2. FilesPlaced BY <1>1 DEF FilesPlaced, Somewhere, Alone, ChatInit
<1>3. BatchesApart BY DEF ChatInit, BatchesApart
<1>4. AttachmentsApart
  BY ListOfNone DEF ChatInit, AttachmentsApart, EmptyComposer, Injective
<1>5. SentApart BY ListOfNone DEF ChatInit, SentApart
<1>6. OneMessage
  <2> DEFINE a == [CreateAgent(1, "u", "card") EXCEPT !.status = "done"]
  <2>1. {"id", "chat", "busy", "forms"} \subseteq DOMAIN a /\ a.id = 1
        /\ a.busy = FALSE
    BY DEF CreateAgent, NewEntry
  <2>2. chatter = <<a>> /\ sending = <<>> BY DEF ChatInit
  <2> HIDE DEF a
  <2>3. DOMAIN chatter = {1} /\ chatter[1] = a BY <2>2
  <2> QED BY <2>1, <2>2, <2>3 DEF OneMessage, Chats
<1> QED BY <1>2, <1>3, <1>4, <1>5, <1>6 DEF FilesInv

(* A step that moves no file.                                              *)
LEMMA FilesStay ==
  ASSUME FilesInv, UNCHANGED <<chatter, reading, sending, log, lastFile, dropped>>,
         "attachments" \in DOMAIN composer',
         composer'.attachments = composer.attachments
  PROVE  FilesInv'
BY DEF FilesInv, FilesPlaced, BatchesApart, AttachmentsApart, SentApart,
       OneMessage, Somewhere, Alone, Gone, BeingRead, Beside, Sent, OnItsWay

LEMMA FilesComposed ==
  ASSUME FilesInv, Compose \/ FillForm \/ UNCHANGED chatVars
  PROVE  FilesInv'
<1>1. "attachments" \in DOMAIN composer BY DEF FilesInv, AttachmentsApart
<1>2. /\ "attachments" \in DOMAIN composer'
      /\ composer'.attachments = composer.attachments
  BY <1>1 DEF Compose, FillForm, chatVars
<1>3. UNCHANGED <<chatter, reading, sending, log, lastFile, dropped>>
  BY DEF Compose, FillForm, chatVars
<1> QED BY <1>2, <1>3, FilesStay

LEMMA FilesAdded ==
  ASSUME FilesInv, AddFiles
  PROVE  FilesInv'
<1>1. PICK n \in 1..2 :
        /\ lastFile' = lastFile + n
        /\ reading' = reading \cup
             {[files |-> [i \in 1..n |-> lastFile + i], mount |-> mounts]}
  BY DEF AddFiles
<1> DEFINE s == [i \in 1..n |-> lastFile + i]
           b == [files |-> s, mount |-> mounts]
<1>2. n \in Nat /\ lastFile \in Nat BY DEF FilesInv, FilesPlaced
<1>3. /\ IsList(s) /\ Injective(s)
      /\ \A m : m \in Range(s) <=> m \in (lastFile + 1)..(lastFile + n)
  <2>1. IsList(s) BY <1>2, ListIs
  <2>2. Injective(s) BY <1>2 DEF Injective
  <2>3. ASSUME NEW m PROVE m \in Range(s) <=> m \in (lastFile + 1)..(lastFile + n)
    <3>1. ASSUME m \in Range(s) PROVE m \in (lastFile + 1)..(lastFile + n)
      <4>1. PICK i \in 1..n : m = lastFile + i BY <3>1 DEF Range
      <4> QED BY <1>2, <4>1
    <3>2. ASSUME m \in (lastFile + 1)..(lastFile + n) PROVE m \in Range(s)
      <4>1. m - lastFile \in 1..n /\ m = lastFile + (m - lastFile)
        BY <1>2, <3>2
      <4>2. m - lastFile \in DOMAIN s /\ s[m - lastFile] = m BY <4>1
      <4> QED BY <4>2 DEF Range
    <3> QED BY <3>1, <3>2
  <2> QED BY <2>1, <2>2, <2>3
<1>4. b.files = s /\ reading' = reading \cup {b} BY <1>1
<1>5. UNCHANGED <<chatter, composer, sending, log, dropped>> BY DEF AddFiles
<1> HIDE DEF s, b
<1>6. \A m : /\ m \in Range(s) => ~ Somewhere(m)
             /\ m \in 1..lastFile' <=> m \in 1..lastFile \/ m \in Range(s)
  BY <1>1, <1>2, <1>3 DEF FilesInv, FilesPlaced
<1>7. /\ \A m : BeingRead(m)' <=> BeingRead(m) \/ m \in Range(s)
      /\ \A m : (Gone(m)' <=> Gone(m)) /\ (Beside(m)' <=> Beside(m))
      /\ \A m : (Sent(m)' <=> Sent(m)) /\ (OnItsWay(m)' <=> OnItsWay(m))
  BY <1>4, <1>5 DEF BeingRead, Gone, Beside, Sent, OnItsWay
<1>8. FilesPlaced'
  <2>1. lastFile' \in Nat BY <1>1, <1>2
  <2>2. \A m : Somewhere(m)' <=> m \in 1..lastFile'
    BY <1>6, <1>7 DEF FilesInv, FilesPlaced, Somewhere
  <2>3. \A m : Alone(m)'
    BY <1>6, <1>7 DEF FilesInv, FilesPlaced, Somewhere, Alone
  <2> QED BY <2>1, <2>2, <2>3 DEF FilesPlaced
<1>9. BatchesApart'
  <2>1. \A c \in reading : \A m : m \in Range(c.files) => m \notin Range(s)
    BY <1>6 DEF Somewhere, BeingRead
  <2> QED BY <1>3, <1>4, <2>1 DEF FilesInv, BatchesApart
<1> QED
  BY <1>5, <1>8, <1>9
  DEF FilesInv, AttachmentsApart, SentApart, OneMessage
LEMMA RangeConcats ==
  ASSUME NEW s, IsList(s), NEW t, IsList(t)
  PROVE  Range(s \o t) = Range(s) \cup Range(t)
<1> DEFINE S == Range(s) \cup Range(t)
<1>1. s \in Seq(S) /\ t \in Seq(S) BY SeqMonotonic DEF IsList
<1> QED BY <1>1, RangeConcatenation

LEMMA InjectiveConcat ==
  ASSUME NEW s, IsList(s), Injective(s), NEW t, IsList(t), Injective(t),
         \A n : n \in Range(s) => n \notin Range(t)
  PROVE  Injective(s \o t)
<1> DEFINE u == s \o t
<1>1. /\ Len(s) \in Nat /\ DOMAIN s = 1..Len(s)
      /\ Len(t) \in Nat /\ DOMAIN t = 1..Len(t)
  BY ListFacts
<1>2. \A i \in DOMAIN s : u[i] = s[i] BY ListConcat
<1>3. \A i \in DOMAIN t : u[Len(s) + i] = t[i] BY ListSecond
<1>4. \A i \in DOMAIN u : i \in DOMAIN s \/ \E j \in DOMAIN t : i = Len(s) + j
  BY ListSplits
<1> HIDE DEF u
<1>5. \A i \in DOMAIN s : \A j \in DOMAIN t : s[i] # t[j] BY DEF Range
<1>6. ASSUME NEW i \in DOMAIN u, NEW j \in DOMAIN u, u[i] = u[j]
      PROVE  i = j
  <2>1. CASE i \in DOMAIN s /\ j \in DOMAIN s
    BY <1>2, <1>6, <2>1 DEF Injective
  <2>2. CASE i \in DOMAIN s /\ \E k \in DOMAIN t : j = Len(s) + k
    BY <1>2, <1>3, <1>5, <1>6, <2>2
  <2>3. CASE j \in DOMAIN s /\ \E k \in DOMAIN t : i = Len(s) + k
    BY <1>2, <1>3, <1>5, <1>6, <2>3
  <2>4. CASE /\ \E k \in DOMAIN t : i = Len(s) + k
             /\ \E k \in DOMAIN t : j = Len(s) + k
    <3>1. PICK k \in DOMAIN t : i = Len(s) + k BY <2>4
    <3>2. PICK l \in DOMAIN t : j = Len(s) + l BY <2>4
    <3>3. t[k] = t[l] BY <1>3, <1>6, <3>1, <3>2
    <3>4. k = l BY <3>3 DEF Injective
    <3> QED BY <3>1, <3>2, <3>4
  <2> QED BY <1>4, <1>6, <2>1, <2>2, <2>3, <2>4
<1> QED BY <1>6 DEF Injective, u

LEMMA FilesHeard ==
  ASSUME FilesInv, FilesRead
  PROVE  FilesInv'
<1> DEFINE old == composer.attachments
           new == composer'.attachments
<1>1. PICK b \in reading :
        /\ reading' = reading \ {b}
        /\ \/ /\ dropped' = dropped
              /\ composer' = [composer EXCEPT !.attachments = @ \o b.files]
           \/ /\ dropped' = dropped \cup Range(b.files)
              /\ \/ composer' = [composer EXCEPT !.error = TRUE]
                 \/ composer' = composer
  BY DEF FilesRead
<1>2. UNCHANGED <<chatter, sending, log, lastFile>> BY DEF FilesRead
<1>3. /\ "attachments" \in DOMAIN composer /\ IsList(old) /\ Injective(old)
      /\ IsList(b.files) /\ Injective(b.files)
      /\ \A n : n \in Range(b.files) => BeingRead(n)
  BY DEF FilesInv, AttachmentsApart, BatchesApart, BeingRead
<1>4. "attachments" \in DOMAIN composer' BY <1>1, <1>3
<1>5. \/ dropped' = dropped /\ new = old \o b.files
      \/ dropped' = dropped \cup Range(b.files) /\ new = old
  BY <1>1, <1>3
<1>6. /\ IsList(new) /\ Injective(new)
      /\ \/ dropped' = dropped /\ Range(new) = Range(old) \cup Range(b.files)
         \/ dropped' = dropped \cup Range(b.files) /\ Range(new) = Range(old)
  <2>1. CASE dropped' = dropped /\ new = old \o b.files
    <3>1. \A n : n \in Range(old) => n \notin Range(b.files)
      BY <1>3 DEF FilesInv, FilesPlaced, Alone, Beside
    <3>2. Injective(old \o b.files) BY <1>3, <3>1, InjectiveConcat
    <3>3. IsList(old \o b.files) BY <1>3, ListConcat
    <3>4. Range(old \o b.files) = Range(old) \cup Range(b.files)
      BY <1>3, RangeConcats
    <3> QED BY <2>1, <3>2, <3>3, <3>4
  <2>2. CASE dropped' = dropped \cup Range(b.files) /\ new = old
    BY <1>3, <2>2
  <2> QED BY <1>5, <2>1, <2>2
<1>7. \A n : BeingRead(n)' <=> BeingRead(n) /\ n \notin Range(b.files)
  <2> SUFFICES ASSUME NEW n
               PROVE  (\E c \in reading \ {b} : n \in Range(c.files))
                        <=> /\ \E c \in reading : n \in Range(c.files)
                            /\ n \notin Range(b.files)
    BY <1>1 DEF BeingRead
  <2>1. \A c \in reading \ {b} : n \in Range(c.files) => n \notin Range(b.files)
    BY DEF FilesInv, BatchesApart
  <2> QED BY <2>1
<1>8. \A n : Beside(n)' <=> n \in Range(new) BY DEF Beside
<1>9. \A n : Beside(n) <=> n \in Range(old) BY DEF Beside
<1> HIDE DEF old, new
<1>10. /\ \A n : Gone(n)' <=> n \in dropped'
       /\ \A n : (Sent(n)' <=> Sent(n)) /\ (OnItsWay(n)' <=> OnItsWay(n))
  BY <1>2 DEF Gone, Sent, OnItsWay
<1>11. FilesPlaced'
  <2>1. \A n : Somewhere(n)' <=> Somewhere(n)
    BY <1>3, <1>6, <1>7, <1>8, <1>9, <1>10 DEF Somewhere, Gone
  <2>2. \A n : Alone(n)'
    BY <1>3, <1>6, <1>7, <1>8, <1>9, <1>10
    DEF FilesInv, FilesPlaced, Alone, Gone
  <2> QED BY <1>2, <2>1, <2>2 DEF FilesInv, FilesPlaced
<1>12. BatchesApart' BY <1>1 DEF FilesInv, BatchesApart
<1>13. AttachmentsApart' BY <1>4, <1>6 DEF AttachmentsApart, new
<1> QED
  BY <1>2, <1>11, <1>12, <1>13 DEF FilesInv, SentApart, OneMessage
LEMMA FileRemoved ==
  ASSUME FilesInv, RemoveAttachment
  PROVE  FilesInv'
<1> DEFINE old == composer.attachments
           new == composer'.attachments
<1>1. PICK i \in DOMAIN composer.attachments :
        /\ composer' = [composer EXCEPT !.attachments = RemoveAt(@, i)]
        /\ dropped' = dropped \cup {composer.attachments[i]}
  BY DEF RemoveAttachment
<1>2. UNCHANGED <<chatter, reading, sending, log, lastFile>>
  BY DEF RemoveAttachment
<1>3. "attachments" \in DOMAIN composer /\ IsList(old) /\ Injective(old)
  BY DEF FilesInv, AttachmentsApart
<1>4. "attachments" \in DOMAIN composer' /\ new = RemoveAt(old, i)
  BY <1>1, <1>3
<1>5. i \in DOMAIN old /\ dropped' = dropped \cup {old[i]} BY <1>1
<1>a. \A n : Beside(n)' <=> n \in Range(new) BY DEF Beside
<1>b. \A n : Beside(n) <=> n \in Range(old) BY DEF Beside
<1> HIDE DEF old, new
<1>6. Len(old) \in Nat /\ DOMAIN old = 1..Len(old) BY <1>3, ListFacts
<1>7. /\ IsList(new) /\ DOMAIN new = 1..(Len(old) - 1)
      /\ \A j \in 1..(Len(old) - 1) :
           new[j] = IF j < i THEN old[j] ELSE old[j + 1]
  BY <1>3, <1>4, <1>5, ListRemoved
<1>8. Injective(new) BY <1>3, <1>5, <1>6, <1>7 DEF Injective
<1>9. ASSUME NEW n PROVE n \in Range(new) <=> n \in Range(old) /\ n # old[i]
  <2>1. ASSUME n \in Range(new) PROVE n \in Range(old) /\ n # old[i]
    <3>1. PICK j \in 1..(Len(old) - 1) : n = new[j] BY <1>7, <2>1 DEF Range
    <3>2. PICK k \in DOMAIN old : n = old[k] /\ k # i
      <4>1. j \in DOMAIN old /\ j + 1 \in DOMAIN old /\ i \in Nat
        BY <1>5, <1>6, <3>1
      <4>2. CASE j < i BY <1>7, <3>1, <4>1, <4>2
      <4>3. CASE ~ (j < i) BY <1>7, <3>1, <4>1, <4>3
      <4> QED BY <4>2, <4>3
    <3> QED BY <1>3, <1>5, <3>2 DEF Injective, Range
  <2>2. ASSUME n \in Range(old), n # old[i] PROVE n \in Range(new)
    <3>1. PICK k \in DOMAIN old : n = old[k] /\ k # i BY <2>2 DEF Range
    <3>2. CASE k < i
      <4>1. k \in DOMAIN new /\ new[k] = n
        BY <1>5, <1>6, <1>7, <3>1, <3>2
      <4> QED BY <4>1 DEF Range
    <3>3. CASE ~ (k < i)
      <4>1. k - 1 \in DOMAIN new /\ ~ (k - 1 < i) /\ (k - 1) + 1 = k
        BY <1>5, <1>6, <1>7, <3>1, <3>3
      <4>2. new[k - 1] = n BY <1>7, <3>1, <4>1
      <4> QED BY <4>1, <4>2 DEF Range
    <3> QED BY <3>2, <3>3
  <2> QED BY <2>1, <2>2
<1>10. old[i] \in Range(old) BY <1>5 DEF Range
<1>11. \A n : Gone(n)' <=> Gone(n) \/ n = old[i] BY <1>5 DEF Gone
<1>12. /\ \A n : BeingRead(n)' <=> BeingRead(n)
       /\ \A n : (Sent(n)' <=> Sent(n)) /\ (OnItsWay(n)' <=> OnItsWay(n))
  BY <1>2 DEF BeingRead, Sent, OnItsWay
<1>13. FilesPlaced'
  <2>1. \A n : Somewhere(n)' <=> Somewhere(n)
    BY <1>a, <1>b, <1>9, <1>10, <1>11, <1>12 DEF Somewhere
  <2>2. \A n : Alone(n)'
    BY <1>a, <1>b, <1>9, <1>10, <1>11, <1>12 DEF FilesInv, FilesPlaced, Alone
  <2> QED BY <1>2, <2>1, <2>2 DEF FilesInv, FilesPlaced
<1>14. AttachmentsApart' BY <1>4, <1>7, <1>8 DEF AttachmentsApart, new
<1> QED
  BY <1>2, <1>13, <1>14 DEF FilesInv, BatchesApart, SentApart, OneMessage

LEMMA FilesLeft ==
  ASSUME FilesInv, OpenTab
  PROVE  FilesInv'
<1>1. /\ dropped' = dropped \cup Range(composer.attachments)
      /\ "attachments" \in DOMAIN composer' /\ composer'.attachments = <<>>
      /\ UNCHANGED <<chatter, reading, sending, log, lastFile>>
  BY DEF OpenTab, EmptyComposer
<1>2. /\ \A n : Gone(n)' <=> Gone(n) \/ Beside(n)
      /\ \A n : ~ Beside(n)' /\ (BeingRead(n)' <=> BeingRead(n))
      /\ \A n : (Sent(n)' <=> Sent(n)) /\ (OnItsWay(n)' <=> OnItsWay(n))
  BY <1>1, ListOfNone DEF Gone, Beside, BeingRead, Sent, OnItsWay, Range
<1>3. FilesPlaced'
  <2>1. \A n : Somewhere(n)' <=> Somewhere(n) BY <1>2 DEF Somewhere
  <2>2. \A n : Alone(n)' BY <1>2 DEF FilesInv, FilesPlaced, Alone
  <2> QED BY <1>1, <2>1, <2>2 DEF FilesInv, FilesPlaced
<1>4. AttachmentsApart' BY <1>1, ListOfNone DEF AttachmentsApart, Injective
<1> QED
  BY <1>1, <1>3, <1>4 DEF FilesInv, BatchesApart, SentApart, OneMessage

(* A message that is sent takes the files beside it, or none of them.      *)
LEMMA FilesSent ==
  ASSUME FilesInv, ~ Chatter.busy,
         NEW form, NEW values, NEW files, Sends(Message(form, values, files)),
         "attachments" \in DOMAIN composer',
         \/ files = <<>> /\ composer'.attachments = composer.attachments
         \/ files = composer.attachments /\ composer'.attachments = <<>>,
         UNCHANGED <<reading, log, lastFile, dropped>>
  PROVE  FilesInv'
<1> DEFINE m == Message(form, values, files)
           old == composer.attachments
           new == composer'.attachments
<1>1. /\ Chats(chatter) /\ sending = <<>>
      /\ IsList(old) /\ Injective(old)
  BY DEF FilesInv, OneMessage, Chatter, AttachmentsApart
<1>2. DOMAIN m = MessageFields /\ m.files = files
  BY DEF Message, MessageFields
<1>3. sending' = <<m>> /\ chatter' = Busy(Chat(chatter, 1, "sent"), 1, TRUE)
  BY DEF Sends
<1> HIDE DEF m
<1>4. /\ sending' # <<>> /\ DOMAIN sending' = {1} /\ Len(sending') = 1
      /\ sending'[1] = m
  BY <1>3
<1>5. IsList(sending')
  <2>1. DOMAIN sending' = 1..1 /\ sending' = [i \in 1..1 |-> sending'[i]]
    BY <1>3
  <2> QED BY <2>1, ListIs
<1>6. OneMessage'
  <2> DEFINE said(b) == Busy(Chat(chatter, 1, "sent"), 1, b)
  <2>a. \A b : Chats(said(b)) /\ said(b)[1].busy = b BY <1>1, ChatSaid
  <2>b. chatter' = said(TRUE) BY <1>3
  <2> HIDE DEF said
  <2>1. Chats(chatter') /\ chatter'[1].busy = TRUE BY <2>a, <2>b
  <2> QED BY <1>2, <1>4, <1>5, <2>1 DEF OneMessage
<1>7. /\ IsList(new) /\ Injective(new)
      /\ \/ Range(files) = {} /\ Range(new) = Range(old)
         \/ Range(files) = Range(old) /\ Range(new) = {}
  <2>1. IsList(<<>>) /\ Injective(<<>>) /\ Range(<<>>) = {}
    BY ListOfNone DEF Injective, Range
  <2> QED BY <1>1, <2>1
<1>8. /\ \A n : ~ OnItsWay(n) /\ (OnItsWay(n)' <=> n \in Range(files))
      /\ \A n : (Beside(n) <=> n \in Range(old))
      /\ \A n : (Beside(n)' <=> n \in Range(new))
      /\ \A n : (BeingRead(n)' <=> BeingRead(n)) /\ (Gone(n)' <=> Gone(n))
      /\ \A n : Sent(n)' <=> Sent(n)
  BY <1>1, <1>2, <1>4 DEF OnItsWay, Beside, BeingRead, Gone, Sent
<1>9. FilesPlaced'
  <2>1. \A n : Somewhere(n)' <=> Somewhere(n) BY <1>7, <1>8 DEF Somewhere
  <2>2. \A n : Alone(n)' BY <1>7, <1>8 DEF FilesInv, FilesPlaced, Alone
  <2> QED BY <2>1, <2>2 DEF FilesInv, FilesPlaced
<1>10. AttachmentsApart' BY <1>7 DEF AttachmentsApart
<1> QED BY <1>6, <1>9, <1>10 DEF FilesInv, BatchesApart, SentApart

(* What a step sends: nothing, a message with the files or without, or a   *)
(* form.                                                                   *)
LEMMA SubmitSends ==
  ASSUME FilesInv, Submit
  PROVE  /\ UNCHANGED <<reading, log, lastFile, dropped, inputs>>
         /\ "attachments" \in DOMAIN composer'
         /\ \/ /\ UNCHANGED <<chatter, sending>>
               /\ composer'.attachments = composer.attachments
            \/ /\ ~ Chatter.busy
               /\ Sends(Message(None, None, <<>>))
               /\ composer'.attachments = composer.attachments
            \/ /\ ~ Chatter.busy
               /\ Sends(Message(None, None, composer.attachments))
               /\ composer'.attachments = <<>>
<1> DEFINE c == [composer EXCEPT !.error = FALSE]
<1>1. "attachments" \in DOMAIN composer BY DEF FilesInv, AttachmentsApart
<1>2. DOMAIN c = DOMAIN composer /\ c.attachments = composer.attachments
  BY <1>1
<1>3. /\ ~ Chatter.busy
      /\ UNCHANGED <<reading, log, lastFile, dropped, inputs>>
      /\ \/ composer' = c /\ Sends(Message(None, None, <<>>))
         \/ composer' = c /\ UNCHANGED <<chatter, sending>>
         \/ /\ composer' = [c EXCEPT !.error = TRUE]
            /\ UNCHANGED <<chatter, sending>>
         \/ /\ Sends(Message(None, None, c.attachments))
            /\ composer' = Cleared(c)
  BY DEF Submit
<1>4. DOMAIN Cleared(c) = DOMAIN c /\ Cleared(c).attachments = <<>>
  BY <1>1, <1>2 DEF Cleared
<1> HIDE DEF c
<1> QED BY <1>1, <1>2, <1>3, <1>4

LEMMA FilesSubmitted ==
  ASSUME FilesInv, Submit
  PROVE  FilesInv'
<1>1. /\ UNCHANGED <<reading, log, lastFile, dropped>>
      /\ "attachments" \in DOMAIN composer'
  BY SubmitSends
<1>2. CASE /\ UNCHANGED <<chatter, sending>>
           /\ composer'.attachments = composer.attachments
  BY <1>1, <1>2, FilesStay
<1>3. CASE /\ ~ Chatter.busy
           /\ Sends(Message(None, None, <<>>))
           /\ composer'.attachments = composer.attachments
  BY <1>1, <1>3, FilesSent
<1>4. CASE /\ ~ Chatter.busy
           /\ Sends(Message(None, None, composer.attachments))
           /\ composer'.attachments = <<>>
  BY <1>1, <1>4, FilesSent
<1> QED BY <1>2, <1>3, <1>4, SubmitSends

LEMMA FormSent ==
  ASSUME SubmitForm
  PROVE  /\ ~ Chatter.busy
         /\ UNCHANGED <<reading, log, lastFile, dropped, inputs, composer>>
         /\ \E k \in Forms :
              /\ OpenForm(k)
              /\ Sends(Message(k, FormValues(FormOf(k), inputs[k], Numerals), <<>>))
BY DEF SubmitForm

LEMMA FilesOfForm ==
  ASSUME FilesInv, SubmitForm
  PROVE  FilesInv'
<1>1. PICK k \in Forms :
        Sends(Message(k, FormValues(FormOf(k), inputs[k], Numerals), <<>>))
  BY FormSent
<1>2. /\ ~ Chatter.busy /\ "attachments" \in DOMAIN composer'
      /\ composer'.attachments = composer.attachments
      /\ UNCHANGED <<reading, log, lastFile, dropped>>
  BY FormSent DEF FilesInv, AttachmentsApart
<1> QED BY <1>1, <1>2, FilesSent

LEMMA RepliesWith ==
  ASSUME FilesInv, AgentReplies
  PROVE  /\ UNCHANGED <<composer, reading, lastFile, dropped, inputs>>
         /\ sending # <<>> /\ sending' = <<>> /\ Chats(chatter')
         /\ chatter'[1].busy = FALSE
         /\ \E ok \in BOOLEAN :
              /\ log' = Append(log, [sending[1] EXCEPT !.ok = ok])
              /\ \/ /\ ~ (ok /\ sending[1].form # None)
                    /\ chatter'[1].forms = chatter[1].forms
                 \/ /\ ok /\ sending[1].form # None
                    /\ chatter'[1].forms
                         = [g \in DOMAIN chatter[1].forms \cup {sending[1].form} |->
                              IF g = sending[1].form THEN sending[1].values
                              ELSE chatter[1].forms[g]]
<1> DEFINE said(item, b) == Busy(Chat(chatter, 1, item), 1, b)
           kept(l, f, v) == FormSubmitted(l, 1, f, v)
           item(ok) == IF ok THEN "answered" ELSE "error"
           m == sending[1]
<1>1. Chats(chatter) BY DEF FilesInv, OneMessage
<1>2. \A i, b : /\ Chats(said(i, b)) /\ said(i, b)[1].busy = b
                /\ said(i, b)[1].forms = chatter[1].forms
  BY <1>1, ChatSaid
<1>3. ASSUME NEW l, NEW f, NEW v, Chats(l)
      PROVE  /\ Chats(kept(l, f, v)) /\ kept(l, f, v)[1].busy = l[1].busy
             /\ kept(l, f, v)[1].forms
                  = [g \in DOMAIN l[1].forms \cup {f} |->
                       IF g = f THEN v ELSE l[1].forms[g]]
  BY <1>3, FormKept
<1>4. PICK ok \in BOOLEAN :
        /\ log' = Append(log, [m EXCEPT !.ok = ok])
        /\ chatter' = IF ok /\ m.form # None
                      THEN kept(said(item(ok), FALSE), m.form, m.values)
                      ELSE said(item(ok), FALSE)
  BY DEF AgentReplies
<1>5. UNCHANGED <<composer, reading, lastFile, dropped, inputs>>
      /\ sending # <<>> /\ sending' = <<>>
  BY DEF AgentReplies
<1> DEFINE k == said(item(ok), FALSE)
<1>6. Chats(k) /\ k[1].busy = FALSE /\ k[1].forms = chatter[1].forms
  <2> HIDE DEF said
  <2> QED BY <1>2
<1>7. chatter' = IF ok /\ m.form # None THEN kept(k, m.form, m.values) ELSE k
  BY <1>4
<1>8. log' = Append(log, [m EXCEPT !.ok = ok]) BY <1>4
<1> HIDE DEF said, kept, item, k
<1>9. CASE ok /\ m.form # None
  <2>1. chatter' = kept(k, m.form, m.values) BY <1>7, <1>9
  <2> DEFINE f == m.form
             v == m.values
             r == kept(k, f, v)
  <2>a. /\ Chats(r) /\ r[1].busy = k[1].busy
        /\ r[1].forms = [g \in DOMAIN k[1].forms \cup {f} |->
                           IF g = f THEN v ELSE k[1].forms[g]]
    <3> HIDE DEF f, v
    <3> QED BY <1>3, <1>6
  <2>b. chatter' = r BY <2>1
  <2> HIDE DEF r
  <2>2. /\ Chats(chatter') /\ chatter'[1].busy = FALSE
        /\ chatter'[1].forms = [g \in DOMAIN k[1].forms \cup {m.form} |->
                                 IF g = m.form THEN m.values ELSE k[1].forms[g]]
    BY <1>6, <2>a, <2>b
  <2> QED BY <1>5, <1>6, <1>8, <1>9, <2>2
<1>10. CASE ~ (ok /\ m.form # None)
  <2>1. chatter' = k BY <1>7, <1>10
  <2> QED BY <1>5, <1>6, <1>8, <1>10, <2>1
<1> QED BY <1>9, <1>10

LEMMA FilesAnswered ==
  ASSUME FilesInv, AgentReplies
  PROVE  FilesInv'
<1> DEFINE m == sending[1]
           e(ok) == [m EXCEPT !.ok = ok]
<1>1. /\ UNCHANGED <<composer, reading, lastFile, dropped>>
      /\ sending # <<>> /\ sending' = <<>>
      /\ Chats(chatter') /\ chatter'[1].busy = FALSE
  BY RepliesWith
<1>2. PICK ok \in BOOLEAN : log' = Append(log, e(ok)) BY RepliesWith
<1>3. /\ IsList(log) /\ DOMAIN m = MessageFields
      /\ DOMAIN e(ok) = MessageFields /\ e(ok).files = m.files
  BY <1>1 DEF FilesInv, SentApart, OneMessage, MessageFields
<1> DEFINE x == e(ok)
<1>4. DOMAIN x = MessageFields /\ x.files = m.files /\ log' = Append(log, x)
  BY <1>2, <1>3
<1> HIDE DEF x
<1>5. /\ IsList(log') /\ DOMAIN log' = 1..(Len(log) + 1)
      /\ \A i \in DOMAIN log : log'[i] = log[i]
      /\ log'[Len(log) + 1] = x
  BY <1>3, <1>4, ListAppend
<1>6. Len(log) \in Nat /\ DOMAIN log = 1..Len(log) BY <1>3, ListFacts
<1> DEFINE k == Len(log) + 1
<1>7. /\ \A i \in DOMAIN log' : i \in DOMAIN log \/ i = k
      /\ k \in DOMAIN log' /\ log'[k] = x /\ k \notin DOMAIN log
      /\ \A i \in DOMAIN log : i \in DOMAIN log'
  BY <1>5, <1>6
<1> HIDE DEF k
<1>8. \A n : OnItsWay(n) <=> n \in Range(m.files) BY <1>1 DEF OnItsWay
<1>9. /\ \A n : Sent(n)' <=> Sent(n) \/ n \in Range(m.files)
      /\ \A n : ~ OnItsWay(n)'
      /\ \A n : (Beside(n)' <=> Beside(n)) /\ (Gone(n)' <=> Gone(n))
      /\ \A n : BeingRead(n)' <=> BeingRead(n)
  <2>1. \A n : Sent(n)' <=> Sent(n) \/ n \in Range(m.files)
    <3> SUFFICES ASSUME NEW n
                 PROVE  (\E i \in DOMAIN log' : n \in Range(log'[i].files))
                          <=> \/ \E i \in DOMAIN log : n \in Range(log[i].files)
                              \/ n \in Range(m.files)
      BY DEF Sent
    <3> HIDE DEF m
    <3> QED BY <1>4, <1>5, <1>7
  <2> QED BY <1>1, <2>1 DEF OnItsWay, Beside, Gone, BeingRead
<1>10. FilesPlaced'
  <2>1. \A n : Somewhere(n)' <=> Somewhere(n) BY <1>8, <1>9 DEF Somewhere
  <2>2. \A n : Alone(n)' BY <1>8, <1>9 DEF FilesInv, FilesPlaced, Alone
  <2> QED BY <1>1, <2>1, <2>2 DEF FilesInv, FilesPlaced
<1>11. SentApart'
  <2>1. \A i \in DOMAIN log' : DOMAIN log'[i] = MessageFields
    BY <1>4, <1>5, <1>7 DEF FilesInv, SentApart
  <2>2. ASSUME NEW i \in DOMAIN log', NEW j \in DOMAIN log', NEW n,
               n \in Range(log'[i].files), n \in Range(log'[j].files)
        PROVE  i = j
    <3>1. \A l \in DOMAIN log : ~ (n \in Range(log[l].files) /\ n \in Range(m.files))
      BY <1>8 DEF FilesInv, FilesPlaced, Alone, Sent
    <3> HIDE DEF m
    <3> QED BY <1>4, <1>5, <1>7, <2>2, <3>1 DEF FilesInv, SentApart
  <2> QED BY <1>5, <2>1, <2>2 DEF SentApart
<1>12. OneMessage' BY <1>1 DEF OneMessage
<1> QED
  BY <1>1, <1>10, <1>11, <1>12 DEF FilesInv, BatchesApart, AttachmentsApart

LEMMA FilesGoOn ==
  ASSUME FilesInv, [ChatNext]_chatVars
  PROVE  FilesInv'
BY FilesComposed, FilesAdded, FilesHeard, FileRemoved, FilesSubmitted,
   FilesOfForm, FilesAnswered, FilesLeft DEF ChatNext
-----------------------------------------------------------------------------
(* The forms: what was answered is over, and what is on its way is not.    *)
Accepted(i, k) == log[i].form = k /\ log[i].ok
Carries(m, k) == m.values = FormValues(FormOf(k), m.typed, Numerals)

FormsInv ==
  /\ \A k \in Forms : \A i \in DOMAIN log :
       Accepted(i, k) => /\ k \in DOMAIN Chatter.forms
                         /\ Chatter.forms[k]
                              = FormValues(FormOf(k), log[i].typed, Numerals)
  /\ \A k \in Forms : \A i, j \in DOMAIN log :
       Accepted(i, k) /\ Accepted(j, k) => i = j
  /\ \A k \in Forms :
       k \in DOMAIN Chatter.forms => \E i \in DOMAIN log : Accepted(i, k)
  /\ sending # <<>> /\ sending[1].form # None =>
       /\ OpenForm(sending[1].form)
       /\ Carries(sending[1], sending[1].form)

LEMMA NoneIsNoForm == None \notin Forms
BY ChatAssumption DEF Forms

LEMMA FormsCounted ==
  ASSUME FormsInv
  PROVE  FormsShown
<1> SUFFICES
      ASSUME NEW k \in Forms
      PROVE  /\ Cardinality({i \in DOMAIN log : log[i].form = k /\ log[i].ok})
                  = IF OpenForm(k) THEN 0 ELSE 1
             /\ \A i \in {i \in DOMAIN log : log[i].form = k /\ log[i].ok} :
                  \A f \in DOMAIN FormOf(k) :
                    FormInputs(FormOf(k), Chatter.forms[k])[f]
                      = IF FormOf(k)[f].type = "number"
                             /\ log[i].typed[f] \notin Numerals
                        THEN "" ELSE log[i].typed[f]
  BY DEF FormsShown
<1> DEFINE A == {i \in DOMAIN log : log[i].form = k /\ log[i].ok}
<1>1. \A i, j \in A : i = j BY DEF FormsInv, Accepted
<1>2. A = {} <=> OpenForm(k) BY DEF FormsInv, Accepted, OpenForm
<1>3. Cardinality(A) = IF OpenForm(k) THEN 0 ELSE 1
  <2> HIDE DEF A
  <2> QED BY <1>1, <1>2, AtMostOneCounts
<1>4. ASSUME NEW i \in A, NEW f \in DOMAIN FormOf(k)
      PROVE  FormInputs(FormOf(k), Chatter.forms[k])[f]
               = IF FormOf(k)[f].type = "number"
                      /\ log[i].typed[f] \notin Numerals
                 THEN "" ELSE log[i].typed[f]
  <2> DEFINE form == FormOf(k)
             typed == log[i].typed
             values == Chatter.forms[k]
  <2>1. values = FormValues(form, typed, Numerals) BY DEF FormsInv, Accepted
  <2>2. f \in DOMAIN form OBVIOUS
  <2> HIDE DEF form, typed, values
  <2>3. FormInputs(form, values)[f]
          = IF f \in DOMAIN values THEN values[f]
            ELSE IF form[f].type = "checkbox" THEN "off" ELSE ""
    BY <2>2 DEF FormInputs
  <2>4. /\ f \in DOMAIN values
             <=> (form[f].type = "number" => typed[f] \in Numerals)
        /\ f \in DOMAIN values => values[f] = typed[f]
    BY <2>1, <2>2 DEF FormValues
  <2>5. FormInputs(form, values)[f]
          = IF form[f].type = "number" /\ typed[f] \notin Numerals
            THEN "" ELSE typed[f]
    BY <2>3, <2>4
  <2> QED BY <2>5 DEF form, typed, values
<1> QED BY <1>3, <1>4

LEMMA FormsStart == ChatInit => FormsInv
<1> SUFFICES ASSUME ChatInit PROVE FormsInv OBVIOUS
<1> DEFINE a == [CreateAgent(1, "u", "card") EXCEPT !.status = "done"]
<1>1. a.forms = [f \in {} |-> None] BY DEF CreateAgent, NewEntry
<1>2. chatter[1] = a BY DEF ChatInit
<1> HIDE DEF a
<1>3. DOMAIN Chatter.forms = {} BY <1>1, <1>2 DEF Chatter
<1>4. DOMAIN log = {} /\ sending = <<>> BY ListOfNone DEF ChatInit
<1> QED BY <1>3, <1>4 DEF FormsInv

LEMMA FormsAsked ==
  ASSUME FilesInv, FormsInv, NEW form, NEW values, NEW files, log' = log,
         Sends(Message(form, values, files)), inputs' = inputs,
         form # None => /\ OpenForm(form)
                        /\ values = FormValues(FormOf(form), inputs[form], Numerals)
  PROVE  FormsInv'
<1> DEFINE m == Message(form, values, files)
           said(b) == Busy(Chat(chatter, 1, "sent"), 1, b)
<1>1. m.form = form /\ (form # None => Carries(m, form))
  BY DEF Message, Carries
<1>2. sending' = <<m>> /\ chatter' = said(TRUE) BY DEF Sends
<1>3. \A b : said(b)[1].forms = chatter[1].forms
  BY ChatSaid DEF FilesInv, OneMessage
<1> HIDE DEF m, said
<1>4. Chatter'.forms = Chatter.forms BY <1>2, <1>3 DEF Chatter
<1>5. sending'[1] = m BY <1>2
<1> QED
  BY <1>1, <1>4, <1>5 DEF FormsInv, OpenForm, Accepted, Carries

LEMMA FormsAnswered ==
  ASSUME FilesInv, FormsInv, AgentReplies
  PROVE  FormsInv'
<1> DEFINE m == sending[1]
<1>1. sending # <<>> /\ sending' = <<>> BY RepliesWith
<1>2. PICK ok \in BOOLEAN :
        /\ log' = Append(log, [m EXCEPT !.ok = ok])
        /\ \/ /\ ~ (ok /\ m.form # None)
              /\ chatter'[1].forms = chatter[1].forms
           \/ /\ ok /\ m.form # None
              /\ chatter'[1].forms
                   = [g \in DOMAIN chatter[1].forms \cup {m.form} |->
                        IF g = m.form THEN m.values ELSE chatter[1].forms[g]]
  BY RepliesWith
<1> DEFINE x == [m EXCEPT !.ok = ok]
           k == Len(log) + 1
           old == Chatter.forms
           new == Chatter'.forms
           Now(i, f) == log'[i].form = f /\ log'[i].ok
<1>3. IsList(log) /\ DOMAIN m = MessageFields
  BY <1>1 DEF FilesInv, SentApart, OneMessage
<1>4. x.form = m.form /\ x.typed = m.typed /\ x.ok = ok
  BY <1>3 DEF MessageFields
<1>5. log' = Append(log, x) BY <1>2
<1>6. \/ ~ (ok /\ m.form # None) /\ new = old
      \/ /\ ok /\ m.form # None
         /\ new = [g \in DOMAIN old \cup {m.form} |->
                     IF g = m.form THEN m.values ELSE old[g]]
  BY <1>2 DEF Chatter
<1>7. Len(log) \in Nat /\ DOMAIN log = 1..Len(log) BY <1>3, ListFacts
<1> HIDE DEF x, old, new
<1>8. /\ DOMAIN log' = 1..(Len(log) + 1)
      /\ \A i \in DOMAIN log : log'[i] = log[i]
      /\ log'[Len(log) + 1] = x
  BY <1>3, <1>5, ListAppend
<1>9. /\ \A i \in DOMAIN log' : i \in DOMAIN log \/ i = k
      /\ \A i \in DOMAIN log : i \in DOMAIN log'
      /\ k \in DOMAIN log' /\ log'[k] = x
  BY <1>7, <1>8
<1> HIDE DEF k, m
<1>10. /\ m.form # None => /\ m.form \in Forms /\ m.form \notin DOMAIN old
                           /\ Carries(m, m.form)
       /\ \A f \in Forms : \A i \in DOMAIN log :
            Accepted(i, f) =>
              /\ f \in DOMAIN old
              /\ old[f] = FormValues(FormOf(f), log[i].typed, Numerals)
       /\ \A f \in Forms : \A i, j \in DOMAIN log :
            Accepted(i, f) /\ Accepted(j, f) => i = j
       /\ \A f \in Forms :
            f \in DOMAIN old => \E i \in DOMAIN log : Accepted(i, f)
  BY <1>1 DEF FormsInv, OpenForm, old, m
<1>11. /\ \A i \in DOMAIN log : \A f : Now(i, f) <=> Accepted(i, f)
       /\ \A f : Now(k, f) <=> ok /\ f = m.form
  <2>1. \A i \in DOMAIN log : \A f : Now(i, f) <=> Accepted(i, f)
    BY <1>8 DEF Accepted
  <2>2. \A f : Now(k, f) <=> x.form = f /\ x.ok
    BY <1>9, Zenon DEF Accepted
  <2> QED BY <1>4, <2>1, <2>2, Zenon
<1> HIDE DEF Now
<1>12. /\ \A f \in Forms :
            f \in DOMAIN new <=> f \in DOMAIN old \/ (ok /\ f = m.form)
       /\ \A f \in DOMAIN old : (ok /\ f = m.form) \/ new[f] = old[f]
       /\ ok /\ m.form # None => new[m.form] = m.values
  <2>1. CASE ~ (ok /\ m.form # None) /\ new = old
    BY <2>1, NoneIsNoForm
  <2>2. CASE /\ ok /\ m.form # None
             /\ new = [g \in DOMAIN old \cup {m.form} |->
                         IF g = m.form THEN m.values ELSE old[g]]
    BY <2>2
  <2> QED BY <1>6, <2>1, <2>2
<1>13. ASSUME NEW f \in Forms, ok, f = m.form
       PROVE  \A i \in DOMAIN log : ~ Accepted(i, f)
  BY <1>10, <1>13, NoneIsNoForm
<1> DEFINE Holds1 == \A f \in Forms : \A i \in DOMAIN log' :
             Now(i, f) =>
               /\ f \in DOMAIN new
               /\ new[f] = FormValues(FormOf(f), log'[i].typed, Numerals)
           Holds2 == \A f \in Forms : \A i, j \in DOMAIN log' :
             Now(i, f) /\ Now(j, f) => i = j
           Holds3 == \A f \in Forms :
             f \in DOMAIN new => \E i \in DOMAIN log' : Now(i, f)
<1>14. Holds1
  <2> SUFFICES ASSUME NEW f \in Forms, NEW i \in DOMAIN log', Now(i, f)
               PROVE  /\ f \in DOMAIN new
                      /\ new[f] = FormValues(FormOf(f), log'[i].typed, Numerals)
    OBVIOUS
  <2>1. CASE i \in DOMAIN log
    BY <1>8, <1>10, <1>11, <1>12, <1>13, <2>1
  <2>2. CASE i = k
    <3>1. ok /\ f = m.form BY <1>11, <2>2
    <3>2. f # None BY NoneIsNoForm
    <3>3. log'[i].typed = m.typed BY <1>4, <1>9, <2>2
    <3> QED BY <1>10, <1>12, <3>1, <3>2, <3>3 DEF Carries
  <2> QED BY <1>9, <2>1, <2>2
<1>15. Holds2 BY <1>9, <1>10, <1>11, <1>13
<1>16. Holds3 BY <1>9, <1>10, <1>11, <1>12
<1> QED
  <2>1. FormsInv' <=> Holds1 /\ Holds2 /\ Holds3
    <3> HIDE DEF Holds1, Holds2, Holds3
    <3> QED BY <1>1 
      DEF FormsInv, new, Now, Accepted, Holds1, Holds2, Holds3
  <2> QED BY <1>14, <1>15, <1>16, <2>1
LEMMA FormsGoOn ==
  ASSUME FilesInv, FormsInv, [ChatNext]_chatVars
  PROVE  FormsInv'
<1>1. CASE UNCHANGED <<chatter, sending, log>>
  BY <1>1 DEF FormsInv, Accepted, Carries, OpenForm, Chatter
<1>2. CASE Submit
  <2>1. UNCHANGED <<chatter, sending, log>>
          \/ /\ log' = log /\ inputs' = inputs
             /\ \/ Sends(Message(None, None, <<>>))
                \/ Sends(Message(None, None, composer.attachments))
    BY <1>2, SubmitSends
  <2> QED BY <1>1, <2>1, FormsAsked
<1>3. CASE SubmitForm
  <2>1. PICK k \in Forms :
          /\ OpenForm(k)
          /\ Sends(Message(k, FormValues(FormOf(k), inputs[k], Numerals), <<>>))
    BY <1>3, FormSent
  <2>2. log' = log /\ inputs' = inputs BY <1>3, FormSent
  <2> QED BY <2>1, <2>2, FormsAsked
<1>4. CASE AgentReplies BY <1>4, FormsAnswered
<1>5. CASE \/ Compose \/ AddFiles \/ FilesRead \/ RemoveAttachment
           \/ FillForm \/ OpenTab \/ UNCHANGED chatVars
  <2>1. UNCHANGED <<chatter, sending, log>>
    BY <1>5 DEF Compose, AddFiles, FilesRead, RemoveAttachment, FillForm,
                OpenTab, chatVars
  <2> QED BY <1>1, <2>1
<1> QED BY <1>2, <1>3, <1>4, <1>5 DEF ChatNext

(* What the user puts together goes once: a file with one message, however *)
(* it is read, removed or left, and a form until the agent answered to it, *)
(* which shows what was sent then (ChatPanel.tsx, FormPart.tsx).           *)
THEOREM PageSendsOnce == PageSpec => []ChatKept
<1> DEFINE Inv == part = "chat" => FilesInv /\ FormsInv
<1>1. PageInit => Inv BY FilesStart, FormsStart DEF PageInit
<1>2. Inv /\ [PageNext]_pageVars => Inv' BY PartStays, FilesGoOn, FormsGoOn
<1>3. Inv => ChatKept BY FilesCounted, FormsCounted DEF ChatKept
<1> HIDE DEF Inv
<1> QED BY <1>1, <1>2, <1>3, PTL DEF PageSpec
-----------------------------------------------------------------------------
(* The settings: a reference is for the value that is meant, in the        *)
(* session it came from, as long as that one is the inspector's.           *)
Points(ref, value, e, v, now) ==
  IF ref = None THEN value = ""
  ELSE \E n \in Nat : /\ ref = <<e, n>>
                      /\ e = now => n \in DOMAIN v /\ v[n] = value

RowTyped(h) == h = Header(h.name, h.value, h.secret, h.ref, h.lost)

SecretTyped(x) ==
  x = [source |-> x.source, value |-> x.value, ref |-> x.ref, lost |-> x.lost]

FormTyped(s, m) ==
  /\ s = [authType |-> s.authType, secret |-> s.secret,
          headers |-> s.headers, other |-> s.other]
  /\ SecretTyped(s.secret)
  /\ IsList(s.headers) /\ \A i \in DOMAIN s.headers : RowTyped(s.headers[i])
  /\ m = [auth |-> m.auth, headers |-> m.headers]
  /\ IsList(m.headers) /\ DOMAIN m.headers = DOMAIN s.headers

FormPoints(s, m, e, v, now) ==
  /\ Points(s.secret.ref, m.auth, e, v, now)
  /\ \A i \in DOMAIN s.headers :
       Points(s.headers[i].ref, m.headers[i], e, v, now)

(* What an edit makes of them.                                             *)
FormEdited(s, m, t, n) ==
  /\ FormTyped(t, n)
  /\ \A e, v, now : FormPoints(s, m, e, v, now) => FormPoints(t, n, e, v, now)

LEMMA AuthEdited ==
  ASSUME NEW s, NEW m, FormTyped(s, m), NEW secret, NEW type, NEW t, NEW n,
         t = [s EXCEPT !.authType = type, !.secret = secret],
         SecretTyped(secret),
         \/ n = m /\ secret.ref = s.secret.ref
         \/ n = [m EXCEPT !.auth = ""] /\ secret.ref = None
  PROVE  FormEdited(s, m, t, n)
<1>1. /\ t.secret = secret /\ t.headers = s.headers
      /\ t = [authType |-> t.authType, secret |-> t.secret,
              headers |-> t.headers, other |-> t.other]
      /\ n = [auth |-> n.auth, headers |-> n.headers]
      /\ n.headers = m.headers
  BY DEF FormTyped
<1>2. \/ n.auth = m.auth /\ secret.ref = s.secret.ref
      \/ n.auth = "" /\ secret.ref = None
  BY DEF FormTyped
<1>3. FormTyped(t, n) BY <1>1 DEF FormTyped
<1>4. ASSUME NEW e, NEW v, NEW now, FormPoints(s, m, e, v, now)
      PROVE  FormPoints(t, n, e, v, now)
  <2>1. Points(t.secret.ref, n.auth, e, v, now)
    <3>1. Points(s.secret.ref, m.auth, e, v, now) BY <1>4 DEF FormPoints
    <3>2. t.secret.ref = secret.ref BY <1>1
    <3>3. secret.ref = None /\ n.auth = "" => Points(secret.ref, n.auth, e, v, now)
      BY DEF Points
    <3> QED BY <1>2, <3>1, <3>2, <3>3
  <2>2. t.headers = s.headers /\ n.headers = m.headers BY <1>1
  <2> QED BY <1>4, <2>1, <2>2 DEF FormPoints
<1> QED BY <1>3, <1>4 DEF FormEdited

LEMMA HeaderEdited ==
  ASSUME NEW s, NEW m, FormTyped(s, m), NEW i \in DOMAIN s.headers, NEW h,
         NEW t, NEW n, t = [s EXCEPT !.headers[i] = h], RowTyped(h),
         \/ n = m /\ h.ref = s.headers[i].ref
         \/ n = [m EXCEPT !.headers[i] = ""] /\ h.ref = None
  PROVE  FormEdited(s, m, t, n)
<1>1. /\ t.secret = s.secret
      /\ t = [authType |-> t.authType, secret |-> t.secret,
              headers |-> t.headers, other |-> t.other]
      /\ n = [auth |-> n.auth, headers |-> n.headers]
      /\ n.auth = m.auth
      /\ t.headers = [s.headers EXCEPT ![i] = h]
      /\ n.headers = m.headers \/ n.headers = [m.headers EXCEPT ![i] = ""]
  BY DEF FormTyped
<1>2. \/ n.headers = m.headers /\ h.ref = s.headers[i].ref
      \/ n.headers = [m.headers EXCEPT ![i] = ""] /\ h.ref = None
  BY DEF FormTyped
<1>3. /\ Len(s.headers) \in Nat /\ DOMAIN s.headers = 1..Len(s.headers)
      /\ Len(m.headers) \in Nat /\ DOMAIN m.headers = 1..Len(m.headers)
      /\ IsList(m.headers)
      /\ \A j \in DOMAIN s.headers : RowTyped(s.headers[j])
      /\ DOMAIN m.headers = DOMAIN s.headers /\ SecretTyped(s.secret)
  BY ListFacts DEF FormTyped
<1>4. IsList(t.headers) /\ DOMAIN t.headers = DOMAIN s.headers
  <2> DEFINE l == t.headers
  <2>1. DOMAIN l = 1..Len(s.headers) /\ l = [j \in 1..Len(s.headers) |-> l[j]]
    BY <1>1, <1>3
  <2> HIDE DEF l
  <2>2. IsList(l) BY <1>3, <2>1, ListIs
  <2> QED BY <1>3, <2>1, <2>2 DEF l
<1>5. IsList(n.headers) /\ DOMAIN n.headers = DOMAIN m.headers
  <2> DEFINE l == n.headers
  <2>1. DOMAIN l = 1..Len(m.headers)
    BY <1>1, <1>3
  <2>2. CASE l = m.headers BY <1>3, <2>2
  <2>3. CASE l = [m.headers EXCEPT ![i] = ""]
    <3>1. l = [j \in 1..Len(m.headers) |-> l[j]] BY <1>3, <2>3
    <3> HIDE DEF l
    <3>2. IsList(l) BY <1>3, <2>1, <3>1, ListIs
    <3> QED BY <1>3, <2>1, <3>2 DEF l
  <2> QED BY <1>1, <2>2, <2>3
<1>6. \A j \in DOMAIN s.headers :
        t.headers[j] = IF j = i THEN h ELSE s.headers[j]
  BY <1>1
<1>7. FormTyped(t, n)
  <2>1. \A j \in DOMAIN t.headers : RowTyped(t.headers[j])
    BY <1>3, <1>4, <1>6
  <2> QED BY <1>1, <1>3, <1>4, <1>5, <2>1 DEF FormTyped
<1>8. ASSUME NEW e, NEW v, NEW now, FormPoints(s, m, e, v, now)
      PROVE  FormPoints(t, n, e, v, now)
  <2>1. ASSUME NEW j \in DOMAIN s.headers
        PROVE  Points(t.headers[j].ref, n.headers[j], e, v, now)
    <3>1. CASE j # i
      <4>1. n.headers[j] = m.headers[j] BY <1>2, <3>1, <1>3
      <4> QED BY <1>6, <1>8, <3>1, <4>1 DEF FormPoints
    <3>2. CASE j = i /\ n.headers = m.headers /\ h.ref = s.headers[i].ref
      BY <1>6, <1>8, <3>2 DEF FormPoints
    <3>3. CASE /\ j = i /\ h.ref = None
               /\ n.headers = [m.headers EXCEPT ![i] = ""]
      <4>1. n.headers[j] = "" BY <1>3, <3>3
      <4> QED BY <1>6, <3>3, <4>1 DEF Points
    <3> QED BY <1>2, <3>1, <3>2, <3>3
  <2> QED BY <1>1, <1>4, <1>8, <2>1 DEF FormPoints
<1> QED BY <1>7, <1>8 DEF FormEdited

LEMMA HeaderAdded ==
  ASSUME NEW s, NEW m, FormTyped(s, m)
  PROVE  FormEdited(s, m, AddHeader(s), [m EXCEPT !.headers = Append(@, "")])
<1> DEFINE t == AddHeader(s)
           n == [m EXCEPT !.headers = Append(@, "")]
           h == Header("", "", FALSE, None, FALSE)
           rows == Append(s.headers, h)
           values == Append(m.headers, "")
<1>1. /\ t.secret = s.secret
      /\ t = [authType |-> t.authType, secret |-> t.secret,
              headers |-> t.headers, other |-> t.other]
      /\ t.headers = Append(s.headers, h)
      /\ n = [auth |-> n.auth, headers |-> n.headers]
      /\ n.auth = m.auth /\ n.headers = Append(m.headers, "")
  <2>1. t = [s EXCEPT !.headers = rows] /\ n = [m EXCEPT !.headers = values]
    BY DEF AddHeader
  <2>2. /\ s = [authType |-> s.authType, secret |-> s.secret,
                headers |-> s.headers, other |-> s.other]
        /\ m = [auth |-> m.auth, headers |-> m.headers]
    BY DEF FormTyped
  <2> HIDE DEF t, n, rows, values
  <2>3. /\ t.secret = s.secret
        /\ t = [authType |-> t.authType, secret |-> t.secret,
                headers |-> t.headers, other |-> t.other]
        /\ t.headers = rows
        /\ n = [auth |-> n.auth, headers |-> n.headers]
        /\ n.auth = m.auth /\ n.headers = values
    BY <2>1, <2>2
  <2> QED BY <2>3 DEF rows, values
<1>2. /\ IsList(s.headers) /\ IsList(m.headers)
      /\ Len(s.headers) \in Nat /\ DOMAIN s.headers = 1..Len(s.headers)
      /\ Len(m.headers) \in Nat /\ DOMAIN m.headers = 1..Len(m.headers)
      /\ \A j \in DOMAIN s.headers : RowTyped(s.headers[j])
      /\ DOMAIN m.headers = DOMAIN s.headers /\ SecretTyped(s.secret)
  BY ListFacts DEF FormTyped
<1>3. Len(s.headers) = Len(m.headers) BY <1>2
<1>4. RowTyped(h) /\ h.ref = None BY DEF RowTyped, Header
<1> HIDE DEF t, n, h
<1>5. /\ IsList(t.headers) /\ DOMAIN t.headers = 1..(Len(s.headers) + 1)
      /\ \A j \in DOMAIN s.headers : t.headers[j] = s.headers[j]
      /\ t.headers[Len(s.headers) + 1] = h
  <2> DEFINE l == s.headers
             r == t.headers
  <2>1. IsList(l) /\ r = Append(l, h) /\ DOMAIN l = 1..Len(l) BY <1>1, <1>2
  <2> HIDE DEF l, r
  <2>2. /\ IsList(r) /\ DOMAIN r = 1..(Len(l) + 1)
        /\ \A j \in DOMAIN l : r[j] = l[j]
        /\ r[Len(l) + 1] = h
    BY <2>1, ListAppend
  <2> QED BY <2>2 DEF l, r
<1>6. /\ IsList(n.headers) /\ DOMAIN n.headers = 1..(Len(s.headers) + 1)
      /\ \A j \in DOMAIN s.headers : n.headers[j] = m.headers[j]
      /\ n.headers[Len(s.headers) + 1] = ""
  <2> DEFINE l == m.headers
             r == n.headers
             e == ""
  <2>1. IsList(l) /\ r = Append(l, e) /\ DOMAIN l = 1..Len(l) BY <1>1, <1>2
  <2>2. Len(l) = Len(s.headers) /\ DOMAIN l = DOMAIN s.headers BY <1>2, <1>3
  <2> HIDE DEF l, r, e
  <2>3. /\ IsList(r) /\ DOMAIN r = 1..(Len(l) + 1)
        /\ \A j \in DOMAIN l : r[j] = l[j]
        /\ r[Len(l) + 1] = e
    BY <2>1, ListAppend
  <2>4. /\ IsList(r) /\ DOMAIN r = 1..(Len(s.headers) + 1)
        /\ \A j \in DOMAIN s.headers : r[j] = l[j]
        /\ r[Len(s.headers) + 1] = e
    BY <2>2, <2>3
  <2> QED BY <2>4 DEF l, r, e
<1>7. \A j \in DOMAIN t.headers :
        j \in DOMAIN s.headers \/ j = Len(s.headers) + 1
  BY <1>2, <1>5
<1>8. FormTyped(t, n)
  <2>1. \A j \in DOMAIN t.headers : RowTyped(t.headers[j])
    BY <1>2, <1>4, <1>5, <1>7
  <2> QED BY <1>1, <1>2, <1>5, <1>6, <2>1 DEF FormTyped
<1>9. ASSUME NEW e, NEW v, NEW now, FormPoints(s, m, e, v, now)
      PROVE  FormPoints(t, n, e, v, now)
  <2>1. ASSUME NEW j \in DOMAIN t.headers
        PROVE  Points(t.headers[j].ref, n.headers[j], e, v, now)
    <3>1. CASE j \in DOMAIN s.headers
      BY <1>5, <1>6, <1>9, <3>1 DEF FormPoints
    <3>2. CASE j = Len(s.headers) + 1
      BY <1>4, <1>5, <1>6, <3>2 DEF Points
    <3> QED BY <1>7, <3>1, <3>2
  <2> QED BY <1>1, <1>9, <2>1 DEF FormPoints
<1> QED BY <1>8, <1>9 DEF FormEdited, t, n

LEMMA HeaderRemoved ==
  ASSUME NEW s, NEW m, FormTyped(s, m), NEW i \in DOMAIN s.headers
  PROVE  FormEdited(s, m, RemoveHeader(s, i), [m EXCEPT !.headers = RemoveAt(@, i)])
<1> DEFINE t == RemoveHeader(s, i)
           n == [m EXCEPT !.headers = RemoveAt(@, i)]
<1>1. /\ t.secret = s.secret
      /\ t = [authType |-> t.authType, secret |-> t.secret,
              headers |-> t.headers, other |-> t.other]
      /\ t.headers = RemoveAt(s.headers, i)
      /\ n = [auth |-> n.auth, headers |-> n.headers]
      /\ n.auth = m.auth /\ n.headers = RemoveAt(m.headers, i)
  BY DEF FormTyped, RemoveHeader
<1>2. /\ IsList(s.headers) /\ IsList(m.headers)
      /\ Len(s.headers) \in Nat /\ DOMAIN s.headers = 1..Len(s.headers)
      /\ Len(m.headers) \in Nat /\ DOMAIN m.headers = 1..Len(m.headers)
      /\ \A j \in DOMAIN s.headers : RowTyped(s.headers[j])
      /\ DOMAIN m.headers = DOMAIN s.headers /\ SecretTyped(s.secret)
  BY ListFacts DEF FormTyped
<1>3. Len(s.headers) = Len(m.headers) /\ i \in Nat BY <1>2
<1> HIDE DEF t, n
<1> DEFINE before(j) == IF j < i THEN j ELSE j + 1
<1>4. /\ IsList(t.headers) /\ DOMAIN t.headers = 1..(Len(s.headers) - 1)
      /\ \A j \in 1..(Len(s.headers) - 1) :
           t.headers[j] = s.headers[before(j)]
  <2>1. \A j \in 1..(Len(s.headers) - 1) :
          t.headers[j] = IF j < i THEN s.headers[j] ELSE s.headers[j + 1]
    BY <1>1, <1>2, ListRemoved
  <2> QED BY <1>1, <1>2, <2>1, ListRemoved
<1>5. /\ IsList(n.headers) /\ DOMAIN n.headers = 1..(Len(s.headers) - 1)
      /\ \A j \in 1..(Len(s.headers) - 1) :
           n.headers[j] = m.headers[before(j)]
  <2>0. i \in DOMAIN m.headers BY <1>2
  <2>1. \A j \in 1..(Len(s.headers) - 1) :
          n.headers[j] = IF j < i THEN m.headers[j] ELSE m.headers[j + 1]
    BY <1>1, <1>2, <1>3, <2>0, ListRemoved
  <2> QED BY <1>1, <1>2, <1>3, <2>0, <2>1, ListRemoved
<1>6. \A j \in 1..(Len(s.headers) - 1) : before(j) \in DOMAIN s.headers
  BY <1>2, <1>3
<1> HIDE DEF before
<1>7. FormTyped(t, n)
  <2>1. \A j \in DOMAIN t.headers : RowTyped(t.headers[j])
    BY <1>2, <1>4, <1>6
  <2> QED BY <1>1, <1>2, <1>4, <1>5, <2>1 DEF FormTyped
<1>8. ASSUME NEW e, NEW v, NEW now, FormPoints(s, m, e, v, now)
      PROVE  FormPoints(t, n, e, v, now)
  <2>1. ASSUME NEW j \in DOMAIN t.headers
        PROVE  Points(t.headers[j].ref, n.headers[j], e, v, now)
    BY <1>4, <1>5, <1>6, <1>8 DEF FormPoints
  <2> QED BY <1>1, <1>8, <2>1 DEF FormPoints
<1> QED BY <1>7, <1>8 DEF FormEdited, t, n

LEMMA LostBlank ==
  ASSUME NEW s, NEW m, FormTyped(s, m), NEW t, t = SettingsAfterSessionLoss(s),
         NEW n, n = NoMeans(s) \/ n = NoMeans(t)
  PROVE  /\ FormTyped(t, n)
         /\ \A e, v, now : FormPoints(t, n, e, v, now)
<1> DEFINE lost(h) == IF h.ref = None THEN h
                      ELSE [h EXCEPT !.ref = None, !.lost = TRUE]
           secret == [s.secret EXCEPT !.ref = None,
                        !.lost = @ \/ (s.secret.ref # None
                                       /\ s.secret.source = "value")]
           rows == [i \in DOMAIN s.headers |-> lost(s.headers[i])]
<1>1. /\ s = [authType |-> s.authType, secret |-> s.secret,
              headers |-> s.headers, other |-> s.other]
      /\ SecretTyped(s.secret)
      /\ Len(s.headers) \in Nat /\ DOMAIN s.headers = 1..Len(s.headers)
      /\ \A j \in DOMAIN s.headers : RowTyped(s.headers[j])
  BY ListFacts DEF FormTyped
<1>2. t = [s EXCEPT !.secret = secret, !.headers = rows]
  BY DEF SettingsAfterSessionLoss
<1>3. SecretTyped(secret) /\ secret.ref = None
  <2> DEFINE x == s.secret
             l == x.lost \/ (x.ref # None /\ x.source = "value")
  <2>1. SecretTyped(x) BY <1>1
  <2>2. secret = [x EXCEPT !.ref = None, !.lost = l] BY DEF l
  <2> HIDE DEF x, l, secret
  <2>3. secret = [source |-> x.source, value |-> x.value, ref |-> None,
                  lost |-> l]
    BY <2>1, <2>2 DEF SecretTyped
  <2> QED BY <2>3 DEF SecretTyped
<1>4. ASSUME NEW j \in DOMAIN s.headers
      PROVE  RowTyped(lost(s.headers[j])) /\ lost(s.headers[j]).ref = None
  <2> DEFINE h == s.headers[j]
             yes == TRUE
  <2>1. RowTyped(h) BY <1>1
  <2>2. PICK u : u = [h EXCEPT !.ref = None, !.lost = yes] OBVIOUS
  <2>6. lost(h) = IF h.ref = None THEN h ELSE u BY <2>2
  <2> HIDE DEF h, lost, yes
  <2>3. u = [name |-> h.name, value |-> h.value, secret |-> h.secret,
             ref |-> None, lost |-> yes]
    BY <2>1, <2>2 DEF RowTyped, Header
  <2>4. RowTyped(u) /\ u.ref = None BY <2>3 DEF RowTyped, Header
  <2>5. RowTyped(lost(h)) /\ lost(h).ref = None BY <2>1, <2>4, <2>6
  <2> QED BY <2>5 DEF h
<1> HIDE DEF lost, secret
<1>5. /\ DOMAIN rows = 1..Len(s.headers)
      /\ rows = [i \in 1..Len(s.headers) |-> rows[i]]
      /\ \A j \in DOMAIN s.headers : RowTyped(rows[j]) /\ rows[j].ref = None
  BY <1>1, <1>4
<1> HIDE DEF rows
<1>6. IsList(rows) BY <1>1, <1>5, ListIs
<1>7. /\ t = [authType |-> t.authType, secret |-> t.secret,
              headers |-> t.headers, other |-> t.other]
      /\ t.secret = secret /\ t.headers = rows
  BY <1>1, <1>2
<1>8. /\ n = [auth |-> n.auth, headers |-> n.headers] /\ n.auth = ""
      /\ n.headers = [j \in 1..Len(s.headers) |-> ""]
  <2>1. DOMAIN s.headers = 1..Len(s.headers) BY <1>1
  <2>2. DOMAIN t.headers = 1..Len(s.headers) BY <1>5, <1>7
  <2>3. n = [auth |-> "", headers |-> [j \in 1..Len(s.headers) |-> ""]]
    BY <2>1, <2>2, Zenon DEF NoMeans
  <2> QED BY <2>3
<1>9. IsList(n.headers) /\ DOMAIN n.headers = 1..Len(s.headers)
      /\ \A j \in DOMAIN s.headers : n.headers[j] = ""
  <2> DEFINE l == n.headers
  <2>1. DOMAIN l = 1..Len(s.headers) /\ l = [j \in 1..Len(s.headers) |-> l[j]]
    BY <1>8
  <2> HIDE DEF l
  <2>2. IsList(l) BY <1>1, <2>1, ListIs
  <2> QED BY <1>1, <1>8, <2>2 DEF l
<1>10. FormTyped(t, n)
  BY <1>1, <1>3, <1>5, <1>6, <1>7, <1>8, <1>9 DEF FormTyped
<1>11. \A e, v, now : FormPoints(t, n, e, v, now)
  BY <1>1, <1>3, <1>5, <1>7, <1>8, <1>9 DEF FormPoints, Points
<1> QED BY <1>10, <1>11

LEMMA ReadBlank ==
  ASSUME NEW s, NEW m, FormTyped(s, m), NEW t,
         NEW env, t = ReadSettings(SaveSettings(s, env), env)
  PROVE  /\ FormTyped(t, NoMeans(t))
         /\ \A e, v, now : FormPoints(t, NoMeans(t), e, v, now)
<1> DEFINE N == {i \in DOMAIN s.headers : Named(s.headers[i])}
           k == Cardinality(N)
           kept == SaveSettings(s, env)
           rows == kept.headers
           n == NoMeans(t)
<1>1. /\ Len(s.headers) \in Nat /\ DOMAIN s.headers = 1..Len(s.headers)
      /\ \A j \in DOMAIN s.headers : RowTyped(s.headers[j])
  BY ListFacts DEF FormTyped
<1>2. IsFiniteSet(N) /\ N \subseteq Nat /\ N \subseteq DOMAIN s.headers
  <2>1. IsFiniteSet(DOMAIN s.headers) BY ListFinite DEF FormTyped
  <2> QED BY <1>1, <2>1, FS_Subset
<1>3. k \in Nat BY <1>2, FS_CardinalityType
<1>4. DOMAIN rows = 1..k
  <2>1. rows = [j \in 1..k |->
                 [name |-> s.headers[Place(N, j)].name,
                  secret |-> s.headers[Place(N, j)].secret,
                  value |-> IF s.headers[Place(N, j)].secret THEN ""
                            ELSE s.headers[Place(N, j)].value]]
    BY DEF SaveSettings, Picked
  <2> HIDE DEF N, k, kept, rows
  <2> QED BY <2>1
<1> DEFINE row(j) == Header(rows[j].name, rows[j].value, rows[j].secret, None,
                            rows[j].secret)
           read == [j \in DOMAIN rows |-> row(j)]
           secret == IF kept.authType = "none" THEN EmptySecret
                     ELSE IF env /\ kept.envVar # ""
                     THEN [EmptySecret EXCEPT !.source = "env",
                                              !.value = kept.envVar]
                     ELSE [EmptySecret EXCEPT !.lost = TRUE]
<1>5. t = [authType |-> kept.authType, other |-> kept.other,
           secret |-> secret, headers |-> read]
  BY DEF ReadSettings
<1>6. SecretTyped(secret) /\ secret.ref = None
  BY DEF SecretTyped, EmptySecret
<1> HIDE DEF kept, N, k, rows
<1>7. /\ DOMAIN read = 1..k /\ read = [j \in 1..k |-> read[j]]
      /\ \A j \in 1..k : RowTyped(read[j]) /\ read[j].ref = None
  BY <1>4 DEF RowTyped, Header
<1> HIDE DEF secret, row, read
<1>8. IsList(read) BY <1>3, <1>7, ListIs
<1>9. /\ t = [authType |-> t.authType, secret |-> t.secret,
              headers |-> t.headers, other |-> t.other]
      /\ t.secret = secret /\ t.headers = read
  <2> DEFINE a == kept.authType
             o == kept.other
  <2>1. t = [authType |-> a, other |-> o, secret |-> secret, headers |-> read]
    BY <1>5
  <2> HIDE DEF a, o
  <2>2. /\ t.authType = a /\ t.other = o /\ t.secret = secret
        /\ t.headers = read
    BY <2>1
  <2>3. t = [authType |-> a, secret |-> secret, headers |-> read, other |-> o]
    BY <2>1
  <2> QED BY <2>2, <2>3
<1>10. /\ n = [auth |-> n.auth, headers |-> n.headers] /\ n.auth = ""
       /\ n.headers = [j \in 1..k |-> ""]
  <2>1. DOMAIN t.headers = 1..k BY <1>7, <1>9
  <2>2. n = [auth |-> "", headers |-> [j \in 1..k |-> ""]]
    BY <2>1, Zenon DEF NoMeans
  <2> HIDE DEF n
  <2> QED BY <2>2
<1>11. IsList(n.headers) /\ DOMAIN n.headers = 1..k
       /\ \A j \in 1..k : n.headers[j] = ""
  <2> DEFINE l == n.headers
  <2>1. DOMAIN l = 1..k /\ l = [j \in 1..k |-> l[j]] BY <1>10
  <2> HIDE DEF l
  <2>2. IsList(l) BY <1>3, <2>1, ListIs
  <2> QED BY <1>10, <2>2 DEF l
<1> HIDE DEF n
<1>12. FormTyped(t, n)
  BY <1>6, <1>7, <1>8, <1>9, <1>10, <1>11 DEF FormTyped
<1>13. \A e, v, now : FormPoints(t, n, e, v, now)
  BY <1>6, <1>7, <1>9, <1>10, <1>11 DEF FormPoints, Points
<1> QED BY <1>12, <1>13 DEF n

(* What a request is sent with.                                            *)
SentPoints(s, m, e, v, now) ==
  /\ ~ HasLostSecrets(s)
  /\ IF s.authType # "none" /\ s.secret.value # ""
     THEN m.auth = s.secret.value ELSE Points(s.secret.ref, m.auth, e, v, now)
  /\ \A i \in DOMAIN s.headers :
       LET h == s.headers[i]
       IN  IF Named(h) /\ h.secret /\ h.value # "" THEN m.headers[i] = h.value
           ELSE Points(h.ref, m.headers[i], e, v, now)

LEMMA MeantSent ==
  ASSUME NEW s, NEW m, FormTyped(s, m), NEW n, n = Meant(s, m)
  PROVE  /\ FormTyped(s, n)
         /\ \A e, v, now :
              FormPoints(s, m, e, v, now) /\ ~ HasLostSecrets(s)
                => SentPoints(s, n, e, v, now)
<1> DEFINE value(i) ==
             IF Named(s.headers[i]) /\ s.headers[i].secret
             THEN Typed(s.headers[i].value, m.headers[i]) ELSE m.headers[i]
           values == [i \in DOMAIN s.headers |-> value(i)]
<1>1. /\ Len(s.headers) \in Nat /\ DOMAIN s.headers = 1..Len(s.headers)
      /\ \A j \in DOMAIN s.headers : RowTyped(s.headers[j])
  BY ListFacts DEF FormTyped
<1>2. n = [auth |-> IF s.authType = "none" THEN m.auth
                    ELSE Typed(s.secret.value, m.auth),
           headers |-> values]
  BY DEF Meant
<1>3. /\ DOMAIN values = 1..Len(s.headers)
      /\ values = [i \in 1..Len(s.headers) |-> values[i]]
      /\ \A i \in DOMAIN s.headers : values[i] = value(i)
  BY <1>1
<1> HIDE DEF values
<1>4. IsList(values) BY <1>1, <1>3, ListIs
<1>5. FormTyped(s, n)
  <2>1. n = [auth |-> n.auth, headers |-> n.headers] /\ n.headers = values
    BY <1>2
  <2> QED BY <1>1, <1>3, <1>4, <2>1 DEF FormTyped
<1>6. ASSUME NEW e, NEW v, NEW now, FormPoints(s, m, e, v, now),
             ~ HasLostSecrets(s)
      PROVE  SentPoints(s, n, e, v, now)
  <2>1. IF s.authType # "none" /\ s.secret.value # ""
        THEN n.auth = s.secret.value
        ELSE Points(s.secret.ref, n.auth, e, v, now)
    <3>1. n.auth = IF s.authType = "none" THEN m.auth
                   ELSE Typed(s.secret.value, m.auth)
      BY <1>2
    <3>2. Points(s.secret.ref, m.auth, e, v, now) BY <1>6 DEF FormPoints
    <3> QED BY <3>1, <3>2 DEF Typed
  <2>2. ASSUME NEW i \in DOMAIN s.headers, NEW h, h = s.headers[i]
        PROVE  IF Named(h) /\ h.secret /\ h.value # ""
               THEN n.headers[i] = h.value
               ELSE Points(h.ref, n.headers[i], e, v, now)
    <3>1. n.headers[i] = value(i) BY <1>2, <1>3
    <3>2. Points(h.ref, m.headers[i], e, v, now) BY <1>6, <2>2 DEF FormPoints
    <3> QED BY <2>2, <3>1, <3>2 DEF Typed
  <2> QED BY <1>6, <2>1, <2>2 DEF SentPoints
<1> QED BY <1>5, <1>6

LEMMA AfterTyped ==
  ASSUME NEW s, NEW m, FormTyped(s, m), NEW conn
  PROVE  FormTyped(SettingsAfterConnect(s, conn), m)
<1> DEFINE t == SettingsAfterConnect(s, conn)
           no == FALSE
           blank == ""
           stored(h, ref) == [h EXCEPT !.value = blank, !.ref = ref,
                                       !.lost = no]
           view(i) == IF ViewIndex(s, i) \in DOMAIN conn.headers
                      THEN conn.headers[ViewIndex(s, i)] ELSE None
           row(i) == IF Named(s.headers[i]) /\ s.headers[i].secret
                        /\ view(i) # None
                     THEN stored(s.headers[i], view(i)) ELSE s.headers[i]
           secret == IF conn.auth = None THEN s.secret
                     ELSE IF s.secret.source = "env"
                     THEN [s.secret EXCEPT !.ref = conn.auth, !.lost = FALSE]
                     ELSE stored(s.secret, conn.auth)
           rows == [i \in DOMAIN s.headers |-> row(i)]
<1>1. /\ s = [authType |-> s.authType, secret |-> s.secret,
              headers |-> s.headers, other |-> s.other]
      /\ SecretTyped(s.secret)
      /\ Len(s.headers) \in Nat /\ DOMAIN s.headers = 1..Len(s.headers)
      /\ \A j \in DOMAIN s.headers : RowTyped(s.headers[j])
  BY ListFacts DEF FormTyped
<1>2. t = [s EXCEPT !.secret = secret, !.headers = rows]
  BY DEF SettingsAfterConnect
<1>3. SecretTyped(secret) BY <1>1 DEF SecretTyped
<1>4. ASSUME NEW h, RowTyped(h), NEW ref PROVE RowTyped(stored(h, ref))
  <2>0. PICK u : u = stored(h, ref) OBVIOUS
  <2> HIDE DEF no, blank
  <2>1. u = [name |-> h.name, value |-> blank, secret |-> h.secret,
             ref |-> ref, lost |-> no]
    BY <1>4, <2>0 DEF RowTyped, Header
  <2>2. RowTyped(u) BY <2>1 DEF RowTyped, Header
  <2> QED BY <2>0, <2>2
<1> HIDE DEF t, stored, view, secret
<1>5. \A j \in DOMAIN s.headers : RowTyped(row(j)) BY <1>1, <1>4
<1> HIDE DEF row
<1>6. /\ DOMAIN rows = 1..Len(s.headers)
      /\ rows = [i \in 1..Len(s.headers) |-> rows[i]]
      /\ \A j \in DOMAIN s.headers : RowTyped(rows[j])
  BY <1>1, <1>5
<1> HIDE DEF rows
<1>7. IsList(rows) BY <1>1, <1>6, ListIs
<1>8. /\ t = [authType |-> t.authType, secret |-> t.secret,
              headers |-> t.headers, other |-> t.other]
      /\ t.secret = secret /\ t.headers = rows
  BY <1>1, <1>2
<1> QED BY <1>1, <1>3, <1>6, <1>7, <1>8 DEF FormTyped, t

(* The references the session gives.                                       *)
KeptSecrets(I, st) ==
  /\ IsList(st.refs) /\ DOMAIN st.refs = DOMAIN I /\ IsList(st.vault)
  /\ \A k \in DOMAIN vault : k \in DOMAIN st.vault /\ st.vault[k] = vault[k]
  /\ \A i \in DOMAIN I :
       /\ I[i].kind = "plain" => st.refs[i] = None
       /\ I[i].kind = "ref" => st.refs[i] = <<epoch, I[i].of[2]>>

LEMMA StoredSecrets ==
  ASSUME NEW I, IsList(I), IsList(vault), NEW st, st = SecretsStored(I)
  PROVE  KeptSecrets(I, st)
<1> DEFINE F == {i \in DOMAIN I : I[i].kind \notin {"plain", "ref"}}
           number(i) == Len(vault) + Cardinality({j \in F : j <= i})
           new == Picked(I, F)
           added == [n \in DOMAIN new |-> new[n].of]
           ref(i) == IF I[i].kind = "plain" THEN None
                     ELSE IF I[i].kind = "ref" THEN <<epoch, I[i].of[2]>>
                     ELSE <<epoch, number(i)>>
           refs == [i \in DOMAIN I |-> ref(i)]
           grown == vault \o added
<1>1. st = [refs |-> refs, vault |-> grown] BY DEF SecretsStored
<1>2. Len(I) \in Nat /\ DOMAIN I = 1..Len(I) BY ListFacts
<1>3. IsFiniteSet(F)
  <2>1. IsFiniteSet(DOMAIN I) BY ListFinite
  <2>2. F \subseteq DOMAIN I OBVIOUS
  <2> QED BY <2>1, <2>2, FS_Subset
<1>4. DOMAIN new = 1..Cardinality(F) /\ Cardinality(F) \in Nat
  BY <1>3, FS_CardinalityType DEF Picked
<1> HIDE DEF new, F
<1>5. IsList(added)
  <2>1. DOMAIN added = 1..Cardinality(F)
        /\ added = [n \in 1..Cardinality(F) |-> added[n]]
    BY <1>4
  <2> HIDE DEF added
  <2> QED BY <1>4, <2>1, ListIs
<1> HIDE DEF added
<1>6. /\ IsList(grown)
      /\ \A k \in DOMAIN vault : k \in DOMAIN grown /\ grown[k] = vault[k]
  <2>1. /\ IsList(grown) /\ DOMAIN grown = 1..(Len(vault) + Len(added))
        /\ \A k \in DOMAIN vault : grown[k] = vault[k]
    BY <1>5, ListConcat
  <2>2. /\ Len(vault) \in Nat /\ DOMAIN vault = 1..Len(vault)
        /\ Len(added) \in Nat
    BY <1>5, ListFacts
  <2> HIDE DEF grown
  <2> QED BY <2>1, <2>2
<1> HIDE DEF grown, number
<1>7. /\ DOMAIN refs = 1..Len(I) /\ refs = [i \in 1..Len(I) |-> refs[i]]
      /\ \A i \in DOMAIN I : refs[i] = ref(i)
  BY <1>2
<1> HIDE DEF refs
<1>8. IsList(refs) BY <1>2, <1>7, ListIs
<1>9. st.refs = refs /\ st.vault = grown BY <1>1
<1>10. \A i \in DOMAIN I :
         /\ I[i].kind = "plain" => refs[i] = None
         /\ I[i].kind = "ref" => refs[i] = <<epoch, I[i].of[2]>>
  BY <1>7
<1> HIDE DEF ref
<1> QED BY <1>2, <1>6, <1>7, <1>8, <1>9, <1>10 DEF KeptSecrets

LEMMA StoredFresh ==
  ASSUME NEW I, IsList(I), IsList(vault), NEW st, st = SecretsStored(I),
         NEW i \in DOMAIN I
  PROVE  \/ I[i].kind \in {"plain", "ref"}
         \/ \E n \in DOMAIN st.vault :
              n \in Nat /\ st.refs[i] = <<epoch, n>> /\ st.vault[n] = I[i].of
<1> SUFFICES ASSUME I[i].kind \notin {"plain", "ref"}
             PROVE  \E n \in DOMAIN st.vault :
                      /\ n \in Nat /\ st.refs[i] = <<epoch, n>>
                      /\ st.vault[n] = I[i].of
  OBVIOUS
<1> DEFINE F == {j \in DOMAIN I : I[j].kind \notin {"plain", "ref"}}
           number(j) == Len(vault) + Cardinality({x \in F : x <= j})
           new == Picked(I, F)
           added == [n \in DOMAIN new |-> new[n].of]
           ref(j) == IF I[j].kind = "plain" THEN None
                     ELSE IF I[j].kind = "ref" THEN <<epoch, I[j].of[2]>>
                     ELSE <<epoch, number(j)>>
           refs == [j \in DOMAIN I |-> ref(j)]
           grown == vault \o added
           r == Rank(F, i)
<1>1. st = [refs |-> refs, vault |-> grown] BY DEF SecretsStored
<1>2. Len(I) \in Nat /\ DOMAIN I = 1..Len(I) BY ListFacts
<1>3. IsFiniteSet(F) /\ F \subseteq Nat /\ i \in F
  <2>1. IsFiniteSet(DOMAIN I) BY ListFinite
  <2>2. F \subseteq DOMAIN I /\ i \in F OBVIOUS
  <2> QED BY <1>2, <2>1, <2>2, FS_Subset
<1>4. refs[i] = <<epoch, number(i)>> /\ number(i) = Len(vault) + r
  BY DEF Rank
<1>5. new = [n \in 1..Cardinality(F) |-> I[Place(F, n)]] BY DEF Picked
<1> HIDE DEF F, new, number, refs
<1>6. r \in 1..Cardinality(F) /\ Place(F, r) = i /\ Cardinality(F) \in Nat
  BY <1>3, RankIn, PlaceOfRank, FS_CardinalityType
<1> HIDE DEF r
<1>7. /\ DOMAIN added = 1..Cardinality(F)
      /\ added = [n \in 1..Cardinality(F) |-> added[n]]
      /\ added[r] = I[i].of
  BY <1>5, <1>6
<1> HIDE DEF added
<1>8. IsList(added) BY <1>6, <1>7, ListIs
<1>9. grown[Len(vault) + r] = added[r] BY <1>6, <1>7, <1>8, ListSecond
<1>10. Len(vault) + r \in DOMAIN grown /\ Len(vault) + r \in Nat
  <2>1. DOMAIN grown = 1..(Len(vault) + Len(added)) BY <1>8, ListConcat
  <2>2. Len(vault) \in Nat /\ Len(added) = Cardinality(F)
    BY <1>6, <1>7, <1>8, ListFacts, ListIs
  <2> HIDE DEF grown
  <2> QED BY <1>6, <2>1, <2>2
<1> HIDE DEF grown
<1>11. st.refs = refs /\ st.vault = grown BY <1>1
<1> QED BY <1>4, <1>7, <1>9, <1>10, <1>11

(* What a request asks to be stored, if nothing was lost.                  *)
LEMMA RequestInputs ==
  ASSUME NEW s, NEW m, FormTyped(s, m), ~ HasLostSecrets(s), NEW I,
         I = Inputs(SettingsRequest(s))
  PROVE  /\ IsList(I) /\ 1 \in DOMAIN I
         /\ s.authType = "none" => I[1].kind = "plain"
         /\ s.authType # "none" =>
              IF s.secret.ref # None /\ s.secret.value = ""
              THEN I[1] = [kind |-> "ref", of |-> s.secret.ref]
              ELSE I[1].kind \in {"env", "value"} /\ I[1].of = s.secret.value
         /\ \A i \in DOMAIN s.headers :
              Named(s.headers[i]) =>
                /\ ViewIndex(s, i) \in 1..(Len(I) - 1)
                /\ I[ViewIndex(s, i) + 1] = HeaderInput(s.headers[i]).secret
<1> DEFINE N == {i \in DOMAIN s.headers : Named(s.headers[i])}
           A == {i \in DOMAIN s.headers :
                   /\ Named(s.headers[i])
                   /\ ~ (s.headers[i].secret /\ Missing(s.headers[i]))}
           k == Cardinality(N)
           sent == Picked(s.headers, A)
           req == SettingsRequest(s)
           auth == AuthInput(s)
           first == auth.secret
           rest == [j \in 1..k |-> HeaderInput(s.headers[Place(N, j)]).secret]
<1>1. Len(s.headers) \in Nat /\ DOMAIN s.headers = 1..Len(s.headers)
  BY ListFacts DEF FormTyped
<1>2. A = N BY DEF HasLostSecrets
<1>3. IsFiniteSet(N) /\ N \subseteq Nat /\ N \subseteq DOMAIN s.headers
  <2>1. IsFiniteSet(DOMAIN s.headers) BY ListFinite DEF FormTyped
  <2> QED BY <1>1, <2>1, FS_Subset
<1>4. k \in Nat BY <1>3, FS_CardinalityType
<1>5. sent = [j \in 1..k |-> s.headers[Place(N, j)]] BY <1>2 DEF Picked
<1>6. /\ req.auth = auth
      /\ req.headers = [j \in DOMAIN sent |-> HeaderInput(sent[j])]
  <2>1. req = [auth |-> auth, other |-> s.other,
               headers |-> [j \in DOMAIN sent |-> HeaderInput(sent[j])]]
    BY Zenon DEF SettingsRequest
  <2> HIDE DEF req, auth, sent
  <2> QED BY <2>1
<1> HIDE DEF req, auth, sent, A, N, k
<1>7. /\ DOMAIN req.headers = 1..k
      /\ \A j \in 1..k : req.headers[j] = HeaderInput(s.headers[Place(N, j)])
  BY <1>5, <1>6
<1>8. I = <<first>> \o rest
  <2>1. [j \in DOMAIN req.headers |-> req.headers[j].secret] = rest BY <1>7
  <2>2. I = <<req.auth.secret>> \o
              [j \in DOMAIN req.headers |-> req.headers[j].secret]
    BY Zenon DEF Inputs, req
  <2> QED BY <1>6, <2>1, <2>2
<1>9. /\ DOMAIN rest = 1..k /\ rest = [j \in 1..k |-> rest[j]]
      /\ \A j \in 1..k : rest[j] = HeaderInput(s.headers[Place(N, j)]).secret
  OBVIOUS
<1> HIDE DEF rest, first
<1>10. IsList(rest) /\ Len(rest) = k BY <1>4, <1>9, ListIs
<1> DEFINE one == <<first>>
<1>11. IsList(one) /\ Len(one) = 1 /\ DOMAIN one = {1} /\ one[1] = first
  <2>1. /\ DOMAIN one = 1..1 /\ one = [j \in 1..1 |-> one[j]]
        /\ DOMAIN one = {1} /\ one[1] = first
    OBVIOUS
  <2> HIDE DEF one
  <2> QED BY <2>1, ListIs
<1>12. I = one \o rest BY <1>8
<1> HIDE DEF one
<1>13. /\ IsList(I) /\ DOMAIN I = 1..(1 + k) /\ Len(I) = 1 + k
       /\ I[1] = first
  <2>1. /\ IsList(one \o rest)
        /\ DOMAIN (one \o rest) = 1..(Len(one) + Len(rest))
        /\ Len(one \o rest) = Len(one) + Len(rest)
        /\ \A j \in DOMAIN one : (one \o rest)[j] = one[j]
    BY <1>10, <1>11, ListConcat
  <2>2. (one \o rest)[1] = first BY <1>11, <2>1
  <2> QED BY <1>10, <1>11, <1>12, <2>1, <2>2
<1>14. ASSUME NEW j \in 1..k PROVE I[1 + j] = rest[j]
  <2>0. j \in DOMAIN rest BY <1>9
  <2>1. (one \o rest)[Len(one) + j] = rest[j]
    BY <1>10, <1>11, <2>0, ListSecond
  <2> QED BY <1>11, <1>12, <2>1
<1>15. /\ s.authType = "none" => first.kind = "plain"
       /\ s.authType # "none" =>
            IF s.secret.ref # None /\ s.secret.value = ""
            THEN first = [kind |-> "ref", of |-> s.secret.ref]
            ELSE first.kind \in {"env", "value"} /\ first.of = s.secret.value
  BY DEF first, auth, AuthInput, NoAuth, SecretInput, HasLostSecrets
<1>16. ASSUME NEW i \in DOMAIN s.headers, Named(s.headers[i])
       PROVE  /\ ViewIndex(s, i) \in 1..k
              /\ I[1 + ViewIndex(s, i)] = HeaderInput(s.headers[i]).secret
  <2>1. i \in N BY <1>16 DEF N
  <2>2. {j \in 1..i : Named(s.headers[j])} = {j \in N : j <= i}
    BY <1>1 DEF N
  <2>3. ViewIndex(s, i) = Rank(N, i) BY <2>2 DEF ViewIndex, Rank
  <2>4. Rank(N, i) \in 1..k BY <1>3, <2>1, RankIn DEF k
  <2>5. Place(N, Rank(N, i)) = i BY <1>3, <2>1, PlaceOfRank
  <2> QED BY <1>9, <1>14, <2>3, <2>4, <2>5
<1>17. k = Len(I) - 1 /\ \A j \in 1..k : j + 1 = 1 + j BY <1>4, <1>13
<1>18. 1 \in DOMAIN I BY <1>4, <1>13
<1> QED BY <1>13, <1>15, <1>16, <1>17, <1>18

StoredRight(I, st) ==
  /\ KeptSecrets(I, st)
  /\ \A i \in DOMAIN I :
       \/ I[i].kind \in {"plain", "ref"}
       \/ \E n \in DOMAIN st.vault :
            n \in Nat /\ st.refs[i] = <<epoch, n>> /\ st.vault[n] = I[i].of

LEMMA StoredRightly ==
  ASSUME NEW I, IsList(I), IsList(vault)
  PROVE  StoredRight(I, SecretsStored(I))
<1>1. PICK x : x = SecretsStored(I) OBVIOUS
<1>2. KeptSecrets(I, x)
  BY <1>1, StoredSecrets
<1>3. ASSUME NEW i \in DOMAIN I
      PROVE  \/ I[i].kind \in {"plain", "ref"}
             \/ \E n \in DOMAIN x.vault :
                  n \in Nat /\ x.refs[i] = <<epoch, n>> /\ x.vault[n] = I[i].of
  BY <1>1, StoredFresh
<1>4. StoredRight(I, x) BY <1>2, <1>3 DEF StoredRight
<1> QED BY <1>1, <1>4

(* References beside what is meant, once the session answers.              *)
AfterAnswer(c, refs) ==
  SettingsAfterConnect(c.settings, [auth |-> refs[1], headers |-> Tail(refs)])

(* A secret stored, or stored before, is there for the value meant.        *)
LEMMA InputStored ==
  ASSUME NEW I, epoch \in Nat, NEW st, StoredRight(I, st), NEW i \in DOMAIN I,
         NEW given, NEW value, NEW means1,
         value # "" => means1 = value,
         value = "" => Points(given, means1, epoch, vault, epoch),
         given # None /\ value = ""
           => I[i].kind = "ref" /\ I[i].of = given,
         ~ (given # None /\ value = "")
           => I[i].kind \notin {"plain", "ref"} /\ I[i].of = value
  PROVE  st.refs[i] # None /\ Points(st.refs[i], means1, epoch, st.vault, epoch)
<1>1. CASE given # None /\ value = ""
  <2>1. PICK n \in Nat : /\ given = <<epoch, n>>
                         /\ n \in DOMAIN vault /\ vault[n] = means1
    BY <1>1 DEF Points
  <2>2. I[i].kind = "ref" /\ I[i].of = given BY <1>1
  <2>3. st.refs[i] = <<epoch, n>>
    <3>1. st.refs[i] = <<epoch, I[i].of[2]>> BY <2>2 DEF StoredRight, KeptSecrets
    <3>2. given[2] = n BY <2>1
    <3> QED BY <2>2, <3>1, <3>2
  <2>4. n \in DOMAIN st.vault /\ st.vault[n] = means1
    BY <2>1 DEF StoredRight, KeptSecrets
  <2> QED BY <1>1, <2>1, <2>3, <2>4 DEF Points
<1>2. CASE ~ (given # None /\ value = "")
  <2>1. I[i].kind \notin {"plain", "ref"} /\ I[i].of = value BY <1>2
  <2>2. means1 = value BY <1>2 DEF Points
  <2>3. PICK n \in DOMAIN st.vault :
          n \in Nat /\ st.refs[i] = <<epoch, n>> /\ st.vault[n] = I[i].of
    BY <2>1 DEF StoredRight, KeptSecrets
  <2>4. <<epoch, n>> \in Nat \X Nat BY <2>3
  <2>5. st.refs[i] # None BY <2>3, <2>4, FormAssumption
  <2> QED BY <2>1, <2>2, <2>3, <2>4, <2>5 DEF Points
<1> QED BY <1>1, <1>2

LEMMA PointsStays ==
  ASSUME NEW v, NEW w,
         \A k \in DOMAIN v : k \in DOMAIN w /\ w[k] = v[k],
         NEW ref, NEW value, NEW e, NEW now, Points(ref, value, e, v, now)
  PROVE  Points(ref, value, e, w, now)
BY DEF Points

LEMMA SecretsServed ==
  ASSUME NEW s, NEW m, FormTyped(s, m), IsList(vault), epoch \in Nat,
         SentPoints(s, m, epoch, vault, epoch), NEW I, NEW st, NEW t,
         I = Inputs(SettingsRequest(s)), st = SecretsStored(I),
         t = SettingsAfterConnect(s, [auth |-> st.refs[1],
                                      headers |-> Tail(st.refs)])
  PROVE  FormPoints(t, m, epoch, st.vault, epoch)
<1> DEFINE conn == [auth |-> st.refs[1], headers |-> Tail(st.refs)]
           no == FALSE
           blank == ""
           stored(h, ref) == [h EXCEPT !.value = blank, !.ref = ref,
                                       !.lost = no]
           view(i) == IF ViewIndex(s, i) \in DOMAIN conn.headers
                      THEN conn.headers[ViewIndex(s, i)] ELSE None
           row(i) == IF Named(s.headers[i]) /\ s.headers[i].secret
                        /\ view(i) # None
                     THEN stored(s.headers[i], view(i)) ELSE s.headers[i]
           secret == IF conn.auth = None THEN s.secret
                     ELSE IF s.secret.source = "env"
                     THEN [s.secret EXCEPT !.ref = conn.auth, !.lost = no]
                     ELSE stored(s.secret, conn.auth)
           rows == [i \in DOMAIN s.headers |-> row(i)]
<1>1. t = [s EXCEPT !.secret = secret, !.headers = rows]
  BY DEF SettingsAfterConnect
<1>2. /\ s = [authType |-> s.authType, secret |-> s.secret,
              headers |-> s.headers, other |-> s.other]
      /\ SecretTyped(s.secret)
      /\ Len(s.headers) \in Nat /\ DOMAIN s.headers = 1..Len(s.headers)
      /\ \A j \in DOMAIN s.headers : RowTyped(s.headers[j])
      /\ ~ HasLostSecrets(s)
  BY ListFacts DEF FormTyped, SentPoints
<1>3. /\ IsList(I) /\ 1 \in DOMAIN I
      /\ s.authType = "none" => I[1].kind = "plain"
      /\ s.authType # "none" =>
           IF s.secret.ref # None /\ s.secret.value = ""
           THEN I[1] = [kind |-> "ref", of |-> s.secret.ref]
           ELSE I[1].kind \in {"env", "value"} /\ I[1].of = s.secret.value
      /\ \A i \in DOMAIN s.headers :
           Named(s.headers[i]) =>
             /\ ViewIndex(s, i) \in 1..(Len(I) - 1)
             /\ I[ViewIndex(s, i) + 1] = HeaderInput(s.headers[i]).secret
  BY <1>2, RequestInputs
<1>4. /\ IsList(st.refs) /\ DOMAIN st.refs = DOMAIN I
      /\ \A k \in DOMAIN vault : k \in DOMAIN st.vault /\ st.vault[k] = vault[k]
      /\ \A i \in DOMAIN I : I[i].kind = "plain" => st.refs[i] = None
  <2>1. StoredRight(I, st) BY <1>3, StoredRightly
  <2> QED BY <2>1 DEF StoredRight, KeptSecrets
<1>5. Len(I) \in Nat /\ DOMAIN I = 1..Len(I) /\ Len(st.refs) = Len(I)
  <2> DEFINE refs == st.refs
  <2>1. Len(I) \in Nat /\ DOMAIN I = 1..Len(I) BY <1>3, ListFacts
  <2>2. IsList(refs) /\ DOMAIN refs = DOMAIN I BY <1>4
  <2> HIDE DEF refs
  <2>3. Len(refs) \in Nat /\ DOMAIN refs = 1..Len(refs) BY <2>2, ListFacts
  <2>4. Len(refs) = Len(I) BY <2>1, <2>2, <2>3
  <2> QED BY <2>1, <2>4 DEF refs
<1>6. /\ DOMAIN conn.headers = 1..(Len(I) - 1)
      /\ \A k \in 1..(Len(I) - 1) : conn.headers[k] = st.refs[k + 1]
      /\ conn.auth = st.refs[1]
  <2> DEFINE refs == st.refs
  <2>1. refs \in Seq(Range(refs)) /\ refs # <<>>
    BY <1>3, <1>4, ListOfNone DEF IsList
  <2>2. Len(refs) = Len(I) BY <1>5
  <2> HIDE DEF refs
  <2>3. /\ Tail(refs) \in Seq(Range(refs)) /\ Len(Tail(refs)) = Len(refs) - 1
        /\ \A k \in 1..Len(Tail(refs)) : Tail(refs)[k] = refs[k + 1]
    BY <2>1, HeadTailProperties
  <2>4. DOMAIN Tail(refs) = 1..Len(Tail(refs)) BY <2>3, LenProperties
  <2> QED BY <2>2, <2>3, <2>4 DEF refs
<1> HIDE DEF conn, no, blank
<1>7. secret.ref = IF conn.auth = None THEN s.secret.ref ELSE conn.auth
  BY <1>2 DEF SecretTyped
<1>8. ASSUME NEW i \in DOMAIN s.headers
      PROVE  row(i).ref = IF Named(s.headers[i]) /\ s.headers[i].secret
                             /\ view(i) # None
                          THEN view(i) ELSE s.headers[i].ref
  <2>1. RowTyped(s.headers[i]) BY <1>2
  <2> QED BY <2>1 DEF RowTyped, Header
<1> HIDE DEF secret, row, stored
<1>9. t.secret = secret /\ t.headers = rows BY <1>1, <1>2
<1>10. Points(t.secret.ref, m.auth, epoch, st.vault, epoch)
  <2>1. CASE s.authType = "none"
    <3>1. t.secret.ref = s.secret.ref BY <1>3, <1>4, <1>6, <1>7, <1>9, <2>1
    <3>2. Points(s.secret.ref, m.auth, epoch, vault, epoch)
      BY <2>1 DEF SentPoints
    <3> QED BY <1>4, <3>1, <3>2, PointsStays
  <2>2. CASE s.authType # "none"
    <3>1. /\ st.refs[1] # None
          /\ Points(st.refs[1], m.auth, epoch, st.vault, epoch)
      <4> DEFINE given == s.secret.ref
                 value == s.secret.value
                 meant == m.auth
      <4>1. /\ value # "" => meant = value
            /\ value = "" => Points(given, meant, epoch, vault, epoch)
        BY <2>2 DEF SentPoints
      <4>2. /\ given # None /\ value = ""
                 => I[1].kind = "ref" /\ I[1].of = given
            /\ ~ (given # None /\ value = "")
                 => I[1].kind \notin {"plain", "ref"} /\ I[1].of = value
        <5> DEFINE x == I[1]
        <5>1. IF given # None /\ value = ""
              THEN x = [kind |-> "ref", of |-> given]
              ELSE x.kind \in {"env", "value"} /\ x.of = value
          BY <1>3, <2>2
        <5> HIDE DEF given, value, x
        <5>2. CASE given # None /\ value = ""
          <6>1. x = [kind |-> "ref", of |-> given] BY <5>1, <5>2
          <6>2. x.kind = "ref" /\ x.of = given BY <6>1
          <6> QED BY <5>2, <6>2 DEF x
        <5>3. CASE ~ (given # None /\ value = "")
          <6>1. x.kind \in {"env", "value"} /\ x.of = value BY <5>1, <5>3
          <6> QED BY <5>3, <6>1 DEF x
        <5> QED BY <5>2, <5>3
      <4>3. StoredRight(I, st) /\ 1 \in DOMAIN I BY <1>3, StoredRightly
      <4> HIDE DEF given, value, meant
      <4>4. /\ st.refs[1] # None
            /\ Points(st.refs[1], meant, epoch, st.vault, epoch)
        BY <4>1, <4>2, <4>3, InputStored
      <4> QED BY <4>4 DEF meant
    <3> QED BY <1>6, <1>7, <1>9, <3>1
  <2> QED BY <2>1, <2>2
<1>11. ASSUME NEW i \in DOMAIN s.headers
       PROVE  Points(t.headers[i].ref, m.headers[i], epoch, st.vault, epoch)
  <2> DEFINE h == s.headers[i]
             k == ViewIndex(s, i)
  <2>1. t.headers[i] = row(i) BY <1>9
  <2>2. IF Named(h) /\ h.secret /\ h.value # "" THEN m.headers[i] = h.value
        ELSE Points(h.ref, m.headers[i], epoch, vault, epoch)
    BY DEF SentPoints
  <2>3. CASE ~ (Named(h) /\ h.secret)
    <3>1. t.headers[i].ref = h.ref BY <1>8, <2>1, <2>3
    <3>2. Points(h.ref, m.headers[i], epoch, vault, epoch) BY <2>2, <2>3
    <3> HIDE DEF h
    <3> QED BY <1>4, <3>1, <3>2, PointsStays
  <2>4. CASE Named(h) /\ h.secret
    <3>1. k \in 1..(Len(I) - 1) /\ I[k + 1] = SecretInput(h, FALSE)
      BY <1>3, <2>4 DEF HeaderInput
    <3>2. k + 1 \in DOMAIN I /\ view(i) = st.refs[k + 1]
      BY <1>5, <1>6, <3>1
    <3> DEFINE given == h.ref
               value == h.value
               meant == m.headers[i]
               j == k + 1
    <3>3. /\ given # None /\ value = ""
               => I[j].kind = "ref" /\ I[j].of = given
          /\ ~ (given # None /\ value = "")
               => I[j].kind \notin {"plain", "ref"} /\ I[j].of = value
      <4> DEFINE secret1 == [kind |-> "ref", of |-> given]
                 secret2 == [kind |-> "value", of |-> value]
      <4>1. I[j] = IF given # None /\ value = "" THEN secret1 ELSE secret2
        BY <3>1, Zenon DEF SecretInput
      <4>2. secret1.kind = "ref" /\ secret1.of = given
        OBVIOUS
      <4>3. secret2.kind = "value" /\ secret2.of = value
        OBVIOUS
      <4> HIDE DEF secret1, secret2, given, value, j
      <4> QED BY <4>1, <4>2, <4>3
    <3>4. /\ value # "" => meant = value
          /\ value = "" => Points(given, meant, epoch, vault, epoch)
      BY <2>2, <2>4
    <3>5. t.headers[i].ref = IF view(i) # None THEN view(i) ELSE h.ref
      BY <1>8, <2>1, <2>4
    <3>6. StoredRight(I, st) /\ j \in DOMAIN I BY <1>3, <3>2, StoredRightly
    <3> HIDE DEF h, k, view, given, value, meant, j
    <3>7. /\ st.refs[j] # None
          /\ Points(st.refs[j], meant, epoch, st.vault, epoch)
      BY <3>3, <3>4, <3>6, InputStored
    <3>8. view(i) = st.refs[j] BY <3>2 DEF j
    <3> QED BY <3>5, <3>7, <3>8 DEF meant
  <2> QED BY <2>3, <2>4
<1>12. DOMAIN t.headers = DOMAIN s.headers BY <1>9
<1> QED BY <1>10, <1>11, <1>12 DEF FormPoints
-----------------------------------------------------------------------------
(* The settings, the request under way and what its answer will make of    *)
(* them, while no answer came after its session was given up.              *)
RequestOK(c, now) ==
  c # None =>
    /\ c = [settings |-> c.settings, means |-> c.means, epoch |-> c.epoch,
            again |-> c.again, answer |-> c.answer]
    /\ FormTyped(c.settings, c.means)
    /\ c.epoch \in 1..now

RequestPoints(c, v, now) ==
  c # None =>
    /\ SentPoints(c.settings, c.means, c.epoch, v, now)
    /\ c.answer # None /\ c.answer.type = "connected"
         => /\ c.answer.epoch = c.epoch
            /\ FormPoints(AfterAnswer(c, c.answer.refs), c.means, c.epoch, v,
                          now)

SettingsInv ==
  /\ epoch \in {1, 2} /\ knows \in 1..epoch /\ IsList(vault)
  /\ FormTyped(settings, means) /\ RequestOK(connecting, epoch)
  /\ ~ late => /\ FormPoints(settings, means, knows, vault, epoch)
               /\ RequestPoints(connecting, vault, epoch)

(* Only what the session counts matters: it grows, or is given up.         *)
LEMMA FormStays ==
  ASSUME NEW v, NEW w, NEW e, NEW now, NEW after,
         e # after \/ (now = after /\ \A k \in DOMAIN v :
                                        k \in DOMAIN w /\ w[k] = v[k]),
         NEW s, NEW m
  PROVE  /\ FormPoints(s, m, e, v, now) => FormPoints(s, m, e, w, after)
         /\ SentPoints(s, m, e, v, now) => SentPoints(s, m, e, w, after)
<1>1. ASSUME NEW ref, NEW value, Points(ref, value, e, v, now)
      PROVE  Points(ref, value, e, w, after)
  BY <1>1 DEF Points
<1>2. ASSUME FormPoints(s, m, e, v, now) PROVE FormPoints(s, m, e, w, after)
  BY <1>1, <1>2 DEF FormPoints
<1>3. ASSUME SentPoints(s, m, e, v, now) PROVE SentPoints(s, m, e, w, after)
  <2>1. IF s.authType # "none" /\ s.secret.value # ""
        THEN m.auth = s.secret.value
        ELSE Points(s.secret.ref, m.auth, e, w, after)
    BY <1>1, <1>3 DEF SentPoints
  <2>2. ASSUME NEW i \in DOMAIN s.headers, NEW h, h = s.headers[i]
        PROVE  IF Named(h) /\ h.secret /\ h.value # ""
               THEN m.headers[i] = h.value
               ELSE Points(h.ref, m.headers[i], e, w, after)
    BY <1>1, <1>3, <2>2 DEF SentPoints
  <2> QED BY <1>3, <2>1, <2>2 DEF SentPoints
<1> QED BY <1>2, <1>3

LEMMA RequestStays ==
  ASSUME NEW v, NEW w, NEW now, NEW after, NEW c, c # None,
         c.epoch # after \/ (now = after /\ \A k \in DOMAIN v :
                                              k \in DOMAIN w /\ w[k] = v[k]),
         RequestPoints(c, v, now)
  PROVE  RequestPoints(c, w, after)
<1> DEFINE e == c.epoch
           s == c.settings
           m == c.means
           t == AfterAnswer(c, c.answer.refs)
<1>1. /\ SentPoints(s, m, e, v, now) => SentPoints(s, m, e, w, after)
      /\ FormPoints(t, m, e, v, now) => FormPoints(t, m, e, w, after)
  <2> HIDE DEF e, s, m, t
  <2>1. e # after \/ (now = after /\ \A k \in DOMAIN v :
                                       k \in DOMAIN w /\ w[k] = v[k])
    BY DEF e
  <2> QED BY <2>1, FormStays
<1> QED BY <1>1 DEF RequestPoints

(* The form is edited: the request under way is not.                       *)
LEMMA FormGoesOn ==
  ASSUME SettingsInv, FormEdited(settings, means, settings', means'),
         UNCHANGED <<connecting, vault, epoch, knows, late>>
  PROVE  SettingsInv'
<1>1. FormTyped(settings', means') BY DEF FormEdited
<1>2. FormPoints(settings, means, knows, vault, epoch)
        => FormPoints(settings', means', knows, vault, epoch)
  BY DEF FormEdited
<1> QED BY <1>1, <1>2 DEF SettingsInv

LEMMA AuthGoesOn ==
  ASSUME SettingsInv, EditAuth
  PROVE  SettingsInv'
<1> DEFINE s == settings
           m == means
           blank == [m EXCEPT !.auth = ""]
<1>1. /\ FormTyped(s, m) /\ SecretTyped(s.secret)
      /\ s = [authType |-> s.authType, secret |-> s.secret,
              headers |-> s.headers, other |-> s.other]
  BY DEF SettingsInv, FormTyped
<1>2. UNCHANGED <<connecting, vault, epoch, knows, late>>
  BY DEF EditAuth, Edits, Idle
<1>3. CASE \E type \in AuthTypes :
             settings' = SetAuthType(s, type) /\ means' = blank
  <2>1. PICK type : settings' = SetAuthType(s, type) /\ means' = blank BY <1>3
  <2>2. SecretTyped(EmptySecret) /\ EmptySecret.ref = None
    BY DEF SecretTyped, EmptySecret
  <2>3. settings' = [s EXCEPT !.authType = type, !.secret = EmptySecret]
    BY <2>1 DEF SetAuthType
  <2>4. FormEdited(s, m, settings', means')
    <3>1. PICK t, n : t = settings' /\ n = means' OBVIOUS
    <3>2. /\ t = [s EXCEPT !.authType = type, !.secret = EmptySecret]
          /\ n = [m EXCEPT !.auth = ""]
      BY <2>1, <2>3, <3>1
    <3> HIDE DEF s, m
    <3>3. FormEdited(s, m, t, n) BY <1>1, <2>2, <3>2, AuthEdited
    <3> QED BY <3>1, <3>3
  <2> QED BY <1>2, <2>4, FormGoesOn
<1>4. CASE \E source \in Sources :
             settings' = SetSource(s, source) /\ means' = blank
  <2>1. PICK source : settings' = SetSource(s, source) /\ means' = blank
    BY <1>4
  <2> DEFINE x == [EmptySecret EXCEPT !.source = source]
  <2>2. SecretTyped(x) /\ x.ref = None
    <3>1. PICK y : y = EmptySecret OBVIOUS
    <3>2. SecretTyped(y) /\ y.ref = None BY <3>1 DEF SecretTyped, EmptySecret
    <3>3. x = [y EXCEPT !.source = source] BY <3>1
    <3> HIDE DEF x
    <3>4. x = [source |-> source, value |-> y.value, ref |-> None,
               lost |-> y.lost]
      BY <3>2, <3>3 DEF SecretTyped
    <3> QED BY <3>4 DEF SecretTyped
  <2>3. settings' = [s EXCEPT !.secret = x] BY <2>1 DEF SetSource
  <2> HIDE DEF x
  <2>4. FormEdited(s, m, settings', means')
    <3>1. PICK t, n : t = settings' /\ n = means' OBVIOUS
    <3>2. t = [s EXCEPT !.secret = x] /\ n = [m EXCEPT !.auth = ""]
      BY <2>1, <2>3, <3>1
    <3> HIDE DEF s, m
    <3>3. t = [s EXCEPT !.authType = s.authType, !.secret = x]
      BY <1>1, <3>2
    <3>4. FormEdited(s, m, t, n) BY <1>1, <2>2, <3>2, <3>3, AuthEdited
    <3> QED BY <3>1, <3>4
  <2> QED BY <1>2, <2>4, FormGoesOn
<1>5. CASE \E v : settings' = SetSecret(s, v) /\ means' = m
  <2>1. PICK v : settings' = SetSecret(s, v) /\ means' = m BY <1>5
  <2> DEFINE x == [s.secret EXCEPT !.value = v]
  <2>2. SecretTyped(x) /\ x.ref = s.secret.ref
    <3> DEFINE y == s.secret
    <3>1. SecretTyped(y) /\ x = [y EXCEPT !.value = v] BY <1>1
    <3> HIDE DEF y, x
    <3>2. x = [source |-> y.source, value |-> v, ref |-> y.ref,
               lost |-> y.lost]
      BY <3>1 DEF SecretTyped
    <3>3. SecretTyped(x) /\ x.ref = y.ref BY <3>2 DEF SecretTyped
    <3> QED BY <3>3 DEF y
  <2>3. settings' = [s EXCEPT !.secret = x] BY <2>1 DEF SetSecret
  <2> HIDE DEF x
  <2>4. FormEdited(s, m, settings', means')
    <3>1. PICK t, n : t = settings' /\ n = means' OBVIOUS
    <3>2. t = [s EXCEPT !.secret = x] /\ n = m BY <2>1, <2>3, <3>1
    <3> HIDE DEF s, m
    <3>3. t = [s EXCEPT !.authType = s.authType, !.secret = x]
      BY <1>1, <3>2
    <3>4. FormEdited(s, m, t, n) BY <1>1, <2>2, <3>2, <3>3, AuthEdited
    <3> QED BY <3>1, <3>4
  <2> QED BY <1>2, <2>4, FormGoesOn
<1> QED BY <1>3, <1>4, <1>5 DEF EditAuth, Edits

LEMMA HeaderGoesOn ==
  ASSUME SettingsInv, EditHeader \/ AddsHeader
  PROVE  SettingsInv'
<1> DEFINE s == settings
           m == means
           rows == s.headers
<1>1. /\ FormTyped(s, m)
      /\ s = [authType |-> s.authType, secret |-> s.secret,
              headers |-> s.headers, other |-> s.other]
      /\ \A j \in DOMAIN rows : RowTyped(rows[j])
  BY DEF SettingsInv, FormTyped
<1>2. UNCHANGED <<connecting, vault, epoch, knows, late>>
  BY DEF EditHeader, AddsHeader, Edits, Idle
<1>3. ASSUME NEW i \in DOMAIN rows, NEW h, RowTyped(h),
             settings' = [s EXCEPT !.headers[i] = h],
             \/ means' = m /\ h.ref = rows[i].ref
             \/ means' = [m EXCEPT !.headers[i] = ""] /\ h.ref = None
      PROVE  SettingsInv'
  <2>1. FormEdited(s, m, settings', means')
    <3>1. PICK t, n : t = settings' /\ n = means' OBVIOUS
    <3>2. /\ t = [s EXCEPT !.headers[i] = h]
          /\ \/ n = m /\ h.ref = s.headers[i].ref
             \/ n = [m EXCEPT !.headers[i] = ""] /\ h.ref = None
          /\ i \in DOMAIN s.headers
      BY <1>3, <3>1
    <3> HIDE DEF s, m, rows
    <3>3. FormEdited(s, m, t, n) BY <1>1, <1>3, <3>2, HeaderEdited
    <3> QED BY <3>1, <3>3
  <2> QED BY <1>2, <2>1, FormGoesOn
<1>4. CASE EditHeader
  <2>1. PICK i \in DOMAIN rows :
          \/ \E name : settings' = SetHeaderName(s, i, name) /\ means' = m
          \/ \E v : settings' = SetHeaderValue(s, i, v) /\ means' = m
          \/ \E secret : /\ settings' = SetHeaderSecret(s, i, secret)
                         /\ means' = [m EXCEPT !.headers[i] = ""]
          \/ /\ settings' = RemoveHeader(s, i)
             /\ means' = [m EXCEPT !.headers = RemoveAt(@, i)]
    BY <1>4 DEF EditHeader, Edits
  <2> DEFINE h == rows[i]
  <2>2. RowTyped(h) BY <1>1
  <2>3. CASE \E name : settings' = SetHeaderName(s, i, name) /\ means' = m
    <3>1. PICK name : settings' = SetHeaderName(s, i, name) /\ means' = m
      BY <2>3
    <3>2. PICK u : u = [h EXCEPT !.name = name] OBVIOUS
    <3>3. settings' = [s EXCEPT !.headers[i] = u]
      BY <3>1, <3>2 DEF SetHeaderName
    <3>4. RowTyped(u) /\ u.ref = h.ref
      <4> HIDE DEF h
      <4>1. u = [name |-> name, value |-> h.value, secret |-> h.secret,
                 ref |-> h.ref, lost |-> h.lost]
        BY <2>2, <3>2 DEF RowTyped, Header
      <4> QED BY <4>1 DEF RowTyped, Header
    <3> QED BY <1>3, <3>1, <3>3, <3>4
  <2>4. CASE \E v : settings' = SetHeaderValue(s, i, v) /\ means' = m
    <3>1. PICK v : settings' = SetHeaderValue(s, i, v) /\ means' = m
      BY <2>4
    <3>2. PICK u : u = [h EXCEPT !.value = v] OBVIOUS
    <3>3. settings' = [s EXCEPT !.headers[i] = u]
      BY <3>1, <3>2 DEF SetHeaderValue
    <3>4. RowTyped(u) /\ u.ref = h.ref
      <4> HIDE DEF h
      <4>1. u = [name |-> h.name, value |-> v, secret |-> h.secret,
                 ref |-> h.ref, lost |-> h.lost]
        BY <2>2, <3>2 DEF RowTyped, Header
      <4> QED BY <4>1 DEF RowTyped, Header
    <3> QED BY <1>3, <3>1, <3>3, <3>4
  <2>5. CASE \E secret : /\ settings' = SetHeaderSecret(s, i, secret)
                         /\ means' = [m EXCEPT !.headers[i] = ""]
    <3>1. PICK secret : /\ settings' = SetHeaderSecret(s, i, secret)
                        /\ means' = [m EXCEPT !.headers[i] = ""]
      BY <2>5
    <3>2. PICK u : u = [h EXCEPT !.secret = secret, !.ref = None] OBVIOUS
    <3>3. settings' = [s EXCEPT !.headers[i] = u]
      <4>1. rows = [j \in DOMAIN rows |-> rows[j]]
        BY ListFacts, <1>1 DEF FormTyped
      <4>2. settings' = [s EXCEPT !.headers[i].secret = secret,
                                  !.headers[i].ref = None]
        BY <3>1 DEF SetHeaderSecret
      <4>3. [[s EXCEPT !.headers[i].secret = secret]
               EXCEPT !.headers[i].ref = None] = [s EXCEPT !.headers[i] = u]
        BY <1>1, <3>2, <4>1
      <4> QED BY <4>2, <4>3
    <3>4. RowTyped(u) /\ u.ref = None
      <4> HIDE DEF h
      <4>1. u = [name |-> h.name, value |-> h.value, secret |-> secret,
                 ref |-> None, lost |-> h.lost]
        BY <2>2, <3>2 DEF RowTyped, Header
      <4> QED BY <4>1 DEF RowTyped, Header
    <3> QED BY <1>3, <3>1, <3>3, <3>4
  <2>6. CASE /\ settings' = RemoveHeader(s, i)
             /\ means' = [m EXCEPT !.headers = RemoveAt(@, i)]
    <3>1. FormEdited(s, m, RemoveHeader(s, i),
                     [m EXCEPT !.headers = RemoveAt(@, i)])
      BY <1>1, HeaderRemoved
    <3> QED BY <1>2, <2>6, <3>1, FormGoesOn
  <2> QED BY <2>1, <2>3, <2>4, <2>5, <2>6
<1>5. CASE AddsHeader
  <2>1. /\ settings' = AddHeader(s)
        /\ means' = [m EXCEPT !.headers = Append(@, "")]
    BY <1>5, Zenon DEF AddsHeader, Edits
  <2>2. FormEdited(s, m, AddHeader(s), [m EXCEPT !.headers = Append(@, "")])
    BY <1>1, HeaderAdded
  <2> QED BY <1>2, <2>1, <2>2, FormGoesOn
<1> QED BY <1>4, <1>5

(* A message connects, and the inspector answers.                          *)
LEMMA ConnectGoesOn ==
  ASSUME SettingsInv, ConnectsWith
  PROVE  SettingsInv'
<1> DEFINE n == Meant(settings, means)
           c == ConnectRequest(settings, means, knows, FALSE)
<1>1. /\ FormTyped(settings, n)
      /\ \A e, v, now :
           FormPoints(settings, means, e, v, now) /\ ~ HasLostSecrets(settings)
             => SentPoints(settings, n, e, v, now)
  <2>1. FormTyped(settings, means) BY DEF SettingsInv
  <2> QED BY <2>1, MeantSent
<1>2. /\ connecting' = c /\ ~ HasLostSecrets(settings)
      /\ UNCHANGED <<settings, means, vault, epoch, knows, late>>
  BY DEF ConnectsWith
<1> DEFINE no == FALSE
<1>3. /\ c = [settings |-> settings, means |-> n, epoch |-> knows,
              again |-> no, answer |-> None]
      /\ c.settings = settings /\ c.means = n /\ c.epoch = knows
      /\ c.answer = None
  BY DEF ConnectRequest
<1> HIDE DEF c, n, no
<1>4. c = [settings |-> c.settings, means |-> c.means, epoch |-> c.epoch,
           again |-> c.again, answer |-> c.answer]
  BY <1>3
<1>5. RequestOK(c, epoch) BY <1>1, <1>3, <1>4 DEF RequestOK, SettingsInv
<1>6. FormPoints(settings, means, knows, vault, epoch)
        => RequestPoints(c, vault, epoch)
  BY <1>1, <1>2, <1>3 DEF RequestPoints
<1> QED BY <1>2, <1>5, <1>6 DEF SettingsInv

LEMMA InputsList ==
  ASSUME NEW s, NEW m, FormTyped(s, m)
  PROVE  IsList(Inputs(SettingsRequest(s)))
<1> DEFINE A == {i \in DOMAIN s.headers :
                   /\ Named(s.headers[i])
                   /\ ~ (s.headers[i].secret /\ Missing(s.headers[i]))}
           k == Cardinality(A)
           sent == Picked(s.headers, A)
           req == SettingsRequest(s)
           rest == [j \in DOMAIN req.headers |-> req.headers[j].secret]
           one == <<req.auth.secret>>
<1>1. Len(s.headers) \in Nat /\ DOMAIN s.headers = 1..Len(s.headers)
  BY ListFacts DEF FormTyped
<1>2. IsFiniteSet(A)
  <2>1. IsFiniteSet(DOMAIN s.headers) BY ListFinite DEF FormTyped
  <2> QED BY <2>1, FS_Subset
<1>3. k \in Nat BY <1>2, FS_CardinalityType
<1>4. DOMAIN sent = 1..k BY DEF Picked
<1>5. DOMAIN req.headers = 1..k
  <2>1. req = [auth |-> AuthInput(s), other |-> s.other,
               headers |-> [j \in DOMAIN sent |-> HeaderInput(sent[j])]]
    BY Zenon DEF SettingsRequest
  <2> HIDE DEF req, sent
  <2>2. req.headers = [j \in DOMAIN sent |-> HeaderInput(sent[j])] BY <2>1
  <2> QED BY <1>4, <2>2
<1> HIDE DEF req, k
<1>6. DOMAIN rest = 1..k /\ rest = [j \in 1..k |-> rest[j]] BY <1>5
<1>7. DOMAIN one = 1..1 /\ one = [j \in 1..1 |-> one[j]] OBVIOUS
<1>8. Inputs(req) = one \o rest BY Zenon DEF Inputs
<1> HIDE DEF rest, one
<1>9. IsList(rest) /\ IsList(one) BY <1>3, <1>6, <1>7, ListIs
<1> QED BY <1>8, <1>9, ListConcat DEF req

(* The request answered: the answer is for the session that was asked, and *)
(* what it will make of the settings stands there.                         *)
LEMMA AnsweredOK ==
  ASSUME NEW c, c # None, NEW now, RequestOK(c, now), NEW a, NEW d,
         d = [c EXCEPT !.answer = a]
  PROVE  /\ RequestOK(d, now) /\ d.answer = a
         /\ d.settings = c.settings /\ d.means = c.means /\ d.epoch = c.epoch
<1>1. /\ d = [settings |-> c.settings, means |-> c.means, epoch |-> c.epoch,
              again |-> c.again, answer |-> a]
      /\ FormTyped(c.settings, c.means) /\ c.epoch \in 1..now
  BY DEF RequestOK
<1>2. /\ d.settings = c.settings /\ d.means = c.means /\ d.epoch = c.epoch
      /\ d.again = c.again /\ d.answer = a
  BY <1>1
<1>3. d = [settings |-> d.settings, means |-> d.means, epoch |-> d.epoch,
           again |-> d.again, answer |-> d.answer]
  BY <1>1, <1>2
<1> QED BY <1>1, <1>2, <1>3 DEF RequestOK

LEMMA ServedGoesOn ==
  ASSUME SettingsInv, Serves
  PROVE  SettingsInv'
<1> DEFINE c == connecting
           d == connecting'
           I == Inputs(SettingsRequest(c.settings))
           st == SecretsStored(I)
<1>1. /\ c # None /\ c.answer = None /\ RequestOK(c, epoch) /\ IsList(vault)
      /\ epoch \in Nat /\ knows \in 1..epoch
      /\ FormTyped(settings, means) /\ FormTyped(c.settings, c.means)
      /\ UNCHANGED <<settings, means, epoch, knows, late>>
  BY DEF SettingsInv, RequestOK, Serves
<1>2. \/ /\ d = [c EXCEPT !.answer = ConnectAnswer("renewed", <<>>)]
         /\ vault' = vault
      \/ /\ d = [c EXCEPT !.answer = ConnectAnswer("error", <<>>)]
         /\ vault' = vault
      \/ /\ d = [c EXCEPT !.answer = ConnectAnswer("connected", st.refs)]
         /\ vault' = st.vault /\ c.epoch = epoch
  BY Zenon DEF Serves
<1>3. CASE /\ vault' = vault
           /\ \E type \in {"renewed", "error"} :
                d = [c EXCEPT !.answer = ConnectAnswer(type, <<>>)]
  <2>1. PICK type \in {"renewed", "error"} :
          d = [c EXCEPT !.answer = ConnectAnswer(type, <<>>)]
    BY <1>3
  <2>2. PICK a : a = ConnectAnswer(type, <<>>) OBVIOUS
  <2>3. a.type # "connected" BY <2>2 DEF ConnectAnswer
  <2>4. /\ RequestOK(d, epoch) /\ d.answer = a
        /\ d.settings = c.settings /\ d.means = c.means /\ d.epoch = c.epoch
    <3>1. d = [c EXCEPT !.answer = a] BY <2>1, <2>2
    <3>2. PICK x : x = d OBVIOUS
    <3> HIDE DEF c, d, I, st
    <3>3. x = [c EXCEPT !.answer = a] BY <3>1, <3>2
    <3>4. /\ RequestOK(x, epoch) /\ x.answer = a
          /\ x.settings = c.settings /\ x.means = c.means /\ x.epoch = c.epoch
      BY <1>1, <3>3, AnsweredOK
    <3> QED BY <3>2, <3>4
  <2>5. RequestPoints(c, vault, epoch) => RequestPoints(d, vault, epoch)
    <3> HIDE DEF c, d, I, st
    <3> SUFFICES ASSUME RequestPoints(c, vault, epoch)
                 PROVE  RequestPoints(d, vault, epoch)
      OBVIOUS
    <3>1. SentPoints(c.settings, c.means, c.epoch, vault, epoch)
      BY <1>1 DEF RequestPoints
    <3> QED BY <2>3, <2>4, <3>1 DEF RequestPoints
  <2> QED BY <1>1, <1>3, <2>4, <2>5 DEF SettingsInv
<1>4. CASE /\ d = [c EXCEPT !.answer = ConnectAnswer("connected", st.refs)]
           /\ vault' = st.vault /\ c.epoch = epoch
  <2>1. PICK a : a = ConnectAnswer("connected", st.refs) OBVIOUS
  <2>2. a.epoch = epoch /\ a.refs = st.refs BY <2>1 DEF ConnectAnswer
  <2>3. /\ RequestOK(d, epoch) /\ d.answer = a
        /\ d.settings = c.settings /\ d.means = c.means /\ d.epoch = c.epoch
    BY <1>1, <1>4, <2>1, AnsweredOK
  <2>4. /\ IsList(st.vault)
        /\ \A k \in DOMAIN vault : k \in DOMAIN st.vault /\ st.vault[k] = vault[k]
    <3>2. IsList(I) BY <1>1, InputsList
    <3>3. StoredRight(I, st) BY <1>1, <3>2, StoredRightly
    <3> QED BY <3>3 DEF StoredRight, KeptSecrets
  <2> DEFINE t == AfterAnswer(c, st.refs)
             w == st.vault
  <2>5. SentPoints(c.settings, c.means, epoch, vault, epoch)
          => FormPoints(t, c.means, epoch, w, epoch)
    BY <1>1, SecretsServed DEF AfterAnswer
  <2>6. AfterAnswer(d, d.answer.refs) = t
    BY <2>2, <2>3 DEF AfterAnswer
  <2>7. IsList(w) /\ vault' = w
        /\ \A k \in DOMAIN vault : k \in DOMAIN w /\ w[k] = vault[k]
    BY <1>4, <2>4
  <2> HIDE DEF I, st, w, t, d, c
  <2>8. SentPoints(c.settings, c.means, epoch, vault, epoch)
          => SentPoints(c.settings, c.means, epoch, w, epoch)
    BY <2>7, FormStays
  <2>9. FormPoints(settings, means, knows, vault, epoch)
          => FormPoints(settings, means, knows, w, epoch)
    BY <2>7, FormStays
  <2>10. RequestPoints(c, vault, epoch)
           => SentPoints(c.settings, c.means, epoch, vault, epoch)
    BY <1>1, <1>4 DEF RequestPoints
  <2>11. RequestPoints(c, vault, epoch) => RequestPoints(d, w, epoch)
    BY <1>4, <2>2, <2>3, <2>5, <2>6, <2>8, <2>10 DEF RequestPoints
  <2> QED BY <1>1, <2>3, <2>7, <2>9, <2>11 DEF SettingsInv, c, d
<1> QED BY <1>2, <1>3, <1>4

LEMMA ConnectedGoesOn ==
  ASSUME SettingsInv, ReceivesConnected
  PROVE  SettingsInv'
<1> DEFINE c == connecting
           a == c.answer
           t == AfterAnswer(c, a.refs)
<1>1. /\ c # None /\ a # None /\ a.type = "connected" /\ connecting' = None
      /\ settings' = t /\ means' = c.means
      /\ late' = (late \/ a.epoch # knows)
      /\ UNCHANGED <<vault, epoch, knows>>
  BY DEF ReceivesConnected, Receives, AfterAnswer
<1>2. FormTyped(c.settings, c.means) BY <1>1 DEF SettingsInv, RequestOK
<1>3. FormTyped(t, c.means)
  <2>1. PICK conn : conn = [auth |-> a.refs[1], headers |-> Tail(a.refs)]
    OBVIOUS
  <2>2. t = SettingsAfterConnect(c.settings, conn) BY <2>1 DEF AfterAnswer
  <2>3. FormTyped(SettingsAfterConnect(c.settings, conn), c.means)
    BY <1>2, AfterTyped
  <2> QED BY <2>2, <2>3
<1> HIDE DEF t
<1>4. ~ late' => FormPoints(t, c.means, knows, vault, epoch)
  <2> SUFFICES ASSUME ~ late' PROVE FormPoints(t, c.means, knows, vault, epoch)
    OBVIOUS
  <2>1. ~ late /\ a.epoch = knows BY <1>1
  <2>2. RequestPoints(c, vault, epoch) BY <2>1 DEF SettingsInv
  <2>3. a.epoch = c.epoch /\ FormPoints(t, c.means, c.epoch, vault, epoch)
    BY <1>1, <2>2 DEF RequestPoints, t
  <2> QED BY <2>1, <2>3
<1> HIDE DEF a, c
<1> QED BY <1>1, <1>3, <1>4 DEF SettingsInv, RequestOK, RequestPoints, c

(* The session is a new one: nothing refers to the old one any more.       *)
LEMMA ResetBlank ==
  ASSUME SettingsInv, Reset
  PROVE  /\ FormTyped(settings', means')
         /\ \A e, v, now : FormPoints(settings', means', e, v, now)
         /\ knows' = epoch /\ UNCHANGED <<vault, epoch, late>>
<1>1. FormTyped(settings, means) BY DEF SettingsInv
<1>2. PICK t, n : t = settings' /\ n = means' OBVIOUS
<1>3. t = SettingsAfterSessionLoss(settings) /\ n = NoMeans(settings)
  BY <1>2 DEF Reset
<1>4. /\ FormTyped(t, n) /\ \A e, v, now : FormPoints(t, n, e, v, now)
  BY <1>1, <1>3, LostBlank
<1> QED BY <1>2, <1>4 DEF Reset

LEMMA OtherGoesOn ==
  ASSUME SettingsInv, OtherRenewed
  PROVE  SettingsInv'
<1>1. /\ FormTyped(settings', means')
      /\ \A e, v, now : FormPoints(settings', means', e, v, now)
      /\ knows' = epoch /\ UNCHANGED <<vault, epoch, late, connecting>>
  BY ResetBlank DEF OtherRenewed
<1>2. FormPoints(settings', means', knows', vault, epoch) BY <1>1
<1>3. epoch \in 1..epoch BY DEF SettingsInv
<1> QED BY <1>1, <1>2, <1>3 DEF SettingsInv

LEMMA RenewedGoesOn ==
  ASSUME SettingsInv, ReceivesRenewed
  PROVE  SettingsInv'
<1> DEFINE c == connecting
           left == SettingsAfterSessionLoss(c.settings)
           blank == NoMeans(left)
           yes == TRUE
           d == ConnectRequest(left, blank, epoch, yes)
           n == Meant(left, blank)
<1>1. /\ FormTyped(settings', means')
      /\ \A e, v, now : FormPoints(settings', means', e, v, now)
      /\ knows' = epoch /\ UNCHANGED <<vault, epoch, late>>
  BY ResetBlank DEF ReceivesRenewed
<1>2. c # None /\ (connecting' = None
                   \/ (connecting' = d /\ ~ HasLostSecrets(left)))
  BY DEF ReceivesRenewed, Receives
<1>3. epoch \in 1..epoch BY DEF SettingsInv
<1>4. FormTyped(c.settings, c.means) BY <1>2 DEF SettingsInv, RequestOK
<1>5. FormTyped(left, blank) /\ \A e, v, now : FormPoints(left, blank, e, v, now)
  BY <1>4, LostBlank
<1> HIDE DEF left, blank
<1>6. /\ FormTyped(left, n)
      /\ ~ HasLostSecrets(left)
           => \A e, v, now : SentPoints(left, n, e, v, now)
  BY <1>5, MeantSent
<1> HIDE DEF yes
<1>7. /\ d = [settings |-> left, means |-> n, epoch |-> epoch,
              again |-> yes, answer |-> None]
      /\ d.settings = left /\ d.means = n /\ d.epoch = epoch /\ d.answer = None
  BY DEF ConnectRequest
<1> HIDE DEF d, n
<1>8. d = [settings |-> d.settings, means |-> d.means, epoch |-> d.epoch,
           again |-> d.again, answer |-> d.answer]
  BY <1>7
<1>9. RequestOK(d, epoch) BY <1>3, <1>6, <1>7, <1>8 DEF RequestOK
<1>10. ~ HasLostSecrets(left) => RequestPoints(d, vault, epoch)
  BY <1>6, <1>7 DEF RequestPoints
<1>11. RequestOK(connecting', epoch) /\ RequestPoints(connecting', vault, epoch)
  <2>1. CASE connecting' = None BY <2>1 DEF RequestOK, RequestPoints
  <2>2. CASE connecting' = d /\ ~ HasLostSecrets(left)
    BY <1>9, <1>10, <2>2
  <2> QED BY <1>2, <2>1, <2>2
<1>12. FormPoints(settings', means', knows', vault, epoch) BY <1>1
<1> QED BY <1>1, <1>3, <1>11, <1>12 DEF SettingsInv

LEMMA SessionGone ==
  ASSUME SettingsInv, SessionGoes
  PROVE  SettingsInv'
<1> DEFINE none == <<>>
           next == 2
<1>1. /\ epoch = 1 /\ epoch' = next /\ vault' = none
      /\ UNCHANGED <<settings, means, connecting, knows, late>>
  BY DEF SessionGoes
<1>2. knows = 1 /\ (connecting # None => connecting.epoch = 1)
      /\ RequestOK(connecting, 2)
  BY <1>1 DEF SettingsInv, RequestOK
<1>3. IsList(none) BY ListOfNone
<1>4. knows # next /\ (connecting # None => connecting.epoch # next) BY <1>2
<1>5. epoch' \in {1, 2} /\ knows \in 1..epoch' BY <1>1, <1>2
<1> HIDE DEF none, next
<1>6. FormPoints(settings, means, knows, vault, epoch)
        => FormPoints(settings, means, knows, none, next)
  BY <1>4, FormStays
<1>7. RequestPoints(connecting, vault, epoch)
        => RequestPoints(connecting, none, next)
  <2>1. CASE connecting = None BY <2>1 DEF RequestPoints
  <2>2. CASE connecting # None BY <1>4, <2>2, RequestStays
  <2> QED BY <2>1, <2>2
<1>8. RequestOK(connecting, next) BY <1>2 DEF next
<1> QED BY <1>1, <1>3, <1>5, <1>6, <1>7, <1>8 DEF SettingsInv

LEMMA LoadedGoesOn ==
  ASSUME SettingsInv, LoadsAgain
  PROVE  SettingsInv'
<1>1. FormTyped(settings, means) BY DEF SettingsInv
<1> DEFINE yes == TRUE
<1>2. PICK t, n : t = settings' /\ n = means' OBVIOUS
<1>3. /\ t = ReadSettings(SaveSettings(settings, yes), yes) /\ n = NoMeans(t)
      /\ connecting' = None /\ UNCHANGED <<vault, epoch, knows>>
  BY <1>2 DEF LoadsAgain
<1> HIDE DEF yes
<1>4. FormTyped(t, n) /\ \A e, v, now : FormPoints(t, n, e, v, now)
  BY <1>1, <1>3, ReadBlank
<1>5. /\ FormTyped(settings', means')
      /\ FormPoints(settings', means', knows, vault, epoch)
  BY <1>2, <1>4
<1>6. RequestOK(None, epoch) /\ RequestPoints(None, vault, epoch)
  BY DEF RequestOK, RequestPoints
<1> QED BY <1>3, <1>5, <1>6 DEF SettingsInv

LEMMA SettingsGoOn ==
  ASSUME SettingsInv, [SettingsNext]_formVars
  PROVE  SettingsInv'
<1>1. CASE ReceivesError
  <2>1. /\ connecting' = None
        /\ UNCHANGED <<settings, means, vault, epoch, knows, late>>
    BY <1>1 DEF ReceivesError
  <2>2. RequestOK(None, epoch) /\ RequestPoints(None, vault, epoch)
    BY DEF RequestOK, RequestPoints
  <2> QED BY <2>1, <2>2 DEF SettingsInv
<1>2. CASE UNCHANGED formVars
  BY <1>2 DEF formVars, SettingsInv
<1> QED
  BY <1>1, <1>2, AuthGoesOn, HeaderGoesOn, ConnectGoesOn, ServedGoesOn,
     ConnectedGoesOn, RenewedGoesOn, OtherGoesOn, SessionGone, LoadedGoesOn
  DEF SettingsNext
(* What is there at first fits the first session.                          *)
LEMMA SettingsStart == SettingsInit => SettingsInv
<1> SUFFICES ASSUME SettingsInit PROVE SettingsInv
  OBVIOUS
<1>1. PICK x \in Stored :
        settings = x.settings /\ means = x.means /\ vault = x.vault
  BY DEF SettingsInit
<1> DEFINE s == x.settings
           m == x.means
           v == x.vault
           known(ref, value) ==
             IF ref = None THEN value = ""
             ELSE ref[1] = 1 /\ ref[2] \in DOMAIN v /\ v[ref[2]] = value
<1>2. /\ s \in [authType : AuthTypes, secret : SecretTexts,
                headers : Seq(HeaderTexts), other : STRING]
      /\ m \in [auth : STRING, headers : Seq(STRING)]
      /\ Len(m.headers) = Len(s.headers)
      /\ v \in Seq(STRING)
      /\ known(s.secret.ref, m.auth)
      /\ \A i \in DOMAIN s.headers : known(s.headers[i].ref, m.headers[i])
  BY StoredAssumption
<1> HIDE DEF s, m, v, known
<1>3. /\ s = [authType |-> s.authType, secret |-> s.secret,
              headers |-> s.headers, other |-> s.other]
      /\ s.secret \in SecretTexts /\ s.headers \in Seq(HeaderTexts)
      /\ m = [auth |-> m.auth, headers |-> m.headers]
      /\ m.headers \in Seq(STRING)
  BY <1>2
<1>4. ASSUME NEW S, NEW l \in Seq(S) PROVE IsList(l) /\ \A i \in DOMAIN l : l[i] \in S
  <2>1. /\ Len(l) \in Nat /\ DOMAIN l = 1..Len(l) /\ l \in [1..Len(l) -> S]
    BY LenProperties
  <2>2. l = [i \in 1..Len(l) |-> l[i]] BY <2>1
  <2> QED BY <2>1, <2>2, ListIs
<1> DEFINE rows == s.headers
           values == m.headers
<1>5. /\ IsList(rows) /\ \A i \in DOMAIN rows : rows[i] \in HeaderTexts
      /\ IsList(values) /\ IsList(v)
      /\ DOMAIN values = DOMAIN rows
  <2>1. rows \in Seq(HeaderTexts) /\ values \in Seq(STRING) BY <1>3
  <2>2. Len(values) = Len(rows) BY <1>2
  <2> HIDE DEF rows, values
  <2>3. DOMAIN values = 1..Len(values) /\ DOMAIN rows = 1..Len(rows)
    BY <2>1, LenProperties
  <2> QED BY <1>2, <1>4, <2>1, <2>2, <2>3
<1> DEFINE B == BOOLEAN
           R == {None} \cup (Nat \X Nat)
<1>6. SecretTexts = [source : Sources, value : STRING, ref : R, lost : B]
      /\ HeaderTexts = [name : STRING, value : STRING, secret : B, ref : R,
                        lost : B]
  BY DEF SecretTexts, HeaderTexts
<1> HIDE DEF B, R
<1>7. SecretTyped(s.secret) /\ s.secret.ref \in R
  BY <1>3, <1>6 DEF SecretTyped
<1>8. \A i \in DOMAIN rows : RowTyped(rows[i]) /\ rows[i].ref \in R
  BY <1>5, <1>6 DEF RowTyped, Header
<1>9. ASSUME NEW ref \in R, NEW value, known(ref, value)
      PROVE  Points(ref, value, 1, v, 1)
  <2>1. CASE ref = None BY <1>9, <2>1 DEF Points, known
  <2>2. CASE ref # None
    <3>1. PICK a \in Nat, n \in Nat : ref = <<a, n>> BY <2>2 DEF R
    <3>2. a = 1 /\ n \in DOMAIN v /\ v[n] = value
      BY <1>9, <2>2, <3>1 DEF known
    <3>3. ref = <<1, n>> BY <3>1, <3>2
    <3> QED BY <2>2, <3>2, <3>3 DEF Points
  <2> QED BY <2>1, <2>2
<1>10. FormTyped(s, m) BY <1>3, <1>5, <1>7, <1>8 DEF FormTyped
<1>11. FormPoints(s, m, 1, v, 1)
  <2>1. Points(s.secret.ref, m.auth, 1, v, 1) BY <1>2, <1>7, <1>9
  <2>2. ASSUME NEW i \in DOMAIN s.headers
        PROVE  Points(s.headers[i].ref, m.headers[i], 1, v, 1)
    BY <1>2, <1>8, <1>9
  <2> QED BY <2>1, <2>2 DEF FormPoints
<1>12. connecting = None /\ epoch = 1 /\ knows = 1 BY DEF SettingsInit
<1>13. settings = s /\ means = m /\ vault = v BY <1>1 DEF s, m, v
<1> QED
  BY <1>5, <1>10, <1>11, <1>12, <1>13 DEF SettingsInv, RequestOK, RequestPoints

(* However rows of the settings come and go, requests and answers pass and *)
(* sessions end, a reference in the form is to a secret that the session   *)
(* counts, stored for that very field, unless the answer of a session that *)
(* was given up came late (settings.ts, Credentials.tsx, App.tsx).         *)
THEOREM PageKeepsSecrets == PageSpec => []SettingsKept
<1> DEFINE Inv == part = "settings" => SettingsInv
<1>1. PageInit => Inv BY SettingsStart DEF PageInit
<1>2. Inv /\ [PageNext]_pageVars => Inv' BY PartStays, SettingsGoOn
<1>3. Inv => SettingsKept
  <2> SUFFICES ASSUME SettingsInv, ~ late PROVE RefsStand
    BY DEF SettingsKept, RefsStand
  <2>1. ASSUME NEW ref, NEW value, Points(ref, value, knows, vault, epoch),
               ref # None, ref[1] = epoch
        PROVE  ref[2] \in DOMAIN vault /\ vault[ref[2]] = value
    <3>1. PICK n \in Nat : ref = <<knows, n>> /\ (knows = epoch =>
                                          n \in DOMAIN vault /\ vault[n] = value)
      BY <2>1 DEF Points
    <3> QED BY <2>1, <3>1
  <2>2. FormPoints(settings, means, knows, vault, epoch) BY DEF SettingsInv
  <2> QED BY <2>1, <2>2 DEF FormPoints, RefsStand
<1> HIDE DEF Inv
<1> QED BY <1>1, <1>2, <1>3, PTL DEF PageSpec
-----------------------------------------------------------------------------
LEMMA CheckGoesOn ==
  ASSUME CheckedAtRest, [EditorNext]_editorVars
  PROVE  CheckedAtRest'
<1>1. ASSUME NEW doc, NEW from, NEW to, Changes(doc, from, to),
             UNCHANGED <<asked, checked>>
      PROVE  CheckedAtRest'
  BY <1>1 DEF CheckedAtRest, Changes
<1>2. CASE TypeChar
  <2>1. PICK c \in Typeable :
          Changes(SubSeq(text, 1, anchor) \o <<c>> \o SubSeq(text, at + 1, Len(text)),
                  anchor + 1, anchor + 1)
    BY <1>2 DEF TypeChar
  <2> QED BY <1>1, <1>2, <2>1 DEF TypeChar
<1>3. CASE AcceptOption
  <2>1. PICK option \in list : Accept(option, SpotAt(text, at))
    BY <1>3 DEF AcceptOption
  <2>2. PICK done : Changes(done.text, done.anchor, done.at)
    BY <2>1, Zenon DEF Accept
  <2> QED BY <1>1, <1>3, <2>2 DEF AcceptOption
<1>4. CASE StartOver
  BY <1>1, <1>4 DEF StartOver, Replaced
<1>5. CASE Discard
  BY <1>1, <1>5 DEF Discard, Replaced
<1>6. CASE CheckText
  <2>1. CASE IsCard(text)
    BY <1>6, <2>1 DEF CheckText, CheckedAtRest
  <2>2. CASE ~ IsCard(text)
    BY <1>6, <2>2 DEF CheckText, CheckedAtRest
  <2> QED BY <2>1, <2>2
<1>7. CASE CheckAnswers
  <2>1. PICK doc \in asked, result \in Reports \cup {{}} :
          /\ asked' = asked \ {doc}
          /\ checked' = IF Kept(doc) THEN [text |-> doc, result |-> result]
                        ELSE checked
    BY <1>7 DEF CheckAnswers
  <2>2. UNCHANGED <<text, due>>
    BY <1>7 DEF CheckAnswers
  <2>3. CASE doc = text
    <3>1. checked'.text = text BY <2>1, <2>3 DEF Kept
    <3> QED BY <2>2, <3>1 DEF CheckedAtRest
  <2>4. CASE doc # text
    BY <2>1, <2>2, <2>4 DEF Kept, CheckedAtRest
  <2> QED BY <2>3, <2>4
<1>8. CASE AskSuggestions
  BY <1>8 DEF AskSuggestions, CheckedAtRest
<1>9. CASE RevealPath
  BY <1>9 DEF RevealPath, CheckedAtRest
<1>10. CASE Save
  BY <1>10 DEF Save, CheckedAtRest
<1>11. CASE UNCHANGED editorVars
  BY <1>11 DEF editorVars, CheckedAtRest
<1> QED
  BY <1>2, <1>3, <1>4, <1>5, <1>6, <1>7, <1>8, <1>9, <1>10, <1>11 DEF EditorNext

(* However checks are answered while the editor's text goes on changing,   *)
(* at rest the last one that came in is of the text as it is, or the text  *)
(* is being checked (the effect of CardEditorPanel.tsx).                   *)
THEOREM PageChecksLast == PageSpec => []CheckKept
<1>1. PageInit => CheckKept
  BY DEF PageInit, CheckKept, EditorInit, CheckedAtRest
<1>2. CheckKept /\ [PageNext]_pageVars => CheckKept'
  BY PartStays, CheckGoesOn DEF CheckKept
<1> QED BY <1>1, <1>2, PTL DEF PageSpec
-----------------------------------------------------------------------------
(* The parser of event streams.  A text is a sequence of characters, each  *)
(* a string of the model, or what stands for the text that is not set.     *)
Chars == STRING \cup {"unset"}

Text == Seq(Chars)

Given == [type : Text, data : Seq(Text), id : Text, retry : Text]

Parsers ==
  [buffer : Text, started : BOOLEAN, pendingCR : BOOLEAN,
   event : [data : Seq(Text), type : Text], lastId : Text, retry : Text,
   out : Seq(Given)]

(* Recursion over the numbers up to N has a solution.                      *)
Steps(S, N) == [S \X (1..N) -> S]

Solves(f, S, x, N, step) ==
  /\ f \in [0..N -> S] /\ f[0] = x
  /\ \A n \in 1..N : f[n] = step[<<f[n - 1], n>>]

LEMMA Recursion ==
  ASSUME NEW S, NEW x \in S, NEW N \in Nat, NEW step, step \in Steps(S, N)
  PROVE  \E f : Solves(f, S, x, N, step)
<1> USE DEF Steps
<1> DEFINE Sol(m, f) == /\ f \in [0..m -> S] /\ f[0] = x
                        /\ \A n \in 1..m : f[n] = step[<<f[n - 1], n>>]
           A == {m \in Nat : m <= N => \E f : Sol(m, f)}
<1>1. 0 \in A
  <2>1. Sol(0, [n \in 0..0 |-> x]) OBVIOUS
  <2> QED BY <2>1
<1>2. ASSUME NEW m \in Nat, m \in A PROVE m + 1 \in A
  <2>1. CASE ~ (m + 1 <= N) BY <2>1
  <2>2. CASE m + 1 <= N
    <3>1. PICK f : Sol(m, f) BY <1>2, <2>2
    <3> DEFINE y == step[<<f[m], m + 1>>]
               g == [n \in 0..(m + 1) |-> IF n = m + 1 THEN y ELSE f[n]]
    <3>2. y \in S BY <2>2, <3>1
    <3> HIDE DEF y
    <3>3. g \in [0..(m + 1) -> S] /\ g[0] = x BY <3>1, <3>2
    <3>4. ASSUME NEW n \in 1..(m + 1) PROVE g[n] = step[<<g[n - 1], n>>]
      <4>1. CASE n = m + 1
        <5>1. g[n] = y /\ g[n - 1] = f[m] /\ n - 1 = m BY <4>1
        <5> QED BY <4>1, <5>1 DEF y
      <4>2. CASE n # m + 1
        <5>1. n \in 1..m /\ n - 1 \in 0..m BY <4>2
        <5>2. g[n] = f[n] /\ g[n - 1] = f[n - 1] BY <5>1
        <5> QED BY <3>1, <5>1, <5>2
      <4> QED BY <4>1, <4>2
    <3>5. Sol(m + 1, g) BY <3>3, <3>4
    <3> HIDE DEF g, Sol
    <3>6. \E h : Sol(m + 1, h) BY <3>5
    <3> QED BY <3>6
  <2> QED BY <2>1, <2>2
<1> HIDE DEF A
<1>3. Nat \subseteq A BY <1>1, <1>2, NatCases
<1>4. PICK f : Sol(N, f)
  <2>1. N \in A BY <1>3
  <2> QED BY <2>1 DEF A
<1>5. Solves(f, S, x, N, step) BY <1>4 DEF Solves
<1> QED BY <1>5

LEMMA UptoIn ==
  ASSUME NEW line \in Text, NEW c
  PROVE  Upto(line, c) \in 0..Len(line)
<1> DEFINE I == {i \in 1..Len(line) : line[i] = c}
<1>1. Upto(line, c) = IF I # {} THEN Min(I) ELSE 0
  BY DEF Upto, SelectInSeq
<1>2. Len(line) \in Nat BY LenProperties DEF Text
<1>3. ASSUME I # {} PROVE Min(I) \in I
  <2>1. I \subseteq Nat OBVIOUS
  <2> HIDE DEF I
  <2> QED BY <1>3, <2>1, Least
<1> QED BY <1>1, <1>2, <1>3

LEMMA DroppingText ==
  ASSUME NEW line \in Text, NEW c
  PROVE  Dropping(line, c) \in Text
BY HeadTailProperties DEF Dropping, Text
(* Of two parsers, q is where p is, but what is done is out of q already.  *)
Ahead(q, p, done) ==
  /\ q.event = p.event /\ q.lastId = p.lastId /\ q.retry = p.retry
  /\ q.out = done \o p.out

(* What a line says to a parser is typed, and leaves its buffer alone.     *)
LEMMA ParserIs ==
  ASSUME NEW p
  PROVE  p \in Parsers <=>
           /\ p = [buffer |-> p.buffer, started |-> p.started,
                   pendingCR |-> p.pendingCR, event |-> p.event,
                   lastId |-> p.lastId, retry |-> p.retry, out |-> p.out]
           /\ p.buffer \in Text /\ p.started \in BOOLEAN /\ p.pendingCR \in BOOLEAN
           /\ p.event \in [data : Seq(Text), type : Text]
           /\ p.lastId \in Text /\ p.retry \in Text /\ p.out \in Seq(Given)
<1> HIDE DEF Text, Given
<1> QED BY DEF Parsers

LEMMA LineSays ==
  ASSUME NEW p \in Parsers, NEW q \in Parsers, NEW done \in Seq(Given),
         Ahead(q, p, done), NEW line \in Text
  PROVE  /\ ProcessLine(p, line) \in Parsers
         /\ ProcessLine(p, line).buffer = p.buffer
         /\ ProcessLine(p, line).started = p.started
         /\ ProcessLine(p, line).pendingCR = p.pendingCR
         /\ Ahead(ProcessLine(q, line), ProcessLine(p, line), done)
<1> DEFINE colon == Upto(line, ":")
           field == IF colon = 0 THEN line ELSE SubSeq(line, 1, colon - 1)
           value == IF colon = 0 THEN <<>>
                    ELSE Dropping(SubSeq(line, colon + 1, Len(line)), " ")
           isNumber == value # <<>> /\ \A i \in DOMAIN value : value[i] \in Digits
<1>1. value \in Text
  <2>1. colon \in 0..Len(line) /\ Len(line) \in Nat /\ line \in [1..Len(line) -> Chars]
    BY UptoIn, LenProperties DEF Text
  <2> HIDE DEF colon
  <2>2. CASE colon = 0 BY <2>2 DEF Text
  <2>3. CASE colon # 0
    <3>1. SubSeq(line, colon + 1, Len(line)) \in Text
      BY <2>1, <2>3, SubSeqProperties DEF Text
    <3> QED BY <2>3, <3>1, DroppingText
  <2> QED BY <2>2, <2>3
<1> DEFINE noData == p.event.data = <<>>
           given(r) == [type |-> r.event.type, data |-> r.event.data,
                        id |-> r.lastId, retry |-> r.retry]
<1>2. \A r \in Parsers :
        ProcessLine(r, line) =
          IF line = <<>> THEN Dispatch(r)
          ELSE IF field = <<"data">> THEN [r EXCEPT !.event.data = Append(@, value)]
          ELSE IF field = <<"event">> THEN [r EXCEPT !.event.type = value]
          ELSE IF field = <<"id">> /\ Upto(value, "NUL") = 0
          THEN [r EXCEPT !.lastId = value]
          ELSE IF field = <<"retry">> /\ isNumber THEN [r EXCEPT !.retry = value]
          ELSE r
  BY Zenon DEF ProcessLine
<1> DEFINE isId == field = <<"id">> /\ Upto(value, "NUL") = 0
           isRetry == field = <<"retry">> /\ isNumber
           isData == field = <<"data">>
           isType == field = <<"event">>
<1> HIDE DEF value, field, isNumber, isId, isRetry, isData, isType
<1>3. \A r \in Parsers :
        /\ line = <<>> => ProcessLine(r, line) = Dispatch(r)
        /\ line # <<>> =>
             /\ isData => ProcessLine(r, line) = [r EXCEPT !.event.data = Append(@, value)]
             /\ ~ isData /\ isType => ProcessLine(r, line) = [r EXCEPT !.event.type = value]
             /\ ~ isData /\ ~ isType /\ isId => ProcessLine(r, line) = [r EXCEPT !.lastId = value]
             /\ ~ isData /\ ~ isType /\ ~ isId /\ isRetry
                  => ProcessLine(r, line) = [r EXCEPT !.retry = value]
             /\ ~ isData /\ ~ isType /\ ~ isId /\ ~ isRetry => ProcessLine(r, line) = r
  BY <1>2, Zenon DEF isId, isRetry, isData, isType
<1> HIDE DEF given, noData
<1>4. p.out \in Seq(Given) /\ q.out = done \o p.out
  BY ParserIs DEF Ahead
<1>5. CASE line = <<>>
  <2>1. NoEvent \in [data : Seq(Text), type : Text] BY DEF NoEvent, Text
  <2>a. \A t \in Seq(Given), g \in Given : Append(done \o t, g) = done \o Append(t, g)
    <3> SUFFICES ASSUME NEW t \in Seq(Given), NEW g \in Given
                 PROVE  Append(done \o t, g) = done \o Append(t, g)
      OBVIOUS
    <3> DEFINE l == Append(done \o t, g)
               r == done \o Append(t, g)
    <3>1. done \o t \in Seq(Given) /\ Append(t, g) \in Seq(Given)
      BY ConcatProperties, AppendProperties
    <3>2. l \in Seq(Given) /\ r \in Seq(Given) /\ Len(l) = Len(r)
      BY <3>1, ConcatProperties, AppendProperties
    <3>3. ASSUME NEW i \in 1..Len(l) PROVE l[i] = r[i]
      BY <3>1, ConcatProperties, AppendProperties, LenProperties
    <3> HIDE DEF l, r
    <3>4. l = r BY <3>2, <3>3, SeqEqual
    <3> QED BY <3>4 DEF l, r
  <2>2. \A r \in Parsers : given(r) \in Given
    BY ParserIs DEF given, Given, Text
  <2>3. given(q) = given(p) BY DEF given, Ahead
  <2> DEFINE kept(r) == IF r.event.data = <<>> THEN r.out ELSE Append(r.out, given(r))
  <2>4. \A r \in Parsers : Dispatch(r) = [r EXCEPT !.event = NoEvent, !.out = kept(r)]
    BY DEF Dispatch, given
  <2>5. kept(p) \in Seq(Given) /\ kept(q) = done \o kept(p)
    <3>1. CASE p.event.data = <<>> BY <1>4, <3>1 DEF Ahead
    <3>2. CASE p.event.data # <<>>
      <4> DEFINE g == given(p)
      <4>1. g \in Given BY <2>2
      <4>2. kept(p) = Append(p.out, g) /\ kept(q) = Append(done \o p.out, g)
        BY <1>4, <2>3, <3>2 DEF Ahead
      <4> HIDE DEF kept, g
      <4>3. Append(p.out, g) \in Seq(Given) BY <1>4, <4>1, AppendProperties
      <4>4. Append(done \o p.out, g) = done \o Append(p.out, g)
        BY <2>a, <1>4, <4>1
      <4> QED BY <4>2, <4>3, <4>4, Zenon
    <3> QED BY <3>1, <3>2
  <2> HIDE DEF kept
  <2> DEFINE a == kept(p)
             b == kept(q)
             e == NoEvent
  <2> HIDE DEF a, b, e
  <2>6. ProcessLine(p, line) = [p EXCEPT !.event = e, !.out = a]
        /\ ProcessLine(q, line) = [q EXCEPT !.event = e, !.out = b]
    BY <1>3, <1>5, <2>4 DEF a, b, e
  <2>7. a \in Seq(Given) /\ b = done \o a /\ e \in [data : Seq(Text), type : Text]
    BY <2>1, <2>5 DEF a, b, e
  <2> HIDE DEF Text, Given
  <2> QED BY <2>6, <2>7 DEF Parsers, Ahead
<1>6. CASE line # <<>>
  <2> DEFINE pd == Append(p.event.data, value)
  <2>1. pd \in Seq(Text) BY <1>1, ParserIs
  <2>2. CASE isData
    <3>1. ProcessLine(p, line) = [p EXCEPT !.event = [@ EXCEPT !.data = pd]]
          /\ ProcessLine(q, line) = [q EXCEPT !.event = [@ EXCEPT !.data = pd]]
      BY <1>3, <1>6, <2>2 DEF Ahead
    <3> HIDE DEF pd
    <3> HIDE DEF Text, Given
    <3> QED BY <2>1, <3>1 DEF Parsers, Ahead
  <2>3. CASE ~ isData /\ isType
    <3>1. ProcessLine(p, line) = [p EXCEPT !.event.type = value]
          /\ ProcessLine(q, line) = [q EXCEPT !.event.type = value]
      BY <1>3, <1>6, <2>3
    <3> HIDE DEF Text, Given
    <3> QED BY <1>1, <3>1 DEF Parsers, Ahead
  <2>4. CASE ~ isData /\ ~ isType /\ isId
    <3>1. ProcessLine(p, line) = [p EXCEPT !.lastId = value]
          /\ ProcessLine(q, line) = [q EXCEPT !.lastId = value]
      BY <1>3, <1>6, <2>4
    <3> QED BY <1>1, <3>1 DEF Parsers, Ahead
  <2>5. CASE ~ isData /\ ~ isType /\ ~ isId /\ isRetry
    <3>1. ProcessLine(p, line) = [p EXCEPT !.retry = value]
          /\ ProcessLine(q, line) = [q EXCEPT !.retry = value]
      BY <1>3, <1>6, <2>5
    <3> QED BY <1>1, <3>1 DEF Parsers, Ahead
  <2>6. CASE ~ isData /\ ~ isType /\ ~ isId /\ ~ isRetry
    BY <1>3, <1>6, <2>6
  <2> QED BY <2>2, <2>3, <2>4, <2>5, <2>6
<1> QED BY <1>5, <1>6

(* The line that is under way before i starts at j.                        *)
StartsAt(doc, i, j) ==
  /\ j \in 1..i /\ (j = 1 \/ doc[j - 1] \in LineEnds)
  /\ \A k \in j..(i - 1) : doc[k] \notin LineEnds

LEMMA LineStarts ==
  ASSUME NEW doc, NEW i \in Nat \ {0}
  PROVE  /\ StartsAt(doc, i, LineStart(doc, i))
         /\ \A j : StartsAt(doc, i, j) => LineStart(doc, i) = j
<1> DEFINE S == {j \in 1..i : j = 1 \/ doc[j - 1] \in LineEnds}
           E(k) == doc[k] \in LineEnds
<1> HIDE DEF E
<1>1. LineStart(doc, i) = CHOOSE x \in S : \A y \in S : x >= y
  BY DEF LineStart, Max
<1>2. ASSUME NEW j, StartsAt(doc, i, j)
      PROVE  j \in S /\ \A y \in S : j >= y
  <2>1. /\ j \in 1..i /\ (j = 1 \/ E(j - 1))
        /\ \A k \in j..(i - 1) : ~ E(k)
    BY <1>2 DEF StartsAt, E
  <2>2. \A y : y \in S <=> y \in 1..i /\ (y = 1 \/ E(y - 1))
    BY DEF E
  <2> HIDE DEF S
  <2>3. ASSUME NEW y \in S PROVE j >= y
    <3>1. CASE y - 1 \in j..(i - 1) BY <2>1, <2>2, <3>1
    <3>2. CASE y - 1 \notin j..(i - 1) BY <2>1, <2>2, <3>2
    <3> QED BY <3>1, <3>2
  <2> QED BY <2>1, <2>2, <2>3
<1>3. ASSUME NEW j, StartsAt(doc, i, j) PROVE LineStart(doc, i) = j
  <2>1. j \in Int /\ \A y \in S : y \in Int BY <1>2, <1>3
  <2>2. \A x \in S : (\A y \in S : x >= y) => x = j
    BY <1>2, <1>3, <2>1
  <2>3. j \in S /\ \A y \in S : j >= y BY <1>2, <1>3
  <2> HIDE DEF S
  <2> QED BY <1>1, <2>2, <2>3
<1>4. \E j : StartsAt(doc, i, j)
  <2> DEFINE A == {m \in Nat : \E j : StartsAt(doc, m + 1, j)}
  <2>1. 0 \in A
    <3>1. StartsAt(doc, 0 + 1, 1) BY DEF StartsAt
    <3> QED BY <3>1
  <2>2. ASSUME NEW m \in Nat, m \in A PROVE m + 1 \in A
    <3>1. PICK j : StartsAt(doc, m + 1, j) BY <2>2
    <3>2. CASE E(m + 1)
      <4>1. StartsAt(doc, m + 1 + 1, m + 2) BY <3>2 DEF StartsAt, E
      <4> QED BY <4>1
    <3>3. CASE ~ E(m + 1)
      <4>1. \A k \in j..(m + 1) : k # m + 1 => k \in j..m OBVIOUS
      <4>2. StartsAt(doc, m + 1 + 1, j)
        <5>1. j \in 1..(m + 1) /\ (j = 1 \/ E(j - 1)) /\ \A k \in j..m : ~ E(k)
          BY <3>1 DEF StartsAt, E
        <5>2. \A k \in j..(m + 1) : ~ E(k)
          <6>1. \A k \in j..(m + 1) : k # m + 1 => k \in j..m BY <5>1
          <6> QED BY <3>3, <5>1, <6>1
        <5> QED BY <5>1, <5>2 DEF StartsAt, E
      <4> QED BY <4>2
    <3> QED BY <3>2, <3>3
  <2> HIDE DEF A
  <2>3. Nat \subseteq A BY <2>1, <2>2, NatCases
  <2>4. i - 1 \in A /\ (i - 1) + 1 = i BY <2>3
  <2> QED BY <2>4 DEF A
<1> QED BY <1>3, <1>4

LEMMA NewParserTyped ==
  NewParser \in Parsers
<1>1. <<>> \in Text /\ <<>> \in Seq(Text) /\ <<>> \in Seq(Given) BY DEF Text
<1>2. NoText \in Text
  <2> DEFINE c == "unset"
  <2>1. c \in Chars BY DEF Chars
  <2>2. NoText = <<c>> BY DEF NoText
  <2> HIDE DEF c
  <2> QED BY <2>1, <2>2 DEF Text
<1>3. NoEvent \in [data : Seq(Text), type : Text] BY <1>1 DEF NoEvent
<1> HIDE DEF Text, Given
<1> QED BY <1>1, <1>2, <1>3 DEF NewParser, Parsers

LEMMA LineTyped ==
  ASSUME NEW p \in Parsers, NEW line \in Text
  PROVE  ProcessLine(p, line) \in Parsers
<1>1. Ahead(p, p, <<>>)
  <2>1. p.out \in Seq(Given) BY ParserIs
  <2>2. p.out = <<>> \o p.out BY <2>1, ConcatEmptySeq
  <2> QED BY <2>2 DEF Ahead
<1>2. <<>> \in Seq(Given) OBVIOUS
<1> QED BY <1>1, <1>2, LineSays

(* The lines of a text, one by one.                                        *)
LineOf(doc, i) == SubSeq(doc, LineStart(doc, i), i - 1)

LEMMA LineIsText ==
  ASSUME NEW doc \in Text, NEW a \in Nat \ {0}, NEW b \in 0..Len(doc)
  PROVE  SubSeq(doc, a, b) \in Text
<1>1. Len(doc) \in Nat /\ doc \in [1..Len(doc) -> Chars]
  BY LenProperties DEF Text
<1>2. \A i \in a..b : doc[i] \in Chars BY <1>1
<1> QED BY <1>1, <1>2, SubSeqProperties DEF Text

LEMMA LineOfText ==
  ASSUME NEW doc \in Text, NEW i \in 1..Len(doc)
  PROVE  LineOf(doc, i) \in Text
<1>1. Len(doc) \in Nat BY LenProperties DEF Text
<1>2. LineStart(doc, i) \in 1..i BY <1>1, LineStarts DEF StartsAt
<1>3. i - 1 \in 0..Len(doc) /\ LineStart(doc, i) \in Nat \ {0} BY <1>1, <1>2
<1> QED BY <1>3, LineIsText DEF LineOf

LEMMA ParsedIs ==
  ASSUME NEW doc \in Text
  PROVE  /\ Parsed(doc) \in [0..Len(doc) -> Parsers]
         /\ Parsed(doc)[0] = NewParser
         /\ \A n \in 1..Len(doc) :
              Parsed(doc)[n] =
                IF EndsLine(doc, n)
                THEN ProcessLine(Parsed(doc)[n - 1], LineOf(doc, n))
                ELSE Parsed(doc)[n - 1]
<1> DEFINE N == Len(doc)
           next(p, n) == IF EndsLine(doc, n) THEN ProcessLine(p, LineOf(doc, n))
                         ELSE p
           Rec(f) == f = [n \in 0..N |-> IF n = 0 THEN NewParser
                                         ELSE next(f[n - 1], n)]
           step == [t \in Parsers \X (1..N) |-> next(t[1], t[2])]
<1>1. N \in Nat BY LenProperties DEF Text
<1>2. \A p \in Parsers, n \in 1..N : next(p, n) \in Parsers
  BY LineTyped, LineOfText
<1>3. Parsed(doc) = CHOOSE f : Rec(f)
  BY Zenon DEF Parsed, LineOf
<1> HIDE DEF next, N
<1>4. step \in [Parsers \X (1..N) -> Parsers] BY <1>2
<1>5. \A p \in Parsers, n \in 1..N : step[<<p, n>>] = next(p, n) OBVIOUS
<1> HIDE DEF step
<1>6. PICK f \in [0..N -> Parsers] :
        f[0] = NewParser /\ \A n \in 1..N : f[n] = step[<<f[n - 1], n>>]
  <2>1. step \in Steps(Parsers, N) BY <1>4 DEF Steps
  <2>2. \E f : Solves(f, Parsers, NewParser, N, step)
    BY <1>1, <2>1, NewParserTyped, Recursion
  <2> QED BY <2>2 DEF Solves
<1>7. ASSUME NEW n \in 1..N PROVE f[n - 1] \in Parsers /\ f[n] = next(f[n - 1], n)
  <2>1. n - 1 \in 0..N BY <1>1
  <2>2. f[n - 1] \in Parsers BY <2>1, <1>6
  <2> QED BY <2>2, <1>5, <1>6
<1>8. Rec(f)
  <2>1. \A n \in 0..N : f[n] = IF n = 0 THEN NewParser ELSE next(f[n - 1], n)
    BY <1>1, <1>6, <1>7
  <2> QED BY <1>6, <2>1
<1> DEFINE P == Parsed(doc)
<1>9. Rec(P)
  <2> HIDE DEF Rec
  <2> QED BY <1>3, <1>8
<1>10. ASSUME NEW g, Rec(g)
       PROVE g[0] = NewParser /\ \A n \in 1..N : g[n] = next(g[n - 1], n)
  BY <1>1, <1>10
<1> DEFINE A == {m \in Nat : m <= N => P[m] \in Parsers}
<1>11. P[0] = NewParser /\ \A n \in 1..N : P[n] = next(P[n - 1], n)
  BY <1>9, <1>10
<1> HIDE DEF P
<1>12. 0 \in A BY <1>11, NewParserTyped
<1>13. ASSUME NEW m \in Nat, m \in A PROVE m + 1 \in A
  BY <1>1, <1>2, <1>11, <1>13
<1>14. Nat \subseteq A
  <2> HIDE DEF A
  <2> QED BY <1>12, <1>13, NatCases
<1>15. \A n \in 0..N : P[n] \in Parsers BY <1>1, <1>14
<1>16. P \in [0..N -> Parsers]
  <2>1. P = [n \in 0..N |-> IF n = 0 THEN NewParser ELSE next(P[n - 1], n)]
    BY <1>9 DEF P
  <2> QED BY <1>15, <2>1
<1> QED BY <1>11, <1>16 DEF P, next, N
Scans == [parser : Parsers, start : Nat \ {0}]

LEMMA CharScanned ==
  ASSUME NEW doc \in Text, NEW s \in Scans, NEW n \in 1..Len(doc)
  PROVE  /\ ScanChar(s, doc, n) \in Scans
         /\ doc[n] \notin LineEnds \/ n < s.start => ScanChar(s, doc, n) = s
         /\ doc[n] \in LineEnds /\ ~ (n < s.start) =>
              /\ SubSeq(doc, s.start, n - 1) \in Text
              /\ ScanChar(s, doc, n).parser =
                   [ProcessLine(s.parser, SubSeq(doc, s.start, n - 1))
                    EXCEPT !.pendingCR = (doc[n] = "CR" /\ n = Len(doc))]
              /\ ScanChar(s, doc, n).start =
                   IF doc[n] = "CR" /\ n < Len(doc) /\ doc[n + 1] = "LF"
                   THEN n + 2 ELSE n + 1
<1>1. Len(doc) \in Nat BY LenProperties DEF Text
<1>2. s.parser \in Parsers /\ s.start \in Nat \ {0} BY DEF Scans
<1>3. CASE doc[n] \notin LineEnds \/ n < s.start
  BY <1>3 DEF ScanChar
<1>4. CASE ~ (doc[n] \notin LineEnds \/ n < s.start)
  <2> DEFINE line == SubSeq(doc, s.start, n - 1)
             cr == doc[n] = "CR" /\ n = Len(doc)
             p == ProcessLine(s.parser, line)
             q == [p EXCEPT !.pendingCR = cr]
             next == IF doc[n] = "CR" /\ n < Len(doc) /\ doc[n + 1] = "LF"
                     THEN n + 2 ELSE n + 1
  <2>1. line \in Text
    <3>1. n - 1 \in 0..Len(doc) BY <1>1
    <3> QED BY <1>2, <3>1, LineIsText
  <2>2. p \in Parsers BY <1>2, <2>1, LineTyped
  <2>3. cr \in BOOLEAN /\ next \in Nat \ {0} BY <1>1
  <2>4. ScanChar(s, doc, n) = [parser |-> q, start |-> next]
    BY <1>4, Zenon DEF ScanChar
  <2> HIDE DEF p, cr, next
  <2>5. q \in Parsers
    <3> HIDE DEF Text, Given
    <3> QED BY <2>2, <2>3 DEF Parsers
  <2> HIDE DEF q
  <2>6. ScanChar(s, doc, n) \in Scans BY <2>3, <2>4, <2>5 DEF Scans
  <2> QED BY <1>4, <2>1, <2>4, <2>6 DEF q, p, cr, next
<1> QED BY <1>3, <1>4

LEMMA ScanIs ==
  ASSUME NEW doc \in Text, NEW p \in Parsers
  PROVE  /\ ScanUpTo(p, doc)[0] = [parser |-> p, start |-> 1]
         /\ \A n \in 0..Len(doc) : ScanUpTo(p, doc)[n] \in Scans
         /\ \A n \in 1..Len(doc) :
              ScanUpTo(p, doc)[n] = ScanChar(ScanUpTo(p, doc)[n - 1], doc, n)
<1> DEFINE N == Len(doc)
           x == [parser |-> p, start |-> 1]
           next(s, n) == ScanChar(s, doc, n)
           Rec(f) == f = [n \in 0..N |-> IF n = 0 THEN x ELSE next(f[n - 1], n)]
           step == [t \in Scans \X (1..N) |-> next(t[1], t[2])]
<1>1. N \in Nat BY LenProperties DEF Text
<1>a. x \in Scans BY DEF Scans
<1>2. \A s \in Scans, n \in 1..N : next(s, n) \in Scans
  BY CharScanned
<1>3. ScanUpTo(p, doc) = CHOOSE f : Rec(f)
  BY Zenon DEF ScanUpTo
<1> HIDE DEF next, N, x
<1>4. step \in [Scans \X (1..N) -> Scans] BY <1>2
<1>5. \A s \in Scans, n \in 1..N : step[<<s, n>>] = next(s, n) OBVIOUS
<1> HIDE DEF step
<1>6. PICK f \in [0..N -> Scans] :
        f[0] = x /\ \A n \in 1..N : f[n] = step[<<f[n - 1], n>>]
  <2>1. step \in Steps(Scans, N) BY <1>4 DEF Steps
  <2>2. \E f : Solves(f, Scans, x, N, step)
    BY <1>1, <1>a, <2>1, Recursion
  <2> QED BY <2>2 DEF Solves
<1>7. ASSUME NEW n \in 1..N PROVE f[n - 1] \in Scans /\ f[n] = next(f[n - 1], n)
  <2>1. n - 1 \in 0..N BY <1>1
  <2>2. f[n - 1] \in Scans BY <2>1, <1>6
  <2> QED BY <2>2, <1>5, <1>6
<1>8. Rec(f)
  <2>1. \A n \in 0..N : f[n] = IF n = 0 THEN x ELSE next(f[n - 1], n)
    BY <1>1, <1>6, <1>7
  <2> QED BY <1>6, <2>1
<1> DEFINE P == ScanUpTo(p, doc)
<1>9. Rec(P)
  <2> HIDE DEF Rec
  <2> QED BY <1>3, <1>8
<1>10. ASSUME NEW g, Rec(g)
       PROVE g[0] = x /\ \A n \in 1..N : g[n] = next(g[n - 1], n)
  BY <1>1, <1>10
<1> DEFINE A == {m \in Nat : m <= N => P[m] \in Scans}
<1>11. P[0] = x /\ \A n \in 1..N : P[n] = next(P[n - 1], n)
  BY <1>9, <1>10
<1> HIDE DEF P
<1>12. 0 \in A BY <1>11, <1>a
<1>13. ASSUME NEW m \in Nat, m \in A PROVE m + 1 \in A
  BY <1>1, <1>2, <1>11, <1>13
<1>14. Nat \subseteq A
  <2> HIDE DEF A
  <2> QED BY <1>12, <1>13, NatCases
<1>15. \A n \in 0..N : P[n] \in Scans BY <1>1, <1>14
<1> QED BY <1>11, <1>15 DEF P, next, N, x

(* Two texts that agree from a to b, but for k characters before.          *)
LEMMA SameSub ==
  ASSUME NEW doc \in Text, NEW whole \in Text, NEW k \in Nat,
         NEW a \in Nat \ {0}, NEW b \in 0..Len(doc), k + b <= Len(whole),
         \A i \in a..b : whole[k + i] = doc[i]
  PROVE  SubSeq(whole, k + a, k + b) = SubSeq(doc, a, b)
<1> DEFINE s == SubSeq(whole, k + a, k + b)
           t == SubSeq(doc, a, b)
<1>1. Len(doc) \in Nat /\ Len(whole) \in Nat
      /\ (\A i \in 1..Len(doc) : doc[i] \in Chars)
      /\ \A i \in 1..Len(whole) : whole[i] \in Chars
  BY LenProperties DEF Text
<1>2. /\ \A i \in a..b : doc[i] \in Chars
      /\ \A i \in (k + a)..(k + b) : whole[i] \in Chars
  BY <1>1
<1>3. /\ t \in Seq(Chars) /\ Len(t) = IF a <= b THEN b - a + 1 ELSE 0
      /\ \A i \in 1..(b - a + 1) : t[i] = doc[a + i - 1]
  <2>1. a \in Int /\ b \in Int BY <1>1
  <2> QED BY <1>2, <2>1, SubSeqProperties
<1>4. /\ s \in Seq(Chars) /\ Len(s) = IF a <= b THEN b - a + 1 ELSE 0
      /\ \A i \in 1..(b - a + 1) : s[i] = whole[k + a + i - 1]
  <2> DEFINE c == k + a
             d == k + b
  <2>1. c \in Int /\ d \in Int /\ (d - c + 1) = b - a + 1 /\ (c <= d <=> a <= b)
    BY <1>1
  <2>2. \A i \in c..d : whole[i] \in Chars BY <1>2
  <2> HIDE DEF c, d
  <2>3. /\ SubSeq(whole, c, d) \in Seq(Chars)
        /\ Len(SubSeq(whole, c, d)) = IF c <= d THEN d - c + 1 ELSE 0
        /\ \A i \in 1..(d - c + 1) : SubSeq(whole, c, d)[i] = whole[c + i - 1]
    BY <2>1, <2>2, SubSeqProperties
  <2>4. /\ SubSeq(whole, c, d) \in Seq(Chars)
        /\ Len(SubSeq(whole, c, d)) = IF a <= b THEN b - a + 1 ELSE 0
        /\ \A i \in 1..(b - a + 1) : SubSeq(whole, c, d)[i] = whole[c + i - 1]
    BY <2>1, <2>3
  <2> QED BY <2>4 DEF c, d
<1>5. ASSUME NEW i \in 1..Len(s) PROVE s[i] = t[i]
  <2>1. a <= b /\ i \in 1..(b - a + 1) BY <1>1, <1>4
  <2>2. a + i - 1 \in a..b /\ k + a + i - 1 = k + (a + i - 1) BY <1>1, <2>1
  <2> QED BY <1>3, <1>4, <2>1, <2>2
<1> HIDE DEF s, t
<1>6. s = t BY <1>3, <1>4, <1>5, SeqEqual
<1> QED BY <1>6 DEF s, t

(* What the lines of a text say is what they say in any longer one.        *)
LEMMA ParsedAgrees ==
  ASSUME NEW doc \in Text, NEW whole \in Text, Len(doc) <= Len(whole),
         \A i \in 1..Len(doc) : whole[i] = doc[i]
  PROVE  \A n \in 0..Len(doc) : Parsed(whole)[n] = Parsed(doc)[n]
<1> DEFINE N == Len(doc)
           A == {n \in Nat : n <= N => Parsed(whole)[n] = Parsed(doc)[n]}
<1>1. N \in Nat /\ Len(whole) \in Nat BY LenProperties DEF Text
<1>2. 0 \in A BY ParsedIs
<1>3. ASSUME NEW m \in Nat, m \in A PROVE m + 1 \in A
  <2> SUFFICES ASSUME m + 1 <= N
               PROVE  Parsed(whole)[m + 1] = Parsed(doc)[m + 1]
    OBVIOUS
  <2> DEFINE n == m + 1
  <2>1. /\ n \in 1..N /\ n \in 1..Len(whole) /\ n - 1 = m /\ n \in Nat \ {0}
        /\ Parsed(whole)[m] = Parsed(doc)[m]
    BY <1>1, <1>3
  <2> HIDE DEF n
  <2>2. EndsLine(whole, n) <=> EndsLine(doc, n)
    <3>1. whole[n] = doc[n] /\ (n > 1 => whole[n - 1] = doc[n - 1])
      BY <1>1, <2>1
    <3> QED BY <2>1, <3>1 DEF EndsLine
  <2>3. LineOf(whole, n) = LineOf(doc, n)
    <3> DEFINE j == LineStart(doc, n)
    <3>1. StartsAt(doc, n, j) BY <2>1, LineStarts
    <3> HIDE DEF j
    <3>2. j \in 1..n /\ j \in Nat \ {0} BY <2>1, <3>1 DEF StartsAt
    <3>3. \A k \in 1..(n - 1) : whole[k] = doc[k] BY <1>1, <2>1
    <3>4. StartsAt(whole, n, j)
      <4>1. j # 1 => j - 1 \in 1..(n - 1) BY <2>1, <3>2
      <4>2. \A k \in j..(n - 1) : k \in 1..(n - 1) BY <2>1, <3>2
      <4> QED BY <3>1, <3>3, <4>1, <4>2 DEF StartsAt
    <3>5. LineStart(whole, n) = j BY <2>1, <3>4, LineStarts
    <3>6. SubSeq(whole, 0 + j, 0 + (n - 1)) = SubSeq(doc, j, n - 1)
      <4>1. n - 1 \in 0..Len(doc) /\ 0 + (n - 1) <= Len(whole)
        BY <1>1, <2>1
      <4>2. \A k \in j..(n - 1) : whole[0 + k] = doc[k]
        BY <3>2, <3>3, <2>1
      <4> QED BY <3>2, <4>1, <4>2, SameSub
    <3>7. 0 + j = j /\ 0 + (n - 1) = n - 1 BY <2>1, <3>2
    <3> QED BY <3>5, <3>6, <3>7 DEF LineOf, j
  <2>4. Parsed(whole)[n] = Parsed(doc)[n]
    <3>1. Parsed(whole)[n] = IF EndsLine(whole, n)
                             THEN ProcessLine(Parsed(whole)[n - 1], LineOf(whole, n))
                             ELSE Parsed(whole)[n - 1]
      BY <2>1, ParsedIs
    <3>2. Parsed(doc)[n] = IF EndsLine(doc, n)
                           THEN ProcessLine(Parsed(doc)[n - 1], LineOf(doc, n))
                           ELSE Parsed(doc)[n - 1]
      BY <2>1, ParsedIs
    <3> QED BY <2>1, <2>2, <2>3, <3>1, <3>2
  <2> QED BY <2>4 DEF n
<1> HIDE DEF A
<1>4. Nat \subseteq A BY <1>2, <1>3, NatCases
<1> QED BY <1>1, <1>4 DEF A

(* The scan of doc, what whole has after its first k characters: whatever  *)
(* its first n say is out, the rest of their last line is what is not read *)
(* yet, and what was done before is out already.                           *)
Skips(doc, n) == n >= 1 /\ n < Len(doc) /\ doc[n] = "CR" /\ doc[n + 1] = "LF"

Follows(whole, k, doc, done, s, n) ==
  /\ s \in Scans /\ Ahead(Parsed(whole)[k + n], s.parser, done)
  /\ s.parser.pendingCR <=> n = Len(doc) /\ n >= 1 /\ doc[n] = "CR"
  /\ s.parser.started
  /\ Skips(doc, n) => s.start = n + 2
  /\ ~ Skips(doc, n) => StartsAt(doc, n + 1, s.start)

PartOf(doc, whole, k) ==
  /\ k \in Nat /\ Len(whole) = k + Len(doc)
  /\ \A i \in 1..Len(doc) : whole[k + i] = doc[i]
  /\ k = 0 \/ whole[k] \in LineEnds
  /\ k # 0 /\ Len(doc) > 0 => ~ (whole[k] = "CR" /\ doc[1] = "LF")
  /\ k # 0 /\ Len(doc) = 0 => whole[k] # "CR"

Cut(doc, a, b) == SubSeq(doc, a, b)

LEMMA StartsInWhole ==
  ASSUME NEW doc \in Text, NEW whole \in Text, NEW k, PartOf(doc, whole, k),
         NEW n \in 1..(Len(doc) + 1), NEW j, StartsAt(doc, n, j)
  PROVE  /\ StartsAt(whole, k + n, k + j) /\ LineStart(whole, k + n) = k + j
         /\ Cut(whole, k + j, k + (n - 1)) = Cut(doc, j, n - 1)
<1>1. /\ Len(doc) \in Nat /\ Len(whole) = k + Len(doc) /\ k \in Nat
      /\ n \in Nat \ {0} /\ j \in 1..n
  BY LenProperties DEF Text, PartOf, StartsAt
<1>2. k + j \in 1..(k + n) BY <1>1
<1>3. k + j = 1 \/ whole[(k + j) - 1] \in LineEnds
  <2>1. CASE j = 1
    <3>1. (k + j) - 1 = k BY <1>1, <2>1
    <3>2. k = 0 \/ whole[k] \in LineEnds BY DEF PartOf
    <3> QED BY <2>1, <3>1, <3>2
  <2>2. CASE j # 1
    <3>1. /\ j - 1 \in 1..Len(doc) /\ k + (j - 1) = (k + j) - 1
          /\ doc[j - 1] \in LineEnds
      BY <1>1, <2>2 DEF StartsAt
    <3>2. whole[k + (j - 1)] = doc[j - 1] BY <3>1 DEF PartOf
    <3> QED BY <3>1, <3>2
  <2> QED BY <2>1, <2>2
<1>4. ASSUME NEW i \in (k + j)..((k + n) - 1) PROVE whole[i] \notin LineEnds
  <2>1. i - k \in j..(n - 1) /\ i - k \in 1..Len(doc) /\ k + (i - k) = i
    BY <1>1, <1>4
  <2>2. whole[k + (i - k)] = doc[i - k] BY <2>1 DEF PartOf
  <2> QED BY <2>1, <2>2 DEF StartsAt
<1>5. StartsAt(whole, k + n, k + j) BY <1>2, <1>3, <1>4 DEF StartsAt
<1>6. LineStart(whole, k + n) = k + j
  <2>1. k + n \in Nat \ {0} BY <1>1
  <2> QED BY <1>5, <2>1, LineStarts
<1>7. SubSeq(whole, k + j, k + (n - 1)) = SubSeq(doc, j, n - 1)
  <2>1. /\ \A i \in j..(n - 1) : whole[k + i] = doc[i]
        /\ j \in Nat \ {0} /\ n - 1 \in 0..Len(doc) /\ k + (n - 1) <= Len(whole)
    BY <1>1 DEF PartOf
  <2> QED BY <1>1, <2>1, SameSub
<1> QED BY <1>5, <1>6, <1>7 DEF Cut

LEMMA CharFollows ==
  ASSUME NEW doc \in Text, NEW whole \in Text, NEW k, PartOf(doc, whole, k),
         NEW done \in Seq(Given), NEW s, NEW n \in 1..Len(doc),
         Follows(whole, k, doc, done, s, n - 1)
  PROVE  Follows(whole, k, doc, done, ScanChar(s, doc, n), n)
<1>1. /\ Len(doc) \in Nat /\ Len(whole) \in Nat /\ k \in Nat
      /\ n \in Nat \ {0} /\ k + n \in 1..Len(whole) /\ k + n \in Nat \ {0}
      /\ whole[k + n] = doc[n] /\ k + (n - 1) = k + n - 1
    BY LenProperties DEF Text, PartOf
<1> DEFINE m == n - 1
           now == k + n
<1>a. now - 1 = k + m /\ m \in Nat /\ n = m + 1 /\ m < Len(doc) BY <1>1
<1>2. Parsed(whole)[now] = IF EndsLine(whole, now)
                           THEN ProcessLine(Parsed(whole)[now - 1], LineOf(whole, now))
                           ELSE Parsed(whole)[now - 1]
  BY <1>1, ParsedIs
<1>3. /\ s \in Scans /\ Ahead(Parsed(whole)[now - 1], s.parser, done)
      /\ ~ s.parser.pendingCR /\ s.parser.started
      /\ Skips(doc, m) => s.start = m + 2
      /\ ~ Skips(doc, m) => StartsAt(doc, n, s.start)
  <2>1. m # Len(doc) /\ m + 1 = n BY <1>1, <1>a
  <2>2. Follows(whole, k, doc, done, s, m) OBVIOUS
  <2> HIDE DEF m, now
  <2>3. /\ s \in Scans /\ Ahead(Parsed(whole)[k + m], s.parser, done)
        /\ ~ s.parser.pendingCR /\ s.parser.started
    BY <2>1, <2>2 DEF Follows
  <2>4. /\ Skips(doc, m) => s.start = m + 2
        /\ ~ Skips(doc, m) => StartsAt(doc, m + 1, s.start)
    BY <2>2 DEF Follows
  <2> QED BY <1>a, <2>1, <2>3, <2>4
<1>4. s.parser \in Parsers /\ s.start \in Nat \ {0} BY <1>3 DEF Scans
<1> HIDE DEF m, now
<1>5. CASE doc[n] \notin LineEnds
  <2>1. ScanChar(s, doc, n) = s BY <1>3, <1>5, CharScanned
  <2>2. ~ EndsLine(whole, now) BY <1>1, <1>5 DEF EndsLine, now
  <2>3. ~ Skips(doc, m) /\ ~ Skips(doc, n) /\ doc[n] # "CR"
    BY <1>5, <1>a DEF Skips, LineEnds
  <2>4. StartsAt(doc, n + 1, s.start)
    <3>1. StartsAt(doc, n, s.start) BY <1>3, <2>3
    <3>2. \A i \in (s.start)..(n + 1 - 1) : i = n \/ i \in (s.start)..(n - 1)
      BY <1>1, <1>4
    <3>3. s.start \in 1..(n + 1) BY <1>1, <3>1 DEF StartsAt
    <3> QED BY <1>5, <3>1, <3>2, <3>3 DEF StartsAt
  <2> QED BY <1>2, <1>3, <2>1, <2>2, <2>3, <2>4 DEF Follows, now
<1>6. CASE doc[n] \in LineEnds /\ Skips(doc, m)
  <2>1. /\ doc[n] = "LF" /\ doc[m] = "CR" /\ m >= 1 /\ s.start = n + 1
        /\ whole[k + m] = doc[m]
    BY <1>1, <1>3, <1>6, <1>a DEF Skips, PartOf
  <2>2. ScanChar(s, doc, n) = s
    <3>1. n < s.start BY <1>1, <2>1
    <3> QED BY <1>3, <3>1, CharScanned
  <2>3. ~ EndsLine(whole, now)
    <3>1. now > 1 /\ whole[now] = "LF" /\ whole[now - 1] = "CR"
      BY <1>1, <1>a, <2>1 DEF now
    <3> QED BY <3>1 DEF EndsLine
  <2>4. ~ Skips(doc, n) /\ doc[n] # "CR" BY <2>1 DEF Skips
  <2>5. StartsAt(doc, n + 1, n + 1) BY <1>1, <1>6 DEF StartsAt
  <2> QED BY <1>2, <1>3, <2>1, <2>2, <2>3, <2>4, <2>5 DEF Follows, now
<1>7. CASE doc[n] \in LineEnds /\ ~ Skips(doc, m)
  <2> DEFINE j == s.start
             line == SubSeq(doc, j, m)
  <2>1. StartsAt(doc, n, j) /\ j \in 1..n /\ ~ (n < j)
    <3>1. StartsAt(doc, n, j) BY <1>3, <1>7
    <3> QED BY <1>1, <3>1 DEF StartsAt
  <2> HIDE DEF j
  <2>2. EndsLine(whole, now)
    <3>1. ASSUME whole[now] = "LF", now > 1, whole[now - 1] = "CR"
          PROVE  FALSE
      <4>1. CASE m >= 1
        <5>1. whole[k + m] = doc[m] BY <1>1, <1>a, <4>1 DEF PartOf
        <5> QED BY <1>1, <1>7, <1>a, <3>1, <4>1, <5>1 DEF Skips, now
      <4>2. CASE m = 0
        <5>1. n = 1 /\ now - 1 = k /\ k # 0 /\ Len(doc) > 0
          BY <1>1, <1>a, <3>1, <4>2 DEF now
        <5> QED BY <1>1, <3>1, <5>1 DEF PartOf, now
      <4> QED BY <1>a, <4>1, <4>2
    <3> QED BY <1>1, <1>7, <3>1 DEF EndsLine, now
  <2>3. LineOf(whole, now) = line
    <3>1. LineStart(whole, now) = k + j /\ SubSeq(whole, k + j, k + m) = line
      <4>1. n \in 1..(Len(doc) + 1) BY <1>1
      <4>2. /\ LineStart(whole, k + n) = k + j
            /\ Cut(whole, k + j, k + (n - 1)) = Cut(doc, j, n - 1)
        BY <2>1, <4>1, StartsInWhole
      <4> QED BY <4>2 DEF now, m, Cut
    <3> QED BY <1>a, <3>1 DEF LineOf
  <2> DEFINE p == s.parser
             q == Parsed(whole)[now - 1]
             r == ProcessLine(p, line)
             t == ScanChar(s, doc, n)
             cr == doc[n] = "CR" /\ n = Len(doc)
  <2>4. /\ t \in Scans /\ line \in Text
        /\ t.parser = [r EXCEPT !.pendingCR = cr]
        /\ t.start = IF doc[n] = "CR" /\ n < Len(doc) /\ doc[n + 1] = "LF"
                     THEN n + 2 ELSE n + 1
    BY <1>3, <1>7, <2>1, CharScanned DEF j, m
  <2>5. q \in Parsers
    <3>1. now - 1 \in 0..Len(whole) BY <1>1 DEF now
    <3> QED BY <3>1, ParsedIs
  <2>6. Parsed(whole)[now] = ProcessLine(q, line) BY <1>2, <2>2, <2>3
  <2> HIDE DEF line
  <2>7. /\ r \in Parsers /\ r.started = p.started
        /\ Ahead(ProcessLine(q, line), r, done)
    BY <1>3, <1>4, <2>4, <2>5, LineSays
  <2> HIDE DEF r, q, t
  <2>8. cr \in BOOLEAN OBVIOUS
  <2> HIDE DEF cr, p
  <2>9. /\ t.parser.pendingCR = cr /\ t.parser.started = p.started
        /\ Ahead(Parsed(whole)[now], t.parser, done)
    <3>1. /\ t.parser.pendingCR = cr /\ t.parser.started = r.started
          /\ t.parser.event = r.event /\ t.parser.lastId = r.lastId
          /\ t.parser.retry = r.retry /\ t.parser.out = r.out
      BY <2>4, <2>7, <2>8 DEF Parsers
    <3> QED BY <2>6, <2>7, <3>1 DEF Ahead
  <2>10. /\ Skips(doc, n) => t.start = n + 2
         /\ ~ Skips(doc, n) => t.start = n + 1
    BY <1>1, <2>4 DEF Skips
  <2>11. StartsAt(doc, n + 1, n + 1) BY <1>1, <1>7 DEF StartsAt
  <2>12. t.parser.pendingCR <=> n = Len(doc) /\ n >= 1 /\ doc[n] = "CR"
    <3>1. t.parser.pendingCR <=> cr BY <2>9, Zenon
    <3>2. cr <=> n = Len(doc) /\ n >= 1 /\ doc[n] = "CR" BY <1>1 DEF cr
    <3> QED BY <3>1, <3>2
  <2> QED BY <1>3, <2>4, <2>9, <2>10, <2>11, <2>12 DEF Follows, p, t, now
<1> QED BY <1>5, <1>6, <1>7

LEMMA ScanFollows ==
  ASSUME NEW doc \in Text, NEW whole \in Text, NEW k, PartOf(doc, whole, k),
         NEW done \in Seq(Given), NEW p \in Parsers,
         ~ p.pendingCR, p.started, Ahead(Parsed(whole)[k], p, done)
  PROVE  Follows(whole, k, doc, done, ScanUpTo(p, doc)[Len(doc)], Len(doc))
<1> DEFINE N == Len(doc)
           Scanned2(n) == ScanUpTo(p, doc)[n]
           A == {n \in Nat : n <= N => Follows(whole, k, doc, done, Scanned2(n), n)}
<1>1. N \in Nat /\ k \in Nat BY LenProperties DEF Text, PartOf
<1>2. 0 \in A
  <2> DEFINE s == [parser |-> p, start |-> 1]
  <2>1. Scanned2(0) = s BY ScanIs
  <2>2. s \in Scans /\ s.parser = p /\ s.start = 1 BY DEF Scans
  <2> HIDE DEF s, Scanned2
  <2>3. Follows(whole, k, doc, done, s, 0)
    <3>1. k + 0 = k BY <1>1
    <3>2. ~ Skips(doc, 0) BY DEF Skips
    <3>3. StartsAt(doc, 0 + 1, 1) BY DEF StartsAt
    <3> QED BY <2>2, <3>1, <3>2, <3>3 DEF Follows
  <2> QED BY <2>1, <2>3
<1>3. ASSUME NEW m \in Nat, m \in A PROVE m + 1 \in A
  <2> SUFFICES ASSUME m + 1 <= N
               PROVE  Follows(whole, k, doc, done, Scanned2(m + 1), m + 1)
    OBVIOUS
  <2> DEFINE n == m + 1
  <2>1. n \in 1..Len(doc) /\ n - 1 = m BY <1>1
  <2>2. Follows(whole, k, doc, done, Scanned2(m), m) BY <1>1, <1>3
  <2> HIDE DEF n
  <2>3. Scanned2(n) = ScanChar(Scanned2(n - 1), doc, n) BY <2>1, ScanIs
  <2> HIDE DEF Scanned2
  <2>4. Follows(whole, k, doc, done, ScanChar(Scanned2(n - 1), doc, n), n)
    BY <2>1, <2>2, CharFollows
  <2> QED BY <2>3, <2>4 DEF n
<1> HIDE DEF A
<1>4. Nat \subseteq A BY <1>2, <1>3, NatCases
<1>5. N \in A BY <1>1, <1>4
<1> QED BY <1>1, <1>5 DEF A

(* No line ends where the one that is under way goes on.                   *)
LEMMA ParsedRests ==
  ASSUME NEW doc \in Text, NEW j, StartsAt(doc, Len(doc) + 1, j)
  PROVE  Parsed(doc)[Len(doc)] = Parsed(doc)[j - 1]
<1> DEFINE N == Len(doc)
           A == {n \in Nat : j - 1 <= n /\ n <= N => Parsed(doc)[n] = Parsed(doc)[j - 1]}
<1>1. N \in Nat /\ j \in 1..(N + 1) /\ j - 1 \in Nat
  BY LenProperties DEF Text, StartsAt
<1>2. 0 \in A
  <2>1. j - 1 <= 0 => j - 1 = 0 BY <1>1
  <2> QED BY <2>1
<1>3. ASSUME NEW m \in Nat, m \in A PROVE m + 1 \in A
  <2>1. CASE j - 1 <= m /\ m + 1 <= N
    <3> DEFINE n == m + 1
    <3>1. n \in 1..Len(doc) /\ n \in j..(Len(doc) + 1 - 1) /\ n - 1 = m /\ m <= N
      BY <1>1, <2>1
    <3>2. Parsed(doc)[m] = Parsed(doc)[j - 1] BY <1>3, <2>1, <3>1
    <3> HIDE DEF n
    <3>3. ~ EndsLine(doc, n) BY <3>1 DEF StartsAt, EndsLine
    <3>4. Parsed(doc)[n] = Parsed(doc)[n - 1] BY <3>1, <3>3, ParsedIs
    <3> QED BY <3>1, <3>2, <3>4 DEF n
  <2>2. CASE ~ (j - 1 <= m) /\ j - 1 <= m + 1
    <3>1. j - 1 = m + 1 BY <1>1, <2>2
    <3> QED BY <3>1
  <2>3. CASE ~ (j - 1 <= m + 1 /\ m + 1 <= N) BY <2>3
  <2> QED BY <2>1, <2>2, <2>3
<1> HIDE DEF A
<1>4. Nat \subseteq A BY <1>2, <1>3, NatCases
<1>5. N \in A BY <1>1, <1>4
<1> QED BY <1>1, <1>5 DEF A

(* The parser is where the text that was seen is, but what is done is out. *)
Linked(p, seen, done) ==
  LET body == Body(seen) IN
  /\ p \in Parsers /\ p.out = <<>>
  /\ p.started <=> seen # <<>>
  /\ Ahead(Parsed(body)[Len(body)], p, done)
  /\ p.pendingCR <=> body # <<>> /\ body[Len(body)] = "CR"
  /\ p.buffer = LineOf(body, Len(body) + 1)

LEMMA BodyGrows ==
  ASSUME NEW seen \in Text, NEW c \in Text, NEW marked,
         marked = IF seen # <<>> THEN c ELSE Dropping(c, "BOM")
  PROVE  /\ marked \in Text /\ Body(seen) \in Text
         /\ Body(seen \o c) = Body(seen) \o marked
<1>1. marked \in Text /\ Body(seen) \in Text BY DroppingText DEF Body
<1>2. CASE seen = <<>>
  <2>1. seen \o c = c BY <1>2, ConcatEmptySeq DEF Text
  <2>2. Body(seen) = <<>> BY <1>2 DEF Body, Dropping
  <2>3. Body(seen) \o marked = marked BY <1>1, <2>2, ConcatEmptySeq DEF Text
  <2> QED BY <1>1, <1>2, <2>1, <2>3 DEF Body
<1>3. CASE seen # <<>>
  <2> DEFINE all == seen \o c
  <2>1. /\ all \in Seq(Chars) /\ Len(all) = Len(seen) + Len(c)
        /\ Len(seen) \in Nat \ {0} /\ Len(c) \in Nat
        /\ \A i \in 1..(Len(seen) + Len(c)) :
             all[i] = IF i <= Len(seen) THEN seen[i] ELSE c[i - Len(seen)]
    BY <1>3, ConcatProperties, LenProperties, EmptySeq DEF Text
  <2>2. all # <<>> BY <2>1
  <2>3. /\ Head(seen) = seen[1] /\ Head(all) = all[1] /\ all[1] = seen[1]
        /\ Tail(seen) \in Seq(Chars) /\ Len(Tail(seen)) = Len(seen) - 1
        /\ \A i \in 1..(Len(seen) - 1) : Tail(seen)[i] = seen[i + 1]
        /\ Tail(all) \in Seq(Chars) /\ Len(Tail(all)) = Len(all) - 1
        /\ \A i \in 1..(Len(all) - 1) : Tail(all)[i] = all[i + 1]
    BY <1>3, <2>1, <2>2, HeadTailProperties DEF Text
  <2> HIDE DEF all
  <2>4. Tail(all) = Tail(seen) \o c
    <3> DEFINE t == Tail(seen)
               s == Tail(all)
               u == t \o c
    <3>1. /\ u \in Seq(Chars) /\ Len(u) = Len(t) + Len(c)
          /\ \A i \in 1..(Len(t) + Len(c)) :
               u[i] = IF i <= Len(t) THEN t[i] ELSE c[i - Len(t)]
      BY <2>3, ConcatProperties DEF Text
    <3>2. s \in Seq(Chars) /\ Len(s) = Len(seen) + Len(c) - 1
          /\ Len(t) = Len(seen) - 1
          /\ (\A i \in 1..(Len(seen) - 1) : t[i] = seen[i + 1])
          /\ \A i \in 1..(Len(all) - 1) : s[i] = all[i + 1]
      BY <2>1, <2>3
    <3> HIDE DEF t, s, u
    <3>3. Len(s) = Len(u) /\ \A i \in 1..Len(s) : s[i] = u[i]
      <4>1. Len(s) = Len(u) BY <2>1, <3>1, <3>2
      <4>2. ASSUME NEW i \in 1..Len(s) PROVE s[i] = u[i]
        <5>1. s[i] = all[i + 1] /\ i + 1 \in 1..(Len(seen) + Len(c))
          BY <2>1, <3>2
        <5>2. CASE i <= Len(t)
          <6>1. u[i] = t[i] /\ t[i] = seen[i + 1] /\ all[i + 1] = seen[i + 1]
            BY <2>1, <3>1, <3>2, <5>1, <5>2
          <6> QED BY <5>1, <6>1
        <5>3. CASE ~ (i <= Len(t))
          <6>1. u[i] = c[i - Len(t)] BY <2>1, <3>1, <3>2, <5>1, <5>3
          <6>2. all[i + 1] = c[(i + 1) - Len(seen)]
            BY <2>1, <3>2, <5>1, <5>3
          <6>3. (i + 1) - Len(seen) = i - Len(t) BY <2>1, <3>2
          <6> QED BY <5>1, <6>1, <6>2, <6>3
        <5> QED BY <5>2, <5>3
      <4> QED BY <4>1, <4>2
    <3>4. s = u BY <3>1, <3>2, <3>3, SeqEqual
    <3> QED BY <3>4 DEF s, u, t
  <2>5. Body(seen) = IF Head(seen) = "BOM" THEN Tail(seen) ELSE seen
    BY <1>3, Zenon DEF Body, Dropping
  <2>6. Body(all) = IF Head(all) = "BOM" THEN Tail(all) ELSE all
    BY <2>2, Zenon DEF Body, Dropping
  <2>7. marked = c /\ Head(all) = Head(seen) BY <1>3, <2>3
  <2>8. Body(all) = Body(seen) \o marked
    <3>1. CASE Head(seen) = "BOM"
      <4>1. Body(all) = Tail(all) /\ Body(seen) = Tail(seen)
        BY <2>5, <2>6, <2>7, <3>1
      <4> QED BY <2>4, <2>7, <4>1
    <3>2. CASE Head(seen) # "BOM"
      <4>1. Body(all) = all /\ Body(seen) = seen BY <2>5, <2>6, <2>7, <3>2
      <4> QED BY <2>7, <4>1 DEF all
    <3> QED BY <3>1, <3>2
  <2> QED BY <1>1, <2>8 DEF all
<1> QED BY <1>2, <1>3

(* The text of a push goes on where the buffer ends, after a LF that       *)
(* belongs to the CR before it.                                            *)
LEMMA BufferGoesOn ==
  ASSUME NEW body \in Text, NEW marked \in Text, NEW p \in Parsers,
         marked # <<>> \/ body = <<>>,
         p.pendingCR <=> body # <<>> /\ body[Len(body)] = "CR",
         p.buffer = LineOf(body, Len(body) + 1),
         NEW more,
         more = IF p.pendingCR THEN Dropping(marked, "LF") ELSE marked
  PROVE  /\ p.buffer \o more \in Text /\ body \o marked \in Text
         /\ \E k : /\ PartOf(p.buffer \o more, body \o marked, k)
                   /\ Parsed(body \o marked)[k] = Parsed(body)[Len(body)]
<1> DEFINE N == Len(body)
           M == Len(marked)
           whole == body \o marked
           buffer == p.buffer
           doc == buffer \o more
           j == LineStart(body, N + 1)
<1>1. /\ N \in Nat /\ M \in Nat /\ (body = <<>> <=> N = 0)
      /\ (marked = <<>> <=> M = 0)
  BY LenProperties, EmptySeq DEF Text
<1>2. more \in Text BY DroppingText
<1>3. buffer \in Text BY ParserIs
<1>4. whole \in Text /\ doc \in Text
  BY <1>2, <1>3, ConcatProperties DEF Text
<1>5. /\ Len(whole) = N + M
      /\ \A i \in 1..(N + M) : whole[i] = IF i <= N THEN body[i] ELSE marked[i - N]
  BY ConcatProperties DEF Text
<1>6. /\ Len(doc) = Len(buffer) + Len(more)
      /\ Len(buffer) \in Nat /\ Len(more) \in Nat
      /\ \A i \in 1..(Len(buffer) + Len(more)) :
           doc[i] = IF i <= Len(buffer) THEN buffer[i] ELSE more[i - Len(buffer)]
  <2> HIDE DEF buffer
  <2>1. buffer \in Seq(Chars) /\ more \in Seq(Chars) BY <1>2, <1>3 DEF Text
  <2> QED BY <2>1, ConcatProperties, LenProperties
<1>7. StartsAt(body, N + 1, j) /\ j \in 1..(N + 1)
  <2>1. N + 1 \in Nat \ {0} BY <1>1
  <2>2. StartsAt(body, N + 1, j) BY <2>1, LineStarts
  <2> QED BY <2>2 DEF StartsAt
<1> HIDE DEF j
<1>8. /\ Len(buffer) = N + 1 - j
      /\ \A i \in 1..(N + 1 - j) : buffer[i] = body[(j - 1) + i]
  <2>1. buffer = SubSeq(body, j, N)
    <3>1. (N + 1) - 1 = N BY <1>1
    <3> QED BY <3>1 DEF LineOf, j
  <2>2. \A i \in j..N : body[i] \in Chars
    BY <1>1, <1>7, LenProperties DEF Text
  <2>3. j \in Int /\ N \in Int BY <1>1, <1>7
  <2> HIDE DEF N, buffer
  <2>4. /\ Len(buffer) = IF j <= N THEN N - j + 1 ELSE 0
        /\ \A i \in 1..(N - j + 1) : buffer[i] = body[j + i - 1]
    BY <2>1, <2>2, <2>3, SubSeqProperties
  <2>5. \A i \in 1..(N + 1 - j) : i \in 1..(N - j + 1) /\ j + i - 1 = (j - 1) + i
    BY <2>3
  <2> QED BY <1>1, <1>7, <2>3, <2>4, <2>5
<1>9. \A n \in 0..N : Parsed(whole)[n] = Parsed(body)[n]
  <2>1. \A i \in 1..N : whole[i] = body[i] BY <1>1, <1>5
  <2>2. Len(body) <= Len(whole) BY <1>1, <1>5
  <2> HIDE DEF whole
  <2> QED BY <1>4, <2>1, <2>2, ParsedAgrees
<1>10. Parsed(body)[N] = Parsed(body)[j - 1]
  BY <1>7, ParsedRests
<1> DEFINE drops == p.pendingCR /\ M > 0 /\ marked[1] = "LF"
<1> DEFINE lw == Len(whole)
           ld == Len(doc)
           lb == Len(buffer)
           lm == Len(more)
<1>s. /\ N \in Nat /\ M \in Nat /\ j \in 1..(N + 1)
      /\ lw = N + M /\ lb = N + 1 - j /\ lm \in Nat /\ ld = lb + lm
  <2>1. lw = N + M BY <1>5
  <2>2. lb = N + 1 - j BY <1>8
  <2>3. lm \in Nat /\ ld = lb + lm BY <1>6
  <2> HIDE DEF lw, ld, lb, lm
  <2> QED BY <1>1, <1>7, <2>1, <2>2, <2>3
<1> HIDE DEF N, M, whole, buffer, doc, lw, ld, lb, lm
<1>11. CASE drops
  <2>1. N > 0 /\ body[N] = "CR" /\ marked[1] = "LF" /\ M > 0
    BY <1>1, <1>11 DEF N
  <2>2. j = N + 1
    <3>1. CASE j \in 1..N
      <4>1. N \in j..(N + 1 - 1) BY <1>1, <3>1
      <4> QED BY <1>7, <2>1, <4>1 DEF StartsAt, LineEnds
    <3> QED BY <1>1, <1>7, <3>1
  <2>3. /\ Len(more) = M - 1
        /\ \A i \in 1..(M - 1) : more[i] = marked[i + 1]
    <3>1. marked # <<>> /\ Head(marked) = marked[1] BY <1>1, <2>1
    <3>2. more = Tail(marked)
      <4>1. more = Dropping(marked, "LF") BY <1>11
      <4> QED BY <2>1, <3>1, <4>1 DEF Dropping
    <3>3. /\ Len(Tail(marked)) = Len(marked) - 1
          /\ \A i \in 1..Len(Tail(marked)) : Tail(marked)[i] = marked[i + 1]
      BY <3>1, HeadTailProperties DEF Text
    <3> QED BY <3>2, <3>3 DEF M
  <2> DEFINE k == N + 1
  <2>4. whole[k] = "LF" /\ whole[N] = "CR"
    <3>1. k \in 1..(N + M) /\ N \in 1..(N + M) /\ k - N = 1 /\ ~ (k <= N)
      BY <1>1, <2>1
    <3> QED BY <1>5, <2>1, <3>1
  <2>5. PartOf(doc, whole, k)
    <3>1. Len(doc) = M - 1
      <4>1. lm = M - 1 BY <2>3 DEF lm
      <4>2. ld = M - 1 BY <1>s, <2>2, <4>1
      <4> QED BY <4>2 DEF ld
    <3>2. \A i \in 1..Len(doc) : whole[k + i] = doc[i]
      <4> SUFFICES ASSUME NEW i \in 1..Len(doc) PROVE whole[k + i] = doc[i]
        OBVIOUS
      <4>1. Len(buffer) = 0 /\ i - 0 = i /\ ~ (i <= 0)
        BY <1>1, <1>8, <2>2, <3>1
      <4>2. doc[i] = more[i] BY <1>6, <3>1, <4>1
      <4>3. more[i] = marked[i + 1] BY <2>3, <3>1
      <4>4. k + i \in 1..(N + M) /\ ~ (k + i <= N) /\ (k + i) - N = i + 1
        BY <1>1, <3>1
      <4>5. whole[k + i] = marked[i + 1] BY <1>5, <4>4
      <4> QED BY <4>2, <4>3, <4>5
    <3>3. k \in Nat /\ Len(whole) = k + Len(doc) BY <1>1, <1>5, <3>1
    <3> HIDE DEF k
    <3> QED BY <2>4, <3>2, <3>3 DEF PartOf, LineEnds
  <2>6. Parsed(whole)[k] = Parsed(body)[N]
    <3>1. k \in 1..Len(whole) /\ k > 1 /\ k - 1 = N BY <1>1, <1>5, <2>1
    <3>2. ~ EndsLine(whole, k)
      <4> HIDE DEF k
      <4> QED BY <2>4, <3>1 DEF EndsLine
    <3> HIDE DEF k
    <3>3. Parsed(whole)[k] = Parsed(whole)[k - 1] BY <1>4, <3>1, <3>2, ParsedIs
    <3>4. Parsed(whole)[N] = Parsed(body)[N] BY <1>1, <1>9
    <3> QED BY <3>1, <3>3, <3>4
  <2> HIDE DEF k
  <2> QED BY <1>4, <2>5, <2>6 DEF doc, whole, N, buffer
<1>12. CASE ~ drops
  <2>1. more = marked
    <3>1. CASE ~ p.pendingCR BY <3>1
    <3>2. CASE p.pendingCR
      <4>1. M = 0 \/ marked[1] # "LF" BY <1>1, <1>12, <3>2
      <4>2. more = Dropping(marked, "LF") BY <3>2
      <4>3. marked # <<>> => Head(marked) = marked[1] BY <1>1
      <4> QED BY <1>1, <4>1, <4>2, <4>3 DEF Dropping
    <3> QED BY <3>1, <3>2
  <2> DEFINE k == j - 1
  <2>2. k \in Nat /\ k \in 0..N /\ Len(whole) = k + Len(doc) /\ Len(more) = M
    <3>1. lm = M BY <2>1 DEF lm, M
    <3>2. k \in Nat /\ k \in 0..N /\ lw = k + ld BY <1>s, <3>1
    <3> HIDE DEF k
    <3> QED BY <3>1, <3>2 DEF lw, ld, lm
  <2>3. ASSUME NEW i \in 1..Len(doc) PROVE whole[k + i] = doc[i]
    <3>1. k + i \in 1..(N + M) /\ i \in 1..(Len(buffer) + Len(more))
      BY <1>1, <1>5, <1>6, <2>2
    <3>2. CASE i <= Len(buffer)
      <4>1. k + i <= N /\ i \in 1..(N + 1 - j) BY <1>1, <1>7, <1>8, <3>2
      <4>2. whole[k + i] = body[k + i] BY <1>5, <3>1, <4>1
      <4>3. doc[i] = buffer[i] BY <1>6, <3>1, <3>2
      <4> QED BY <1>8, <4>1, <4>2, <4>3
    <3>3. CASE ~ (i <= Len(buffer))
      <4>1. ~ (k + i <= N) /\ (k + i) - N = i - Len(buffer)
        BY <1>1, <1>7, <1>8, <3>3
      <4>2. whole[k + i] = marked[(k + i) - N] BY <1>5, <3>1, <4>1
      <4>3. doc[i] = more[i - Len(buffer)] BY <1>6, <3>1, <3>3
      <4> QED BY <2>1, <4>1, <4>2, <4>3
    <3> QED BY <3>2, <3>3
  <2>4. k # 0 => whole[k] = body[k] /\ body[k] \in LineEnds
    <3>1. k # 0 => k \in 1..(N + M) /\ k <= N /\ j # 1 BY <1>s, <2>2
    <3>2. j # 1 => body[j - 1] \in LineEnds BY <1>7 DEF StartsAt
    <3> QED BY <1>5, <3>1, <3>2
  <2>5. ASSUME k # 0, whole[k] = "CR"
        PROVE  Len(doc) > 0 /\ doc[1] # "LF"
    <3>1. CASE j \in 1..N
      <4>1. j \in j..((N + 1) - 1) BY <1>1, <3>1
      <4>2. body[j] \notin LineEnds
        <5>1. StartsAt(body, N + 1, j) BY <1>7
        <5>2. \A i \in j..((N + 1) - 1) : body[i] \notin LineEnds
          BY <5>1, Zenon DEF StartsAt
        <5> QED BY <4>1, <5>2
      <4>3. Len(doc) > 0 /\ 1 \in 1..Len(doc) /\ k + 1 = j
            /\ j \in 1..(N + M) /\ j <= N
        <5>1. ld > 0 /\ 1 \in 1..ld /\ k + 1 = j /\ j \in 1..(N + M) /\ j <= N
          BY <1>s, <3>1
        <5> QED BY <5>1 DEF ld
      <4>4. doc[1] = body[j] BY <1>5, <2>3, <4>3
      <4> QED BY <4>2, <4>3, <4>4 DEF LineEnds
    <3>2. CASE j \notin 1..N
      <4>1. j = N + 1 /\ k = N /\ Len(buffer) = 0 /\ N # 0
        BY <1>1, <1>7, <1>8, <2>5, <3>2
      <4>2. p.pendingCR /\ body # <<>>
        BY <1>1, <2>4, <2>5, <4>1 DEF N
      <4>3. M > 0 /\ marked[1] # "LF" BY <1>1, <1>12, <4>2
      <4>4. Len(doc) > 0 /\ doc[1] = more[1]
        <5>1. 1 \in 1..(Len(buffer) + Len(more)) /\ ~ (1 <= Len(buffer))
              /\ 1 - Len(buffer) = 1
          BY <1>1, <2>2, <4>1, <4>3
        <5> QED BY <1>6, <2>2, <4>1, <4>3, <5>1
      <4> QED BY <2>1, <4>3, <4>4
    <3> QED BY <3>1, <3>2
  <2>6. Parsed(whole)[k] = Parsed(body)[N] BY <1>9, <1>10, <2>2
  <2> HIDE DEF k
  <2>7. PartOf(doc, whole, k)
    <3>1. Len(doc) \in Nat BY <1>6
    <3> QED BY <2>2, <2>3, <2>4, <2>5, <3>1 DEF PartOf
  <2> QED BY <1>4, <2>6, <2>7 DEF doc, whole, N, buffer
<1> QED BY <1>11, <1>12

LEMMA ScanEnds ==
  ASSUME NEW doc \in Text, NEW whole \in Text, NEW k, PartOf(doc, whole, k),
         NEW done \in Seq(Given), NEW s,
         Follows(whole, k, doc, done, s, Len(doc))
  PROVE  /\ s.parser \in Parsers /\ s.parser.started
         /\ Ahead(Parsed(whole)[Len(whole)], s.parser, done)
         /\ s.parser.pendingCR <=> whole # <<>> /\ whole[Len(whole)] = "CR"
         /\ SubSeq(doc, s.start, Len(doc)) = LineOf(whole, Len(whole) + 1)
         /\ SubSeq(doc, s.start, Len(doc)) \in Text
<1> DEFINE N == Len(doc)
           W == Len(whole)
           j == s.start
<1>1. /\ N \in Nat /\ k \in Nat /\ W = k + N /\ (whole = <<>> <=> W = 0)
      /\ W \in Nat
  BY LenProperties, EmptySeq DEF Text, PartOf
<1>2. /\ s \in Scans /\ Ahead(Parsed(whole)[k + N], s.parser, done)
      /\ s.parser.pendingCR <=> N >= 1 /\ doc[N] = "CR"
      /\ s.parser.started /\ StartsAt(doc, N + 1, j)
  <2>1. ~ Skips(doc, N) BY DEF Skips
  <2> QED BY <2>1 DEF Follows
<1>3. whole # <<>> /\ whole[W] = "CR" <=> N >= 1 /\ doc[N] = "CR"
  <2>1. CASE N >= 1
    <3>1. N \in 1..Len(doc) /\ W # 0 BY <1>1, <2>1
    <3>2. whole[k + N] = doc[N] BY <3>1 DEF PartOf
    <3> QED BY <1>1, <2>1, <3>1, <3>2
  <2>2. CASE ~ (N >= 1)
    <3>1. N = 0 /\ W = k BY <1>1, <2>2
    <3>2. k # 0 => whole[k] # "CR" BY <3>1 DEF PartOf
    <3> QED BY <1>1, <2>2, <3>1, <3>2
  <2> QED BY <2>1, <2>2
<1>4. N + 1 \in 1..(Len(doc) + 1) /\ (N + 1) - 1 = N /\ k + (N + 1) = W + 1
      /\ k + N = W /\ (W + 1) - 1 = W
  BY <1>1
<1>5. /\ LineStart(whole, k + (N + 1)) = k + j
      /\ Cut(whole, k + j, k + ((N + 1) - 1)) = Cut(doc, j, (N + 1) - 1)
  <2> HIDE DEF N, j
  <2> QED BY <1>2, <1>4, StartsInWhole
<1>6. SubSeq(doc, j, N) = LineOf(whole, W + 1)
  BY <1>4, <1>5 DEF Cut, LineOf
<1>7. SubSeq(doc, j, N) \in Text
  <2>1. j \in Nat \ {0} /\ N \in 0..Len(doc) BY <1>1, <1>2 DEF Scans
  <2> HIDE DEF N, j
  <2> QED BY <2>1, LineIsText
<1>8. s.parser \in Parsers BY <1>2 DEF Scans
<1> HIDE DEF N, W, j
<1> QED BY <1>2, <1>3, <1>4, <1>6, <1>7, <1>8 DEF N, W, j

LEMMA PushLinks ==
  ASSUME NEW seen \in Text, NEW c \in Text, c # <<>>, NEW done \in Seq(Given),
         NEW p, Linked(p, seen, done)
  PROVE  /\ Push(p, c).out \in Seq(Given)
         /\ EventsOf(seen \o c) = done \o Push(p, c).out
         /\ Linked([Push(p, c) EXCEPT !.out = <<>>], seen \o c,
                   done \o Push(p, c).out)
<1> DEFINE marked == IF p.started THEN c ELSE Dropping(c, "BOM")
           more == IF p.pendingCR THEN Dropping(marked, "LF") ELSE marked
           body == Body(seen)
           whole == body \o marked
           doc == p.buffer \o more
           fresh == [p EXCEPT !.started = TRUE, !.pendingCR = FALSE]
           e == ScanUpTo(fresh, doc)[Len(doc)]
           rest == SubSeq(doc, e.start, Len(doc))
           q == Push(p, c)
<1>1. /\ p \in Parsers /\ p.out = <<>>
      /\ p.started <=> seen # <<>>
      /\ Ahead(Parsed(body)[Len(body)], p, done)
      /\ p.pendingCR <=> body # <<>> /\ body[Len(body)] = "CR"
      /\ p.buffer = LineOf(body, Len(body) + 1)
  BY DEF Linked
<1>2. q = [e.parser EXCEPT !.buffer = rest] BY Zenon DEF Push, Scan
<1>3. marked \in Text /\ body \in Text /\ Body(seen \o c) = whole
  <2>1. marked = IF seen # <<>> THEN c ELSE Dropping(c, "BOM") BY <1>1
  <2> HIDE DEF marked
  <2> QED BY <2>1, BodyGrows
<1>4. marked # <<>> \/ body = <<>>
  <2>1. CASE seen = <<>> BY <2>1 DEF Body, Dropping
  <2>2. CASE seen # <<>> BY <1>1, <2>2
  <2> QED BY <2>1, <2>2
<1>5. more = IF p.pendingCR THEN Dropping(marked, "LF") ELSE marked
  OBVIOUS
<1> HIDE DEF marked, more, body, q
<1>6. /\ doc \in Text /\ whole \in Text
      /\ \E k : /\ PartOf(doc, whole, k)
                /\ Parsed(whole)[k] = Parsed(body)[Len(body)]
  BY <1>1, <1>3, <1>4, <1>5, BufferGoesOn
<1>7. PICK k : PartOf(doc, whole, k) /\ Parsed(whole)[k] = Parsed(body)[Len(body)]
  BY <1>6
<1>8. /\ fresh \in Parsers /\ fresh.started /\ ~ fresh.pendingCR
      /\ Ahead(Parsed(whole)[k], fresh, done)
  <2>1. /\ fresh \in Parsers /\ fresh.started /\ ~ fresh.pendingCR
        /\ fresh.event = p.event /\ fresh.lastId = p.lastId
        /\ fresh.retry = p.retry /\ fresh.out = p.out
    <3> HIDE DEF Text, Given
    <3> QED BY <1>1 DEF Parsers
  <2> HIDE DEF fresh, whole
  <2> QED BY <1>1, <1>7, <2>1 DEF Ahead
<1> HIDE DEF whole, doc, fresh
<1>9. Follows(whole, k, doc, done, e, Len(doc))
  BY <1>6, <1>7, <1>8, ScanFollows
<1> HIDE DEF e
<1>10. /\ e.parser \in Parsers /\ e.parser.started
       /\ Ahead(Parsed(whole)[Len(whole)], e.parser, done)
       /\ e.parser.pendingCR <=> whole # <<>> /\ whole[Len(whole)] = "CR"
       /\ rest = LineOf(whole, Len(whole) + 1) /\ rest \in Text
  BY <1>6, <1>7, <1>9, ScanEnds
<1> HIDE DEF rest
<1> DEFINE r == [q EXCEPT !.out = <<>>]
<1>11. /\ q.out = e.parser.out /\ q.out \in Seq(Given)
       /\ r \in Parsers /\ r.out = <<>> /\ r.buffer = rest
       /\ r.started = e.parser.started /\ r.pendingCR = e.parser.pendingCR
       /\ r.event = e.parser.event /\ r.lastId = e.parser.lastId
       /\ r.retry = e.parser.retry
  <2> DEFINE G == Seq(Given)
             none == <<>>
  <2>1. none \in G OBVIOUS
  <2>2. Parsers = [buffer : Text, started : BOOLEAN, pendingCR : BOOLEAN,
                   event : [data : Seq(Text), type : Text], lastId : Text,
                   retry : Text, out : G]
    BY DEF Parsers
  <2> HIDE DEF G
  <2>3. /\ q.out = e.parser.out /\ q \in Parsers /\ q.out \in G
        /\ q.buffer = rest
        /\ q.started = e.parser.started /\ q.pendingCR = e.parser.pendingCR
        /\ q.event = e.parser.event /\ q.lastId = e.parser.lastId
        /\ q.retry = e.parser.retry
    <3> HIDE DEF Text
    <3> QED BY <1>2, <1>10, <2>2
  <2>4. /\ r \in Parsers /\ r.out = none /\ r.buffer = q.buffer
        /\ r.started = q.started /\ r.pendingCR = q.pendingCR
        /\ r.event = q.event /\ r.lastId = q.lastId /\ r.retry = q.retry
    <3> DEFINE x == [q EXCEPT !.out = none]
    <3>1. r = x OBVIOUS
    <3> HIDE DEF none, r
    <3> QED BY <2>1, <2>2, <2>3, <3>1
  <2> HIDE DEF r
  <2> QED BY <2>3, <2>4 DEF G
<1> DEFINE last == Parsed(whole)[Len(whole)]
<1>12. /\ last.event = e.parser.event /\ last.lastId = e.parser.lastId
       /\ last.retry = e.parser.retry /\ last.out = done \o q.out
  BY <1>10, <1>11 DEF Ahead
<1>13. EventsOf(seen \o c) = done \o q.out
  BY <1>3, <1>12 DEF EventsOf
<1>14. seen \o c # <<>>
  BY ConcatEqualIffEmpty DEF Text
<1> DEFINE all == seen \o c
           out == done \o q.out
<1>15. out \o <<>> = out
  <2>1. out \in Seq(Given) BY <1>11, ConcatProperties
  <2> HIDE DEF out
  <2> QED BY <2>1, ConcatEmptySeq
<1>16. Ahead(last, r, out)
  <2> HIDE DEF r, last, out
  <2>1. last.out = out BY <1>12 DEF out
  <2> QED BY <1>11, <1>12, <1>15, <2>1 DEF Ahead
<1>17. Linked(r, all, out)
  <2>1. Body(all) = whole /\ all # <<>> BY <1>3, <1>14
  <2> HIDE DEF r, all, out
  <2> QED BY <1>10, <1>11, <1>16, <2>1 DEF Linked
<1> QED BY <1>11, <1>13, <1>17 DEF q

(* What of the stream was read is where the parser is, until it is at its  *)
(* end.                                                                    *)
StreamInv ==
  /\ stream \in Text /\ received \in Text /\ emitted \in Seq(Given)
  /\ EventsInOrder
  /\ stream # <<>> => Linked(parser, received, emitted)

LEMMA StreamStarts == StreamInit => StreamInv
<1> SUFFICES ASSUME StreamInit PROVE StreamInv
  OBVIOUS
<1>1. /\ stream \in Streams /\ received = <<>> /\ parser = NewParser
      /\ emitted = <<>>
  BY DEF StreamInit
<1>2. stream \in Text
  <2>1. stream \in Seq(STRING) BY <1>1, StreamsAreTexts
  <2>2. /\ Len(stream) \in Nat /\ stream \in [1..Len(stream) -> STRING]
    BY <2>1, LenProperties
  <2>3. stream \in [1..Len(stream) -> Chars] BY <2>2 DEF Chars
  <2> QED BY <2>2, <2>3 DEF Text
<1>3. <<>> \in Text /\ <<>> \in Seq(Given) /\ Len(<<>>) = 0 BY DEF Text
<1>4. Body(<<>>) = <<>> BY DEF Body, Dropping
<1>5. Parsed(<<>>)[0] = NewParser BY <1>3, ParsedIs
<1>6. EventsOf(<<>>) = <<>>
  BY <1>3, <1>4, <1>5 DEF EventsOf, NewParser
<1>7. Linked(NewParser, <<>>, <<>>)
  <2>1. /\ NewParser.out = <<>> /\ ~ NewParser.started /\ ~ NewParser.pendingCR
        /\ NewParser.buffer = <<>>
    BY DEF NewParser
  <2>2. Ahead(NewParser, NewParser, <<>>)
    <3>1. <<>> \o <<>> = <<>> BY <1>3, ConcatEmptySeq
    <3> QED BY <2>1, <3>1 DEF Ahead
  <2>3. LineOf(<<>>, 0 + 1) = <<>>
    <3>1. StartsAt(<<>>, 1, 1) BY DEF StartsAt
    <3>2. LineStart(<<>>, 1) = 1 BY <3>1, LineStarts
    <3>3. SubSeq(<<>>, 1, 0) = <<>> BY SubSeqEmpty
    <3> QED BY <3>2, <3>3 DEF LineOf
  <2> QED BY <1>3, <1>4, <1>5, <2>1, <2>2, <2>3, NewParserTyped DEF Linked
<1> QED BY <1>1, <1>2, <1>3, <1>6, <1>7 DEF StreamInv, EventsInOrder

LEMMA StreamGoesOn ==
  ASSUME StreamInv, [StreamNext]_streamVars
  PROVE  StreamInv'
<1>1. CASE ReadChunk
  <2>1. PICK n \in 1..LastChunk :
          /\ n <= Len(stream)
          /\ received' = received \o SubSeq(stream, 1, n)
          /\ stream' = SubSeq(stream, n + 1, Len(stream))
          /\ parser' = [Push(parser, SubSeq(stream, 1, n)) EXCEPT !.out = <<>>]
          /\ emitted' = emitted \o Push(parser, SubSeq(stream, 1, n)).out
    BY <1>1 DEF ReadChunk
  <2> DEFINE c == SubSeq(stream, 1, n)
             rest == SubSeq(stream, n + 1, Len(stream))
             q == Push(parser, c)
  <2>2. /\ stream \in Text /\ received \in Text /\ emitted \in Seq(Given)
        /\ Len(stream) \in Nat
    BY LenProperties DEF StreamInv, Text
  <2>3. c \in Text /\ c # <<>>
    <3>1. n \in 0..Len(stream) /\ n \in Nat /\ n >= 1 BY <2>1, <2>2
    <3>2. c \in Text BY <2>2, <3>1, LineIsText
    <3>3. \A i \in 1..n : stream[i] \in Chars
      BY <2>2, <3>1, LenProperties DEF Text
    <3>4. Len(c) = n - 1 + 1
      <4>1. 1 \in Int /\ n \in Int /\ 1 <= n BY <3>1
      <4> QED BY <3>3, <4>1, SubSeqProperties
    <3> HIDE DEF c
    <3> QED BY <3>1, <3>2, <3>4
  <2>4. rest \in Text
    <3>1. n + 1 \in Nat \ {0} /\ Len(stream) \in 0..Len(stream) BY <2>1, <2>2
    <3> QED BY <2>2, <3>1, LineIsText
  <2>5. Linked(parser, received, emitted)
    <3>1. stream # <<>>
      <4>1. Len(stream) # 0 BY <2>1, <2>2
      <4> QED BY <4>1
    <3> QED BY <3>1 DEF StreamInv
  <2>6. /\ received' = received \o c /\ stream' = rest
        /\ parser' = [q EXCEPT !.out = <<>>] /\ emitted' = emitted \o q.out
    BY <2>1
  <2> HIDE DEF c, rest
  <2>7. /\ q.out \in Seq(Given)
        /\ EventsOf(received \o c) = emitted \o q.out
        /\ Linked([q EXCEPT !.out = <<>>], received \o c, emitted \o q.out)
    BY <2>2, <2>3, <2>5, PushLinks
  <2> HIDE DEF q
  <2>8. received' \in Text /\ emitted' \in Seq(Given) /\ stream' \in Text
    BY <2>2, <2>3, <2>4, <2>6, <2>7, ConcatProperties DEF Text
  <2>9. EventsInOrder' BY <2>6, <2>7 DEF EventsInOrder
  <2>10. Linked(parser, received, emitted)'
    <3> DEFINE x == [q EXCEPT !.out = <<>>]
               y == received \o c
               z == emitted \o q.out
    <3>1. Linked(x, y, z) /\ parser' = x /\ received' = y /\ emitted' = z
      BY <2>6, <2>7
    <3> HIDE DEF x, y, z
    <3> QED BY <3>1 DEF Linked
  <2> QED BY <2>8, <2>9, <2>10 DEF StreamInv
<1>2. CASE StreamEnds
  <2>1. <<>> \in Text BY DEF Text
  <2> QED BY <1>2, <2>1 DEF StreamEnds, StreamInv, EventsInOrder
<1>3. CASE UNCHANGED streamVars
  BY <1>3 DEF streamVars, StreamInv, EventsInOrder
<1> QED BY <1>1, <1>2, <1>3 DEF StreamNext

(* However a stream is split into chunks, also within a line end or after  *)
(* its first character, the events of what was read of it are out, in      *)
(* their order and no other (SSEParser of sse.ts).                         *)
THEOREM PageReadsStreams == PageSpec => []StreamsSound
<1> DEFINE Inv == part = "stream" => StreamInv
<1>1. PageInit => Inv BY StreamStarts DEF PageInit
<1>2. Inv /\ [PageNext]_pageVars => Inv' BY PartStays, StreamGoesOn
<1>3. Inv => StreamsSound BY DEF StreamsSound, StreamInv
<1> HIDE DEF Inv
<1> QED BY <1>1, <1>2, <1>3, PTL DEF PageSpec
-----------------------------------------------------------------------------
(* Whatever order cards, catalogs and other answers come in, no two agents *)
(* of the list are the same card, the selected one is in the list, and the *)
(* list and the card tell the same of an agent (agentsReducer of agents.ts *)
(* and resolveAgent of App.tsx), unless the shared catalog may be left out. *)
THEOREM PageListSound == ASSUME ~ MayLackCatalog PROVE PageSpec => []ListSound
<1> DEFINE Inv == part = "list" => ListInv
<1>1. PageInit => Inv BY ListStarts DEF PageInit
<1>2. Inv /\ [PageNext]_pageVars => Inv' BY PartStays, ListGoesOn
<1>3. Inv => ListSound BY ListIsSound DEF ListSound
<1> HIDE DEF Inv
<1> QED BY <1>1, <1>2, <1>3, PTL DEF PageSpec

(* An interface added by hand that is in use stays in use, whatever the    *)
(* cards that come offer, also when two agents turn out to be the same     *)
(* card (resolved of agents.ts).                                           *)
THEOREM PageKeepsCustom == ASSUME ~ MayLackCatalog PROVE PageSpec => CustomKept
<1> DEFINE Inv == part = "list" => ListInv
<1>1. PageInit => Inv BY ListStarts DEF PageInit
<1>2. Inv /\ [PageNext]_pageVars => Inv' BY PartStays, ListGoesOn
<1>3. Inv /\ [PageNext]_pageVars => [part = "list" => KeepsCustom]_listVars
  BY PartStays, ListKeepsCustom
<1> HIDE DEF Inv
<1> QED BY <1>1, <1>2, <1>3, PTL DEF PageSpec, CustomKept
=============================================================================
