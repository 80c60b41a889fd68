------------------------------ MODULE Webhooks ------------------------------
(***************************************************************************)
(* The webhooks of a local inspector (src/internal/server/hooks.go): the   *)
(* receivers it creates for messages and tasks, what it believes of the    *)
(* agent's push notification configs, and the configs the agent has.       *)
(*                                                                         *)
(* A call is an API request on a connection: a message (messages.go), an   *)
(* operation on a task (tasks.go) or a new connection (connections.go).    *)
(* Its steps interleave with other calls and with the notifications that   *)
(* the agent sends.  The agent is external: it answers a call or rejects   *)
(* it, then taking nothing from it, and it may never get to answer.        *)
(***************************************************************************)
EXTENDS Thread, Integers, FiniteSets

CONSTANTS Calls,       \* goroutines of API requests
          Notifiers,   \* goroutines of handleHook
          Hooks,       \* webhooks, whose IDs are random
          LastCall,    \* bound: calls of a behaviour but new connections
          MayBreak,    \* whether an answer can be lost, the connection broken
          Rejection,   \* answer: the agent took nothing (api.go, rejected)
          Done         \* answer: what was to be deleted is

VARIABLES
  pooled,     \* the connections in the session's pool
  known,      \* the connections there ever were
  hookConn,   \* webhook.connectionID, or None for no such webhook
  hookTask,   \* webhook.taskID
  stale,      \* the webhooks with stale set
  unused,     \* webhooks nobody created yet
  made,       \* how many calls were made, new connections aside
  pc,         \* where each call is
  op,         \* what each call is about
  answer,     \* what the agent answered and the call did not read yet
  first,      \* the calls that got no result yet
  cut,        \* the calls whose context ended
  note,       \* the notification each notifier handles
  taskContext,\* agent: the context of each task
  taskState,  \* agent: its state
  configs,    \* agent: <<task, webhook>> of each config
  unsure      \* history: webhooks of calls whose outcome is unknown

hookVars == <<hookConn, hookTask, stale, unused>>
callVars == <<made, pc, op, answer, first, cut>>
agentVars == <<taskContext, taskState, configs>>
vars == <<threadVars, pooled, known, hookVars, callVars, note, agentVars,
          unsure>>

Kinds == {"send", "stream", "get", "create", "delete", "connect"}
Modes == {"continue", "newTask", "newContext", "raw"}
Ops == [kind : Kinds, conn : Conns, task : Tasks \cup {None},
        context : Contexts \cup {None}, mode : Modes,
        hook : Hooks \cup {None}, existing : BOOLEAN, old : Conns \cup {None}]

ASSUME LastCallIsCount == LastCall \in Nat
ASSUME NoneIsNothing ==
  None \notin Conns \cup Tasks \cup Contexts \cup Hooks \cup States \cup Refs \cup Ops
ASSUME AnswersDiffer ==
  /\ Rejection \notin Refs \cup {None, Done}
  /\ Done \notin Refs \cup {None}

WebhooksTypeOK ==
  /\ ThreadTypeOK
  /\ pooled \subseteq known /\ known \subseteq Conns
  /\ hookConn \in [Hooks -> Conns \cup {None}]
  /\ hookTask \in [Hooks -> Tasks \cup {None}]
  /\ stale \subseteq Hooks /\ unused \subseteq Hooks /\ unsure \subseteq Hooks
  /\ made \in 0..LastCall
  /\ pc \in [Calls -> {"idle", "choose", "create", "reset", "call", "record",
                       "move"}]
  /\ op \in [Calls -> Ops \cup {None}]
  /\ answer \in [Calls -> Refs \cup {None, Rejection, Done}]
  /\ first \subseteq Calls /\ cut \subseteq Calls
  /\ note \in [Notifiers -> [conn : Conns, ref : Refs] \cup {None}]
  /\ taskContext \in [Tasks -> Contexts \cup {None}]
  /\ taskState \in [Tasks -> States]
  /\ configs \subseteq Tasks \X Hooks

WebhooksInit ==
  /\ ThreadInit
  /\ pooled = {} /\ known = {}
  /\ hookConn = [w \in Hooks |-> None]
  /\ hookTask = [w \in Hooks |-> None]
  /\ stale = {} /\ unused = Hooks /\ unsure = {}
  /\ made = 0
  /\ pc = [c \in Calls |-> "idle"]
  /\ op = [c \in Calls |-> None]
  /\ answer = [c \in Calls |-> None]
  /\ first = {} /\ cut = {}
  /\ note = [n \in Notifiers |-> None]
  /\ taskContext = [t \in Tasks |-> None]
  /\ taskState = [t \in Tasks |-> "moving"]
  /\ configs = {}

Goto(c, label) == pc' = [pc EXCEPT ![c] = label]

(* The call is over, whatever it was about.                                *)
Ends(c) ==
  /\ Goto(c, "idle")
  /\ op' = [op EXCEPT ![c] = None]
  /\ answer' = [answer EXCEPT ![c] = None]
  /\ first' = first \ {c} /\ cut' = cut \ {c}

(* New connections are bounded by Conns.                                   *)
Begins(c, label, o) ==
  /\ pc[c] = "idle"
  /\ IF o.kind = "connect" THEN UNCHANGED made
                           ELSE made < LastCall /\ made' = made + 1
  /\ Goto(c, label)
  /\ op' = [op EXCEPT ![c] = o]
  /\ first' = first \cup {c}
  /\ UNCHANGED <<answer, cut>>

-----------------------------------------------------------------------------
(* buildSend: what the message continues, read from the thread.            *)
Send(c, kind, k, mode, push) ==
  LET context == IF mode \in {"continue", "newTask"} THEN contextID[k] ELSE None
      task == IF mode = "continue" THEN openTask[k] ELSE None
  IN /\ k \in pooled
     /\ Begins(c, IF push THEN "choose" ELSE "reset",
               [kind |-> kind, conn |-> k, task |-> task, context |-> context,
                mode |-> mode, hook |-> None, existing |-> FALSE, old |-> None])
     /\ UNCHANGED <<threadVars, pooled, known, hookVars, note, agentVars,
                    unsure>>

(* The webhooks that forTask takes the task's notifications for granted    *)
(* of.                                                                     *)
Usable(k, t) ==
  {w \in Hooks : /\ t # None
                 /\ hookConn[w] = k /\ hookTask[w] = t /\ w \notin stale}

ChooseExisting(c) ==
  /\ pc[c] = "choose"
  /\ \E w \in Usable(op[c].conn, op[c].task) :
       op' = [op EXCEPT ![c].hook = w, ![c].existing = TRUE]
  /\ Goto(c, "reset")
  /\ UNCHANGED <<threadVars, pooled, known, hookVars, made, answer, first,
                 cut, note, agentVars, unsure>>

ChooseNew(c) ==
  /\ pc[c] = "choose"
  /\ Usable(op[c].conn, op[c].task) = {}
  /\ Goto(c, "create")
  /\ UNCHANGED <<threadVars, pooled, known, hookVars, made, op, answer,
                 first, cut, note, agentVars, unsure>>

(* create: for a task (CreatePushConfig), or for none yet (a message).     *)
CreateHook(c) ==
  /\ pc[c] = "create"
  /\ \E w \in unused :
       /\ unused' = unused \ {w}
       /\ hookConn' = [hookConn EXCEPT ![w] = op[c].conn]
       /\ hookTask' = [hookTask EXCEPT
                         ![w] = IF op[c].kind = "create" THEN op[c].task
                                                         ELSE None]
       /\ op' = [op EXCEPT ![c].hook = w]
  /\ Goto(c, IF op[c].kind = "create" THEN "call" ELSE "reset")
  /\ UNCHANGED <<threadVars, pooled, known, stale, made, answer, first, cut,
                 note, agentVars, unsure>>

(* prepareSend: a new conversation or task forgets the old one.            *)
ResetThread(c) ==
  /\ pc[c] = "reset"
  /\ IF op[c].mode \in {"newTask", "newContext"}
     THEN Reset(op[c].conn, op[c].mode = "newContext")
     ELSE UNCHANGED threadVars
  /\ op' = [op EXCEPT ![c].mode = "raw"]   \* needed no more
  /\ Goto(c, "call")
  /\ UNCHANGED <<pooled, known, hookVars, made, answer, first, cut, note,
                 agentVars, unsure>>

(* GetTask, CancelTask and SubscribeToTask; CreatePushConfig and           *)
(* DeletePushConfig, of one of the agent's configs.                        *)
TaskOperation(c, kind, k, t, w) ==
  /\ k \in pooled
  /\ taskContext[t] # None
  /\ kind = "delete" => <<t, w>> \in configs
  /\ Begins(c, IF kind = "create" THEN "create" ELSE "call",
            [kind |-> kind, conn |-> k, task |-> t, context |-> None,
             mode |-> "raw", hook |-> IF kind = "delete" THEN w ELSE None,
             existing |-> FALSE, old |-> None])
  /\ UNCHANGED <<threadVars, pooled, known, hookVars, note, agentVars,
                 unsure>>

-----------------------------------------------------------------------------
(* The agent.                                                              *)
Ref(t) == [task |-> t, context |-> taskContext[t], state |-> taskState[t]]
Silent == [task |-> None, context |-> None, state |-> None]

Awaiting(c) == pc[c] = "call" /\ answer[c] = None

Answers(c, a) == answer' = [answer EXCEPT ![c] = a]

(* The agent has the config that a message or CreatePushConfig came with.  *)
Takes(c, t) ==
  configs' = IF op[c].hook # None /\ ~op[c].existing
             THEN configs \cup {<<t, op[c].hook>>} ELSE configs

(* A message continues its task, or starts one in its context or a new one.*)
AgentTakesMessage(c, t, x, s) ==
  /\ Awaiting(c) /\ c \in first /\ op[c].kind \in {"send", "stream"}
  /\ IF op[c].task # None
     THEN t = op[c].task /\ x = taskContext[t]
     ELSE taskContext[t] = None /\ (op[c].context # None => x = op[c].context)
  /\ taskContext' = [taskContext EXCEPT ![t] = x]
  /\ taskState' = [taskState EXCEPT ![t] = s]
  /\ Takes(c, t)
  /\ Answers(c, [task |-> t, context |-> x, state |-> s])
  /\ UNCHANGED <<threadVars, pooled, known, hookVars, made, pc, op, first,
                 cut, note, unsure>>

(* The agent answers a message with a message, and there is no task.       *)
AgentReplies(c, x) ==
  /\ Awaiting(c) /\ c \in first /\ op[c].kind \in {"send", "stream"}
  /\ op[c].task = None
  /\ op[c].context # None => x = op[c].context
  /\ Answers(c, [task |-> None, context |-> x, state |-> None])
  /\ UNCHANGED <<threadVars, pooled, known, hookVars, made, pc, op, first,
                 cut, note, agentVars, unsure>>

AgentDoes(c) ==
  /\ Awaiting(c) /\ op[c].kind \in {"get", "create", "delete"}
  /\ \/ op[c].kind = "get" /\ Answers(c, Ref(op[c].task)) /\ UNCHANGED configs
     \/ op[c].kind = "create" /\ Answers(c, Silent) /\ Takes(c, op[c].task)
     \/ /\ op[c].kind = "delete" /\ Answers(c, Done)
        /\ configs' = configs \ {<<op[c].task, op[c].hook>>}
  /\ UNCHANGED <<threadVars, pooled, known, hookVars, made, pc, op, first,
                 cut, note, taskContext, taskState, unsure>>

(* The agent rejects the call, or never gets it.                           *)
AgentRejects(c) ==
  /\ Awaiting(c) /\ c \in first
  /\ Answers(c, Rejection)
  /\ UNCHANGED <<threadVars, pooled, known, hookVars, made, pc, op, first,
                 cut, note, agentVars, unsure>>

(* The call ends before the first byte of the answer, cut or with the      *)
(* connection broken.  It sees a response without a status, which is       *)
(* rejected to it (httpPayload), and the agent may have done its part.     *)
AnswerLost(c) ==
  /\ MayBreak \/ c \in cut
  /\ pc[c] = "call" /\ answer[c] \notin {None, Rejection} /\ c \in first
  /\ Answers(c, Rejection)
  /\ unsure' = IF op[c].existing THEN unsure
                                 ELSE unsure \cup ({op[c].hook} \ {None})
  /\ UNCHANGED <<threadVars, pooled, known, hookVars, made, pc, op, first,
                 cut, note, agentVars>>

(* An update of the task on the stream that its message opened.            *)
AgentStreams(c) ==
  /\ Awaiting(c) /\ c \notin first /\ op[c].kind = "stream"
  /\ op[c].task # None
  /\ Answers(c, Ref(op[c].task))
  /\ UNCHANGED <<threadVars, pooled, known, hookVars, made, pc, op, first,
                 cut, note, agentVars, unsure>>

TaskMoves(t, s) ==
  /\ taskContext[t] # None /\ taskState[t] # s
  /\ taskState' = [taskState EXCEPT ![t] = s]
  /\ UNCHANGED <<threadVars, pooled, known, hookVars, callVars, note,
                 taskContext, configs, unsure>>

-----------------------------------------------------------------------------
(* settle, of a result with a payload.                                     *)
Settle(c) ==
  /\ pc[c] = "call" /\ answer[c] \in Refs
  /\ Observe(op[c].conn, answer[c], op[c].kind \in {"send", "stream"})
  /\ Goto(c, "record")
  /\ UNCHANGED <<pooled, known, hookVars, made, op, answer, first, cut,
                 note, agentVars, unsure>>

(* Mutant: bind gives the webhook no task.                                 *)
BoundTask(c, w) == hookTask[w]

(* bind: the webhook's task, once the answer names one.                    *)
Bound(c, w) ==
  IF w = op[c].hook /\ ~op[c].existing /\ hookTask[w] = None
  THEN answer[c].task ELSE hookTask[w]

(* After bind, a stream goes on to its next event.                         *)
Record(c) ==
  /\ pc[c] = "record"
  /\ hookTask' = [w \in Hooks |->
                    IF op[c].kind \in {"send", "stream"} THEN Bound(c, w)
                                                         ELSE hookTask[w]]
  /\ IF op[c].kind = "stream"
     THEN /\ Goto(c, "call")
          /\ op' = [op EXCEPT ![c].task = answer[c].task]
          /\ answer' = [answer EXCEPT ![c] = None]
          /\ first' = first \ {c}
          /\ UNCHANGED cut
     ELSE Ends(c)
  /\ UNCHANGED <<threadVars, pooled, known, hookConn, stale, unused, made,
                 note, agentVars, unsure>>

StreamEnds(c) ==
  /\ pc[c] = "call" /\ c \notin first
  /\ answer[c] = None \/ c \in cut
  /\ Ends(c)
  /\ UNCHANGED <<threadVars, pooled, known, hookVars, made, note, agentVars,
                 unsure>>

(* The webhook of a call that its creator does not know the fate of.       *)
Created(c) == IF op[c].kind # "delete" /\ ~op[c].existing THEN {op[c].hook} \ {None}
                                                          ELSE {}

(* Mutant: drop does not ask whether the call was cut short.               *)
DroppedAnyway(c) == Created(c)

(* drop: the webhook of a rejected call, unless the call was cut short.    *)
Dropped(c) == IF c \in cut THEN {} ELSE Created(c)

Rejected(c) ==
  /\ pc[c] = "call" /\ answer[c] = Rejection
  /\ hookConn' = [w \in Hooks |-> IF w \in Dropped(c) THEN None ELSE hookConn[w]]
  /\ hookTask' = [w \in Hooks |-> IF w \in Dropped(c) THEN None ELSE hookTask[w]]
  /\ stale' = stale \ Dropped(c)
  /\ unsure' = unsure \cup (Created(c) \ Dropped(c))
  /\ Ends(c)
  /\ UNCHANGED <<threadVars, pooled, known, unused, made, note, agentVars>>

(* Mutant: configDeleted marks no webhook.                                 *)
MarkedNone(k, t) == {}

Marked(k, t) == {w \in Hooks : hookConn[w] = k /\ hookTask[w] = t}

(* configDeleted.  It does not find a webhook that moved to another        *)
(* connection meanwhile, or that has no task yet.                          *)
ConfigDeleted(c) ==
  LET o == op[c]
  IN /\ pc[c] = "call" /\ answer[c] = Done
     /\ stale' = stale \cup Marked(o.conn, o.task)
     /\ unsure' = IF hookConn[o.hook] # o.conn \/ hookTask[o.hook] = None
                  THEN unsure \cup {o.hook} ELSE unsure
     /\ Ends(c)
     /\ UNCHANGED <<threadVars, pooled, known, hookConn, hookTask, unused,
                    made, note, agentVars>>

(* The user stops the call, or it takes too long: its context ends.        *)
Cut(c) ==
  /\ pc[c] \notin {"idle", "move"} /\ op[c].kind # "connect" /\ c \notin cut
  /\ cut' = cut \cup {c}
  /\ UNCHANGED <<threadVars, pooled, known, hookVars, made, pc, op, answer,
                 first, note, agentVars, unsure>>

-----------------------------------------------------------------------------
(* handleCreateConnection: the new connection continues what the UI knows  *)
(* of the one it replaces, whose webhooks then move.                       *)
Connect(c, k, old) ==
  /\ k \notin known /\ old \in known \cup {None}
  /\ pooled \subseteq {old}   \* one connection to the agent at a time
  /\ Begins(c, "move",
            [kind |-> "connect", conn |-> k, task |-> None, context |-> None,
             mode |-> "raw", hook |-> None, existing |-> FALSE, old |-> old])
  /\ pooled' = pooled \cup {k} /\ known' = known \cup {k}
  /\ IF old = None THEN UNCHANGED threadVars
                   ELSE Continue(k, contextID[old], openTask[old])
  /\ UNCHANGED <<hookVars, note, agentVars, unsure>>

Move(c) ==
  /\ pc[c] = "move"
  /\ hookConn' = [w \in Hooks |->
                    IF op[c].old # None /\ hookConn[w] = op[c].old
                    THEN op[c].conn ELSE hookConn[w]]
  /\ Ends(c)
  /\ UNCHANGED <<threadVars, pooled, known, hookTask, stale, unused, made,
                 note, agentVars, unsure>>

(* handleDeleteConnection ends the calls on the connection.                *)
Disconnect(k) ==
  /\ k \in pooled
  /\ pooled' = pooled \ {k}
  /\ cut' = cut \cup {c \in Calls : op[c] # None /\ op[c].kind # "connect"
                                      /\ op[c].conn = k}
  /\ UNCHANGED <<threadVars, known, hookVars, made, pc, op, answer, first,
                 note, agentVars, unsure>>

(* handleHook copies the webhook.  Without one it answers 404.             *)
Notify(n, t, w) ==
  /\ note[n] = None
  /\ <<t, w>> \in configs
  /\ hookConn[w] # None
  /\ note' = [note EXCEPT ![n] = [conn |-> hookConn[w], ref |-> Ref(t)]]
  /\ UNCHANGED <<threadVars, pooled, known, hookVars, callVars, agentVars,
                 unsure>>

(* handleHook follows the conversation, if it finds the connection.        *)
Notice(n) ==
  /\ note[n] # None
  /\ IF note[n].conn \in pooled THEN Observe(note[n].conn, note[n].ref, FALSE)
                                ELSE UNCHANGED threadVars
  /\ note' = [note EXCEPT ![n] = None]
  /\ UNCHANGED <<pooled, known, hookVars, callVars, agentVars, unsure>>

-----------------------------------------------------------------------------
CallGoesOn(c) ==
  \/ ChooseExisting(c) \/ ChooseNew(c) \/ CreateHook(c) \/ ResetThread(c)
  \/ Settle(c) \/ Record(c) \/ StreamEnds(c) \/ Rejected(c) \/ ConfigDeleted(c)
  \/ Move(c)

Agent(c) ==
  \/ AgentDoes(c) \/ AgentRejects(c) \/ AnswerLost(c) \/ AgentStreams(c)
  \/ \E t \in Tasks, x \in Contexts, s \in States : AgentTakesMessage(c, t, x, s)
  \/ \E x \in Contexts : AgentReplies(c, x)

User(c) ==
  \/ Cut(c)
  \/ \E kind \in {"send", "stream"}, k \in Conns, mode \in Modes,
        push \in BOOLEAN : Send(c, kind, k, mode, push)
  \/ \E kind \in {"get", "create", "delete"}, k \in Conns, t \in Tasks,
        w \in Hooks : TaskOperation(c, kind, k, t, w)
  \/ \E k \in Conns, old \in Conns \cup {None} : Connect(c, k, old)

WebhooksNext ==
  \/ \E c \in Calls : CallGoesOn(c) \/ Agent(c) \/ User(c)
  \/ \E k \in Conns : Disconnect(k)
  \/ \E t \in Tasks, s \in States : TaskMoves(t, s)
  \/ \E n \in Notifiers : Notice(n) \/ \E t \in Tasks, w \in Hooks : Notify(n, t, w)

WebhooksSpec == WebhooksInit /\ [][WebhooksNext]_vars
-----------------------------------------------------------------------------
(* A webhook that a config of the agent points to is there: the inspector  *)
(* drops one only when the agent took nothing (hooks.go:153-155).          *)
TakenStays == \A t \in Tasks, w \in Hooks : <<t, w>> \in configs => hookConn[w] # None

(* A call that may still change what the agent has of the webhook w.       *)
Pending(w) == \E c \in Calls : op[c] # None /\ op[c].hook = w /\ ~op[c].existing

(* A webhook that the inspector takes a task's notifications for granted   *)
(* of is one the agent notifies, unless a call about it is under way or    *)
(* was cut short: else messages would go without notifications.            *)
ExistingNotifies ==
  \A k \in Conns, t \in Tasks : \A w \in Usable(k, t) :
    <<t, w>> \in configs \/ Pending(w) \/ w \in unsure

(* The state has its types, and webhooks taken for granted exist.          *)
HooksSound == WebhooksTypeOK /\ ExistingNotifies

(* A message gets a webhook of its own only when the task it continues     *)
(* notifies none (messages.go:66-68), as far as calls about one are over   *)
(* and were not cut short.                                                 *)
NoSecondConfig ==
  [][\A c \in Calls : ChooseNew(c) /\ op[c].task # None =>
       \A w \in Hooks : <<op[c].task, w>> \in configs =>
         \/ w \in stale \cup unsure \/ Pending(w)
         \/ hookConn[w] # op[c].conn]_vars
=============================================================================
