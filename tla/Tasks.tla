-------------------------------- MODULE Tasks --------------------------------
(***************************************************************************)
(* The Tasks tab of an agent (src/ui/src/components/TasksPanel.tsx, the    *)
(* task operations of App.tsx) and the notifications feed it follows       *)
(* (notifications.ts).  Operations run at once and are answered in any     *)
(* order; the feed breaks and is followed again; what is known of a task   *)
(* comes from both, each with its time.                                    *)
(*                                                                         *)
(* The agent's tasks and push notification configs are what it answers,    *)
(* in the wire shape of its interface.  How an operation connects is in    *)
(* App; here it has a connection.                                          *)
(***************************************************************************)
EXTENDS AgentStore, Payload

CONSTANTS TaskIds,      \* tasks of the agent
          ConfigIds,    \* push notification configs
          Wires,        \* versions and bindings of interfaces
          Bases,        \* base URLs for webhooks; "" is the default
          MaxNotices,   \* notifications.ts: maxNotifications
          AtOnce,       \* bound on operations under way
          LastCall,     \* bound on operations and on events of subscriptions
          LastNotice,   \* bound on notifications
          LastTaskStep  \* bound on what the user does here

TaskAgent == 1
TheConn == 1
TaskStates == {"working", "completed"}

(* The conversations a connection may be in, the notifications and the     *)
(* events of the feed, which None is none of.                              *)
Conversations == [context : {"c", None}, task : TaskIds \cup {None}]

Notices ==
  [id : Nat, connectionId : {TheConn}, taskId : TaskIds, tokenValid : BOOLEAN,
   state : TaskStates, context : {"c"}, time : Nat,
   conversation : Conversations \cup {None}]

FeedEvents ==
  [event : {"notification"}, n : Notices]
  \cup [event : {"snapshot"}, list : Seq(Notices), conv : Conversations]

Connections ==
  [id : {TheConn}, context : {"c", None}, task : TaskIds \cup {None}]

ASSUME TasksAssumption ==
  /\ MaxNotices \in Nat \ {0} /\ LastNotice \in Nat
  /\ None \notin Conversations \cup Connections \cup Seq(FeedEvents)

VARIABLES
  tasker,     \* the agent, as a list of one
  wire,       \* the version and binding of its interface
  calls,      \* operations that are not over
  lastCall,   \* operations started and events of subscriptions, counted
  states,     \* the state of each task, as the agent has it
  clock,      \* the time
  thread,     \* the conversation of the agent's connection, as inspector has it
  ring,       \* the notifications the inspector keeps
  channel,    \* the feed: events on their way, None while it is broken
  heard,      \* the UI's notifications, and whether they are live
  enabled,    \* whether the feed is followed: webhooks, and not refused
  base,       \* the form of the webhook base URL
  taskSteps   \* what the user did here so far, counted

taskVars == <<tasker, wire, calls, lastCall, states, clock, thread, ring,
              channel, heard, enabled, base, taskSteps>>
agentVars == <<states, clock, thread, ring>>
feedVars == <<channel, heard, enabled>>

T == tasker[1]
Version == wire[1]
Binding == wire[2]
-----------------------------------------------------------------------------
(* What the agent writes: enum names but in v0.3 JSON-RPC, which says the  *)
(* kind instead of wrapping the event.                                     *)
WireState(state) ==
  IF Shape(Version, Binding) = "rpc" THEN state
  ELSE CHOOSE name \in DOMAIN EnumNames : EnumNames[name] = state

WireStatus(t) == "status" :> ("state" :> WireState(states[t]))

WireTask(t) ==
  LET task == ("id" :> t) @@ ("contextId" :> "c") @@ WireStatus(t)
  IN  IF Shape(Version, Binding) = "rpc" THEN ("kind" :> "task") @@ task
      ELSE task

WireUpdate(t) ==
  LET update == ("taskId" :> t) @@ ("contextId" :> "c") @@ WireStatus(t)
  IN  IF Shape(Version, Binding) = "rpc"
      THEN ("kind" :> "status-update") @@ update
      ELSE "statusUpdate" :> update

WireConfig(t, c) ==
  LET inner == "id" :> c
  IN  IF Version = "1.0" THEN "taskId" :> t @@ inner
      ELSE IF Binding = "JSONRPC"
      THEN "taskId" :> t @@ "pushNotificationConfig" :> inner
      ELSE "name" :> <<t, c>> @@ "pushNotificationConfig" :> EmptyObject

Configs(t, raw) == [id |-> ViewPushConfig(raw).id]
-----------------------------------------------------------------------------
(* Operations: a result with or without a payload, a call that failed, or  *)
(* no result, as the inspector could not make the call.                    *)
Outcome(result, ok, raw) == [result |-> result, ok |-> ok, raw |-> raw]
NoResult == Outcome(FALSE, FALSE, Nothing)

RefOf(out) ==
  IF out.result THEN TaskRef(out.ok, out.raw, Version, Binding) ELSE Nothing

OrNone(v) == IF v = Nothing THEN None ELSE v

Seen(list, view, label, select) ==
  Task(list, TaskAgent, view.taskId, OrNone(view.state),
       OrNone(view.contextId), clock, label, select)

(* A result says something of the task asked for only if it is about it.   *)
RecordTask(list, t, label, out, select) ==
  LET ref == RefOf(out)
      isAbout == IF ref = Nothing THEN FALSE ELSE ref.taskId = t
  IN  IF isAbout THEN Seen(list, ref, label, select)
      ELSE Task(list, TaskAgent, t, None, None, clock, label, select)

Lookup(isList, token) == [list |-> isList, token |-> token]

(* Get task of the toolbar: the task is shown, or what came instead.       *)
GotTask(list, out) ==
  LET ref == RefOf(out)
  IN  IF ref = Nothing
      THEN TaskLookup(list, TaskAgent, Lookup(FALSE, FALSE))
      ELSE TaskLookup(RecordTask(list, ref.taskId, "get", out, TRUE),
                      TaskAgent, None)

(* List tasks: those of a page, which may not be the last.                 *)
ListedTasks(list, out) ==
  LET raws == IF out.ok THEN out.raw.tasks ELSE <<>>
      see(l, view) == IF view.taskId = Nothing THEN l
                      ELSE Seen(l, view, None, FALSE)
      seen[i \in 0..Len(raws)] ==
        IF i = 0 THEN list
        ELSE see(seen[i - 1], View(raws[i], Version, Binding))
  IN  TaskLookup(seen[Len(raws)], TaskAgent,
                 Lookup(TRUE, out.ok /\ out.raw.nextPageToken))

(* An operation on a task, with the configs it is about.                   *)
TaskOperation(list, c, out) ==
  LET said == RecordTask(list, c.task, c.op, out, FALSE)
      views(raws) == [i \in DOMAIN raws |-> Configs(c.task, raws[i])]
  IN  IF ~ out.ok THEN said
      ELSE IF c.op = "listPush"
      THEN PushConfigs(said, TaskAgent, c.task, views(out.raw.configs), None, None)
      ELSE IF c.op \in {"createPush", "getPush"}
      THEN PushConfigs(said, TaskAgent, c.task, None,
                       Configs(c.task, out.raw), None)
      ELSE IF c.op = "deletePush"
      THEN PushConfigs(said, TaskAgent, c.task, None, None, c.config)
      ELSE said

Answered(list, c, out) ==
  IF c.op = "toolbarGet" THEN GotTask(list, out)
  ELSE IF c.op = "list" THEN ListedTasks(list, out)
  ELSE IF c.op = "subscribe" THEN RecordTask(list, c.task, c.op, out, FALSE)
  ELSE TaskOperation(list, c, out)
-----------------------------------------------------------------------------
(* What the tab shows: the tasks known, one of them open.                  *)
SeenTasks ==
  [t \in {T.tasks[i].id : i \in DOMAIN T.tasks} |->
     LET e == Entry(T.tasks, t)
     IN  [state |-> e.state, context |-> e.context, updated |-> e.updated,
          notifications |-> 0]]

Known == KnownTasks(SeenTasks, heard.list)

Open == IF T.selectedTask \in DOMAIN Known THEN {T.selectedTask} ELSE {}

ConfigsOf(t) == IF Has(T.tasks, t) THEN Entry(T.tasks, t).configs ELSE <<>>

IsSubscribed(t) == Has(T.tasks, t) /\ Entry(T.tasks, t).subscribed

(* What the buttons of the open task ask for; an inspector with webhooks   *)
(* can take the notifications itself.  A config without an ID cannot be    *)
(* asked for.                                                              *)
Offered(t) ==
  {[op |-> op, task |-> t, config |-> None] :
     op \in {"get", "cancel", "createPush", "listPush"}
            \cup (IF IsSubscribed(t) THEN {} ELSE {"subscribe"})}
  \cup {[op |-> op, task |-> t, config |-> ConfigsOf(t)[i].id] :
          op \in {"getPush", "deletePush"},
          i \in {j \in DOMAIN ConfigsOf(t) : ConfigsOf(t)[j].id # Nothing}}
-----------------------------------------------------------------------------
TasksInit ==
  /\ wire \in Wires
  /\ LET iface == [key |-> "i", supported |-> TRUE]
         list == AddEndpoint(State(<<>>, None), TaskAgent, iface, None).agents
         conn == [id |-> TheConn, context |-> None, task |-> None]
     IN  tasker = Connected(list, TaskAgent, conn, None, DefaultSettings)
  /\ calls = {} /\ lastCall = 0
  /\ states = [t \in TaskIds |-> "working"] /\ clock = 1
  /\ thread = Conv(None, None) /\ ring = <<>>
  /\ channel = None /\ heard = [live |-> FALSE, list |-> <<>>]
  /\ enabled \in BOOLEAN
  /\ base = [editing |-> FALSE, value |-> "", saving |-> None, error |-> FALSE,
             set |-> ""]
  /\ taskSteps = 0

TaskStep == taskSteps < LastTaskStep /\ taskSteps' = taskSteps + 1

Starts(c) ==
  /\ Cardinality(calls) < AtOnce /\ lastCall < LastCall
  /\ lastCall' = lastCall + 1
  /\ calls' = calls \cup {[op |-> c.op, task |-> c.task, config |-> c.config,
                           n |-> lastCall + 1, answer |-> None]}

(* The toolbar: any ID, and a list where the protocol has one, page by     *)
(* page.                                                                   *)
AskToolbar ==
  /\ TaskStep
  /\ \/ \E t \in TaskIds :
          Starts([op |-> "toolbarGet", task |-> t, config |-> None])
     \/ /\ Version = "1.0"
        /\ \E page \in {1} \cup (IF T.lookup = None THEN {}
                                 ELSE IF T.lookup.token THEN {2} ELSE {}) :
             Starts([op |-> "list", task |-> None, config |-> page])
  /\ UNCHANGED <<tasker, wire, agentVars, feedVars, base>>

(* One subscription for a task at a time.                                  *)
AskOperation ==
  /\ TaskStep
  /\ \E t \in Open : \E c \in Offered(t) :
       /\ c.op = "subscribe" => ~ \E d \in calls : d.op = c.op /\ d.task = t
       /\ Starts(c)
       /\ tasker' = IF c.op = "subscribe"
                    THEN Subscribed(tasker, TaskAgent, t, TRUE) ELSE tasker
  /\ UNCHANGED <<wire, agentVars, feedVars, base>>

StopSubscription ==
  /\ TaskStep
  /\ \E t \in Open : \E c \in calls :
       /\ IsSubscribed(t) /\ c.op = "subscribe" /\ c.task = t
       /\ calls' = calls \ {c}
       /\ tasker' = Subscribed(tasker, TaskAgent, t, FALSE)
  /\ UNCHANGED <<wire, lastCall, agentVars, feedVars, base>>

ShowTask ==
  /\ TaskStep
  /\ \E t \in DOMAIN Known :
       tasker' = SelectTask(tasker, TaskAgent, IF t \in Open THEN None ELSE t)
  /\ UNCHANGED <<wire, calls, lastCall, agentVars, feedVars, base>>

(* The webhook base URL's form.  Cancel closes it while it is being saved. *)
EditBase ==
  /\ TaskStep /\ enabled
  /\ \/ /\ ~ base.editing
        /\ base' = [base EXCEPT !.editing = TRUE, !.value = base.set]
     \/ /\ base.editing
        /\ \E url \in Bases : base' = [base EXCEPT !.value = url]
     \/ /\ base.editing /\ base.saving = None
        /\ base' = [base EXCEPT !.saving = base.value, !.error = FALSE]
     \/ base.editing /\ base' = [base EXCEPT !.editing = FALSE]
  /\ UNCHANGED <<tasker, wire, calls, lastCall, agentVars, feedVars>>

BaseSaved ==
  /\ base.saving # None
  /\ \/ base' = [base EXCEPT !.editing = FALSE, !.saving = None,
                             !.set = base.saving]
     \/ base' = [base EXCEPT !.error = TRUE, !.saving = None]
  /\ UNCHANGED <<tasker, wire, calls, lastCall, agentVars, feedVars, taskSteps>>
-----------------------------------------------------------------------------
(* The agent, through the inspector.  What it answers is of its state when *)
(* it is asked.                                                            *)
Replies(c) ==
  LET t == c.task
      raws == IF c.op \in {"toolbarGet", "get", "cancel"} THEN {WireTask(t)}
              ELSE IF c.op = "list"
              THEN {[tasks |-> <<WireTask(u)>>, nextPageToken |-> more] :
                      u \in TaskIds, more \in BOOLEAN}
              ELSE IF c.op = "subscribe" THEN {WireTask(t), WireUpdate(t)}
              ELSE IF c.op = "createPush"
              THEN {WireConfig(t, id) : id \in ConfigIds}
              ELSE IF c.op = "getPush" THEN {WireConfig(t, c.config)}
              ELSE IF c.op = "listPush"
              THEN {"configs" :> list :
                      list \in {<<>>} \cup {<<WireConfig(t, id)>> : id \in ConfigIds}}
              ELSE {Nothing}
  IN  {Outcome(TRUE, TRUE, raw) : raw \in raws}
      \cup {Outcome(TRUE, FALSE, Nothing), NoResult}

AgentAnswers ==
  /\ \E c \in calls :
       /\ c.answer = None
       /\ \E out \in Replies(c) :
            calls' = (calls \ {c}) \cup {[c EXCEPT !.answer = out]}
  /\ UNCHANGED <<tasker, wire, lastCall, agentVars, feedVars, base, taskSteps>>

(* The answer arrives.  A subscription goes on until it ends or fails.     *)
AnswerCame ==
  /\ \E c \in calls :
       /\ c.answer # None
       /\ LET said == Answered(tasker, c, c.answer)
              others == calls \ {c}
          IN  \/ /\ c.op # "subscribe"
                 /\ calls' = others /\ tasker' = said
                 /\ UNCHANGED lastCall
              \/ /\ c.op = "subscribe" /\ c.answer.result
                 /\ lastCall < LastCall /\ lastCall' = lastCall + 1
                 /\ calls' = others \cup {[c EXCEPT !.answer = None]}
                 /\ tasker' = said
              \/ /\ c.op = "subscribe"
                 /\ calls' = others
                 /\ tasker' = Subscribed(said, TaskAgent, c.task, FALSE)
                 /\ UNCHANGED lastCall
  /\ UNCHANGED <<wire, agentVars, feedVars, base, taskSteps>>

(* A task moves on, and the agent notifies the inspector, which keeps the  *)
(* newest notifications, changes the conversation by them, if they have    *)
(* the webhook's token, and feeds them to the UI.                          *)
Notification(t, valid, conv) ==
  [id |-> clock + 1, connectionId |-> TheConn, taskId |-> t,
   tokenValid |-> valid, state |-> states'[t], context |-> "c",
   time |-> clock + 1, conversation |-> conv]

Newest(list) ==
  SubSeq(list, IF Len(list) > MaxNotices THEN Len(list) - MaxNotices + 1 ELSE 1,
         Len(list))

AgentNotifies ==
  /\ clock <= LastNotice /\ clock' = clock + 1
  /\ \E t \in TaskIds, state \in TaskStates, valid \in BOOLEAN :
       LET conv == Conv("c", IF state = "working" THEN t ELSE None)
           n == Notification(t, valid, IF valid /\ conv # thread THEN conv
                                       ELSE None)
       IN  /\ states' = [states EXCEPT ![t] = state]
           /\ thread' = IF valid THEN conv ELSE thread
           /\ ring' = Newest(Append(ring, n))
           /\ channel' = IF channel = None THEN None
                         ELSE Append(channel, [event |-> "notification", n |-> n])
  /\ UNCHANGED <<tasker, wire, calls, lastCall, heard, enabled, base, taskSteps>>
-----------------------------------------------------------------------------
(* The feed: a snapshot of the notifications and of every conversation,    *)
(* then each notification.                                                 *)
FeedOpens ==
  /\ enabled /\ channel = None
  /\ channel' = <<[event |-> "snapshot", list |-> ring, conv |-> thread]>>
  /\ UNCHANGED <<tasker, wire, calls, lastCall, agentVars, heard, enabled, base,
                 taskSteps>>

(* It ends or breaks, and is opened again after a while.                   *)
FeedBreaks ==
  /\ channel # None /\ channel' = None
  /\ heard' = [heard EXCEPT !.live = FALSE]
  /\ UNCHANGED <<tasker, wire, calls, lastCall, agentVars, enabled, base,
                 taskSteps>>

(* Without a session, retrying does not help.                              *)
FeedRefused ==
  /\ enabled /\ channel = None
  /\ enabled' = FALSE
  /\ UNCHANGED <<tasker, wire, calls, lastCall, agentVars, channel, heard, base,
                 taskSteps>>

(* notificationsReducer                                                    *)
Reduced(state, e) ==
  IF e.event = "snapshot" THEN [live |-> TRUE, list |-> e.list]
  ELSE IF \E i \in DOMAIN state.list : state.list[i].id = e.n.id THEN state
  ELSE [state EXCEPT !.list = Newest(Append(@, e.n))]

(* Mutant: only notifications change the conversations.                    *)
ConversedWithoutSnapshot(list, e) ==
  IF e.event = "snapshot" THEN list
  ELSE IF e.n.conversation = None THEN list
  ELSE NotificationConversation(list, e.n.connectionId, e.n.conversation)

(* onConversation: what the next message of each connection continues.     *)
Conversed(list, e) ==
  IF e.event = "snapshot"
  THEN NotificationConversation(list, TheConn, e.conv)
  ELSE IF e.n.conversation = None THEN list
  ELSE NotificationConversation(list, e.n.connectionId, e.n.conversation)

FeedEvent ==
  /\ channel \notin {None, <<>>} /\ channel' = Tail(channel)
  /\ heard' = Reduced(heard, Head(channel))
  /\ tasker' = Conversed(tasker, Head(channel))
  /\ UNCHANGED <<wire, calls, lastCall, agentVars, enabled, base, taskSteps>>

TasksNext ==
  \/ AskToolbar \/ AskOperation \/ StopSubscription \/ ShowTask
  \/ EditBase \/ BaseSaved \/ AgentAnswers \/ AnswerCame \/ AgentNotifies
  \/ FeedOpens \/ FeedBreaks \/ FeedRefused \/ FeedEvent
-----------------------------------------------------------------------------
(* Once the feed is live again and its events are read, nothing is missed  *)
(* that came while it was broken: the notifications are the inspector's,   *)
(* and the next message continues what the inspector continues.            *)
FeedCaughtUp ==
  heard.live /\ channel = <<>>
    => /\ heard.list = ring
       /\ Conv(T.connection.context, T.connection.task) = thread

(* A task that shows a subscription has one, which Stop ends.              *)
SubscribedHasStream ==
  \A i \in DOMAIN T.tasks :
    T.tasks[i].subscribed <=> \E c \in calls : /\ c.op = "subscribe"
                                                /\ c.task = T.tasks[i].id
=============================================================================
