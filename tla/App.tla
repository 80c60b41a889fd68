--------------------------------- MODULE App ---------------------------------
(***************************************************************************)
(* The operations of an agent in the UI (src/ui/src/App.tsx) over the list *)
(* of agents in AgentStore and the inspector's API.  An operation is an    *)
(* async function that works on the agent as it was when the user clicked: *)
(* it connects, calls, waits for answers, and dispatches what they say to  *)
(* the agent as it is by then.  Operations run at once, and everything     *)
(* changes meanwhile: the user edits, stops, removes; the session ends;    *)
(* the inspector drops a connection; notifications come.                   *)
(*                                                                         *)
(* The inspector is what App sees of it: a session for the browser's       *)
(* cookie, connections with the conversation each continues, and answers,  *)
(* which take any time to arrive.  A connection made is answered; the      *)
(* answer to a call can be lost.  A task is named by its context.          *)
(***************************************************************************)
EXTENDS AgentStore

CONSTANTS Agent,        \* the agent's id
          Interface,    \* its only interface
          Slots,        \* room for operations that run at once
          Texts,        \* what the user may type as a secret
          LastConn,     \* bound on connections a session makes
          LastSession,  \* bound on sessions
          LastContext,  \* bound on contexts of the agent
          LastMessage,  \* bound on messages sent
          LastClick,    \* bound on what the user does
          LastEvent     \* bound on what happens to the inspector by itself

(* A conversation, with the task that is open in it, a reference to a      *)
(* secret, and a connection as the UI knows it.                            *)
Fits(conv) == conv.task \in {None, conv.context}

Convs == {c \in [context : Nat \cup {None}, task : Nat \cup {None}] : Fits(c)}

Refs == Nat \X Nat

Links ==
  {l \in [id : Nat, context : Nat \cup {None}, task : Nat \cup {None},
          headers : {<<>>}, auth : Refs \cup {None}] : Fits(l)}

ASSUME AppAssumption ==
  /\ LastConn \in Nat /\ LastSession \in Nat \ {0} /\ LastContext \in Nat
  /\ LastMessage \in Nat
  /\ LastClick \in Nat /\ LastEvent \in Nat
  /\ None \notin Nat \cup Links

VARIABLES
  agents,     \* the UI's list, which has the agent until it is removed
  removed,    \* App.removed: IDs of removed agents
  told,       \* App.renewed: whether the notice of a lost session shows
  ops,        \* the operation in each slot, or Idle
  cookie,     \* the session of the browser's cookie
  hosted,     \* whether the inspector is a shared one
  session,    \* the inspector's session for this browser
  conns,      \* the connections of that session: their conversations
  ending,     \* DELETE requests of connections, and their answers
  feed,       \* a conversation in the notifications feed, or None
  made,       \* connections the session made, which numbers them from 1 on
  stored,     \* secrets it stored, numbered too
  contexts,   \* contexts the agent made
  clicks,     \* what the user did so far, counted
  events,     \* what happened to the inspector by itself, counted
  messages,   \* messages sent
  asked,      \* contexts made when the user last asked for a new one, or None
  reached,    \* for each message: how often it arrived, where, and asked then
  displaced   \* connections the UI forgot for another one

uiVars == <<agents, removed, told, ops, cookie>>
serverVars == <<session, conns, made, stored, contexts>>
userVars == <<clicks, events, messages, asked, displaced>>
vars == <<uiVars, serverVars, userVars, hosted, ending, feed, reached>>

NoConv == Conv(None, None)
Kinds == {"send", "card", "subscribe"}
Sends(op) == op.kind = "send"

(* The agent, while it is in the list, and a slot without an operation.    *)
A == Entry(agents, Agent)
Here == Has(agents, Agent)

Idle == [pc |-> "idle"]
Free(s) == ops[s].pc = "idle"

(* No answer to the operation's request arrived yet.                       *)
NoAnswer == [type |-> "none"]

Waits(op) == op.answer.type = "none"

(* What an operation keeps of the agent it was started with.               *)
Captured(a) ==
  [iface |-> SelectedInterface(a), settings |-> a.settings,
   connection |-> a.connection, key |-> a.key, resume |-> a.resume,
   resetContext |-> a.resetContext, newTask |-> a.newTask]

Op(kind, about) ==
  [kind |-> kind, about |-> about, agent |-> Captured(A), pc |-> "connect",
   cookie |-> 0, conn |-> None, answer |-> NoAnswer, again |-> FALSE,
   aborted |-> FALSE, answered |-> FALSE]

(* An answer of the inspector.                                             *)
Answer(type, conn, conv, last, ok) ==
  [type |-> type, session |-> session, conn |-> conn, ref |-> None,
   conv |-> conv, last |-> last, ok |-> ok]

Plain(type) == Answer(type, None, NoConv, TRUE, TRUE)
-----------------------------------------------------------------------------
(* Settling: the catch and finally blocks, and what follows the await.     *)
Settle(list, op, how) ==
  IF Sends(op)
  THEN LET said == IF how = "done" THEN list ELSE Chat(list, Agent, how)
           idle == Busy(said, Agent, FALSE)
       IN  IF op.answered
           THEN FormSubmitted(idle, Agent, op.about, None) ELSE idle
  ELSE IF op.kind = "subscribe" THEN Subscribed(list, Agent, op.about, FALSE)
  ELSE ExtendedCard(list, Agent, IF how = "done" THEN "done" ELSE "failed")

(* What an operation does at once: the list and the operation after it,    *)
(* and the connection it gives up.                                         *)
Step(list, op, drop) == [agents |-> list, op |-> op, drop |-> drop]

Over(list, op, how) == Step(Settle(list, op, how), Idle, None)

ConnectionKey(a) == <<a.iface, SettingsRequest(a.settings)>>

Refuses(a) == a.iface = None \/ HasLostSecrets(a.settings)

Reuses(a) == a.connection # None /\ a.key = ConnectionKey(a)

(* A request carries the cookie of the moment.                             *)
Request(op, pc, conn, jar) ==
  [op EXCEPT !.pc = pc, !.conn = conn, !.cookie = jar, !.answer = NoAnswer]

(* connect, up to its first await, and the call when it has a connection.  *)
Connect(list, op, jar) ==
  IF Refuses(op.agent)
  THEN Over(list, op, IF op.aborted THEN "stopped" ELSE "error")
  ELSE IF Reuses(op.agent)
  THEN IF op.aborted THEN Over(list, op, "stopped")
       ELSE Step(list, Request(op, "call", op.agent.connection.id, jar), None)
  ELSE IF op.agent.connection = None
  THEN Step(list, Request(op, "connect", None, jar), None)
  ELSE Step(Disconnected(list, Agent), Request(op, "connect", None, jar),
            op.agent.connection.id)

(* The conversation a new connection continues.                            *)
Continued(a) ==
  IF a.resetContext THEN NoConv
  ELSE IF a.connection # None THEN Conv(a.connection.context, a.connection.task)
  ELSE IF a.resume # None THEN a.resume ELSE NoConv

(* The connection the answer brings, kept in the agent.                    *)
WithAnswer(list, op) ==
  LET conn == [id |-> op.answer.conn, context |-> op.answer.conv.context,
               task |-> op.answer.conv.task, headers |-> <<>>,
               auth |-> op.answer.ref]
      settings == SettingsAfterConnect(op.agent.settings, conn)
      key == ConnectionKey([op.agent EXCEPT !.settings = settings])
  IN  Connected(list, Agent, conn, key, settings)

(* Mutant: connect does not look whether the agent was removed.            *)
EstablishAlways(list, op, gone, jar) ==
  IF op.aborted THEN Over(WithAnswer(list, op), op, "stopped")
  ELSE Step(WithAnswer(list, op), Request(op, "call", op.answer.conn, jar), None)

(* Mutant: the call does not look whether Stop was clicked.                *)
EstablishDeaf(list, op, gone, jar) ==
  IF gone THEN [Over(list, op, "error") EXCEPT !.drop = op.answer.conn]
  ELSE Step(WithAnswer(list, op), Request(op, "call", op.answer.conn, jar), None)

(* connect, after its await: an agent removed meanwhile gives it up again. *)
Establish(list, op, gone, jar) ==
  IF gone
  THEN [Over(list, op, IF op.aborted THEN "stopped" ELSE "error")
        EXCEPT !.drop = op.answer.conn]
  ELSE IF op.aborted THEN Over(WithAnswer(list, op), op, "stopped")
  ELSE Step(WithAnswer(list, op), Request(op, "call", op.answer.conn, jar), None)

(* Mutant: whatever fails is tried again.                                  *)
FailureAnyway(list, op, jar) ==
  IF op.again THEN Over(list, op, "error")
  ELSE Connect(list, [op EXCEPT !.again = TRUE], jar)

(* withConnection, when connect or the call fails: it connects again once, *)
(* if the session or the connection is gone.                               *)
Failure(list, op, jar) ==
  LET type == op.answer.type
      retry(agent) == Connect(list, [op EXCEPT !.again = TRUE,
                                               !.agent = agent], jar)
  IN  IF ~ op.again /\ type = "renewed" THEN retry(AfterSessionLoss(op.agent))
      ELSE IF ~ op.again /\ type = "unknown" /\ op.agent.connection # None
      THEN retry(WithoutConnection(op.agent))
      ELSE Over(list, op, IF op.aborted THEN "stopped" ELSE "error")

(* A result or an event of a stream, with what it says about a task.       *)
Result(list, op) ==
  LET conv == op.answer.conv
      said == IF Sends(op) THEN Chat(list, Agent, "answered") ELSE list
      now == Converse(said, Agent, conv, IF Sends(op) THEN "send" ELSE "other")
      seen == IF conv.task = None \/ op.kind = "card" THEN now
              ELSE Task(now, Agent, conv.task, "input-required", conv.context,
                        0, None, FALSE)
      heard == [op EXCEPT !.answered = @ \/ op.answer.ok]
  IN  IF op.answer.last THEN Over(seen, heard, "done")
      ELSE Step(seen, [heard EXCEPT !.pc = "stream", !.answer = NoAnswer], None)

(* The listener of a renewed session.                                      *)
HadSession(list) ==
  \E i \in DOMAIN list : \/ list[i].connection # None
                         \/ list[i].settings.secret.ref # None
                         \/ \E h \in DOMAIN list[i].settings.headers :
                              list[i].settings.headers[h].ref # None

Renewal(list, jar) ==
  /\ cookie' = jar
  /\ told' = (told \/ HadSession(list))

(* A connection of the list that is forgotten while the session lives.     *)
Forgets == {c \in DOMAIN conns :
              Here /\ A.connection # None /\ A.connection.id = c}
-----------------------------------------------------------------------------
AppInit ==
  /\ hosted \in BOOLEAN
  /\ \E text \in Texts :
       agents = AddEndpoint(State(<<>>, None), Agent, Interface,
                  IF ~ hosted THEN None
                  ELSE SetSecret(SetAuthType(DefaultSettings, "bearer"), text)
                ).agents
  /\ removed = {} /\ told = FALSE /\ cookie = 1 /\ session = 1
  /\ ops = [s \in Slots |-> Idle]
  /\ conns = <<>> /\ ending = {} /\ feed = None
  /\ made = 0 /\ stored = 0 /\ contexts = 0 /\ clicks = 0 /\ events = 0 /\ messages = 0
  /\ asked = None
  /\ reached = [m \in 1..LastMessage |->
                  [times |-> 0, context |-> None, floor |-> None]]
  /\ displaced = {}

(* A step of the operation in slot s, with the DELETE it may send.         *)
Take(s, step, jar) ==
  /\ agents' = step.agents
  /\ ops' = [ops EXCEPT ![s] = step.op]
  /\ ending' = ending \cup {[conn |-> c, cookie |-> jar, answer |-> None] :
                              c \in {step.drop} \ {None}}

(* The operation starts on the list that shows it as under way, in the     *)
(* first free slot.                                                        *)
Start(s, kind, about, list) ==
  /\ Free(s) /\ \A t \in Slots : t < s => ~ Free(t)
  /\ Take(s, Connect(list, Op(kind, about), cookie), cookie)
  /\ UNCHANGED <<removed, told, cookie, serverVars, hosted, feed>>

(* Each click and each event counts against its bound.                     *)
Click == /\ clicks < LastClick /\ clicks' = clicks + 1
         /\ UNCHANGED <<events, displaced>>

Event == /\ events < LastEvent /\ events' = events + 1
         /\ UNCHANGED <<clicks, messages, asked, displaced>>

(* The composer, and a form in the transcript, streamed or not.            *)
Send(s) ==
  /\ Here /\ ~ A.busy /\ messages < LastMessage
  /\ messages' = messages + 1
  /\ reached' = [reached EXCEPT ![messages + 1].floor = asked]
  /\ Start(s, "send", messages + 1,
           Busy(Chat(agents, Agent, "sent"), Agent, TRUE))
  /\ Click /\ UNCHANGED asked

FetchExtendedCard(s) ==
  /\ Here /\ A.extended # "loading"
  /\ Start(s, "card", None, ExtendedCard(agents, Agent, "loading"))
  /\ Click /\ UNCHANGED <<messages, asked, reached>>

Subscribe(s) ==
  /\ Here
  /\ \E i \in DOMAIN A.tasks :
       /\ ~ A.tasks[i].subscribed
       /\ Start(s, "subscribe", A.tasks[i].id,
                Subscribed(agents, Agent, A.tasks[i].id, TRUE))
  /\ Click /\ UNCHANGED <<messages, asked, reached>>

(* Aborting ends the wait for a call at once; connect is not told, and the *)
(* operation ends when it is done.                                         *)
Abort(list, op) ==
  IF op.pc = "connect" THEN Step(list, [op EXCEPT !.aborted = TRUE], None)
  ELSE Over(list, op, "stopped")

(* Stop in the chat or at a subscription.                                  *)
Stop(s) ==
  /\ Here /\ ~ Free(s) /\ ops[s].kind # "card" /\ ~ ops[s].aborted
  /\ Take(s, Abort(agents, ops[s]), cookie)
  /\ Click /\ UNCHANGED <<messages, asked>>
  /\ UNCHANGED <<removed, told, cookie, serverVars, hosted, feed, reached>>

AskNewConversation ==
  /\ Here /\ ~ A.busy
  /\ agents' = NewConversation(agents, Agent)
  /\ asked' = contexts
  /\ Click /\ UNCHANGED messages
  /\ UNCHANGED <<removed, told, ops, cookie, serverVars, hosted, ending, feed,
                 reached>>

(* Offered beside the open task, which a new conversation has not.         *)
AskNewTask ==
  /\ Here /\ ~ A.busy /\ ~ A.newTask /\ ~ A.resetContext
  /\ A.connection # None /\ A.connection.task # None
  /\ agents' = NewTask(agents, Agent)
  /\ Click /\ UNCHANGED <<messages, asked>>
  /\ UNCHANGED <<removed, told, ops, cookie, serverVars, hosted, ending, feed,
                 reached>>

EditSettings ==
  /\ Here
  /\ \E text \in Texts :
       agents' = ChangeSettings(agents, Agent,
                   IF A.settings.authType = "none"
                   THEN SetOther(A.settings, text)
                   ELSE SetSecret(A.settings, text))
  /\ Click /\ UNCHANGED <<messages, asked>>
  /\ UNCHANGED <<removed, told, ops, cookie, serverVars, hosted, ending, feed,
                 reached>>

RemoveAgent ==
  /\ Here
  /\ removed' = removed \cup {Agent}
  /\ agents' = RemoveEntries(State(agents, Agent), {Agent}).agents
  /\ ops' = [s \in Slots |->
               IF Free(s) THEN Idle
               ELSE IF ops[s].kind = "card" THEN ops[s]
               ELSE Abort(agents, ops[s]).op]
  /\ ending' = ending \cup {[conn |-> A.connection.id, cookie |-> cookie,
                              answer |-> None] :
                              a \in {A.connection} \ {None}}
  /\ Click /\ UNCHANGED <<messages, asked>>
  /\ UNCHANGED <<told, cookie, serverVars, hosted, feed, reached>>
-----------------------------------------------------------------------------
(* The inspector.                                                          *)
Replies(s, answer) == ops' = [ops EXCEPT ![s].answer = answer]

(* The reference to the secret of a request: a new one, or the one it      *)
(* gives, of which only the number is sent.                                *)
Reference(a) ==
  LET auth == AuthInput(a.settings)
  IN  IF auth.secret.kind = "plain" THEN None
      ELSE <<session, IF auth.secret.kind = "ref" THEN auth.secret.of[2]
                      ELSE stored + 1>>

(* It makes the connection, or refuses: a limit, a reference to a secret   *)
(* it does not have, a card it cannot read.                                *)
ServeConnect(s) ==
  /\ ~ Free(s) /\ ops[s].pc = "connect" /\ Waits(ops[s])
  /\ \/ /\ ops[s].cookie # session
        /\ Replies(s, Plain("renewed"))
        /\ UNCHANGED <<conns, made, stored>>
     \/ /\ ops[s].cookie = session
        /\ Replies(s, Plain("error"))
        /\ UNCHANGED <<conns, made, stored>>
     \/ LET a == ops[s].agent
            ref == Reference(a)
            kept == ref # None /\ AuthInput(a.settings).secret.kind = "ref"
        IN  /\ ops[s].cookie = session /\ made < LastConn
            /\ kept => ref[2] <= stored
            /\ stored' = IF kept \/ ref = None THEN stored ELSE stored + 1
            /\ made' = made + 1
            /\ conns' = [c \in DOMAIN conns \cup {made'} |->
                          IF c = made' THEN Continued(a) ELSE conns[c]]
            /\ Replies(s, [Answer("connected", made + 1, Continued(a), TRUE,
                                  TRUE) EXCEPT !.ref = ref])
  /\ UNCHANGED <<agents, removed, told, cookie, session, contexts, userVars,
                 hosted, ending, feed, reached>>

Holds(op) == op.cookie = session /\ op.conn \in DOMAIN conns

(* A call that the inspector refuses, before it calls the agent.           *)
RefuseCall(s) ==
  /\ ~ Free(s) /\ ops[s].pc = "call" /\ Waits(ops[s])
  /\ ~ Holds(ops[s])
  /\ Replies(s, Plain(IF ops[s].cookie # session THEN "renewed"
                      ELSE "unknown"))
  /\ UNCHANGED <<agents, removed, told, cookie, serverVars, userVars, hosted,
                 ending, feed, reached>>

(* The conversation goes on to conv, and the answer says so or is lost; a  *)
(* call of the agent that failed leaves no task open.                      *)
GoesOn(s, conv) ==
  /\ conns' = [conns EXCEPT ![ops[s].conn] = conv]
  /\ \/ \E last \in BOOLEAN, ok \in BOOLEAN :
          /\ last \/ ops[s].kind # "card"
          /\ ~ ok => Sends(ops[s]) /\ conv.task = None
          /\ Replies(s, Answer("result", None, conv, last, ok))
     \/ Replies(s, Plain("error"))

(* The agent gets a message, in a new context or that of the conversation. *)
Deliver(s) ==
  LET op == ops[s]
      old == conns[op.conn].context
      isNew == op.agent.resetContext \/ old = None
      context == IF isNew THEN contexts + 1 ELSE old
  IN  /\ ~ Free(s) /\ Sends(op) /\ op.pc = "call" /\ Waits(op)
      /\ Holds(op)
      /\ isNew => contexts < LastContext
      /\ contexts' = IF isNew THEN contexts + 1 ELSE contexts
      /\ \E task \in {None, context} : GoesOn(s, Conv(context, task))
      /\ reached' = [reached EXCEPT ![op.about].times = @ + 1,
                                    ![op.about].context = context]
      /\ UNCHANGED <<agents, removed, told, cookie, session, made, stored, userVars,
                     hosted, ending, feed>>

(* Another call: the open task may have moved on.                          *)
ServeCall(s) ==
  /\ ~ Free(s) /\ ~ Sends(ops[s]) /\ ops[s].pc = "call"
  /\ Waits(ops[s]) /\ Holds(ops[s])
  /\ \E task \in {None, conns[ops[s].conn].task} :
       GoesOn(s, Conv(conns[ops[s].conn].context, task))
  /\ UNCHANGED <<agents, removed, told, cookie, session, made, stored, contexts,
                 userVars, hosted, ending, feed, reached>>

(* The next event of a stream, or its end, with its connection or without. *)
ServeStream(s) ==
  /\ ~ Free(s) /\ ops[s].pc = "stream" /\ Waits(ops[s])
  /\ \/ /\ Holds(ops[s])
        /\ GoesOn(s, conns[ops[s].conn])
     \/ /\ Replies(s, Plain("end"))
        /\ UNCHANGED conns
  /\ UNCHANGED <<agents, removed, told, cookie, session, made, stored, contexts,
                 userVars, hosted, ending, feed, reached>>

ServeDisconnect ==
  /\ \E e \in ending :
       /\ e.answer = None
       /\ IF e.cookie = session
          THEN /\ conns' = Restrict(conns, DOMAIN conns \ {e.conn})
               /\ ending' = ending \ {e}
          ELSE /\ ending' = (ending \ {e})
                             \cup {[e EXCEPT !.answer = Plain("renewed")]}
               /\ UNCHANGED conns
  /\ UNCHANGED <<uiVars, session, made, stored, contexts, userVars, hosted, feed,
                 reached>>

(* A session lasts until the answers that renewed the one before it came:  *)
(* the inspector could otherwise start several sessions for one browser,   *)
(* whose cookie is that of the answer that comes last.                     *)
Settled ==
  /\ cookie = session
  /\ \A s \in Slots :
       ~ Free(s) /\ ops[s].pc # "stream" /\ ops[s].cookie # session
         => ops[s].answer.type \notin {"none", "renewed"}
  /\ \A e \in ending : e.cookie = session

SessionEnds ==
  /\ hosted /\ session < LastSession /\ Settled
  /\ session' = session + 1 /\ conns' = <<>> /\ made' = 0 /\ stored' = 0
  /\ displaced' = {} /\ events < LastEvent /\ events' = events + 1
  /\ UNCHANGED <<uiVars, contexts, clicks, messages, asked, hosted, ending,
                 feed, reached>>

(* The inspector drops a connection for another one.                       *)
MakeRoom ==
  /\ \E c \in DOMAIN conns : conns' = Restrict(conns, DOMAIN conns \ {c})
  /\ Event
  /\ UNCHANGED <<uiVars, session, made, stored, contexts, hosted, ending, feed,
                 reached>>

(* A push notification of the agent, for an inspector with webhooks.       *)
Notify ==
  /\ ~ hosted /\ feed = None
  /\ \E c \in DOMAIN conns : \E task \in {None, conns[c].context} :
       /\ conns' = [conns EXCEPT ![c].task = task]
       /\ feed' = [conn |-> c, conv |-> Conv(conns[c].context, task)]
  /\ Event
  /\ UNCHANGED <<uiVars, session, made, stored, contexts, hosted, ending, reached>>
-----------------------------------------------------------------------------
(* Answers arrive.                                                         *)
Receives(s, type) ==
  ~ Free(s) /\ ops[s].answer.type = type

ReceiveConnected(s) ==
  LET gone == Agent \in removed
  IN  /\ Receives(s, "connected")
      /\ Take(s, Establish(agents, ops[s], gone, cookie), cookie)
      /\ displaced' = IF gone THEN displaced ELSE displaced \cup Forgets
      /\ UNCHANGED <<removed, told, cookie, serverVars, clicks, events,
                     messages, asked, hosted, feed, reached>>

ReceiveRenewed(s) ==
  /\ Receives(s, "renewed")
  /\ Renewal(agents, ops[s].answer.session)
  /\ Take(s, Failure(SessionReset(agents), ops[s], cookie'), cookie')
  /\ displaced' = displaced \cup Forgets
  /\ UNCHANGED <<removed, serverVars, clicks, events, messages, asked, hosted, feed,
                 reached>>

ReceiveError(s) ==
  /\ Receives(s, "error") \/ Receives(s, "unknown")
  /\ Take(s, Failure(agents, ops[s], cookie), cookie)
  /\ UNCHANGED <<removed, told, cookie, serverVars, userVars, hosted, feed,
                 reached>>

(* The answer to a message ends what the user asked for.                   *)
ReceiveResult(s) ==
  /\ Receives(s, "result")
  /\ Take(s, Result(agents, ops[s]), cookie)
  /\ asked' = IF Sends(ops[s]) THEN None ELSE asked
  /\ UNCHANGED <<removed, told, cookie, serverVars, clicks, events, messages,
                 displaced, hosted, feed, reached>>

ReceiveEnd(s) ==
  /\ Receives(s, "end")
  /\ Take(s, Over(agents, ops[s], "done"), cookie)
  /\ UNCHANGED <<removed, told, cookie, serverVars, userVars, hosted, feed,
                 reached>>

Receive(s) ==
  \/ ReceiveConnected(s) \/ ReceiveRenewed(s) \/ ReceiveError(s)
  \/ ReceiveResult(s) \/ ReceiveEnd(s)

(* The answer to a DELETE of an old session renews it as any other does.   *)
HearDisconnect ==
  /\ \E e \in ending :
       /\ e.answer # None
       /\ ending' = ending \ {e}
       /\ Renewal(agents, e.answer.session)
  /\ agents' = SessionReset(agents)
  /\ displaced' = displaced \cup Forgets
  /\ UNCHANGED <<removed, ops, serverVars, clicks, events, messages, asked, hosted,
                 feed, reached>>

HearNotification ==
  /\ feed # None
  /\ agents' = NotificationConversation(agents, feed.conn, feed.conv)
  /\ feed' = None
  /\ UNCHANGED <<removed, told, ops, cookie, serverVars, userVars, hosted,
                 ending, reached>>
-----------------------------------------------------------------------------
User ==
  \/ \E s \in Slots : \/ Send(s) \/ FetchExtendedCard(s) \/ Subscribe(s) \/ Stop(s)
  \/ AskNewConversation \/ AskNewTask \/ EditSettings \/ RemoveAgent

Backend ==
  \/ \E s \in Slots : \/ ServeConnect(s) \/ RefuseCall(s) \/ Deliver(s)
                       \/ ServeCall(s) \/ ServeStream(s)
  \/ ServeDisconnect \/ SessionEnds \/ MakeRoom \/ Notify

Next ==
  \/ User \/ Backend
  \/ \E s \in Slots : Receive(s)
  \/ HearDisconnect \/ HearNotification

Spec == AppInit /\ [][Next]_vars
-----------------------------------------------------------------------------
(* Types: the sets the variables stay in.                                  *)
AppTypeOK ==
  /\ Len(agents) <= 1 /\ removed \subseteq {Agent}
  /\ Here <=> Agent \notin removed
  /\ told \in BOOLEAN /\ hosted \in BOOLEAN
  /\ cookie \in 1..session /\ session \in 1..LastSession
  /\ DOMAIN conns \subseteq 1..made /\ made \in 0..LastConn
  /\ contexts \in 0..LastContext /\ messages \in 0..LastMessage
  /\ \A c \in DOMAIN conns : conns[c] \in Convs
  /\ \A s \in Slots : Free(s) \/ ops[s].kind \in Kinds

(* No live connection is left behind: it is the agent's, on its way to it, *)
(* about to be ended, or was forgotten for another one when two operations *)
(* connected at once or a second answer renewed the session again.         *)
NoStrays ==
  \A c \in DOMAIN conns :
    \/ Here /\ A.connection # None /\ A.connection.id = c
    \/ \E s \in Slots : ~ Free(s) /\ ~ Waits(ops[s])
                          /\ ops[s].answer.conn = c
                          /\ ops[s].answer.session = session
    \/ \E e \in ending : e.conn = c /\ e.cookie = session
    \/ c \in displaced

(* The state has its types, and no live connection is left behind.         *)
AppSound == AppTypeOK /\ NoStrays

(* Whatever fails and is tried again, an agent gets a message once.        *)
AtMostOnce == \A m \in 1..LastMessage : reached[m].times <= 1

(* After "New conversation", a message goes to a context made since then   *)
(* until one is answered, whatever other results arrive meanwhile.         *)
NewConversationHeld ==
  \A m \in 1..LastMessage :
    reached[m].times > 0 /\ reached[m].floor # None
      => reached[m].context > reached[m].floor

(* A message stopped while its operation connects is never sent, whichever *)
(* way the connection comes.                                               *)
StopSticks ==
  [][ \A s \in Slots :
        ~ Free(s) /\ ops[s].aborted /\ ops[s].pc = "connect"
          => ops'[s].pc \in {"idle", "connect"} ]_vars

(* A secret is marked as lost only if the session that stored it ended     *)
(* (settings.ts:13).                                                       *)
LostOnlyWithSession ==
  [][ Here /\ Here'
        => LET secret == A.settings.secret
           IN  A'.settings.secret.lost /\ ~ secret.lost
                 => secret.ref[1] # session ]_vars
=============================================================================
