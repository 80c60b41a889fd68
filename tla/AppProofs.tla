------------------------------ MODULE AppProofs ------------------------------
(***************************************************************************)
(* Theorems about module App, for any number of operations at once and any *)
(* bounds: an agent gets a message at most once, a message stopped while   *)
(* its operation connects is never sent, no connection is left behind, and *)
(* a message after "New conversation" starts one.                          *)
(*                                                                         *)
(* The first two follow from the steps of an operation alone, whatever the *)
(* user, the agent's entry and the inspector do meanwhile (OnceInv).  The  *)
(* others add what the list of agents and the connections have to do with  *)
(* each other (LinkInv), and what the list remembers of the user's wish    *)
(* for a new conversation (FreshInv).                                      *)
(***************************************************************************)
EXTENDS App, FiniteSetTheorems, TLAPS

Fields == {"kind", "about", "agent", "pc", "cookie", "conn", "answer", "again",
           "aborted", "answered"}

IsOp(op) == DOMAIN op = Fields /\ op = [f \in Fields |-> op[f]]

(* Where an operation is, and the answers it can get there.                *)
Consistent(op) ==
  \/ op.pc = "connect" /\ op.answer.type \in {"none", "renewed", "error", "connected"}
  \/ op.pc = "call" /\ op.answer.type \in {"none", "renewed", "unknown", "error", "result"}
  \/ op.pc = "stream" /\ op.answer.type \in {"none", "result", "error", "end"}

(* The agent cannot have got the operation's message: only these may be    *)
(* tried again.                                                            *)
Undelivered(op) ==
  \/ op.pc = "connect"
  \/ op.pc = "call" /\ op.answer.type \notin {"result", "error"}

OpOK(op) ==
  /\ IsOp(op) /\ Consistent(op)
  /\ Sends(op) => /\ op.about \in 1..messages
                  /\ Undelivered(op) => reached[op.about].times = 0

(* The inductive invariant: an undelivered message was never delivered,    *)
(* and no two operations send the same one.                                *)
OnceInv ==
  /\ messages \in 0..LastMessage
  /\ reached = [m \in 1..LastMessage |-> reached[m]]
  /\ \A m \in 1..LastMessage :
       /\ DOMAIN reached[m] = {"times", "context", "floor"}
       /\ reached[m] = [f \in {"times", "context", "floor"} |-> reached[m][f]]
       /\ reached[m].times \in {0, 1}
       /\ m > messages => reached[m].times = 0
  /\ ops = [s \in Slots |-> ops[s]]
  /\ \A s \in Slots : ~ Free(s) => OpOK(ops[s])
  /\ \A s, t \in Slots : ~ Free(s) /\ ~ Free(t) /\ s # t
                           /\ Sends(ops[s]) /\ Sends(ops[t])
                             => ops[s].about # ops[t].about
-----------------------------------------------------------------------------
(* What becomes of an operation that connects, now or again: it is over,   *)
(* or waits for the answer to the same message.                            *)
Goes(op, next) ==
  \/ next = Idle
  \/ /\ IsOp(next) /\ Consistent(next)
     /\ next.kind = op.kind /\ next.about = op.about
     /\ Undelivered(next) => Undelivered(op)
     /\ op.aborted /\ op.pc = "connect" => next.pc = "connect"

LEMMA RequestGoes ==
  ASSUME NEW op, IsOp(op), Undelivered(op), NEW conn, NEW jar,
         NEW pc \in {"connect", "call"},
         op.aborted /\ op.pc = "connect" => pc = "connect"
  PROVE  Goes(op, Request(op, pc, conn, jar))
BY DEF IsOp, Fields, Undelivered, Goes, Consistent, Request, NoAnswer

LEMMA OverIsOver ==
  ASSUME NEW list, NEW op, NEW how
  PROVE  Over(list, op, how).op = Idle
BY DEF Over, Step

LEMMA ConnectGoes ==
  ASSUME NEW list, NEW op, IsOp(op), Undelivered(op), NEW jar
  PROVE  Goes(op, Connect(list, op, jar).op)
<1>1. CASE Refuses(op.agent)
  BY <1>1, OverIsOver DEF Connect, Goes
<1>2. CASE ~ Refuses(op.agent) /\ Reuses(op.agent)
  <2>1. CASE op.aborted
    BY <1>2, <2>1, OverIsOver DEF Connect, Goes
  <2>2. CASE ~ op.aborted
    <3>1. Connect(list, op, jar).op
            = Request(op, "call", op.agent.connection.id, jar)
      BY <1>2, <2>2 DEF Connect, Step
    <3> QED BY <3>1, <2>2, RequestGoes
  <2> QED BY <2>1, <2>2
<1>3. CASE ~ Refuses(op.agent) /\ ~ Reuses(op.agent)
  <2>1. Connect(list, op, jar).op = Request(op, "connect", None, jar)
    BY <1>3 DEF Connect, Step
  <2> QED BY <2>1, RequestGoes
<1> QED BY <1>1, <1>2, <1>3

LEMMA FailureGoes ==
  ASSUME NEW list, NEW op, IsOp(op), Consistent(op), NEW jar,
         \/ Undelivered(op)
         \/ op.answer.type \notin {"renewed", "unknown"}
  PROVE  Goes(op, Failure(list, op, jar).op)
<1> DEFINE retry(agent) == [op EXCEPT !.again = TRUE, !.agent = agent]
<1>1. ASSUME NEW agent, Undelivered(op)
      PROVE  Goes(op, Connect(list, retry(agent), jar).op)
  <2>1. /\ IsOp(retry(agent)) /\ Undelivered(retry(agent))
        /\ retry(agent).kind = op.kind /\ retry(agent).about = op.about
        /\ retry(agent).aborted = op.aborted /\ retry(agent).pc = op.pc
    BY <1>1 DEF IsOp, Fields, Undelivered
  <2>2. Goes(retry(agent), Connect(list, retry(agent), jar).op)
    BY <2>1, ConnectGoes
  <2> QED BY <2>1, <2>2, <1>1 DEF Goes
<1>2. CASE ~ op.again /\ op.answer.type = "renewed"
  <2>1. Failure(list, op, jar) = Connect(list, retry(AfterSessionLoss(op.agent)), jar)
    BY <1>2 DEF Failure
  <2> QED BY <1>1, <1>2, <2>1
<1>3. CASE /\ ~ (~ op.again /\ op.answer.type = "renewed")
           /\ ~ op.again /\ op.answer.type = "unknown"
           /\ op.agent.connection # None
  <2>1. Failure(list, op, jar) = Connect(list, retry(WithoutConnection(op.agent)), jar)
    BY <1>3 DEF Failure
  <2> QED BY <1>1, <1>3, <2>1
<1>4. CASE /\ ~ (~ op.again /\ op.answer.type = "renewed")
           /\ ~ (~ op.again /\ op.answer.type = "unknown"
                  /\ op.agent.connection # None)
  BY <1>4, OverIsOver DEF Failure, Goes
<1> QED BY <1>2, <1>3, <1>4

LEMMA EstablishGoes ==
  ASSUME NEW list, NEW op, IsOp(op), op.pc = "connect", NEW gone, NEW jar
  PROVE  Goes(op, Establish(list, op, gone, jar).op)
<1>1. CASE gone
  BY <1>1, OverIsOver DEF Establish, Goes, Over, Step
<1>2. CASE ~ gone /\ op.aborted
  BY <1>2, OverIsOver DEF Establish, Goes
<1>3. CASE ~ gone /\ ~ op.aborted
  <2>1. Establish(list, op, gone, jar).op = Request(op, "call", op.answer.conn, jar)
    BY <1>3 DEF Establish, Step
  <2>2. Undelivered(op) BY DEF Undelivered
  <2> QED BY <2>1, <2>2, <1>3, RequestGoes
<1> QED BY <1>1, <1>2, <1>3

LEMMA ResultGoes ==
  ASSUME NEW list, NEW op, IsOp(op), op.pc # "connect"
  PROVE  Goes(op, Result(list, op).op)
<1> DEFINE heard == [op EXCEPT !.answered = @ \/ op.answer.ok]
           next == [heard EXCEPT !.pc = "stream", !.answer = NoAnswer]
<1>1. Result(list, op).op \in {Idle, next}
  BY OverIsOver DEF Result, Step
<1>2. Goes(op, next)
  BY DEF IsOp, Fields, Undelivered, Goes, Consistent, NoAnswer
<1> QED BY <1>1, <1>2 DEF Goes

LEMMA AbortGoes ==
  ASSUME NEW list, NEW op, IsOp(op), Consistent(op)
  PROVE  Goes(op, Abort(list, op).op)
<1>1. CASE op.pc = "connect"
  BY <1>1 DEF Abort, Step, IsOp, Fields, Undelivered, Goes, Consistent
<1>2. CASE op.pc # "connect"
  BY <1>2, OverIsOver DEF Abort, Goes
<1> QED BY <1>1, <1>2
-----------------------------------------------------------------------------
(* Operations that go on as above keep the invariant and obey Stop.        *)
Sticks ==
  \A s \in Slots :
    ~ Free(s) /\ ops[s].aborted /\ ops[s].pc = "connect"
      => ops'[s].pc \in {"idle", "connect"}

LEMMA GoingKeeps ==
  ASSUME OnceInv, UNCHANGED <<messages, reached>>,
         ops' = [s \in Slots |-> ops'[s]],
         \A s \in Slots : IF Free(s) THEN ops'[s].pc = "idle"
                          ELSE Goes(ops[s], ops'[s])
  PROVE  OnceInv' /\ Sticks
<1>1. ASSUME NEW s \in Slots, ~ Free(s)'
      PROVE  /\ ~ Free(s) /\ OpOK(ops[s])' /\ Sends(ops[s])' = Sends(ops[s])
             /\ ops'[s].about = ops[s].about
  BY <1>1 DEF OnceInv, Goes, OpOK, Sends, Free, Idle
<1>2. OnceInv'
  BY <1>1 DEF OnceInv, Free
<1>3. Sticks
  BY DEF Sticks, Goes, Idle
<1> QED BY <1>2, <1>3

(* One operation goes on.                                                  *)
LEMMA OneGoes ==
  ASSUME OnceInv, UNCHANGED <<messages, reached>>, NEW s \in Slots, ~ Free(s),
         NEW next, ops' = [ops EXCEPT ![s] = next], Goes(ops[s], next)
  PROVE  OnceInv' /\ Sticks
<1>1. ops' = [t \in Slots |-> ops'[t]] BY DEF OnceInv
<1>2. ASSUME NEW t \in Slots
      PROVE  IF Free(t) THEN ops'[t].pc = "idle" ELSE Goes(ops[t], ops'[t])
  BY <1>2 DEF OnceInv, Goes, OpOK, Free
<1> QED BY <1>1, <1>2, GoingKeeps

(* An answer to what an operation asked.                                   *)
LEMMA ReplyGoes ==
  ASSUME NEW op, IsOp(op), Consistent(op), Waits(op), NEW answer,
         Consistent([op EXCEPT !.answer = answer])
  PROVE  Goes(op, [op EXCEPT !.answer = answer])
BY DEF IsOp, Fields, Consistent, Waits, Undelivered, Goes

LEMMA ReplyKeeps ==
  ASSUME OnceInv, UNCHANGED <<messages, reached>>, NEW s \in Slots, ~ Free(s),
         Waits(ops[s]), NEW answer, Replies(s, answer),
         Consistent([ops[s] EXCEPT !.answer = answer])
  PROVE  OnceInv' /\ Sticks
<1>1. IsOp(ops[s]) /\ Consistent(ops[s]) BY DEF OnceInv, OpOK
<1>2. Goes(ops[s], [ops[s] EXCEPT !.answer = answer]) BY <1>1, ReplyGoes
<1>3. ops' = [ops EXCEPT ![s] = [ops[s] EXCEPT !.answer = answer]]
  BY DEF Replies, OnceInv
<1> QED BY <1>2, <1>3, OneGoes

LEMMA GoesOnReplies ==
  ASSUME NEW s \in Slots, NEW conv, GoesOn(s, conv)
  PROVE  \E answer : Replies(s, answer) /\ answer.type \in {"result", "error"}
<1> DEFINE good(answer) == Replies(s, answer) /\ answer.type \in {"result", "error"}
<1>1. ASSUME NEW last, NEW ok, Replies(s, Answer("result", None, conv, last, ok))
      PROVE  \E answer : good(answer)
  <2>1. Answer("result", None, conv, last, ok).type = "result" BY DEF Answer
  <2> QED BY <1>1, <2>1
<1>2. ASSUME Replies(s, Plain("error"))
      PROVE  \E answer : good(answer)
  <2>1. Plain("error").type = "error" BY DEF Plain, Answer
  <2> QED BY <1>2, <2>1
<1> QED BY <1>1, <1>2 DEF GoesOn

(* A new operation takes a free slot.                                      *)
LEMMA StartGoes ==
  ASSUME NEW s \in Slots, NEW kind, NEW about, NEW list, Start(s, kind, about, list)
  PROVE  /\ Free(s)
         /\ \E next : ops' = [ops EXCEPT ![s] = next] /\ Goes(Op(kind, about), next)
<1>1. IsOp(Op(kind, about)) /\ Undelivered(Op(kind, about))
  BY DEF Op, IsOp, Fields, Undelivered
<1>2. Goes(Op(kind, about), Connect(list, Op(kind, about), cookie).op)
  BY <1>1, ConnectGoes
<1> QED BY <1>2 DEF Start, Take

LEMMA StartKeeps ==
  ASSUME OnceInv, UNCHANGED <<messages, reached>>, NEW s \in Slots, NEW kind,
         kind # "send", NEW about, NEW list, Start(s, kind, about, list)
  PROVE  OnceInv' /\ Sticks
<1>1. /\ Free(s)
      /\ \E next : ops' = [ops EXCEPT ![s] = next] /\ Goes(Op(kind, about), next)
  BY StartGoes
<1>2. PICK next : ops' = [ops EXCEPT ![s] = next] /\ Goes(Op(kind, about), next)
  BY <1>1
<1>3. next = Idle \/ (IsOp(next) /\ Consistent(next) /\ ~ Sends(next))
  BY <1>2 DEF Goes, Op, Sends
<1>4. OnceInv' BY <1>1, <1>2, <1>3 DEF OnceInv, OpOK, Free, Sends, Idle
<1>5. Sticks BY <1>1, <1>2 DEF OnceInv, Sticks, Free
<1> QED BY <1>4, <1>5

(* A message is new, so it was not delivered and nobody else sends it.     *)
LEMMA SendKeeps ==
  ASSUME OnceInv, NEW s \in Slots, Send(s)
  PROVE  OnceInv' /\ Sticks
<1> DEFINE m == messages + 1
<1>1. /\ messages' = m
      /\ reached' = [reached EXCEPT ![m].floor = asked]
      /\ m \in 1..LastMessage
  BY AppAssumption DEF Send, OnceInv
<1>2. /\ Free(s)
      /\ \E next : ops' = [ops EXCEPT ![s] = next] /\ Goes(Op("send", m), next)
  BY StartGoes DEF Send
<1>3. PICK next : ops' = [ops EXCEPT ![s] = next] /\ Goes(Op("send", m), next)
  BY <1>2
<1>4. next = Idle \/ (IsOp(next) /\ Consistent(next) /\ next.about = m)
  BY <1>3 DEF Goes, Op
<1>5. /\ reached' = [k \in 1..LastMessage |-> reached'[k]]
      /\ \A k \in 1..LastMessage :
           /\ DOMAIN reached'[k] = {"times", "context", "floor"}
           /\ reached'[k] = [f \in {"times", "context", "floor"} |-> reached'[k][f]]
           /\ reached'[k].times = reached[k].times
  BY <1>1 DEF OnceInv
<1>6. \A t \in Slots : ~ Free(t)' => OpOK(ops[t])'
  <2> TAKE t \in Slots
  <2>1. CASE t = s
    BY <2>1, <1>1, <1>3, <1>4, <1>5 DEF OnceInv, OpOK, Free, Idle
  <2>2. CASE t # s
    BY <2>2, <1>1, <1>3, <1>5 DEF OnceInv, OpOK, Free, Sends
  <2> QED BY <2>1, <2>2
<1>7. \A t, u \in Slots :
        ~ Free(t)' /\ ~ Free(u)' /\ t # u
          /\ Sends(ops[t])' /\ Sends(ops[u])' => ops'[t].about # ops'[u].about
  BY <1>1, <1>3, <1>4 DEF OnceInv, OpOK, Free, Sends, Idle
<1>8. OnceInv' BY <1>1, <1>3, <1>5, <1>6, <1>7 DEF OnceInv, Free
<1>9. Sticks BY <1>2, <1>3 DEF OnceInv, Sticks, Free
<1> QED BY <1>8, <1>9

(* A message that arrives is answered, or its operation fails: either way  *)
(* it can no longer be tried again.                                        *)
LEMMA DeliverKeeps ==
  ASSUME OnceInv, NEW s \in Slots, Deliver(s)
  PROVE  OnceInv' /\ Sticks
<1> DEFINE m == ops[s].about
<1>1. /\ ~ Free(s) /\ Sends(ops[s]) /\ ops[s].pc = "call" /\ Waits(ops[s])
      /\ messages' = messages
      /\ \E context : reached' = [reached EXCEPT ![m].times = @ + 1,
                                               ![m].context = context]
      /\ \E conv : GoesOn(s, conv)
  BY DEF Deliver, userVars
<1>2. PICK answer : Replies(s, answer) /\ answer.type \in {"result", "error"}
  BY <1>1, GoesOnReplies
<1>3. /\ IsOp(ops[s]) /\ m \in 1..LastMessage /\ m \in 1..messages
      /\ reached[m].times = 0
  <2>1. OpOK(ops[s]) BY <1>1 DEF OnceInv
  <2>2. Undelivered(ops[s]) BY <1>1 DEF Undelivered, Waits
  <2>3. messages \in 0..LastMessage /\ LastMessage \in Nat
    BY AppAssumption DEF OnceInv
  <2>4. IsOp(ops[s]) /\ m \in 1..messages /\ reached[m].times = 0
    BY <1>1, <2>1, <2>2 DEF OpOK
  <2> QED BY <2>3, <2>4
<1>13. PICK context : reached' = [reached EXCEPT ![m].times = @ + 1,
                                                ![m].context = context]
  BY <1>1
<1> DEFINE after == [reached[m] EXCEPT !.times = 1, !.context = context]
<1>14. /\ reached' = [k \in 1..LastMessage |-> reached'[k]]
       /\ \A k \in (1..LastMessage) \ {m} : reached'[k] = reached[k]
       /\ reached'[m] = after
  <2>1. reached[m].times + 1 = 1 BY <1>3
  <2>2. reached = [k \in 1..LastMessage |-> reached[k]] BY DEF OnceInv
  <2>3. DOMAIN reached[m] = {"times", "context", "floor"} BY <1>3 DEF OnceInv
  <2> QED BY <1>3, <1>13, <2>1, <2>2, <2>3
<1>15. /\ DOMAIN after = {"times", "context", "floor"}
       /\ after = [f \in {"times", "context", "floor"} |-> after[f]]
       /\ after.times = 1
  BY <1>3 DEF OnceInv
<1>4. \A k \in 1..LastMessage :
        /\ DOMAIN reached'[k] = {"times", "context", "floor"}
        /\ reached'[k] = [f \in {"times", "context", "floor"} |-> reached'[k][f]]
        /\ reached'[k].times = IF k = m THEN 1 ELSE reached[k].times
  <2> HIDE DEF after
  <2> TAKE k \in 1..LastMessage
  <2>1. CASE k = m BY <1>14, <1>15, <2>1
  <2>2. CASE k # m BY <1>14, <2>2 DEF OnceInv
  <2> QED BY <2>1, <2>2
<1>5. /\ ops' = [t \in Slots |-> ops'[t]]
      /\ \A t \in Slots \ {s} : ops'[t] = ops[t]
      /\ ops'[s] = [ops[s] EXCEPT !.answer = answer]
  BY <1>2 DEF OnceInv, Replies
<1>6. /\ IsOp(ops'[s]) /\ ops'[s].pc = "call" /\ ops'[s].answer = answer
      /\ ops'[s].kind = ops[s].kind /\ ops'[s].about = m
  BY <1>1, <1>3, <1>5 DEF IsOp, Fields
<1>7. OpOK(ops[s])'
  BY <1>1, <1>2, <1>3, <1>6 DEF OpOK, Consistent, Undelivered, Sends
<1>8. \A t \in Slots \ {s} : ~ Free(t) => OpOK(ops[t])'
  <2> SUFFICES ASSUME NEW t \in Slots \ {s}, ~ Free(t) PROVE OpOK(ops[t])'
    OBVIOUS
  <2>1. OpOK(ops[t]) /\ ops'[t] = ops[t] BY <1>5 DEF OnceInv
  <2>2. Sends(ops[t]) => ops[t].about # m BY <1>1 DEF OnceInv
  <2>3. messages \in Nat /\ LastMessage \in Nat /\ messages <= LastMessage
    BY AppAssumption DEF OnceInv
  <2>4. Sends(ops[t]) => ops[t].about \in 1..LastMessage
    BY <2>1, <2>3 DEF OpOK
  <2> QED BY <1>1, <1>4, <2>1, <2>2, <2>4 DEF OpOK, Sends
<1>9. OnceInv'
  <2>1. \A k \in 1..LastMessage : /\ reached'[k].times \in {0, 1}
                                  /\ k > messages' => reached'[k].times = 0
    <3>1. messages \in Nat /\ LastMessage \in Nat
      BY AppAssumption DEF OnceInv
    <3> TAKE k \in 1..LastMessage
    <3>2. CASE k = m
      <4>1. reached'[k].times = 1 BY <1>4, <3>2
      <4>2. ~ k > messages BY <1>3, <3>1, <3>2
      <4>3. messages' = messages BY <1>1
      <4> QED BY <4>1, <4>2, <4>3
    <3>3. CASE k # m BY <1>1, <1>4, <3>3 DEF OnceInv
    <3> QED BY <3>2, <3>3
  <2>2. \A t \in Slots : ~ Free(t)' => OpOK(ops[t])'
    BY <1>5, <1>7, <1>8 DEF Free
  <2>3. \A t, u \in Slots :
          ~ Free(t)' /\ ~ Free(u)' /\ t # u /\ Sends(ops[t])' /\ Sends(ops[u])'
            => ops'[t].about # ops'[u].about
    <3>1. ASSUME NEW t \in Slots, ~ Free(t)'
          PROVE  ~ Free(t) /\ Sends(ops[t])' = Sends(ops[t])
                 /\ ops'[t].about = ops[t].about
      BY <1>1, <1>5, <1>6, <3>1 DEF Free, Sends
    <3> QED BY <3>1 DEF OnceInv
  <2> QED BY <1>1, <1>4, <1>5, <1>14, <2>1, <2>2, <2>3 DEF OnceInv
<1>10. Sticks BY <1>1, <1>5 DEF Sticks
<1> QED BY <1>9, <1>10
-----------------------------------------------------------------------------
LEMMA InitOnce ==
  ASSUME AppInit
  PROVE  OnceInv
<1>1. messages = 0 /\ ops = [s \in Slots |-> Idle]
      /\ reached = [m \in 1..LastMessage |->
                      [times |-> 0, context |-> None, floor |-> None]]
  BY DEF AppInit
<1>2. messages \in 0..LastMessage BY <1>1, AppAssumption
<1> QED BY <1>1, <1>2 DEF OnceInv, Free, Idle

(* The user's steps.                                                       *)
LEMMA UserKeeps ==
  ASSUME OnceInv, User
  PROVE  OnceInv' /\ Sticks
<1> USE DEF Click
<1>1. ASSUME NEW s \in Slots, Send(s) PROVE OnceInv' /\ Sticks
  BY <1>1, SendKeeps
<1>2. ASSUME NEW s \in Slots, FetchExtendedCard(s) PROVE OnceInv' /\ Sticks
  <2>1. Start(s, "card", None, ExtendedCard(agents, Agent, "loading"))
        /\ UNCHANGED <<messages, reached>>
    BY <1>2 DEF FetchExtendedCard
  <2> QED BY <2>1, StartKeeps
<1>3. ASSUME NEW s \in Slots, Subscribe(s) PROVE OnceInv' /\ Sticks
  <2>1. PICK task : Start(s, "subscribe", task, Subscribed(agents, Agent, task, TRUE))
    BY <1>3 DEF Subscribe
  <2>2. UNCHANGED <<messages, reached>> BY <1>3 DEF Subscribe
  <2> QED BY <2>1, <2>2, StartKeeps
<1>4. ASSUME NEW s \in Slots, Stop(s) PROVE OnceInv' /\ Sticks
  <2>1. /\ ~ Free(s) /\ UNCHANGED <<messages, reached>>
        /\ ops' = [ops EXCEPT ![s] = Abort(agents, ops[s]).op]
    BY <1>4 DEF Stop, Take
  <2>2. Goes(ops[s], Abort(agents, ops[s]).op)
    BY <2>1, AbortGoes DEF OnceInv, OpOK
  <2> QED BY <2>1, <2>2, OneGoes
<1>5. ASSUME AskNewConversation \/ AskNewTask \/ EditSettings
      PROVE  OnceInv' /\ Sticks
  <2>1. UNCHANGED <<ops, messages, reached>>
    BY <1>5 DEF AskNewConversation, AskNewTask, EditSettings
  <2> QED BY <2>1 DEF OnceInv, OpOK, Free, Sticks
<1>6. ASSUME RemoveAgent PROVE OnceInv' /\ Sticks
  <2>1. /\ UNCHANGED <<messages, reached>>
        /\ ops' = [s \in Slots |->
                     IF Free(s) THEN Idle
                     ELSE IF ops[s].kind = "card" THEN ops[s]
                     ELSE Abort(agents, ops[s]).op]
    BY <1>6 DEF RemoveAgent
  <2>2. ASSUME NEW s \in Slots
        PROVE  IF Free(s) THEN ops'[s].pc = "idle" ELSE Goes(ops[s], ops'[s])
    <3>1. CASE Free(s) BY <2>1, <3>1 DEF Idle
    <3>2. CASE ~ Free(s)
      <4>1. IsOp(ops[s]) /\ Consistent(ops[s]) BY <3>2 DEF OnceInv, OpOK
      <4>2. Goes(ops[s], ops[s]) BY <4>1 DEF Goes
      <4>3. Goes(ops[s], Abort(agents, ops[s]).op) BY <4>1, AbortGoes
      <4> QED BY <2>1, <3>2, <4>2, <4>3
    <3> QED BY <3>1, <3>2
  <2>3. ops' = [s \in Slots |-> ops'[s]] BY <2>1
  <2> QED BY <2>1, <2>2, <2>3, GoingKeeps
<1> QED BY <1>1, <1>2, <1>3, <1>4, <1>5, <1>6 DEF User

(* The inspector's steps.                                                  *)
LEMMA BackendKeeps ==
  ASSUME OnceInv, Backend
  PROVE  OnceInv' /\ Sticks
<1> USE DEF userVars, Event
<1>1. ASSUME NEW s \in Slots, ~ Free(s), Waits(ops[s]), NEW answer,
             Replies(s, answer), UNCHANGED <<messages, reached>>,
             \/ ops[s].pc = "connect"
                  /\ answer.type \in {"renewed", "error", "connected"}
             \/ ops[s].pc = "call"
                  /\ answer.type \in {"renewed", "unknown", "error", "result"}
             \/ ops[s].pc = "stream" /\ answer.type \in {"result", "error", "end"}
      PROVE  OnceInv' /\ Sticks
  <2>1. IsOp(ops[s]) BY <1>1 DEF OnceInv, OpOK
  <2>2. Consistent([ops[s] EXCEPT !.answer = answer])
    BY <1>1, <2>1 DEF IsOp, Fields, Consistent
  <2> QED BY <1>1, <2>2, ReplyKeeps
<1>2. ASSUME NEW s \in Slots, ServeConnect(s) PROVE OnceInv' /\ Sticks
  <2>1. ~ Free(s) /\ ops[s].pc = "connect" /\ Waits(ops[s])
        /\ UNCHANGED <<messages, reached>>
    BY <1>2 DEF ServeConnect
  <2>2. \E answer : Replies(s, answer)
                      /\ answer.type \in {"renewed", "error", "connected"}
    <3> DEFINE good(a) == Replies(s, a) /\ a.type \in {"renewed", "error", "connected"}
               found(conn, conv, ref) ==
                 [Answer("connected", conn, conv, TRUE, TRUE) EXCEPT !.ref = ref]
    <3>1. \/ Replies(s, Plain("renewed")) \/ Replies(s, Plain("error"))
          \/ \E conn, conv, ref : Replies(s, found(conn, conv, ref))
      BY <1>2 DEF ServeConnect
    <3>2. Plain("renewed").type = "renewed" /\ Plain("error").type = "error"
      BY DEF Plain, Answer
    <3>3. ASSUME NEW conn, NEW conv, NEW ref, Replies(s, found(conn, conv, ref))
          PROVE  good(found(conn, conv, ref))
      <4>1. found(conn, conv, ref).type = "connected" BY DEF Answer
      <4> QED BY <3>3, <4>1
    <3>4. (\E conn, conv, ref : Replies(s, found(conn, conv, ref))) => \E a : good(a)
      <4> HIDE DEF good, found
      <4> QED BY <3>3
    <3>5. Replies(s, Plain("renewed")) => good(Plain("renewed")) BY <3>2
    <3>6. Replies(s, Plain("error")) => good(Plain("error")) BY <3>2
    <3>7. \E a : good(a)
      <4> HIDE DEF good
      <4> QED BY <3>1, <3>4, <3>5, <3>6
    <3> QED BY <3>7
  <2> QED BY <1>1, <2>1, <2>2
<1>3. ASSUME NEW s \in Slots, RefuseCall(s) PROVE OnceInv' /\ Sticks
  <2>1. ~ Free(s) /\ ops[s].pc = "call" /\ Waits(ops[s])
        /\ UNCHANGED <<messages, reached>>
    BY <1>3 DEF RefuseCall
  <2>2. Replies(s, Plain("renewed")) \/ Replies(s, Plain("unknown"))
    BY <1>3 DEF RefuseCall
  <2>3. Plain("renewed").type = "renewed" /\ Plain("unknown").type = "unknown"
    BY DEF Plain, Answer
  <2> QED BY <1>1, <2>1, <2>2, <2>3
<1>4. ASSUME NEW s \in Slots, Deliver(s) PROVE OnceInv' /\ Sticks
  BY <1>4, DeliverKeeps
<1>5. ASSUME NEW s \in Slots, ServeCall(s) PROVE OnceInv' /\ Sticks
  <2>1. ~ Free(s) /\ ops[s].pc = "call" /\ Waits(ops[s])
        /\ UNCHANGED <<messages, reached>> /\ \E conv : GoesOn(s, conv)
    BY <1>5 DEF ServeCall
  <2> QED BY <1>1, <2>1, GoesOnReplies
<1>6. ASSUME NEW s \in Slots, ServeStream(s) PROVE OnceInv' /\ Sticks
  <2>1. ~ Free(s) /\ ops[s].pc = "stream" /\ Waits(ops[s])
        /\ UNCHANGED <<messages, reached>>
        /\ ((\E conv : GoesOn(s, conv)) \/ Replies(s, Plain("end")))
    BY <1>6 DEF ServeStream
  <2>2. Plain("end").type = "end" BY DEF Plain, Answer
  <2> QED BY <1>1, <2>1, <2>2, GoesOnReplies
<1>7. ASSUME ServeDisconnect \/ SessionEnds \/ MakeRoom \/ Notify
      PROVE  OnceInv' /\ Sticks
  <2>1. UNCHANGED <<ops, messages, reached>>
    BY <1>7 DEF ServeDisconnect, SessionEnds, MakeRoom, Notify, uiVars
  <2> QED BY <2>1 DEF OnceInv, OpOK, Free, Sticks
<1> QED BY <1>2, <1>3, <1>4, <1>5, <1>6, <1>7 DEF Backend

(* What the UI does with answers.                                          *)
LEMMA ReceiveKeeps ==
  ASSUME OnceInv, NEW s \in Slots, Receive(s)
  PROVE  OnceInv' /\ Sticks
<1> USE DEF userVars
<1>1. ~ Free(s) BY DEF Receive, ReceiveConnected, ReceiveRenewed, ReceiveError,
                       ReceiveResult, ReceiveEnd, Receives
<1>2. IsOp(ops[s]) /\ Consistent(ops[s]) BY <1>1 DEF OnceInv, OpOK
<1>3. UNCHANGED <<messages, reached>>
  BY DEF Receive, ReceiveConnected, ReceiveRenewed, ReceiveError,
         ReceiveResult, ReceiveEnd
<1>4. \E next : ops' = [ops EXCEPT ![s] = next] /\ Goes(ops[s], next)
  <2>1. CASE ReceiveConnected(s)
    <3>1. ops[s].pc = "connect"
      BY <2>1, <1>2 DEF ReceiveConnected, Receives, Consistent
    <3>2. ops' = [ops EXCEPT ![s] =
                    Establish(agents, ops[s], Agent \in removed, cookie).op]
      BY <2>1 DEF ReceiveConnected, Take
    <3> QED BY <1>2, <3>1, <3>2, EstablishGoes
  <2>2. CASE ReceiveRenewed(s)
    <3>1. Undelivered(ops[s])
      BY <2>2, <1>2 DEF ReceiveRenewed, Receives, Consistent, Undelivered
    <3>2. ops' = [ops EXCEPT ![s] = Failure(SessionReset(agents), ops[s], cookie').op]
      BY <2>2 DEF ReceiveRenewed, Take
    <3> QED BY <1>2, <3>1, <3>2, FailureGoes
  <2>3. CASE ReceiveError(s)
    <3>1. Undelivered(ops[s]) \/ ops[s].answer.type \notin {"renewed", "unknown"}
      BY <2>3, <1>2 DEF ReceiveError, Receives, Consistent, Undelivered
    <3>2. ops' = [ops EXCEPT ![s] = Failure(agents, ops[s], cookie).op]
      BY <2>3 DEF ReceiveError, Take
    <3> QED BY <1>2, <3>1, <3>2, FailureGoes
  <2>4. CASE ReceiveResult(s)
    <3>1. ops[s].pc # "connect"
      BY <2>4, <1>2 DEF ReceiveResult, Receives, Consistent
    <3>2. ops' = [ops EXCEPT ![s] = Result(agents, ops[s]).op]
      BY <2>4 DEF ReceiveResult, Take
    <3> QED BY <1>2, <3>1, <3>2, ResultGoes
  <2>5. CASE ReceiveEnd(s)
    <3>1. ops' = [ops EXCEPT ![s] = Over(agents, ops[s], "done").op]
      BY <2>5 DEF ReceiveEnd, Take
    <3> QED BY <3>1, OverIsOver DEF Goes
  <2> QED BY <2>1, <2>2, <2>3, <2>4, <2>5 DEF Receive
<1> QED BY <1>1, <1>3, <1>4, OneGoes

LEMMA NextKeeps ==
  ASSUME OnceInv, [Next]_vars
  PROVE  OnceInv' /\ Sticks
<1>1. CASE User BY <1>1, UserKeeps
<1>2. CASE Backend BY <1>2, BackendKeeps
<1>3. ASSUME NEW s \in Slots, Receive(s) PROVE OnceInv' /\ Sticks
  BY <1>3, ReceiveKeeps
<1>4. CASE HearDisconnect \/ HearNotification \/ UNCHANGED vars
  <2>1. UNCHANGED <<ops, messages, reached>>
    BY <1>4 DEF HearDisconnect, HearNotification, vars, uiVars, userVars
  <2> QED BY <2>1 DEF OnceInv, OpOK, Free, Sticks
<1> QED BY <1>1, <1>2, <1>3, <1>4 DEF Next

(* At every step of any operation, what is undelivered was never          *)
(* delivered, and only one operation sends a message.                      *)
THEOREM AppOnce == Spec => []OnceInv
<1>1. AppInit => OnceInv BY InitOnce
<1>2. OnceInv /\ [Next]_vars => OnceInv' BY NextKeeps
<1> QED BY <1>1, <1>2, PTL DEF Spec

(* Whatever fails and is tried again, an agent gets a message at most once *)
(* (withConnection of App.tsx).                                            *)
THEOREM AppDeliversOnce == Spec => []AtMostOnce
<1>1. OnceInv => AtMostOnce BY DEF OnceInv, AtMostOnce
<1> QED BY <1>1, AppOnce, PTL

(* A message stopped while its operation connects is never sent (send of   *)
(* App.tsx, with the abort signal that connect does not get).              *)
THEOREM AppStops == Spec => StopSticks
<1>1. OnceInv /\ [Next]_vars => [Sticks]_vars BY NextKeeps
<1>2. [Sticks]_vars =>
        [\A s \in Slots :
           ~ Free(s) /\ ops[s].aborted /\ ops[s].pc = "connect"
             => ops'[s].pc \in {"idle", "connect"}]_vars
  BY DEF Sticks
<1> QED BY <1>1, <1>2, AppOnce, PTL DEF Spec, StopSticks
-----------------------------------------------------------------------------
(* The list.  It has the agent or nothing; of the agent's entry only these *)
(* fields matter here, and what reducers do to others is left folded.      *)
Names == {"id", "shared", "connection", "settings", "resume", "resetContext"}

SettingsOK(s) ==
  /\ "secret" \in DOMAIN s /\ "ref" \in DOMAIN s.secret
  /\ s.secret.ref \in Refs \cup {None}

EntryOK(a) ==
  /\ Names \subseteq DOMAIN a
  /\ a.id = Agent /\ a.shared = FALSE
  /\ a.connection \in Links \cup {None}
  /\ a.resume \in Convs \cup {None}
  /\ SettingsOK(a.settings)

ListOK(l) == l = <<>> \/ (l = <<l[1]>> /\ EntryOK(l[1]))

(* l has the agent with a connection of this number.                       *)
Held(l, c) == l # <<>> /\ l[1].connection # None /\ l[1].connection.id = c

(* After l comes m, with the same connection and a reset that stays.       *)
Kept(l, m) ==
  /\ ListOK(m) /\ (m = <<>> <=> l = <<>>)
  /\ \A c : Held(m, c) <=> Held(l, c)
  /\ l # <<>> /\ l[1].resetContext = TRUE => m[1].resetContext = TRUE

LEMMA KeptSame ==
  ASSUME NEW l, ListOK(l)
  PROVE  Kept(l, l)
BY DEF Kept

LEMMA KeptAgain ==
  ASSUME NEW l, NEW m, NEW n, Kept(l, m), Kept(m, n)
  PROVE  Kept(l, n)
BY DEF Kept

LEMMA OneList ==
  ASSUME NEW a, NEW f, f = [i \in DOMAIN <<a>> |-> f[i]]
  PROVE  f = <<f[1]>>
<1>1. DOMAIN <<a>> = {1} OBVIOUS
<1>2. DOMAIN <<f[1]>> = {1} /\ <<f[1]>> = [i \in {1} |-> f[1]] OBVIOUS
<1> QED BY <1>1, <1>2

LEMMA NoList ==
  ASSUME NEW f, f = [i \in DOMAIN <<>> |-> f[i]]
  PROVE  f = <<>>
<1>1. DOMAIN <<>> = {} OBVIOUS
<1>2. <<>> = [i \in {} |-> i] OBVIOUS
<1> QED BY <1>1, <1>2

LEMMA EntryOfOne ==
  ASSUME NEW a, a.id = Agent
  PROVE  Entry(<<a>>, Agent) = a /\ Has(<<a>>, Agent)
<1>1. DOMAIN <<a>> = {1} /\ <<a>>[1] = a OBVIOUS
<1>2. {i \in DOMAIN <<a>> : <<a>>[i].id = Agent} = {1} BY <1>1
<1>3. Min({1}) = 1 BY DEF Min
<1>4. Entry(<<a>>, Agent) = a BY <1>1, <1>2, <1>3 DEF Entry, FirstAt
<1> QED BY <1>1, <1>4 DEF Has

LEMMA NotInEmpty == ~ Has(<<>>, Agent)
BY DEF Has

(* A step that changes another field.                                      *)
Changes(l, m) ==
  /\ l = <<>> => m = <<>>
  /\ l # <<>> => \E f, v : f \notin Names /\ m = <<[l[1] EXCEPT ![f] = v]>>

LEMMA ChangeKeeps ==
  ASSUME NEW l, ListOK(l), NEW m, Changes(l, m)
  PROVE  Kept(l, m)
<1>1. CASE l = <<>>
  BY <1>1 DEF Changes, Kept, ListOK, Held
<1>2. CASE l # <<>>
  <2>1. PICK f, v : f \notin Names /\ m = <<[l[1] EXCEPT ![f] = v]>>
    BY <1>2 DEF Changes
  <2>2. l = <<l[1]>> /\ EntryOK(l[1]) BY <1>2 DEF ListOK
  <2> DEFINE a == l[1]
             b == [a EXCEPT ![f] = v]
  <2>3. /\ DOMAIN b = DOMAIN a /\ b.id = a.id /\ b.shared = a.shared
        /\ b.connection = a.connection /\ b.settings = a.settings
        /\ b.resume = a.resume /\ b.resetContext = a.resetContext
    BY <2>1, <2>2 DEF EntryOK, Names
  <2>4. m = <<b>> /\ m[1] = b /\ m # <<>> BY <2>1
  <2> HIDE DEF b
  <2>5. EntryOK(b) BY <2>2, <2>3 DEF EntryOK
  <2>6. ListOK(m) BY <2>4, <2>5 DEF ListOK
  <2> QED BY <1>2, <2>2, <2>3, <2>4, <2>6 DEF Kept, Held
<1> QED BY <1>1, <1>2
-----------------------------------------------------------------------------
(* What the reducers change of the entry.                                  *)
LEMMA PatchKeeps ==
  ASSUME NEW l, ListOK(l), NEW m, m = [i \in DOMAIN l |-> m[i]],
         NEW f, f \notin Names, NEW v, l # <<>> => m[1] = [l[1] EXCEPT ![f] = v]
  PROVE  Kept(l, m)
<1>1. l = <<>> => m = <<>> BY NoList
<1>2. ASSUME l # <<>> PROVE m = <<m[1]>>
  <2>1. l = <<l[1]>> BY <1>2 DEF ListOK
  <2> QED BY <2>1, OneList
<1>3. l # <<>> => m = <<[l[1] EXCEPT ![f] = v]>> BY <1>2
<1>4. Changes(l, m) BY <1>1, <1>3, Zenon DEF Changes
<1> QED BY <1>4, ChangeKeeps

LEMMA BusyKeeps ==
  ASSUME NEW l, ListOK(l), NEW busy
  PROVE  Kept(l, Busy(l, Agent, busy))
<1> DEFINE m == Busy(l, Agent, busy)
           v == busy
<1>1. m = [i \in DOMAIN l |-> m[i]] BY DEF Busy, Patch
<1>2. ASSUME l # <<>> PROVE m[1] = [l[1] EXCEPT !.busy = v]
  <2>1. 1 \in DOMAIN l /\ l[1].id = Agent BY <1>2 DEF ListOK, EntryOK
  <2> QED BY <2>1 DEF Busy, Patch
<1>3. "busy" \notin Names BY DEF Names
<1>4. Kept(l, m)
  <2> HIDE DEF m, v
  <2> QED BY <1>1, <1>2, <1>3, PatchKeeps
<1> QED BY <1>4

LEMMA ChatKeeps ==
  ASSUME NEW l, ListOK(l), NEW item
  PROVE  Kept(l, Chat(l, Agent, item))
<1> DEFINE m == Chat(l, Agent, item)
           v == IF item = "sent" THEN Append(l[1].chat, item)
                            ELSE [l[1].chat EXCEPT ![Len(l[1].chat)] = item]
<1>1. m = [i \in DOMAIN l |-> m[i]] BY DEF Chat, Patch
<1>2. ASSUME l # <<>> PROVE m[1] = [l[1] EXCEPT !.chat = v]
  <2>1. 1 \in DOMAIN l /\ l[1].id = Agent BY <1>2 DEF ListOK, EntryOK
  <2> QED BY <2>1 DEF Chat, Patch
<1>3. "chat" \notin Names BY DEF Names
<1>4. Kept(l, m)
  <2> HIDE DEF m, v
  <2> QED BY <1>1, <1>2, <1>3, PatchKeeps
<1> QED BY <1>4

LEMMA FormSubmittedKeeps ==
  ASSUME NEW l, ListOK(l), NEW form, NEW values
  PROVE  Kept(l, FormSubmitted(l, Agent, form, values))
<1> DEFINE m == FormSubmitted(l, Agent, form, values)
           v == [f \in DOMAIN l[1].forms \cup {form} |->
                   IF f = form THEN values ELSE l[1].forms[f]]
<1>1. m = [i \in DOMAIN l |-> m[i]] BY DEF FormSubmitted, Patch
<1>2. ASSUME l # <<>> PROVE m[1] = [l[1] EXCEPT !.forms = v]
  <2>1. 1 \in DOMAIN l /\ l[1].id = Agent BY <1>2 DEF ListOK, EntryOK
  <2> QED BY <2>1 DEF FormSubmitted, Patch
<1>3. "forms" \notin Names BY DEF Names
<1>4. Kept(l, m)
  <2> HIDE DEF m, v
  <2> QED BY <1>1, <1>2, <1>3, PatchKeeps
<1> QED BY <1>4

LEMMA ExtendedCardKeeps ==
  ASSUME NEW l, ListOK(l), NEW value
  PROVE  Kept(l, ExtendedCard(l, Agent, value))
<1> DEFINE m == ExtendedCard(l, Agent, value)
           v == value
<1>1. m = [i \in DOMAIN l |-> m[i]] BY DEF ExtendedCard, Patch
<1>2. ASSUME l # <<>> PROVE m[1] = [l[1] EXCEPT !.extended = v]
  <2>1. 1 \in DOMAIN l /\ l[1].id = Agent BY <1>2 DEF ListOK, EntryOK
  <2> QED BY <2>1 DEF ExtendedCard, Patch
<1>3. "extended" \notin Names BY DEF Names
<1>4. Kept(l, m)
  <2> HIDE DEF m, v
  <2> QED BY <1>1, <1>2, <1>3, PatchKeeps
<1> QED BY <1>4

LEMMA NewTaskKeeps ==
  ASSUME NEW l, ListOK(l)
  PROVE  Kept(l, NewTask(l, Agent))
<1> DEFINE m == NewTask(l, Agent)
           v == TRUE
<1>1. m = [i \in DOMAIN l |-> m[i]] BY DEF NewTask, Patch
<1>2. ASSUME l # <<>> PROVE m[1] = [l[1] EXCEPT !.newTask = v]
  <2>1. 1 \in DOMAIN l /\ l[1].id = Agent BY <1>2 DEF ListOK, EntryOK
  <2> QED BY <2>1 DEF NewTask, Patch
<1>3. "newTask" \notin Names BY DEF Names
<1>4. Kept(l, m)
  <2> HIDE DEF m, v
  <2> QED BY <1>1, <1>2, <1>3, PatchKeeps
<1> QED BY <1>4

LEMMA SubscribedKeeps ==
  ASSUME NEW l, ListOK(l), NEW task, NEW on
  PROVE  Kept(l, Subscribed(l, Agent, task, on))
<1> DEFINE m == Subscribed(l, Agent, task, on)
           v == m[1].tasks
<1>1. m = [i \in DOMAIN l |-> m[i]] BY DEF Subscribed, PatchTask, Patch
<1>2. ASSUME l # <<>> PROVE m[1] = [l[1] EXCEPT !.tasks = v]
  <2>1. 1 \in DOMAIN l /\ l[1].id = Agent BY <1>2 DEF ListOK, EntryOK
  <2> QED BY <2>1 DEF Subscribed, PatchTask, Patch
<1>3. "tasks" \notin Names BY DEF Names
<1>4. Kept(l, m)
  <2> HIDE DEF m, v
  <2> QED BY <1>1, <1>2, <1>3, PatchKeeps
<1> QED BY <1>4

LEMMA TaskKeeps ==
  ASSUME NEW l, ListOK(l), NEW task, NEW state, NEW context, NEW time, NEW activity
  PROVE  Kept(l, Task(l, Agent, task, state, context, time, activity, FALSE))
<1> DEFINE m == Task(l, Agent, task, state, context, time, activity, FALSE)
           v == m[1].tasks
<1>1. m = [i \in DOMAIN l |-> m[i]] BY DEF Task, PatchTask, Patch
<1>2. ASSUME l # <<>> PROVE m[1] = [l[1] EXCEPT !.tasks = v]
  <2>1. 1 \in DOMAIN l /\ l[1].id = Agent BY <1>2 DEF ListOK, EntryOK
  <2> QED BY <2>1 DEF Task, PatchTask, Patch
<1>3. "tasks" \notin Names BY DEF Names
<1>4. Kept(l, m)
  <2> HIDE DEF m, v
  <2> QED BY <1>1, <1>2, <1>3, PatchKeeps
<1> QED BY <1>4
-----------------------------------------------------------------------------
(* What the reducers change of the connection, the settings and the reset. *)
LEMMA ListedOK ==
  ASSUME NEW l, ListOK(l), NEW m, m = [i \in DOMAIN l |-> m[i]],
         l # <<>> => EntryOK(m[1])
  PROVE  ListOK(m) /\ (m = <<>> <=> l = <<>>)
<1>1. l = <<>> => m = <<>> BY NoList
<1>2. ASSUME l # <<>> PROVE m = <<m[1]>> /\ m # <<>>
  <2>1. l = <<l[1]>> BY <1>2 DEF ListOK
  <2> QED BY <2>1, OneList
<1> QED BY <1>1, <1>2 DEF ListOK

LEMMA ChangeSettingsKeeps ==
  ASSUME NEW l, ListOK(l), NEW settings, SettingsOK(settings)
  PROVE  Kept(l, ChangeSettings(l, Agent, settings))
<1> DEFINE m == ChangeSettings(l, Agent, settings)
<1>1. m = [i \in DOMAIN l |-> m[i]] BY DEF ChangeSettings, Patch
<1>2. ASSUME l # <<>> PROVE m[1] = [l[1] EXCEPT !.settings = settings]
  <2>1. 1 \in DOMAIN l /\ l[1].id = Agent BY <1>2 DEF ListOK, EntryOK
  <2> QED BY <2>1 DEF ChangeSettings, Patch
<1>3. ASSUME l # <<>>
      PROVE  /\ EntryOK(m[1]) /\ m[1].connection = l[1].connection
             /\ m[1].resetContext = l[1].resetContext
  <2>1. EntryOK(l[1]) BY <1>3 DEF ListOK
  <2> HIDE DEF m
  <2> QED BY <1>2, <1>3, <2>1 DEF EntryOK, Names
<1>4. Kept(l, m)
  <2> HIDE DEF m
  <2>1. ListOK(m) /\ (m = <<>> <=> l = <<>>) BY <1>1, <1>3, ListedOK
  <2> QED BY <1>3, <2>1 DEF Kept, Held
<1> QED BY <1>4

LEMMA DisconnectedDrops ==
  ASSUME NEW l, ListOK(l), NEW m, m = Disconnected(l, Agent)
  PROVE  /\ ListOK(m) /\ (m = <<>> <=> l = <<>>)
         /\ l # <<>> /\ l[1].resetContext = TRUE => m[1].resetContext = TRUE
<1>1. m = [i \in DOMAIN l |-> m[i]] BY DEF Disconnected, Patch
<1>2. ASSUME l # <<>> PROVE m[1] = [l[1] EXCEPT !.connection = None, !.key = None]
  <2>1. 1 \in DOMAIN l /\ l[1].id = Agent BY <1>2 DEF ListOK, EntryOK
  <2> QED BY <2>1 DEF Disconnected, Patch
<1>3. ASSUME l # <<>>
      PROVE  EntryOK(m[1]) /\ m[1].resetContext = l[1].resetContext
  <2>1. EntryOK(l[1]) BY <1>3 DEF ListOK
  <2> QED BY <1>2, <1>3, <2>1 DEF EntryOK, Names
<1> QED BY <1>1, <1>3, ListedOK

LEMMA ConnectedHolds ==
  ASSUME NEW l, ListOK(l), NEW conn \in Links, NEW key,
         NEW settings, SettingsOK(settings),
         NEW m, m = Connected(l, Agent, conn, key, settings)
  PROVE  /\ ListOK(m) /\ (m = <<>> <=> l = <<>>)
         /\ l # <<>> => /\ Held(m, conn.id)
                        /\ l[1].resetContext = TRUE => m[1].resetContext = TRUE
<1>1. m = [i \in DOMAIN l |-> m[i]] BY DEF Connected, Patch
<1>2. ASSUME l # <<>>
      PROVE  m[1] = [l[1] EXCEPT !.connection = conn, !.key = key,
                                 !.settings = settings, !.resume = None,
                                 !.connectionIds = @ \cup {conn.id}]
  <2>1. 1 \in DOMAIN l /\ l[1].id = Agent BY <1>2 DEF ListOK, EntryOK
  <2> QED BY <2>1 DEF Connected, Patch
<1>3. ASSUME l # <<>>
      PROVE  /\ EntryOK(m[1]) /\ m[1].resetContext = l[1].resetContext
             /\ m[1].connection = conn
  <2>1. EntryOK(l[1]) BY <1>3 DEF ListOK
  <2> QED BY <1>2, <1>3, <2>1 DEF EntryOK, Names
<1>4. conn # None BY AppAssumption
<1>5. ListOK(m) /\ (m = <<>> <=> l = <<>>) BY <1>1, <1>3, ListedOK
<1> QED BY <1>3, <1>4, <1>5 DEF Held

(* An entry after the result, as Conversation has it.                      *)
LEMMA ConversationOK ==
  ASSUME NEW a, EntryOK(a), NEW conv \in Convs, NEW source,
         NEW b, b = Conversation(a, conv, source)
  PROVE  /\ EntryOK(b)
         /\ b.connection = None <=> a.connection = None
         /\ a.connection # None => b.connection.id = a.connection.id
         /\ source # "send" => b.resetContext = a.resetContext
<1>1. CASE a.connection = None \/ (source = "other" /\ a.resetContext)
  BY <1>1 DEF Conversation
<1>2. CASE ~ (a.connection = None \/ (source = "other" /\ a.resetContext))
  <2> DEFINE moved == conv.task # None /\ conv.task # a.connection.task
             link == [a.connection EXCEPT !.context = conv.context,
                                          !.task = conv.task]
  <2>1. PICK new : b = [a EXCEPT !.connection = link,
                          !.resetContext = IF source = "send" THEN FALSE ELSE @,
                          !.newTask = new]
    BY <1>2 DEF Conversation
  <2>2. a.connection \in Links BY <1>2 DEF EntryOK
  <2>3. link \in Links /\ link.id = a.connection.id
    BY <2>2 DEF Links, Convs, Fits
  <2>4. link # None BY <2>3, AppAssumption
  <2> HIDE DEF link
  <2>5. /\ DOMAIN b = DOMAIN a /\ b.id = a.id /\ b.shared = a.shared
        /\ b.connection = link /\ b.settings = a.settings
        /\ b.resume = a.resume
        /\ b.resetContext = IF source = "send" THEN FALSE ELSE a.resetContext
    BY <2>1 DEF EntryOK, Names
  <2>6. EntryOK(b) BY <2>3, <2>5 DEF EntryOK
  <2> QED BY <1>2, <2>3, <2>4, <2>5, <2>6
<1> QED BY <1>1, <1>2

LEMMA ConverseHolds ==
  ASSUME NEW l, ListOK(l), NEW conv \in Convs, NEW source,
         NEW m, m = Converse(l, Agent, conv, source)
  PROVE  /\ ListOK(m) /\ (m = <<>> <=> l = <<>>)
         /\ \A c : Held(m, c) <=> Held(l, c)
         /\ source # "send" => Kept(l, m)
<1>1. m = [i \in DOMAIN l |-> m[i]] BY DEF Converse, Patch
<1>2. ASSUME l # <<>> PROVE m[1] = Conversation(l[1], conv, source)
  <2>1. 1 \in DOMAIN l /\ l[1].id = Agent BY <1>2 DEF ListOK, EntryOK
  <2> QED BY <2>1 DEF Converse, Patch
<1>3. ASSUME l # <<>>
      PROVE  /\ EntryOK(m[1])
             /\ m[1].connection = None <=> l[1].connection = None
             /\ l[1].connection # None => m[1].connection.id = l[1].connection.id
             /\ source # "send" => m[1].resetContext = l[1].resetContext
  <2>1. EntryOK(l[1]) BY <1>3 DEF ListOK
  <2> QED BY <1>2, <1>3, <2>1, ConversationOK
<1>4. ListOK(m) /\ (m = <<>> <=> l = <<>>) BY <1>1, <1>3, ListedOK
<1> QED BY <1>3, <1>4 DEF Held, Kept

LEMMA NotificationKeeps ==
  ASSUME NEW l, ListOK(l), NEW conn, NEW conv \in Convs
  PROVE  Kept(l, NotificationConversation(l, conn, conv))
<1> DEFINE m == NotificationConversation(l, conn, conv)
<1>1. m = [i \in DOMAIN l |-> m[i]] BY DEF NotificationConversation
<1>2. ASSUME l # <<>>
      PROVE  m[1] = Conversation(l[1], conv, "other") \/ m[1] = l[1]
  <2>1. 1 \in DOMAIN l BY <1>2 DEF ListOK
  <2> QED BY <2>1 DEF NotificationConversation
<1>3. ASSUME l # <<>>
      PROVE  /\ EntryOK(m[1])
             /\ m[1].connection = None <=> l[1].connection = None
             /\ l[1].connection # None => m[1].connection.id = l[1].connection.id
             /\ m[1].resetContext = l[1].resetContext
  <2>1. EntryOK(l[1]) BY <1>3 DEF ListOK
  <2>2. "other" # "send" OBVIOUS
  <2> HIDE DEF m
  <2> QED BY <1>2, <1>3, <2>1, <2>2, ConversationOK
<1>4. Kept(l, m)
  <2> HIDE DEF m
  <2>1. ListOK(m) /\ (m = <<>> <=> l = <<>>) BY <1>1, <1>3, ListedOK
  <2> QED BY <1>3, <2>1 DEF Kept, Held
<1> QED BY <1>4

LEMMA NewConversationKeeps ==
  ASSUME NEW l, ListOK(l), NEW m, m = NewConversation(l, Agent)
  PROVE  Kept(l, m) /\ (l # <<>> => m[1].resetContext = TRUE)
<1>1. m = [i \in DOMAIN l |-> m[i]] BY DEF NewConversation, Patch
<1> DEFINE link(a) == IF a.connection = None THEN None
                      ELSE [a.connection EXCEPT !.context = None, !.task = None]
<1>2. ASSUME l # <<>>
      PROVE  m[1] = [l[1] EXCEPT !.connection = link(l[1]),
                                 !.resetContext = TRUE, !.newTask = FALSE]
  <2>1. 1 \in DOMAIN l /\ l[1].id = Agent BY <1>2 DEF ListOK, EntryOK
  <2> QED BY <2>1 DEF NewConversation, Patch
<1>3. ASSUME l # <<>>
      PROVE  /\ EntryOK(m[1])
             /\ m[1].connection = None <=> l[1].connection = None
             /\ l[1].connection # None => m[1].connection.id = l[1].connection.id
             /\ m[1].resetContext = TRUE
  <2>1. EntryOK(l[1]) BY <1>3 DEF ListOK
  <2>2. l[1].connection # None =>
          link(l[1]) \in Links /\ link(l[1]).id = l[1].connection.id
    BY <2>1 DEF EntryOK, Links, Fits
  <2>3. l[1].connection = None => link(l[1]) = None OBVIOUS
  <2> HIDE DEF link
  <2>4. m[1].connection = link(l[1]) /\ m[1].resetContext = TRUE
        /\ DOMAIN m[1] = DOMAIN l[1] /\ m[1].id = l[1].id
        /\ m[1].shared = l[1].shared /\ m[1].settings = l[1].settings
        /\ m[1].resume = l[1].resume
    BY <1>2, <1>3, <2>1 DEF EntryOK, Names
  <2>5. None \notin Links BY AppAssumption
  <2>6. EntryOK(m[1]) BY <2>1, <2>2, <2>3, <2>4 DEF EntryOK
  <2> QED BY <2>2, <2>3, <2>4, <2>5, <2>6
<1>4. ListOK(m) /\ (m = <<>> <=> l = <<>>) BY <1>1, <1>3, ListedOK
<1> QED BY <1>3, <1>4 DEF Held, Kept

LEMMA LossOK ==
  ASSUME NEW s, SettingsOK(s)
  PROVE  SettingsOK(SettingsAfterSessionLoss(s))
BY DEF SettingsOK, SettingsAfterSessionLoss

LEMMA SessionResetDrops ==
  ASSUME NEW l, ListOK(l), NEW m, m = SessionReset(l)
  PROVE  /\ ListOK(m) /\ (m = <<>> <=> l = <<>>) /\ \A c : ~ Held(m, c)
         /\ l # <<>> /\ l[1].resetContext = TRUE => m[1].resetContext = TRUE
<1>1. m = [i \in DOMAIN l |-> m[i]] BY DEF SessionReset
<1>2. ASSUME l # <<>> PROVE m[1] = AfterSessionLoss(l[1])
  <2>1. 1 \in DOMAIN l BY <1>2 DEF ListOK
  <2> QED BY <2>1 DEF SessionReset
<1>3. ASSUME l # <<>>
      PROVE  /\ EntryOK(m[1]) /\ m[1].connection = None
             /\ m[1].resetContext = l[1].resetContext
  <2> DEFINE a == l[1]
             kept == IF a.connection = None THEN a.resume
                     ELSE Conv(a.connection.context, a.connection.task)
             lost == SettingsAfterSessionLoss(a.settings)
  <2>1. EntryOK(a) BY <1>3 DEF ListOK
  <2>2. kept \in Convs \cup {None}
    BY <2>1 DEF EntryOK, Links, Convs, Conv, Fits
  <2>3. SettingsOK(lost) BY <2>1, LossOK DEF EntryOK
  <2>4. m[1] = [[a EXCEPT !.connection = None, !.key = None, !.resume = kept]
                  EXCEPT !.settings = lost]
    BY <1>2, <1>3, <2>1 DEF AfterSessionLoss, WithoutConnection, EntryOK, Names
  <2> HIDE DEF kept, lost
  <2> QED BY <2>1, <2>2, <2>3, <2>4 DEF EntryOK, Names
<1>4. ListOK(m) /\ (m = <<>> <=> l = <<>>) BY <1>1, <1>3, ListedOK
<1> QED BY <1>3, <1>4 DEF Held

LEMMA RemoveEmpties ==
  ASSUME NEW l, ListOK(l), l # <<>>
  PROVE  RemoveEntries(State(l, Agent), {Agent}).agents = <<>>
<1>1. l = <<l[1]>> /\ l[1].id = Agent /\ l[1].shared = FALSE
  BY DEF ListOK, EntryOK
<1> DEFINE others == {i \in DOMAIN l : l[i].id \notin {Agent} \/ l[i].shared}
           w == Picked(l, others)
<1>2. others = {} BY <1>1
<1>3. RemoveEntries(State(l, Agent), {Agent}).agents = w
  BY Zenon DEF RemoveEntries, State
<1>4. Cardinality({}) = 0 BY FS_EmptySet
<1>5. w = [n \in 1..Cardinality(others) |-> w[n]]
  <2>1. w = [n \in 1..Cardinality(others) |-> l[Place(others, n)]]
    BY Zenon DEF Picked
  <2> HIDE DEF w, others
  <2> QED BY <2>1
<1>6. w = <<>>
  <2>1. Cardinality(others) = 0 BY <1>2, <1>4
  <2>2. 1..0 = {} /\ DOMAIN <<>> = {} OBVIOUS
  <2> HIDE DEF w, others
  <2>3. w = [n \in DOMAIN <<>> |-> w[n]] BY <1>5, <2>1, <2>2
  <2> QED BY <2>3, NoList
<1> QED BY <1>3, <1>6

LEMMA InitListed ==
  ASSUME AppInit
  PROVE  /\ ListOK(agents) /\ agents # <<>> /\ agents[1].connection = None
<1>1. PICK text \in Texts :
        agents = AddEndpoint(State(<<>>, None), Agent, Interface,
                   IF ~ hosted THEN None
                   ELSE SetSecret(SetAuthType(DefaultSettings, "bearer"), text)
                 ).agents
  BY DEF AppInit
<1> DEFINE given == IF ~ hosted THEN None
                    ELSE SetSecret(SetAuthType(DefaultSettings, "bearer"), text)
           settings == IF given = None THEN DefaultSettings ELSE given
           a == [NewEntry(Agent, Interface.key, "endpoint", settings)
                  EXCEPT !.status = "done", !.custom = <<Interface>>,
                         !.selected = 1]
<1>2. SettingsOK(DefaultSettings)
  BY DEF SettingsOK, DefaultSettings, EmptySecret
<1>3. SettingsOK(SetSecret(SetAuthType(DefaultSettings, "bearer"), text))
  BY DEF SettingsOK, SetSecret, SetAuthType, DefaultSettings, EmptySecret
<1>4. SettingsOK(settings)
  <2>1. settings \in {DefaultSettings,
                      SetSecret(SetAuthType(DefaultSettings, "bearer"), text)}
    OBVIOUS
  <2> HIDE DEF settings
  <2> QED BY <1>2, <1>3, <2>1
<1>5. /\ Names \subseteq DOMAIN a /\ a.id = Agent /\ a.shared = FALSE
      /\ a.connection = None /\ a.resume = None /\ a.settings = settings
  <2> HIDE DEF settings
  <2> QED BY DEF NewEntry, Names
<1>6. agents = <<a>>
  <2>1. DOMAIN <<>> = {} OBVIOUS
  <2>2. agents = Append(<<>>, a)
    <3> HIDE DEF given
    <3> QED BY <1>1, <2>1 DEF AddEndpoint, State, SameAt, FirstAt, given
  <2> QED BY <2>2
<1>7. EntryOK(a)
  <2> HIDE DEF a, settings
  <2> QED BY <1>4, <1>5 DEF EntryOK
<1> HIDE DEF a, settings, given
<1> QED BY <1>5, <1>6, <1>7 DEF ListOK
-----------------------------------------------------------------------------
(* What an operation captured.                                             *)
Captures == {"iface", "settings", "connection", "key", "resume",
             "resetContext", "newTask"}

AgentOK(a) ==
  /\ DOMAIN a = Captures
  /\ a.connection \in Links \cup {None} /\ a.resume \in Convs \cup {None}
  /\ SettingsOK(a.settings)

LEMMA CapturedOK ==
  ASSUME NEW a, EntryOK(a)
  PROVE  /\ AgentOK(Captured(a)) /\ Captured(a).connection = a.connection
         /\ Captured(a).resetContext = a.resetContext
BY DEF EntryOK, AgentOK, Captured, Captures

LEMMA WithoutOK ==
  ASSUME NEW a, AgentOK(a)
  PROVE  /\ AgentOK(WithoutConnection(a))
         /\ WithoutConnection(a).connection = None
         /\ WithoutConnection(a).resetContext = a.resetContext
<1> DEFINE kept == IF a.connection = None THEN a.resume
                   ELSE Conv(a.connection.context, a.connection.task)
<1>1. kept \in Convs \cup {None}
  BY DEF AgentOK, Links, Convs, Conv, Fits
<1>2. WithoutConnection(a)
        = [a EXCEPT !.connection = None, !.key = None, !.resume = kept]
  BY DEF WithoutConnection, AgentOK, Captures
<1> HIDE DEF kept
<1> QED BY <1>1, <1>2 DEF AgentOK, Captures

LEMMA AfterLossOK ==
  ASSUME NEW a, AgentOK(a)
  PROVE  /\ AgentOK(AfterSessionLoss(a))
         /\ AfterSessionLoss(a).connection = None
         /\ AfterSessionLoss(a).resetContext = a.resetContext
<1> DEFINE b == WithoutConnection(a)
           lost == SettingsAfterSessionLoss(a.settings)
<1>1. AgentOK(b) /\ b.connection = None /\ b.resetContext = a.resetContext
  BY WithoutOK
<1>2. SettingsOK(lost) BY LossOK DEF AgentOK
<1>3. AfterSessionLoss(a) = [b EXCEPT !.settings = lost]
  BY DEF AfterSessionLoss
<1> HIDE DEF b, lost
<1> QED BY <1>1, <1>2, <1>3 DEF AgentOK, Captures

LEMMA ContinuedOK ==
  ASSUME NEW a, AgentOK(a)
  PROVE  Continued(a) \in Convs
BY DEF Continued, AgentOK, Links, Convs, Conv, NoConv, Fits
-----------------------------------------------------------------------------
(* What the steps of an operation make of the list and of the operation.   *)
LEMMA SettleKeeps ==
  ASSUME NEW list, ListOK(list), NEW op, NEW how
  PROVE  Kept(list, Settle(list, op, how))
<1>1. CASE Sends(op)
  <2> DEFINE said == IF how = "done" THEN list ELSE Chat(list, Agent, how)
             idle == Busy(said, Agent, FALSE)
  <2>1. Kept(list, said) /\ ListOK(said)
    <3>1. Kept(list, list) BY KeptSame
    <3>2. Kept(list, Chat(list, Agent, how)) BY ChatKeeps
    <3> QED BY <3>1, <3>2 DEF Kept
  <2>2. Kept(said, idle) BY <2>1, BusyKeeps
  <2>3. Kept(list, idle) /\ ListOK(idle)
    BY <2>1, <2>2, KeptAgain DEF Kept
  <2>4. Kept(idle, FormSubmitted(idle, Agent, op.about, None))
    BY <2>3, FormSubmittedKeeps
  <2>5. Kept(list, FormSubmitted(idle, Agent, op.about, None))
    BY <2>3, <2>4, KeptAgain
  <2>6. Settle(list, op, how)
          \in {idle, FormSubmitted(idle, Agent, op.about, None)}
    BY <1>1 DEF Settle
  <2> QED BY <2>3, <2>5, <2>6
<1>2. CASE ~ Sends(op) /\ op.kind = "subscribe"
  <2>1. Settle(list, op, how) = Subscribed(list, Agent, op.about, FALSE)
    BY <1>2 DEF Settle
  <2> QED BY <2>1, SubscribedKeeps
<1>3. CASE ~ Sends(op) /\ op.kind # "subscribe"
  <2>1. PICK value : Settle(list, op, how) = ExtendedCard(list, Agent, value)
    BY <1>3 DEF Settle
  <2> QED BY <2>1, ExtendedCardKeeps
<1> QED BY <1>1, <1>2, <1>3

LEMMA OverKeeps ==
  ASSUME NEW list, ListOK(list), NEW op, NEW how, NEW st, st = Over(list, op, how)
  PROVE  Kept(list, st.agents) /\ st.op = Idle /\ st.drop = None
BY SettleKeeps DEF Over, Step

(* The operation ended, or waits with what it captured but a connection.   *)
Waiting(op, next, jar) ==
  \/ next = Idle
  \/ /\ AgentOK(next.agent) /\ next.agent.resetContext = op.agent.resetContext
     /\ next.answer = NoAnswer /\ next.cookie = jar

LEMMA RequestWaits ==
  ASSUME NEW op, IsOp(op), AgentOK(op.agent), NEW pc, NEW conn, NEW jar
  PROVE  Waiting(op, Request(op, pc, conn, jar), jar)
BY DEF IsOp, Fields, Waiting, Request

LEMMA ConnectLists ==
  ASSUME NEW list, ListOK(list), NEW op, IsOp(op), AgentOK(op.agent), NEW jar,
         NEW st, st = Connect(list, op, jar)
  PROVE  /\ \/ Kept(list, st.agents) /\ st.drop = None
            \/ /\ op.agent.connection # None
               /\ st.agents = Disconnected(list, Agent)
               /\ st.drop = op.agent.connection.id
         /\ Waiting(op, st.op, jar)
<1>1. Kept(list, list) BY KeptSame
<1>2. ASSUME NEW how, st = Over(list, op, how)
      PROVE  /\ Kept(list, st.agents) /\ st.drop = None
             /\ Waiting(op, st.op, jar)
  BY <1>2, OverKeeps DEF Waiting
<1>3. CASE Refuses(op.agent)
  <2>1. PICK how : st = Over(list, op, how) BY <1>3 DEF Connect
  <2> QED BY <1>2, <2>1
<1>4. CASE ~ Refuses(op.agent) /\ Reuses(op.agent)
  <2>1. CASE op.aborted
    <3>1. st = Over(list, op, "stopped") BY <1>4, <2>1 DEF Connect
    <3> QED BY <1>2, <3>1
  <2>2. CASE ~ op.aborted
    <3>1. st = Step(list, Request(op, "call", op.agent.connection.id, jar), None)
      BY <1>4, <2>2 DEF Connect
    <3> QED BY <3>1, <1>1, RequestWaits DEF Step
  <2> QED BY <2>1, <2>2
<1>5. CASE ~ Refuses(op.agent) /\ ~ Reuses(op.agent)
  <2>1. CASE op.agent.connection = None
    <3>1. st = Step(list, Request(op, "connect", None, jar), None)
      BY <1>5, <2>1 DEF Connect
    <3> QED BY <3>1, <1>1, RequestWaits DEF Step
  <2>2. CASE op.agent.connection # None
    <3>1. st = Step(Disconnected(list, Agent), Request(op, "connect", None, jar),
                    op.agent.connection.id)
      BY <1>5, <2>2 DEF Connect
    <3> QED BY <3>1, <2>2, RequestWaits DEF Step
  <2> QED BY <2>1, <2>2
<1> QED BY <1>3, <1>4, <1>5

LEMMA FailureLists ==
  ASSUME NEW list, ListOK(list), NEW op, IsOp(op), AgentOK(op.agent), NEW jar,
         NEW st, st = Failure(list, op, jar)
  PROVE  Kept(list, st.agents) /\ st.drop = None /\ Waiting(op, st.op, jar)
<1> DEFINE retry(agent) == [op EXCEPT !.again = TRUE, !.agent = agent]
<1>1. ASSUME NEW agent, AgentOK(agent), agent.connection = None,
             agent.resetContext = op.agent.resetContext,
             st = Connect(list, retry(agent), jar)
      PROVE  Kept(list, st.agents) /\ st.drop = None /\ Waiting(op, st.op, jar)
  <2>1. IsOp(retry(agent)) /\ retry(agent).agent = agent BY DEF IsOp, Fields
  <2> HIDE DEF retry
  <2> QED BY <1>1, <2>1, ConnectLists DEF Waiting
<1>2. CASE ~ op.again /\ op.answer.type = "renewed"
  <2>1. st = Connect(list, retry(AfterSessionLoss(op.agent)), jar)
    BY <1>2 DEF Failure
  <2> QED BY <1>1, <2>1, AfterLossOK
<1>3. CASE /\ ~ (~ op.again /\ op.answer.type = "renewed")
           /\ ~ op.again /\ op.answer.type = "unknown"
           /\ op.agent.connection # None
  <2>1. st = Connect(list, retry(WithoutConnection(op.agent)), jar)
    BY <1>3 DEF Failure
  <2> QED BY <1>1, <2>1, WithoutOK
<1>4. CASE /\ ~ (~ op.again /\ op.answer.type = "renewed")
           /\ ~ (~ op.again /\ op.answer.type = "unknown"
                  /\ op.agent.connection # None)
  <2>1. PICK how : st = Over(list, op, how) BY <1>4 DEF Failure
  <2> QED BY <2>1, OverKeeps DEF Waiting
<1> QED BY <1>2, <1>3, <1>4

(* An answer that arrived: only a connect's names a connection.            *)
AnswerOK(x) ==
  /\ x.type = "connected" => x.conn \in Nat
  /\ x.type \notin {"connected", "none"} => x.conn = None
  /\ x.type # "none" => x.conv \in Convs /\ x.ref \in Refs \cup {None}

LEMMA AfterConnectOK ==
  ASSUME NEW s, SettingsOK(s), NEW conn \in Links
  PROVE  SettingsOK(SettingsAfterConnect(s, conn))
<1>1. conn.auth \in Refs \cup {None} BY DEF Links
<1> DEFINE secret == IF conn.auth = None THEN s.secret
                     ELSE IF s.secret.source = "env"
                     THEN [s.secret EXCEPT !.ref = conn.auth, !.lost = FALSE]
                     ELSE [s.secret EXCEPT !.value = "", !.ref = conn.auth,
                                           !.lost = FALSE]
<1>2. "ref" \in DOMAIN secret /\ secret.ref \in Refs \cup {None}
  BY <1>1 DEF SettingsOK
<1>3. PICK headers : SettingsAfterConnect(s, conn)
                       = [s EXCEPT !.secret = secret, !.headers = headers]
  BY DEF SettingsAfterConnect, SettingsOK
<1> HIDE DEF secret
<1> QED BY <1>2, <1>3 DEF SettingsOK

LEMMA WithAnswerHolds ==
  ASSUME NEW list, ListOK(list), NEW op, IsOp(op), AgentOK(op.agent),
         AnswerOK(op.answer), op.answer.type = "connected",
         NEW m, m = WithAnswer(list, op)
  PROVE  /\ ListOK(m) /\ (m = <<>> <=> list = <<>>)
         /\ list # <<>> => /\ Held(m, op.answer.conn)
                           /\ list[1].resetContext = TRUE
                                => m[1].resetContext = TRUE
<1> DEFINE conn == [id |-> op.answer.conn, context |-> op.answer.conv.context,
                    task |-> op.answer.conv.task, headers |-> <<>>,
                    auth |-> op.answer.ref]
           settings == SettingsAfterConnect(op.agent.settings, conn)
           key == ConnectionKey([op.agent EXCEPT !.settings = settings])
<1>1. conn \in Links
  <2>1. "connected" # "none" OBVIOUS
  <2>2. op.answer.conv \in Convs /\ op.answer.ref \in Refs \cup {None}
        /\ op.answer.conn \in Nat
    BY <2>1 DEF AnswerOK
  <2> QED BY <2>2 DEF Links, Convs, Fits
<1>2. SettingsOK(settings)
  <2>1. SettingsOK(op.agent.settings) BY DEF AgentOK
  <2> HIDE DEF conn
  <2> QED BY <1>1, <2>1, AfterConnectOK
<1>3. m = Connected(list, Agent, conn, key, settings) BY DEF WithAnswer
<1>4. conn.id = op.answer.conn OBVIOUS
<1> HIDE DEF conn, key, settings
<1> QED BY <1>1, <1>2, <1>3, <1>4, ConnectedHolds

(* What the answer to a connect makes of the list.                         *)
Establishes(list, op, st, jar) ==
  /\ Agent \in removed => Kept(list, st.agents) /\ st.drop = op.answer.conn
  /\ Agent \notin removed => st.drop = None
  /\ ListOK(st.agents) /\ (st.agents = <<>> <=> list = <<>>)
  /\ Agent \notin removed /\ list # <<>> => Held(st.agents, op.answer.conn)
  /\ list # <<>> /\ list[1].resetContext = TRUE
       => st.agents[1].resetContext = TRUE
  /\ Waiting(op, st.op, jar)

LEMMA EstablishLists ==
  ASSUME NEW list, ListOK(list), NEW op, IsOp(op), AgentOK(op.agent),
         AnswerOK(op.answer), op.answer.type = "connected", NEW jar,
         NEW st, st = Establish(list, op, Agent \in removed, jar)
  PROVE  Establishes(list, op, st, jar)
<1> USE DEF Establishes
<1> DEFINE gone == Agent \in removed
<1>1. CASE gone
  <2>1. PICK how : st = [Over(list, op, how) EXCEPT !.drop = op.answer.conn]
    BY <1>1 DEF Establish
  <2>2. /\ st.agents = Over(list, op, how).agents /\ st.op = Over(list, op, how).op
        /\ st.drop = op.answer.conn
    BY <2>1 DEF Over, Step
  <2>3. Kept(list, st.agents) /\ st.op = Idle BY <2>2, OverKeeps
  <2> QED BY <1>1, <2>2, <2>3 DEF Kept, Waiting
<1>2. CASE ~ gone
  <2> DEFINE m == WithAnswer(list, op)
  <2>1. /\ ListOK(m) /\ (m = <<>> <=> list = <<>>)
        /\ list # <<>> => /\ Held(m, op.answer.conn)
                          /\ list[1].resetContext = TRUE
                               => m[1].resetContext = TRUE
    BY WithAnswerHolds
  <2>2. CASE op.aborted
    <3>1. st = Over(m, op, "stopped") BY <1>2, <2>2 DEF Establish
    <3> HIDE DEF m
    <3>2. Kept(m, st.agents) /\ st.op = Idle /\ st.drop = None
      BY <2>1, <3>1, OverKeeps
    <3> QED BY <1>2, <2>1, <3>2 DEF Kept, Waiting
  <2>3. CASE ~ op.aborted
    <3>1. st = Step(m, Request(op, "call", op.answer.conn, jar), None)
      BY <1>2, <2>3 DEF Establish
    <3> HIDE DEF m
    <3>2. st.agents = m /\ st.drop = None /\ Waiting(op, st.op, jar)
      BY <3>1, RequestWaits DEF Step
    <3> QED BY <1>2, <2>1, <3>2
  <2> QED BY <2>2, <2>3
<1> QED BY <1>1, <1>2

LEMMA ResultLists ==
  ASSUME NEW list, ListOK(list), NEW op, IsOp(op), AgentOK(op.agent),
         AnswerOK(op.answer), op.answer.type = "result",
         NEW st, st = Result(list, op)
  PROVE  /\ ListOK(st.agents) /\ (st.agents = <<>> <=> list = <<>>)
         /\ \A c : Held(st.agents, c) <=> Held(list, c)
         /\ ~ Sends(op) => Kept(list, st.agents)
         /\ st.drop = None /\ Waiting(op, st.op, op.cookie)
<1> DEFINE conv == op.answer.conv
           source == IF Sends(op) THEN "send" ELSE "other"
           said == IF Sends(op) THEN Chat(list, Agent, "answered") ELSE list
           now == Converse(said, Agent, conv, source)
           more == Task(now, Agent, conv.task, "input-required", conv.context,
                        0, None, FALSE)
           seen == IF conv.task = None \/ op.kind = "card" THEN now ELSE more
           heard == [op EXCEPT !.answered = @ \/ op.answer.ok]
<1>1. st = IF op.answer.last THEN Over(seen, heard, "done")
           ELSE Step(seen, [heard EXCEPT !.pc = "stream", !.answer = NoAnswer],
                     None)
  BY DEF Result
<1>2. Kept(list, said)
  <2>1. Kept(list, list) BY KeptSame
  <2>2. Kept(list, Chat(list, Agent, "answered")) BY ChatKeeps
  <2> QED BY <2>1, <2>2
<1>3. conv \in Convs
  <2>1. "result" # "none" OBVIOUS
  <2> QED BY <2>1 DEF AnswerOK
<1>4. source # "send" <=> ~ Sends(op) OBVIOUS
<1> HIDE DEF conv, source, said
<1>5. /\ ListOK(now) /\ (now = <<>> <=> said = <<>>)
      /\ \A c : Held(now, c) <=> Held(said, c)
      /\ source # "send" => Kept(said, now)
  BY <1>2, <1>3, ConverseHolds DEF Kept
<1> HIDE DEF now
<1>6. Kept(now, seen)
  <2>1. Kept(now, now) BY <1>5, KeptSame
  <2>2. Kept(now, more) BY <1>5, TaskKeeps
  <2> HIDE DEF more
  <2> QED BY <2>1, <2>2
<1> HIDE DEF more, seen
<1>7. IsOp(heard) /\ heard.agent = op.agent /\ heard.cookie = op.cookie
  BY DEF IsOp, Fields
<1> HIDE DEF heard
<1>8. Kept(seen, st.agents) /\ st.drop = None /\ Waiting(op, st.op, op.cookie)
  <2>1. CASE op.answer.last
    <3>1. ListOK(seen) BY <1>6 DEF Kept
    <3> QED BY <1>1, <2>1, <3>1, OverKeeps DEF Waiting
  <2>2. CASE ~ op.answer.last
    <3> DEFINE next == [heard EXCEPT !.pc = "stream", !.answer = NoAnswer]
    <3>1. st.agents = seen /\ st.drop = None /\ st.op = next
      BY <1>1, <2>2 DEF Step
    <3>2. next.agent = op.agent /\ next.cookie = op.cookie
          /\ next.answer = NoAnswer
      BY <1>7 DEF IsOp, Fields
    <3> HIDE DEF next
    <3>3. Kept(seen, seen)
      <4>1. ListOK(seen) BY <1>6 DEF Kept
      <4> QED BY <4>1, KeptSame
    <3> QED BY <3>1, <3>2, <3>3 DEF Waiting
  <2> QED BY <2>1, <2>2
<1> QED BY <1>2, <1>4, <1>5, <1>6, <1>8 DEF Kept

LEMMA AbortLists ==
  ASSUME NEW list, ListOK(list), NEW op, IsOp(op), NEW st, st = Abort(list, op)
  PROVE  /\ Kept(list, st.agents) /\ st.drop = None
         /\ \/ st.op = Idle /\ op.pc # "connect"
            \/ /\ op.pc = "connect" /\ st.op.pc = "connect"
               /\ st.op.agent = op.agent
               /\ st.op.answer = op.answer /\ st.op.cookie = op.cookie
<1>1. CASE op.pc = "connect"
  <2>1. st = Step(list, [op EXCEPT !.aborted = TRUE], None)
    BY <1>1 DEF Abort
  <2>2. Kept(list, list) BY KeptSame
  <2> QED BY <1>1, <2>1, <2>2 DEF Step, IsOp, Fields
<1>2. CASE op.pc # "connect"
  <2>1. st = Over(list, op, "stopped") BY <1>2 DEF Abort
  <2> QED BY <1>2, <2>1, OverKeeps
<1> QED BY <1>1, <1>2
-----------------------------------------------------------------------------
(* The inductive invariant of the connections.  The list, the operations   *)
(* and the answers have their types; requests carry no cookie the browser  *)
(* has not had; answers that renew name the session there is, which has no *)
(* connection before the browser has its cookie; and every connection is   *)
(* covered by one who knows it.                                            *)
Counted ==
  /\ removed \subseteq {Agent} /\ told \in BOOLEAN /\ hosted \in BOOLEAN
  /\ session \in 1..LastSession /\ cookie \in 1..session
  /\ made \in 0..LastConn /\ stored \in Nat /\ contexts \in 0..LastContext
  /\ feed # None => feed.conv \in Convs

Listed == ListOK(agents) /\ (agents = <<>> <=> Agent \in removed)

Connects ==
  /\ conns = [c \in DOMAIN conns |-> conns[c]]
  /\ DOMAIN conns \subseteq 1..made
  /\ \A c \in DOMAIN conns : conns[c] \in Convs
  /\ cookie # session => DOMAIN conns = {}

OpFits(op, jar, current) ==
  /\ op.kind \in Kinds
  /\ AgentOK(op.agent) /\ AnswerOK(op.answer) /\ op.cookie \in 0..jar
  /\ op.answer.type = "renewed"
       => op.answer.session = current /\ op.cookie # current

OpSound(op) == OpFits(op, cookie, session)

OpsSound == \A s \in Slots : ~ Free(s) => OpSound(ops[s])

EndsSound ==
  \A e \in ending :
    /\ DOMAIN e = {"conn", "cookie", "answer"}
    /\ e.cookie = session => e.answer = None
    /\ e.answer # None => e.answer.session = session

Carries(s, c) ==
  /\ ~ Free(s) /\ ~ Waits(ops[s])
  /\ ops[s].answer.conn = c /\ ops[s].answer.session = session

Ended(c) == \E e \in ending : e.conn = c /\ e.cookie = session

Covered(c) ==
  \/ Held(agents, c)
  \/ \E s \in Slots : Carries(s, c)
  \/ Ended(c)
  \/ c \in displaced

AllCovered == \A c \in DOMAIN conns : Covered(c)

LinkInv ==
  Counted /\ Listed /\ Connects /\ OpsSound /\ EndsSound /\ AllCovered

LEMMA Present ==
  ASSUME Listed
  PROVE  /\ Here <=> agents # <<>>
         /\ Here => /\ A = agents[1] /\ agents = <<agents[1]>>
                    /\ EntryOK(agents[1])
<1>1. CASE agents = <<>> BY <1>1, NotInEmpty DEF Here
<1>2. CASE agents # <<>>
  <2>1. agents = <<agents[1]>> /\ EntryOK(agents[1]) BY <1>2 DEF Listed, ListOK
  <2>2. agents[1].id = Agent BY <2>1 DEF EntryOK
  <2>3. Entry(agents, Agent) = agents[1] /\ Has(agents, Agent)
    BY <2>1, <2>2, EntryOfOne
  <2> QED BY <1>2, <2>1, <2>3 DEF Here, A
<1> QED BY <1>1, <1>2

LEMMA LinkSound ==
  ASSUME LinkInv, OnceInv
  PROVE  AppSound
<1>1. /\ Here <=> agents # <<>>
      /\ Here <=> Agent \notin removed
      /\ Here => A = agents[1]
  BY Present DEF LinkInv, Listed
<1>2. NoStrays
  <2> SUFFICES ASSUME NEW c \in DOMAIN conns
               PROVE  \/ Here /\ A.connection # None /\ A.connection.id = c
                      \/ \E s \in Slots : ~ Free(s) /\ ~ Waits(ops[s])
                                            /\ ops[s].answer.conn = c
                                            /\ ops[s].answer.session = session
                      \/ \E e \in ending : e.conn = c /\ e.cookie = session
                      \/ c \in displaced
    BY DEF NoStrays
  <2>1. Covered(c) BY DEF LinkInv, AllCovered
  <2> QED BY <1>1, <2>1 DEF Covered, Held, Carries, Ended
<1>3. Len(agents) <= 1
  <2>1. agents = <<>> \/ agents = <<agents[1]>>
    BY DEF LinkInv, Listed, ListOK
  <2> QED BY <2>1
<1>4. \A s \in Slots : Free(s) \/ ops[s].kind \in Kinds
  BY DEF LinkInv, OpsSound, OpSound, OpFits
<1>5. AppTypeOK
  BY <1>1, <1>3, <1>4 DEF AppTypeOK, LinkInv, Counted, Connects, OnceInv
<1> QED BY <1>2, <1>5 DEF AppSound

LEMMA LinkInit ==
  ASSUME AppInit
  PROVE  LinkInv
<1>1. ListOK(agents) /\ agents # <<>> /\ agents[1].connection = None
  BY InitListed
<1>2. /\ removed = {} /\ told = FALSE /\ cookie = 1 /\ session = 1
      /\ hosted \in BOOLEAN /\ ops = [s \in Slots |-> Idle] /\ conns = <<>>
      /\ ending = {} /\ feed = None /\ made = 0 /\ stored = 0 /\ contexts = 0
  BY DEF AppInit
<1>3. DOMAIN conns = {} /\ conns = [c \in DOMAIN conns |-> conns[c]]
  BY <1>2
<1>4. Counted
  <2>1. /\ LastSession \in Nat \ {0} /\ LastConn \in Nat
        /\ LastContext \in Nat
    BY AppAssumption
  <2>2. session \in 1..LastSession /\ cookie \in 1..session
        /\ made \in 0..LastConn /\ stored \in Nat /\ contexts \in 0..LastContext
    BY <1>2, <2>1
  <2> QED BY <1>2, <2>2 DEF Counted
<1>5. Listed BY <1>1, <1>2 DEF Listed
<1>6. Connects /\ AllCovered BY <1>2, <1>3 DEF Connects, AllCovered
<1>7. OpsSound /\ EndsSound BY <1>2 DEF OpsSound, EndsSound, Free, Idle
<1> QED BY <1>4, <1>5, <1>6, <1>7 DEF LinkInv
-----------------------------------------------------------------------------
(* What keeps the parts of the invariant, for any step.                    *)
LEMMA SlotSound ==
  ASSUME OnceInv, Counted, OpsSound, NEW s \in Slots, NEW next,
         ops' = [ops EXCEPT ![s] = next],
         session' = session, cookie' \in {cookie, session},
         next = Idle \/ OpFits(next, cookie', session')
  PROVE  OpsSound'
<1>1. ops = [t \in Slots |-> ops[t]] BY DEF OnceInv
<1>2. cookie \in Nat /\ cookie' \in Nat /\ cookie <= cookie'
  <2>1. session \in Nat /\ cookie \in 1..session
    BY AppAssumption DEF Counted
  <2> QED BY <2>1
<1> SUFFICES ASSUME NEW t \in Slots, ~ Free(t)' PROVE OpSound(ops[t])'
  BY DEF OpsSound
<1>3. CASE t = s
  <2>1. ops'[t] = next BY <1>1, <1>3
  <2>2. next # Idle BY <2>1 DEF Free, Idle
  <2> QED BY <2>1, <2>2 DEF OpSound
<1>4. CASE t # s
  <2>1. ops'[t] = ops[t] BY <1>1, <1>4
  <2>2. OpSound(ops[t]) BY <2>1 DEF Free, OpsSound
  <2>3. ops[t].cookie \in 0..cookie' BY <1>2, <2>2 DEF OpSound, OpFits
  <2> QED BY <2>1, <2>2, <2>3 DEF OpSound, OpFits
<1> QED BY <1>3, <1>4

LEMMA WaitingSound ==
  ASSUME NEW op, op.kind \in Kinds, NEW next, NEW jar, Waiting(op, next, jar),
         Goes(op, next), jar \in 0..cookie'
  PROVE  next = Idle \/ OpFits(next, cookie', session')
<1>1. ASSUME next # Idle PROVE OpFits(next, cookie', session')
  <2>1. /\ AgentOK(next.agent) /\ next.answer = NoAnswer /\ next.cookie = jar
        /\ next.kind = op.kind
    BY <1>1 DEF Waiting, Goes
  <2>2. AnswerOK(next.answer) /\ next.answer.type # "renewed"
    BY <2>1 DEF AnswerOK, NoAnswer
  <2> QED BY <2>1, <2>2 DEF OpSound, OpFits
<1> QED BY <1>1

(* The operation in slot s took a step of the UI.                          *)
LEMMA TakeLinks ==
  ASSUME OnceInv, LinkInv, NEW s \in Slots, NEW st, NEW jar, Take(s, st, jar),
         UNCHANGED <<serverVars, hosted, removed, feed>>,
         cookie' \in {cookie, session}, told' \in BOOLEAN,
         displaced \subseteq displaced',
         ListOK(st.agents), st.agents = <<>> <=> agents = <<>>,
         st.op = Idle \/ OpFits(st.op, cookie', session'),
         \A c \in DOMAIN conns :
           Held(agents, c) => \/ Held(st.agents, c) \/ c \in displaced'
                              \/ st.drop = c /\ jar = session,
         \A c \in DOMAIN conns :
           Carries(s, c) => \/ Held(st.agents, c)
                            \/ st.drop = c /\ jar = session
                            \/ Carries(s, c)'
  PROVE  LinkInv'
<1>1. /\ agents' = st.agents /\ ops' = [ops EXCEPT ![s] = st.op]
      /\ ending' = ending \cup {[conn |-> c, cookie |-> jar, answer |-> None] :
                                  c \in {st.drop} \ {None}}
  BY DEF Take
<1>2. UNCHANGED <<session, conns, made, stored, contexts>> BY DEF serverVars
<1>3. Counted'
  <2>1. cookie' \in 1..session' BY <1>2, AppAssumption DEF LinkInv, Counted
  <2> QED BY <1>2, <2>1 DEF LinkInv, Counted
<1>4. Listed' BY <1>1 DEF LinkInv, Listed
<1>5. Connects' BY <1>2 DEF LinkInv, Connects
<1>6. OpsSound' BY <1>1, <1>2, SlotSound DEF LinkInv
<1>7. EndsSound'
  <2> SUFFICES ASSUME NEW e \in ending'
               PROVE  /\ DOMAIN e = {"conn", "cookie", "answer"}
                      /\ e.cookie = session => e.answer = None
                      /\ e.answer # None => e.answer.session = session
    BY <1>2 DEF EndsSound
  <2>1. CASE e \in ending BY <2>1 DEF LinkInv, EndsSound
  <2>2. CASE e \notin ending
    <3>1. PICK c : e = [conn |-> c, cookie |-> jar, answer |-> None]
      BY <1>1, <2>2
    <3> QED BY <3>1
  <2> QED BY <2>1, <2>2
<1>8. AllCovered'
  <2> SUFFICES ASSUME NEW c \in DOMAIN conns PROVE Covered(c)'
    BY <1>2 DEF AllCovered
  <2>1. Covered(c) BY DEF LinkInv, AllCovered
  <2>2. ASSUME st.drop = c, jar = session PROVE Covered(c)'
    <3>1. c # None
      <4>1. c \in Nat BY AppAssumption DEF LinkInv, Connects, Counted
      <4> QED BY <4>1, AppAssumption
    <3>2. [conn |-> c, cookie |-> jar, answer |-> None] \in ending'
      BY <1>1, <2>2, <3>1
    <3>3. Ended(c)' BY <1>2, <2>2, <3>2 DEF Ended
    <3> QED BY <3>3 DEF Covered
  <2>3. ASSUME NEW t \in Slots, t # s, Carries(t, c) PROVE Covered(c)'
    <3>1. ops'[t] = ops[t] BY <1>1, <2>3 DEF OnceInv
    <3>2. Carries(t, c)' BY <1>2, <2>3, <3>1 DEF Carries, Free, Waits
    <3> QED BY <3>2 DEF Covered
  <2>4. ASSUME Ended(c) PROVE Covered(c)'
    <3>1. Ended(c)' BY <1>1, <1>2, <2>4 DEF Ended
    <3> QED BY <3>1 DEF Covered
  <2>5. ASSUME Held(agents, c) PROVE Covered(c)'
    BY <1>1, <2>2, <2>5 DEF Covered
  <2>6. ASSUME Carries(s, c) PROVE Covered(c)'
    BY <1>1, <2>2, <2>6 DEF Covered
  <2>7. ASSUME c \in displaced PROVE Covered(c)'
    BY <2>7 DEF Covered
  <2> QED BY <2>1, <2>3, <2>4, <2>5, <2>6, <2>7 DEF Covered
<1> QED BY <1>3, <1>4, <1>5, <1>6, <1>7, <1>8 DEF LinkInv

(* Only an answer to a connect carries a connection.                       *)
LEMMA CarriesConnected ==
  ASSUME LinkInv, NEW s \in Slots, NEW c \in DOMAIN conns, Carries(s, c)
  PROVE  ops[s].answer.type = "connected"
<1>1. c \in Nat BY AppAssumption DEF LinkInv, Connects, Counted
<1>2. AnswerOK(ops[s].answer) /\ ops[s].answer.conn = c
      /\ ops[s].answer.type # "none"
  BY DEF LinkInv, OpsSound, OpSound, OpFits, Carries, Waits
<1> QED BY <1>1, <1>2, AppAssumption DEF AnswerOK

(* Connections there are are those of the cookie's session.                *)
LEMMA CookieCurrent ==
  ASSUME LinkInv, DOMAIN conns # {}
  PROVE  cookie = session
BY DEF LinkInv, Connects

(* Only the list changes, and keeps its connection.                        *)
LEMMA ListLinks ==
  ASSUME LinkInv, Kept(agents, agents'), feed' \in {feed, None},
         UNCHANGED <<removed, told, ops, cookie, serverVars, hosted, ending,
                     displaced>>
  PROVE  LinkInv'
<1>1. UNCHANGED <<session, conns, made, stored, contexts>> BY DEF serverVars
<1>2. Counted' BY <1>1 DEF LinkInv, Counted
<1>3. Listed' BY DEF LinkInv, Listed, Kept
<1>4. Connects' /\ OpsSound' /\ EndsSound'
  BY <1>1 DEF LinkInv, Connects, OpsSound, OpSound, OpFits, Free, EndsSound
<1>5. AllCovered'
  <2> SUFFICES ASSUME NEW c \in DOMAIN conns PROVE Covered(c)'
    BY <1>1 DEF AllCovered
  <2>1. Covered(c) BY DEF LinkInv, AllCovered
  <2>2. Held(agents, c) => Held(agents', c) BY DEF Kept
  <2> QED BY <1>1, <2>1, <2>2 DEF Covered, Carries, Free, Waits, Ended
<1> QED BY <1>2, <1>3, <1>4, <1>5 DEF LinkInv

(* The inspector answers, and may have made the connection it names.       *)
LEMMA ReplyLinks ==
  ASSUME OnceInv, LinkInv, NEW s \in Slots, ~ Free(s), Waits(ops[s]),
         NEW answer, Replies(s, answer), AnswerOK(answer),
         answer.type = "renewed"
           => answer.session = session /\ ops[s].cookie # session,
         UNCHANGED <<agents, removed, told, cookie, session, hosted, ending,
                     feed, displaced>>,
         Counted', Connects',
         \A c \in DOMAIN conns' :
           \/ c \in DOMAIN conns
           \/ answer.type = "connected" /\ answer.conn = c
              /\ answer.session = session
  PROVE  LinkInv'
<1>1. IsOp(ops[s]) BY DEF OnceInv, OpOK
<1>2. /\ \A t \in Slots \ {s} : ops'[t] = ops[t]
      /\ ops'[s] = [ops[s] EXCEPT !.answer = answer]
  BY DEF OnceInv, Replies
<1>3. /\ ops'[s].answer = answer /\ ops'[s].agent = ops[s].agent
      /\ ops'[s].cookie = ops[s].cookie /\ ops'[s].kind = ops[s].kind
      /\ ops'[s].pc = ops[s].pc
  BY <1>1, <1>2 DEF IsOp, Fields
<1>4. Listed' BY DEF LinkInv, Listed
<1>5. OpsSound'
  <2> SUFFICES ASSUME NEW t \in Slots, ~ Free(t)' PROVE OpSound(ops[t])'
    BY DEF OpsSound
  <2>1. CASE t = s
    <3>1. OpSound(ops[s]) BY DEF LinkInv, OpsSound
    <3> QED BY <1>3, <2>1, <3>1 DEF OpSound, OpFits
  <2>2. CASE t # s
    BY <1>2, <2>2 DEF LinkInv, OpsSound, OpSound, OpFits, Free
  <2> QED BY <2>1, <2>2
<1>6. EndsSound' BY DEF LinkInv, EndsSound
<1>7. AllCovered'
  <2> SUFFICES ASSUME NEW c \in DOMAIN conns' PROVE Covered(c)'
    BY DEF AllCovered
  <2>1. ASSUME c \notin DOMAIN conns PROVE Covered(c)'
    <3>1. answer.type = "connected" /\ answer.conn = c
          /\ answer.session = session
      BY <2>1
    <3>2. Carries(s, c)' BY <1>3, <3>1 DEF Carries, Free, Waits
    <3> QED BY <3>2 DEF Covered
  <2>2. ASSUME c \in DOMAIN conns PROVE Covered(c)'
    <3>1. Covered(c) BY <2>2 DEF LinkInv, AllCovered
    <3>2. \A t \in Slots : Carries(t, c) => Carries(t, c)'
      BY <1>2 DEF Carries, Free, Waits
    <3> QED BY <3>1, <3>2 DEF Covered, Ended
  <2> QED BY <2>1, <2>2
<1> QED BY <1>4, <1>5, <1>6, <1>7 DEF LinkInv
-----------------------------------------------------------------------------
(* The user's steps.                                                       *)
LEMMA StartLinks ==
  ASSUME OnceInv, LinkInv, NEW s \in Slots, NEW kind \in Kinds, NEW about,
         NEW list, Here, Kept(agents, list), Start(s, kind, about, list),
         displaced' = displaced
  PROVE  LinkInv'
<1> DEFINE op == Op(kind, about)
           st == Connect(list, op, cookie)
<1>1. /\ Free(s) /\ Take(s, st, cookie)
      /\ UNCHANGED <<removed, told, cookie, serverVars, hosted, feed>>
  BY DEF Start
<1>2. /\ A = agents[1] /\ agents = <<agents[1]>> /\ EntryOK(agents[1])
      /\ agents # <<>>
  BY Present DEF LinkInv
<1>3. /\ IsOp(op) /\ Undelivered(op) /\ op.kind = kind
      /\ op.agent = Captured(A)
  BY DEF Op, IsOp, Fields, Undelivered
<1>4. AgentOK(op.agent) /\ op.agent.connection = agents[1].connection
  BY <1>2, <1>3, CapturedOK
<1>5. ListOK(list) /\ (list = <<>> <=> agents = <<>>) BY DEF Kept
<1> HIDE DEF op
<1>6. /\ \/ Kept(list, st.agents) /\ st.drop = None
         \/ /\ op.agent.connection # None
            /\ st.agents = Disconnected(list, Agent)
            /\ st.drop = op.agent.connection.id
      /\ Waiting(op, st.op, cookie)
  BY <1>3, <1>4, <1>5, ConnectLists
<1>7. Goes(op, st.op) BY <1>3, ConnectGoes
<1>8. ListOK(st.agents) /\ (st.agents = <<>> <=> agents = <<>>)
  BY <1>5, <1>6, DisconnectedDrops DEF Kept
<1> HIDE DEF st
<1>9. st.op = Idle \/ OpFits(st.op, cookie', session')
  <2>1. cookie \in 0..cookie'
    <3>1. session \in Nat /\ cookie \in 1..session
      BY AppAssumption DEF LinkInv, Counted
    <3> QED BY <1>1, <3>1
  <2>2. op.kind \in Kinds BY <1>3
  <2> QED BY <1>6, <1>7, <2>1, <2>2, WaitingSound
<1>10. ASSUME NEW c \in DOMAIN conns, Held(agents, c)
       PROVE  \/ Held(st.agents, c) \/ c \in displaced'
              \/ st.drop = c /\ cookie = session
  <2>1. Held(list, c) BY <1>10 DEF Kept
  <2>2. cookie = session BY CookieCurrent
  <2>3. agents[1].connection.id = c BY <1>10 DEF Held
  <2> QED BY <1>4, <1>6, <2>1, <2>2, <2>3 DEF Kept
<1>11. \A c \in DOMAIN conns : ~ Carries(s, c) BY <1>1 DEF Carries
<1>12. told' \in BOOLEAN /\ cookie' \in {cookie, session}
         /\ displaced \subseteq displaced'
         /\ UNCHANGED <<serverVars, hosted, removed, feed>>
  BY <1>1 DEF LinkInv, Counted
<1>13. Take(s, st, cookie) BY <1>1 DEF st
<1> QED BY <1>8, <1>9, <1>10, <1>11, <1>12, <1>13, TakeLinks

LEMMA SendLinks ==
  ASSUME OnceInv, LinkInv, NEW s \in Slots, Send(s)
  PROVE  LinkInv'
<1> DEFINE said == Chat(agents, Agent, "sent")
           list == Busy(said, Agent, TRUE)
<1>1. Here /\ Start(s, "send", messages + 1, list) /\ displaced' = displaced
  BY DEF Send, Click
<1>2. ListOK(agents) BY DEF LinkInv, Listed
<1>3. Kept(agents, said) BY <1>2, ChatKeeps
<1>4. Kept(said, list) BY <1>3, BusyKeeps DEF Kept
<1>5. Kept(agents, list) BY <1>3, <1>4, KeptAgain
<1>6. "send" \in Kinds BY DEF Kinds
<1> HIDE DEF list
<1> QED BY <1>1, <1>5, <1>6, StartLinks

LEMMA CardLinks ==
  ASSUME OnceInv, LinkInv, NEW s \in Slots, FetchExtendedCard(s)
  PROVE  LinkInv'
<1> DEFINE list == ExtendedCard(agents, Agent, "loading")
<1>1. Here /\ Start(s, "card", None, list) /\ displaced' = displaced
  BY DEF FetchExtendedCard, Click
<1>2. Kept(agents, list) BY ExtendedCardKeeps DEF LinkInv, Listed
<1>3. "card" \in Kinds BY DEF Kinds
<1> HIDE DEF list
<1> QED BY <1>1, <1>2, <1>3, StartLinks

LEMMA SubscribeLinks ==
  ASSUME OnceInv, LinkInv, NEW s \in Slots, Subscribe(s)
  PROVE  LinkInv'
<1>1. PICK task : Start(s, "subscribe", task,
                        Subscribed(agents, Agent, task, TRUE))
  BY DEF Subscribe
<1> DEFINE list == Subscribed(agents, Agent, task, TRUE)
<1>2. Here /\ displaced' = displaced BY DEF Subscribe, Click
<1>3. Kept(agents, list) BY SubscribedKeeps DEF LinkInv, Listed
<1>4. "subscribe" \in Kinds BY DEF Kinds
<1> HIDE DEF list
<1> QED BY <1>1, <1>2, <1>3, <1>4, StartLinks DEF list

(* Stopping: an operation that connects goes on and is over when it is     *)
(* answered; any other is over, and no answer it has names a connection.   *)
LEMMA AbortCarries ==
  ASSUME OnceInv, LinkInv, NEW s \in Slots, ~ Free(s), NEW c \in DOMAIN conns,
         Carries(s, c)
  PROVE  ops[s].pc = "connect"
<1>1. ops[s].answer.type = "connected" BY CarriesConnected
<1>2. Consistent(ops[s]) BY DEF OnceInv, OpOK
<1> QED BY <1>1, <1>2 DEF Consistent

LEMMA AbortSound ==
  ASSUME OnceInv, LinkInv, NEW s \in Slots, ~ Free(s),
         NEW op, op = Abort(agents, ops[s]).op,
         cookie' = cookie, session' = session
  PROVE  op = Idle \/ OpFits(op, cookie', session')
<1>1. ListOK(agents) /\ IsOp(ops[s]) BY DEF LinkInv, Listed, OnceInv, OpOK
<1>2. OpSound(ops[s]) BY DEF LinkInv, OpsSound
<1>3. Goes(ops[s], op)
  <2>1. Consistent(ops[s]) BY DEF OnceInv, OpOK
  <2> QED BY <1>1, <2>1, AbortGoes
<1>4. \/ op = Idle /\ ops[s].pc # "connect"
      \/ /\ op.agent = ops[s].agent /\ op.answer = ops[s].answer
         /\ op.cookie = ops[s].cookie
  BY <1>1, AbortLists
<1> QED BY <1>2, <1>3, <1>4 DEF OpSound, OpFits, Goes

LEMMA StopLinks ==
  ASSUME OnceInv, LinkInv, NEW s \in Slots, Stop(s)
  PROVE  LinkInv'
<1> DEFINE st == Abort(agents, ops[s])
<1>1. /\ ~ Free(s) /\ Take(s, st, cookie)
      /\ UNCHANGED <<removed, told, cookie, serverVars, hosted, feed, displaced>>
  BY DEF Stop, Click
<1>2. ListOK(agents) /\ IsOp(ops[s]) BY <1>1 DEF LinkInv, Listed, OnceInv, OpOK
<1>3. /\ Kept(agents, st.agents) /\ st.drop = None
      /\ \/ st.op = Idle /\ ops[s].pc # "connect"
         \/ st.op.pc = "connect" /\ st.op.answer = ops[s].answer
  BY <1>2, AbortLists
<1>4. st.op = Idle \/ OpFits(st.op, cookie', session')
  <2>1. cookie' = cookie /\ session' = session BY <1>1 DEF serverVars
  <2> QED BY <1>1, <2>1, AbortSound
<1>5. ASSUME NEW c \in DOMAIN conns, Carries(s, c)
      PROVE  Carries(s, c)'
  <2>1. ops[s].pc = "connect" BY <1>1, <1>5, AbortCarries
  <2>2. st.op.pc = "connect" /\ st.op.answer = ops[s].answer BY <1>3, <2>1
  <2>3. ops'[s] = st.op /\ session' = session
    BY <1>1 DEF Take, OnceInv, serverVars
  <2> HIDE DEF st
  <2> QED BY <1>5, <2>2, <2>3 DEF Carries, Free, Waits
<1>6. told' \in BOOLEAN /\ cookie' \in {cookie, session}
      /\ displaced \subseteq displaced'
      /\ UNCHANGED <<serverVars, hosted, removed, feed>>
  BY <1>1 DEF LinkInv, Counted
<1>7. ListOK(st.agents) /\ (st.agents = <<>> <=> agents = <<>>)
      /\ \A c \in DOMAIN conns : Held(agents, c) => Held(st.agents, c)
  BY <1>3 DEF Kept
<1>8. Take(s, st, cookie) BY <1>1
<1> HIDE DEF st
<1> QED BY <1>4, <1>5, <1>6, <1>7, <1>8, TakeLinks

LEMMA AskNewConversationLinks ==
  ASSUME LinkInv, AskNewConversation
  PROVE  LinkInv'
<1>1. agents' = NewConversation(agents, Agent)
      /\ UNCHANGED <<removed, told, ops, cookie, serverVars, hosted, ending,
                     feed, displaced>>
  BY DEF AskNewConversation, Click
<1>2. Kept(agents, agents')
  BY <1>1, NewConversationKeeps DEF LinkInv, Listed
<1> QED BY <1>1, <1>2, ListLinks

LEMMA AskNewTaskLinks ==
  ASSUME LinkInv, AskNewTask
  PROVE  LinkInv'
<1>1. agents' = NewTask(agents, Agent)
      /\ UNCHANGED <<removed, told, ops, cookie, serverVars, hosted, ending,
                     feed, displaced>>
  BY DEF AskNewTask, Click
<1>2. Kept(agents, NewTask(agents, Agent)) BY NewTaskKeeps DEF LinkInv, Listed
<1> QED BY <1>1, <1>2, ListLinks

LEMMA EditSettingsLinks ==
  ASSUME LinkInv, EditSettings
  PROVE  LinkInv'
<1>1. Here /\ UNCHANGED <<removed, told, ops, cookie, serverVars, hosted,
                          ending, feed, displaced>>
  BY DEF EditSettings, Click
<1>2. PICK text \in Texts :
        agents' = ChangeSettings(agents, Agent,
                    IF A.settings.authType = "none"
                    THEN SetOther(A.settings, text)
                    ELSE SetSecret(A.settings, text))
  BY DEF EditSettings
<1> DEFINE settings == IF A.settings.authType = "none"
                       THEN SetOther(A.settings, text)
                       ELSE SetSecret(A.settings, text)
<1>3. SettingsOK(A.settings) BY <1>1, Present DEF LinkInv, EntryOK
<1>4. SettingsOK(settings) BY <1>3 DEF SettingsOK, SetOther, SetSecret
<1>5. agents' = ChangeSettings(agents, Agent, settings) BY <1>2
<1> HIDE DEF settings
<1>6. Kept(agents, ChangeSettings(agents, Agent, settings))
  BY <1>4, ChangeSettingsKeeps DEF LinkInv, Listed
<1> QED BY <1>1, <1>5, <1>6, ListLinks

(* Removing the agent ends its connection and stops its operations.        *)
LEMMA RemoveLinks ==
  ASSUME OnceInv, LinkInv, RemoveAgent
  PROVE  LinkInv'
<1> DEFINE after(t) == IF Free(t) THEN Idle
                       ELSE IF ops[t].kind = "card" THEN ops[t]
                       ELSE Abort(agents, ops[t]).op
<1>1. /\ Here /\ removed' = removed \cup {Agent}
      /\ agents' = RemoveEntries(State(agents, Agent), {Agent}).agents
      /\ ops' = [t \in Slots |-> after(t)]
      /\ ending' = ending \cup {[conn |-> A.connection.id, cookie |-> cookie,
                                  answer |-> None] :
                                  a \in {A.connection} \ {None}}
      /\ UNCHANGED <<told, cookie, session, conns, made, stored, contexts,
                     hosted, feed, displaced>>
  BY DEF RemoveAgent, Click, serverVars
<1>2. ListOK(agents) /\ agents # <<>> /\ A = agents[1]
  BY <1>1, Present DEF LinkInv, Listed
<1>3. agents' = <<>> BY <1>1, <1>2, RemoveEmpties
<1>4. Counted' BY <1>1 DEF LinkInv, Counted
<1>5. Listed' BY <1>1, <1>3 DEF Listed, ListOK
<1>6. Connects' BY <1>1 DEF LinkInv, Connects
<1>7. \A t \in Slots : ops'[t] = after(t) BY <1>1
<1>8. ASSUME NEW t \in Slots PROVE ops'[t] = Idle \/ OpFits(ops'[t], cookie', session')
  <2>1. CASE Free(t) BY <1>7, <2>1
  <2>2. CASE ~ Free(t) /\ ops[t].kind = "card"
    <3>1. ops'[t] = ops[t] BY <1>7, <2>2
    <3> QED BY <1>1, <2>2, <3>1 DEF LinkInv, OpsSound, OpSound
  <2>3. CASE ~ Free(t) /\ ops[t].kind # "card"
    <3>1. ops'[t] = Abort(agents, ops[t]).op BY <1>7, <2>3
    <3>2. cookie' = cookie /\ session' = session BY <1>1
    <3> QED BY <2>3, <3>1, <3>2, AbortSound
  <2> QED BY <2>1, <2>2, <2>3
<1>9. OpsSound'
  <2> SUFFICES ASSUME NEW t \in Slots, ~ Free(t)' PROVE OpSound(ops[t])'
    BY DEF OpsSound
  <2>1. ops'[t] # Idle BY DEF Free, Idle
  <2> QED BY <1>8, <2>1 DEF OpSound
<1>10. EndsSound'
  <2> SUFFICES ASSUME NEW e \in ending'
               PROVE  /\ DOMAIN e = {"conn", "cookie", "answer"}
                      /\ e.cookie = session => e.answer = None
                      /\ e.answer # None => e.answer.session = session
    BY <1>1 DEF EndsSound
  <2>1. CASE e \in ending BY <2>1 DEF LinkInv, EndsSound
  <2>2. CASE e \notin ending
    <3>1. e = [conn |-> A.connection.id, cookie |-> cookie, answer |-> None]
      BY <1>1, <2>2
    <3> QED BY <3>1
  <2> QED BY <2>1, <2>2
<1>11. ASSUME NEW c \in DOMAIN conns, Held(agents, c) PROVE Ended(c)'
  <2>1. A.connection # None /\ A.connection.id = c BY <1>2, <1>11 DEF Held
  <2>2. [conn |-> c, cookie |-> cookie, answer |-> None] \in ending'
    BY <1>1, <2>1
  <2>3. cookie = session BY CookieCurrent
  <2> QED BY <1>1, <2>2, <2>3 DEF Ended
<1>12. ASSUME NEW c \in DOMAIN conns, NEW t \in Slots, Carries(t, c)
       PROVE  Carries(t, c)'
  <2>1. ~ Free(t) /\ ops[t].pc = "connect" BY <1>12, AbortCarries DEF Carries
  <2>2. ops'[t].answer = ops[t].answer /\ ops'[t].pc = "connect"
    <3>1. CASE ops[t].kind = "card" BY <1>7, <2>1, <3>1
    <3>2. CASE ops[t].kind # "card"
      <4>1. ops'[t] = Abort(agents, ops[t]).op BY <1>7, <2>1, <3>2
      <4>2. IsOp(ops[t]) BY <2>1 DEF OnceInv, OpOK
      <4> QED BY <1>2, <2>1, <4>1, <4>2, AbortLists
    <3> QED BY <3>1, <3>2
  <2> QED BY <1>1, <1>12, <2>2 DEF Carries, Free, Waits
<1>13. AllCovered'
  <2> SUFFICES ASSUME NEW c \in DOMAIN conns PROVE Covered(c)'
    BY <1>1 DEF AllCovered
  <2>1. Covered(c) BY DEF LinkInv, AllCovered
  <2>2. Ended(c) => Ended(c)' BY <1>1 DEF Ended
  <2>3. c \in displaced => c \in displaced' BY <1>1
  <2> QED BY <1>11, <1>12, <2>1, <2>2, <2>3 DEF Covered
<1> QED BY <1>4, <1>5, <1>6, <1>9, <1>10, <1>13 DEF LinkInv

LEMMA UserLinks ==
  ASSUME OnceInv, LinkInv, User
  PROVE  LinkInv'
BY SendLinks, CardLinks, SubscribeLinks, StopLinks, AskNewConversationLinks,
   AskNewTaskLinks, EditSettingsLinks, RemoveLinks DEF User
-----------------------------------------------------------------------------
(* The inspector's steps.                                                  *)
LEMMA PlainOK ==
  ASSUME NEW type \in {"renewed", "unknown", "error", "end"}
  PROVE  /\ AnswerOK(Plain(type)) /\ Plain(type).type = type
         /\ Plain(type).session = session
BY DEF Plain, Answer, AnswerOK, NoConv, Conv, Convs, Fits

(* A plain answer, when nothing else changes.                              *)
LEMMA PlainLinks ==
  ASSUME OnceInv, LinkInv, NEW s \in Slots, ~ Free(s), Waits(ops[s]),
         NEW type \in {"renewed", "unknown", "error", "end"},
         Replies(s, Plain(type)), type = "renewed" => ops[s].cookie # session,
         UNCHANGED <<agents, removed, told, cookie, serverVars, hosted, ending,
                     feed, displaced>>
  PROVE  LinkInv'
<1>1. UNCHANGED <<session, conns, made, stored, contexts>> BY DEF serverVars
<1>2. AnswerOK(Plain(type)) /\ Plain(type).type = type
      /\ Plain(type).session = session
  BY PlainOK
<1>3. Counted' BY <1>1 DEF LinkInv, Counted
<1>4. Connects' BY <1>1 DEF LinkInv, Connects
<1>5. \A c \in DOMAIN conns' : c \in DOMAIN conns BY <1>1
<1> DEFINE answer == Plain(type)
<1>6. /\ AnswerOK(answer) /\ Replies(s, answer)
      /\ answer.type = "renewed"
           => answer.session = session /\ ops[s].cookie # session
  BY <1>2
<1> HIDE DEF answer
<1> QED BY <1>1, <1>3, <1>4, <1>5, <1>6, ReplyLinks

LEMMA ReferenceOK ==
  ASSUME Counted, NEW a, AgentOK(a)
  PROVE  Reference(a) \in Refs \cup {None}
<1> DEFINE auth == AuthInput(a.settings)
           n == IF auth.secret.kind = "ref" THEN auth.secret.of[2] ELSE stored + 1
<1>1. CASE auth.secret.kind = "plain" BY <1>1 DEF Reference
<1>2. CASE auth.secret.kind # "plain"
  <2>1. session \in Nat /\ stored + 1 \in Nat BY AppAssumption DEF Counted
  <2>2. auth.secret = SecretInput(a.settings.secret,
                                  a.settings.secret.source = "env")
    BY <1>2 DEF AuthInput, NoAuth
  <2>3. auth.secret.kind = "ref" =>
          /\ auth.secret.of = a.settings.secret.ref
          /\ a.settings.secret.ref # None
    <3> DEFINE secret == a.settings.secret
               env == secret.source = "env"
    <3>1. auth.secret = SecretInput(secret, env) BY <2>2
    <3> HIDE DEF auth, secret, env
    <3>2. SecretInput(secret, env).kind = "ref" =>
            SecretInput(secret, env).of = secret.ref /\ secret.ref # None
      BY DEF SecretInput
    <3> QED BY <3>1, <3>2 DEF secret
  <2>4. a.settings.secret.ref \in Refs \cup {None} BY DEF AgentOK, SettingsOK
  <2>5. auth.secret.kind = "ref" => auth.secret.of[2] \in Nat
    BY <2>3, <2>4 DEF Refs
  <2>6. n \in Nat BY <2>1, <2>5
  <2>7. Reference(a) = <<session, n>> BY <1>2 DEF Reference
  <2> QED BY <2>1, <2>6, <2>7 DEF Refs
<1> QED BY <1>1, <1>2

LEMMA ServeConnectLinks ==
  ASSUME OnceInv, LinkInv, NEW s \in Slots, ServeConnect(s)
  PROVE  LinkInv'
<1>1. /\ ~ Free(s) /\ Waits(ops[s])
      /\ UNCHANGED <<agents, removed, told, cookie, session, contexts, hosted,
                     ending, feed, displaced>>
  BY DEF ServeConnect, userVars
<1>2. CASE /\ ops[s].cookie # session /\ Replies(s, Plain("renewed"))
           /\ UNCHANGED <<conns, made, stored>>
  BY <1>1, <1>2, PlainLinks DEF serverVars
<1>3. CASE /\ Replies(s, Plain("error")) /\ UNCHANGED <<conns, made, stored>>
  BY <1>1, <1>3, PlainLinks DEF serverVars
<1> DEFINE a == ops[s].agent
           ref == Reference(a)
           kept == ref # None /\ AuthInput(a.settings).secret.kind = "ref"
           answer == [Answer("connected", made + 1, Continued(a), TRUE, TRUE)
                       EXCEPT !.ref = ref]
<1>4. CASE /\ ops[s].cookie = session /\ made < LastConn
           /\ stored' = IF kept \/ ref = None THEN stored ELSE stored + 1
           /\ made' = made + 1
           /\ conns' = [c \in DOMAIN conns \cup {made'} |->
                         IF c = made' THEN Continued(a) ELSE conns[c]]
           /\ Replies(s, answer)
  <2>1. OpSound(ops[s]) BY <1>1 DEF LinkInv, OpsSound
  <2>2. AgentOK(a) /\ ops[s].cookie \in 0..cookie BY <2>1 DEF OpSound, OpFits
  <2>3. ref \in Refs \cup {None} BY <2>2, ReferenceOK DEF LinkInv
  <2>4. Continued(a) \in Convs BY <2>2, ContinuedOK
  <2>5. /\ made \in 0..LastConn /\ stored \in Nat /\ session \in Nat
        /\ cookie \in 1..session /\ LastConn \in Nat
    BY AppAssumption DEF LinkInv, Counted
  <2>6. cookie = session BY <1>4, <2>2, <2>5
  <2>7. made' \in 0..LastConn /\ stored' \in Nat /\ made + 1 \in Nat
    <3> HIDE DEF kept, ref
    <3> QED BY <1>4, <2>5
  <2>8. Counted' BY <1>1, <2>7 DEF LinkInv, Counted
  <2>9. /\ DOMAIN conns' = DOMAIN conns \cup {made + 1}
        /\ conns' = [c \in DOMAIN conns' |-> conns'[c]]
        /\ \A c \in DOMAIN conns' :
             \/ conns'[c] = Continued(a)
             \/ c \in DOMAIN conns /\ conns'[c] = conns[c]
    <3> DEFINE conv == Continued(a)
    <3>1. /\ made' = made + 1
          /\ conns' = [c \in DOMAIN conns \cup {made'} |->
                        IF c = made' THEN conv ELSE conns[c]]
      BY <1>4
    <3> HIDE DEF conv
    <3>2. DOMAIN conns' = DOMAIN conns \cup {made'} BY <3>1
    <3>3. conns' = [c \in DOMAIN conns' |-> conns'[c]] BY <3>1
    <3>4. ASSUME NEW c \in DOMAIN conns'
          PROVE  \/ conns'[c] = conv
                 \/ c \in DOMAIN conns /\ conns'[c] = conns[c]
      <4>1. conns'[c] = IF c = made' THEN conv ELSE conns[c] BY <3>1, <3>2
      <4> QED BY <3>2, <4>1
    <3> QED BY <3>1, <3>2, <3>3, <3>4 DEF conv
  <2>10. Connects'
    <3>1. DOMAIN conns' \subseteq 1..made'
      BY <1>4, <2>5, <2>9 DEF LinkInv, Connects
    <3>2. \A c \in DOMAIN conns' : conns'[c] \in Convs
      BY <2>4, <2>9 DEF LinkInv, Connects
    <3> QED BY <1>1, <2>6, <2>9, <3>1, <3>2 DEF Connects
  <2>11. /\ answer.type = "connected" /\ answer.conn = made + 1
         /\ answer.session = session /\ answer.ref = ref
         /\ answer.conv = Continued(a)
    BY DEF Answer
  <2>12. AnswerOK(answer)
    <3> HIDE DEF answer, ref, a
    <3> QED BY <2>3, <2>4, <2>7, <2>11 DEF AnswerOK
  <2>13. Replies(s, answer) BY <1>4
  <2>14. answer.type # "renewed" BY <2>11
  <2>15. \A c \in DOMAIN conns' :
           \/ c \in DOMAIN conns
           \/ answer.type = "connected" /\ answer.conn = c
              /\ answer.session = session
    BY <2>9, <2>11
  <2> HIDE DEF answer, ref, a, kept
  <2> QED BY <1>1, <2>8, <2>10, <2>12, <2>13, <2>14, <2>15, ReplyLinks
<1> QED BY <1>2, <1>3, <1>4 DEF ServeConnect

LEMMA RefuseCallLinks ==
  ASSUME OnceInv, LinkInv, NEW s \in Slots, RefuseCall(s)
  PROVE  LinkInv'
<1>1. /\ ~ Free(s) /\ Waits(ops[s])
      /\ UNCHANGED <<agents, removed, told, cookie, serverVars, hosted, ending,
                     feed, displaced>>
  BY DEF RefuseCall, userVars
<1>2. CASE ops[s].cookie # session /\ Replies(s, Plain("renewed"))
  BY <1>1, <1>2, PlainLinks
<1>3. CASE Replies(s, Plain("unknown")) BY <1>1, <1>3, PlainLinks
<1> QED BY <1>2, <1>3 DEF RefuseCall

(* The conversation of a connection goes on, and the answer may say so.    *)
LEMMA GoesOnLinks ==
  ASSUME OnceInv, LinkInv, NEW s \in Slots, ~ Free(s), Waits(ops[s]),
         Holds(ops[s]), NEW conv \in Convs, GoesOn(s, conv),
         contexts' \in 0..LastContext,
         UNCHANGED <<agents, removed, told, cookie, session, made, stored,
                     hosted, ending, feed, displaced>>
  PROVE  LinkInv'
<1>1. conns' = [conns EXCEPT ![ops[s].conn] = conv] BY DEF GoesOn
<1>2. /\ DOMAIN conns' = DOMAIN conns
      /\ conns' = [c \in DOMAIN conns' |-> conns'[c]]
  BY <1>1 DEF LinkInv, Connects
<1>3. \A c \in DOMAIN conns' : conns'[c] \in {conv, conns[c]} BY <1>1, <1>2
<1>4. Counted' BY DEF LinkInv, Counted
<1>5. Connects'
  <2>1. \A c \in DOMAIN conns' : conns'[c] \in Convs
    BY <1>2, <1>3 DEF LinkInv, Connects
  <2> QED BY <1>2, <2>1 DEF LinkInv, Connects
<1>6. \A c \in DOMAIN conns' : c \in DOMAIN conns BY <1>2
<1>7. ASSUME NEW answer, Replies(s, answer), AnswerOK(answer),
             answer.type # "renewed"
      PROVE  LinkInv'
  BY <1>4, <1>5, <1>6, <1>7, ReplyLinks
<1>8. CASE Replies(s, Plain("error"))
  <2>1. AnswerOK(Plain("error")) /\ Plain("error").type = "error" BY PlainOK
  <2> QED BY <1>7, <1>8, <2>1
<1>9. ASSUME NEW last, NEW ok, Replies(s, Answer("result", None, conv, last, ok))
      PROVE  LinkInv'
  <2> DEFINE answer == Answer("result", None, conv, last, ok)
  <2>1. AnswerOK(answer) /\ answer.type = "result" BY DEF Answer, AnswerOK
  <2> HIDE DEF answer
  <2> QED BY <1>7, <1>9, <2>1 DEF answer
<1> QED BY <1>8, <1>9 DEF GoesOn

LEMMA DeliverLinks ==
  ASSUME OnceInv, LinkInv, NEW s \in Slots, Deliver(s)
  PROVE  LinkInv'
<1> DEFINE old == conns[ops[s].conn].context
           isNew == ops[s].agent.resetContext \/ old = None
           context == IF isNew THEN contexts + 1 ELSE old
<1>1. /\ ~ Free(s) /\ Waits(ops[s]) /\ Holds(ops[s])
      /\ isNew => contexts < LastContext
      /\ contexts' = IF isNew THEN contexts + 1 ELSE contexts
      /\ UNCHANGED <<agents, removed, told, cookie, session, made, stored,
                     hosted, ending, feed, displaced>>
  BY DEF Deliver, userVars
<1>2. PICK task \in {None, context} : GoesOn(s, Conv(context, task))
  BY DEF Deliver
<1>3. contexts \in Nat /\ contexts' \in 0..LastContext
  <2>1. contexts \in 0..LastContext /\ LastContext \in Nat
    BY AppAssumption DEF LinkInv, Counted
  <2> HIDE DEF isNew
  <2> QED BY <1>1, <2>1
<1>4. context \in Nat
  <2>1. conns[ops[s].conn] \in Convs BY <1>1 DEF LinkInv, Connects, Holds
  <2>2. old \in Nat \cup {None} BY <2>1 DEF Convs
  <2> QED BY <1>3, <2>2
<1>5. Conv(context, task) \in Convs
  <2> HIDE DEF context
  <2> QED BY <1>2, <1>4 DEF Conv, Convs, Fits
<1> HIDE DEF context, isNew, old
<1> QED BY <1>1, <1>2, <1>3, <1>5, GoesOnLinks

LEMMA ServeCallLinks ==
  ASSUME OnceInv, LinkInv, NEW s \in Slots, ServeCall(s)
  PROVE  LinkInv'
<1> DEFINE now == conns[ops[s].conn]
<1>1. /\ ~ Free(s) /\ Waits(ops[s]) /\ Holds(ops[s])
      /\ UNCHANGED <<agents, removed, told, cookie, session, made, stored,
                     contexts, hosted, ending, feed, displaced>>
  BY DEF ServeCall, userVars
<1>2. PICK task \in {None, now.task} : GoesOn(s, Conv(now.context, task))
  BY DEF ServeCall
<1>3. contexts' \in 0..LastContext BY <1>1 DEF LinkInv, Counted
<1>4. Conv(now.context, task) \in Convs
  <2>1. now \in Convs BY <1>1 DEF LinkInv, Connects, Holds
  <2> HIDE DEF now
  <2> QED BY <1>2, <2>1 DEF Conv, Convs, Fits
<1> HIDE DEF now
<1> QED BY <1>1, <1>2, <1>3, <1>4, GoesOnLinks

LEMMA ServeStreamLinks ==
  ASSUME OnceInv, LinkInv, NEW s \in Slots, ServeStream(s)
  PROVE  LinkInv'
<1>1. /\ ~ Free(s) /\ Waits(ops[s])
      /\ UNCHANGED <<agents, removed, told, cookie, session, made, stored,
                     contexts, hosted, ending, feed, displaced>>
  BY DEF ServeStream, userVars
<1>2. CASE Holds(ops[s]) /\ GoesOn(s, conns[ops[s].conn])
  <2>1. contexts' \in 0..LastContext BY <1>1 DEF LinkInv, Counted
  <2>2. conns[ops[s].conn] \in Convs BY <1>2 DEF LinkInv, Connects, Holds
  <2> QED BY <1>1, <1>2, <2>1, <2>2, GoesOnLinks
<1>3. CASE Replies(s, Plain("end")) /\ UNCHANGED conns
  BY <1>1, <1>3, PlainLinks DEF serverVars
<1> QED BY <1>2, <1>3 DEF ServeStream

(* Connections go, and each that stays is known as before.                 *)
LEMMA DropLinks ==
  ASSUME LinkInv, NEW gone, conns' = Restrict(conns, DOMAIN conns \ {gone}),
         UNCHANGED <<agents, removed, told, ops, cookie, session, made, stored,
                     contexts, hosted, feed, displaced>>,
         EndsSound',
         \A c \in DOMAIN conns \ {gone} : Ended(c) => Ended(c)'
  PROVE  LinkInv'
<1>1. /\ DOMAIN conns' = DOMAIN conns \ {gone}
      /\ conns' = [c \in DOMAIN conns' |-> conns'[c]]
      /\ \A c \in DOMAIN conns' : conns'[c] = conns[c]
  BY DEF Restrict
<1>2. Counted' /\ Listed' BY DEF LinkInv, Counted, Listed
<1>3. Connects' BY <1>1 DEF LinkInv, Connects
<1>4. OpsSound' BY DEF LinkInv, OpsSound, OpSound, OpFits, Free
<1>5. AllCovered'
  <2> SUFFICES ASSUME NEW c \in DOMAIN conns' PROVE Covered(c)'
    BY DEF AllCovered
  <2>1. Covered(c) BY <1>1 DEF LinkInv, AllCovered
  <2> QED BY <1>1, <2>1 DEF Covered, Carries, Free, Waits
<1> QED BY <1>2, <1>3, <1>4, <1>5 DEF LinkInv

LEMMA ServeDisconnectLinks ==
  ASSUME LinkInv, ServeDisconnect
  PROVE  LinkInv'
<1>1. UNCHANGED <<agents, removed, told, ops, cookie, session, made, stored,
                  contexts, hosted, feed, displaced>>
  BY DEF ServeDisconnect, uiVars, userVars
<1>2. PICK e \in ending :
        /\ e.answer = None
        /\ IF e.cookie = session
           THEN /\ conns' = Restrict(conns, DOMAIN conns \ {e.conn})
                /\ ending' = ending \ {e}
           ELSE /\ ending' = (ending \ {e})
                              \cup {[e EXCEPT !.answer = Plain("renewed")]}
                /\ UNCHANGED conns
  BY DEF ServeDisconnect
<1>3. CASE e.cookie = session
  <2>1. conns' = Restrict(conns, DOMAIN conns \ {e.conn})
        /\ ending' = ending \ {e}
    BY <1>2, <1>3
  <2>2. EndsSound' BY <1>1, <2>1 DEF LinkInv, EndsSound
  <2>3. \A c \in DOMAIN conns \ {e.conn} : Ended(c) => Ended(c)'
    BY <1>1, <2>1 DEF Ended
  <2> QED BY <1>1, <2>1, <2>2, <2>3, DropLinks
<1>4. CASE e.cookie # session
  <2> DEFINE f == [e EXCEPT !.answer = Plain("renewed")]
  <2>1. ending' = (ending \ {e}) \cup {f} /\ conns' = conns BY <1>2, <1>4
  <2>2. DOMAIN e = {"conn", "cookie", "answer"} BY DEF LinkInv, EndsSound
  <2>3. /\ DOMAIN f = {"conn", "cookie", "answer"} /\ f.cookie = e.cookie
        /\ f.answer.session = session
    BY <2>2, PlainOK
  <2> HIDE DEF f
  <2>4. EndsSound' BY <1>1, <1>4, <2>1, <2>3 DEF LinkInv, EndsSound
  <2>5. AllCovered'
    <3> SUFFICES ASSUME NEW c \in DOMAIN conns PROVE Covered(c)'
      BY <2>1 DEF AllCovered
    <3>1. Covered(c) BY DEF LinkInv, AllCovered
    <3>2. Ended(c) => Ended(c)' BY <1>1, <1>4, <2>1 DEF Ended
    <3> QED BY <1>1, <3>1, <3>2 DEF Covered, Carries, Free, Waits
  <2>6. Counted' /\ Listed' /\ Connects' /\ OpsSound'
    BY <1>1, <2>1 DEF LinkInv, Counted, Listed, Connects, OpsSound, OpSound,
                      OpFits, Free
  <2> QED BY <2>4, <2>5, <2>6 DEF LinkInv
<1> QED BY <1>3, <1>4

LEMMA MakeRoomLinks ==
  ASSUME LinkInv, MakeRoom
  PROVE  LinkInv'
<1>1. UNCHANGED <<agents, removed, told, ops, cookie, session, made, stored,
                  contexts, hosted, ending, feed, displaced>>
  BY DEF MakeRoom, Event, uiVars
<1>2. PICK c \in DOMAIN conns : conns' = Restrict(conns, DOMAIN conns \ {c})
  BY DEF MakeRoom
<1>3. EndsSound' /\ \A d \in DOMAIN conns \ {c} : Ended(d) => Ended(d)'
  BY <1>1 DEF LinkInv, EndsSound, Ended
<1> QED BY <1>1, <1>2, <1>3, DropLinks

(* No answer of the session that ends is under way that renews another.    *)
LEMMA SessionEndsLinks ==
  ASSUME OnceInv, LinkInv, SessionEnds
  PROVE  LinkInv'
<1>1. /\ session < LastSession /\ Settled /\ session' = session + 1
      /\ conns' = <<>> /\ made' = 0 /\ stored' = 0
      /\ UNCHANGED <<agents, removed, told, ops, cookie, contexts, hosted,
                     ending, feed>>
  BY DEF SessionEnds, uiVars
<1>2. /\ session \in Nat /\ LastSession \in Nat /\ cookie = session
      /\ LastConn \in Nat
  BY <1>1, AppAssumption DEF LinkInv, Counted, Settled
<1>3. Counted'
  <2>1. session' \in 1..LastSession /\ cookie' \in 1..session'
        /\ made' \in 0..LastConn /\ stored' \in Nat
    BY <1>1, <1>2 DEF LinkInv, Counted
  <2> QED BY <1>1, <2>1 DEF LinkInv, Counted
<1>4. Listed' BY <1>1 DEF LinkInv, Listed
<1>5. DOMAIN conns' = {} /\ conns' = [c \in DOMAIN conns' |-> conns'[c]]
  BY <1>1
<1>6. Connects' /\ AllCovered' BY <1>5 DEF Connects, AllCovered
<1>7. OpsSound'
  <2> SUFFICES ASSUME NEW s \in Slots, ~ Free(s)' PROVE OpSound(ops[s])'
    BY DEF OpsSound
  <2>1. ~ Free(s) BY <1>1 DEF Free
  <2>2. OpSound(ops[s]) BY <2>1 DEF LinkInv, OpsSound
  <2>3. Consistent(ops[s]) BY <2>1 DEF OnceInv, OpOK
  <2>4. ops[s].answer.type # "renewed"
    <3>1. CASE ops[s].pc = "stream" BY <2>3, <3>1 DEF Consistent
    <3>2. CASE ops[s].cookie = session BY <2>2, <3>2 DEF OpSound, OpFits
    <3>3. CASE ops[s].pc # "stream" /\ ops[s].cookie # session
      BY <1>1, <2>1, <3>3 DEF Settled
    <3> QED BY <3>1, <3>2, <3>3
  <2> QED BY <1>1, <2>2, <2>4 DEF OpSound, OpFits
<1>8. EndsSound'
  <2> SUFFICES ASSUME NEW e \in ending
               PROVE  /\ DOMAIN e = {"conn", "cookie", "answer"}
                      /\ e.cookie # session' /\ e.answer = None
    BY <1>1 DEF EndsSound
  <2>1. e.cookie = session BY <1>1 DEF Settled
  <2> QED BY <1>1, <1>2, <2>1 DEF LinkInv, EndsSound
<1> QED BY <1>3, <1>4, <1>6, <1>7, <1>8 DEF LinkInv

LEMMA NotifyLinks ==
  ASSUME LinkInv, Notify
  PROVE  LinkInv'
<1>1. UNCHANGED <<agents, removed, told, ops, cookie, session, made, stored,
                  contexts, hosted, ending, displaced>>
  BY DEF Notify, Event, uiVars
<1>0. PICK c \in DOMAIN conns : \E task \in {None, conns[c].context} :
        /\ conns' = [conns EXCEPT ![c].task = task]
        /\ feed' = [conn |-> c, conv |-> Conv(conns[c].context, task)]
  BY DEF Notify
<1>2. PICK task \in {None, conns[c].context} :
        /\ conns' = [conns EXCEPT ![c].task = task]
        /\ feed' = [conn |-> c, conv |-> Conv(conns[c].context, task)]
  BY <1>0
<1> DEFINE old == conns[c]
           conv == [old EXCEPT !.task = task]
<1>3. old \in Convs BY DEF LinkInv, Connects
<1>4. conv \in Convs /\ Conv(old.context, task) \in Convs
  <2> HIDE DEF old
  <2> QED BY <1>2, <1>3 DEF Conv, Convs, Fits, old
<1>5. conns' = [conns EXCEPT ![c] = conv] BY <1>2
<1> HIDE DEF conv
<1>6. /\ DOMAIN conns' = DOMAIN conns
      /\ conns' = [d \in DOMAIN conns' |-> conns'[d]]
      /\ \A d \in DOMAIN conns' : conns'[d] \in Convs
  BY <1>4, <1>5 DEF LinkInv, Connects
<1>7. Connects' BY <1>1, <1>6 DEF LinkInv, Connects
<1>8. feed'.conv \in Convs BY <1>2, <1>4
<1>9. Counted' BY <1>1, <1>8 DEF LinkInv, Counted
<1>10. Listed' /\ OpsSound' /\ EndsSound'
  BY <1>1 DEF LinkInv, Listed, OpsSound, OpSound, OpFits, Free, EndsSound
<1>11. AllCovered'
  BY <1>1, <1>6 DEF LinkInv, AllCovered, Covered, Carries, Free, Waits, Ended
<1> QED BY <1>7, <1>9, <1>10, <1>11 DEF LinkInv

LEMMA BackendLinks ==
  ASSUME OnceInv, LinkInv, Backend
  PROVE  LinkInv'
BY ServeConnectLinks, RefuseCallLinks, DeliverLinks, ServeCallLinks,
   ServeStreamLinks, ServeDisconnectLinks, SessionEndsLinks, MakeRoomLinks,
   NotifyLinks DEF Backend
-----------------------------------------------------------------------------
(* Answers arrive.                                                         *)
LEMMA ReceiveConnectedLinks ==
  ASSUME OnceInv, LinkInv, NEW s \in Slots, ReceiveConnected(s)
  PROVE  LinkInv'
<1> DEFINE gone == Agent \in removed
           op == ops[s]
           st == Establish(agents, op, gone, cookie)
<1>1. /\ ~ Free(s) /\ op.answer.type = "connected" /\ Take(s, st, cookie)
      /\ displaced' = IF gone THEN displaced ELSE displaced \cup Forgets
      /\ UNCHANGED <<removed, told, cookie, serverVars, hosted, feed>>
  BY DEF ReceiveConnected, Receives
<1>2. IsOp(op) /\ Consistent(op) BY <1>1 DEF OnceInv, OpOK
<1>3. OpSound(op) BY <1>1 DEF LinkInv, OpsSound
<1>4. AgentOK(op.agent) /\ AnswerOK(op.answer) /\ op.kind \in Kinds
  BY <1>3 DEF OpSound, OpFits
<1>5. ListOK(agents) /\ (agents = <<>> <=> gone) BY DEF LinkInv, Listed
<1>6. op.pc = "connect" BY <1>1, <1>2 DEF Consistent
<1>7. Goes(op, st.op) BY <1>2, <1>6, EstablishGoes
<1> HIDE DEF op
<1>8. /\ gone => st.drop = op.answer.conn
      /\ ListOK(st.agents) /\ (st.agents = <<>> <=> agents = <<>>)
      /\ ~ gone /\ agents # <<>> => Held(st.agents, op.answer.conn)
      /\ Waiting(op, st.op, cookie)
  <2>1. op.answer.type = "connected" /\ ListOK(agents) BY <1>1, <1>5
  <2>2. st = Establish(agents, op, Agent \in removed, cookie) OBVIOUS
  <2> HIDE DEF st
  <2>3. IsOp(op) /\ AgentOK(op.agent) /\ AnswerOK(op.answer) BY <1>2, <1>4
  <2>4. Establishes(agents, op, st, cookie)
    BY <2>1, <2>2, <2>3, EstablishLists
  <2> QED BY <2>4 DEF gone, Establishes
<1> HIDE DEF st, gone
<1>9. st.op = Idle \/ OpFits(st.op, cookie', session')
  <2>1. cookie \in 0..cookie'
    <3>1. session \in Nat /\ cookie \in 1..session
      BY AppAssumption DEF LinkInv, Counted
    <3> QED BY <1>1, <3>1
  <2> QED BY <1>4, <1>7, <1>8, <2>1, WaitingSound
<1>10. ASSUME NEW c \in DOMAIN conns, Held(agents, c)
       PROVE  c \in displaced'
  <2>1. ~ gone BY <1>5, <1>10 DEF Held
  <2>2. c \in Forgets BY <1>10, Present DEF Forgets, Held, LinkInv
  <2> QED BY <1>1, <2>1, <2>2
<1>11. ASSUME NEW c \in DOMAIN conns, Carries(s, c)
       PROVE  \/ Held(st.agents, c)
              \/ st.drop = c /\ cookie = session
  <2>1. op.answer.conn = c BY <1>11 DEF Carries, op
  <2>2. cookie = session BY CookieCurrent
  <2> QED BY <1>5, <1>8, <2>1, <2>2
<1>12. told' \in BOOLEAN /\ cookie' \in {cookie, session}
       /\ displaced \subseteq displaced'
       /\ UNCHANGED <<serverVars, hosted, removed, feed>>
  BY <1>1 DEF LinkInv, Counted
<1>13. Take(s, st, cookie) BY <1>1
<1> QED BY <1>8, <1>9, <1>10, <1>11, <1>12, <1>13, TakeLinks

(* A session that was renewed: what the list had is forgotten.             *)
LEMMA ReceiveRenewedLinks ==
  ASSUME OnceInv, LinkInv, NEW s \in Slots, ReceiveRenewed(s)
  PROVE  LinkInv'
<1> DEFINE op == ops[s]
           list == SessionReset(agents)
           st == Failure(list, op, session)
<1>1. /\ ~ Free(s) /\ op.answer.type = "renewed"
      /\ told' = (told \/ HadSession(agents)) /\ cookie' = op.answer.session
      /\ displaced' = displaced \cup Forgets
      /\ UNCHANGED <<removed, serverVars, hosted, feed>>
  BY DEF ReceiveRenewed, Receives, Renewal
<1>2. IsOp(op) /\ Consistent(op) BY <1>1 DEF OnceInv, OpOK
<1>3. OpSound(op) BY <1>1 DEF LinkInv, OpsSound
<1>4. /\ AgentOK(op.agent) /\ op.kind \in Kinds /\ cookie' = session
  BY <1>1, <1>3 DEF OpSound, OpFits
<1>5. Take(s, st, session) BY <1>4 DEF ReceiveRenewed
<1>6. ListOK(list) /\ (list = <<>> <=> agents = <<>>)
  BY SessionResetDrops DEF LinkInv, Listed
<1>7. Undelivered(op) BY <1>1, <1>2 DEF Consistent, Undelivered
<1> HIDE DEF op, list
<1>8. Goes(op, st.op) BY <1>2, <1>7, FailureGoes
<1>9. Kept(list, st.agents) /\ st.drop = None /\ Waiting(op, st.op, session)
  BY <1>2, <1>4, <1>6, FailureLists
<1> HIDE DEF st
<1>10. st.op = Idle \/ OpFits(st.op, cookie', session')
  <2>1. session \in 0..cookie'
    <3>1. session \in Nat BY AppAssumption DEF LinkInv, Counted
    <3> QED BY <1>4, <3>1
  <2> QED BY <1>4, <1>8, <1>9, <2>1, WaitingSound
<1>11. ASSUME NEW c \in DOMAIN conns, Held(agents, c)
       PROVE  c \in displaced'
  <2>1. c \in Forgets BY <1>11, Present DEF Forgets, Held, LinkInv
  <2> QED BY <1>1, <2>1
<1>12. ASSUME NEW c \in DOMAIN conns, Carries(s, c) PROVE FALSE
  BY <1>1, <1>12, CarriesConnected DEF op
<1>13. told' \in BOOLEAN /\ cookie' \in {cookie, session}
       /\ displaced \subseteq displaced'
       /\ UNCHANGED <<serverVars, hosted, removed, feed>>
  BY <1>1, <1>4 DEF LinkInv, Counted
<1>14. ListOK(st.agents) /\ (st.agents = <<>> <=> agents = <<>>)
  BY <1>6, <1>9 DEF Kept
<1> QED BY <1>5, <1>10, <1>11, <1>12, <1>13, <1>14, TakeLinks

(* A step of the operation that leaves the connection where it is.         *)
LEMMA KeepLinks ==
  ASSUME OnceInv, LinkInv, NEW s \in Slots, ~ Free(s),
         ops[s].answer.type # "connected",
         NEW st, Take(s, st, cookie), st.drop = None,
         ListOK(st.agents), st.agents = <<>> <=> agents = <<>>,
         \A c : Held(st.agents, c) <=> Held(agents, c),
         Goes(ops[s], st.op), NEW jar \in {cookie, ops[s].cookie},
         Waiting(ops[s], st.op, jar), displaced' = displaced,
         UNCHANGED <<removed, told, cookie, serverVars, hosted, feed>>
  PROVE  LinkInv'
<1>1. OpSound(ops[s]) BY DEF LinkInv, OpsSound
<1>2. ops[s].kind \in Kinds /\ ops[s].cookie \in 0..cookie
  BY <1>1 DEF OpSound, OpFits
<1>3. st.op = Idle \/ OpFits(st.op, cookie', session')
  <2>1. jar \in 0..cookie'
    <3>1. session \in Nat /\ cookie \in 1..session
      BY AppAssumption DEF LinkInv, Counted
    <3> QED BY <1>2, <3>1
  <2> QED BY <1>2, <2>1, WaitingSound
<1>4. \A c \in DOMAIN conns : ~ Carries(s, c) BY CarriesConnected
<1>5. told' \in BOOLEAN /\ cookie' \in {cookie, session}
      /\ displaced \subseteq displaced'
      /\ UNCHANGED <<serverVars, hosted, removed, feed>>
  BY DEF LinkInv, Counted
<1> QED BY <1>3, <1>4, <1>5, TakeLinks

LEMMA ReceiveErrorLinks ==
  ASSUME OnceInv, LinkInv, NEW s \in Slots, ReceiveError(s)
  PROVE  LinkInv'
<1> DEFINE op == ops[s]
           st == Failure(agents, op, cookie)
<1>1. /\ ~ Free(s) /\ op.answer.type \in {"error", "unknown"}
      /\ Take(s, st, cookie) /\ displaced' = displaced
      /\ UNCHANGED <<removed, told, cookie, serverVars, hosted, feed>>
  BY DEF ReceiveError, Receives, userVars
<1>2. IsOp(op) /\ Consistent(op) BY <1>1 DEF OnceInv, OpOK
<1>3. OpSound(op) BY <1>1 DEF LinkInv, OpsSound
<1>4. AgentOK(op.agent) BY <1>3 DEF OpSound, OpFits
<1>5. ListOK(agents) BY DEF LinkInv, Listed
<1>6. Undelivered(op) \/ op.answer.type \notin {"renewed", "unknown"}
  BY <1>1, <1>2 DEF Consistent, Undelivered
<1> HIDE DEF op
<1>7. Goes(op, st.op) BY <1>2, <1>6, FailureGoes
<1>8. Kept(agents, st.agents) /\ st.drop = None /\ Waiting(op, st.op, cookie)
  BY <1>2, <1>4, <1>5, FailureLists
<1> HIDE DEF st
<1>9. /\ ListOK(st.agents) /\ (st.agents = <<>> <=> agents = <<>>)
      /\ \A c : Held(st.agents, c) <=> Held(agents, c)
  BY <1>8 DEF Kept
<1>10. op.answer.type # "connected" BY <1>1
<1> QED BY <1>1, <1>7, <1>8, <1>9, <1>10, KeepLinks DEF op

LEMMA ReceiveResultLinks ==
  ASSUME OnceInv, LinkInv, NEW s \in Slots, ReceiveResult(s)
  PROVE  LinkInv'
<1> DEFINE op == ops[s]
           st == Result(agents, op)
<1>1. /\ ~ Free(s) /\ op.answer.type = "result"
      /\ Take(s, st, cookie) /\ displaced' = displaced
      /\ UNCHANGED <<removed, told, cookie, serverVars, hosted, feed>>
  BY DEF ReceiveResult, Receives
<1>2. IsOp(op) /\ Consistent(op) BY <1>1 DEF OnceInv, OpOK
<1>3. OpSound(op) BY <1>1 DEF LinkInv, OpsSound
<1>4. AgentOK(op.agent) /\ AnswerOK(op.answer) BY <1>3 DEF OpSound, OpFits
<1>5. ListOK(agents) BY DEF LinkInv, Listed
<1>6. op.pc # "connect" BY <1>1, <1>2 DEF Consistent
<1> HIDE DEF op
<1>7. Goes(op, st.op) BY <1>2, <1>6, ResultGoes
<1>8. /\ ListOK(st.agents) /\ (st.agents = <<>> <=> agents = <<>>)
      /\ \A c : Held(st.agents, c) <=> Held(agents, c)
      /\ st.drop = None /\ Waiting(op, st.op, op.cookie)
  BY <1>1, <1>2, <1>4, <1>5, ResultLists
<1> HIDE DEF st
<1>9. op.answer.type # "connected" BY <1>1
<1>10. op.cookie \in {cookie, op.cookie} OBVIOUS
<1> QED BY <1>1, <1>7, <1>8, <1>9, <1>10, KeepLinks DEF op

LEMMA ReceiveEndLinks ==
  ASSUME OnceInv, LinkInv, NEW s \in Slots, ReceiveEnd(s)
  PROVE  LinkInv'
<1> DEFINE st == Over(agents, ops[s], "done")
<1>1. /\ ~ Free(s) /\ ops[s].answer.type = "end"
      /\ Take(s, st, cookie) /\ displaced' = displaced
      /\ UNCHANGED <<removed, told, cookie, serverVars, hosted, feed>>
  BY DEF ReceiveEnd, Receives, userVars
<1>2. ListOK(agents) BY DEF LinkInv, Listed
<1>3. Kept(agents, st.agents) /\ st.op = Idle /\ st.drop = None
  BY <1>2, OverKeeps
<1> HIDE DEF st
<1>4. /\ ListOK(st.agents) /\ (st.agents = <<>> <=> agents = <<>>)
      /\ \A c : Held(st.agents, c) <=> Held(agents, c)
  BY <1>3 DEF Kept
<1>5. Goes(ops[s], st.op) /\ Waiting(ops[s], st.op, cookie)
  BY <1>3 DEF Goes, Waiting
<1>6. ops[s].answer.type # "connected" BY <1>1
<1> QED BY <1>1, <1>3, <1>4, <1>5, <1>6, KeepLinks

LEMMA ReceiveLinks ==
  ASSUME OnceInv, LinkInv, NEW s \in Slots, Receive(s)
  PROVE  LinkInv'
BY ReceiveConnectedLinks, ReceiveRenewedLinks, ReceiveErrorLinks,
   ReceiveResultLinks, ReceiveEndLinks DEF Receive

LEMMA HearDisconnectLinks ==
  ASSUME LinkInv, HearDisconnect
  PROVE  LinkInv'
<1>1. /\ agents' = SessionReset(agents) /\ displaced' = displaced \cup Forgets
      /\ UNCHANGED <<removed, ops, session, conns, made, stored, contexts,
                     hosted, feed>>
  BY DEF HearDisconnect, serverVars
<1>2. PICK e \in ending : /\ e.answer # None /\ ending' = ending \ {e}
                          /\ cookie' = e.answer.session
                          /\ told' = (told \/ HadSession(agents))
  BY DEF HearDisconnect, Renewal
<1>3. e.cookie # session /\ cookie' = session
  BY <1>2 DEF LinkInv, EndsSound
<1>4. session \in Nat /\ cookie \in 1..session
  BY AppAssumption DEF LinkInv, Counted
<1>5. Counted' BY <1>1, <1>2, <1>3, <1>4 DEF LinkInv, Counted
<1>6. Listed' BY <1>1, SessionResetDrops DEF LinkInv, Listed
<1>7. Connects' BY <1>1, <1>3 DEF LinkInv, Connects
<1>8. OpsSound'
  <2> SUFFICES ASSUME NEW s \in Slots, ~ Free(s)' PROVE OpSound(ops[s])'
    BY DEF OpsSound
  <2>1. OpSound(ops[s]) BY <1>1 DEF LinkInv, OpsSound, Free
  <2>2. ops[s].cookie \in 0..cookie' BY <1>3, <1>4, <2>1 DEF OpSound, OpFits
  <2> QED BY <1>1, <2>1, <2>2 DEF OpSound, OpFits
<1>9. EndsSound' BY <1>1, <1>2 DEF LinkInv, EndsSound
<1>10. AllCovered'
  <2> SUFFICES ASSUME NEW c \in DOMAIN conns PROVE Covered(c)'
    BY <1>1 DEF AllCovered
  <2>1. Covered(c) BY DEF LinkInv, AllCovered
  <2>2. Held(agents, c) => c \in Forgets
    BY Present DEF Forgets, Held, LinkInv
  <2>3. Ended(c) => Ended(c)' BY <1>1, <1>2, <1>3 DEF Ended
  <2>4. \A s \in Slots : Carries(s, c) => Carries(s, c)'
    BY <1>1 DEF Carries, Free, Waits
  <2> QED BY <1>1, <2>1, <2>2, <2>3, <2>4 DEF Covered
<1> QED BY <1>5, <1>6, <1>7, <1>8, <1>9, <1>10 DEF LinkInv

LEMMA HearNotificationLinks ==
  ASSUME LinkInv, HearNotification
  PROVE  LinkInv'
<1>1. /\ feed # None /\ feed' = None
      /\ agents' = NotificationConversation(agents, feed.conn, feed.conv)
      /\ UNCHANGED <<removed, told, ops, cookie, serverVars, hosted, ending,
                     displaced>>
  BY DEF HearNotification, userVars
<1>2. feed.conv \in Convs BY <1>1 DEF LinkInv, Counted
<1>3. Kept(agents, NotificationConversation(agents, feed.conn, feed.conv))
  BY <1>2, NotificationKeeps DEF LinkInv, Listed
<1> QED BY <1>1, <1>3, ListLinks

LEMMA LinkNext ==
  ASSUME OnceInv, LinkInv, [Next]_vars
  PROVE  LinkInv'
<1>1. CASE User BY <1>1, UserLinks
<1>2. CASE Backend BY <1>2, BackendLinks
<1>3. ASSUME NEW s \in Slots, Receive(s) PROVE LinkInv' BY <1>3, ReceiveLinks
<1>4. CASE HearDisconnect BY <1>4, HearDisconnectLinks
<1>5. CASE HearNotification BY <1>5, HearNotificationLinks
<1>6. CASE UNCHANGED vars
  <2>1. UNCHANGED <<agents, removed, told, ops, cookie, session, conns, made,
                    stored, contexts, hosted, ending, feed, displaced>>
    BY <1>6 DEF vars, uiVars, serverVars, userVars
  <2> QED BY <2>1 DEF LinkInv, Counted, Listed, Connects, OpsSound, OpSound,
                      Free, EndsSound, AllCovered, Covered, Carries, Waits, Ended
<1> QED BY <1>1, <1>2, <1>3, <1>4, <1>5, <1>6 DEF Next

(* In every state the list, the operations and the requests to end one     *)
(* account for the connections of the session.                             *)
THEOREM AppLinked == Spec => []LinkInv
<1>1. AppInit => LinkInv BY LinkInit
<1>2. OnceInv /\ LinkInv /\ [Next]_vars => LinkInv' BY LinkNext
<1> QED BY <1>1, <1>2, AppOnce, PTL DEF Spec

(* No connection is left behind: whatever the user, the session, lost      *)
(* answers and operations that run at once do, each one of the session is  *)
(* the agent's, on its way to it, about to be ended, or one the UI forgot  *)
(* for another (connect, removeAgent and the renewal listener of App.tsx). *)
THEOREM AppLeavesNoStray == Spec => []AppSound
<1>1. LinkInv /\ OnceInv => AppSound BY LinkSound
<1> QED BY <1>1, AppLinked, AppOnce, PTL
-----------------------------------------------------------------------------
(* The inductive invariant of "New conversation": until the answer to a    *)
(* message, the agent's entry remembers that one was asked for, and so     *)
(* does an operation that sends a message since; contexts only grow.       *)
Asks ==
  /\ asked \in 0..contexts \cup {None}
  /\ asked # None /\ agents # <<>> => agents[1].resetContext = TRUE

Floors ==
  \A m \in 1..LastMessage :
    /\ reached[m].floor \in 0..contexts \cup {None}
    /\ reached[m].times > 0 /\ reached[m].floor # None
         => reached[m].context > reached[m].floor

Fresh(op) ==
  Sends(op) /\ reached[op.about].floor # None => op.agent.resetContext = TRUE

FreshInv == Asks /\ Floors /\ \A s \in Slots : ~ Free(s) => Fresh(ops[s])

(* The same operation, a step later.                                       *)
Stays(op, next) ==
  \/ next = Idle
  \/ /\ next.kind = op.kind /\ next.about = op.about
     /\ next.agent.resetContext = op.agent.resetContext

(* A list after another, if it has the agent, remembers what that did.     *)
Remembers(l, m) ==
  m # <<>> => /\ l # <<>>
              /\ l[1].resetContext = TRUE => m[1].resetContext = TRUE

LEMMA StaysWaiting ==
  ASSUME NEW op, NEW next, NEW jar, Goes(op, next), Waiting(op, next, jar)
  PROVE  Stays(op, next)
BY DEF Goes, Waiting, Stays

LEMMA KeptRemembers ==
  ASSUME NEW l, NEW m, Kept(l, m)
  PROVE  Remembers(l, m)
BY DEF Kept, Remembers

LEMMA RemembersAgain ==
  ASSUME NEW l, NEW m, NEW n, Remembers(l, m), Remembers(m, n)
  PROVE  Remembers(l, n)
BY DEF Remembers

(* A step that gets no message to the agent and starts none.               *)
LEMMA FreshSteps ==
  ASSUME FreshInv, UNCHANGED <<reached, contexts>>,
         \A t \in Slots : ~ Free(t)' =>
           \/ ~ Sends(ops'[t])
           \/ ~ Free(t) /\ Stays(ops[t], ops'[t]),
         asked' = None \/ (asked' = asked /\ Remembers(agents, agents'))
  PROVE  FreshInv'
<1>1. Asks' BY DEF FreshInv, Asks, Remembers
<1>2. Floors' BY DEF FreshInv, Floors
<1>3. ASSUME NEW t \in Slots, ~ Free(t)' PROVE Fresh(ops[t])'
  <2>1. ops'[t] # Idle BY <1>3 DEF Free, Idle
  <2>2. CASE ~ Sends(ops'[t]) BY <2>2 DEF Fresh, Sends
  <2>3. CASE ~ Free(t) /\ Stays(ops[t], ops'[t])
    BY <2>1, <2>3 DEF FreshInv, Fresh, Stays, Sends
  <2> QED BY <1>3, <2>2, <2>3
<1> QED BY <1>1, <1>2, <1>3 DEF FreshInv

LEMMA OneFresh ==
  ASSUME OnceInv, FreshInv, UNCHANGED <<reached, contexts>>, NEW s \in Slots,
         NEW next, ops' = [ops EXCEPT ![s] = next],
         next = Idle \/ ~ Sends(next) \/ (~ Free(s) /\ Stays(ops[s], next)),
         asked' = None \/ (asked' = asked /\ Remembers(agents, agents'))
  PROVE  FreshInv'
<1>1. ASSUME NEW t \in Slots, ~ Free(t)'
      PROVE  \/ ~ Sends(ops'[t])
             \/ ~ Free(t) /\ Stays(ops[t], ops'[t])
  <2>1. CASE t = s
    <3>1. ops'[t] = next BY <2>1 DEF OnceInv
    <3>2. next # Idle BY <1>1, <3>1 DEF Free, Idle
    <3> QED BY <2>1, <3>1, <3>2
  <2>2. CASE t # s
    <3>1. ops'[t] = ops[t] BY <2>2 DEF OnceInv
    <3> QED BY <1>1, <3>1 DEF Free, Stays
  <2> QED BY <2>1, <2>2
<1> QED BY <1>1, FreshSteps

(* Only the list changes, or nothing the invariant is about.               *)
LEMMA ListFresh ==
  ASSUME FreshInv, UNCHANGED <<reached, contexts, ops, asked>>,
         Remembers(agents, agents')
  PROVE  FreshInv'
BY DEF FreshInv, Asks, Floors, Fresh, Free, Remembers

LEMMA StartRemembers ==
  ASSUME OnceInv, LinkInv, NEW s \in Slots, NEW kind, NEW about, NEW list,
         Here, Kept(agents, list), Start(s, kind, about, list)
  PROVE  /\ Remembers(agents, agents') /\ contexts' = contexts
         /\ agents # <<>>
         /\ \E next : /\ ops' = [ops EXCEPT ![s] = next]
                      /\ next = Idle \/ (/\ next.kind = kind /\ next.about = about
                                         /\ next.agent.resetContext
                                              = agents[1].resetContext)
<1> DEFINE op == Op(kind, about)
           st == Connect(list, op, cookie)
<1>1. Take(s, st, cookie) /\ contexts' = contexts BY DEF Start, serverVars
<1>2. A = agents[1] /\ EntryOK(agents[1]) /\ agents # <<>>
  BY Present DEF LinkInv
<1>3. /\ IsOp(op) /\ Undelivered(op) /\ op.kind = kind /\ op.about = about
      /\ op.agent = Captured(A)
  BY DEF Op, IsOp, Fields, Undelivered
<1>4. AgentOK(op.agent) /\ op.agent.resetContext = agents[1].resetContext
  BY <1>2, <1>3, CapturedOK
<1>5. ListOK(list) BY DEF Kept
<1> HIDE DEF op
<1>6. /\ \/ Kept(list, st.agents)
         \/ st.agents = Disconnected(list, Agent)
      /\ Waiting(op, st.op, cookie)
  BY <1>3, <1>4, <1>5, ConnectLists
<1>7. Goes(op, st.op) BY <1>3, ConnectGoes
<1> HIDE DEF st
<1>8. Stays(op, st.op) BY <1>6, <1>7, StaysWaiting
<1>9. Remembers(list, st.agents)
  <2>1. CASE Kept(list, st.agents) BY <2>1, KeptRemembers
  <2>2. CASE st.agents = Disconnected(list, Agent)
    BY <1>5, <2>2, DisconnectedDrops DEF Remembers
  <2> QED BY <1>6, <2>1, <2>2
<1>10. Remembers(agents, st.agents)
  BY <1>9, KeptRemembers, RemembersAgain
<1>11. agents' = st.agents /\ ops' = [ops EXCEPT ![s] = st.op]
  BY <1>1 DEF Take
<1>12. st.op = Idle \/ (/\ st.op.kind = kind /\ st.op.about = about
                        /\ st.op.agent.resetContext = agents[1].resetContext)
  BY <1>3, <1>4, <1>8 DEF Stays
<1> QED BY <1>1, <1>2, <1>10, <1>11, <1>12

LEMMA StartFresh ==
  ASSUME OnceInv, LinkInv, FreshInv, NEW s \in Slots, NEW kind, kind # "send",
         NEW about, NEW list, Here, Kept(agents, list),
         Start(s, kind, about, list), UNCHANGED <<asked, reached>>
  PROVE  FreshInv'
<1>1. /\ Remembers(agents, agents') /\ contexts' = contexts
      /\ \E next : /\ ops' = [ops EXCEPT ![s] = next]
                   /\ next = Idle \/ (/\ next.kind = kind /\ next.about = about
                                      /\ next.agent.resetContext
                                           = agents[1].resetContext)
  BY StartRemembers
<1>2. PICK next : /\ ops' = [ops EXCEPT ![s] = next]
                  /\ next = Idle \/ next.kind = kind
  BY <1>1
<1> QED BY <1>1, <1>2, OneFresh DEF Sends

(* A message is sent by an agent that remembers what was asked for.        *)
LEMMA SendFresh ==
  ASSUME OnceInv, LinkInv, FreshInv, NEW s \in Slots, Send(s)
  PROVE  FreshInv'
<1> DEFINE said == Chat(agents, Agent, "sent")
           list == Busy(said, Agent, TRUE)
           m == messages + 1
<1>1. /\ Here /\ Start(s, "send", m, list) /\ asked' = asked
      /\ reached' = [reached EXCEPT ![m].floor = asked]
      /\ m \in 1..LastMessage /\ messages \in Nat
  <2>1. messages < LastMessage BY DEF Send
  <2>2. m \in 1..LastMessage /\ messages \in Nat
    BY <2>1, AppAssumption DEF OnceInv
  <2>3. /\ Here /\ Start(s, "send", messages + 1, list) /\ asked' = asked
        /\ reached' = [reached EXCEPT ![messages + 1].floor = asked]
    BY DEF Send
  <2> QED BY <2>2, <2>3
<1>2. Kept(agents, list)
  <2>1. Kept(agents, said) BY ChatKeeps DEF LinkInv, Listed
  <2>2. Kept(said, list) BY <2>1, BusyKeeps DEF Kept
  <2> HIDE DEF list
  <2> QED BY <2>1, <2>2, KeptAgain
<1> HIDE DEF list, said
<1>3. /\ Remembers(agents, agents') /\ contexts' = contexts /\ agents # <<>>
      /\ \E next : /\ ops' = [ops EXCEPT ![s] = next]
                   /\ next = Idle \/ (/\ next.kind = "send" /\ next.about = m
                                      /\ next.agent.resetContext
                                           = agents[1].resetContext)
  BY <1>1, <1>2, StartRemembers
<1>4. PICK next : /\ ops' = [ops EXCEPT ![s] = next]
                  /\ next = Idle \/ (/\ next.kind = "send" /\ next.about = m
                                     /\ next.agent.resetContext
                                          = agents[1].resetContext)
  BY <1>3
<1>5. /\ reached'[m].floor = asked /\ reached[m].times = 0
      /\ reached'[m].times = 0
      /\ \A k \in 1..LastMessage : k # m => reached'[k] = reached[k]
  BY <1>1 DEF OnceInv
<1>6. Asks' BY <1>1, <1>3 DEF FreshInv, Asks, Remembers
<1>7. Floors'
  <2> SUFFICES ASSUME NEW k \in 1..LastMessage
               PROVE  /\ reached'[k].floor \in 0..contexts \cup {None}
                      /\ reached'[k].times > 0 /\ reached'[k].floor # None
                           => reached'[k].context > reached'[k].floor
    BY <1>3 DEF Floors
  <2>1. CASE k = m BY <1>5, <2>1 DEF FreshInv, Asks
  <2>2. CASE k # m BY <1>5, <2>2 DEF FreshInv, Floors
  <2> QED BY <2>1, <2>2
<1>8. ASSUME NEW t \in Slots, ~ Free(t)' PROVE Fresh(ops[t])'
  <2>1. CASE t = s
    <3>1. ops'[t] = next BY <1>4, <2>1 DEF OnceInv
    <3>2. next # Idle BY <1>8, <3>1 DEF Free, Idle
    <3> QED BY <1>3, <1>4, <1>5, <3>1, <3>2 DEF FreshInv, Asks, Fresh
  <2>2. CASE t # s
    <3>1. ops'[t] = ops[t] BY <1>4, <2>2 DEF OnceInv
    <3>2. ~ Free(t) BY <1>8, <3>1 DEF Free
    <3>3. OpOK(ops[t]) /\ Fresh(ops[t]) BY <3>2 DEF OnceInv, FreshInv
    <3>4. Sends(ops[t]) => ops[t].about # m /\ ops[t].about \in 1..LastMessage
      <4>1. messages <= LastMessage /\ LastMessage \in Nat
        BY AppAssumption DEF OnceInv
      <4> QED BY <1>1, <3>3, <4>1 DEF OpOK
    <3> QED BY <1>5, <3>1, <3>3, <3>4 DEF Fresh, Sends
  <2> QED BY <2>1, <2>2
<1> QED BY <1>6, <1>7, <1>8 DEF FreshInv

LEMMA StopFresh ==
  ASSUME OnceInv, LinkInv, FreshInv, NEW s \in Slots, Stop(s)
  PROVE  FreshInv'
<1> DEFINE st == Abort(agents, ops[s])
<1>1. /\ ~ Free(s) /\ Take(s, st, cookie)
      /\ UNCHANGED <<asked, reached, contexts>>
  BY DEF Stop, Click, serverVars
<1>2. ListOK(agents) /\ IsOp(ops[s]) /\ Consistent(ops[s])
  BY <1>1 DEF LinkInv, Listed, OnceInv, OpOK
<1>3. /\ Kept(agents, st.agents)
      /\ st.op = Idle \/ st.op.agent = ops[s].agent
  BY <1>2, AbortLists
<1>4. Goes(ops[s], st.op) BY <1>2, AbortGoes
<1> HIDE DEF st
<1>5. Stays(ops[s], st.op) BY <1>3, <1>4 DEF Goes, Stays
<1>6. Remembers(agents, agents') BY <1>1, <1>3, KeptRemembers DEF Take
<1>7. ops' = [ops EXCEPT ![s] = st.op] BY <1>1 DEF Take
<1> QED BY <1>1, <1>5, <1>6, <1>7, OneFresh

LEMMA RemoveFresh ==
  ASSUME OnceInv, LinkInv, FreshInv, RemoveAgent
  PROVE  FreshInv'
<1>1. /\ Here /\ UNCHANGED <<asked, reached, contexts>>
      /\ agents' = RemoveEntries(State(agents, Agent), {Agent}).agents
      /\ ops' = [t \in Slots |->
                   IF Free(t) THEN Idle
                   ELSE IF ops[t].kind = "card" THEN ops[t]
                   ELSE Abort(agents, ops[t]).op]
  BY DEF RemoveAgent, Click, serverVars
<1>2. ListOK(agents) /\ agents # <<>> BY <1>1, Present DEF LinkInv, Listed
<1>3. agents' = <<>> BY <1>1, <1>2, RemoveEmpties
<1>4. ASSUME NEW t \in Slots, ~ Free(t)'
      PROVE  ~ Free(t) /\ Stays(ops[t], ops'[t])
  <2>1. ops'[t] # Idle BY <1>4 DEF Free, Idle
  <2>2. ~ Free(t) BY <1>1, <2>1
  <2>3. CASE ops[t].kind = "card"
    <3>1. ops'[t] = ops[t] BY <1>1, <2>2, <2>3
    <3> QED BY <2>2, <3>1 DEF Stays
  <2>4. CASE ops[t].kind # "card"
    <3> DEFINE next == Abort(agents, ops[t]).op
    <3>1. ops'[t] = next BY <1>1, <2>2, <2>4
    <3>2. IsOp(ops[t]) /\ Consistent(ops[t]) BY <2>2 DEF OnceInv, OpOK
    <3>3. Goes(ops[t], next) BY <3>2, AbortGoes
    <3>4. next = Idle \/ next.agent = ops[t].agent BY <1>2, <3>2, AbortLists
    <3> HIDE DEF next
    <3>5. Stays(ops[t], next) BY <3>3, <3>4 DEF Goes, Stays
    <3> QED BY <2>2, <3>1, <3>5
  <2> QED BY <2>3, <2>4
<1>5. Remembers(agents, agents') BY <1>3 DEF Remembers
<1> QED BY <1>1, <1>4, <1>5, FreshSteps

(* What else the user does changes the list alone.                         *)
LEMMA AskFresh ==
  ASSUME LinkInv, FreshInv, AskNewConversation
  PROVE  FreshInv'
<1>1. /\ agents' = NewConversation(agents, Agent) /\ asked' = contexts
      /\ UNCHANGED <<reached, contexts, ops>>
  BY DEF AskNewConversation, serverVars
<1>2. Kept(agents, agents') /\ (agents # <<>> => agents'[1].resetContext = TRUE)
  BY <1>1, NewConversationKeeps DEF LinkInv, Listed
<1>3. contexts \in Nat BY AppAssumption DEF LinkInv, Counted
<1>4. Asks' BY <1>1, <1>2, <1>3 DEF Asks, Kept
<1> QED BY <1>1, <1>4 DEF FreshInv, Floors, Fresh, Free

LEMMA EditFresh ==
  ASSUME LinkInv, FreshInv, AskNewTask \/ EditSettings
  PROVE  FreshInv'
<1>1. UNCHANGED <<reached, contexts, ops, asked>>
  BY DEF AskNewTask, EditSettings, serverVars
<1>2. Remembers(agents, agents')
  <2>1. CASE AskNewTask
    <3>1. agents' = NewTask(agents, Agent) BY <2>1 DEF AskNewTask
    <3>2. Kept(agents, NewTask(agents, Agent)) BY NewTaskKeeps DEF LinkInv, Listed
    <3> QED BY <3>1, <3>2, KeptRemembers
  <2>2. CASE EditSettings
    <3> DEFINE settings(text) == IF A.settings.authType = "none"
                                 THEN SetOther(A.settings, text)
                                 ELSE SetSecret(A.settings, text)
    <3>1. PICK text \in Texts :
            Here /\ agents' = ChangeSettings(agents, Agent, settings(text))
      BY <2>2 DEF EditSettings
    <3>2. SettingsOK(A.settings) BY <3>1, Present DEF LinkInv, EntryOK
    <3>3. SettingsOK(settings(text))
      BY <3>2 DEF SettingsOK, SetOther, SetSecret
    <3> HIDE DEF settings
    <3>4. Kept(agents, ChangeSettings(agents, Agent, settings(text)))
      BY <3>3, ChangeSettingsKeeps DEF LinkInv, Listed
    <3> QED BY <3>1, <3>4, KeptRemembers
  <2> QED BY <2>1, <2>2
<1> QED BY <1>1, <1>2, ListFresh

LEMMA UserFresh ==
  ASSUME OnceInv, LinkInv, FreshInv, User
  PROVE  FreshInv'
<1>1. ASSUME NEW s \in Slots, FetchExtendedCard(s) PROVE FreshInv'
  <2> DEFINE list == ExtendedCard(agents, Agent, "loading")
  <2>1. /\ Here /\ Start(s, "card", None, list)
        /\ UNCHANGED <<asked, reached>>
    BY <1>1 DEF FetchExtendedCard, Click
  <2>2. Kept(agents, list) BY ExtendedCardKeeps DEF LinkInv, Listed
  <2>3. "card" # "send" OBVIOUS
  <2> HIDE DEF list
  <2> QED BY <2>1, <2>2, <2>3, StartFresh
<1>2. ASSUME NEW s \in Slots, Subscribe(s) PROVE FreshInv'
  <2> DEFINE list(task) == Subscribed(agents, Agent, task, TRUE)
  <2>1. Here /\ UNCHANGED <<asked, reached>> BY <1>2 DEF Subscribe, Click
  <2>2. PICK task : Start(s, "subscribe", task, list(task))
    BY <1>2 DEF Subscribe
  <2>3. Kept(agents, list(task)) BY SubscribedKeeps DEF LinkInv, Listed
  <2>4. "subscribe" # "send" OBVIOUS
  <2> HIDE DEF list
  <2> QED BY <2>1, <2>2, <2>3, <2>4, StartFresh
<1> QED BY <1>1, <1>2, SendFresh, StopFresh, AskFresh, EditFresh, RemoveFresh
        DEF User
-----------------------------------------------------------------------------
(* A message of an operation that remembers goes to a new context.         *)
LEMMA ReplyStays ==
  ASSUME OnceInv, NEW s \in Slots, ~ Free(s), NEW answer, Replies(s, answer)
  PROVE  \E next : ops' = [ops EXCEPT ![s] = next] /\ Stays(ops[s], next)
<1> DEFINE next == [ops[s] EXCEPT !.answer = answer]
<1>1. IsOp(ops[s]) BY DEF OnceInv, OpOK
<1>2. Stays(ops[s], next) BY <1>1 DEF IsOp, Fields, Stays
<1>3. ops' = [ops EXCEPT ![s] = next] BY DEF Replies, OnceInv
<1> QED BY <1>2, <1>3

LEMMA DeliverFresh ==
  ASSUME OnceInv, LinkInv, FreshInv, NEW s \in Slots, Deliver(s)
  PROVE  FreshInv'
<1> DEFINE op == ops[s]
           m == op.about
           old == conns[op.conn].context
           isNew == op.agent.resetContext \/ old = None
           context == IF isNew THEN contexts + 1 ELSE old
<1>1. /\ ~ Free(s) /\ Sends(op)
      /\ contexts' = IF isNew THEN contexts + 1 ELSE contexts
      /\ reached' = [reached EXCEPT ![m].times = @ + 1, ![m].context = context]
      /\ UNCHANGED <<agents, asked>> /\ \E conv : GoesOn(s, conv)
  BY DEF Deliver, userVars
<1>2. \E answer : Replies(s, answer) BY <1>1, GoesOnReplies
<1>3. PICK next : ops' = [ops EXCEPT ![s] = next] /\ Stays(op, next)
  BY <1>1, <1>2, ReplyStays
<1>4. OpOK(op) /\ Fresh(op) BY <1>1 DEF OnceInv, FreshInv
<1>5. m \in 1..LastMessage
  <2>1. messages \in 0..LastMessage /\ LastMessage \in Nat
    BY AppAssumption DEF OnceInv
  <2> QED BY <1>1, <1>4, <2>1 DEF OpOK
<1>6. contexts \in Nat /\ contexts' \in Nat /\ contexts <= contexts'
  <2>1. contexts \in Nat BY AppAssumption DEF LinkInv, Counted
  <2> HIDE DEF isNew
  <2> QED BY <1>1, <2>1
<1>7. /\ reached'[m].floor = reached[m].floor /\ reached'[m].context = context
      /\ \A k \in 1..LastMessage : k # m => reached'[k] = reached[k]
      /\ \A k \in 1..LastMessage : reached'[k].floor = reached[k].floor
  <2> HIDE DEF context, m
  <2>1. DOMAIN reached[m] = {"times", "context", "floor"} /\ m \in DOMAIN reached
    BY <1>5 DEF OnceInv
  <2>2. reached'[m] = [reached[m] EXCEPT !.times = @ + 1, !.context = context]
    BY <1>1, <2>1
  <2>3. \A k \in 1..LastMessage : k # m => reached'[k] = reached[k]
    BY <1>1 DEF OnceInv
  <2>4. reached'[m].floor = reached[m].floor /\ reached'[m].context = context
    BY <2>1, <2>2
  <2> QED BY <2>3, <2>4
<1>8. reached[m].floor # None => context > reached[m].floor
  <2>1. reached[m].floor # None => context = contexts + 1
    BY <1>1, <1>4 DEF Fresh
  <2>2. reached[m].floor \in 0..contexts \cup {None}
    BY <1>5 DEF FreshInv, Floors
  <2> HIDE DEF context, m
  <2> QED BY <1>6, <2>1, <2>2
<1> HIDE DEF context, isNew, old
<1>9. Asks' BY <1>1, <1>6 DEF FreshInv, Asks
<1>10. Floors'
  <2> SUFFICES ASSUME NEW k \in 1..LastMessage
               PROVE  /\ reached'[k].floor \in 0..contexts' \cup {None}
                      /\ reached'[k].times > 0 /\ reached'[k].floor # None
                           => reached'[k].context > reached'[k].floor
    BY DEF Floors
  <2>1. reached[k].floor \in 0..contexts \cup {None}
    BY DEF FreshInv, Floors
  <2>2. reached'[k].floor \in 0..contexts' \cup {None} BY <1>6, <1>7, <2>1
  <2>3. CASE k = m BY <1>7, <1>8, <2>2, <2>3
  <2>4. CASE k # m BY <1>7, <2>2, <2>4 DEF FreshInv, Floors
  <2> QED BY <2>3, <2>4
<1>11. ASSUME NEW t \in Slots, ~ Free(t)' PROVE Fresh(ops[t])'
  <2>1. ~ Free(t) /\ Stays(ops[t], ops'[t])
    <3>1. CASE t = s BY <1>1, <1>3, <3>1 DEF OnceInv
    <3>2. CASE t # s
      <4>1. ops'[t] = ops[t] BY <1>3, <3>2 DEF OnceInv
      <4> QED BY <1>11, <4>1 DEF Free, Stays
    <3> QED BY <3>1, <3>2
  <2>2. ops'[t] # Idle BY <1>11 DEF Free, Idle
  <2>3. OpOK(ops[t]) /\ Fresh(ops[t]) BY <2>1 DEF OnceInv, FreshInv
  <2>4. Sends(ops[t]) => ops[t].about \in 1..LastMessage
    <3>1. messages \in 0..LastMessage /\ LastMessage \in Nat
      BY AppAssumption DEF OnceInv
    <3> QED BY <2>3, <3>1 DEF OpOK
  <2> QED BY <1>7, <2>1, <2>2, <2>3, <2>4 DEF Fresh, Stays, Sends
<1> QED BY <1>9, <1>10, <1>11 DEF FreshInv

LEMMA BackendFresh ==
  ASSUME OnceInv, LinkInv, FreshInv, Backend
  PROVE  FreshInv'
<1>1. ASSUME NEW s \in Slots, ~ Free(s), NEW answer, Replies(s, answer),
             UNCHANGED <<agents, asked, reached, contexts>>
      PROVE  FreshInv'
  <2>1. PICK next : ops' = [ops EXCEPT ![s] = next] /\ Stays(ops[s], next)
    BY <1>1, ReplyStays
  <2>2. Remembers(agents, agents') BY <1>1 DEF Remembers
  <2> QED BY <1>1, <2>1, <2>2, OneFresh
<1>2. ASSUME NEW s \in Slots,
             ServeConnect(s) \/ RefuseCall(s) \/ ServeCall(s) \/ ServeStream(s)
      PROVE  FreshInv'
  <2>1. ~ Free(s) /\ UNCHANGED <<agents, asked, reached, contexts>>
    BY <1>2 DEF ServeConnect, RefuseCall, ServeCall, ServeStream, userVars,
                serverVars
  <2>2. \E answer : Replies(s, answer)
    <3>1. CASE ServeConnect(s) BY <3>1 DEF ServeConnect
    <3>2. CASE RefuseCall(s) BY <3>2 DEF RefuseCall
    <3>3. ASSUME NEW conv, GoesOn(s, conv) PROVE \E answer : Replies(s, answer)
      BY <3>3, GoesOnReplies
    <3>4. CASE ServeCall(s) BY <3>3, <3>4 DEF ServeCall
    <3>5. CASE ServeStream(s) BY <3>3, <3>5 DEF ServeStream
    <3> QED BY <1>2, <3>1, <3>2, <3>4, <3>5
  <2> QED BY <1>1, <2>1, <2>2
<1>3. CASE ServeDisconnect \/ SessionEnds \/ MakeRoom \/ Notify
  <2>1. UNCHANGED <<agents, reached, contexts, ops, asked>>
    BY <1>3 DEF ServeDisconnect, SessionEnds, MakeRoom, Notify, Event, uiVars,
                userVars
  <2>2. Remembers(agents, agents') BY <2>1 DEF Remembers
  <2> QED BY <2>1, <2>2, ListFresh
<1> QED BY <1>2, <1>3, DeliverFresh DEF Backend

LEMMA ReceiveFresh ==
  ASSUME OnceInv, LinkInv, FreshInv, NEW s \in Slots, Receive(s)
  PROVE  FreshInv'
<1> DEFINE op == ops[s]
<1>1. ~ Free(s) /\ UNCHANGED <<reached, contexts>>
  BY DEF Receive, ReceiveConnected, ReceiveRenewed, ReceiveError,
         ReceiveResult, ReceiveEnd, Receives, serverVars
<1>2. IsOp(op) /\ Consistent(op) BY <1>1 DEF OnceInv, OpOK
<1>3. OpSound(op) BY <1>1 DEF LinkInv, OpsSound
<1>4. AgentOK(op.agent) /\ AnswerOK(op.answer) BY <1>3 DEF OpSound, OpFits
<1>5. ListOK(agents) BY DEF LinkInv, Listed
<1>6. ASSUME NEW st, NEW jar, NEW c, Take(s, st, c), Goes(op, st.op),
             Waiting(op, st.op, jar),
             asked' = None \/ (asked' = asked /\ Remembers(agents, st.agents))
      PROVE  FreshInv'
  <2>1. Stays(op, st.op) BY <1>6, StaysWaiting
  <2>2. ops' = [ops EXCEPT ![s] = st.op] /\ agents' = st.agents
    BY <1>6 DEF Take
  <2> QED BY <1>1, <1>6, <2>1, <2>2, OneFresh
<1>7. CASE ReceiveConnected(s)
  <2> DEFINE st == Establish(agents, op, Agent \in removed, cookie)
  <2>1. op.answer.type = "connected" /\ Take(s, st, cookie) /\ asked' = asked
    BY <1>7 DEF ReceiveConnected, Receives
  <2>2. op.pc = "connect" BY <1>2, <2>1 DEF Consistent
  <2> HIDE DEF op
  <2>3. Goes(op, st.op) BY <1>2, <2>2, EstablishGoes
  <2>4. Establishes(agents, op, st, cookie)
    BY <1>2, <1>4, <1>5, <2>1, EstablishLists
  <2> HIDE DEF st
  <2>5. Waiting(op, st.op, cookie) /\ Remembers(agents, st.agents)
    BY <2>4 DEF Establishes, Remembers
  <2> QED BY <1>6, <2>1, <2>3, <2>5
<1>8. CASE ReceiveRenewed(s)
  <2> DEFINE list == SessionReset(agents)
             st == Failure(list, op, session)
  <2>1. op.answer.type = "renewed" /\ asked' = asked
        /\ cookie' = op.answer.session
    BY <1>8 DEF ReceiveRenewed, Receives, Renewal
  <2>2. cookie' = session BY <1>3, <2>1 DEF OpSound, OpFits
  <2>3. Take(s, st, session) BY <1>8, <2>2 DEF ReceiveRenewed
  <2>4. Undelivered(op) BY <1>2, <2>1 DEF Consistent, Undelivered
  <2>0. list = SessionReset(agents) OBVIOUS
  <2> HIDE DEF op, list
  <2>5. ListOK(list) /\ Remembers(agents, list)
    <3>1. /\ ListOK(list) /\ (list = <<>> <=> agents = <<>>)
          /\ agents # <<>> /\ agents[1].resetContext = TRUE
             => list[1].resetContext = TRUE
      BY <1>5, <2>0, SessionResetDrops
    <3> QED BY <3>1 DEF Remembers
  <2>6. Goes(op, st.op) BY <1>2, <2>4, FailureGoes
  <2>7. Kept(list, st.agents) /\ Waiting(op, st.op, session)
    BY <1>2, <1>4, <2>5, FailureLists
  <2> HIDE DEF st
  <2>8. Remembers(agents, st.agents)
    BY <2>5, <2>7, KeptRemembers, RemembersAgain
  <2> QED BY <1>6, <2>1, <2>3, <2>6, <2>7, <2>8
<1>9. CASE ReceiveError(s)
  <2> DEFINE st == Failure(agents, op, cookie)
  <2>1. op.answer.type \in {"error", "unknown"} /\ asked' = asked
        /\ Take(s, st, cookie)
    BY <1>9 DEF ReceiveError, Receives, userVars
  <2>2. Undelivered(op) \/ op.answer.type \notin {"renewed", "unknown"}
    BY <1>2, <2>1 DEF Consistent, Undelivered
  <2> HIDE DEF op
  <2>3. Goes(op, st.op) BY <1>2, <2>2, FailureGoes
  <2>4. Kept(agents, st.agents) /\ Waiting(op, st.op, cookie)
    BY <1>2, <1>4, <1>5, FailureLists
  <2> HIDE DEF st
  <2>5. Remembers(agents, st.agents) BY <2>4, KeptRemembers
  <2> QED BY <1>6, <2>1, <2>3, <2>4, <2>5
<1>10. CASE ReceiveResult(s)
  <2> DEFINE st == Result(agents, op)
  <2>1. op.answer.type = "result" /\ Take(s, st, cookie)
        /\ asked' = IF Sends(op) THEN None ELSE asked
    BY <1>10 DEF ReceiveResult, Receives
  <2>2. op.pc # "connect" BY <1>2, <2>1 DEF Consistent
  <2> HIDE DEF op
  <2>3. Goes(op, st.op) BY <1>2, <2>2, ResultGoes
  <2>4. Waiting(op, st.op, op.cookie) BY <1>2, <1>4, <1>5, <2>1, ResultLists
  <2>5. ~ Sends(op) => Kept(agents, st.agents)
    BY <1>2, <1>4, <1>5, <2>1, ResultLists
  <2> HIDE DEF st
  <2>6. asked' = None \/ (asked' = asked /\ Remembers(agents, st.agents))
    BY <2>1, <2>5, KeptRemembers
  <2> QED BY <1>6, <2>1, <2>3, <2>4, <2>6
<1>11. CASE ReceiveEnd(s)
  <2> DEFINE st == Over(agents, op, "done")
  <2>1. Take(s, st, cookie) /\ asked' = asked
    BY <1>11 DEF ReceiveEnd, userVars
  <2>2. Kept(agents, st.agents) /\ st.op = Idle BY <1>5, OverKeeps
  <2> HIDE DEF st
  <2>3. Goes(op, st.op) /\ Waiting(op, st.op, cookie)
    BY <2>2 DEF Goes, Waiting
  <2>4. Remembers(agents, st.agents) BY <2>2, KeptRemembers
  <2> QED BY <1>6, <2>1, <2>3, <2>4
<1> QED BY <1>7, <1>8, <1>9, <1>10, <1>11 DEF Receive

LEMMA FreshNext ==
  ASSUME OnceInv, LinkInv, FreshInv, [Next]_vars
  PROVE  FreshInv'
<1>1. CASE User BY <1>1, UserFresh
<1>2. CASE Backend BY <1>2, BackendFresh
<1>3. ASSUME NEW s \in Slots, Receive(s) PROVE FreshInv' BY <1>3, ReceiveFresh
<1>4. CASE HearDisconnect
  <2>1. agents' = SessionReset(agents)
        /\ UNCHANGED <<reached, contexts, ops, asked>>
    BY <1>4 DEF HearDisconnect, serverVars
  <2>2. Remembers(agents, agents')
    BY <2>1, SessionResetDrops DEF LinkInv, Listed, Remembers
  <2> QED BY <2>1, <2>2, ListFresh
<1>5. CASE HearNotification
  <2>1. /\ feed # None
        /\ agents' = NotificationConversation(agents, feed.conn, feed.conv)
        /\ UNCHANGED <<reached, contexts, ops, asked>>
    BY <1>5 DEF HearNotification, serverVars, userVars
  <2>2. feed.conv \in Convs BY <2>1 DEF LinkInv, Counted
  <2>3. Kept(agents, NotificationConversation(agents, feed.conn, feed.conv))
    BY <2>2, NotificationKeeps DEF LinkInv, Listed
  <2>4. Remembers(agents, agents') BY <2>1, <2>3, KeptRemembers
  <2> QED BY <2>1, <2>4, ListFresh
<1>6. CASE UNCHANGED vars
  <2>1. UNCHANGED <<agents, reached, contexts, ops, asked>>
    BY <1>6 DEF vars, uiVars, serverVars, userVars
  <2>2. Remembers(agents, agents') BY <2>1 DEF Remembers
  <2> QED BY <2>1, <2>2, ListFresh
<1> QED BY <1>1, <1>2, <1>3, <1>4, <1>5, <1>6 DEF Next

(* In every state a wish for a new conversation is remembered by all that  *)
(* may still send a message.                                               *)
THEOREM AppFresh == Spec => []FreshInv
<1>1. AppInit => FreshInv
  BY DEF AppInit, FreshInv, Asks, Floors, Free, Idle
<1>2. OnceInv /\ LinkInv /\ FreshInv /\ [Next]_vars => FreshInv' BY FreshNext
<1> QED BY <1>1, <1>2, AppOnce, AppLinked, PTL DEF Spec

(* After "New conversation" a message goes to a context the agent made     *)
(* since, until one is answered: no result of another call, notification,  *)
(* lost session or retry undoes what the user asked for (agentsReducer and *)
(* withConnection).                                                        *)
THEOREM AppStartsAnew == Spec => []NewConversationHeld
<1>1. FreshInv => NewConversationHeld
  BY DEF FreshInv, Floors, NewConversationHeld
<1> QED BY <1>1, AppFresh, PTL
=============================================================================
