------------------------------- MODULE Thread -------------------------------
(***************************************************************************)
(* The conversation that the messages of a connection continue             *)
(* (type thread in src/internal/server/connections.go): a context, and a   *)
(* task waiting for the user.  Its methods run under t.mu.                 *)
(***************************************************************************)
CONSTANTS Conns,      \* connections, whose IDs are never reused
          Tasks,      \* tasks of the agent
          Contexts,   \* contexts of the agent
          None

VARIABLES contextID,   \* thread.contextID
          openTask     \* the ID in thread.openTask

threadVars == <<contextID, openTask>>

(* What a payload says (taskRefOf): a message names no task, and a push    *)
(* notification config nothing.  A task waits for the user or does not     *)
(* (working or over).                                                      *)
States == {"moving", "waiting"}
Refs == [task : Tasks \cup {None}, context : Contexts \cup {None},
         state : States \cup {None}]

ThreadTypeOK ==
  /\ contextID \in [Conns -> Contexts \cup {None}]
  /\ openTask \in [Conns -> Tasks \cup {None}]

ThreadInit ==
  /\ contextID = [k \in Conns |-> None]
  /\ openTask = [k \in Conns |-> None]

(* A new connection starts from what its request says.                     *)
Continue(k, context, task) ==
  /\ contextID' = [contextID EXCEPT ![k] = context]
  /\ openTask' = [openTask EXCEPT ![k] = task]

Reset(k, newContext) ==
  /\ openTask' = [openTask EXCEPT ![k] = None]
  /\ contextID' = IF newContext THEN [contextID EXCEPT ![k] = None]
                                ELSE contextID

(* observe: a reply to the thread's own message sets its context.          *)
ContextAfter(k, ref, own) ==
  IF own /\ ref.context # None THEN ref.context ELSE contextID[k]

(* observe: a task that waits for the user becomes the open task, and the  *)
(* open task closes when it moves on.                                      *)
TaskAfter(k, ref, own) ==
  IF ref.task = None \/ ref.state = None THEN openTask[k]
  ELSE IF ref.state = "waiting"
          /\ (own \/ ref.context = ContextAfter(k, ref, own)) THEN ref.task
  ELSE IF openTask[k] = ref.task THEN None
  ELSE openTask[k]

Observe(k, ref, own) ==
  /\ contextID' = [contextID EXCEPT ![k] = ContextAfter(k, ref, own)]
  /\ openTask' = [openTask EXCEPT ![k] = TaskAfter(k, ref, own)]
=============================================================================
