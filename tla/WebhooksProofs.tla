--------------------------- MODULE WebhooksProofs ---------------------------
(***************************************************************************)
(* Theorems about module Webhooks, for any numbers of connections, calls,  *)
(* webhooks and tasks, when no answer is lost: a webhook that the agent    *)
(* knows stays, and what messages take for granted of webhooks is so.      *)
(***************************************************************************)
EXTENDS Webhooks, TLAPS

(* A call, about o, may create a webhook, or deletes a config.             *)
Creates(o) == o # None /\ o.kind # "delete" /\ o.hook # None /\ ~o.existing

Deletes(o) == o # None /\ o.kind = "delete"

(* The agent has a config, or had it while a call to delete it is under    *)
(* way.                                                                    *)
Configured(t, w) ==
  \/ <<t, w>> \in configs
  \/ \E c \in Calls : Deletes(op[c]) /\ op[c].task = t /\ op[c].hook = w

(* What a call is about where it is.                                       *)
Phase(c) ==
  /\ op[c] = None <=> pc[c] = "idle"
  /\ op[c] = None => answer[c] = None
  /\ op[c] # None =>
      /\ pc[c] \in {"choose", "reset"} => op[c].kind \in {"send", "stream"}
      /\ pc[c] = "create" => op[c].kind \in {"send", "stream", "create"}
      /\ pc[c] \in {"choose", "create"} => op[c].hook = None /\ ~op[c].existing
      /\ pc[c] \in {"choose", "create", "reset"} => c \in first /\ answer[c] = None
      /\ pc[c] = "record" => answer[c] \in Refs
      /\ pc[c] = "move" => op[c].kind = "connect"
      /\ c \notin first => op[c].kind = "stream"
      /\ op[c].kind \in {"get", "create", "delete"} => op[c].task # None
      /\ op[c].kind \in {"get", "connect"} => op[c].hook = None
      /\ op[c].kind = "delete" => op[c].hook # None
      /\ op[c].existing => op[c].kind \in {"send", "stream"}
      /\ answer[c] = Done => op[c].kind = "delete"
      /\ answer[c] \in Refs => op[c].kind # "delete"

Phases == \A c \in Calls : Phase(c)

(* The webhook of a creator is its own.                                    *)
Owner(c) ==
  Creates(op[c]) =>
    /\ hookConn[op[c].hook] # None /\ op[c].hook \notin unused
    /\ op[c].kind = "create" => hookTask[op[c].hook] = op[c].task
    /\ op[c].kind # "create" /\ c \in first => hookTask[op[c].hook] = None
    /\ c \notin first /\ op[c].task # None => hookTask[op[c].hook] # None
    /\ \A d \in Calls : Creates(op[d]) /\ op[d].hook = op[c].hook => d = c

Owners == \A c \in Calls : Owner(c)

(* The agent took nothing from the creator c, as far as c may conclude.    *)
NotTaken(c) ==
  \/ c \in first /\ answer[c] = None
  \/ answer[c] = Rejection /\ c \notin cut
  \/ c \notin first /\ hookTask[op[c].hook] = None

Untaken ==
  \A c \in Calls : Creates(op[c]) /\ NotTaken(c) =>
    \A t \in Tasks : ~Configured(t, op[c].hook)

Unknown == \A w \in unused : hookConn[w] = None /\ \A t \in Tasks : ~Configured(t, w)

(* A config's webhook is bound to the config's task, or about to be.       *)
BoundTo(t, w) ==
  \/ hookTask[w] = t
  \/ /\ hookTask[w] = None
     /\ \A c \in Calls : Creates(op[c]) /\ op[c].hook = w /\ answer[c] \in Refs
                           => answer[c].task = t

BoundRight == \A t \in Tasks, w \in Hooks : Configured(t, w) => BoundTo(t, w)

(* The agent has the config, or the inspector does not count on it, or a   *)
(* call is about to say that it is deleted.                                *)
Deleted(w) == \E c \in Calls : Deletes(op[c]) /\ op[c].hook = w /\ answer[c] = Done

Sure(t, w) == <<t, w>> \in configs \/ w \in stale \cup unsure \/ Deleted(w)

Undecided(w) ==
  \E c \in Calls : Creates(op[c]) /\ op[c].hook = w /\ c \in first /\ answer[c] \notin Refs

Granted ==
  \A t \in Tasks, w \in Hooks :
    hookConn[w] # None /\ hookTask[w] = t => Sure(t, w) \/ Undecided(w)

(* The same of a webhook that is about to be bound.                        *)
Binding ==
  \A c \in Calls :
    /\ Creates(op[c]) /\ answer[c] \in Refs /\ answer[c].task # None
    /\ hookTask[op[c].hook] = None
    => Sure(answer[c].task, op[c].hook)

(* A webhook with a config but no task is its creator's, or the creator    *)
(* was cut short.                                                          *)
Unbound ==
  \A t \in Tasks, w \in Hooks : <<t, w>> \in configs /\ hookTask[w] = None =>
    w \in unsure \/ \E c \in Calls : Creates(op[c]) /\ op[c].hook = w

Core == /\ Owners /\ Untaken /\ Unknown /\ BoundRight /\ Granted /\ Binding
        /\ Unbound /\ TakenStays

HooksInv == WebhooksTypeOK /\ Phases /\ Core
-----------------------------------------------------------------------------
LEMMA InitHolds == WebhooksInit => HooksInv
<1> SUFFICES ASSUME WebhooksInit PROVE HooksInv
  OBVIOUS
<1> USE DEF WebhooksInit
<1>1. WebhooksTypeOK
  BY LastCallIsCount DEF WebhooksTypeOK, ThreadTypeOK, ThreadInit, States
<1>2. Phases
  BY DEF Phases, Phase
<1>3. Core
  BY DEF Core, Owners, Owner, Untaken, Unknown, BoundRight, Granted, Binding,
     Unbound, TakenStays, Creates, Deletes, Configured
<1> QED BY <1>1, <1>2, <1>3 DEF HooksInv

(* A step that changes nothing of what Core speaks about, but that calls   *)
(* may be cut.                                                             *)
SameCall(c) ==
  /\ op'[c].kind = op[c].kind /\ op'[c].hook = op[c].hook
  /\ op'[c].task = op[c].task /\ answer'[c] = answer[c]
  /\ c \in first' <=> c \in first
  /\ c \in cut => c \in cut'

Same ==
  /\ UNCHANGED <<hookVars, configs, unsure>>
  /\ \A c \in Calls : /\ Creates(op'[c]) <=> Creates(op[c])
                      /\ Deletes(op'[c]) <=> Deletes(op[c])
                      /\ Creates(op[c]) \/ Deletes(op[c]) => SameCall(c)

LEMMA SameKeeps == ASSUME Core, Same PROVE Core'
<1>1. /\ UNCHANGED <<hookConn, hookTask, stale, unused, configs, unsure>>
      /\ \A c \in Calls : /\ Creates(op'[c]) <=> Creates(op[c])
                          /\ Deletes(op'[c]) <=> Deletes(op[c])
                          /\ Creates(op[c]) \/ Deletes(op[c]) => SameCall(c)
  BY DEF Same, hookVars
<1> USE DEF SameCall
<1>2. \A t, w : Configured(t, w)' <=> Configured(t, w)
  BY <1>1 DEF Configured
<1>3. Owners' /\ Untaken' /\ Unknown'
  BY <1>1, <1>2 DEF Core, Owners, Owner, Untaken, NotTaken, Unknown
<1>4. \A t, w : BoundTo(t, w)' <=> BoundTo(t, w)
  BY <1>1 DEF BoundTo
<1>5. \A t, w : Sure(t, w)' <=> Sure(t, w)
  BY <1>1 DEF Sure, Deleted
<1>6. \A w : Undecided(w)' <=> Undecided(w)
  BY <1>1 DEF Undecided
<1>7. BoundRight' /\ Granted' /\ TakenStays'
  BY <1>1, <1>2, <1>4, <1>5, <1>6 DEF Core, BoundRight, Granted, TakenStays
<1>8. Binding' /\ Unbound'
  BY <1>1, <1>5 DEF Core, Binding, Unbound
<1> QED BY <1>3, <1>7, <1>8 DEF Core

-----------------------------------------------------------------------------
(* Types and phases, one action of a call after the other.                 *)
TypesAndPhases == WebhooksTypeOK /\ Phases

LEMMA ChooseExistingTypes ==
  ASSUME TypesAndPhases, NEW c \in Calls, ChooseExisting(c)
  PROVE  TypesAndPhases'
<1> USE NoneIsNothing, AnswersDiffer DEF TypesAndPhases
<1>1. /\ pc[c] = "choose" /\ pc' = [pc EXCEPT ![c] = "reset"]
      /\ UNCHANGED <<threadVars, pooled, known, hookVars, made, answer, first,
                     cut, note, agentVars, unsure>>
  BY DEF ChooseExisting, Goto
<1>2. op[c] # None /\ op[c] \in Ops
  BY <1>1 DEF WebhooksTypeOK, Phases, Phase
<1>3. PICK w \in Hooks : /\ op' = [op EXCEPT ![c].hook = w, ![c].existing = TRUE]
                         /\ op[c].task # None
  BY DEF ChooseExisting, Usable
<1>4. op[c].kind \in {"send", "stream"}
  BY <1>1, <1>2 DEF Phases, Phase
<1>5. [op[c] EXCEPT !.hook = w, !.existing = TRUE] \in Ops
  BY <1>2 DEF Ops
<1>6. op' = [op EXCEPT ![c] = [op[c] EXCEPT !.hook = w, !.existing = TRUE]]
  BY <1>3
<1>7. op' \in [Calls -> Ops \cup {None}]
  BY <1>5, <1>6 DEF WebhooksTypeOK
<1>8. WebhooksTypeOK'
  BY <1>1, <1>7 DEF WebhooksTypeOK, ThreadTypeOK, threadVars, hookVars, agentVars
<1>9. Phases'
  <2>1. /\ op'[c] # None /\ op'[c].kind = op[c].kind /\ op'[c].task = op[c].task
        /\ \A d \in Calls \ {c} : op'[d] = op[d]
    BY <1>2, <1>5, <1>6 DEF WebhooksTypeOK, Ops
  <2>2. pc'[c] = "reset" /\ \A d \in Calls \ {c} : pc'[d] = pc[d]
    BY <1>1 DEF WebhooksTypeOK
  <2>3. \A d \in Calls \ {c} : Phase(d)'
    BY <1>1, <2>1, <2>2 DEF Phases, Phase
  <2>4. c \in first /\ answer[c] = None /\ answer[c] # Done
    BY <1>1, <1>2 DEF Phases, Phase
  <2>5. Phase(c)'
    BY <1>1, <1>4, <2>1, <2>2, <2>4 DEF Phase
  <2> QED BY <2>3, <2>5 DEF Phases
<1> QED BY <1>8, <1>9

LEMMA ChooseNewTypes ==
  ASSUME TypesAndPhases, NEW c \in Calls, ChooseNew(c)
  PROVE  TypesAndPhases'
<1> USE NoneIsNothing, AnswersDiffer DEF TypesAndPhases
<1>1. WebhooksTypeOK'
  BY DEF WebhooksTypeOK, ThreadTypeOK, threadVars, hookVars, callVars, agentVars,
     Phases, Phase, Ops, Refs, States, Kinds, Modes, ChooseNew, Goto
<1>2. Phases'
  BY DEF WebhooksTypeOK, threadVars, hookVars, callVars, agentVars,
     Phases, Phase, Ops, Refs, Kinds, ChooseNew, Goto
<1> QED BY <1>1, <1>2

LEMMA CreateHookTypes ==
  ASSUME TypesAndPhases, NEW c \in Calls, CreateHook(c)
  PROVE  TypesAndPhases'
<1> USE NoneIsNothing, AnswersDiffer DEF TypesAndPhases
<1>1. WebhooksTypeOK'
  BY DEF WebhooksTypeOK, ThreadTypeOK, threadVars, hookVars, callVars, agentVars,
     Phases, Phase, Ops, Refs, States, Kinds, Modes, CreateHook, Goto
<1>2. Phases'
  BY DEF WebhooksTypeOK, threadVars, hookVars, callVars, agentVars,
     Phases, Phase, Ops, Refs, Kinds, CreateHook, Goto
<1> QED BY <1>1, <1>2

LEMMA ResetThreadTypes ==
  ASSUME TypesAndPhases, NEW c \in Calls, ResetThread(c)
  PROVE  TypesAndPhases'
<1> USE NoneIsNothing, AnswersDiffer DEF TypesAndPhases
<1>1. /\ pc[c] = "reset" /\ pc' = [pc EXCEPT ![c] = "call"]
      /\ UNCHANGED <<pooled, known, hookVars, made, answer, first, cut, note,
                     agentVars, unsure>>
  BY DEF ResetThread, Goto
<1>2. op[c] # None /\ op[c] \in Ops
  BY <1>1 DEF WebhooksTypeOK, Phases, Phase
<1>3. ThreadTypeOK'
  BY <1>2 DEF ResetThread, Reset, threadVars, WebhooksTypeOK, ThreadTypeOK, Ops
<1>4. [op[c] EXCEPT !.mode = "raw"] \in Ops
  BY <1>2 DEF Ops, Modes
<1>5. op' = [op EXCEPT ![c] = [op[c] EXCEPT !.mode = "raw"]]
  BY DEF ResetThread
<1>6. op' \in [Calls -> Ops \cup {None}]
  BY <1>4, <1>5 DEF WebhooksTypeOK
<1>7. WebhooksTypeOK'
  BY <1>1, <1>3, <1>6 DEF WebhooksTypeOK, hookVars, agentVars
<1>8. Phases'
  BY <1>1, <1>2, <1>4, <1>5 DEF WebhooksTypeOK, Phases, Phase, Ops
<1> QED BY <1>7, <1>8

LEMMA SettleTypes ==
  ASSUME TypesAndPhases, NEW c \in Calls, Settle(c)
  PROVE  TypesAndPhases'
<1> USE NoneIsNothing, AnswersDiffer DEF TypesAndPhases
<1>1. WebhooksTypeOK'
  BY DEF WebhooksTypeOK, ThreadTypeOK, threadVars, hookVars, callVars, agentVars,
     Phases, Phase, Ops, Refs, States, Kinds, Modes, Settle, Observe, ContextAfter, TaskAfter, Goto
<1>2. Phases'
  BY DEF WebhooksTypeOK, threadVars, hookVars, callVars, agentVars,
     Phases, Phase, Ops, Refs, Kinds, Settle, Observe, ContextAfter, TaskAfter, Goto
<1> QED BY <1>1, <1>2

LEMMA RecordTypes ==
  ASSUME TypesAndPhases, NEW c \in Calls, Record(c)
  PROVE  TypesAndPhases'
<1> USE NoneIsNothing, AnswersDiffer DEF TypesAndPhases
<1>1. /\ pc[c] = "record"
      /\ UNCHANGED <<threadVars, pooled, known, hookConn, stale, unused, made,
                     note, agentVars, unsure>>
  BY DEF Record
<1>2. op[c] # None /\ op[c] \in Ops /\ answer[c] \in Refs
  BY <1>1 DEF WebhooksTypeOK, Phases, Phase
<1>3. hookTask' \in [Hooks -> Tasks \cup {None}]
  BY <1>2 DEF Record, Bound, WebhooksTypeOK, Refs
<1>4. CASE op[c].kind # "stream"
  <2>1. Ends(c)
    BY <1>4 DEF Record
  <2>2. WebhooksTypeOK'
    BY <1>1, <1>3, <2>1 DEF Ends, Goto, WebhooksTypeOK, ThreadTypeOK, threadVars,
       agentVars
  <2>3. Phases'
    BY <1>1, <2>1 DEF Ends, Goto, WebhooksTypeOK, Phases, Phase
  <2> QED BY <2>2, <2>3
<1>5. CASE op[c].kind = "stream"
  <2>1. /\ pc' = [pc EXCEPT ![c] = "call"]
        /\ op' = [op EXCEPT ![c] = [op[c] EXCEPT !.task = answer[c].task]]
        /\ answer' = [answer EXCEPT ![c] = None]
        /\ first' = first \ {c}
        /\ UNCHANGED cut
    BY <1>5 DEF Record, Goto
  <2>2. [op[c] EXCEPT !.task = answer[c].task] \in Ops
    BY <1>2 DEF Ops, Refs
  <2>3. op' \in [Calls -> Ops \cup {None}]
    BY <2>1, <2>2 DEF WebhooksTypeOK
  <2>4. WebhooksTypeOK'
    BY <1>1, <1>3, <2>1, <2>3 DEF WebhooksTypeOK, ThreadTypeOK, threadVars,
       agentVars
  <2>5. Phases'
    BY <1>1, <1>2, <1>5, <2>1, <2>2 DEF WebhooksTypeOK, Phases, Phase, Ops
  <2> QED BY <2>4, <2>5
<1> QED BY <1>4, <1>5

LEMMA StreamEndsTypes ==
  ASSUME TypesAndPhases, NEW c \in Calls, StreamEnds(c)
  PROVE  TypesAndPhases'
<1> USE NoneIsNothing, AnswersDiffer DEF TypesAndPhases
<1>1. WebhooksTypeOK'
  BY DEF WebhooksTypeOK, ThreadTypeOK, threadVars, hookVars, callVars, agentVars,
     Phases, Phase, Ops, Refs, States, Kinds, Modes, StreamEnds, Ends, Goto
<1>2. Phases'
  BY DEF WebhooksTypeOK, threadVars, hookVars, callVars, agentVars,
     Phases, Phase, Ops, Refs, Kinds, StreamEnds, Ends, Goto
<1> QED BY <1>1, <1>2

LEMMA RejectedTypes ==
  ASSUME TypesAndPhases, NEW c \in Calls, Rejected(c)
  PROVE  TypesAndPhases'
<1> USE NoneIsNothing, AnswersDiffer DEF TypesAndPhases
<1>1. WebhooksTypeOK'
  BY DEF WebhooksTypeOK, ThreadTypeOK, threadVars, hookVars, callVars, agentVars,
     Phases, Phase, Ops, Refs, States, Kinds, Modes, Rejected, Dropped, Created, Ends, Goto
<1>2. Phases'
  BY DEF WebhooksTypeOK, threadVars, hookVars, callVars, agentVars,
     Phases, Phase, Ops, Refs, Kinds, Rejected, Dropped, Created, Ends, Goto
<1> QED BY <1>1, <1>2

LEMMA ConfigDeletedTypes ==
  ASSUME TypesAndPhases, NEW c \in Calls, ConfigDeleted(c)
  PROVE  TypesAndPhases'
<1> USE NoneIsNothing, AnswersDiffer DEF TypesAndPhases
<1>1. WebhooksTypeOK'
  BY DEF WebhooksTypeOK, ThreadTypeOK, threadVars, hookVars, callVars, agentVars,
     Phases, Phase, Ops, Refs, States, Kinds, Modes, ConfigDeleted, Marked, Ends, Goto
<1>2. Phases'
  BY DEF WebhooksTypeOK, threadVars, hookVars, callVars, agentVars,
     Phases, Phase, Ops, Refs, Kinds, ConfigDeleted, Marked, Ends, Goto
<1> QED BY <1>1, <1>2

LEMMA MoveTypes ==
  ASSUME TypesAndPhases, NEW c \in Calls, Move(c)
  PROVE  TypesAndPhases'
<1> USE NoneIsNothing, AnswersDiffer DEF TypesAndPhases
<1>1. WebhooksTypeOK'
  BY DEF WebhooksTypeOK, ThreadTypeOK, threadVars, hookVars, callVars, agentVars,
     Phases, Phase, Ops, Refs, States, Kinds, Modes, Move, Ends, Goto
<1>2. Phases'
  BY DEF WebhooksTypeOK, threadVars, hookVars, callVars, agentVars,
     Phases, Phase, Ops, Refs, Kinds, Move, Ends, Goto
<1> QED BY <1>1, <1>2

LEMMA AgentDoesTypes ==
  ASSUME TypesAndPhases, NEW c \in Calls, AgentDoes(c)
  PROVE  TypesAndPhases'
<1> USE NoneIsNothing, AnswersDiffer DEF TypesAndPhases
<1>1. /\ pc[c] = "call" /\ answer[c] = None
      /\ UNCHANGED <<threadVars, pooled, known, hookVars, made, pc, op, first,
                     cut, note, taskContext, taskState, unsure>>
  BY DEF AgentDoes, Awaiting
<1>2. op[c] # None /\ op[c] \in Ops
  BY <1>1 DEF WebhooksTypeOK, Phases, Phase
<1> DEFINE a == answer'[c]
<1>3. /\ answer' = [answer EXCEPT ![c] = a]
      /\ \/ a \in Refs /\ op[c].kind # "delete"
         \/ a = Done /\ op[c].kind = "delete"
  <2>0. answer \in [Calls -> Refs \cup {None, Rejection, Done}]
    BY DEF WebhooksTypeOK
  <2>1. CASE op[c].kind = "get" /\ Answers(c, Ref(op[c].task))
    <3>1. op[c].task \in Tasks
      BY <1>2, <2>1 DEF Phases, Phase, Ops
    <3>2. Ref(op[c].task) \in Refs
      BY <3>1 DEF Ref, WebhooksTypeOK, Refs
    <3> QED BY <2>0, <2>1, <3>2 DEF Answers
  <2>2. CASE op[c].kind = "create" /\ Answers(c, Silent)
    <3>1. Silent \in Refs
      BY DEF Silent, Refs
    <3> QED BY <2>0, <2>2, <3>1 DEF Answers
  <2>3. CASE op[c].kind = "delete" /\ Answers(c, Done)
    BY <2>0, <2>3 DEF Answers
  <2> QED BY <2>1, <2>2, <2>3 DEF AgentDoes
<1>4. configs' \subseteq Tasks \X Hooks
  <2>1. CASE op[c].kind = "create" /\ Takes(c, op[c].task)
    BY <1>2, <2>1 DEF Takes, WebhooksTypeOK, Ops, Phases, Phase
  <2> QED BY <2>1 DEF AgentDoes, WebhooksTypeOK
<1> HIDE DEF a
<1>5. answer' \in [Calls -> Refs \cup {None, Rejection, Done}]
  BY <1>3 DEF WebhooksTypeOK
<1>6. WebhooksTypeOK'
  BY <1>1, <1>4, <1>5 DEF WebhooksTypeOK, ThreadTypeOK, threadVars, hookVars
<1>7. \A d \in Calls \ {c} : Phase(d)'
  BY <1>1, <1>3 DEF WebhooksTypeOK, Phases, Phase
<1>8. Phase(c)'
  BY <1>1, <1>2, <1>3 DEF WebhooksTypeOK, Phases, Phase
<1> QED BY <1>6, <1>7, <1>8 DEF Phases

LEMMA AgentRejectsTypes ==
  ASSUME TypesAndPhases, NEW c \in Calls, AgentRejects(c)
  PROVE  TypesAndPhases'
<1> USE NoneIsNothing, AnswersDiffer DEF TypesAndPhases
<1>1. WebhooksTypeOK'
  BY DEF WebhooksTypeOK, ThreadTypeOK, threadVars, hookVars, callVars, agentVars,
     Phases, Phase, Ops, Refs, States, Kinds, Modes, AgentRejects, Awaiting, Answers
<1>2. Phases'
  BY DEF WebhooksTypeOK, threadVars, hookVars, callVars, agentVars,
     Phases, Phase, Ops, Refs, Kinds, AgentRejects, Awaiting, Answers
<1> QED BY <1>1, <1>2

LEMMA AnswerLostTypes ==
  ASSUME TypesAndPhases, NEW c \in Calls, AnswerLost(c)
  PROVE  TypesAndPhases'
<1> USE NoneIsNothing, AnswersDiffer DEF TypesAndPhases
<1>1. WebhooksTypeOK'
  BY DEF WebhooksTypeOK, ThreadTypeOK, threadVars, hookVars, callVars, agentVars,
     Phases, Phase, Ops, Refs, States, Kinds, Modes, AnswerLost, Answers
<1>2. Phases'
  BY DEF WebhooksTypeOK, threadVars, hookVars, callVars, agentVars,
     Phases, Phase, Ops, Refs, Kinds, AnswerLost, Answers
<1> QED BY <1>1, <1>2

LEMMA AgentStreamsTypes ==
  ASSUME TypesAndPhases, NEW c \in Calls, AgentStreams(c)
  PROVE  TypesAndPhases'
<1> USE NoneIsNothing, AnswersDiffer DEF TypesAndPhases
<1>1. WebhooksTypeOK'
  BY DEF WebhooksTypeOK, ThreadTypeOK, threadVars, hookVars, callVars, agentVars,
     Phases, Phase, Ops, Refs, States, Kinds, Modes, AgentStreams, Awaiting, Answers, Ref
<1>2. Phases'
  BY DEF WebhooksTypeOK, threadVars, hookVars, callVars, agentVars,
     Phases, Phase, Ops, Refs, Kinds, AgentStreams, Awaiting, Answers, Ref
<1> QED BY <1>1, <1>2

LEMMA AgentTakesTypes ==
  ASSUME TypesAndPhases, NEW c \in Calls, NEW t \in Tasks, NEW x \in Contexts, NEW s \in States,
               AgentTakesMessage(c, t, x, s)
  PROVE  TypesAndPhases'
<1> USE NoneIsNothing, AnswersDiffer DEF TypesAndPhases
<1>1. WebhooksTypeOK'
  BY DEF WebhooksTypeOK, ThreadTypeOK, threadVars, hookVars, callVars, agentVars,
     Phases, Phase, Ops, Refs, States, Kinds, Modes, AgentTakesMessage, Awaiting, Answers, Takes
<1>2. Phases'
  BY DEF WebhooksTypeOK, threadVars, hookVars, callVars, agentVars,
     Phases, Phase, Ops, Refs, Kinds, AgentTakesMessage, Awaiting, Answers, Takes
<1> QED BY <1>1, <1>2

LEMMA AgentRepliesTypes ==
  ASSUME TypesAndPhases, NEW c \in Calls, NEW x \in Contexts, AgentReplies(c, x)
  PROVE  TypesAndPhases'
<1> USE NoneIsNothing, AnswersDiffer DEF TypesAndPhases
<1>1. WebhooksTypeOK'
  BY DEF WebhooksTypeOK, ThreadTypeOK, threadVars, hookVars, callVars, agentVars,
     Phases, Phase, Ops, Refs, States, Kinds, Modes, AgentReplies, Awaiting, Answers
<1>2. Phases'
  BY DEF WebhooksTypeOK, threadVars, hookVars, callVars, agentVars,
     Phases, Phase, Ops, Refs, Kinds, AgentReplies, Awaiting, Answers
<1> QED BY <1>1, <1>2

(* A call that begins: what it is about suits where it starts.             *)
Suits(label, o) ==
  \/ label = "choose" /\ o.kind \in {"send", "stream"} /\ o.hook = None
  \/ label = "reset" /\ o.kind \in {"send", "stream"} /\ o.hook = None
  \/ label = "create" /\ o.kind = "create" /\ o.hook = None /\ o.task # None
  \/ label = "call" /\ o.kind = "get" /\ o.hook = None /\ o.task # None
  \/ label = "call" /\ o.kind = "delete" /\ o.hook # None /\ o.task # None
  \/ label = "move" /\ o.kind = "connect" /\ o.hook = None

LEMMA BeginsTypes ==
  ASSUME TypesAndPhases, NEW c \in Calls, NEW label, NEW o \in Ops,
         Begins(c, label, o), Suits(label, o), ~o.existing,
         UNCHANGED <<hookVars, note, agentVars, unsure>>,
         ThreadTypeOK', pooled' \subseteq known', known' \subseteq Conns
  PROVE  TypesAndPhases'
<1> USE NoneIsNothing, AnswersDiffer DEF TypesAndPhases
<1>1. /\ pc[c] = "idle" /\ pc' = [pc EXCEPT ![c] = label]
      /\ op' = [op EXCEPT ![c] = o] /\ o # None
      /\ first' = first \cup {c} /\ UNCHANGED <<answer, cut>>
  BY DEF Begins, Goto
<1>2. made' \in 0..LastCall
  BY LastCallIsCount DEF Begins, WebhooksTypeOK
<1>3. WebhooksTypeOK'
  BY <1>1, <1>2 DEF Suits, WebhooksTypeOK, hookVars, agentVars
<1>4. answer[c] = None
  BY <1>1 DEF Phases, Phase
<1>5. \A d \in Calls \ {c} : Phase(d)'
  BY <1>1 DEF WebhooksTypeOK, Phases, Phase
<1>6. Phase(c)'
  BY <1>1, <1>4 DEF WebhooksTypeOK, Suits, Phase
<1> QED BY <1>3, <1>5, <1>6 DEF Phases

LEMMA SendTypes ==
  ASSUME TypesAndPhases, NEW c \in Calls, NEW kind \in {"send", "stream"},
         NEW k \in Conns, NEW mode \in Modes, NEW push \in BOOLEAN,
         Send(c, kind, k, mode, push)
  PROVE  TypesAndPhases'
<1> DEFINE context == IF mode \in {"continue", "newTask"} THEN contextID[k] ELSE None
           task == IF mode = "continue" THEN openTask[k] ELSE None
           o == [kind |-> kind, conn |-> k, task |-> task, context |-> context,
                 mode |-> mode, hook |-> None, existing |-> FALSE, old |-> None]
           label == IF push THEN "choose" ELSE "reset"
<1>1. o \in Ops
  BY DEF TypesAndPhases, WebhooksTypeOK, ThreadTypeOK, Ops, Kinds
<1>2. Begins(c, label, o) /\ Suits(label, o) /\ ~o.existing
  BY DEF Send, Suits
<1>3. UNCHANGED <<threadVars, pooled, known, hookVars, note, agentVars, unsure>>
  BY DEF Send
<1>4. ThreadTypeOK' /\ pooled' \subseteq known' /\ known' \subseteq Conns
  BY <1>3 DEF TypesAndPhases, WebhooksTypeOK, ThreadTypeOK, threadVars
<1> HIDE DEF o, label
<1> QED BY <1>1, <1>2, <1>3, <1>4, BeginsTypes

LEMMA TaskOperationTypes ==
  ASSUME TypesAndPhases, NEW c \in Calls, NEW kind \in {"get", "create", "delete"},
         NEW k \in Conns, NEW t \in Tasks, NEW w \in Hooks,
         TaskOperation(c, kind, k, t, w)
  PROVE  TypesAndPhases'
<1> DEFINE o == [kind |-> kind, conn |-> k, task |-> t, context |-> None,
                 mode |-> "raw", hook |-> IF kind = "delete" THEN w ELSE None,
                 existing |-> FALSE, old |-> None]
           label == IF kind = "create" THEN "create" ELSE "call"
<1>1. o \in Ops
  BY DEF Ops, Kinds, Modes
<1>2. Begins(c, label, o) /\ Suits(label, o) /\ ~o.existing
  BY NoneIsNothing DEF TaskOperation, Suits
<1>3. UNCHANGED <<threadVars, pooled, known, hookVars, note, agentVars, unsure>>
  BY DEF TaskOperation
<1>4. ThreadTypeOK' /\ pooled' \subseteq known' /\ known' \subseteq Conns
  BY <1>3 DEF TypesAndPhases, WebhooksTypeOK, ThreadTypeOK, threadVars
<1> HIDE DEF o, label
<1> QED BY <1>1, <1>2, <1>3, <1>4, BeginsTypes

LEMMA ConnectTypes ==
  ASSUME TypesAndPhases, NEW c \in Calls, NEW k \in Conns,
         NEW old \in Conns \cup {None}, Connect(c, k, old)
  PROVE  TypesAndPhases'
<1> DEFINE o == [kind |-> "connect", conn |-> k, task |-> None, context |-> None,
                 mode |-> "raw", hook |-> None, existing |-> FALSE, old |-> old]
<1>1. o \in Ops
  BY DEF Ops, Kinds, Modes
<1>2. Begins(c, "move", o) /\ Suits("move", o) /\ ~o.existing
  BY DEF Connect, Suits
<1>3. UNCHANGED <<hookVars, note, agentVars, unsure>>
  BY DEF Connect
<1>4. ThreadTypeOK' /\ pooled' \subseteq known' /\ known' \subseteq Conns
  BY DEF Connect, Continue, TypesAndPhases, WebhooksTypeOK, ThreadTypeOK, threadVars
<1> HIDE DEF o
<1> QED BY <1>1, <1>2, <1>3, <1>4, BeginsTypes

LEMMA CutTypes ==
  ASSUME TypesAndPhases, NEW c \in Calls, Cut(c)
  PROVE  TypesAndPhases'
BY DEF TypesAndPhases, Cut, WebhooksTypeOK, ThreadTypeOK, threadVars, hookVars,
   agentVars, Phases, Phase

LEMMA DisconnectTypes ==
  ASSUME TypesAndPhases, NEW k \in Conns, Disconnect(k)
  PROVE  TypesAndPhases'
BY DEF TypesAndPhases, Disconnect, WebhooksTypeOK, ThreadTypeOK, threadVars,
   hookVars, agentVars, Phases, Phase

LEMMA TaskMovesTypes ==
  ASSUME TypesAndPhases, NEW t \in Tasks, NEW s \in States, TaskMoves(t, s)
  PROVE  TypesAndPhases'
BY DEF TypesAndPhases, TaskMoves, WebhooksTypeOK, ThreadTypeOK, threadVars,
   hookVars, callVars, Phases, Phase

LEMMA NotifyTypes ==
  ASSUME TypesAndPhases, NEW n \in Notifiers, NEW t \in Tasks, NEW w \in Hooks,
         Notify(n, t, w)
  PROVE  TypesAndPhases'
<1>1. Ref(t) \in Refs
  BY DEF Ref, TypesAndPhases, WebhooksTypeOK, Refs
<1> QED BY <1>1 DEF TypesAndPhases, Notify, WebhooksTypeOK, ThreadTypeOK, threadVars,
   hookVars, callVars, agentVars, Phases, Phase

LEMMA NoticeTypes ==
  ASSUME TypesAndPhases, NEW n \in Notifiers, Notice(n)
  PROVE  TypesAndPhases'
BY DEF TypesAndPhases, Notice, Observe, ContextAfter, TaskAfter, WebhooksTypeOK,
   ThreadTypeOK, threadVars, hookVars, callVars, agentVars, Phases, Phase, Refs

LEMMA NextTypes == ASSUME TypesAndPhases, [WebhooksNext]_vars PROVE TypesAndPhases'
<1>1. CASE UNCHANGED vars
  BY <1>1 DEF vars, TypesAndPhases, WebhooksTypeOK, ThreadTypeOK, threadVars,
     hookVars, callVars, agentVars, Phases, Phase
<1>2. ASSUME NEW c \in Calls, CallGoesOn(c) PROVE TypesAndPhases'
  BY <1>2, ChooseExistingTypes, ChooseNewTypes, CreateHookTypes, ResetThreadTypes,
     SettleTypes, RecordTypes, StreamEndsTypes, RejectedTypes, ConfigDeletedTypes,
     MoveTypes DEF CallGoesOn
<1>3. ASSUME NEW c \in Calls, Agent(c) PROVE TypesAndPhases'
  BY <1>3, AgentDoesTypes, AgentRejectsTypes, AnswerLostTypes, AgentStreamsTypes,
     AgentTakesTypes, AgentRepliesTypes DEF Agent
<1>4. ASSUME NEW c \in Calls, User(c) PROVE TypesAndPhases'
  BY <1>4, CutTypes, SendTypes, TaskOperationTypes, ConnectTypes DEF User
<1>5. CASE \/ \E k \in Conns : Disconnect(k)
           \/ \E t \in Tasks, s \in States : TaskMoves(t, s)
  BY <1>5, DisconnectTypes, TaskMovesTypes
<1>6. ASSUME NEW n \in Notifiers,
             Notice(n) \/ \E t \in Tasks, w \in Hooks : Notify(n, t, w)
      PROVE TypesAndPhases'
  BY <1>6, NoticeTypes, NotifyTypes
<1> QED BY <1>1, <1>2, <1>3, <1>4, <1>5, <1>6 DEF WebhooksNext
-----------------------------------------------------------------------------
(* The steps that leave alone what Core speaks about: those of other parts *)
(* and those of calls that neither create nor delete.                      *)
OnlyCall(c) ==
  \A d \in Calls \ {c} :
    /\ op'[d] = op[d] /\ answer'[d] = answer[d]
    /\ d \in first' <=> d \in first
    /\ d \in cut => d \in cut'

LEMMA OnlyCallKeeps ==
  ASSUME NEW c \in Calls, OnlyCall(c), UNCHANGED <<hookVars, configs, unsure>>,
         ~Creates(op[c]), ~Deletes(op[c]), ~Creates(op'[c]), ~Deletes(op'[c])
  PROVE  Same
BY DEF OnlyCall, Same, SameCall

LEMMA ChooseSame ==
  ASSUME TypesAndPhases, NEW c \in Calls, ChooseExisting(c) \/ ChooseNew(c)
  PROVE  Same
<1> USE NoneIsNothing
<1>1. op[c] # None /\ op[c] \in Ops /\ op[c].hook = None /\ op[c].kind # "delete"
  BY DEF ChooseExisting, ChooseNew, TypesAndPhases, WebhooksTypeOK, Phases, Phase
<1>2. ~Creates(op[c]) /\ ~Deletes(op[c])
  BY <1>1 DEF Creates, Deletes
<1>3. OnlyCall(c) /\ UNCHANGED <<hookVars, configs, unsure>>
  BY DEF ChooseExisting, ChooseNew, OnlyCall, TypesAndPhases, WebhooksTypeOK,
     agentVars
<1>4. ~Creates(op'[c]) /\ ~Deletes(op'[c])
  <2>1. CASE ChooseNew(c)
    BY <1>2, <2>1 DEF ChooseNew
  <2>2. CASE ChooseExisting(c)
    <3>1. PICK w \in Hooks :
            op' = [op EXCEPT ![c] = [op[c] EXCEPT !.hook = w, !.existing = TRUE]]
      BY <2>2 DEF ChooseExisting, Usable
    <3>2. op'[c].existing /\ op'[c].kind = op[c].kind
      BY <1>1, <3>1 DEF Ops, TypesAndPhases, WebhooksTypeOK
    <3> QED BY <1>1, <3>2 DEF Creates, Deletes
  <2> QED BY <2>1, <2>2
<1> QED BY <1>2, <1>3, <1>4, OnlyCallKeeps

LEMMA ResetThreadSame ==
  ASSUME TypesAndPhases, NEW c \in Calls, ResetThread(c)
  PROVE  Same
<1> USE NoneIsNothing
<1>1. op[c] # None /\ op[c] \in Ops /\ op' = [op EXCEPT ![c] = [op[c] EXCEPT !.mode = "raw"]]
  BY DEF ResetThread, TypesAndPhases, WebhooksTypeOK, Phases, Phase
<1>2. /\ op'[c] # None /\ op'[c].kind = op[c].kind /\ op'[c].hook = op[c].hook
      /\ op'[c].task = op[c].task /\ op'[c].existing = op[c].existing
      /\ \A d \in Calls \ {c} : op'[d] = op[d]
  <2>1. op'[c] = [op[c] EXCEPT !.mode = "raw"]
    BY <1>1 DEF TypesAndPhases, WebhooksTypeOK
  <2>2. \A d \in Calls \ {c} : op'[d] = op[d]
    BY <1>1 DEF TypesAndPhases, WebhooksTypeOK
  <2>3. op[c] \in Ops /\ op[c] # None
    BY <1>1
  <2>4. op'[c] # None
    BY <2>1, <2>3 DEF Ops, Modes
  <2> QED BY <2>1, <2>2, <2>3, <2>4 DEF Ops
<1> QED BY <1>1, <1>2 DEF ResetThread, Same, SameCall, Creates, Deletes, agentVars

LEMMA SettleSame == ASSUME NEW c \in Calls, Settle(c) PROVE Same
BY DEF Settle, Same, SameCall, agentVars

LEMMA OtherSame ==
  ASSUME \/ UNCHANGED vars
         \/ \E c \in Calls : Cut(c)
         \/ \E k \in Conns : Disconnect(k)
         \/ \E t \in Tasks, s \in States : TaskMoves(t, s)
         \/ \E n \in Notifiers :
              Notice(n) \/ \E t \in Tasks, w \in Hooks : Notify(n, t, w)
  PROVE  Same
BY DEF vars, Cut, Disconnect, TaskMoves, Notice, Notify, Same, SameCall, hookVars,
   callVars, agentVars

(* A call that begins deletes a config of the agent, if any.               *)
LEMMA BeginsKeeps ==
  ASSUME TypesAndPhases, Core, NEW c \in Calls, NEW label, NEW o \in Ops,
         Begins(c, label, o), ~o.existing,
         o.hook = None \/ (o.kind = "delete" /\ <<o.task, o.hook>> \in configs),
         o.kind = "delete" => o.hook # None,
         UNCHANGED <<hookVars, agentVars, unsure>>
  PROVE  Core'
<1> USE NoneIsNothing, AnswersDiffer
<1>1. /\ op[c] = None /\ answer[c] = None /\ op' = [op EXCEPT ![c] = o] /\ o # None
      /\ first' = first \cup {c} /\ UNCHANGED <<answer, cut>>
      /\ UNCHANGED <<hookConn, hookTask, stale, unused, configs, unsure>>
  BY DEF Begins, TypesAndPhases, Phases, Phase, hookVars, agentVars
<1>2. OnlyCall(c) /\ op'[c] = o
  BY <1>1 DEF OnlyCall, TypesAndPhases, WebhooksTypeOK
<1>3. ~Creates(op[c]) /\ ~Deletes(op[c]) /\ ~Creates(op'[c])
  BY <1>1, <1>2 DEF Creates, Deletes
<1>4. CASE ~Deletes(op'[c])
  BY <1>1, <1>2, <1>3, <1>4, OnlyCallKeeps, SameKeeps DEF hookVars
<1>5. CASE Deletes(op'[c])
  <2>1. <<o.task, o.hook>> \in configs
    BY <1>2, <1>5 DEF Deletes
  <2>2. \A t, w : Configured(t, w)' <=> Configured(t, w)
    BY <1>1, <1>2, <1>3, <2>1 DEF Configured, OnlyCall
  <2>3. \A w : (Deleted(w)' <=> Deleted(w)) /\ (Undecided(w)' <=> Undecided(w))
    BY <1>1, <1>2, <1>3 DEF Deleted, Undecided, OnlyCall
  <2>4. \A d \in Calls : Creates(op'[d]) => d # c /\ op'[d] = op[d]
    BY <1>2, <1>3 DEF OnlyCall
  <2>5. \A d \in Calls : Creates(op[d]) => d # c /\ op'[d] = op[d]
    BY <1>2, <1>3 DEF OnlyCall
  <2>6. Owners' /\ Untaken' /\ Unknown'
    BY <1>1, <2>2, <2>4 DEF Core, Owners, Owner, Untaken, NotTaken, Unknown
  <2>7. BoundRight' /\ Granted' /\ Binding' /\ Unbound' /\ TakenStays'
    BY <1>1, <2>2, <2>3, <2>4, <2>5 DEF Core, BoundRight, BoundTo, Granted, Sure,
       Binding, Unbound, TakenStays
  <2> QED BY <2>6, <2>7 DEF Core
<1> QED BY <1>4, <1>5

LEMMA CreateHookKeeps ==
  ASSUME TypesAndPhases, Core, NEW c \in Calls, CreateHook(c)
  PROVE  Core'
<1> USE NoneIsNothing, AnswersDiffer
<1>1. PICK w \in unused :
        /\ unused' = unused \ {w}
        /\ hookConn' = [hookConn EXCEPT ![w] = op[c].conn]
        /\ hookTask' = [hookTask EXCEPT ![w] = IF op[c].kind = "create" THEN op[c].task
                                                                       ELSE None]
        /\ op' = [op EXCEPT ![c] = [op[c] EXCEPT !.hook = w]]
  BY DEF CreateHook
<1>2. UNCHANGED <<stale, answer, first, cut, configs, unsure>>
  BY DEF CreateHook, agentVars
<1>3. /\ op[c] # None /\ op[c] \in Ops /\ op[c].hook = None /\ ~op[c].existing
      /\ op[c].kind \in {"send", "stream", "create"} /\ c \in first /\ answer[c] = None
  BY DEF CreateHook, TypesAndPhases, WebhooksTypeOK, Phases, Phase, Ops
<1>4. w \in Hooks /\ op[c].conn \in Conns
  BY <1>3 DEF TypesAndPhases, WebhooksTypeOK, Ops
<1>5. /\ op'[c] # None /\ op'[c].kind = op[c].kind /\ op'[c].hook = w
      /\ op'[c].task = op[c].task /\ op'[c].existing = op[c].existing
      /\ \A d \in Calls \ {c} : op'[d] = op[d]
  <2>1. op'[c] = [op[c] EXCEPT !.hook = w]
    BY <1>1 DEF TypesAndPhases, WebhooksTypeOK
  <2>2. \A d \in Calls \ {c} : op'[d] = op[d]
    BY <1>1 DEF TypesAndPhases, WebhooksTypeOK
  <2> QED BY <1>3, <1>4, <2>1, <2>2 DEF Ops
<1>6. /\ hookConn'[w] # None /\ hookTask'[w] = IF op[c].kind = "create" THEN op[c].task ELSE None
      /\ \A v \in Hooks \ {w} : hookConn'[v] = hookConn[v] /\ hookTask'[v] = hookTask[v]
  BY <1>1, <1>4 DEF TypesAndPhases, WebhooksTypeOK
<1>7. /\ ~Creates(op[c]) /\ ~Deletes(op[c]) /\ Creates(op'[c]) /\ ~Deletes(op'[c])
      /\ \A d \in Calls : Creates(op[d]) => op[d].hook \in Hooks \ {w}
  <2>1. \A d \in Calls : Creates(op[d]) => op[d].hook \in Hooks
    BY DEF Creates, TypesAndPhases, WebhooksTypeOK, Ops
  <2> QED BY <1>3, <1>4, <1>5, <2>1 DEF Creates, Deletes, Core, Owners, Owner
<1>8. \A t, v : Configured(t, v)' <=> Configured(t, v)
  BY <1>2, <1>5, <1>7 DEF Configured
<1>9. \A t \in Tasks : ~Configured(t, w)
  BY <1>1 DEF Core, Unknown
<1>10. \A t, v : Sure(t, v)' <=> Sure(t, v)
  BY <1>2, <1>5, <1>7 DEF Sure, Deleted
<1>11. Owners'
  BY <1>1, <1>2, <1>3, <1>4, <1>5, <1>6, <1>7 DEF Core, Owners, Owner
<1>12. Untaken' /\ Unknown'
  <2>1. unused \subseteq Hooks
    BY DEF TypesAndPhases, WebhooksTypeOK
  <2>2. Unknown'
    BY <1>1, <1>6, <1>8, <2>1 DEF Core, Unknown
  <2>3. \A d \in Calls \ {c} : Creates(op'[d]) => NotTaken(d)' = NotTaken(d)
    BY <1>2, <1>5, <1>6, <1>7 DEF NotTaken
  <2> QED BY <1>5, <1>7, <1>8, <1>9, <2>2, <2>3 DEF Core, Untaken
<1>13. BoundRight'
  <2>1. \A t \in Tasks, v \in Hooks \ {w} : BoundTo(t, v)' <=> BoundTo(t, v)
    BY <1>2, <1>3, <1>5, <1>6, <1>7 DEF BoundTo
  <2> QED BY <1>8, <1>9, <2>1 DEF Core, BoundRight
<1>14. Granted'
  <2>1. \A v \in Hooks \ {w} : Undecided(v) => Undecided(v)'
    BY <1>2, <1>5, <1>7 DEF Undecided
  <2>2. Undecided(w)'
    BY <1>2, <1>3, <1>5, <1>7 DEF Undecided
  <2> QED BY <1>6, <1>10, <2>1, <2>2 DEF Core, Granted
<1>15. Binding' /\ Unbound' /\ TakenStays'
  <2>1. Binding'
    BY <1>2, <1>3, <1>5, <1>6, <1>7, <1>10 DEF Core, Binding
  <2>2. Unbound' /\ TakenStays'
    BY <1>2, <1>5, <1>6, <1>7 DEF Core, Unbound, TakenStays
  <2> QED BY <2>1, <2>2
<1> QED BY <1>11, <1>12, <1>13, <1>14, <1>15 DEF Core

(* The agent takes the config that the call c came with, for the task t.   *)
LEMMA TakesKeeps ==
  ASSUME TypesAndPhases, Core, NEW c \in Calls, NEW t \in Tasks, NEW a \in Refs,
         op[c] # None, c \in first, answer[c] = None,
         answer' = [answer EXCEPT ![c] = a], Takes(c, t),
         \/ op[c].kind = "create" /\ t = op[c].task /\ a.task = None
         \/ op[c].kind \in {"send", "stream"} /\ a.task = t,
         UNCHANGED <<hookVars, op, first, cut, unsure>>
  PROVE  Core'
<1> USE NoneIsNothing, AnswersDiffer
<1>1. UNCHANGED <<hookConn, hookTask, stale, unused, op, first, cut, unsure>>
  BY DEF hookVars
<1>2. answer'[c] = a /\ \A d \in Calls \ {c} : answer'[d] = answer[d]
  BY DEF TypesAndPhases, WebhooksTypeOK
<1>3. ~Deletes(op[c])
  BY DEF Deletes
<1>4. CASE ~Creates(op[c])
  <2>1. configs' = configs
    BY <1>3, <1>4 DEF Takes, Creates, Deletes
  <2> QED BY <1>1, <1>2, <1>3, <1>4, <2>1, OnlyCallKeeps, SameKeeps DEF OnlyCall, hookVars
<1>5. CASE Creates(op[c])
  <2>1. PICK w \in Hooks : w = op[c].hook
    BY <1>5 DEF Creates, TypesAndPhases, WebhooksTypeOK, Ops
  <2>12. configs' = configs \cup {<<t, w>>}
    BY <1>5, <2>1 DEF Takes, Creates
  <2>2. /\ hookConn[w] # None /\ w \notin unused
        /\ op[c].kind = "create" => hookTask[w] = t
        /\ op[c].kind # "create" => hookTask[w] = None
        /\ \A d \in Calls : Creates(op[d]) /\ op[d].hook = w => d = c
    BY <1>5, <2>1 DEF Core, Owners, Owner
  <2>3. \A s \in Tasks : ~Configured(s, w)
    BY <1>5, <2>1 DEF Core, Untaken, NotTaken
  <2>4. \A s, v : Configured(s, v)' <=> Configured(s, v) \/ (s = t /\ v = w)
    BY <1>1, <2>12 DEF Configured
  <2>5. Owners' /\ TakenStays'
    BY <1>1, <2>12, <2>2 DEF Core, Owners, Owner, TakenStays
  <2>6. Untaken' /\ Unknown'
    <3>2. ~NotTaken(c)'
      BY <1>1, <1>2 DEF NotTaken
    <3>3. \A d \in Calls \ {c} : NotTaken(d)' <=> NotTaken(d)
      BY <1>1, <1>2 DEF NotTaken
    <3> QED BY <1>1, <2>2, <2>4, <3>2, <3>3 DEF Core, Untaken, Unknown
  <2>7. BoundRight'
    <3>1. BoundTo(t, w)'
      BY <1>1, <1>2, <2>2 DEF BoundTo
    <3>2. \A s \in Tasks, v \in Hooks \ {w} : BoundTo(s, v)' <=> BoundTo(s, v)
      BY <1>1, <1>2, <2>1 DEF BoundTo
    <3> QED BY <2>3, <2>4, <3>1, <3>2 DEF Core, BoundRight
  <2>8. \A s, v : (Sure(s, v) => Sure(s, v)') /\ Sure(t, w)'
    BY <1>1, <1>2, <1>3, <2>12 DEF Sure, Deleted
  <2>9. Granted'
    <3>1. \A v \in Hooks \ {w} : Undecided(v) => Undecided(v)'
      BY <1>1, <1>2, <2>1 DEF Undecided
    <3> QED BY <1>1, <2>2, <2>8, <3>1 DEF Core, Granted
  <2>10. Binding'
    BY <1>1, <1>2, <2>1, <2>8 DEF Core, Binding
  <2>11. Unbound'
    BY <1>1, <1>5, <2>12, <2>1 DEF Core, Unbound
  <2> QED BY <2>5, <2>6, <2>7, <2>9, <2>10, <2>11 DEF Core
<1> QED BY <1>4, <1>5

(* The agent answers with a task that is known, or with none and takes     *)
(* nothing.                                                                *)
LEMMA HearsKeeps ==
  ASSUME TypesAndPhases, Core, NEW c \in Calls, NEW a \in Refs,
         op[c] # None, answer[c] = None, answer' = [answer EXCEPT ![c] = a],
         \/ ~Creates(op[c])
         \/ c \in first /\ a.task = None /\ op[c].kind # "create"
         \/ c \notin first /\ op[c].task # None,
         op[c].kind # "delete",
         UNCHANGED <<hookVars, op, first, cut, configs, unsure>>
  PROVE  Core'
<1> USE NoneIsNothing, AnswersDiffer
<1>1. UNCHANGED <<hookConn, hookTask, stale, unused, op, first, cut, configs, unsure>>
  BY DEF hookVars
<1>2. answer'[c] = a /\ \A d \in Calls \ {c} : answer'[d] = answer[d]
  BY DEF TypesAndPhases, WebhooksTypeOK
<1>3. ~Deletes(op[c])
  BY DEF Deletes
<1>4. CASE ~Creates(op[c])
  BY <1>1, <1>2, <1>3, <1>4, OnlyCallKeeps, SameKeeps DEF OnlyCall, hookVars
<1>5. CASE Creates(op[c])
  <2>1. PICK w \in Hooks : w = op[c].hook
    BY <1>5 DEF Creates, TypesAndPhases, WebhooksTypeOK, Ops
  <2>2. /\ \A d \in Calls : Creates(op[d]) /\ op[d].hook = w => d = c
        /\ c \in first => hookTask[w] = None
        /\ c \notin first => hookTask[w] # None
    BY <1>5, <2>1 DEF Core, Owners, Owner
  <2>3. c \in first => \A t \in Tasks : ~Configured(t, w)
    BY <1>5, <2>1 DEF Core, Untaken, NotTaken
  <2>4. \A t, v : (Configured(t, v)' <=> Configured(t, v)) /\ (Sure(t, v)' <=> Sure(t, v))
    BY <1>1, <1>2, <1>3 DEF Configured, Sure, Deleted
  <2>5. Owners' /\ Unknown' /\ Unbound' /\ TakenStays'
    BY <1>1, <2>4 DEF Core, Owners, Owner, Unknown, Unbound, TakenStays
  <2>6. Untaken'
    <3>1. ~NotTaken(c)'
      BY <1>1, <1>2, <2>1, <2>2 DEF NotTaken
    <3>2. \A d \in Calls \ {c} : NotTaken(d)' <=> NotTaken(d)
      BY <1>1, <1>2 DEF NotTaken
    <3> QED BY <1>1, <2>4, <3>1, <3>2 DEF Core, Untaken
  <2>7. BoundRight'
    <3>1. \A t \in Tasks, v \in Hooks \ {w} : BoundTo(t, v)' <=> BoundTo(t, v)
      BY <1>1, <1>2, <2>1 DEF BoundTo
    <3>2. \A t \in Tasks : Configured(t, w) => BoundTo(t, w)'
      BY <1>1, <2>2, <2>3 DEF Core, BoundRight, BoundTo
    <3> QED BY <2>4, <3>1, <3>2 DEF Core, BoundRight
  <2>8. Granted'
    <3>1. \A v \in Hooks \ {w} : Undecided(v) => Undecided(v)'
      BY <1>1, <1>2, <2>1 DEF Undecided
    <3>2. c \notin first => ~Undecided(w)
      BY <2>2 DEF Undecided
    <3> QED BY <1>1, <2>2, <2>4, <3>1, <3>2 DEF Core, Granted
  <2>9. Binding'
    BY <1>1, <1>2, <2>1, <2>2, <2>4 DEF Core, Binding
  <2> QED BY <2>5, <2>6, <2>7, <2>8, <2>9 DEF Core
<1> QED BY <1>4, <1>5

(* The call learns that it was rejected, or believes it.                   *)
LEMMA RejectedKeeps ==
  ASSUME TypesAndPhases, Core, NEW c \in Calls, ~MayBreak,
         AgentRejects(c) \/ AnswerLost(c)
  PROVE  Core'
<1> USE NoneIsNothing, AnswersDiffer
<1>1. /\ UNCHANGED <<hookConn, hookTask, stale, unused, op, first, cut, configs>>
      /\ answer' = [answer EXCEPT ![c] = Rejection] /\ pc[c] = "call"
      /\ c \in first /\ unsure \subseteq unsure'
      /\ \/ answer[c] = None /\ unsure' = unsure
         \/ /\ answer[c] \notin {None, Rejection} /\ c \in cut
            /\ op[c].existing \/ op[c].hook = None \/ op[c].hook \in unsure'
  BY DEF AgentRejects, AnswerLost, Awaiting, Answers, hookVars, agentVars
<1>2. answer'[c] = Rejection /\ \A d \in Calls \ {c} : answer'[d] = answer[d]
  BY <1>1 DEF TypesAndPhases, WebhooksTypeOK
<1>3. \A t, v : Configured(t, v)' <=> Configured(t, v)
  BY <1>1 DEF Configured
<1>4. \A t, v : Sure(t, v) => Sure(t, v)'
  <2>1. ASSUME NEW v, Deletes(op[c]), op[c].hook = v, answer[c] = Done
        PROVE  v \in unsure'
    BY <1>1, <2>1 DEF Deletes, TypesAndPhases, Phases, Phase
  <2>2. \A v : Deleted(v) => Deleted(v)' \/ v \in unsure'
    BY <1>1, <1>2, <2>1 DEF Deleted
  <2> QED BY <1>1, <2>2 DEF Sure
<1>5. Owners' /\ Unknown' /\ TakenStays' /\ Unbound'
  BY <1>1, <1>3 DEF Core, Owners, Owner, Unknown, TakenStays, Unbound
<1>6. Untaken'
  <2>1. \A d \in Calls : NotTaken(d)' => NotTaken(d)
    BY <1>1, <1>2 DEF NotTaken
  <2> QED BY <1>1, <1>3, <2>1 DEF Core, Untaken
<1>7. BoundRight'
  <2>1. \A t, v : BoundTo(t, v) => BoundTo(t, v)'
    BY <1>1, <1>2 DEF BoundTo
  <2> QED BY <1>3, <2>1 DEF Core, BoundRight
<1>8. Granted'
  <2>1. \A v : Undecided(v) => Undecided(v)'
    BY <1>1, <1>2 DEF Undecided
  <2> QED BY <1>1, <1>4, <2>1 DEF Core, Granted
<1>9. Binding'
  BY <1>1, <1>2, <1>4 DEF Core, Binding
<1> QED BY <1>5, <1>6, <1>7, <1>8, <1>9 DEF Core

LEMMA EndsFacts ==
  ASSUME TypesAndPhases, NEW c \in Calls, Ends(c)
  PROVE  /\ op'[c] = None /\ answer'[c] = None /\ ~Creates(op'[c]) /\ ~Deletes(op'[c])
         /\ OnlyCall(c)
BY DEF Ends, OnlyCall, Creates, Deletes, TypesAndPhases, WebhooksTypeOK

(* The answer to the call c is read, and its webhook bound.                *)
LEMMA RecordKeeps ==
  ASSUME TypesAndPhases, Core, NEW c \in Calls, Record(c)
  PROVE  Core'
<1> USE NoneIsNothing, AnswersDiffer
<1>1. /\ op[c] # None /\ op[c] \in Ops /\ answer[c] \in Refs /\ op[c].kind # "delete"
      /\ UNCHANGED <<hookConn, stale, unused, configs, unsure>>
  BY DEF Record, TypesAndPhases, WebhooksTypeOK, Phases, Phase, agentVars
<1>2. /\ OnlyCall(c) /\ ~Deletes(op[c]) /\ ~Deletes(op'[c])
      /\ \/ op[c].kind # "stream" /\ op'[c] = None /\ ~Creates(op'[c])
         \/ /\ op[c].kind = "stream" /\ op'[c] # None /\ op'[c].kind = op[c].kind
            /\ op'[c].hook = op[c].hook /\ op'[c].existing = op[c].existing
            /\ op'[c].task = answer[c].task
            /\ answer'[c] = None /\ c \notin first'
  <2>1. CASE op[c].kind # "stream"
    <3>1. Ends(c)
      BY <2>1 DEF Record
    <3> QED BY <1>1, <2>1, <3>1, EndsFacts DEF Deletes
  <2>2. CASE op[c].kind = "stream"
    <3>1. /\ op' = [op EXCEPT ![c] = [op[c] EXCEPT !.task = answer[c].task]]
          /\ answer' = [answer EXCEPT ![c] = None] /\ first' = first \ {c} /\ cut' = cut
      BY <2>2 DEF Record
    <3>2. /\ op'[c] = [op[c] EXCEPT !.task = answer[c].task] /\ answer'[c] = None
          /\ OnlyCall(c) /\ c \notin first'
      BY <3>1 DEF OnlyCall, TypesAndPhases, WebhooksTypeOK
    <3>3. op'[c] \in Ops
      BY <1>1, <3>2 DEF Ops, Refs
    <3> QED BY <1>1, <2>2, <3>2, <3>3 DEF Ops, Deletes
  <2> QED BY <2>1, <2>2
<1>3. CASE ~Creates(op[c])
  <2>1. hookTask' = hookTask
    BY <1>1, <1>3 DEF Record, Bound, Creates, TypesAndPhases, WebhooksTypeOK
  <2>2. ~Creates(op'[c])
    BY <1>1, <1>2, <1>3 DEF Creates
  <2> QED BY <1>1, <1>2, <1>3, <2>1, <2>2, OnlyCallKeeps, SameKeeps DEF hookVars
<1>4. CASE Creates(op[c])
  <2>1. PICK w \in Hooks : w = op[c].hook
    BY <1>4 DEF Creates, TypesAndPhases, WebhooksTypeOK, Ops
  <2>2. /\ hookConn[w] # None /\ w \notin unused
        /\ op[c].kind = "create" => hookTask[w] # None
        /\ \A d \in Calls : Creates(op[d]) /\ op[d].hook = w => d = c
    <3>1. op[c].kind = "create" => op[c].task # None
      BY <1>1 DEF TypesAndPhases, Phases, Phase
    <3> QED BY <1>4, <2>1, <3>1 DEF Core, Owners, Owner
  <2>3. /\ hookTask'[w] = IF hookTask[w] = None THEN answer[c].task ELSE hookTask[w]
        /\ \A v \in Hooks \ {w} : hookTask'[v] = hookTask[v]
    <3>1. op[c].kind \in {"send", "stream", "create"} /\ ~op[c].existing
      BY <1>1, <1>4 DEF Creates, TypesAndPhases, Phases, Phase, Ops, Kinds
    <3> QED BY <2>1, <2>2, <3>1 DEF Record, Bound
  <2>4. \A t, v : (Configured(t, v)' <=> Configured(t, v)) /\ (Sure(t, v)' <=> Sure(t, v))
    BY <1>1, <1>2 DEF Configured, Sure, Deleted, OnlyCall
  <2>5. \A d \in Calls : Creates(op[d]) => op[d].hook \in Hooks
    BY DEF Creates, TypesAndPhases, WebhooksTypeOK, Ops
  <2>6. \A d \in Calls : d # c /\ Creates(op'[d]) =>
          /\ op'[d] = op[d] /\ op[d].hook \in Hooks \ {w} /\ answer'[d] = answer[d]
          /\ d \in first' <=> d \in first
          /\ d \in cut => d \in cut'
    BY <1>2, <2>2, <2>5 DEF OnlyCall
  <2>7. \A t \in Tasks : Configured(t, w) => hookTask'[w] = t
    BY <1>1, <1>4, <2>1, <2>3 DEF Core, BoundRight, BoundTo
  <2>8. Owners'
    <3>1. ASSUME NEW d \in Calls \ {c} PROVE Owner(d)'
      BY <1>1, <1>2, <2>1, <2>3, <2>6 DEF Core, Owners, Owner
    <3>2. Owner(c)'
      BY <1>1, <1>2, <2>1, <2>2, <2>3, <2>6 DEF Owner
    <3> QED BY <3>1, <3>2 DEF Owners
  <2>9. Unknown' /\ TakenStays'
    BY <1>1, <2>4 DEF Core, Unknown, TakenStays
  <2>10. Untaken'
    <3>1. ASSUME NEW d \in Calls \ {c}, Creates(op'[d]), NotTaken(d)'
          PROVE  \A t \in Tasks : ~Configured(t, op[d].hook)'
      BY <2>3, <2>4, <2>6, <3>1 DEF Core, Untaken, NotTaken
    <3>2. ASSUME Creates(op'[c]), NotTaken(c)'
          PROVE  \A t \in Tasks : ~Configured(t, op[c].hook)'
      BY <1>2, <2>1, <2>4, <2>7, <3>2 DEF NotTaken
    <3> QED BY <3>1, <3>2 DEF Untaken
  <2>11. BoundRight'
    <3>1. ASSUME NEW t \in Tasks, NEW v \in Hooks \ {w}, BoundTo(t, v) PROVE BoundTo(t, v)'
      BY <1>2, <2>1, <2>3, <2>6, <3>1 DEF BoundTo
    <3>2. ASSUME NEW t \in Tasks, Configured(t, w) PROVE BoundTo(t, w)'
      BY <2>7, <3>2 DEF BoundTo
    <3> QED BY <2>4, <3>1, <3>2 DEF Core, BoundRight
  <2>12. Granted'
    <3>1. ASSUME NEW v \in Hooks \ {w}, Undecided(v) PROVE Undecided(v)'
      BY <1>2, <2>1, <3>1 DEF Undecided, OnlyCall
    <3>2. ~Undecided(w)
      BY <1>1, <2>2 DEF Undecided
    <3>3. ASSUME NEW t \in Tasks, hookTask'[w] = t PROVE Sure(t, w)'
      <4>1. CASE hookTask[w] = None
        BY <1>1, <1>4, <2>1, <2>3, <2>4, <3>3, <4>1 DEF Core, Binding
      <4>2. CASE hookTask[w] # None
        BY <2>2, <2>3, <2>4, <3>2, <3>3, <4>2 DEF Core, Granted
      <4> QED BY <4>1, <4>2
    <3> QED BY <1>1, <2>3, <2>4, <3>1, <3>3 DEF Core, Granted
  <2>13. Binding'
    BY <1>2, <2>3, <2>4, <2>6 DEF Core, Binding
  <2>14. Unbound'
    <3>1. \A t \in Tasks, v \in Hooks : <<t, v>> \in configs /\ hookTask'[v] = None
             => v # w /\ hookTask[v] = None
      BY <2>3, <2>7 DEF Configured
    <3>2. \A d \in Calls : Creates(op[d]) /\ op[d].hook # w => op'[d] = op[d]
      BY <1>2, <2>1 DEF OnlyCall
    <3> QED BY <1>1, <3>1, <3>2 DEF Core, Unbound
  <2> QED BY <2>8, <2>9, <2>10, <2>11, <2>12, <2>13, <2>14 DEF Core
<1> QED BY <1>3, <1>4

(* A call c that ends: the webhooks W that it drops are its own, and the   *)
(* agent took nothing from it.                                             *)
LEMMA EndsKeeps ==
  ASSUME TypesAndPhases, Core, NEW c \in Calls, Ends(c), NEW W,
         \/ W = {}
         \/ Creates(op[c]) /\ NotTaken(c) /\ W = {op[c].hook},
         \A w \in Hooks : hookConn'[w] = None <=> hookConn[w] = None \/ w \in W,
         \A w \in Hooks : hookTask'[w] = IF w \in W THEN None ELSE hookTask[w],
         stale \ W \subseteq stale', unsure \subseteq unsure',
         UNCHANGED <<unused, configs>>,
         Creates(op[c]) => c \notin first \/ op[c].hook \in W \cup unsure',
         Deletes(op[c]) /\ answer[c] = Done => op[c].hook \in stale' \cup unsure'
  PROVE  Core'
<1> USE NoneIsNothing, AnswersDiffer
<1>1. /\ ~Creates(op'[c]) /\ ~Deletes(op'[c]) /\ OnlyCall(c)
  BY EndsFacts
<1>2. \A d \in Calls : Creates(op[d]) => op[d].hook \in Hooks
  BY DEF Creates, TypesAndPhases, WebhooksTypeOK, Ops
<1>3. /\ W \subseteq Hooks
      /\ \A d \in Calls \ {c} : Creates(op[d]) => op[d].hook \notin W
  BY <1>2 DEF Core, Owners, Owner
<1>4. \A d \in Calls : Creates(op'[d]) \/ Deletes(op'[d]) =>
        /\ d # c /\ op'[d] = op[d] /\ answer'[d] = answer[d]
        /\ d \in first' <=> d \in first
        /\ d \in cut => d \in cut'
  BY <1>1 DEF OnlyCall
<1>5. \A d \in Calls : Creates(op'[d]) =>
        /\ op[d].hook \in Hooks \ W
        /\ hookConn'[op[d].hook] = None <=> hookConn[op[d].hook] = None
        /\ hookTask'[op[d].hook] = hookTask[op[d].hook]
  BY <1>2, <1>3, <1>4
<1>6. \A t, v : Configured(t, v)' => Configured(t, v)
  BY <1>4 DEF Configured
<1>7. \A t \in Tasks, v \in W : ~Configured(t, v)
  BY DEF Core, Untaken
<1>8. \A t, v : Sure(t, v) /\ v \notin W => Sure(t, v)'
  <2>1. \A v : Deleted(v) => Deleted(v)' \/ v \in stale' \cup unsure'
    BY <1>1 DEF Deleted, OnlyCall
  <2> QED BY <2>1 DEF Sure
<1>9. Owners'
  BY <1>4, <1>5 DEF Core, Owners, Owner
<1>10. Untaken'
  <2>1. \A d \in Calls : Creates(op'[d]) /\ NotTaken(d)' => NotTaken(d)
    BY <1>4, <1>5 DEF NotTaken
  <2> QED BY <1>4, <1>6, <2>1 DEF Core, Untaken
<1>11. Unknown'
  BY <1>6 DEF Core, Unknown, TypesAndPhases, WebhooksTypeOK
<1>12. BoundRight'
  <2>1. \A t \in Tasks, v \in Hooks \ W : BoundTo(t, v) => BoundTo(t, v)'
    BY <1>4 DEF BoundTo
  <2> QED BY <1>6, <1>7, <2>1 DEF Core, BoundRight
<1>13. Granted'
  <2>1. \A v \in Hooks \ W : Undecided(v) => Undecided(v)' \/ v \in unsure'
    BY <1>1 DEF Undecided, OnlyCall
  <2> QED BY <1>8, <2>1 DEF Core, Granted, Sure
<1>14. Binding'
  BY <1>4, <1>5, <1>8 DEF Core, Binding
<1>15. Unbound'
  <2>1. ASSUME NEW t \in Tasks, NEW v \in Hooks, <<t, v>> \in configs, hookTask'[v] = None
        PROVE  v \in unsure' \/ \E d \in Calls : Creates(op'[d]) /\ op'[d].hook = v
    <3>1. v \notin W /\ hookTask[v] = None /\ Configured(t, v)
      BY <1>7, <2>1 DEF Configured
    <3>2. CASE v \in unsure
      BY <3>2
    <3>3. ASSUME NEW d \in Calls \ {c}, Creates(op[d]), op[d].hook = v
          PROVE  Creates(op'[d]) /\ op'[d].hook = v
      BY <1>1, <3>3 DEF OnlyCall
    <3>4. CASE Creates(op[c]) /\ op[c].hook = v
      BY <3>1, <3>4 DEF Core, Untaken, NotTaken
    <3> QED BY <2>1, <3>1, <3>2, <3>3, <3>4 DEF Core, Unbound
  <2> QED BY <2>1 DEF Unbound
<1>16. TakenStays'
  BY <1>7 DEF Core, TakenStays, Configured, TypesAndPhases, WebhooksTypeOK
<1> QED BY <1>9, <1>10, <1>11, <1>12, <1>13, <1>14, <1>15, <1>16 DEF Core

LEMMA EndsDroppingNone ==
  ASSUME TypesAndPhases, Core, NEW c \in Calls, Ends(c),
         \A w \in Hooks : hookConn'[w] = None <=> hookConn[w] = None,
         stale \subseteq stale', unsure \subseteq unsure',
         UNCHANGED <<hookTask, unused, configs>>,
         Creates(op[c]) => c \notin first \/ op[c].hook \in unsure',
         Deletes(op[c]) /\ answer[c] = Done => op[c].hook \in stale' \cup unsure'
  PROVE  Core'
<1> DEFINE W == {}
<1>1. /\ W = {} /\ stale \ W \subseteq stale'
      /\ \A w \in Hooks : hookConn'[w] = None <=> hookConn[w] = None \/ w \in W
      /\ \A w \in Hooks : hookTask'[w] = IF w \in W THEN None ELSE hookTask[w]
      /\ Creates(op[c]) => c \notin first \/ op[c].hook \in W \cup unsure'
  OBVIOUS
<1> HIDE DEF W
<1> QED BY <1>1, EndsKeeps

LEMMA StreamEndsKeeps ==
  ASSUME TypesAndPhases, Core, NEW c \in Calls, StreamEnds(c) PROVE Core'
<1>1. /\ c \notin first /\ Ends(c)
      /\ UNCHANGED <<hookConn, hookTask, stale, unused, configs, unsure>>
  BY DEF StreamEnds, hookVars, agentVars
<1>2. ~Deletes(op[c])
  BY <1>1 DEF Deletes, TypesAndPhases, Phases, Phase, Ends
<1> QED BY <1>1, <1>2, EndsDroppingNone

LEMMA DropKeeps ==
  ASSUME TypesAndPhases, Core, NEW c \in Calls, Rejected(c) PROVE Core'
<1> USE NoneIsNothing, AnswersDiffer
<1>1. /\ answer[c] = Rejection /\ Ends(c) /\ op[c] # None
      /\ hookConn' = [w \in Hooks |-> IF w \in Dropped(c) THEN None ELSE hookConn[w]]
      /\ hookTask' = [w \in Hooks |-> IF w \in Dropped(c) THEN None ELSE hookTask[w]]
      /\ stale' = stale \ Dropped(c)
      /\ unsure' = unsure \cup (Created(c) \ Dropped(c))
      /\ UNCHANGED <<unused, configs>>
  BY DEF Rejected, agentVars, TypesAndPhases, Phases, Phase
<1>2. Creates(op[c]) => Created(c) = {op[c].hook}
  BY DEF Creates, Created
<1>3. ~Creates(op[c]) => Created(c) = {}
  BY <1>1 DEF Creates, Created
<1>4. \/ Dropped(c) = {}
      \/ Creates(op[c]) /\ NotTaken(c) /\ Dropped(c) = {op[c].hook}
  BY <1>1, <1>2, <1>3 DEF Dropped, NotTaken
<1>5. Creates(op[c]) => c \notin first \/ op[c].hook \in Dropped(c) \cup unsure'
  BY <1>1, <1>2
<1>6. /\ \A w \in Hooks : hookConn'[w] = None <=> hookConn[w] = None \/ w \in Dropped(c)
      /\ \A w \in Hooks : hookTask'[w] = IF w \in Dropped(c) THEN None ELSE hookTask[w]
  BY <1>1
<1>7. stale \ Dropped(c) \subseteq stale' /\ unsure \subseteq unsure'
  BY <1>1
<1> QED BY <1>1, <1>4, <1>5, <1>6, <1>7, EndsKeeps

LEMMA ConfigDeletedKeeps ==
  ASSUME TypesAndPhases, Core, NEW c \in Calls, ConfigDeleted(c) PROVE Core'
<1> USE NoneIsNothing, AnswersDiffer
<1>1. /\ answer[c] = Done /\ Ends(c)
      /\ stale' = stale \cup Marked(op[c].conn, op[c].task)
      /\ unsure' = IF hookConn[op[c].hook] # op[c].conn \/ hookTask[op[c].hook] = None
                   THEN unsure \cup {op[c].hook} ELSE unsure
      /\ UNCHANGED <<hookConn, hookTask, unused, configs>>
  BY DEF ConfigDeleted, agentVars
<1>2. /\ Deletes(op[c]) /\ ~Creates(op[c]) /\ op[c].hook \in Hooks /\ op[c].task \in Tasks
  BY <1>1 DEF Deletes, Creates, TypesAndPhases, WebhooksTypeOK, Phases, Phase, Ops
<1>3. BoundTo(op[c].task, op[c].hook)
  BY <1>2 DEF Core, BoundRight, Configured
<1>4. op[c].hook \in stale' \cup unsure'
  BY <1>1, <1>2, <1>3 DEF BoundTo, Marked
<1> QED BY <1>1, <1>2, <1>4, EndsDroppingNone

(* The agent deletes a config.                                             *)
LEMMA DeletesKeeps ==
  ASSUME TypesAndPhases, Core, NEW c \in Calls, Deletes(op[c]), answer[c] = None,
         answer' = [answer EXCEPT ![c] = Done],
         configs' = configs \ {<<op[c].task, op[c].hook>>},
         UNCHANGED <<hookVars, op, first, cut, unsure>>
  PROVE  Core'
<1> USE NoneIsNothing, AnswersDiffer
<1>1. UNCHANGED <<hookConn, hookTask, stale, unused, op, first, cut, unsure>>
  BY DEF hookVars
<1>2. answer'[c] = Done /\ \A d \in Calls \ {c} : answer'[d] = answer[d]
  BY DEF TypesAndPhases, WebhooksTypeOK
<1>3. ~Creates(op[c])
  BY DEF Creates, Deletes
<1>4. \A t, v : Configured(t, v)' => Configured(t, v)
  BY <1>1 DEF Configured
<1>5. \A t, v : Sure(t, v) => Sure(t, v)'
  <2>1. \A v : Deleted(v) => Deleted(v)'
    BY <1>1, <1>2 DEF Deleted
  <2>2. \A t, v : <<t, v>> \in configs => <<t, v>> \in configs' \/ Deleted(v)'
    BY <1>1, <1>2 DEF Deleted
  <2> QED BY <1>1, <2>1, <2>2 DEF Sure
<1>6. \A d \in Calls : Creates(op[d]) => d # c /\ answer'[d] = answer[d]
  BY <1>2, <1>3
<1>7. Owners' /\ Untaken' /\ Unknown' /\ TakenStays'
  BY <1>1, <1>4, <1>6 DEF Core, Owners, Owner, Untaken, NotTaken, Unknown, TakenStays
<1>8. BoundRight' /\ Unbound' /\ Binding'
  BY <1>1, <1>4, <1>5, <1>6 DEF Core, BoundRight, BoundTo, Unbound, Binding
<1>9. Granted'
  <2>1. \A v : Undecided(v) => Undecided(v)'
    BY <1>1, <1>6 DEF Undecided
  <2> QED BY <1>1, <1>5, <2>1 DEF Core, Granted
<1> QED BY <1>7, <1>8, <1>9 DEF Core

LEMMA MoveKeeps ==
  ASSUME TypesAndPhases, Core, NEW c \in Calls, Move(c) PROVE Core'
<1> USE NoneIsNothing, AnswersDiffer
<1>1. /\ op[c] # None /\ op[c].hook = None /\ op[c].kind = "connect" /\ op[c].conn \in Conns
      /\ Ends(c) /\ UNCHANGED <<hookTask, stale, unused, configs, unsure>>
  BY DEF Move, agentVars, TypesAndPhases, WebhooksTypeOK, Phases, Phase, Ops
<1>2. ~Creates(op[c]) /\ ~Deletes(op[c])
  BY <1>1 DEF Creates, Deletes
<1>3. \A w \in Hooks : hookConn'[w] = None <=> hookConn[w] = None
  BY <1>1 DEF Move
<1> QED BY <1>1, <1>2, <1>3, EndsDroppingNone
-----------------------------------------------------------------------------
LEMMA GoesOnKeeps ==
  ASSUME TypesAndPhases, Core, NEW c \in Calls, CallGoesOn(c) PROVE Core'
BY ChooseSame, CreateHookKeeps, ResetThreadSame, SettleSame, RecordKeeps,
   StreamEndsKeeps, DropKeeps, ConfigDeletedKeeps, MoveKeeps, SameKeeps DEF CallGoesOn

LEMMA AgentKeeps ==
  ASSUME TypesAndPhases, Core, ~MayBreak, NEW c \in Calls, Agent(c) PROVE Core'
<1> USE NoneIsNothing, AnswersDiffer
<1>1. pc[c] = "call" => op[c] # None /\ op[c] \in Ops
  BY DEF TypesAndPhases, WebhooksTypeOK, Phases, Phase
<1>2. ASSUME AgentDoes(c) PROVE Core'
  <2>1. /\ pc[c] = "call" /\ answer[c] = None
        /\ UNCHANGED <<hookVars, op, first, cut, unsure>>
    BY <1>2 DEF AgentDoes, Awaiting
  <2>2. op[c].kind # "delete" => c \in first
    BY <1>1, <1>2, <2>1 DEF AgentDoes, TypesAndPhases, Phases, Phase
  <2>3. CASE op[c].kind = "get" /\ Answers(c, Ref(op[c].task)) /\ UNCHANGED configs
    <3>1. op[c].task \in Tasks /\ ~Creates(op[c])
      BY <1>1, <2>1, <2>3 DEF Creates, TypesAndPhases, Phases, Phase, Ops
    <3>2. Ref(op[c].task) \in Refs
      BY <3>1 DEF Ref, TypesAndPhases, WebhooksTypeOK, Refs
    <3> QED BY <1>1, <2>1, <2>3, <3>1, <3>2, HearsKeeps DEF Answers
  <2>4. CASE op[c].kind = "create" /\ Answers(c, Silent) /\ Takes(c, op[c].task)
    <3>1. op[c].task \in Tasks
      BY <1>1, <2>1, <2>4 DEF TypesAndPhases, Phases, Phase, Ops
    <3>2. Silent \in Refs /\ Silent.task = None
      BY DEF Silent, Refs
    <3> QED BY <1>1, <2>1, <2>2, <2>4, <3>1, <3>2, TakesKeeps DEF Answers
  <2>5. CASE /\ op[c].kind = "delete" /\ Answers(c, Done)
             /\ configs' = configs \ {<<op[c].task, op[c].hook>>}
    BY <1>1, <2>1, <2>5, DeletesKeeps DEF Answers, Deletes
  <2> QED BY <1>2, <2>3, <2>4, <2>5 DEF AgentDoes
<1>3. ASSUME AgentStreams(c) PROVE Core'
  <2>1. /\ pc[c] = "call" /\ answer[c] = None /\ c \notin first
        /\ op[c].kind = "stream" /\ op[c].task # None
        /\ answer' = [answer EXCEPT ![c] = Ref(op[c].task)]
        /\ UNCHANGED <<hookVars, op, first, cut, configs, unsure>>
    BY <1>3 DEF AgentStreams, Awaiting, Answers, agentVars
  <2>2. Ref(op[c].task) \in Refs
    BY <1>1, <2>1 DEF Ref, TypesAndPhases, WebhooksTypeOK, Ops, Refs
  <2> QED BY <1>1, <2>1, <2>2, HearsKeeps
<1>4. ASSUME NEW t \in Tasks, NEW x \in Contexts, NEW s \in States,
             AgentTakesMessage(c, t, x, s)
      PROVE  Core'
  <2> DEFINE a == [task |-> t, context |-> x, state |-> s]
  <2>1. /\ pc[c] = "call" /\ answer[c] = None /\ c \in first
        /\ op[c].kind \in {"send", "stream"} /\ Takes(c, t)
        /\ answer' = [answer EXCEPT ![c] = a]
        /\ UNCHANGED <<hookVars, op, first, cut, unsure>>
    BY <1>4 DEF AgentTakesMessage, Awaiting, Answers
  <2>2. a \in Refs /\ a.task = t
    BY DEF Refs
  <2> HIDE DEF a
  <2> QED BY <1>1, <2>1, <2>2, TakesKeeps
<1>5. ASSUME NEW x \in Contexts, AgentReplies(c, x) PROVE Core'
  <2> DEFINE a == [task |-> None, context |-> x, state |-> None]
  <2>1. /\ pc[c] = "call" /\ answer[c] = None /\ c \in first
        /\ op[c].kind \in {"send", "stream"}
        /\ answer' = [answer EXCEPT ![c] = a]
        /\ UNCHANGED <<hookVars, op, first, cut, configs, unsure>>
    BY <1>5 DEF AgentReplies, Awaiting, Answers, agentVars
  <2>2. a \in Refs /\ a.task = None
    BY DEF Refs
  <2> HIDE DEF a
  <2> QED BY <1>1, <2>1, <2>2, HearsKeeps
<1> QED BY <1>2, <1>3, <1>4, <1>5, RejectedKeeps DEF Agent

LEMMA UserKeeps ==
  ASSUME TypesAndPhases, Core, NEW c \in Calls, User(c) PROVE Core'
<1> USE NoneIsNothing
<1>1. CASE Cut(c)
  BY <1>1, OtherSame, SameKeeps
<1>2. ASSUME NEW kind \in {"send", "stream"}, NEW k \in Conns, NEW mode \in Modes,
             NEW push \in BOOLEAN, Send(c, kind, k, mode, push)
      PROVE  Core'
  <2> DEFINE o == [kind |-> kind, conn |-> k,
                   task |-> IF mode = "continue" THEN openTask[k] ELSE None,
                   context |-> IF mode \in {"continue", "newTask"} THEN contextID[k] ELSE None,
                   mode |-> mode, hook |-> None, existing |-> FALSE, old |-> None]
             label == IF push THEN "choose" ELSE "reset"
  <2>1. o \in Ops /\ ~o.existing /\ o.hook = None /\ o.kind # "delete"
    BY DEF TypesAndPhases, WebhooksTypeOK, ThreadTypeOK, Ops, Kinds
  <2>2. Begins(c, label, o) /\ UNCHANGED <<hookVars, agentVars, unsure>>
    BY <1>2 DEF Send
  <2> HIDE DEF o, label
  <2> QED BY <2>1, <2>2, BeginsKeeps
<1>3. ASSUME NEW kind \in {"get", "create", "delete"}, NEW k \in Conns, NEW t \in Tasks,
             NEW w \in Hooks, TaskOperation(c, kind, k, t, w)
      PROVE  Core'
  <2> DEFINE o == [kind |-> kind, conn |-> k, task |-> t, context |-> None,
                   mode |-> "raw", hook |-> IF kind = "delete" THEN w ELSE None,
                   existing |-> FALSE, old |-> None]
             label == IF kind = "create" THEN "create" ELSE "call"
  <2>1. /\ o \in Ops /\ ~o.existing
        /\ o.kind = "delete" => o.hook # None
        /\ o.hook = None \/ (o.kind = "delete" /\ <<o.task, o.hook>> \in configs)
    BY <1>3 DEF TaskOperation, Ops, Kinds, Modes
  <2>2. Begins(c, label, o) /\ UNCHANGED <<hookVars, agentVars, unsure>>
    BY <1>3 DEF TaskOperation
  <2> HIDE DEF o, label
  <2> QED BY <2>1, <2>2, BeginsKeeps
<1>4. ASSUME NEW k \in Conns, NEW old \in Conns \cup {None}, Connect(c, k, old)
      PROVE  Core'
  <2> DEFINE o == [kind |-> "connect", conn |-> k, task |-> None, context |-> None,
                   mode |-> "raw", hook |-> None, existing |-> FALSE, old |-> old]
  <2>1. o \in Ops /\ ~o.existing /\ o.hook = None /\ o.kind # "delete"
    BY DEF Ops, Kinds, Modes
  <2>2. Begins(c, "move", o) /\ UNCHANGED <<hookVars, agentVars, unsure>>
    BY <1>4 DEF Connect
  <2> HIDE DEF o
  <2> QED BY <2>1, <2>2, BeginsKeeps
<1> QED BY <1>1, <1>2, <1>3, <1>4 DEF User

LEMMA NextKeeps == ASSUME HooksInv, ~MayBreak, [WebhooksNext]_vars PROVE HooksInv'
<1>1. TypesAndPhases /\ Core
  BY DEF HooksInv, TypesAndPhases
<1>2. TypesAndPhases'
  BY <1>1, NextTypes
<1>3. Core'
  <2>1. CASE \E c \in Calls : CallGoesOn(c) \/ Agent(c) \/ User(c)
    BY <1>1, <2>1, GoesOnKeeps, AgentKeeps, UserKeeps
  <2>2. CASE \/ UNCHANGED vars
             \/ \E k \in Conns : Disconnect(k)
             \/ \E t \in Tasks, s \in States : TaskMoves(t, s)
             \/ \E n \in Notifiers :
                  Notice(n) \/ \E t \in Tasks, w \in Hooks : Notify(n, t, w)
    BY <1>1, <2>2, OtherSame, SameKeeps
  <2> QED BY <2>1, <2>2 DEF WebhooksNext
<1> QED BY <1>2, <1>3 DEF HooksInv, TypesAndPhases

(* The webhooks, the calls about them (hooks.go, messages.go, tasks.go) *)
(* and the agent's configs agree, as HooksInv says, when no answer is lost.*)
THEOREM WebhooksInvariant == ASSUME ~MayBreak PROVE WebhooksSpec => []HooksInv
BY InitHolds, NextKeeps, PTL DEF WebhooksSpec

(* A webhook that one of the agent's configs points to is never dropped    *)
(* (hooks.drop), unless the connection can break after the agent took it.  *)
THEOREM WebhooksTakenStay == ASSUME ~MayBreak PROVE WebhooksSpec => []TakenStays
<1>1. HooksInv => TakenStays
  BY DEF HooksInv, Core
<1> QED BY <1>1, WebhooksInvariant, PTL

(* A webhook that forTask takes for granted is one that the agent notifies,*)
(* but for calls under way or cut short; and the state has its types.      *)
THEOREM WebhooksSound == ASSUME ~MayBreak PROVE WebhooksSpec => []HooksSound
<1>1. ASSUME HooksInv PROVE HooksSound
  <2>1. ASSUME NEW k \in Conns, NEW t \in Tasks, NEW w \in Usable(k, t)
        PROVE  <<t, w>> \in configs \/ Pending(w) \/ w \in unsure
    <3>1. w \in Hooks /\ hookConn[w] # None /\ hookTask[w] = t /\ w \notin stale
      BY NoneIsNothing DEF Usable
    <3>2. Sure(t, w) \/ Undecided(w)
      BY <1>1, <3>1 DEF HooksInv, Core, Granted
    <3>3. Deleted(w) => Pending(w)
      BY <1>1 DEF Deleted, Deletes, Pending, HooksInv, WebhooksTypeOK, Phases, Phase, Ops
    <3>4. Undecided(w) => Pending(w)
      BY DEF Undecided, Creates, Pending
    <3> QED BY <3>1, <3>2, <3>3, <3>4 DEF Sure
  <2> QED BY <1>1, <2>1 DEF HooksSound, ExistingNotifies, HooksInv
<1> QED BY <1>1, WebhooksInvariant, PTL

(* A message gets a webhook of its own (ChooseNew) only when the task that *)
(* it continues notifies none, but for calls under way or cut short.       *)
THEOREM WebhooksNoSecond == ASSUME ~MayBreak PROVE WebhooksSpec => NoSecondConfig
<1>1. ASSUME HooksInv, NEW c \in Calls, ChooseNew(c), op[c].task # None,
             NEW w \in Hooks, <<op[c].task, w>> \in configs
      PROVE  w \in stale \cup unsure \/ Pending(w) \/ hookConn[w] # op[c].conn
  <2>1. op[c].task \in Tasks /\ Configured(op[c].task, w)
    BY <1>1 DEF Configured, HooksInv, WebhooksTypeOK
  <2>2. BoundTo(op[c].task, w)
    BY <1>1, <2>1 DEF HooksInv, Core, BoundRight
  <2>3. CASE hookTask[w] = op[c].task
    BY <1>1, <2>3 DEF ChooseNew, Usable
  <2>4. CASE hookTask[w] = None
    BY <1>1, <2>1, <2>4 DEF HooksInv, Core, Unbound, Creates, Pending
  <2> QED BY <2>2, <2>3, <2>4 DEF BoundTo
<1>2. HooksInv /\ [WebhooksNext]_vars =>
        [\A c \in Calls : ChooseNew(c) /\ op[c].task # None =>
           \A w \in Hooks : <<op[c].task, w>> \in configs =>
             \/ w \in stale \cup unsure \/ Pending(w)
             \/ hookConn[w] # op[c].conn]_vars
  BY <1>1
<1> QED BY <1>2, WebhooksInvariant, PTL DEF WebhooksSpec, NoSecondConfig
=============================================================================
