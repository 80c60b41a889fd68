------------------------------ MODULE Payload ------------------------------
(***************************************************************************)
(* How the UI reads what an agent sent (src/ui/src/a2a/view.ts, tasks.ts,  *)
(* a2a/form.ts): payloads of three wire shapes, the task a result is       *)
(* about, what is known of the tasks from results and notifications, and   *)
(* forms in data parts.                                                    *)
(*                                                                         *)
(* A JSON object is the set of its fields with their values: a function    *)
(* from field names.  Names of types that v0.3 JSON-RPC writes with "kind" *)
(* are wrappers around the payload in the two ProtoJSON shapes.            *)
(***************************************************************************)
EXTENDS Sequences, Integers, FiniteSets, TLC

CONSTANTS Nothing      \* a missing member

Kinds == {"task", "message", "status-update", "artifact-update"}

Member(obj, name) == IF name \in DOMAIN obj THEN obj[name] ELSE Nothing

(* A member written with its JSON name or its proto name.                  *)
Either(obj, jsonName, protoName) ==
  IF jsonName \in DOMAIN obj THEN obj[jsonName] ELSE Member(obj, protoName)

EmptyObject == [f \in {} |-> Nothing]

AsObject(v) == IF v = Nothing THEN EmptyObject ELSE v

AsList(v) == IF v = Nothing THEN <<>> ELSE v

Shape(version, binding) ==
  IF version = "1.0" THEN "v1"
  ELSE IF binding = "JSONRPC" THEN "rpc" ELSE "proto"

(* ProtoJSON writes the states of a task and the roles as enum names.      *)
EnumNames == ("TASK_STATE_WORKING" :> "working")
          @@ ("TASK_STATE_INPUT_REQUIRED" :> "input-required")
          @@ ("TASK_STATE_COMPLETED" :> "completed")
          @@ ("ROLE_AGENT" :> "agent") @@ ("ROLE_USER" :> "user")

EnumName(v, shape) ==
  IF shape # "rpc" /\ v \in DOMAIN EnumNames THEN EnumNames[v] ELSE v

(* What a part is: v1.0 tells it by the field it has, in this order, v0.3  *)
(* ProtoJSON too, and v0.3 JSON-RPC says it.                               *)
PartKind(part, shape) ==
  LET firstOf(names) == CHOOSE i \in DOMAIN names :
                          /\ names[i][1] \in DOMAIN part
                          /\ \A j \in 1..(i - 1) : names[j][1] \notin DOMAIN part
      byField(names) == IF \E i \in DOMAIN names : names[i][1] \in DOMAIN part
                        THEN names[firstOf(names)][2] ELSE "unknown"
  IN  IF shape = "v1"
      THEN byField(<<<<"text", "text">>, <<"raw", "file">>, <<"url", "file">>,
                     <<"data", "data">>>>)
      ELSE IF shape = "proto"
      THEN byField(<<<<"text", "text">>, <<"file", "file">>,
                     <<"data", "data">>>>)
      ELSE IF Member(part, "kind") \in {"text", "file", "data"}
      THEN part["kind"] ELSE "unknown"

Parts(obj, shape) ==
  LET list == IF shape = "proto" /\ "content" \in DOMAIN obj
              THEN obj["content"] ELSE AsList(Member(obj, "parts"))
  IN  [i \in DOMAIN list |-> PartKind(list[i], shape)]

(* In an artifact, the parts are "parts" in every shape.                   *)
Artifacts(list, shape) ==
  LET kinds(ps) == [j \in DOMAIN ps |-> PartKind(ps[j], shape)]
  IN  [i \in DOMAIN list |->
         [id |-> Either(list[i], "artifactId", "artifact_id"),
          parts |-> kinds(AsList(Member(list[i], "parts")))]]

Unread == [kind |-> "unknown", taskId |-> Nothing, contextId |-> Nothing,
           state |-> Nothing, role |-> Nothing, parts |-> <<>>,
           artifacts |-> <<>>]

(* The view of a payload of a kind, which is the object itself.            *)
Build(shape, kind, obj) ==
  LET status == AsObject(Member(obj, "status"))
      said == IF kind = "message" THEN obj
              ELSE IF kind = "artifact-update" THEN EmptyObject
              ELSE AsObject(Member(status, "message"))
      made == IF kind = "task" THEN AsList(Member(obj, "artifacts"))
              ELSE IF kind = "artifact-update" THEN <<AsObject(Member(obj, "artifact"))>>
              ELSE <<>>
  IN  [kind |-> kind,
       taskId |-> IF kind = "task" THEN Member(obj, "id")
                  ELSE Either(obj, "taskId", "task_id"),
       contextId |-> Either(obj, "contextId", "context_id"),
       state |-> IF kind \in {"message", "artifact-update"} THEN Nothing
                 ELSE EnumName(Member(status, "state"), shape),
       role |-> EnumName(Member(said, "role"), shape),
       parts |-> Parts(said, shape),
       artifacts |-> Artifacts(made, shape)]

Wrappers == ("task" :> "task") @@ ("message" :> "message") @@ ("msg" :> "message")
         @@ ("statusUpdate" :> "status-update")
         @@ ("status_update" :> "status-update")
         @@ ("artifactUpdate" :> "artifact-update")
         @@ ("artifact_update" :> "artifact-update")

(* A result, an event of a stream or a notification; a bare task too, which *)
(* has an id and a status and none of the wrappers' names.                  *)
View(raw, version, binding) ==
  LET shape == Shape(version, binding)
      wrapped == DOMAIN raw \cap DOMAIN Wrappers
      tag == Member(raw, "kind")
  IN  IF shape = "rpc"
      THEN Build(shape, IF tag \in Kinds THEN tag ELSE "unknown", raw)
      ELSE IF wrapped # {}
      THEN LET w == CHOOSE w \in wrapped : TRUE
           IN  Build(shape, Wrappers[w], AsObject(raw[w]))
      ELSE IF {"id", "status"} \subseteq DOMAIN raw
      THEN Build(shape, "task", raw)
      ELSE Unread

(* The task a result is about: None is Nothing here.  A failed call is     *)
(* about none, and neither is a payload without a task.                    *)
RefIn(view) == IF view.taskId = Nothing THEN Nothing ELSE view

TaskRef(ok, raw, version, binding) ==
  IF ~ ok \/ raw = Nothing THEN Nothing ELSE RefIn(View(raw, version, binding))

(* A push notification config: v0.3 nests it beside the task, or beside    *)
(* the name of a resource, which is the pair of the task and the config.   *)
ViewPushConfig(raw) ==
  LET nested == Either(raw, "pushNotificationConfig",
                       "push_notification_config")
      inner == IF nested = Nothing THEN raw ELSE nested
      name == IF "name" \in DOMAIN raw THEN raw["name"]
              ELSE <<Nothing, Nothing>>
      orElse(v, w) == IF v = Nothing THEN w ELSE v
  IN  [id |-> orElse(Member(inner, "id"), name[2]),
       taskId |-> orElse(Either(raw, "taskId", "task_id"), name[1])]
-----------------------------------------------------------------------------
(* Whether a source as new as this one says the state of a task.           *)
Counts(task, n) == n.state # Nothing /\ n.tokenValid /\ n.time >= task.updated

(* One notification more, on what is known of the tasks.                   *)
Noticed(known, n) ==
  LET task == IF n.taskId \in DOMAIN known THEN known[n.taskId]
              ELSE [state |-> Nothing, context |-> Nothing, updated |-> 0,
                    notifications |-> 0]
      seen == [task EXCEPT
        !.notifications = @ + 1,
        !.state = IF Counts(task, n) THEN n.state ELSE @,
        !.updated = IF Counts(task, n) THEN n.time ELSE @,
        !.context = IF @ = Nothing THEN n.context ELSE @]
  IN  IF n.taskId = Nothing THEN known ELSE (n.taskId :> seen) @@ known

(* The tasks seen in results, and those the notifications are about, which *)
(* are taken in the order they came.                                       *)
KnownTasks(seen, notifications) ==
  LET known[i \in 0..Len(notifications)] ==
        IF i = 0 THEN seen ELSE Noticed(known[i - 1], notifications[i])
  IN  known[Len(notifications)]
-----------------------------------------------------------------------------
(* A form is the type of each of its fields; inputs are texts, or TRUE and *)
(* FALSE as "on" and "off" for checkboxes.                                 *)
InputType(schemaType) ==
  IF schemaType = "boolean" THEN "checkbox"
  ELSE IF schemaType \in {"number", "integer"} THEN "number" ELSE "text"

ReadForm(data) ==
  IF Member(data, "type") # "form" \/ Member(data, "form") = Nothing
  THEN Nothing
  ELSE [f \in DOMAIN data["form"] |->
          [type |-> InputType(data["form"][f]),
           initial |-> IF f \in DOMAIN AsObject(Member(data, "form_data"))
                       THEN data["form_data"][f]
                       ELSE IF InputType(data["form"][f]) = "checkbox"
                       THEN "off" ELSE ""]]

(* The values to send: a number that is not one is left out.               *)
FormValues(form, inputs, Numeric) ==
  LET sent == {f \in DOMAIN form :
                 form[f].type = "number" => inputs[f] \in Numeric}
  IN  [f \in sent |-> inputs[f]]

(* The inputs that show the values again.                                  *)
FormInputs(form, values) ==
  [f \in DOMAIN form |-> IF f \in DOMAIN values THEN values[f]
                         ELSE IF form[f].type = "checkbox" THEN "off" ELSE ""]
=============================================================================
