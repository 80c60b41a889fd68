----------------------------- MODULE CardEditor -----------------------------
(***************************************************************************)
(* The editor of agent cards (src/ui/src/editor/cardEditor.ts, schema.ts,  *)
(* templates.ts and components/CardEditorPanel.tsx): it completes names    *)
(* and values from the schema of the card's version, also in a text that   *)
(* is not JSON yet, and has the backend check the text once it is.         *)
(*                                                                         *)
(* A completion's list stays open while the user types on, so an option    *)
(* can be older than the text it is applied to.  Checks answer in any      *)
(* order.  Layout is left out of what templates insert.  In a template "_" *)
(* marks a field that the cursor goes through, ${} in the code: the "$"    *)
(* after it stands for a value of the user's, and is selected as a default *)
(* is, until it is typed over.                                             *)
(***************************************************************************)
EXTENDS JsonScan, Sequences, Integers, SequencesExt, FiniteSets

CONSTANTS Drafts,       \* texts the editor may start from
          Schemas,      \* for a version, its definitions; "Card" is the root
          Templates,    \* for a version, the card a new one starts from
          Typeable,     \* characters the user types
          Reports,      \* sets of paths a check may find something at
          NoCheck,      \* stands for the text when no check has come in
          LastEdit      \* bound on edits

VARIABLES
  text,       \* the document
  anchor,     \* where the selection starts
  at,         \* where it ends: the cursor's position
  list,       \* the options of the open list, or {}
  saved,      \* the text as it was last saved
  due,        \* the timer that checks the text runs
  asked,      \* texts whose check was not answered
  checked,    \* the last check that came in
  edits

editorVars == <<text, anchor, at, list, saved, due, asked, checked, edits>>
-----------------------------------------------------------------------------
(* JSON.parse, as the parse of the panel and the reference for what a      *)
(* completion leaves behind: a reader with a stack of open brackets.       *)
Literals == {"$", "true", "false", "0"}
Matching == [c \in Openers |-> IF c = "{" THEN "}" ELSE "]"]

Wanted(stack) == IF stack = <<>> THEN "end" ELSE "next"

JsonStep(p, c) ==
  LET bad == [p EXCEPT !.want = "nothing"]
      takesValue == p.want \in {"value", "item"}
  IN  IF p.inside # "none"
      THEN IF c = "NL" THEN bad
           ELSE IF c # "Q" THEN p
           ELSE [p EXCEPT !.inside = "none",
                          !.want = IF p.inside = "key" THEN "colon"
                                   ELSE Wanted(p.stack)]
      ELSE IF c \in Spaces THEN [p EXCEPT !.word = FALSE]
      ELSE IF c = "Q" /\ takesValue THEN [p EXCEPT !.inside = "value"]
      ELSE IF c = "Q" /\ p.want \in {"key", "member"}
      THEN [p EXCEPT !.inside = "key"]
      ELSE IF c \in Openers /\ takesValue
      THEN [p EXCEPT !.stack = Append(@, c), !.word = FALSE,
                     !.want = IF c = "{" THEN "member" ELSE "item"]
      ELSE IF c \in Closers /\ p.stack # <<>>
      THEN IF Matching[Last(p.stack)] = c
              /\ p.want \in {"next", IF c = "}" THEN "member" ELSE "item"}
           THEN [p EXCEPT !.stack = Front(@), !.word = FALSE,
                          !.want = Wanted(Front(p.stack))]
           ELSE bad
      ELSE IF c = ":" /\ p.want = "colon" THEN [p EXCEPT !.want = "value"]
      ELSE IF c = "," /\ p.want = "next"
      THEN [p EXCEPT !.word = FALSE,
                     !.want = IF Last(p.stack) = "{" THEN "key" ELSE "value"]
      ELSE IF c \in Literals /\ takesValue /\ ~ p.word
      THEN [p EXCEPT !.word = TRUE, !.want = Wanted(p.stack)]
      ELSE bad

IsJson(doc) ==
  LET start == [want |-> "value", stack |-> <<>>, inside |-> "none", word |-> FALSE]
      read[n \in 0..Len(doc)] ==
        IF n = 0 THEN start ELSE JsonStep(read[n - 1], doc[n])
  IN  read[Len(doc)].want = "end" /\ read[Len(doc)].inside = "none"

NextChar(after) ==
  LET left == SelectInSeq(after, LAMBDA c : c \notin Spaces)
  IN  IF left = 0 THEN "" ELSE after[left]

(* The card must be an object.                                             *)
IsCard(doc) == NextChar(doc) = "{" /\ IsJson(doc)

(* The version of a card, from the top-level fields the text has so far.   *)
IsOld(doc, s) ==
  /\ SubSeq(doc, s.from + 1, s.from + 2) = <<"Q", "0.">>
  /\ s.to > s.from + 2 /\ doc[s.to] = "Q"

SaysOld(doc, spans) ==
  \E i \in DOMAIN spans :
    /\ IsOld(doc, spans[i])
    /\ spans[i].path[1].key = <<"protocolVersion">>
    /\ \A j \in (i + 1)..Len(spans) : spans[j].path # spans[i].path

VersionFrom(doc, spans) ==
  LET top == {s.path[1].key : s \in ToSet(spans)}
  IN  IF /\ <<"supportedInterfaces">> \notin top
         /\ \/ top \cap {<<"url">>, <<"preferredTransport">>,
                       <<"additionalInterfaces">>} # {}
            \/ SaysOld(doc, spans)
      THEN "0.3" ELSE "1.0"

VersionOf(doc) ==
  VersionFrom(doc, SelectSeq(SpansOf(doc), LAMBDA s : Len(s.path) = 1))
-----------------------------------------------------------------------------
(* schema.ts.  A schema is the name of a definition, with the types,       *)
(* properties, required ones, values of additional ones, items, members of *)
(* an anyOf, constant and literal values the definition has.               *)
Alternatives(defs, s) == IF defs[s].anyOf = {} THEN {s} ELSE defs[s].anyOf

SchemasAt(defs, path) ==
  LET below(s, step) ==
        IF step.key = <<"item">> THEN defs[s].items
        ELSE IF step.key \in DOMAIN defs[s].properties
        THEN {defs[s].properties[step.key]}
        ELSE defs[s].additional
      down(here, step) ==
        UNION {Alternatives(defs, n) : n \in UNION {below(s, step) : s \in here}}
  IN  FoldLeft(down, {"Card"}, path)

Quoted(name) == <<"Q">> \o name \o <<"Q">>
Unquoted(string) == SubSeq(string, 2, Len(string) - 1)

(* A constant, or a template of the schema's type to fill in; objects has  *)
(* the templates of objects.                                               *)
ValueOf(defs, s, objects) ==
  IF defs[s].const # <<>> THEN defs[s].const
  ELSE IF "string" \in defs[s].types THEN <<"Q", "_", "Q">>
  ELSE IF "array" \in defs[s].types THEN <<"[", "_", "]">>
  ELSE IF "object" \in defs[s].types THEN objects[s]
  ELSE IF "boolean" \in defs[s].types THEN <<"_", "false">>
  ELSE <<"_", "$">>

(* An object with its required properties, or its only one, and the same   *)
(* of the objects below it, a few levels deep.                             *)
ObjectTemplates(defs) ==
  LET names(d) == IF d.required # <<>> THEN d.required
                  ELSE IF Cardinality(DOMAIN d.properties) = 1
                  THEN SetToSeq(DOMAIN d.properties)
                  ELSE <<>>
      member(d, i, objects) ==
        (IF i = 1 THEN <<>> ELSE <<",">>) \o Quoted(names(d)[i]) \o <<":">>
          \o ValueOf(defs, d.properties[names(d)[i]], objects)
      object(d, objects) ==
        <<"{">> \o FlattenSeq([i \in DOMAIN names(d) |-> member(d, i, objects)])
                \o <<"}">>
      below[depth \in 0..3] ==
        [s \in DOMAIN defs |-> IF names(defs[s]) = <<>> \/ depth > 2
                               THEN <<"{", "_", "}">>
                               ELSE object(defs[s], below[depth + 1])]
  IN  below[0]

ObjectsOf == [v \in DOMAIN Schemas |-> ObjectTemplates(Schemas[v])]

ObjectTemplate(version, s) == ObjectsOf[version][s]

ValueTemplate(version, s) == ValueOf(Schemas[version], s, ObjectsOf[version])

MapValuesAt(defs, path) ==
  UNION {UNION {Alternatives(defs, n) : n \in defs[s].additional} :
           s \in SchemasAt(defs, path)}

(* The values of a map come in kinds: several schemas, each named by its   *)
(* constant type, or the fields of an object that holds one of them, whose *)
(* names share an end.                                                     *)
SchemaKind(version, s) ==
  LET defs == Schemas[version]
      type == defs[s].properties[<<"type">>]
      name == IF <<"type">> \in DOMAIN defs[s].properties /\ defs[type].const # <<>>
              THEN Unquoted(defs[type].const) ELSE <<s>>
  IN  [name |-> name, template |-> ObjectTemplate(version, s)]

MemberKinds(version, schema) ==
  LET members == schema.properties
      ends == {Last(name) : name \in DOMAIN members}
      short(name) == IF Cardinality(ends) = 1 THEN Front(name) ELSE name
  IN  IF /\ schema.required = <<>> /\ Cardinality(DOMAIN members) > 1
         /\ \A k \in DOMAIN members : "object" \in Schemas[version][members[k]].types
      THEN {[name |-> short(k),
             template |-> <<"{">> \o Quoted(k) \o <<":">>
                            \o ObjectTemplate(version, members[k]) \o <<"}">>] :
              k \in DOMAIN members}
      ELSE {}

EntryKinds(version, values) ==
  IF Cardinality(values) > 1 THEN {SchemaKind(version, s) : s \in values}
  ELSE UNION {MemberKinds(version, Schemas[version][s]) : s \in values}

StepBack(path, n) == IF Len(path) < n THEN <<"">> ELSE path[Len(path) - n + 1].key

(* The keys of a security requirement name the card's security schemes.    *)
NamesSchemes(version, path) ==
  IF version = "1.0"
  THEN StepBack(path, 1) = <<"schemes">>
       /\ StepBack(path, 3) = <<"securityRequirements">>
  ELSE StepBack(path, 2) = <<"security">>

ValuesAt(version, path) ==
  LET defs == Schemas[version]
      literals(s) ==
        defs[s].values
          \cup (IF defs[s].const = <<>> THEN {} ELSE {defs[s].const})
          \cup (IF "boolean" \in defs[s].types THEN {<<"true">>, <<"false">>} ELSE {})
      empty(s) ==
        (IF "object" \in defs[s].types THEN {ObjectTemplate(version, s)} ELSE {})
          \cup (IF "array" \in defs[s].types THEN {<<"[", "_", "]">>} ELSE {})
  IN  UNION {literals(s) \cup empty(s) : s \in SchemasAt(defs, path)}
-----------------------------------------------------------------------------
(* cardEditor.ts.  An option is a key and a value, or a value alone.       *)
(* `own' is the name the user types, which no schema has.                  *)
Property(name, value, reopen) ==
  [key |-> Quoted(name), value |-> value, reopen |-> reopen, own |-> FALSE]

Value(value) == [key |-> <<>>, value |-> value, reopen |-> FALSE, own |-> FALSE]

DeclaredSchemes(doc) ==
  {s.path[2].key : s \in {s \in ToSet(SpansOf(doc)) :
     IF Len(s.path) # 2 THEN FALSE
     ELSE s.key # <<>> /\ s.path[1].key = <<"securitySchemes">>}}

FreeName(name, taken) ==
  IF name \notin taken THEN name
  ELSE IF Append(name, "2") \notin taken THEN Append(name, "2")
  ELSE Append(name, "3")

EntriesOf(version, spot, doc, values, template) ==
  IF NamesSchemes(version, spot.path)
  THEN {Property(name, template, FALSE) : name \in DeclaredSchemes(doc) \ spot.keys}
  ELSE {Property(FreeName(k.name, spot.keys), k.template, FALSE) :
          k \in EntryKinds(version, values)}

(* With an entry of the name that is typed, if there is no such one.       *)
WithOwn(known, spot, template) ==
  IF spot.text # <<>> /\ \A o \in known : o.key # Quoted(spot.text)
  THEN known \cup {[Property(spot.text, template, FALSE) EXCEPT !.own = TRUE]}
  ELSE known

EntriesFrom(version, spot, doc, values, template) ==
  WithOwn(EntriesOf(version, spot, doc, values, template), spot, template)

EntryOptions(version, spot, doc) ==
  LET values == MapValuesAt(Schemas[version], spot.path)
  IN  IF values = {} THEN {}
      ELSE EntriesFrom(version, spot, doc, values,
                       ValueTemplate(version, CHOOSE s \in values : TRUE))

KeyOptions(version, spot, doc) ==
  LET defs == Schemas[version]
      field(s, name) ==
        LET p == defs[s].properties[name]
            value == ValueTemplate(version, p)
        IN  Property(name, value, value = <<"Q", "_", "Q">> /\ defs[p].values # {})
  IN  UNION {{field(s, name) : name \in DOMAIN defs[s].properties \ spot.keys} :
               s \in SchemasAt(defs, spot.path)}
      \cup EntryOptions(version, spot, doc)

ValueOptions(version, spot) ==
  {Value(v) : v \in ValuesAt(version, spot.path)}

(* The list opens by itself in a token, and anywhere when asked for.       *)
OptionsAt(doc, version, spot, explicit) ==
  IF spot.kind = "none" THEN {}
  ELSE IF ~ spot.quoted /\ spot.text = <<>> /\ ~ explicit THEN {}
  ELSE IF spot.kind = "key" THEN KeyOptions(version, spot, doc)
  ELSE IF spot.path = <<>> THEN {}
  ELSE ValueOptions(version, spot)

CompleteCard(doc, pos, explicit) ==
  OptionsAt(doc, VersionOf(doc), SpotAt(doc, pos), explicit)

(* A comma for the value being inserted, when another property follows it. *)
CommaBefore(after) == IF NextChar(after) = "Q" THEN <<",">> ELSE <<>>

After(doc, spot) == SubSeq(doc, spot.to + 1, Len(doc))

(* A key that is renamed keeps its value.                                  *)
Renames(option, doc, spot) ==
  option.key # <<>> /\ NextChar(After(doc, spot)) = ":"

(* The key an option puts in as it is, and the template that follows it.   *)
KeyText(option, doc, spot) ==
  IF option.key = <<>> \/ Renames(option, doc, spot) THEN option.key
  ELSE Append(option.key, ":")

Template(option, doc, spot) ==
  IF Renames(option, doc, spot) THEN <<>>
  ELSE option.value \o CommaBefore(After(doc, spot))

(* CodeMirror's snippet: a template without its marks; what it selects,    *)
(* put in at a position, is the default of its first field.                *)
Filled(template) == SelectSeq(template, LAMBDA c : c # "_")

FirstField(template, from) ==
  LET field == from + SelectInSeq(template, LAMBDA c : c = "_") - 1
      hasDefault == template[field - from + 2] \in {"$", "false"}
  IN  [anchor |-> field, at |-> IF hasDefault THEN field + 1 ELSE field]

(* A position in what is replaced, as CodeMirror moves it: the end stays   *)
(* the end, and all else comes to be the start.                            *)
Moved(pos, from, to, end) == IF from < to /\ pos = to THEN end ELSE from

(* The text with the token's text replaced, and what is selected then.     *)
Put(before, option, doc, spot) ==
  LET key == KeyText(option, doc, spot)
      template == Template(option, doc, spot)
      start == before \o key
      end == start \o Filled(template)
      selected ==
        IF Contains(template, "_") THEN FirstField(template, Len(start))
        ELSE IF key = <<>> /\ Len(before) = spot.from
        THEN [anchor |-> Moved(anchor, spot.from, spot.to, Len(end)),
              at |-> Moved(at, spot.from, spot.to, Len(end))]
        ELSE [anchor |-> Len(start), at |-> Len(start)]
  IN  [text |-> end \o After(doc, spot), anchor |-> selected.anchor,
       at |-> selected.at]

(* Mutant: the comma that is missing before the token stays missing.       *)
AppliedAlone(option, doc, spot) == Put(SubSeq(doc, 1, spot.from), option, doc, spot)

(* An option replaces the whole token at the cursor.                       *)
Applied(option, doc, spot) ==
  Put(IF spot.comma = Undefined THEN SubSeq(doc, 1, spot.from)
      ELSE SubSeq(doc, 1, spot.comma) \o <<",">>
             \o SubSeq(doc, spot.comma + 1, spot.from),
      option, doc, spot)
-----------------------------------------------------------------------------
EditorInit ==
  /\ text \in Drafts /\ at \in 0..Len(text) /\ anchor = at /\ list = {}
  /\ saved = text /\ due = TRUE /\ asked = {} /\ edits = 0
  /\ checked = [text |-> NoCheck, result |-> {}]

Edited ==
  /\ edits < LastEdit /\ edits' = edits + 1

(* The text changes: the timer starts anew.                                *)
Changes(doc, from, to) ==
  /\ text' = doc /\ anchor' = from /\ at' = to
  /\ due' = (doc # text \/ due)

(* What is selected is typed over.                                         *)
TypeChar ==
  /\ Edited
  /\ \E c \in Typeable :
       LET doc == SubSeq(text, 1, anchor) \o <<c>> \o SubSeq(text, at + 1, Len(text))
       IN  /\ Changes(doc, anchor + 1, anchor + 1)
           /\ list' = IF list # {} /\ IsWordChar(c) THEN list
                      ELSE CompleteCard(doc, anchor + 1, FALSE)
  /\ UNCHANGED <<saved, asked, checked>>

AskSuggestions ==
  /\ Edited /\ list = {}
  /\ list' = CompleteCard(text, at, TRUE)
  /\ UNCHANGED <<text, anchor, at, saved, due, asked, checked>>

(* Where nothing can go any more, nothing is put in.  The values a new     *)
(* property may have are listed where its first field is.                  *)
Accept(option, spot) ==
  \E done \in {IF spot.kind = "none"
                THEN [text |-> text, anchor |-> anchor, at |-> at]
                ELSE Applied(option, text, spot)} :
    /\ Changes(done.text, done.anchor, done.at)
    /\ list' = IF spot.kind = "none" THEN list
               ELSE IF option.reopen /\ ~ Renames(option, text, spot)
               THEN CompleteCard(done.text, done.at, TRUE) ELSE {}

AcceptOption ==
  /\ Edited
  /\ \E option \in list : Accept(option, SpotAt(text, at))
  /\ UNCHANGED <<saved, asked, checked>>

(* Parsed and checked text.                                                *)
Current == checked.text = text /\ IsCard(text)

Findings == IF Current THEN checked.result ELSE {}

(* A finding's key or value is selected in the text.                       *)
RevealPath ==
  /\ Edited
  /\ \E path \in Findings :
       LET range == Locate(text, SpansOf(text), path)
       IN  range # <<>> /\ anchor' = range[1] /\ at' = range[2]
  /\ list' = {}
  /\ UNCHANGED <<text, saved, due, asked, checked>>

(* A text from outside takes the place of the whole text.                  *)
Replaced(doc) ==
  LET move(pos) == IF doc = text THEN pos ELSE Moved(pos, 0, Len(text), Len(doc))
  IN  Changes(doc, move(anchor), move(at))

StartOver ==
  /\ Edited
  /\ \E v \in DOMAIN Templates : Replaced(Templates[v])
  /\ list' = {} /\ UNCHANGED <<saved, asked, checked>>

Discard ==
  /\ text # saved /\ Replaced(saved)
  /\ list' = {} /\ UNCHANGED <<saved, asked, checked, edits>>

Save ==
  /\ text # saved /\ IsCard(text)
  /\ saved' = text
  /\ UNCHANGED <<text, anchor, at, list, due, asked, checked, edits>>

(* The timer: a text that is not a card needs no check.                    *)
CheckText ==
  /\ due /\ due' = FALSE
  /\ IF IsCard(text) THEN asked' = asked \cup {text} /\ UNCHANGED checked
     ELSE checked' = [text |-> text, result |-> checked.result] /\ UNCHANGED asked
  /\ UNCHANGED <<text, anchor, at, list, saved, edits>>

(* A check's answer, which may be an error, is kept if it is still about   *)
(* the text.                                                               *)
Kept(doc) == doc = text

CheckAnswers ==
  /\ \E doc \in asked, result \in Reports \cup {{}} :
       /\ asked' = asked \ {doc}
       /\ checked' = IF Kept(doc) THEN [text |-> doc, result |-> result]
                     ELSE checked
  /\ UNCHANGED <<text, anchor, at, list, saved, due, edits>>

EditorNext ==
  \/ TypeChar \/ AskSuggestions \/ AcceptOption \/ RevealPath \/ StartOver
  \/ Discard \/ Save \/ CheckText \/ CheckAnswers
-----------------------------------------------------------------------------
(* What follows the cursor is not a value an array has without a comma: a  *)
(* completion adds one only before a string.                               *)
Separable(doc, spot) ==
  NextChar(After(doc, spot)) \in Closers \cup {"", "Q", ",", ":"}

(* Some choice of the commas around the option makes the text JSON.        *)
Fits(option, doc, spot) ==
  LET commas == {<<>>, <<",">>}
      value == Filled(option.value)
      inserts == {option.key \o <<":">> \o value, option.key}
  IN  /\ Separable(doc, spot)
      /\ \E b, a \in commas :
           \E i \in IF option.key = <<>> THEN {value} ELSE inserts :
             IsJson(SubSeq(doc, 1, spot.from) \o b \o i \o a \o After(doc, spot))

HasTwins(all) ==
  \E i, j \in DOMAIN all : i # j /\ all[i].path = all[j].path

(* Right before a key, that key is the one being typed; and a key typed    *)
(* before another one without a comma hides it, for it is read as what     *)
(* comes after the first key.                                              *)
MissesNext(doc, spot) ==
  IF spot.from < spot.to THEN NextChar(After(doc, spot)) = "Q"
  ELSE After(doc, spot) # <<>> /\ Head(After(doc, spot)) = "Q"

FitsWell(doc, spot) ==
  \A option \in list : IsJson(Applied(option, doc, spot).text) \/ ~ Fits(option, doc, spot)

NoNewTwins(doc, spot) ==
  \A option \in {o \in list : ~ o.own} :
    \A done \in {Applied(option, doc, spot).text} :
      HasTwins(SpansOf(done)) /\ IsJson(done)
        => HasTwins(SpansOf(doc)) \/ MissesNext(doc, spot)

(* An option that can make the text JSON does: the commas it needs, before *)
(* it and after it, are there, and no others, whatever the user typed      *)
(* since the list opened (applySnippet and property of cardEditor.ts).     *)
CompletionKeepsJSON ==
  list # {} =>
    \A spot \in {SpotAt(text, at)} : spot.kind # "none" => FitsWell(text, spot)

(* But where MissesNext says, no option but the name the user types gives  *)
(* an object a key it has before or after the cursor (keyOptions, spotAt). *)
NoTwinKeys ==
  list # {} =>
    \A spot \in {SpotAt(text, at)} : spot.kind # "none" => NoNewTwins(text, spot)

(* At rest, the last check that came in is of the text as it is, however   *)
(* late the answers of earlier checks were (the effect of CardEditorPanel  *)
(* that checks the text).                                                  *)
CheckedAtRest ==
  due \/ text \in asked \/ checked.text = text
=============================================================================
