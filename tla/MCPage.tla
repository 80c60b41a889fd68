------------------------------- MODULE MCPage -------------------------------
(* The values of Page's constants for TLC. *)
EXTENDS Page, TLC

Offer(k, s) == [key |-> k, supported |-> s]

(* The list: three references that lead to one card, cards with one and    *)
(* two interfaces, and an endpoint that is typed in.                       *)
MCRefs == {"u1", "u2", "u3"}
MCLeads == [r \in MCRefs |-> "u1"]
MCOffers == {<<Offer("i1", TRUE)>>, <<Offer("i2", FALSE), Offer("i1", TRUE)>>}
MCCustom == {Offer("c1", TRUE)}
Listing(u, c, id) ==
  [cardUrl |-> u, card |-> c, identifier |-> id, saved |-> None]
MCListings == << <<Listing("u1", None, "u1"), Listing(None, "k1", "n")>> >>
MCShared == <<Listing("u2", None, "u2")>>
Card(r) == [endpoint |-> None, ref |-> r, prefer |-> <<"i1">>]
MCStartups ==
  {None, [endpoint |-> Offer("c1", TRUE), ref |-> None, prefer |-> None],
   Card("u3")}
MCSharedStartups == {Card("u2")}

(* Settings: none, three headers given to the program, of which two are    *)
(* secrets, and three saved before, whose secrets are lost.                *)
Given(name, value, ref) == [name |-> name, value |-> value, ref |-> ref]
MCGiven ==
  SettingsFromHeaders(<<Given("h", "", <<1, 1>>), Given("h", "p", None),
                        Given("h", "", <<1, 2>>)>>)
MCLost ==
  LET lost == Header("h", "", TRUE, None, TRUE)
  IN  [DefaultSettings EXCEPT !.headers = <<lost, lost, lost>>]
MCStored ==
  {[settings |-> s, means |-> NoMeans(s), vault |-> <<>>] :
     s \in {DefaultSettings, MCLost}}
  \cup {[settings |-> MCGiven, vault |-> <<"x", "y">>,
         means |-> [auth |-> "", headers |-> <<"x", "", "y">>]]}

(* The chat: a form with a field of each type, and another data part.      *)
MCTranscript ==
  "f" :> ("type" :> "form" @@ "form_data" :> ("t" :> "x")
          @@ "form" :> ("n" :> "integer" @@ "b" :> "boolean" @@ "t" :> "string"))
  @@ "d" :> ("type" :> "other")

MCWires == {<<"1.0", "GRPC">>, <<"0.3", "JSONRPC">>, <<"0.3", "GRPC">>}

MCDelegable ==
  <<[status |-> "done", interfaces |-> <<Offer("i", TRUE)>>],
    [status |-> "done", interfaces |-> <<Offer("j", TRUE)>>]>>

(* Streams: every text of five marks, and longer ones with the other       *)
(* fields, a comment, a byte order mark and an event the end cuts.         *)
MCStreams ==
  [1..6 -> {"data", ":", "1", "CR", "LF"}] \cup
  {<<"BOM", "id", ":", "1", "CR", "LF", "data", ":", " ", "1", "LF", "LF",
     "data", "LF", "CR">>,
   <<"event", ":", "1", "LF", "LF", "data", "LF", "BOM", "LF", "LF">>,
   <<"retry", ":", "1", "LF", ":", "x", "CR", "data", "CR", "LF", "CR", "LF",
     "data">>}

(* The editor: the parts of the two versions' schemas that its cases need. *)
Node(types) ==
  [types |-> types, properties |-> [n \in {} |-> "Text"], required |-> <<>>,
   additional |-> {}, items |-> {}, anyOf |-> {}, const |-> <<>>, values |-> {}]
Props(f) == [Node({"object"}) EXCEPT !.properties = f]
Schemas1 ==
  [Card |-> Props(<<"name">> :> "Name" @@ <<"skills">> :> "Skills"
                  @@ <<"securitySchemes">> :> "Schemes"
                  @@ <<"securityRequirements">> :> "Requirements"),
   Name |-> [Node({"string"}) EXCEPT !.values = {Quoted(<<"n">>)}],
   Text |-> Node({"string"}),
   Skills |-> [Node({"array"}) EXCEPT !.items = {"Skill"}],
   Skill |-> [Props(<<"id">> :> "Text" @@ <<"tags">> :> "Skills")
                EXCEPT !.required = <<<<"id">>, <<"tags">>>>],
   Schemes |-> [Node({"object"}) EXCEPT !.additional = {"Scheme"}],
   Scheme |-> Props(<<"key", "Scheme">> :> "KeyScheme"
                    @@ <<"http", "Scheme">> :> "HttpScheme"),
   KeyScheme |-> [Props(<<"in">> :> "Text") EXCEPT !.required = <<<<"in">>>>],
   HttpScheme |-> Props(<<"scheme">> :> "Text"),
   Requirements |-> [Node({"array"}) EXCEPT !.items = {"Requirement"}],
   Requirement |-> Props(<<"schemes">> :> "Required"),
   Required |-> [Node({"object"}) EXCEPT !.additional = {"Text"}]]
Schemas03 ==
  [Card |-> Props(<<"url">> :> "Text" @@ <<"streaming">> :> "Flag"
                  @@ <<"securitySchemes">> :> "Schemes"
                  @@ <<"params">> :> "Params"),
   Text |-> Node({"string"}), Flag |-> Node({"boolean"}),
   Schemes |-> [Node({"object"}) EXCEPT !.additional = {"Scheme"}],
   Scheme |-> [Node({}) EXCEPT !.anyOf = {"KeyScheme", "HttpScheme"}],
   KeyScheme |-> [Props(<<"type">> :> "KeyType" @@ <<"in">> :> "Text")
                    EXCEPT !.required = <<<<"type">>, <<"in">>>>],
   KeyType |-> [Node({"string"}) EXCEPT !.const = Quoted(<<"key">>)],
   HttpScheme |-> Props(<<"scheme">> :> "Text"),
   Params |-> [Node({"object"}) EXCEPT !.additional = {"Any"}],
   Any |-> Node({})]
MCSchemas == "1.0" :> Schemas1 @@ "0.3" :> Schemas03
MCTemplates ==
  "1.0" :> <<"{", "}">>
  @@ "0.3" :> <<"{">> \o Quoted(<<"url">>) \o <<":", "Q", "Q", "}">>

(* Texts to edit: an object, the schemes or the skills, with up to two     *)
(* pieces of members or values in it, whole or half typed.                 *)
Field(n, v) == Quoted(n) \o <<":">> \o v
Pieces ==
  {<<" ">>, <<",">>, <<"Q">>, Quoted(<<"x">>), Field(<<"x">>, <<"0">>),
   Field(<<"key">>, <<"{", "}">>), <<"0">>}
Firsts == {Quoted(<<"x">>), Field(<<"x">>, <<"0">>)}
Inner == {<<>>} \cup Pieces \cup {p \o q : p \in Firsts, q \in Pieces}
Outer ==
  {<< <<"{">>, <<"}">> >>,
   << <<"{">> \o Quoted(<<"securitySchemes">>) \o <<":", "{">>, <<"}", "}">> >>,
   << <<"{">> \o Quoted(<<"skills">>) \o <<":", "[">>, <<"]", "}">> >>}
Old == Field(<<"protocolVersion">>, Quoted(<<"0.">>)) \o <<",">>
MCDrafts ==
  {o[1] \o i \o o[2] : o \in Outer, i \in Inner}
  \cup {<<"{">> \o Old \o i \o <<"}">> : i \in {<<>>, <<"Q">>}}
MCReports == {{<<Key(<<"name">>)>>}}
=============================================================================
