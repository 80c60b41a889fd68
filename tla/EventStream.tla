----------------------------- MODULE EventStream -----------------------------
(***************************************************************************)
(* The parser of the UI's event streams (src/ui/src/sse.ts): chunks of     *)
(* text come in, split anywhere, and the events of the whole text come     *)
(* out, each as soon as its blank line arrives.                            *)
(*                                                                         *)
(* A character is "CR", "LF", "BOM", ":", " ", a digit, another one of a   *)
(* value, or one that stands for the name of a field.                      *)
(***************************************************************************)
EXTENDS Sequences, Integers, SequencesExt

CONSTANTS Streams,      \* texts a stream may have
          LastChunk     \* bound on the characters of a chunk

ASSUME ChunksAreBounded == LastChunk \in Nat

ASSUME StreamsAreTexts == Streams \subseteq Seq(STRING)

VARIABLES
  stream,     \* the text of the stream that is not read yet
  received,   \* what was read of it
  parser,     \* the fields of SSEParser
  emitted     \* the events given to onEvent

streamVars == <<stream, received, parser, emitted>>

LineEnds == {"CR", "LF"}
FieldNames == {"data", "event", "id", "retry"}
Digits == {"1"}

NoText == <<"unset">>

NoEvent == [data |-> <<>>, type |-> <<>>]

NewParser ==
  [buffer |-> <<>>, started |-> FALSE, pendingCR |-> FALSE,
   event |-> NoEvent, lastId |-> NoText, retry |-> NoText, out |-> <<>>]

Dropping(text, c) ==
  IF text # <<>> /\ Head(text) = c THEN Tail(text) ELSE text
-----------------------------------------------------------------------------
(* Dispatching: what an event had so far is over, and one without data was *)
(* none.  The ID and the retry time stay for the next one.                 *)
Dispatch(p) ==
  [p EXCEPT !.event = NoEvent,
            !.out = IF p.event.data = <<>> THEN @
                    ELSE Append(@, [type |-> p.event.type, data |-> p.event.data,
                                    id |-> p.lastId, retry |-> p.retry])]

Upto(line, c) == SelectInSeq(line, LAMBDA x : x = c)

(* A line: a field with a value, or a comment, which starts with a colon.  *)
ProcessLine(p, line) ==
  LET colon == Upto(line, ":")
      field == IF colon = 0 THEN line ELSE SubSeq(line, 1, colon - 1)
      value == IF colon = 0 THEN <<>>
               ELSE Dropping(SubSeq(line, colon + 1, Len(line)), " ")
      isNumber == value # <<>> /\ \A i \in DOMAIN value : value[i] \in Digits
  IN  IF line = <<>> THEN Dispatch(p)
      ELSE IF field = <<"data">> THEN [p EXCEPT !.event.data = Append(@, value)]
      ELSE IF field = <<"event">> THEN [p EXCEPT !.event.type = value]
      ELSE IF field = <<"id">> /\ Upto(value, "NUL") = 0
      THEN [p EXCEPT !.lastId = value]
      ELSE IF field = <<"retry">> /\ isNumber THEN [p EXCEPT !.retry = value]
      ELSE p

(* The character at i: one that ends a line has it processed, and a CR and *)
(* the LF after it end one line.                                           *)
ScanChar(s, text, i) ==
  IF text[i] \notin LineEnds \/ i < s.start THEN s
  ELSE [parser |-> [ProcessLine(s.parser, SubSeq(text, s.start, i - 1))
                    EXCEPT !.pendingCR = (text[i] = "CR" /\ i = Len(text))],
        start |-> IF text[i] = "CR" /\ i < Len(text) /\ text[i + 1] = "LF"
                  THEN i + 2 ELSE i + 1]

(* The scan of the first n characters, for every n.                        *)
ScanUpTo(p, text) ==
  LET scan[n \in 0..Len(text)] ==
        IF n = 0 THEN [parser |-> p, start |-> 1]
        ELSE ScanChar(scan[n - 1], text, n)
  IN  scan

(* The complete lines of the buffer are processed, and the rest stays.     *)
Scan(p, text) ==
  LET end == ScanUpTo(p, text)[Len(text)]
  IN  [end.parser EXCEPT !.buffer = SubSeq(text, end.start, Len(text))]

(* Mutant: a LF that starts a chunk ends a line of its own.                *)
PushApart(p, chunk) ==
  LET marked == IF p.started THEN chunk ELSE Dropping(chunk, "BOM")
  IN  Scan([p EXCEPT !.started = TRUE, !.pendingCR = FALSE], p.buffer \o marked)

(* A chunk: the byte order mark of the first is dropped, and a LF that     *)
(* belongs to the CR at the end of the last one.                           *)
Push(p, chunk) ==
  LET marked == IF p.started THEN chunk ELSE Dropping(chunk, "BOM")
      text == IF p.pendingCR THEN Dropping(marked, "LF") ELSE marked
  IN  Scan([p EXCEPT !.started = TRUE, !.pendingCR = FALSE], p.buffer \o text)

(* An event without its blank line is discarded.                           *)
End(p) == [p EXCEPT !.buffer = <<>>, !.pendingCR = FALSE, !.event = NoEvent]
-----------------------------------------------------------------------------
StreamInit ==
  /\ stream \in Streams /\ received = <<>>
  /\ parser = NewParser /\ emitted = <<>>

(* readEvents: the reader gives some of the text, at least a character.    *)
ReadChunk ==
  /\ \E n \in 1..LastChunk :
       LET p == Push(parser, SubSeq(stream, 1, n))
       IN  /\ n <= Len(stream)
           /\ received' = received \o SubSeq(stream, 1, n)
           /\ stream' = SubSeq(stream, n + 1, Len(stream))
           /\ parser' = [p EXCEPT !.out = <<>>]
           /\ emitted' = emitted \o p.out

(* The stream ends or breaks, anywhere.                                    *)
StreamEnds ==
  /\ parser # End(parser)
  /\ stream' = <<>> /\ parser' = End(parser)
  /\ UNCHANGED <<received, emitted>>

StreamNext == ReadChunk \/ StreamEnds
-----------------------------------------------------------------------------
(* What the specification of event streams says of a whole text: a line    *)
(* ends with a LF, a CR, or a CR and a LF, and starts after the last one.  *)
EndsLine(text, i) ==
  text[i] \in LineEnds /\ ~ (text[i] = "LF" /\ i > 1 /\ text[i - 1] = "CR")

LineStart(text, i) == Max({j \in 1..i : j = 1 \/ text[j - 1] \in LineEnds})

(* What the lines that end in the first n characters say, for every n.     *)
Parsed(text) ==
  LET parsed[n \in 0..Len(text)] ==
        IF n = 0 THEN NewParser
        ELSE IF EndsLine(text, n)
        THEN ProcessLine(parsed[n - 1], SubSeq(text, LineStart(text, n), n - 1))
        ELSE parsed[n - 1]
  IN  parsed

Body(text) == Dropping(text, "BOM")

EventsOf(text) == Parsed(Body(text))[Len(Body(text))].out

(* However the text is split into chunks, the events of what was received  *)
(* so far are out, and no other.                                           *)
EventsInOrder == emitted = EventsOf(received)
=============================================================================
