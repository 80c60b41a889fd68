------------------------------ MODULE JsonScan ------------------------------
(***************************************************************************)
(* The scanner of the card editor (src/ui/src/editor/jsonScan.ts): JSON    *)
(* text as it is while someone types it, with unclosed strings and         *)
(* brackets and missing commas.                                            *)
(*                                                                         *)
(* A text is a sequence of characters: "Q" is the quote, "NL" the end of a *)
(* line, and a letter stands for what words and strings are made of.       *)
(* Escapes in strings are left out.  A position counts the characters      *)
(* before it, as in the code.                                              *)
(***************************************************************************)
EXTENDS Sequences, Integers, SequencesExt

Undefined == -1     \* a position that is not known

Spaces == {" ", "NL"}
Openers == {"{", "["}
Closers == {"}", "]"}
IsWordChar(c) ==
  c \notin Spaces \cup Openers \cup Closers \cup {":", ",", "Q"}

(* A step of a path.                                                       *)
Key(name) == [key |-> name, item |-> 0]
Item(n) == [key |-> <<"item">>, item |-> n]

NoToken == [kind |-> "none", from |-> 0, to |-> 0, text |-> <<>>]

NoFrame == [kind |-> "none", path |-> <<>>, span |-> 0, expect |-> "none",
            key |-> <<>>, range |-> <<>>, index |-> 0]

(* Frames know what is expected next: a key, a colon, a value, or what     *)
(* comes after a value.  An array has no key, so its range is never set.   *)
Frame(kind, path, span) ==
  [NoFrame EXCEPT !.kind = kind, !.path = path, !.span = span,
                  !.expect = IF kind = "object" THEN "key" ELSE "value"]

NewScan == [at |-> 0, spans |-> <<>>, stack |-> <<>>, started |-> FALSE,
            lastEnd |-> 0, comma |-> Undefined, token |-> NoToken]

TopFrame(s) == IF s.stack = <<>> THEN NoFrame ELSE Last(s.stack)

WithTop(s, frame) ==
  IF s.stack = <<>> THEN s ELSE [s EXCEPT !.stack[Len(s.stack)] = frame]

(* After a comma.                                                          *)
Following(f) ==
  IF f.kind = "object" THEN [f EXCEPT !.expect = "key", !.range = <<>>]
  ELSE [f EXCEPT !.expect = "value", !.index = @ + 1]

(* A key or value right after another value is missing the comma.          *)
Separate(s) ==
  IF TopFrame(s).expect # "next" THEN s
  ELSE [WithTop(s, Following(TopFrame(s))) EXCEPT !.comma = s.lastEnd]

(* The path of a value at this point, if one is expected here.             *)
ValuePath(s) ==
  LET top == TopFrame(s)
  IN  IF top.kind = "none" THEN IF s.started THEN {} ELSE {<<>>}
      ELSE IF top.expect # "value" THEN {}
      ELSE {Append(top.path,
                   IF top.kind = "array" THEN Item(top.index) ELSE Key(top.key))}

Spanned(s, path, from, to) ==
  LET span == [path |-> path, from |-> from, to |-> to,
               key |-> TopFrame(s).range]
  IN  [WithTop(s, [TopFrame(s) EXCEPT !.range = <<>>])
       EXCEPT !.spans = Append(@, span)]

AfterValue(s, end) ==
  [WithTop(s, [TopFrame(s) EXCEPT !.expect = "next"])
   EXCEPT !.started = TRUE, !.lastEnd = end, !.comma = Undefined, !.at = end]
-----------------------------------------------------------------------------
(* Where the string that starts at from ends, with its quote if it is      *)
(* closed on its line, and where the word does.                            *)
StringEnd(text, from) ==
  LET ends == {i \in (from + 2)..Len(text) : text[i] \in {"Q", "NL"}}
      first == CHOOSE i \in ends : \A j \in ends : i <= j
  IN  IF ends = {} THEN [to |-> Len(text), closed |-> FALSE]
      ELSE IF text[first] = "Q" THEN [to |-> first, closed |-> TRUE]
      ELSE [to |-> first - 1, closed |-> FALSE]

WordEnd(text, from) ==
  CHOOSE to \in from..Len(text) :
    /\ \A i \in (from + 1)..to : IsWordChar(text[i])
    /\ to = Len(text) \/ ~ IsWordChar(text[to + 1])

(* A string or a word is the key that is expected, or a value.             *)
TakeToken(s, name, from, to) ==
  LET top == TopFrame(s)
  IN  IF top.kind = "object" /\ top.expect = "key"
      THEN [WithTop(s, [top EXCEPT !.key = name, !.range = <<from, to>>,
                                   !.expect = "colon"])
            EXCEPT !.comma = Undefined, !.at = to]
      ELSE LET paths == ValuePath(s)
           IN  AfterValue(IF paths = {} THEN s
                          ELSE Spanned(s, CHOOSE p \in paths : TRUE, from, to),
                          to)

ScanString(text, stop, s) ==
  LET from == s.at
      end == StringEnd(text, from)
      name == SubSeq(text, from + 2, IF end.closed THEN end.to - 1 ELSE end.to)
  IN  IF stop < end.to \/ (~ end.closed /\ stop <= end.to)
      THEN [s EXCEPT !.token = [kind |-> "string", from |-> from, to |-> end.to,
                                text |-> SubSeq(text, from + 2, stop)]]
      ELSE TakeToken(s, name, from, end.to)

ScanWord(text, stop, s) ==
  LET from == s.at
      to == WordEnd(text, from)
  IN  IF stop <= to
      THEN [s EXCEPT !.token = [kind |-> "word", from |-> from, to |-> to,
                                text |-> SubSeq(text, from + 1, stop)]]
      ELSE TakeToken(s, SubSeq(text, from + 1, to), from, to)

(* A container where none is expected still gets a path.                   *)
ScanOpen(text, s) ==
  LET paths == ValuePath(s)
      path == IF paths # {} THEN CHOOSE p \in paths : TRUE
              ELSE Append(TopFrame(s).path, Key(<<"?">>))
      kind == IF text[s.at + 1] = "{" THEN "object" ELSE "array"
  IN  [Spanned(s, path, s.at, Len(text)) EXCEPT
         !.stack = Append(@, Frame(kind, path, Len(s.spans) + 1)),
         !.started = TRUE, !.comma = Undefined, !.at = @ + 1]

ScanClose(s) ==
  IF s.stack = <<>> THEN AfterValue(s, s.at + 1)
  ELSE AfterValue([s EXCEPT !.stack = Front(@),
                            !.spans[TopFrame(s).span].to = s.at + 1],
                  s.at + 1)

ScanColon(s) ==
  LET top == TopFrame(s)
      seen == [s EXCEPT !.at = @ + 1]
  IN  IF top.kind = "object" /\ top.expect = "colon"
      THEN WithTop(seen, [top EXCEPT !.expect = "value"]) ELSE seen

ScanStep(text, stop, s) ==
  LET c == text[s.at + 1]
  IN  IF c \in Spaces THEN [s EXCEPT !.at = @ + 1]
      ELSE IF c = "Q" THEN ScanString(text, stop, Separate(s))
      ELSE IF c \in Openers THEN ScanOpen(text, Separate(s))
      ELSE IF c \in Closers THEN ScanClose(s)
      ELSE IF c = ":" THEN ScanColon(s)
      ELSE IF c = ","
      THEN [WithTop(s, Following(TopFrame(s))) EXCEPT
              !.comma = Undefined, !.at = @ + 1]
      ELSE ScanWord(text, stop, Separate(s))

(* The scan up to stop, or up to the token stop is in.                     *)
Scanned(text, stop) ==
  LET step(s, i) ==
        IF s.at = i /\ s.token.kind = "none" THEN ScanStep(text, stop, s) ELSE s
      scan[n \in 0..stop] == IF n = 0 THEN NewScan ELSE step(scan[n - 1], n - 1)
  IN  scan[stop]

SpansOf(text) == Scanned(text, Len(text)).spans
-----------------------------------------------------------------------------
LastValueEnd(text, pos) ==
  CHOOSE i \in 0..pos :
    /\ \A j \in (i + 1)..pos : text[j] \in Spaces
    /\ i = 0 \/ text[i] \notin Spaces

(* Keys anywhere in the object, except the one being typed.                *)
KeysAt(text, path, from) ==
  {Last(s.path).key : s \in
     {s \in ToSet(SpansOf(text)) :
        IF s.key = <<>> THEN FALSE
        ELSE s.key[1] # from /\ Len(s.path) = Len(path) + 1
             /\ Front(s.path) = path}}

NoSpot == [kind |-> "none"]

(* The spot where the scan stopped at pos: the property name or value      *)
(* being typed, or where one goes, with the comma that is missing before.  *)
Spot(text, pos, s, top) ==
  LET typed == s.token.kind # "none"
      ends == ~ typed /\ top.expect = "next"
      kind == IF top.kind = "object" /\ (ends \/ top.expect = "key") THEN "key"
              ELSE IF ends \/ ValuePath(s) # {} THEN "value" ELSE "none"
      path == IF kind = "key" THEN top.path
              ELSE IF ends THEN Append(top.path, Item(top.index + 1))
              ELSE IF ValuePath(s) = {} THEN <<>>
              ELSE CHOOSE p \in ValuePath(s) : TRUE
      from == IF typed THEN s.token.from ELSE pos
  IN  [kind |-> kind, path |-> path, from |-> from,
       to |-> IF typed THEN s.token.to ELSE pos, text |-> s.token.text,
       quoted |-> s.token.kind = "string",
       comma |-> IF ends THEN LastValueEnd(text, pos) ELSE s.comma,
       keys |-> KeysAt(text, top.path, from)]

SpotOf(text, pos, s) == Spot(text, pos, s, TopFrame(s))

SpotAt(text, pos) == SpotOf(text, pos, Scanned(text, pos))

(* The key or value at a path, or at the nearest ancestor the text has.    *)
Locate(text, all, path) ==
  LET known == {n \in 0..Len(path) :
                  \E i \in DOMAIN all : all[i].path = SubSeq(path, 1, n)}
      depth == CHOOSE n \in known : \A m \in known : m <= n
      span == SelectLastInSubSeq(all, 1, Len(all),
                LAMBDA s : s.path = SubSeq(path, 1, depth))
  IN  IF known = {} THEN <<>>
      ELSE IF all[span].key # <<>> THEN all[span].key
      ELSE IF text[all[span].from + 1] \in Openers
      THEN <<all[span].from, all[span].from + 1>>
      ELSE <<all[span].from, all[span].to>>
=============================================================================
