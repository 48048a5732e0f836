------------------------------- MODULE AtParser -------------------------------
(***************************************************************************)
(* The parser of answers and unsolicited results, src/usbmodem/src/Core/   *)
(* AtParser.cpp: the caller asks for one argument after the other and looks *)
(* at success() at the end.  Characters are strings of length one, an end  *)
(* of the text is one past it; the value of a number is its digits.        *)
(***************************************************************************)
EXTENDS Integers, Sequences, FiniteSets, SequencesExt

\* A form is the calls the program makes, those it makes for one argument, and what
\* a modem may write: sequences of fields, see Written.
CONSTANT Forms

Calls == {"string", "int", "skip", "array", "list", "line"}

ASSUME ParserAssumption == \A f \in Forms : {f.use, f.short} \subseteq Seq(Calls)

Null == 0

VARIABLES
  fields,   \* what the modem meant
  text,     \* m_str
  calls,    \* the calls still to come
  cursor,   \* m_cursor
  success,  \* m_success
  last,     \* start and end of the last argument, on the stack
  got       \* what the calls have returned

parserVars == <<fields, text, calls, cursor, success, last, got>>

\* A field is [kind, text, end]: raw, quoted, in parentheses or an array of quoted
\* texts, followed by a separator, an end of line, nothing, or by something that
\* does not belong there.
Quoted(t) == <<"\"">> \o t \o <<"\"">>
Chars(f) ==
  CASE f.kind = "quoted" -> Quoted(f.text) \o f.end
    [] f.kind = "array"  ->
         LET Item(i) == (IF i = 1 THEN <<>> ELSE <<",">>) \o Quoted(f.text[i])
         IN  <<"(">> \o FlattenSeq([i \in DOMAIN f.text |-> Item(i)]) \o <<")">> \o f.end
    [] f.kind = "list"   -> <<"(">> \o f.text \o <<")">> \o f.end
    [] OTHER             -> f.text \o f.end

Written(fs) == <<"+", "X", ":", " ">> \o FlattenSeq([i \in DOMAIN fs |-> Chars(fs[i])])

\* The first place from `from' on with a character of chars, or the end.
FirstIn(s, from, chars) ==
  CHOOSE i \in from .. Len(s) + 1 :
    /\ i = Len(s) + 1 \/ s[i] \in chars
    /\ \A j \in from .. i - 1 : s[j] \notin chars

SkipSpaces(s, at) ==
  CHOOSE i \in at .. Len(s) + 1 :
    (i = Len(s) + 1 \/ s[i] # " ") /\ \A j \in at .. i - 1 : s[j] = " "

\* After a value: the next argument, if there is a separator or an end.
AfterValue(s, at) ==
  IF at = Len(s) + 1 \/ s[at] = "\n" THEN at ELSE IF s[at] = "," THEN at + 1 ELSE Null

\* Where the parenthesis opened before `from' is closed; quotes hide others.
Closing(s, from) ==
  LET Count(i, c) == Cardinality({j \in from .. i - 1 : s[j] = c})
      Outside(i)  == Count(i, "\"") % 2 = 0
      Level(i)    == Cardinality({j \in from .. i - 1 : s[j] = "(" /\ Outside(j)})
                     - Cardinality({j \in from .. i - 1 : s[j] = ")" /\ Outside(j)})
      ends == {i \in from .. Len(s) : s[i] = ")" /\ Outside(i) /\ Level(i) = 0}
  IN  IF ends = {} THEN Null ELSE CHOOSE i \in ends : \A j \in ends : i <= j

\* Mutant of ParseNextArg: a list ends at the first parenthesis.
ListNotNested(s, at) ==
  LET from  == SkipSpaces(s, at)
      c     == IF from <= Len(s) THEN s[from] ELSE ""
      close == CASE c = "("  -> FirstIn(s, from + 1, {")"})
                 [] c = "\"" -> FirstIn(s, from + 1, {"\""})
                 [] OTHER    -> FirstIn(s, from, {",", "\n"})
      found == c \notin {"(", "\""} \/ close \in 1 .. Len(s)
      after == IF c \in {"(", "\""} THEN SkipSpaces(s, close + 1) ELSE close
  IN  [start |-> IF c \in {"(", "\""} THEN from + 1 ELSE from,
       end   |-> close,
       next  |-> IF found THEN AfterValue(s, after) ELSE Null]

\* parseNextArg(): the argument, from start to before end, and where the next one
\* begins, Null when this one is malformed.
ParseNextArg(s, at) ==
  LET from  == SkipSpaces(s, at)
      c     == IF from <= Len(s) THEN s[from] ELSE ""
      close == CASE c = "("  -> Closing(s, from + 1)
                 [] c = "\"" -> FirstIn(s, from + 1, {"\""})
                 [] OTHER    -> FirstIn(s, from, {",", "\n"})
      found == c \notin {"(", "\""} \/ close \in 1 .. Len(s)
      after == IF c \in {"(", "\""} THEN SkipSpaces(s, close + 1) ELSE close
  IN  [start |-> IF c \in {"(", "\""} THEN from + 1 ELSE from,
       end   |-> close,
       next  |-> IF found THEN AfterValue(s, after) ELSE Null]

Value(s, arg) == SubSeq(s, arg.start, arg.end - 1)

\* All arguments of a line from `at' on, NoList when one is malformed; an empty
\* last one is not seen.
NoList == [ok |-> FALSE, args |-> <<>>]
AllArgs(s, at) ==
  LET RECURSIVE From(_)
      From(i) ==
        LET arg  == ParseNextArg(s, i)
            rest == From(arg.next)
        IN  IF arg.next = Null THEN NoList
            ELSE IF arg.next = Len(s) + 1 THEN [ok |-> TRUE, args |-> <<Value(s, arg)>>]
            ELSE [rest EXCEPT !.args = <<Value(s, arg)>> \o @]
  IN  From(at)

\* getArgCnt(): the prefix belongs to the first argument.
GetArgCnt(s) == Len(AllArgs(s, 1).args)

Digits == {"0", "1", "2", "3"}

\* parseNumeric(): strtoul() skips white space and takes the digits it finds; they
\* must be those of the argument.
ParseNumeric(s, arg) ==
  LET from == CHOOSE i \in arg.start .. Len(s) + 1 :
                /\ i = Len(s) + 1 \/ s[i] \notin {" ", "\n"}
                /\ \A j \in arg.start .. i - 1 : s[j] \in {" ", "\n"}
      to   == CHOOSE i \in from .. Len(s) + 1 :
                /\ i = Len(s) + 1 \/ s[i] \notin Digits
                /\ \A j \in from .. i - 1 : s[j] \in Digits
  IN  [ok |-> to > from /\ to <= arg.end, digits |-> SubSeq(s, from, to - 1)]

-----------------------------------------------------------------------------
(* The calls. *)

\* parse(): what comes before the first colon is the prefix, if there is one.
Parse(s) ==
  LET colon == FirstIn(s, 1, {":"}) IN IF colon <= Len(s) THEN colon + 1 ELSE 1

ParserInit ==
  /\ \E form \in Forms :
       /\ fields \in form.answers /\ text = Written(fields)
       /\ calls = IF form.short # form.use /\ GetArgCnt(text) = 1 THEN form.short ELSE form.use
  /\ cursor = Parse(text) /\ success = TRUE /\ got = <<>>
  /\ last = [start |-> Null, end |-> Null, next |-> Null]

Asks(call) == calls # <<>> /\ Head(calls) = call /\ calls' = Tail(calls)

Returns(value) == got' = Append(got, [call |-> Head(calls), value |-> value])
Fails == success' = FALSE /\ Returns(<<>>)
Gives(value) == success' = success /\ Returns(value)

\* The next argument; when there is no cursor, start and end stay unset.
NextArg ==
  LET arg == ParseNextArg(text, cursor)
  IN  IF cursor = Null THEN UNCHANGED <<cursor, last>>
      ELSE cursor' = arg.next /\ last' = arg

ParseString ==
  /\ Asks("string") /\ NextArg
  /\ IF cursor' = Null THEN Fails ELSE Gives(Value(text, last'))
  /\ UNCHANGED <<fields, text>>

ParseSkip ==
  /\ Asks("skip") /\ NextArg
  /\ IF cursor' = Null THEN Fails ELSE Gives(<<>>)
  /\ UNCHANGED <<fields, text>>

\* The cursor is not looked at.  Without one start and end are whatever the stack
\* holds: no number, or the last argument once more.
ParseInt ==
  /\ Asks("int") /\ NextArg
  /\ \/ /\ last'.start # Null /\ ParseNumeric(text, last').ok
        /\ Gives(ParseNumeric(text, last').digits)
     \/ /\ cursor = Null \/ ~ ParseNumeric(text, last').ok
        /\ Fails
  /\ UNCHANGED <<fields, text>>

\* parseNextArray(): the arguments inside of one.
ParseArray ==
  /\ Asks("array") /\ NextArg
  /\ LET raw == Value(text, last')
         all == AllArgs(raw, 1)
     IN  IF cursor' = Null \/ ~ all.ok THEN Fails ELSE Gives(all.args)
  /\ UNCHANGED <<fields, text>>

\* parseNextList(): all that are left; at an end of line it would not return.
ParseList ==
  /\ Asks("list") /\ "\n" \notin ToSet(text)
  /\ IF cursor = Null \/ ~ AllArgs(text, cursor).ok
     THEN cursor' = Null /\ Fails
     ELSE cursor' = Len(text) + 1 /\ Gives(AllArgs(text, cursor).args)
  /\ UNCHANGED <<fields, text, last>>

\* parseNextNewLine(), which needs a cursor.
ParseNewLine ==
  /\ Asks("line") /\ cursor # Null
  /\ LET at == SkipSpaces(text, cursor)
     IN  IF at <= Len(text) /\ text[at] = "\n"
         THEN cursor' = at + 1 /\ success' = success
         ELSE cursor' = at /\ success' = FALSE
  /\ UNCHANGED <<fields, text, last, got>>

ParserNext ==
  ParseString \/ ParseSkip \/ ParseInt \/ ParseArray \/ ParseList \/ ParseNewLine

-----------------------------------------------------------------------------
(* Properties. *)

Malformed(i) ==
  fields[i].end \notin {<<",">>, <<"\n">>} \cup (IF i = Len(fields) THEN {<<>>} ELSE {})

Missing(fs) == fs = <<>> \/ (Last(fs).kind = "raw" /\ Last(fs).text = <<>>)
Seen(fs) == IF Len(fs) > 1 /\ Missing(fs) THEN Front(fs) ELSE fs

\* What a call may return for field i: that one's value, a number up to what is
\* none, and nothing for a field that is not there.
Meant(call, i) ==
  LET f   == fields[i]
      end == SelectInSeq(Append(f.text, ""), LAMBDA c : c \notin Digits)
  IN  CASE i > Len(fields) \/ call = "skip" -> <<>>
        [] call = "int"  -> SubSeq(f.text, 1, end - 1)
        [] call = "list" -> [j \in 1 .. Len(Seen(fields)) - i + 1 |-> fields[i + j - 1].text]
        [] OTHER         -> f.text

\* Every call returns what the modem wrote in its place, whatever separators a text
\* in quotes or in parentheses contains: if success() says so, and it says so if no
\* field is malformed and the numbers are there.  Not after a malformed field was
\* read as a number: parseNextInt() does not look at the cursor (AtParser.cpp:24),
\* and the next number may be any.
ReadAsMeant ==
  /\ success /\ cursor # Null =>
       \A i \in DOMAIN got : /\ got[i].value = Meant(got[i].call, i)
                             /\ i <= Len(fields) => ~ Malformed(i)
  /\ (\A i \in DOMAIN fields : ~ Malformed(i))
     /\ (\A i \in DOMAIN got : got[i].call = "int" => Meant("int", i) # <<>>)
     => success

=============================================================================
