------------------------------- MODULE MCCodecs -------------------------------
(***************************************************************************)
(* What modems write, read as the program reads it, and messages as the    *)
(* network sends them (3GPP TS 23.040, 23.038), decoded.                   *)
(***************************************************************************)
EXTENDS AtParser, SmsCoding

Raw(t, e) == [kind |-> "raw", text |-> t, end |-> e]
Quote(t, e) == [kind |-> "quoted", text |-> t, end |-> e]
Comma == <<",">>
End == <<>>
Ends == {Comma, End, <<"a">>}

\* handleCusd(): a code, a text, a coding; or the code alone.
Ussd ==
  {<<Raw(c, Comma), Quote(t, e), Raw(d, End)>> :
     c \in {<<"1">>, <<>>}, t \in {<<"a">>, <<",">>, <<"(", "a">>, <<"1">>, <<>>},
     e \in Ends \ {End}, d \in {<<"1", "2">>, <<>>, <<"a">>}}
  \cup {<<Raw(<<"1">>, Comma), Quote(t, End)>> : t \in {<<"a">>, <<>>}}
  \cup {<<Raw(<<"2">>, e)>> : e \in {Comma, End}} \cup {<<>>}

\* getSmsList(): the line of a message and its text.
Listing ==
  {<<Raw(<<"1">>, Comma), Raw(<<s>>, Comma), Quote(n, e), Raw(<<"2", "3">>, <<"\n">>),
     Raw(<<"1", "a">>, End)>> : s \in {"1", "a"}, n \in {<<>>, <<"a">>}, e \in Ends \ {End}}

\* AT+CPMS=?: three arrays.
Array(items, e) == [kind |-> "array", text |-> items, end |-> e]
Storages ==
  {<<Array(<<<<"a">>>>, Comma), Array(<<<<"a">>, <<"1">>>>, e), Array(<<<<"a">>, x>>, End)>> :
     e \in Ends, x \in {<<")">>, <<",">>, <<"(">>}}

\* AT+COPS=?: a list for each operator.
Operator(t, e) == [kind |-> "list", text |-> t, end |-> e]
Operators ==
  {<<Operator(<<"1", ",">> \o n, e), Operator(<<>>, Comma), Operator(m, d)>> \o rest :
     n \in {Quoted(<<")">>), Quoted(<<",">>), <<"(", "1", ")">>}, m \in {<<"1">>, <<"(", ")">>},
     e \in Ends \ {End}, d \in {Comma}, rest \in {<<>>, <<Raw(<<>>, End)>>, <<Raw(<<"2">>, End)>>}}

\* Three numbers, the middle one malformed or not.
Numbers ==
  {<<f, g, Raw(<<"2">>, End)>> :
     f \in {Raw(<<"1">>, Comma), Quote(<<"1">>, Comma), Quote(<<"1">>, <<"a">>), Raw(<<>>, Comma)},
     g \in {Raw(<<"3">>, Comma), Raw(<<>>, <<"\n">>), Quote(<<"3">>, <<"a">>)}}

MCForms ==
  {[use |-> <<"int", "string", "int">>, short |-> <<"int">>, answers |-> Ussd],
   [use |-> <<"int", "int", "skip", "skip", "line", "string">>, short |-> <<"int", "int", "skip", "skip", "line", "string">>, answers |-> Listing],
   [use |-> <<"array", "array", "array">>, short |-> <<"array", "array", "array">>, answers |-> Storages],
   [use |-> <<"list">>, short |-> <<"list">>, answers |-> Operators],
   [use |-> <<"int", "int">>, short |-> <<"int", "int">>, answers |-> Numbers],
   [use |-> <<"int", "int", "int">>, short |-> <<"int", "int", "int">>, answers |-> {a \in Numbers : a[2].end # <<"\n">>}]}

-----------------------------------------------------------------------------
(* Texts around the lengths at which bytes and septets meet, and the longest. *)

B(n) == <<"basic", n>>
Plain(n) == [i \in 1 .. n |-> B((37 * i) % 27)]
GsmTexts ==
  {Plain(n) : n \in 0 .. 17} \cup {<<<<"ext", 101>>, B(65)>>, <<B(65), <<"ext", 10>>>>}
UcsTexts ==
  {<<>>} \cup {<<<<"ucs", 65>>, <<"ucs", c>>>> : c \in {0, 127, 128, 2047, 2048, 55295, 57344, 65534, 65535, 65536,
                                  1114110, 1114111}}
ByteTexts == {<<>>, <<<<"byte", 0>>>>, <<<<"byte", 255>>, <<"byte", 128>>, <<"byte", 10>>>>}

Headers == {<<>>, <<0, <<7, 2, 1>>>>, <<8, <<1, 7, 3, 3>>>>, <<5, <<11, 132, 35, 240>>>>,
            <<36, <<1>>>>}
Number(t, n) == [type |-> t, number |-> n]
Addresses == {Number(1, <<7, 9, 0, 1>>), Number(0, <<9, 0, 0, 1, 2>>), Number(5, Plain(3)),
              Number(5, Plain(7)), Number(5, Plain(11))}
Zones == {[local |-> <<2024, 2, 29, 23, 59, 58>>, tz |-> 345],
          [local |-> <<1999, 12, 31, 0, 0, 9>>, tz |-> - 210]}

Message(type, enc, dcs, chars, h, a, c, t, v) ==
  [type |-> type, enc |-> enc, dcs |-> dcs, text |-> chars, header |-> h, addr |-> a,
   smsc |-> c, time |-> t, vpf |-> v]
Someone == Number(1, <<7, 9, 0, 1>>)
Nobody == Number(0, <<>>)
Now == [local |-> <<2024, 2, 29, 23, 59, 58>>, tz |-> 345]

Texts ==
  {<<"7bit", d, t>> : d \in {0, 240, 192}, t \in GsmTexts}
  \cup {<<"ucs2", d, t>> : d \in {8, 224}, t \in UcsTexts}
  \cup {<<"8bit", d, t>> : d \in {4, 245}, t \in ByteTexts}

MCMessages ==
  {Message("deliver", x[1], x[2], x[3], h, Someone, Nobody, Now, 0) : x \in Texts, h \in Headers}
  \cup {Message("deliver", "7bit", 0, Plain(IF h = <<>> THEN 160 ELSE 153), h, a, c, t, 0) :
          h \in {<<>>, <<0, <<7, 2, 1>>>>}, a \in Addresses, c \in {Nobody, Someone}, t \in Zones}
  \cup {Message("submit", "7bit", 0, Plain(8), h, a, c, Now, v) :
          h \in Headers, a \in Addresses, c \in {Nobody, Someone}, v \in 0 .. 3}
  \cup {Message("ussd", "7bit", d, t, <<>>, Nobody, Nobody, Now, 0) :
          d \in {15, 64, 240}, t \in GsmTexts}
  \cup {Message("ussd", "ucs2", 72, t, <<>>, Nobody, Nobody, Now, 0) : t \in UcsTexts}
  \cup {Message("ussd", "8bit", 68, t, <<>>, Nobody, Nobody, Now, 0) : t \in ByteTexts}

-----------------------------------------------------------------------------
\* Either an answer is parsed or a message is decoded.
Init ==
  \/ ParserInit /\ message = NoMessage /\ decoded = <<>>
  \/ CodingInit /\ fields = <<>> /\ text = <<>> /\ calls = <<>> /\ cursor = 1 /\ success = TRUE
     /\ got = <<>> /\ last = [start |-> Null, end |-> Null, next |-> Null]

Next ==
  \/ ParserNext /\ UNCHANGED codingVars
  \/ CodingNext /\ UNCHANGED parserVars

Spec == Init /\ [][Next]_<<parserVars, codingVars>>

=============================================================================
