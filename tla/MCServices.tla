----------------------------- MODULE MCServices -----------------------------
(* An instance of Services for TLC: four identities in two apps, sheets with *)
(* and without a header.                                                    *)
EXTENDS Services

CONSTANTS one, two

WeChatIds == {<<"a", "p">>, <<"b", "p">>, <<"c", "p">>, <<"a", "q">>}

\* Sheets: lines above the header, headers of two orders, one named twice, one without the
\* dates; and lines under it that differ in a time, in dates that cannot be read, in the
\* writing of a number, in thousandths, or that are too short, blank or cannot be used.
Line(cells) == [c \in DOMAIN cells |-> [text |-> cells[c]]]
Number(n, written) == [number |-> n, written |-> written]
Day(written) == [day |-> 1, written |-> written]
Row(key, rest, date, quantity) == <<[text |-> key], [text |-> rest], date, quantity>>
Header == Line(<<"key", "rest", "date", "quantity">>)
OtherHeaders ==
    {Line(<<"quantity", "rest", "key">>), Line(<<"key", "date", "rest", "quantity", "key">>)}
Above == {Line(<<"title">>), Line(<<"", "">>)}
DataLines ==
    {Row("a", "b", Day("plain"), Number(1000, "digits")),
     Row("a", "b", Day("time"), Number(1000, "zeros")),
     Row("a", "b", [text |-> "x"], Number(1001, "digits")),
     Row("a", "b", [text |-> "y"], Number(1001, "float")),
     Row("a", "b", [text |-> ""], Number(1004, "digits")),
     <<Number(5000, "float"), [text |-> "a"]>>,
     <<Number(5000, "digits"), [text |-> "a"], [text |-> ""], [text |-> ""]>>,
     Row("b", "a", [text |-> ""], [text |-> "many"]),
     Row("c", "", [text |-> ""], [text |-> "nan"]),
     Line(<<"a", "bad">>), Line(<<"", "">>)}
SheetRows == {Header} \cup OtherHeaders \cup Above \cup DataLines
UploadedSheets ==
    {<<>>} \cup {<<line>> : line \in SheetRows}
    \cup {<<Header>> \o rows : rows \in [1..3 -> DataLines] \cup [1..2 -> DataLines]}
    \cup {<<header>> \o rows : header \in OtherHeaders, rows \in [1..2 -> DataLines]}
    \cup {<<line, Header>> \o rows : line \in Above, rows \in [1..2 -> DataLines]}
    \cup {<<line, line, Header, row>> : line \in Above, row \in DataLines}

RegistrationSettings == {[open |-> TRUE, approve |-> FALSE], [open |-> FALSE, approve |-> TRUE]}
=============================================================================
