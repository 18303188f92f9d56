--------------------------- MODULE MCSystemdCalls ----------------------------
EXTENDS SystemdCalls

Service(name, stdout, stderr) ==
  [suffix |-> ".service", name |-> name, target |-> <<>>, stdout |-> stdout, stderr |-> stderr]
Timer(name, target) ==
  [suffix |-> ".timer", name |-> name, target |-> target, stdout |-> None, stderr |-> None]

\* A service under its bare and its full name, and a timer that triggers it.
AllOptions ==
  {Service(<<"a">>, None, "file"), Service(<<"a", ".service">>, "journal", None),
   Timer(<<"a", ".timer">>, <<>>)}

\* Words with blanks and quotes next to each other, the empty word, and one that would
\* begin another command.
OddWords == <<<<>>, <<";">>, <<"'", "'">>, <<"a", "'", " ">>, <<"\"", "'", "a">>>>

\* Lines with prefixes, with a second command and with a second line, several entries,
\* programs that do and do not render, the empty line that resets a directive.
AllLists ==
  {<<Line(<<"-", "!", "!", "/", " ", ";", " ", "n">>), Line(<<"+", "!", "/">>)>>,
   <<Program(<<"/", "n">>, <<"/", "m">>, OddWords), Line(<<>>), Line(<<"@", "/", NewLine, "n">>)>>,
   <<Program(<<"/", "n">>, Missing, <<>>)>>,
   <<Program(<<"n">>, <<"/", "m">>, <<>>)>>}

AllChars == {"-", "+", "!", "@", ":", "/", "n", " ", ";", NewLine}
AllLines == {<<"-", "!", "!", "/">>, <<"+", "!", "/">>, <<"@", "/">>}
SmallLog == <<"one", "two", "">>
Counts == {0, 1, 5}
=============================================================================
