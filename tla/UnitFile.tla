------------------------------ MODULE UnitFile -------------------------------
(***************************************************************************)
(* SystemdService, SystemdTimer and Executable: how the options an         *)
(* application writes down become a frozen definition, a filename and the  *)
(* lines of a unit file, and how the manager reads those lines back.       *)
(* Nothing is escaped but the quotes in a word: a newline in a word or in  *)
(* a command line ends the line of the file, and what follows it is read   *)
(* as lines of their own; a semicolon that stands alone in a command line  *)
(* begins another command.                                                 *)
(*                                                                         *)
(* A name is a sequence of parts, a word of a command line a sequence of   *)
(* characters.  Of the sections only the Exec directives, the target of a  *)
(* timer and the log files are kept; the list exec stands for the entries  *)
(* of all Exec directives in the order they are checked and printed.       *)
(***************************************************************************)
EXTENDS Naturals, Sequences, SequencesExt

\* modulePath when it could not be inferred.
Missing == <<>>

\* A command line given as a string.
Line(text) == [kind |-> "line", text |-> text]

\* An Executable: runtimeEntrypoint, modulePath (given, or inferred from the
\* stack, or Missing) and args.
Program(runtime, module, args) ==
  [kind |-> "program", runtime |-> runtime, module |-> module, args |-> args]

InferenceError(e) == e.module = Missing

\* The words the program is to be run with.
ToCommandParts(e) == <<e.runtime, e.module>> \o e.args

\* What is between two words of a command line, and at the end of a line of the file.
Blank == " "
NewLine == "newline"

\* Mutant of ShellQuote: a quote in the word is left as it is.
ShellQuote_Bare(w) == <<"'">> \o w \o <<"'">>

ShellQuote(w) ==
  LET Quoted(c) == IF c = "'" THEN <<"'", "\\", "'", "'">> ELSE <<c>>
  IN  <<"'">> \o FlattenSeq([i \in DOMAIN w |-> Quoted(w[i])]) \o <<"'">>

ToExecStart(e) ==
  LET parts == ToCommandParts(e)
      Printed(i) == (IF i = 1 THEN <<>> ELSE <<Blank>>) \o ShellQuote(parts[i])
  IN  FlattenSeq([i \in DOMAIN parts |-> Printed(i)])

\* A character with no backslash before it.  A line that ends in quotes is dropped; a
\* semicolon that is a word of its own, not quoted, ends the command.
SplitChar(s, c) ==
  LET bare == s.mode \in {"", ";"}
      over == [s EXCEPT !.word = <<>>, !.open = FALSE, !.mode = "over"]
      part == [s EXCEPT !.words = Append(@, s.word), !.word = <<>>, !.open = FALSE, !.mode = ""]
  IN  CASE c = "\\"                                        -> [s EXCEPT !.escaped = TRUE]
        [] c = NewLine /\ ~bare                            -> [over EXCEPT !.words = <<>>]
        [] c \in {Blank, NewLine} /\ s.mode = ";"           -> over
        [] c = NewLine /\ s.mode = ""                       ->
             IF s.open THEN [part EXCEPT !.mode = "over"] ELSE over
        [] c = Blank /\ s.mode = ""                         -> IF s.open THEN part ELSE s
        [] c = s.mode /\ ~bare                              -> [s EXCEPT !.mode = ""]
        [] c \in {"'", "\""} /\ bare                        -> [s EXCEPT !.mode = c, !.open = TRUE]
        [] c = ";" /\ s.mode = "" /\ ~s.open                ->
             [s EXCEPT !.word = <<c>>, !.mode = ";", !.open = TRUE]
        [] OTHER                                           ->
             [s EXCEPT !.word = Append(@, c), !.open = TRUE, !.mode = IF bare THEN "" ELSE @]

\* One character of a command line as the manager splits it into words; mode is the
\* quote it is in, ";" after a semicolon alone, "over" at the end of the command.  A
\* line goes on after a backslash and a newline, which count as a blank.
SplitNext(s, c) ==
  IF s.mode = "over" THEN s
  ELSE IF ~s.escaped THEN SplitChar(s, c)
  ELSE IF c = NewLine THEN SplitChar([s EXCEPT !.escaped = FALSE], Blank)
  ELSE [s EXCEPT !.word = Append(@, c), !.open = TRUE, !.escaped = FALSE,
                 !.mode = IF @ = ";" THEN "" ELSE @]

\* Where the manager is after the last character of a text.
Splitting(text) ==
  LET start == [words |-> <<>>, word |-> <<>>, open |-> FALSE, mode |-> "", escaped |-> FALSE]
      state[i \in 0 .. Len(text)] ==
        IF i = 0 THEN start ELSE SplitNext(state[i - 1], text[i])
  IN  state[Len(text)]

\* The words of the first command of a line.
Split(text) == Splitting(Append(text, NewLine)).words

\* Words that mean nothing else to the manager: no escapes, specifiers or variables,
\* and no ends of lines.
Plain(e) ==
  \A i \in DOMAIN ToCommandParts(e) :
    \A j \in DOMAIN ToCommandParts(e)[i] : ToCommandParts(e)[i][j] \notin {"\\", "%", "$", NewLine}

-----------------------------------------------------------------------------
Normalize(name, suffix) == IF Last(name) = suffix THEN Front(name) ELSE name

\* The unit a timer triggers: timer.Unit, or the service of the same name.
TargetUnit(o) ==
  IF o.target # <<>> THEN o.target ELSE Append(Normalize(o.name, ".timer"), ".service")

\* Mutant of Freeze: the definition keeps the application's own list.
Freeze_Shallow(list) == [exec |-> <<>>, shared |-> TRUE]

\* freezeUnitOptions and cloneUnitSection: lists are copied.
Freeze(list) == [exec |-> list, shared |-> FALSE]

\* The constructors of SystemdService and SystemdTimer; built is for properties only.
Define(o, list) ==
  [suffix |-> o.suffix, name |-> o.name, stdout |-> o.stdout, stderr |-> o.stderr,
   filename |-> Append(Normalize(o.name, o.suffix), o.suffix),
   target |-> IF o.suffix = ".timer" THEN TargetUnit(o) ELSE <<>>,
   exec |-> Freeze(list).exec, shared |-> Freeze(list).shared, built |-> list]

\* Where logs() finds the output of a unit: a file of StandardOutput, else one of
\* StandardError, else in the journal.
LogStream(d) ==
  IF d.suffix # ".service" THEN "journal"
  ELSE IF d.stdout \in {"append", "file"} THEN "stdout"
  ELSE IF d.stderr \in {"append", "file"} THEN "stderr"
  ELSE "journal"

\* What is printed after the key of an entry, up to the newline before the next key.
StringifyUnitValue(v) == IF v.kind = "line" THEN v.text ELSE ToExecStart(v)

\* What the unit file says: the Exec entries of a service, the target of a timer.  The
\* text of an entry is put down as it is; how far the line it begins goes, Split says.
RenderUnitFile(d, exec) ==
  IF d.suffix = ".timer" THEN <<d.target>>
                         ELSE [i \in DOMAIN exec |-> StringifyUnitValue(exec[i])]
=============================================================================
