---------------------------- MODULE UnitFileProofs ----------------------------
(***************************************************************************)
(* What the manager reads of the command lines the library writes, for     *)
(* words of any length: of all characters but the newline, the backslash   *)
(* and those that begin a specifier or a variable.                         *)
(***************************************************************************)
EXTENDS UnitFile, WellFoundedInduction, SequenceTheorems, TLAPS

\* A set of numbers that has 0, and with every number the next, has them all: else
\* there were a least one that it has not.
LEMMA Induction ==
  ASSUME NEW S \in SUBSET Nat, 0 \in S, \A n \in S : n + 1 \in S
  PROVE  S = Nat
<1> DEFINE Less == {ss \in Nat \X Nat : ss[1] < ss[2]}
<1>1. IsWellFoundedOn(Less, Nat)
  BY NatLessThanWellFounded, Zenon DEF OpToRel
<1> SUFFICES ASSUME Nat \ S # {} PROVE FALSE
  OBVIOUS
<1>2. PICK n \in Nat \ S : \A m \in Nat \ S : <<m, n>> \notin Less
  <2> HIDE DEF Less
  <2> QED
    BY <1>1, WFMin
<1>3. n # 0 /\ n - 1 \in Nat /\ <<n - 1, n>> \in Less
  OBVIOUS
<1>4. n - 1 \in S
  BY <1>2, <1>3
<1> QED
  BY <1>3, <1>4

Unread == [words |-> <<>>, word |-> <<>>, open |-> FALSE, mode |-> "", escaped |-> FALSE]

\* The states of the splitter, one before the text and one after each character.
Runs(run, text) ==
  run = [i \in 0 .. Len(text) |-> IF i = 0 THEN Unread ELSE SplitNext(run[i - 1], text[i])]

LEMMA Extended ==
  ASSUME NEW S, NEW text \in Seq(S), NEW c \in S, NEW run, Runs(run, text)
  PROVE  \E next : /\ Runs(next, Append(text, c))
                   /\ next[Len(Append(text, c))] = SplitNext(run[Len(text)], c)
<1> DEFINE n == Len(text)
           longer == Append(text, c)
           next == [i \in 0 .. n + 1 |-> IF i = n + 1 THEN SplitNext(run[n], c) ELSE run[i]]
<1>1. /\ n \in Nat /\ Len(longer) = n + 1 /\ longer[n + 1] = c
      /\ \A i \in 1 .. n : longer[i] = text[i]
  OBVIOUS
<1>2. /\ run[0] = Unread /\ \A i \in 1 .. n : run[i] = SplitNext(run[i - 1], text[i])
  BY <1>1 DEF Runs
<1> HIDE DEF longer
<1>3. ASSUME NEW i \in 0 .. n + 1
      PROVE  next[i] = IF i = 0 THEN Unread ELSE SplitNext(next[i - 1], longer[i])
  <2>1. CASE i = 0
    BY <1>1, <1>2, <2>1
  <2>2. CASE i = n + 1
    BY <1>1, <2>2
  <2>3. CASE i \in 1 .. n
    <3>1. next[i] = run[i] /\ next[i - 1] = run[i - 1]
      BY <1>1, <2>3
    <3> QED
      BY <1>1, <1>2, <2>3, <3>1
  <2> QED
    BY <1>1, <2>1, <2>2, <2>3
<1>4. next = [i \in 0 .. n + 1 |-> IF i = 0 THEN Unread ELSE SplitNext(next[i - 1], longer[i])]
  BY <1>3
<1>5. Runs(next, longer) /\ next[n + 1] = SplitNext(run[n], c)
  <2>1. next[n + 1] = SplitNext(run[n], c)
    BY <1>1
  <2> HIDE DEF next
  <2> QED
    BY <1>1, <1>4, <2>1 DEF Runs
<1> QED
  BY <1>1, <1>5 DEF longer

\* A text has one run.
LEMMA OneRun ==
  ASSUME NEW S, NEW text \in Seq(S), NEW run, Runs(run, text), NEW other, Runs(other, text)
  PROVE  run = other
<1> DEFINE P == {n \in Nat : n <= Len(text) => run[n] = other[n]}
<1>0. Len(text) \in Nat
  OBVIOUS
<1>1. 0 \in P
  BY <1>0 DEF Runs
<1>2. ASSUME NEW n \in P PROVE n + 1 \in P
  <2>1. ASSUME n + 1 <= Len(text) PROVE run[n + 1] = other[n + 1]
    <3>1. n + 1 \in 0 .. Len(text) /\ n + 1 # 0 /\ (n + 1) - 1 = n /\ n <= Len(text)
      BY <1>0, <2>1
    <3>2. run[n + 1] = SplitNext(run[n], text[n + 1]) /\ other[n + 1] = SplitNext(other[n], text[n + 1])
      BY <3>1 DEF Runs
    <3> QED
      BY <3>1, <3>2
  <2> QED
    BY <2>1
<1>3. P = Nat
  <2> HIDE DEF P
  <2>1. P \subseteq Nat
    BY DEF P
  <2> QED
    BY <1>1, <1>2, <2>1, Induction
<1>4. \A i \in 0 .. Len(text) : run[i] = other[i]
  BY <1>0, <1>3
<1>5. DOMAIN run = 0 .. Len(text) /\ DOMAIN other = 0 .. Len(text)
  BY DEF Runs
<1> QED
  BY <1>4, <1>5, Zenon DEF Runs

LEMMA SomeRun ==
  ASSUME NEW S, NEW text \in Seq(S)
  PROVE  \E run : Runs(run, text)
<1> DEFINE P == {n \in Nat : n <= Len(text) => \E run : Runs(run, SubSeq(text, 1, n))}
<1>0. Len(text) \in Nat
  OBVIOUS
<1>1. 0 \in P
  <2>1. SubSeq(text, 1, 0) = <<>>
    OBVIOUS
  <2>2. Runs([i \in {0} |-> Unread], <<>>)
    BY DEF Runs
  <2> QED
    BY <2>1, <2>2
<1>2. ASSUME NEW n \in P PROVE n + 1 \in P
  <2>1. ASSUME n + 1 <= Len(text) PROVE \E run : Runs(run, SubSeq(text, 1, n + 1))
    <3>1. PICK run : Runs(run, SubSeq(text, 1, n))
      BY <1>0, <1>2, <2>1
    <3>2. /\ SubSeq(text, 1, n) \in Seq(S) /\ text[n + 1] \in S
          /\ SubSeq(text, 1, n + 1) = Append(SubSeq(text, 1, n), text[n + 1])
      BY <1>0, <2>1
    <3> QED
      BY <3>1, <3>2, Extended
  <2> QED
    BY <2>1
<1>3. P = Nat
  <2> HIDE DEF P
  <2>1. P \subseteq Nat
    BY DEF P
  <2> QED
    BY <1>1, <1>2, <2>1, Induction
<1>4. SubSeq(text, 1, Len(text)) = text
  OBVIOUS
<1>5. \E run : Runs(run, SubSeq(text, 1, Len(text)))
  <2> DEFINE n == Len(text)
  <2>1. n \in P
    BY <1>0, <1>3
  <2> HIDE DEF n
  <2>2. n <= Len(text) => \E run : Runs(run, SubSeq(text, 1, n))
    BY <2>1
  <2> QED
    BY <1>0, <2>2 DEF n
<1> QED
  BY <1>4, <1>5

\* How the splitter goes on: from where it starts, by one character after the other.
LEMMA SplittingIs ==
  ASSUME NEW S, NEW text \in Seq(S), NEW run, Runs(run, text)
  PROVE  Splitting(text) = run[Len(text)]
<1> DEFINE chosen == CHOOSE state : Runs(state, text)
<1>1. Runs(chosen, text)
  <2>1. \E state : Runs(state, text)
    OBVIOUS
  <2> QED
    BY <2>1, Zenon
<1>2. Splitting(text) = chosen[Len(text)]
  BY DEF Splitting, Runs, Unread
<1>3. chosen = run
  <2> HIDE DEF chosen
  <2> QED
    BY <1>1, OneRun
<1> QED
  BY <1>2, <1>3

LEMMA SplittingSteps ==
  ASSUME NEW S, NEW text \in Seq(S), NEW c \in S
  PROVE  /\ Splitting(<<>>) = Unread
         /\ Splitting(Append(text, c)) = SplitNext(Splitting(text), c)
<1>1. PICK run : Runs(run, text)
  BY SomeRun
<1>2. PICK next : /\ Runs(next, Append(text, c))
                  /\ next[Len(Append(text, c))] = SplitNext(run[Len(text)], c)
  BY <1>1, Extended
<1>3. PICK none : none = [i \in {0} |-> Unread]
  OBVIOUS
<1>4. <<>> \in Seq(S) /\ Append(text, c) \in Seq(S) /\ Len(<<>>) = 0
  OBVIOUS
<1>5. Runs(none, <<>>) /\ none[0] = Unread
  BY <1>3 DEF Runs
<1> QED
  BY <1>1, <1>2, <1>4, <1>5, SplittingIs

-----------------------------------------------------------------------------
\* The splitter inside quotes, in a word outside quotes, and between words.
InQuotes(words, word) ==
  [words |-> words, word |-> word, open |-> TRUE, mode |-> "'", escaped |-> FALSE]
InWord(words, word) ==
  [words |-> words, word |-> word, open |-> TRUE, mode |-> "", escaped |-> FALSE]
Between(words) ==
  [words |-> words, word |-> <<>>, open |-> FALSE, mode |-> "", escaped |-> FALSE]

\* The splitter at the end of a command.
Over(words) ==
  [words |-> words, word |-> <<>>, open |-> FALSE, mode |-> "over", escaped |-> FALSE]

\* Modes and characters are told apart; what they are need not be known.
LEMMA BlankIs ==
  /\ Blank \notin {"\\", "'", "\"", ";"}
  /\ NewLine \notin {"\\", "'", "\"", ";", Blank}
<1>1. Blank \notin {"\\", "'", "\"", ";"}
  BY Zenon DEF Blank
<1>2. NewLine \notin {"\\", "'", "\"", ";", Blank}
  BY Zenon DEF Blank, NewLine
<1> QED
  BY <1>1, <1>2

LEMMA ModesDiffer ==
  /\ "" \notin {";", "over", "'", "\""}
  /\ ";" \notin {"over", "'", "\"", "\\"}
  /\ "over" \notin {"'", "\""}
  /\ "'" # "\""
  /\ "\\" \notin {"'", "\""}
BY Zenon

LEMMA AtStart == Splitting(<<>>) = Between(<<>>)
<1>1. <<>> \in Seq({Blank}) /\ Blank \in {Blank}
  OBVIOUS
<1>2. Splitting(<<>>) = Unread
  BY <1>1, SplittingSteps
<1> QED
  BY <1>2 DEF Unread, Between

LEMMA Opens ==
  ASSUME NEW words
  PROVE  SplitNext(Between(words), "'") = InQuotes(words, <<>>)
BY BlankIs, ModesDiffer DEF SplitNext, SplitChar, InQuotes, Between

LEMMA Reopens ==
  ASSUME NEW words, NEW word
  PROVE  SplitNext(InWord(words, word), "'") = InQuotes(words, word)
BY BlankIs, ModesDiffer DEF SplitNext, SplitChar, InQuotes, InWord

LEMMA Closes ==
  ASSUME NEW words, NEW word
  PROVE  SplitNext(InQuotes(words, word), "'") = InWord(words, word)
BY BlankIs, ModesDiffer DEF SplitNext, SplitChar, InQuotes, InWord

LEMMA Takes ==
  ASSUME NEW words, NEW word, NEW c, c \notin {"'", "\\", NewLine}
  PROVE  SplitNext(InQuotes(words, word), c) = InQuotes(words, Append(word, c))
BY BlankIs, ModesDiffer DEF SplitNext, SplitChar, InQuotes

LEMMA Escapes ==
  ASSUME NEW words, NEW word, NEW c, c # NewLine
  PROVE  SplitNext(SplitNext(InWord(words, word), "\\"), c) = InWord(words, Append(word, c))
<1> DEFINE s == [InWord(words, word) EXCEPT !.escaped = TRUE]
<1>1. SplitNext(InWord(words, word), "\\") = s
  BY BlankIs, ModesDiffer DEF SplitNext, SplitChar, InWord
<1>2. SplitNext(s, c) = InWord(words, Append(word, c))
  BY ModesDiffer DEF SplitNext, InWord
<1> QED
  BY <1>1, <1>2

LEMMA Parts ==
  ASSUME NEW words, NEW word
  PROVE  SplitNext(InWord(words, word), Blank) = Between(Append(words, word))
BY BlankIs, ModesDiffer DEF SplitNext, SplitChar, InWord, Between

LEMMA Ends ==
  ASSUME NEW words, NEW word
  PROVE  SplitNext(InWord(words, word), NewLine) = Over(Append(words, word))
BY BlankIs, ModesDiffer DEF SplitNext, SplitChar, InWord, Over

LEMMA EndsEmpty == SplitNext(Between(<<>>), NewLine).words = <<>>
BY BlankIs, ModesDiffer DEF SplitNext, SplitChar, Between

\* The sequences appended one after the other, as FlattenSeq does it.
Flats(f, seqs, n) ==
  f = [i \in 1 .. n |-> IF i = 1 THEN seqs[i] ELSE f[i - 1] \o seqs[i]]

LEMMA FlatExtended ==
  ASSUME NEW seqs, NEW n \in Nat, NEW f, Flats(f, seqs, n)
  PROVE  \E next : Flats(next, seqs, n + 1)
<1> DEFINE Step(i) == IF i = 1 THEN seqs[i] ELSE f[i - 1] \o seqs[i]
           next == [i \in 1 .. n + 1 |-> IF i = n + 1 THEN Step(i) ELSE f[i]]
<1>1. \A i \in 1 .. n : f[i] = Step(i)
  BY DEF Flats
<1>2. ASSUME NEW i \in 1 .. n + 1 PROVE next[i] = Step(i)
  <2> HIDE DEF Step
  <2> QED
    BY <1>1
<1>3. ASSUME NEW i \in 1 .. n + 1, i # 1 PROVE next[i - 1] = f[i - 1]
  <2> HIDE DEF Step
  <2> QED
    BY <1>3
<1>4. ASSUME NEW i \in 1 .. n + 1
      PROVE  next[i] = IF i = 1 THEN seqs[i] ELSE next[i - 1] \o seqs[i]
  <2> HIDE DEF next
  <2> QED
    BY <1>2, <1>3
<1>5. next = [i \in 1 .. n + 1 |-> IF i = 1 THEN seqs[i] ELSE next[i - 1] \o seqs[i]]
  <2>1. next = [i \in 1 .. n + 1 |-> next[i]]
    OBVIOUS
  <2> HIDE DEF next
  <2> QED
    BY <1>4, <2>1
<1> HIDE DEF next
<1> QED
  BY <1>5 DEF Flats

LEMMA SomeFlat ==
  ASSUME NEW seqs, NEW n \in Nat
  PROVE  \E f : Flats(f, seqs, n)
<1> DEFINE P == {m \in Nat : \E f : Flats(f, seqs, m)}
<1>1. 0 \in P
  <2>1. Flats([i \in {} |-> <<>>], seqs, 0)
    BY DEF Flats
  <2> QED
    BY <2>1
<1>2. ASSUME NEW m \in P PROVE m + 1 \in P
  BY FlatExtended
<1>3. P = Nat
  <2> HIDE DEF P
  <2>1. P \subseteq Nat
    BY DEF P
  <2> QED
    BY <1>1, <1>2, <2>1, Induction
<1> QED
  BY <1>3

LEMMA FlatTyped ==
  ASSUME NEW S, NEW seqs \in Seq(Seq(S)), NEW f, Flats(f, seqs, Len(seqs))
  PROVE  \A i \in 1 .. Len(seqs) : f[i] \in Seq(S)
<1> DEFINE P == {n \in Nat : n \in 1 .. Len(seqs) => f[n] \in Seq(S)}
<1>0. Len(seqs) \in Nat /\ \A i \in 1 .. Len(seqs) : seqs[i] \in Seq(S)
  OBVIOUS
<1>1. 0 \in P
  OBVIOUS
<1>2. ASSUME NEW n \in P PROVE n + 1 \in P
  <2>1. ASSUME n + 1 \in 1 .. Len(seqs) PROVE f[n + 1] \in Seq(S)
    <3>0. n \in Nat /\ (n \in 1 .. Len(seqs) => f[n] \in Seq(S))
      OBVIOUS
    <3>1. f[n + 1] = IF n + 1 = 1 THEN seqs[n + 1] ELSE f[(n + 1) - 1] \o seqs[n + 1]
      BY <2>1 DEF Flats
    <3>2. CASE n = 0
      BY <1>0, <2>1, <3>1, <3>2
    <3>3. CASE n # 0
      <4>1. n \in 1 .. Len(seqs) /\ (n + 1) - 1 = n
        BY <1>0, <2>1, <3>0, <3>3
      <4>2. f[n] \in Seq(S) /\ seqs[n + 1] \in Seq(S)
        BY <1>0, <2>1, <3>0, <4>1
      <4>3. n + 1 # 1
        BY <3>0, <3>3
      <4>4. f[n + 1] = f[n] \o seqs[n + 1]
        BY <3>1, <4>1, <4>3, Zenon
      <4> QED
        BY <4>2, <4>4, ConcatProperties
    <3> QED
      BY <3>2, <3>3
  <2> QED
    BY <2>1
<1>3. P = Nat
  <2> HIDE DEF P
  <2>1. P \subseteq Nat
    BY DEF P
  <2> QED
    BY <1>1, <1>2, <2>1, Induction
<1>4. ASSUME NEW i \in 1 .. Len(seqs) PROVE f[i] \in Seq(S)
  <2>1. i \in P
    BY <1>0, <1>3
  <2> QED
    BY <2>1
<1> QED
  BY <1>4

LEMMA Flattened ==
  ASSUME NEW S, NEW seqs \in Seq(Seq(S))
  PROVE  \E flat : /\ flat[0] = <<>>
                   /\ \A i \in 1 .. Len(seqs) : flat[i] = flat[i - 1] \o seqs[i]
                   /\ \A i \in 0 .. Len(seqs) : flat[i] \in Seq(S)
                   /\ FlattenSeq(seqs) = flat[Len(seqs)]
<1>0. Len(seqs) \in Nat /\ \A i \in 1 .. Len(seqs) : seqs[i] \in Seq(S)
  OBVIOUS
<1> DEFINE f == CHOOSE f : Flats(f, seqs, Len(seqs))
<1>1. Flats(f, seqs, Len(seqs))
  BY <1>0, SomeFlat, Zenon
<1>2. FlattenSeq(seqs) = IF Len(seqs) = 0 THEN seqs ELSE f[Len(seqs)]
  BY DEF FlattenSeq, Flats
<1> HIDE DEF f
<1>3. \A i \in 1 .. Len(seqs) : f[i] \in Seq(S)
  BY <1>1, FlatTyped
<1>4. \A i \in 1 .. Len(seqs) : f[i] = IF i = 1 THEN seqs[i] ELSE f[i - 1] \o seqs[i]
  BY <1>1 DEF Flats
<1> DEFINE flat == [i \in 0 .. Len(seqs) |-> IF i = 0 THEN <<>> ELSE f[i]]
<1>5. flat[0] = <<>> /\ \A i \in 1 .. Len(seqs) : flat[i] = f[i]
  BY <1>0
<1> HIDE DEF flat
<1>6. \A i \in 0 .. Len(seqs) : flat[i] \in Seq(S)
  <2>1. ASSUME NEW i \in 0 .. Len(seqs) PROVE i = 0 \/ i \in 1 .. Len(seqs)
    BY <1>0
  <2>2. <<>> \in Seq(S)
    OBVIOUS
  <2> QED
    BY <1>3, <1>5, <2>1, <2>2, Zenon
<1>7. ASSUME NEW i \in 1 .. Len(seqs) PROVE flat[i] = flat[i - 1] \o seqs[i]
  <2>1. CASE i = 1
    <3>1. flat[i - 1] = <<>> /\ flat[i] = seqs[i] /\ seqs[i] \in Seq(S)
      BY <1>0, <1>4, <1>5, <2>1
    <3> QED
      BY <3>1, ConcatEmptySeq
  <2>2. CASE i # 1
    <3>1. i - 1 \in 1 .. Len(seqs)
      BY <1>0, <2>2
    <3> QED
      BY <1>4, <1>5, <2>2, <3>1
  <2> QED
    BY <2>1, <2>2
<1>8. FlattenSeq(seqs) = flat[Len(seqs)]
  <2>1. CASE Len(seqs) = 0
    <3>1. seqs = <<>>
      BY <2>1
    <3> QED
      BY <1>2, <1>5, <2>1, <3>1
  <2>2. CASE Len(seqs) # 0
    <3>1. Len(seqs) \in 1 .. Len(seqs)
      BY <1>0, <2>2
    <3> QED
      BY <1>2, <1>5, <2>2, <3>1
  <2> QED
    BY <2>1, <2>2
<1> QED
  BY <1>5, <1>6, <1>7, <1>8

-----------------------------------------------------------------------------
LEMMA ReadOne ==
  ASSUME NEW S, NEW text \in Seq(S), NEW c \in S
  PROVE  /\ text \o <<c>> \in Seq(S)
         /\ Splitting(text \o <<c>>) = SplitNext(Splitting(text), c)
<1>1. text \o <<c>> = Append(text, c)
  OBVIOUS
<1>2. Splitting(Append(text, c)) = SplitNext(Splitting(text), c)
  BY SplittingSteps
<1>3. Append(text, c) \in Seq(S)
  OBVIOUS
<1> QED
  BY <1>1, <1>2, <1>3

\* A character that is taken in quotes.
Literal(c) == c \notin {"\\", NewLine}

Quoted(c) == IF c = "'" THEN <<"'", "\\", "'", "'">> ELSE <<c>>

\* A quoted character is read as the character.
LEMMA ReadQuoted ==
  ASSUME NEW S, {"'", "\\"} \subseteq S, NEW text \in Seq(S), NEW c \in S, Literal(c),
         NEW words, NEW word, Splitting(text) = InQuotes(words, word)
  PROVE  /\ Quoted(c) \in Seq(S)
         /\ text \o Quoted(c) \in Seq(S)
         /\ Splitting(text \o Quoted(c)) = InQuotes(words, Append(word, c))
<1>1. CASE c # "'"
  <2>1. SplitNext(InQuotes(words, word), c) = InQuotes(words, Append(word, c))
    BY <1>1, Takes DEF Literal
  <2>2. Quoted(c) = <<c>> /\ <<c>> \in Seq(S)
    BY <1>1 DEF Quoted
  <2> QED
    BY <2>1, <2>2, ReadOne
<1>2. CASE c = "'"
  <2> DEFINE t1 == text \o <<"'">>
             t2 == t1 \o <<"\\">>
             t3 == t2 \o <<"'">>
             t4 == t3 \o <<"'">>
  <2>0. "'" \in S /\ "\\" \in S
    OBVIOUS
  <2>1. t1 \in Seq(S) /\ Splitting(t1) = InWord(words, word)
    <3>1. t1 \in Seq(S) /\ Splitting(t1) = SplitNext(InQuotes(words, word), "'")
      BY <2>0, ReadOne
    <3> QED
      BY <3>1, Closes
  <2>2. t2 \in Seq(S) /\ Splitting(t2) = SplitNext(InWord(words, word), "\\")
    <3> HIDE DEF t1
    <3> QED
      BY <2>0, <2>1, ReadOne
  <2>3. t3 \in Seq(S) /\ Splitting(t3) = InWord(words, Append(word, "'"))
    <3> HIDE DEF t2
    <3>1. t3 \in Seq(S) /\ Splitting(t3) = SplitNext(SplitNext(InWord(words, word), "\\"), "'")
      BY <2>0, <2>2, ReadOne
    <3>2. "'" # NewLine
      BY BlankIs
    <3> QED
      BY <3>1, <3>2, Escapes
  <2>4. t4 \in Seq(S) /\ Splitting(t4) = InQuotes(words, Append(word, "'"))
    <3> HIDE DEF t3
    <3>1. t4 \in Seq(S) /\ Splitting(t4) = SplitNext(InWord(words, Append(word, "'")), "'")
      BY <2>0, <2>3, ReadOne
    <3> QED
      BY <3>1, Reopens
  <2>5. t4 = text \o <<"'", "\\", "'", "'">>
    OBVIOUS
  <2>6. Quoted(c) = <<"'", "\\", "'", "'">> /\ <<"'", "\\", "'", "'">> \in Seq(S)
    BY <1>2 DEF Quoted
  <2> HIDE DEF t4
  <2> QED
    BY <1>2, <2>4, <2>5, <2>6
<1> QED
  BY <1>1, <1>2

\* A quoted word is read as the word.
LEMMA ReadWord ==
  ASSUME NEW S, {"'", "\\"} \subseteq S, NEW text \in Seq(S), NEW w \in Seq(S),
         \A i \in DOMAIN w : Literal(w[i]),
         NEW words, Splitting(text) = Between(words)
  PROVE  /\ ShellQuote(w) \in Seq(S)
         /\ text \o ShellQuote(w) \in Seq(S)
         /\ Splitting(text \o ShellQuote(w)) = InWord(words, w)
<1> DEFINE seqs == [i \in DOMAIN w |-> Quoted(w[i])]
           t0 == text \o <<"'">>
<1>0. Len(w) \in Nat /\ DOMAIN w = 1 .. Len(w) /\ \A i \in 1 .. Len(w) : w[i] \in S /\ Literal(w[i])
  OBVIOUS
<1>joined. ASSUME NEW a \in Seq(S), NEW b \in Seq(S), NEW d \in Seq(S)
          PROVE  (a \o b) \o d = a \o (b \o d)
  BY SMTT(60)
<1>1. t0 \in Seq(S) /\ Splitting(t0) = InQuotes(words, <<>>)
  <2>1. "'" \in S
    OBVIOUS
  <2>2. t0 \in Seq(S) /\ Splitting(t0) = SplitNext(Between(words), "'")
    BY <2>1, ReadOne
  <2> QED
    BY <2>2, Opens
<1>2. seqs \in Seq(Seq(S)) /\ Len(seqs) = Len(w) /\ \A i \in 1 .. Len(w) : seqs[i] = Quoted(w[i])
  <2>1. \A i \in 1 .. Len(w) : Quoted(w[i]) \in Seq(S)
    BY <1>0 DEF Quoted
  <2>2. seqs = [i \in 1 .. Len(w) |-> Quoted(w[i])]
    BY <1>0
  <2> QED
    BY <1>0, <2>1, <2>2
<1>3. ShellQuote(w) = <<"'">> \o FlattenSeq(seqs) \o <<"'">>
  BY DEF ShellQuote, Quoted
<1> HIDE DEF seqs, t0
<1>4. PICK flat : /\ flat[0] = <<>>
                  /\ \A i \in 1 .. Len(seqs) : flat[i] = flat[i - 1] \o seqs[i]
                  /\ \A i \in 0 .. Len(seqs) : flat[i] \in Seq(S)
                  /\ FlattenSeq(seqs) = flat[Len(seqs)]
  BY <1>2, Flattened
<1> DEFINE P == {n \in Nat : n <= Len(w) =>
                   /\ t0 \o flat[n] \in Seq(S)
                   /\ Splitting(t0 \o flat[n]) = InQuotes(words, SubSeq(w, 1, n))}
<1>5. 0 \in P
  <2>1. t0 \o flat[0] = t0 /\ SubSeq(w, 1, 0) = <<>>
    BY <1>1, <1>4
  <2> QED
    BY <1>1, <2>1
<1>6. ASSUME NEW n \in P PROVE n + 1 \in P
  <2>1. ASSUME n + 1 <= Len(w)
        PROVE  /\ t0 \o flat[n + 1] \in Seq(S)
               /\ Splitting(t0 \o flat[n + 1]) = InQuotes(words, SubSeq(w, 1, n + 1))
    <3>1. n \in 0 .. Len(w) /\ n + 1 \in 1 .. Len(w) /\ (n + 1) - 1 = n
      BY <1>0, <2>1
    <3>2. t0 \o flat[n] \in Seq(S) /\ Splitting(t0 \o flat[n]) = InQuotes(words, SubSeq(w, 1, n))
      BY <3>1
    <3>3. w[n + 1] \in S /\ Literal(w[n + 1])
      BY <1>0, <3>1
    <3> DEFINE u == t0 \o flat[n]
               v == SubSeq(w, 1, n)
               c == w[n + 1]
    <3>read. u \in Seq(S) /\ c \in S /\ Literal(c) /\ Splitting(u) = InQuotes(words, v)
      BY <3>2, <3>3
    <3>4. /\ Quoted(w[n + 1]) \in Seq(S)
          /\ (t0 \o flat[n]) \o Quoted(w[n + 1]) \in Seq(S)
          /\ Splitting((t0 \o flat[n]) \o Quoted(w[n + 1]))
               = InQuotes(words, Append(SubSeq(w, 1, n), w[n + 1]))
      <4> HIDE DEF u, v, c
      <4>1. /\ Quoted(c) \in Seq(S)
            /\ u \o Quoted(c) \in Seq(S)
            /\ Splitting(u \o Quoted(c)) = InQuotes(words, Append(v, c))
        BY <3>read, ReadQuoted
      <4> QED
        BY <4>1 DEF u, v, c
    <3>5. flat[n + 1] = flat[n] \o Quoted(w[n + 1]) /\ flat[n] \in Seq(S)
      BY <1>2, <1>4, <3>1
    <3>6. t0 \o flat[n + 1] = (t0 \o flat[n]) \o Quoted(w[n + 1])
      <4> DEFINE q == Quoted(w[n + 1])
                 f == flat[n]
      <4>1. q \in Seq(S) /\ f \in Seq(S) /\ flat[n + 1] = f \o q
        BY <3>4, <3>5
      <4> HIDE DEF q, f
      <4>2. (t0 \o f) \o q = t0 \o (f \o q)
        BY <1>1, <4>1, <1>joined, Zenon
      <4> QED
        BY <4>1, <4>2 DEF q, f
    <3>7. SubSeq(w, 1, n + 1) = Append(SubSeq(w, 1, n), w[n + 1])
      BY <1>0, <3>1
    <3> QED
      BY <3>4, <3>6, <3>7
  <2> QED
    BY <2>1
<1>7. P = Nat
  <2> HIDE DEF P
  <2>1. P \subseteq Nat
    BY DEF P
  <2> QED
    BY <1>5, <1>6, <2>1, Induction
<1>8. /\ t0 \o FlattenSeq(seqs) \in Seq(S)
      /\ Splitting(t0 \o FlattenSeq(seqs)) = InQuotes(words, w)
  <2> DEFINE n == Len(w)
  <2>1. n \in P
    BY <1>0, <1>7
  <2>2. SubSeq(w, 1, Len(w)) = w
    OBVIOUS
  <2>3. n \in Nat
    BY <1>0
  <2>4. t0 \o flat[n] \in Seq(S) /\ Splitting(t0 \o flat[n]) = InQuotes(words, SubSeq(w, 1, n))
    <3> HIDE DEF n
    <3> QED
      BY <2>1, <2>3 DEF n
  <2> QED
    BY <1>2, <1>4, <2>2, <2>4
<1>9. FlattenSeq(seqs) \in Seq(S) /\ <<"'">> \in Seq(S)
  BY <1>2, <1>4
<1>10. ShellQuote(w) \in Seq(S)
  BY <1>3, <1>9, ConcatProperties
<1>11. text \o ShellQuote(w) = (t0 \o FlattenSeq(seqs)) \o <<"'">>
  <2>1. text \o (<<"'">> \o FlattenSeq(seqs)) = t0 \o FlattenSeq(seqs)
    BY <1>9, ConcatAssociative DEF t0
  <2>2. <<"'">> \o FlattenSeq(seqs) \in Seq(S)
    BY <1>9, ConcatProperties
  <2> QED
    <3> DEFINE m == <<"'">> \o FlattenSeq(seqs)
               z == <<"'">>
    <3>1. m \in Seq(S) /\ z \in Seq(S) /\ ShellQuote(w) = m \o z /\ text \o m = t0 \o FlattenSeq(seqs)
      BY <1>3, <1>9, <2>1, <2>2
    <3> HIDE DEF m, z
    <3>2. (text \o m) \o z = text \o (m \o z)
      BY <3>1, <1>joined, Zenon
    <3> QED
      BY <3>1, <3>2 DEF z
<1> DEFINE t1 == t0 \o FlattenSeq(seqs)
<1>12. t1 \o <<"'">> \in Seq(S) /\ Splitting(t1 \o <<"'">>) = InWord(words, w)
  <2>1. "'" \in S /\ t1 \in Seq(S) /\ Splitting(t1) = InQuotes(words, w)
    BY <1>8
  <2> HIDE DEF t1
  <2>2. t1 \o <<"'">> \in Seq(S) /\ Splitting(t1 \o <<"'">>) = SplitNext(InQuotes(words, w), "'")
    BY <2>1, ReadOne
  <2> QED
    BY <2>2, Closes
<1> QED
  BY <1>10, <1>11, <1>12
Printed(parts, i) == (IF i = 1 THEN <<>> ELSE <<Blank>>) \o ShellQuote(parts[i])

\* A printed line is read one word after the other.
LEMMA ReadParts ==
  ASSUME NEW S, {"'", "\\", Blank} \subseteq S, NEW parts \in Seq(Seq(S)),
         \A i \in DOMAIN parts : \A j \in DOMAIN parts[i] : Literal(parts[i][j]),
         NEW flat, flat[0] = <<>>,
         \A i \in 1 .. Len(parts) : flat[i] = flat[i - 1] \o Printed(parts, i)
  PROVE  \A n \in 1 .. Len(parts) :
           /\ flat[n] \in Seq(S)
           /\ Splitting(flat[n]) = InWord(SubSeq(parts, 1, n - 1), parts[n])
<1> DEFINE Good(n) == /\ flat[n] \in Seq(S)
                      /\ Splitting(flat[n]) = InWord(SubSeq(parts, 1, n - 1), parts[n])
           P == {n \in Nat : n \in 1 .. Len(parts) => Good(n)}
<1>0. /\ Len(parts) \in Nat /\ DOMAIN parts = 1 .. Len(parts)
      /\ "'" \in S /\ "\\" \in S /\ Blank \in S
      /\ {"'", "\\"} \subseteq S
  OBVIOUS
<1>1. ASSUME NEW n \in 1 .. Len(parts)
      PROVE  parts[n] \in Seq(S) /\ \A j \in DOMAIN parts[n] : Literal(parts[n][j])
  BY <1>0
<1>2. 0 \in P
  OBVIOUS
<1>3. ASSUME NEW text \in Seq(S), NEW words, NEW n \in 1 .. Len(parts), Splitting(text) = Between(words)
      PROVE  /\ ShellQuote(parts[n]) \in Seq(S)
             /\ text \o ShellQuote(parts[n]) \in Seq(S)
             /\ Splitting(text \o ShellQuote(parts[n])) = InWord(words, parts[n])
  <2> DEFINE w == parts[n]
  <2>1. w \in Seq(S) /\ \A j \in DOMAIN w : Literal(w[j])
    BY <1>1
  <2> HIDE DEF w
  <2>2. /\ ShellQuote(w) \in Seq(S)
        /\ text \o ShellQuote(w) \in Seq(S)
        /\ Splitting(text \o ShellQuote(w)) = InWord(words, w)
    <3>1. {"'", "\\"} \subseteq S
      BY <1>0
    <3>2. text \in Seq(S) /\ Splitting(text) = Between(words)
      BY <1>3
    <3> QED
      BY <2>1, <3>1, <3>2, ReadWord, SMTT(90)
  <2> QED
    BY <2>2 DEF w
<1>4. ASSUME 1 \in 1 .. Len(parts) PROVE Good(1)
  <2> DEFINE q == ShellQuote(parts[1])
  <2>1. Splitting(<<>>) = Between(<<>>) /\ <<>> \in Seq(S)
    BY AtStart
  <2>2. q \in Seq(S) /\ <<>> \o q \in Seq(S) /\ Splitting(<<>> \o q) = InWord(<<>>, parts[1])
    BY <1>3, <1>4, <2>1, Zenon
  <2>3. flat[1] = <<>> \o (<<>> \o q)
    <3>1. Printed(parts, 1) = <<>> \o q
      BY DEF Printed
    <3>2. flat[1] = flat[0] \o Printed(parts, 1)
      <4>1. 1 - 1 = 0
        OBVIOUS
      <4>2. flat[1] = flat[1 - 1] \o Printed(parts, 1)
        BY <1>4, Zenon
      <4> QED
        BY <4>1, <4>2
    <3> QED
      BY <3>1, <3>2
  <2>4. SubSeq(parts, 1, 1 - 1) = <<>>
    OBVIOUS
  <2> HIDE DEF q
  <2>5. flat[1] = <<>> \o q
    BY <2>2, <2>3
  <2> QED
    BY <2>2, <2>4, <2>5
<1>5. ASSUME NEW n \in 1 .. Len(parts), n + 1 \in 1 .. Len(parts), Good(n) PROVE Good(n + 1)
  <2> DEFINE q == ShellQuote(parts[n + 1])
             t == flat[n]
             blank == <<Blank>>
             words == SubSeq(parts, 1, n)
  <2>1. t \in Seq(S) /\ Splitting(t) = InWord(SubSeq(parts, 1, n - 1), parts[n])
    BY <1>5
  <2>2. Append(SubSeq(parts, 1, n - 1), parts[n]) = words
    BY <1>0
  <2>3. t \o blank \in Seq(S) /\ Splitting(t \o blank) = Between(words)
    <3> HIDE DEF t, words
    <3>1. t \o blank \in Seq(S)
          /\ Splitting(t \o blank) = SplitNext(InWord(SubSeq(parts, 1, n - 1), parts[n]), Blank)
      BY <1>0, <2>1, ReadOne
    <3> QED
      BY <2>2, <3>1, Parts
  <2>4. q \in Seq(S) /\ (t \o blank) \o q \in Seq(S) /\ Splitting((t \o blank) \o q) = InWord(words, parts[n + 1])
    <3> HIDE DEF t, words, blank
    <3> QED
      BY <1>3, <1>5, <2>3
  <2>5. flat[n + 1] = t \o (blank \o q)
    <3>1. (n + 1) - 1 = n /\ n + 1 # 1
      BY <1>0
    <3> QED
      BY <1>5, <3>1 DEF Printed
  <2>6. (t \o blank) \o q = t \o (blank \o q)
    <3>1. ASSUME NEW a \in Seq(S), NEW b \in Seq(S), NEW d \in Seq(S)
          PROVE  (a \o b) \o d = a \o (b \o d)
      BY SMTT(60)
    <3>2. blank \in Seq(S)
      BY <1>0
    <3> HIDE DEF t, blank, q
    <3> QED
      BY <2>1, <2>4, <3>1, <3>2, Zenon
  <2>7. (n + 1) - 1 = n
    BY <1>0
  <2> HIDE DEF t, blank, q
  <2> QED
    BY <2>4, <2>5, <2>6, <2>7
<1>6. ASSUME NEW n \in P PROVE n + 1 \in P
  <2> HIDE DEF Good
  <2>1. ASSUME n + 1 \in 1 .. Len(parts) PROVE Good(n + 1)
    <3>1. CASE n = 0
      BY <1>4, <2>1, <3>1
    <3>2. CASE n # 0
      <4>1. n \in 1 .. Len(parts) /\ Good(n)
        BY <1>0, <2>1, <3>2
      <4> QED
        BY <1>5, <2>1, <4>1
    <3> QED
      BY <3>1, <3>2
  <2> QED
    BY <2>1
<1>7. P = Nat
  <2> HIDE DEF P
  <2>1. P \subseteq Nat
    BY DEF P
  <2> QED
    BY <1>2, <1>6, <2>1, Induction
<1>8. ASSUME NEW n \in 1 .. Len(parts) PROVE Good(n)
  <2>1. n \in Nat
    BY <1>0
  <2> HIDE DEF P
  <2>2. n \in P
    BY <1>7, <2>1
  <2> HIDE DEF Good
  <2> QED
    BY <2>2 DEF P
<1> QED
  BY <1>8

LEMMA WordsTyped ==
  ASSUME NEW S, NEW T, S \subseteq T,
         NEW e, e.runtime \in Seq(S), e.module \in Seq(S), e.args \in Seq(Seq(S))
  PROVE  /\ ToCommandParts(e) \in Seq(Seq(T))
         /\ Len(ToCommandParts(e)) \in Nat
         /\ Len(ToCommandParts(e)) >= 2
         /\ DOMAIN ToCommandParts(e) = 1 .. Len(ToCommandParts(e))
         /\ ToCommandParts(e)[1] = e.runtime
<1> DEFINE r == e.runtime
           m == e.module
           args == e.args
<1>1. r \in Seq(S) /\ m \in Seq(S) /\ args \in Seq(Seq(S)) /\ ToCommandParts(e) = <<r, m>> \o args
  BY DEF ToCommandParts
<1> HIDE DEF r, m, args
<1>2. Seq(S) \subseteq Seq(T)
  OBVIOUS
<1>3. Seq(Seq(S)) \subseteq Seq(Seq(T))
  <2> DEFINE A == Seq(S)
             B == Seq(T)
  <2>1. A \subseteq B
    BY <1>2
  <2> HIDE DEF A, B
  <2>2. Seq(A) \subseteq Seq(B)
    BY <2>1
  <2> QED
    BY <2>2 DEF A, B
<1>4. r \in Seq(T) /\ m \in Seq(T) /\ args \in Seq(Seq(T))
  BY <1>1, <1>2, <1>3
<1> DEFINE W == Seq(T)
<1>5. r \in W /\ m \in W /\ args \in Seq(W)
  BY <1>4
<1> HIDE DEF W
<1>6. /\ <<r, m>> \o args \in Seq(W)
      /\ Len(<<r, m>> \o args) = Len(args) + 2 /\ Len(args) \in Nat
      /\ (<<r, m>> \o args)[1] = r
  BY <1>5
<1> QED
  BY <1>1, <1>6 DEF r, W

LEMMA FrontAndLast ==
  ASSUME NEW S, NEW s \in Seq(S), Len(s) >= 1
  PROVE  Append(SubSeq(s, 1, Len(s) - 1), s[Len(s)]) = s
OBVIOUS

\* What ToExecStart() prints for the words of an Executable, the manager reads as
\* these words, if none of them has a newline or a backslash in it (executable.ts:
\* shellQuote, toExecStart).
THEOREM PrintedIsRead ==
  ASSUME NEW S, NEW e, e.runtime \in Seq(S), e.module \in Seq(S), e.args \in Seq(Seq(S)),
         \A i \in DOMAIN ToCommandParts(e) :
           \A j \in DOMAIN ToCommandParts(e)[i] : Literal(ToCommandParts(e)[i][j])
  PROVE  Split(ToExecStart(e)) = ToCommandParts(e)
<1> DEFINE All == S \cup {"'", "\\", Blank, NewLine}
           parts == ToCommandParts(e)
           seqs == [i \in DOMAIN parts |-> Printed(parts, i)]
           n == Len(parts)
<1>1. \A w \in Seq(S) : w \in Seq(All)
  OBVIOUS
<1>2. parts \in Seq(Seq(All)) /\ n \in Nat /\ n >= 2 /\ DOMAIN parts = 1 .. n
  <2>1. S \subseteq All
    OBVIOUS
  <2> HIDE DEF All
  <2> QED
    BY <2>1, WordsTyped
<1>3. {"'", "\\", Blank} \subseteq All /\ {"'", "\\"} \subseteq All /\ NewLine \in All
  OBVIOUS
<1>4. ToExecStart(e) = FlattenSeq(seqs)
  BY DEF ToExecStart, Printed
<1> HIDE DEF All, parts
<1>9. \A i \in DOMAIN parts : \A j \in DOMAIN parts[i] : Literal(parts[i][j])
  BY DEF parts
<1>5. \A i \in 1 .. n : Printed(parts, i) \in Seq(All)
  <2> SUFFICES ASSUME NEW i \in 1 .. n PROVE Printed(parts, i) \in Seq(All)
    OBVIOUS
  <2> DEFINE w == parts[i]
  <2>1. w \in Seq(All) /\ \A j \in DOMAIN w : Literal(w[j])
    <3>1. w \in Seq(All) /\ i \in DOMAIN parts
      BY <1>2
    <3> QED
      BY <1>9, <3>1
  <2>2. Splitting(<<>>) = Between(<<>>) /\ <<>> \in Seq(All)
    BY AtStart
  <2>3. ShellQuote(w) \in Seq(All)
    <3> HIDE DEF w
    <3> QED
      BY <1>3, <2>1, <2>2, ReadWord
  <2>4. (IF i = 1 THEN <<>> ELSE <<Blank>>) \in Seq(All)
    BY <1>3
  <2> QED
    BY <2>3, <2>4, ConcatProperties DEF Printed
<1>6. seqs \in Seq(Seq(All)) /\ Len(seqs) = n /\ \A i \in 1 .. n : seqs[i] = Printed(parts, i)
  <2>1. seqs = [i \in 1 .. n |-> Printed(parts, i)]
    BY <1>2
  <2> HIDE DEF n
  <2> QED
    BY <1>2, <1>5, <2>1
<1> HIDE DEF seqs
<1>7. PICK flat : /\ flat[0] = <<>>
                  /\ \A i \in 1 .. Len(seqs) : flat[i] = flat[i - 1] \o seqs[i]
                  /\ \A i \in 0 .. Len(seqs) : flat[i] \in Seq(All)
                  /\ FlattenSeq(seqs) = flat[Len(seqs)]
  BY <1>6, Flattened
<1>8. \A i \in 1 .. Len(parts) : flat[i] = flat[i - 1] \o Printed(parts, i)
  BY <1>6, <1>7
<1>10. flat[n] \in Seq(All) /\ Splitting(flat[n]) = InWord(SubSeq(parts, 1, n - 1), parts[n])
  <2>1. \A m \in 1 .. Len(parts) :
          /\ flat[m] \in Seq(All)
          /\ Splitting(flat[m]) = InWord(SubSeq(parts, 1, m - 1), parts[m])
    BY <1>2, <1>3, <1>7, <1>8, <1>9, ReadParts
  <2>2. n \in 1 .. Len(parts)
    BY <1>2
  <2> QED
    BY <2>1, <2>2
<1>11. Append(SubSeq(parts, 1, n - 1), parts[n]) = parts
  BY <1>2, FrontAndLast
<1>12. Splitting(Append(flat[n], NewLine)) = Over(parts)
  <2>1. Splitting(Append(flat[n], NewLine)) = SplitNext(InWord(SubSeq(parts, 1, n - 1), parts[n]), NewLine)
    BY <1>3, <1>10, SplittingSteps
  <2> QED
    BY <1>11, <2>1, Ends
<1>13. Split(flat[n]) = parts
  <2>1. Over(parts).words = parts
    BY DEF Over
  <2>2. Split(flat[n]) = Splitting(Append(flat[n], NewLine)).words
    BY Zenon DEF Split
  <2> QED
    BY <1>12, <2>1, <2>2
<1>14. ToExecStart(e) = flat[n]
  BY <1>4, <1>6, <1>7
<1> QED
  BY <1>13, <1>14 DEF parts

-----------------------------------------------------------------------------
Begins(word, p) == Len(p) <= Len(word) /\ \A i \in 1 .. Len(p) : word[i] = p[i]

\* The first word begins with p, whether it has ended or not, or there is none.
FirstBegins(s, p) ==
  \/ s.words = <<>> /\ s.open /\ Begins(s.word, p)
  \/ s.words # <<>> /\ Begins(s.words[1], p)
  \/ s.words = <<>> /\ s.mode = "over"

SplitStates(S) ==
  [words : Seq(Seq(S)), word : Seq(S), open : BOOLEAN, mode : {"", ";", "'", "\"", "over"},
   escaped : BOOLEAN]

\* What a character does to the words: it is taken, ends the word, or ends the command.
Taken(s, n) ==
  \/ /\ n.words = s.words
     /\ s.open => n.open /\ (n.word = s.word \/ \E c : n.word = Append(s.word, c))
  \/ n.words = Append(s.words, s.word) /\ s.open
  \/ n.words \in {s.words, <<>>} /\ n.mode = "over"

State(ws, w, o, m, e) == [words |-> ws, word |-> w, open |-> o, mode |-> m, escaped |-> e]

LEMMA StateTyped ==
  ASSUME NEW S, NEW ws \in Seq(Seq(S)), NEW w \in Seq(S), NEW o \in BOOLEAN,
         NEW m \in {"", ";", "'", "\"", "over"}, NEW e \in BOOLEAN
  PROVE  State(ws, w, o, m, e) \in SplitStates(S)
BY DEF State, SplitStates

LEMMA StateFields ==
  ASSUME NEW S, NEW s \in SplitStates(S)
  PROVE  /\ s = State(s.words, s.word, s.open, s.mode, s.escaped)
         /\ s.word \in Seq(S) /\ s.words \in Seq(Seq(S)) /\ s.open \in BOOLEAN
         /\ s.mode \in {"", ";", "'", "\"", "over"} /\ s.escaped \in BOOLEAN
<1>1. s \in [words : Seq(Seq(S)), word : Seq(S), open : BOOLEAN,
             mode : {"", ";", "'", "\"", "over"}, escaped : BOOLEAN]
  BY DEF SplitStates
<1> QED
  BY <1>1 DEF State

LEMMA Appended ==
  ASSUME NEW T, NEW s \in Seq(T), NEW x \in T
  PROVE  Append(s, x) \in Seq(T) /\ <<>> \in Seq(T) /\ <<x>> \in Seq(T)
OBVIOUS

\* What may become of a state is a state, and takes the character one of three ways.
LEMMA NextTyped ==
  ASSUME NEW S, NEW s \in SplitStates(S), NEW c \in S,
         NEW ws \in {s.words, <<>>, Append(s.words, s.word)},
         NEW w \in {s.word, <<>>, <<c>>, Append(s.word, c)},
         NEW o \in BOOLEAN, NEW m \in {"", ";", "'", "\"", "over"}, NEW e \in BOOLEAN
  PROVE  State(ws, w, o, m, e) \in SplitStates(S)
<1> DEFINE old == s.word
           olds == s.words
<1>1. old \in Seq(S) /\ olds \in Seq(Seq(S))
  BY StateFields
<1> HIDE DEF old, olds
<1>2. /\ Append(old, c) \in Seq(S) /\ Append(olds, old) \in Seq(Seq(S))
      /\ <<>> \in Seq(S) /\ <<c>> \in Seq(S) /\ <<>> \in Seq(Seq(S))
  BY <1>1, Appended, Zenon
<1>3. w \in Seq(S)
  BY <1>1, <1>2 DEF old
<1>4. ws \in Seq(Seq(S))
  BY <1>1, <1>2 DEF old, olds
<1> QED
  BY <1>3, <1>4, StateTyped

LEMMA CharCases ==
  ASSUME NEW S, NEW s \in SplitStates(S), NEW c \in S, s.mode # "over"
  PROVE  SplitChar(s, c) \in SplitStates(S) /\ Taken(s, SplitChar(s, c))
<1> DEFINE bare == s.mode \in {"", ";"}
           ws == s.words
           w == s.word
<1>0. /\ s.open \in BOOLEAN /\ s.escaped \in BOOLEAN
      /\ s.mode \in {"", ";", "'", "\""} /\ s = State(ws, w, s.open, s.mode, s.escaped)
  BY StateFields
<1>1. CASE c = "\\"
  <2>1. SplitChar(s, c) = State(ws, w, s.open, s.mode, TRUE)
    BY <1>0, <1>1, BlankIs, ModesDiffer DEF SplitChar, State
  <2>2. State(ws, w, s.open, s.mode, TRUE) \in SplitStates(S)
    BY <1>0, <1>1, NextTyped
  <2>3. Taken(s, State(ws, w, s.open, s.mode, TRUE))
    BY <1>1 DEF Taken, State
  <2> QED
    BY <2>1, <2>2, <2>3
<1>2. CASE c = NewLine /\ ~bare
  <2>1. SplitChar(s, c) = State(<<>>, <<>>, FALSE, "over", s.escaped)
    BY <1>0, <1>2, BlankIs, ModesDiffer DEF SplitChar, State
  <2>2. State(<<>>, <<>>, FALSE, "over", s.escaped) \in SplitStates(S)
    BY <1>0, <1>2, NextTyped
  <2>3. Taken(s, State(<<>>, <<>>, FALSE, "over", s.escaped))
    BY <1>2 DEF Taken, State
  <2> QED
    BY <2>1, <2>2, <2>3
<1>3. CASE c \in {Blank, NewLine} /\ s.mode = ";"
  <2>1. SplitChar(s, c) = State(ws, <<>>, FALSE, "over", s.escaped)
    BY <1>0, <1>3, BlankIs, ModesDiffer DEF SplitChar, State
  <2>2. State(ws, <<>>, FALSE, "over", s.escaped) \in SplitStates(S)
    BY <1>0, <1>3, NextTyped
  <2>3. Taken(s, State(ws, <<>>, FALSE, "over", s.escaped))
    BY <1>3 DEF Taken, State
  <2> QED
    BY <2>1, <2>2, <2>3
<1>4. CASE c = NewLine /\ s.mode = "" /\ s.open
  <2>1. SplitChar(s, c) = State(Append(ws, w), <<>>, FALSE, "over", s.escaped)
    BY <1>0, <1>4, BlankIs, ModesDiffer DEF SplitChar, State
  <2>2. State(Append(ws, w), <<>>, FALSE, "over", s.escaped) \in SplitStates(S)
    BY <1>0, <1>4, NextTyped
  <2>3. Taken(s, State(Append(ws, w), <<>>, FALSE, "over", s.escaped))
    BY <1>4 DEF Taken, State
  <2> QED
    BY <2>1, <2>2, <2>3
<1>5. CASE c = NewLine /\ s.mode = "" /\ ~s.open
  <2>1. SplitChar(s, c) = State(ws, <<>>, FALSE, "over", s.escaped)
    BY <1>0, <1>5, BlankIs, ModesDiffer DEF SplitChar, State
  <2>2. State(ws, <<>>, FALSE, "over", s.escaped) \in SplitStates(S)
    BY <1>0, <1>5, NextTyped
  <2>3. Taken(s, State(ws, <<>>, FALSE, "over", s.escaped))
    BY <1>5 DEF Taken, State
  <2> QED
    BY <2>1, <2>2, <2>3
<1>6. CASE c = Blank /\ s.mode = "" /\ s.open
  <2>1. SplitChar(s, c) = State(Append(ws, w), <<>>, FALSE, "", s.escaped)
    BY <1>0, <1>6, BlankIs, ModesDiffer DEF SplitChar, State
  <2>2. State(Append(ws, w), <<>>, FALSE, "", s.escaped) \in SplitStates(S)
    BY <1>0, <1>6, NextTyped
  <2>3. Taken(s, State(Append(ws, w), <<>>, FALSE, "", s.escaped))
    BY <1>6 DEF Taken, State
  <2> QED
    BY <2>1, <2>2, <2>3
<1>7. CASE c = Blank /\ s.mode = "" /\ ~s.open
  <2>1. SplitChar(s, c) = State(ws, w, s.open, s.mode, s.escaped)
    BY <1>0, <1>7, BlankIs, ModesDiffer DEF SplitChar, State
  <2>2. State(ws, w, s.open, s.mode, s.escaped) \in SplitStates(S)
    BY <1>0, <1>7, NextTyped
  <2>3. Taken(s, State(ws, w, s.open, s.mode, s.escaped))
    BY <1>7 DEF Taken, State
  <2> QED
    BY <2>1, <2>2, <2>3
<1>8. CASE c = s.mode /\ ~bare
  <2>1. SplitChar(s, c) = State(ws, w, s.open, "", s.escaped)
    BY <1>0, <1>8, BlankIs, ModesDiffer DEF SplitChar, State
  <2>2. State(ws, w, s.open, "", s.escaped) \in SplitStates(S)
    BY <1>0, <1>8, NextTyped
  <2>3. Taken(s, State(ws, w, s.open, "", s.escaped))
    BY <1>8 DEF Taken, State
  <2> QED
    BY <2>1, <2>2, <2>3
<1>9. CASE c \in {"'", "\""} /\ bare
  <2>1. SplitChar(s, c) = State(ws, w, TRUE, c, s.escaped)
    BY <1>0, <1>9, BlankIs, ModesDiffer DEF SplitChar, State
  <2>2. State(ws, w, TRUE, c, s.escaped) \in SplitStates(S)
    BY <1>0, <1>9, NextTyped
  <2>3. Taken(s, State(ws, w, TRUE, c, s.escaped))
    BY <1>9 DEF Taken, State
  <2> QED
    BY <2>1, <2>2, <2>3
<1>10. CASE c = ";" /\ s.mode = "" /\ ~s.open
  <2>1. SplitChar(s, c) = State(ws, <<c>>, TRUE, ";", s.escaped)
    BY <1>0, <1>10, BlankIs, ModesDiffer DEF SplitChar, State
  <2>2. State(ws, <<c>>, TRUE, ";", s.escaped) \in SplitStates(S)
    BY <1>0, <1>10, NextTyped
  <2>3. Taken(s, State(ws, <<c>>, TRUE, ";", s.escaped))
    BY <1>10 DEF Taken, State
  <2> QED
    BY <2>1, <2>2, <2>3
<1>11. CASE /\ c \notin {"\\", NewLine}
           /\ ~(c = Blank /\ s.mode \in {"", ";"})
           /\ ~(c = s.mode /\ ~bare)
           /\ ~(c \in {"'", "\""} /\ bare)
           /\ ~(c = ";" /\ s.mode = "" /\ ~s.open)
  <2>1. SplitChar(s, c) = State(ws, Append(w, c), TRUE, IF bare THEN "" ELSE s.mode, s.escaped)
    BY <1>0, <1>11, BlankIs, ModesDiffer DEF SplitChar, State
  <2>2. State(ws, Append(w, c), TRUE, IF bare THEN "" ELSE s.mode, s.escaped) \in SplitStates(S)
    BY <1>0, <1>11, NextTyped
  <2>3. Taken(s, State(ws, Append(w, c), TRUE, IF bare THEN "" ELSE s.mode, s.escaped))
    BY <1>11 DEF Taken, State
  <2> QED
    BY <2>1, <2>2, <2>3
<1> QED
  BY <1>0, <1>1, <1>2, <1>3, <1>4, <1>5, <1>6, <1>7, <1>8, <1>9, <1>10, <1>11

\* What SplitNext does: it takes the character, ends the word, or ends the command.
LEMMA SplitCases ==
  ASSUME NEW S, Blank \in S, NEW s \in SplitStates(S), NEW c \in S
  PROVE  SplitNext(s, c) \in SplitStates(S) /\ Taken(s, SplitNext(s, c))
<1>1. CASE s.mode = "over"
  BY <1>1 DEF SplitNext, Taken
<1>2. CASE s.mode # "over" /\ ~s.escaped
  BY <1>2, CharCases DEF SplitNext
<1>3. CASE s.mode # "over" /\ s.escaped /\ c = NewLine
  <2> DEFINE t == [s EXCEPT !.escaped = FALSE]
  <2>1. /\ t \in SplitStates(S) /\ t.mode = s.mode
        /\ t.words = s.words /\ t.word = s.word /\ t.open = s.open
    BY DEF SplitStates
  <2>2. SplitNext(s, c) = SplitChar(t, Blank)
    BY <1>3 DEF SplitNext
  <2> HIDE DEF t
  <2>3. SplitChar(t, Blank) \in SplitStates(S) /\ Taken(t, SplitChar(t, Blank))
    BY <1>3, <2>1, CharCases
  <2> QED
    BY <2>1, <2>2, <2>3 DEF Taken
<1>4. CASE s.mode # "over" /\ s.escaped /\ c # NewLine
  <2> DEFINE m == IF s.mode = ";" THEN "" ELSE s.mode
             n == State(s.words, Append(s.word, c), TRUE, m, FALSE)
  <2>0. s = State(s.words, s.word, s.open, s.mode, s.escaped)
    BY StateFields
  <2>1. SplitNext(s, c) = n
    BY <1>4, <2>0 DEF SplitNext, State
  <2>2. m \in {"", "'", "\"", "over"}
    BY StateFields
  <2>3. n \in SplitStates(S)
    <3> HIDE DEF m
    <3> QED
      BY <2>2, NextTyped
  <2>4. Taken(s, n)
    BY DEF Taken, State
  <2> QED
    BY <2>1, <2>3, <2>4
<1> QED
  BY <1>1, <1>2, <1>3, <1>4, StateFields

LEMMA BeginsKept ==
  ASSUME NEW S, NEW word \in Seq(S), NEW c, NEW p \in Seq(S), Begins(word, p)
  PROVE  Begins(Append(word, c), p)
<1>1. /\ Len(word) \in Nat /\ Len(p) \in Nat
      /\ Len(Append(word, c)) = Len(word) + 1
      /\ \A i \in 1 .. Len(word) : Append(word, c)[i] = word[i]
  OBVIOUS
<1> QED
  BY <1>1 DEF Begins

LEMMA FirstBeginsKept ==
  ASSUME NEW S, Blank \in S, NEW s \in SplitStates(S), NEW c \in S, NEW p \in Seq(S),
         FirstBegins(s, p)
  PROVE  FirstBegins(SplitNext(s, c), p)
<1> DEFINE n == SplitNext(s, c)
<1>1. n \in SplitStates(S) /\ Taken(s, n) /\ (s.mode = "over" => n = s)
  BY SplitCases DEF SplitNext
<1> HIDE DEF n
<1>2. s.word \in Seq(S) /\ s.words \in Seq(Seq(S))
  BY DEF SplitStates
<1>3. CASE /\ n.words = s.words
           /\ s.open => n.open /\ (n.word = s.word \/ \E d : n.word = Append(s.word, d))
  <2>1. ASSUME s.open, Begins(s.word, p) PROVE Begins(n.word, p)
    <3>1. CASE n.word = s.word
      BY <2>1, <3>1
    <3>2. ASSUME NEW d, n.word = Append(s.word, d) PROVE Begins(n.word, p)
      <4> DEFINE v == s.word
      <4>1. v \in Seq(S) /\ Begins(v, p)
        BY <1>2, <2>1
      <4> HIDE DEF v
      <4>2. Begins(Append(v, d), p)
        BY <4>1, BeginsKept
      <4> QED
        BY <3>2, <4>2 DEF v
    <3> QED
      BY <1>3, <2>1, <3>1, <3>2
  <2> QED
    BY <1>1, <1>3, <2>1 DEF FirstBegins, n
<1>4. CASE n.words = Append(s.words, s.word) /\ s.open
  <2>1. n.words # <<>>
    <3>1. Len(n.words) = Len(s.words) + 1 /\ Len(s.words) \in Nat
      BY <1>2, <1>4
    <3> QED
      BY <3>1
  <2>2. CASE s.words = <<>>
    <3>1. n.words[1] = s.word
      BY <1>2, <1>4, <2>2
    <3> QED
      BY <1>1, <2>1, <2>2, <3>1 DEF FirstBegins, n
  <2>3. CASE s.words # <<>>
    <3>1. n.words[1] = s.words[1]
      BY <1>2, <1>4, <2>3
    <3> QED
      BY <2>1, <2>3, <3>1 DEF FirstBegins, n
  <2> QED
    BY <2>2, <2>3
<1>5. CASE n.words \in {s.words, <<>>} /\ n.mode = "over"
  BY <1>5 DEF FirstBegins, n
<1> QED
  BY <1>1, <1>3, <1>4, <1>5 DEF Taken

LEMMA SplittingTyped ==
  ASSUME NEW S, Blank \in S, NEW text \in Seq(S)
  PROVE  Splitting(text) \in SplitStates(S)
<1> DEFINE At(n) == Splitting(SubSeq(text, 1, n))
           P == {n \in Nat : n <= Len(text) => At(n) \in SplitStates(S)}
<1>0. Len(text) \in Nat
  OBVIOUS
<1>1. 0 \in P
  <2>1. SubSeq(text, 1, 0) = <<>>
    OBVIOUS
  <2>2. At(0) = Between(<<>>)
    BY <2>1, AtStart
  <2>3. Between(<<>>) \in SplitStates(S)
    BY DEF Between, SplitStates
  <2> QED
    BY <2>2, <2>3
<1>2. ASSUME NEW n \in P PROVE n + 1 \in P
  <2>1. ASSUME n + 1 <= Len(text) PROVE At(n + 1) \in SplitStates(S)
    <3>1. /\ SubSeq(text, 1, n) \in Seq(S) /\ text[n + 1] \in S
          /\ SubSeq(text, 1, n + 1) = Append(SubSeq(text, 1, n), text[n + 1])
      BY <1>0, <2>1
    <3>2. At(n + 1) = SplitNext(At(n), text[n + 1])
      BY <3>1, SplittingSteps
    <3>3. At(n) \in SplitStates(S)
      BY <1>0, <2>1
    <3> HIDE DEF At
    <3> QED
      BY <3>1, <3>2, <3>3, SplitCases
  <2> QED
    BY <2>1
<1>3. P = Nat
  <2> HIDE DEF P
  <2>1. P \subseteq Nat
    BY DEF P
  <2> QED
    BY <1>1, <1>2, <2>1, Induction
<1>4. At(Len(text)) \in SplitStates(S)
  <2>1. Len(text) \in P
    BY <1>0, <1>3
  <2> HIDE DEF At
  <2> QED
    BY <1>0, <2>1
<1>5. SubSeq(text, 1, Len(text)) = text
  OBVIOUS
<1> QED
  BY <1>4, <1>5

LEMMA SplitTyped ==
  ASSUME NEW S, Blank \in S, NewLine \in S, NEW text \in Seq(S)
  PROVE  Split(text) \in Seq(Seq(S))
<1>1. Append(text, NewLine) \in Seq(S)
  OBVIOUS
<1>2. Splitting(Append(text, NewLine)) \in SplitStates(S)
  BY <1>1, SplittingTyped
<1>3. Split(text) = Splitting(Append(text, NewLine)).words
  BY Zenon DEF Split
<1> QED
  BY <1>2, <1>3 DEF SplitStates

\* What the first word begins with, it begins with to the end.
LEMMA FirstBeginsOn ==
  ASSUME NEW S, Blank \in S, NEW text \in Seq(S), NEW p \in Seq(S), NEW m \in 0 .. Len(text),
         FirstBegins(Splitting(SubSeq(text, 1, m)), p)
  PROVE  FirstBegins(Splitting(text), p)
<1> DEFINE At(n) == Splitting(SubSeq(text, 1, n))
           P == {n \in Nat : m <= n /\ n <= Len(text) => FirstBegins(At(n), p)}
<1>0. Len(text) \in Nat /\ m \in Nat /\ m <= Len(text) /\ FirstBegins(At(m), p)
  OBVIOUS
<1>1. ASSUME NEW n \in Nat, n + 1 <= Len(text)
      PROVE  /\ At(n) \in SplitStates(S) /\ text[n + 1] \in S
             /\ At(n + 1) = SplitNext(At(n), text[n + 1])
  <2>1. /\ SubSeq(text, 1, n) \in Seq(S) /\ text[n + 1] \in S
        /\ SubSeq(text, 1, n + 1) = Append(SubSeq(text, 1, n), text[n + 1])
    BY <1>0, <1>1
  <2> QED
    BY <2>1, SplittingSteps, SplittingTyped
<1> HIDE DEF At
<1>2. 0 \in P
  <2>1. m <= 0 => m = 0
    BY <1>0
  <2> QED
    BY <1>0, <2>1
<1>3. ASSUME NEW n \in P PROVE n + 1 \in P
  <2>1. ASSUME m <= n + 1, n + 1 <= Len(text) PROVE FirstBegins(At(n + 1), p)
    <3>1. n \in Nat /\ n <= Len(text) /\ (m <= n => FirstBegins(At(n), p))
      BY <1>0, <2>1
    <3>2. /\ At(n) \in SplitStates(S) /\ text[n + 1] \in S
          /\ At(n + 1) = SplitNext(At(n), text[n + 1])
      BY <1>1, <2>1, <3>1
    <3>3. ASSUME m <= n PROVE FirstBegins(At(n + 1), p)
      BY <3>1, <3>2, <3>3, FirstBeginsKept
    <3>4. m <= n \/ m = n + 1
      BY <1>0, <2>1, <3>1
    <3> QED
      BY <1>0, <3>3, <3>4
  <2> QED
    BY <2>1
<1>4. P = Nat
  <2> HIDE DEF P
  <2>1. P \subseteq Nat
    BY DEF P
  <2> QED
    BY <1>2, <1>3, <2>1, Induction
<1>5. FirstBegins(At(Len(text)), p)
  <2>1. Len(text) \in P
    BY <1>0, <1>4
  <2> QED
    BY <1>0, <2>1
<1>6. SubSeq(text, 1, Len(text)) = text
  OBVIOUS
<1> QED
  BY <1>5, <1>6 DEF At

LEMMA AppendSubSeq ==
  ASSUME NEW S, NEW text \in Seq(S), NEW c \in S, NEW m \in 0 .. Len(text)
  PROVE  SubSeq(Append(text, c), 1, m) = SubSeq(text, 1, m)
OBVIOUS

\* The words begin as the text does.
LEMMA SplitBegins ==
  ASSUME NEW S, Blank \in S, NewLine \in S, NEW text \in Seq(S), NEW p \in Seq(S), NEW m \in 0 .. Len(text),
         FirstBegins(Splitting(SubSeq(text, 1, m)), p),
         Split(text) # <<>>
  PROVE  Begins(Split(text)[1], p)
<1> DEFINE longer == Append(text, NewLine)
<1>1. longer \in Seq(S) /\ m \in 0 .. Len(longer) /\ SubSeq(longer, 1, m) = SubSeq(text, 1, m)
  <2>1. longer \in Seq(S) /\ m \in 0 .. Len(longer)
    OBVIOUS
  <2> QED
    BY <2>1, AppendSubSeq
<1>2. FirstBegins(Splitting(longer), p)
  <2> HIDE DEF longer
  <2> QED
    BY <1>1, FirstBeginsOn
<1>3. Split(text) = Splitting(longer).words
  BY Zenon DEF Split
<1> QED
  BY <1>2, <1>3 DEF FirstBegins

\* Characters without a meaning of their own.
Ordinary(c) == c \notin {"\\", "'", "\"", ";", Blank, NewLine}

LEMMA Begun ==
  ASSUME NEW words, NEW c, Ordinary(c)
  PROVE  SplitNext(Between(words), c) = InWord(words, Append(<<>>, c))
BY BlankIs, ModesDiffer DEF Ordinary, SplitNext, SplitChar, Between, InWord

LEMMA GoneOn ==
  ASSUME NEW words, NEW word, NEW c, Ordinary(c)
  PROVE  SplitNext(InWord(words, word), c) = InWord(words, Append(word, c))
BY BlankIs, ModesDiffer DEF Ordinary, SplitNext, SplitChar, InWord

\* Such characters are the beginning of the first word.
LEMMA LineBegins ==
  ASSUME NEW S, Blank \in S, NewLine \in S, NEW text \in Seq(S), NEW k \in 1 .. Len(text),
         \A i \in 1 .. k : Ordinary(text[i]),
         Split(text) # <<>>
  PROVE  Begins(Split(text)[1], SubSeq(text, 1, k))
<1> DEFINE At(n) == Splitting(SubSeq(text, 1, n))
           Good(n) == At(n) = IF n = 0 THEN Between(<<>>) ELSE InWord(<<>>, SubSeq(text, 1, n))
           P == {n \in Nat : n <= k => Good(n)}
<1>0. Len(text) \in Nat /\ k \in Nat /\ 1 <= k /\ k <= Len(text)
  OBVIOUS
<1>1. Good(0)
  <2>1. SubSeq(text, 1, 0) = <<>>
    OBVIOUS
  <2> QED
    BY <2>1, AtStart
<1>2. ASSUME NEW n \in Nat, n + 1 <= k, Good(n) PROVE Good(n + 1)
  <2> DEFINE c == text[n + 1]
  <2>1. /\ SubSeq(text, 1, n) \in Seq(S) /\ c \in S
        /\ SubSeq(text, 1, n + 1) = Append(SubSeq(text, 1, n), c)
        /\ Ordinary(c)
    BY <1>0, <1>2
  <2>2. At(n + 1) = SplitNext(At(n), c)
    BY <2>1, SplittingSteps
  <2> HIDE DEF c
  <2>3. CASE n = 0
    <3>1. SplitNext(Between(<<>>), c) = InWord(<<>>, Append(<<>>, c))
      BY <2>1, Begun
    <3>2. SubSeq(text, 1, 0) = <<>>
      OBVIOUS
    <3>3. At(n) = Between(<<>>) /\ SubSeq(text, 1, n) = <<>>
      BY <1>2, <2>3, <3>2
    <3>4. SubSeq(text, 1, n + 1) = Append(<<>>, c) /\ n + 1 # 0
      <4>1. SubSeq(text, 1, n + 1) = Append(SubSeq(text, 1, n), c)
        BY <2>1
      <4>2. n + 1 # 0
        OBVIOUS
      <4> QED
        BY <3>3, <4>1, <4>2, Zenon
    <3> HIDE DEF At
    <3> QED
      BY <2>2, <3>1, <3>3, <3>4
  <2>4. CASE n # 0
    <3> DEFINE v == SubSeq(text, 1, n)
    <3>1. SplitNext(InWord(<<>>, v), c) = InWord(<<>>, Append(v, c))
      <4>1. Ordinary(c)
        BY <2>1
      <4> HIDE DEF v
      <4> QED
        BY <4>1, GoneOn
    <3>2. At(n) = InWord(<<>>, v) /\ n + 1 # 0
      BY <1>2, <2>4
    <3> HIDE DEF At
    <3> QED
      BY <2>1, <2>2, <3>1, <3>2
  <2> QED
    BY <2>3, <2>4
<1> HIDE DEF Good
<1>3. 0 \in P
  BY <1>1
<1>4. ASSUME NEW n \in P PROVE n + 1 \in P
  <2>1. n \in Nat /\ (n + 1 <= k => n <= k)
    BY <1>0
  <2> QED
    BY <1>2, <2>1
<1>5. P = Nat
  <2> HIDE DEF P
  <2>1. P \subseteq Nat
    BY DEF P
  <2> QED
    BY <1>3, <1>4, <2>1, Induction
<1> DEFINE p == SubSeq(text, 1, k)
<1>6. Splitting(p) = InWord(<<>>, p)
  <2>1. k \in P
    BY <1>0, <1>5
  <2>2. Good(k)
    BY <1>0, <2>1
  <2> QED
    BY <1>0, <2>2 DEF Good
<1>7. p \in Seq(S) /\ k \in 0 .. Len(text)
  BY <1>0
<1> HIDE DEF p
<1>8. FirstBegins(Splitting(p), p)
  <2>1. Begins(p, p)
    BY <1>7 DEF Begins
  <2> QED
    <3> DEFINE s == InWord(<<>>, p)
    <3>1. s.words = <<>> /\ s.open /\ s.word = p
      BY DEF InWord
    <3> HIDE DEF s
    <3>2. FirstBegins(s, p)
      BY <2>1, <3>1 DEF FirstBegins
    <3> QED
      BY <1>6, <3>2 DEF s
<1> QED
  BY <1>7, <1>8, SplitBegins DEF p

\* A flattened sequence begins with its first part.
LEMMA FlattenBegins ==
  ASSUME NEW S, NEW seqs \in Seq(Seq(S)), Len(seqs) >= 1, NEW p \in Seq(S), Begins(seqs[1], p)
  PROVE  FlattenSeq(seqs) \in Seq(S) /\ Begins(FlattenSeq(seqs), p)
<1>0. Len(seqs) \in Nat /\ 1 \in 1 .. Len(seqs) /\ \A i \in 1 .. Len(seqs) : seqs[i] \in Seq(S)
  OBVIOUS
<1>1. PICK flat : /\ flat[0] = <<>>
                  /\ \A i \in 1 .. Len(seqs) : flat[i] = flat[i - 1] \o seqs[i]
                  /\ \A i \in 0 .. Len(seqs) : flat[i] \in Seq(S)
                  /\ FlattenSeq(seqs) = flat[Len(seqs)]
  BY Flattened
<1> DEFINE P == {n \in Nat : n \in 1 .. Len(seqs) => Begins(flat[n], p)}
<1>2. 0 \in P
  OBVIOUS
<1>3. ASSUME NEW n \in P PROVE n + 1 \in P
  <2>1. ASSUME n + 1 \in 1 .. Len(seqs) PROVE Begins(flat[n + 1], p)
    <3>0. n \in Nat /\ (n + 1) - 1 = n /\ (n \in 1 .. Len(seqs) => Begins(flat[n], p))
      OBVIOUS
    <3>1. flat[n + 1] = flat[n] \o seqs[n + 1] /\ flat[n] \in Seq(S) /\ seqs[n + 1] \in Seq(S)
      <4>1. n \in 0 .. Len(seqs)
        BY <1>0, <2>1, <3>0
      <4>2. flat[n + 1] = flat[(n + 1) - 1] \o seqs[n + 1]
        BY <1>1, <2>1, Zenon
      <4> QED
        BY <1>0, <1>1, <2>1, <3>0, <4>1, <4>2
    <3>2. CASE n = 0
      <4>1. flat[n] = <<>> /\ n + 1 = 1
        BY <1>1, <3>2
      <4>2. flat[n + 1] = <<>> \o seqs[1] /\ seqs[1] \in Seq(S)
        BY <3>1, <4>1
      <4>3. flat[n + 1] = seqs[1]
        BY <4>2
      <4> QED
        BY <4>3
    <3>3. CASE n # 0
      <4>1. Begins(flat[n], p)
        BY <1>0, <2>1, <3>0, <3>3
      <4> DEFINE a == flat[n]
                 b == seqs[n + 1]
      <4>2. a \in Seq(S) /\ b \in Seq(S) /\ Begins(a, p)
        BY <3>1, <4>1
      <4> HIDE DEF a, b
      <4>3. Begins(a \o b, p)
        BY <4>2 DEF Begins
      <4> QED
        BY <3>1, <4>3 DEF a, b
    <3> QED
      BY <3>2, <3>3
  <2> QED
    BY <2>1
<1>4. P = Nat
  <2> HIDE DEF P
  <2>1. P \subseteq Nat
    BY DEF P
  <2> QED
    BY <1>2, <1>3, <2>1, Induction
<1>5. Begins(flat[Len(seqs)], p)
  <2>1. Len(seqs) \in P /\ Len(seqs) \in 1 .. Len(seqs)
    BY <1>0, <1>4
  <2> QED
    BY <2>1
<1>6. flat[Len(seqs)] \in Seq(S)
  <2>1. Len(seqs) \in 0 .. Len(seqs)
    BY <1>0
  <2> QED
    BY <1>1, <2>1, Zenon
<1> QED
  BY <1>1, <1>5, <1>6, Zenon

LEMMA Quotes ==
  ASSUME NEW S, {"'", "\\"} \subseteq S, NEW w \in Seq(S)
  PROVE  /\ ShellQuote(w) \in Seq(S)
         /\ w # <<>> /\ w[1] # "'" => Begins(ShellQuote(w), <<"'", w[1]>>)
<1> DEFINE seqs == [i \in DOMAIN w |-> Quoted(w[i])]
           open == <<"'">>
<1>0. Len(w) \in Nat /\ DOMAIN w = 1 .. Len(w) /\ open \in Seq(S)
  OBVIOUS
<1>1. seqs \in Seq(Seq(S)) /\ Len(seqs) = Len(w) /\ \A i \in 1 .. Len(w) : seqs[i] = Quoted(w[i])
  <2>1. \A i \in 1 .. Len(w) : Quoted(w[i]) \in Seq(S)
    BY <1>0 DEF Quoted
  <2>2. seqs = [i \in 1 .. Len(w) |-> Quoted(w[i])]
    BY <1>0
  <2> QED
    BY <1>0, <2>1, <2>2
<1>2. ShellQuote(w) = open \o FlattenSeq(seqs) \o open
  BY DEF ShellQuote, Quoted
<1> HIDE DEF seqs
<1>3. FlattenSeq(seqs) \in Seq(S)
  <2>1. PICK flat : /\ flat[0] = <<>>
                    /\ \A i \in 1 .. Len(seqs) : flat[i] = flat[i - 1] \o seqs[i]
                    /\ \A i \in 0 .. Len(seqs) : flat[i] \in Seq(S)
                    /\ FlattenSeq(seqs) = flat[Len(seqs)]
    BY <1>1, Flattened
  <2>2. Len(seqs) \in 0 .. Len(seqs)
    BY <1>0, <1>1
  <2> QED
    BY <2>1, <2>2
<1> DEFINE f == FlattenSeq(seqs)
<1>4. f \in Seq(S) /\ ShellQuote(w) = open \o f \o open
  BY <1>2, <1>3
<1>5. ASSUME w # <<>>, w[1] # "'" PROVE Begins(ShellQuote(w), <<"'", w[1]>>)
  <2> DEFINE c == w[1]
  <2>1. Len(seqs) >= 1 /\ seqs[1] = <<c>> /\ c \in S
    <3>1. Len(w) >= 1
      BY <1>0, <1>5
    <3>2. Quoted(w[1]) = <<w[1]>>
      BY <1>5 DEF Quoted
    <3> QED
      BY <1>0, <1>1, <3>1, <3>2
  <2>2. Begins(f, <<c>>)
    <3> HIDE DEF c
    <3>1. <<c>> \in Seq(S) /\ Begins(seqs[1], <<c>>)
      BY <2>1 DEF Begins
    <3> QED
      BY <1>1, <2>1, <3>1, FlattenBegins
  <2> HIDE DEF f, c
  <2>3. Len(f) \in Nat /\ Len(f) >= 1 /\ f[1] = c
    BY <1>4, <2>2 DEF Begins
  <2>4. Begins(open \o f \o open, <<"'", c>>)
    <3> DEFINE t == open \o f \o open
    <3>1. Len(t) >= 2 /\ t[1] = "'" /\ t[2] = c
      BY <1>0, <1>4, <2>3
    <3> HIDE DEF t
    <3> DEFINE z == <<"'", c>>
    <3>2. Len(z) = 2 /\ z[1] = "'" /\ z[2] = c
      OBVIOUS
    <3> HIDE DEF z
    <3>3. \A i \in 1 .. 2 : i = 1 \/ i = 2
      OBVIOUS
    <3>4. Begins(t, z)
      BY <3>1, <3>2, <3>3 DEF Begins
    <3> QED
      BY <3>4 DEF t, z
  <2> QED
    BY <1>4, <2>4 DEF c
<1> HIDE DEF f, open
<1>6. ShellQuote(w) \in Seq(S)
  BY <1>0, <1>4
<1> QED
  BY <1>5, <1>6

\* The first of the words ToExecStart() prints begins as the first of the words it was given.
LEMMA ProgramBegins ==
  ASSUME NEW S, NEW e, e.runtime \in Seq(S), e.module \in Seq(S), e.args \in Seq(Seq(S)),
         e.runtime # <<>>, e.runtime[1] = "/",
         Split(ToExecStart(e)) # <<>>
  PROVE  /\ Begins(Split(ToExecStart(e))[1], <<"/">>)
         /\ Split(ToExecStart(e))[1] \in Seq(S \cup {"'", "\\", Blank, NewLine, "/"})
<1> DEFINE All == S \cup {"'", "\\", Blank, NewLine, "/"}
           parts == ToCommandParts(e)
           seqs == [i \in DOMAIN parts |-> Printed(parts, i)]
           n == Len(parts)
           text == ToExecStart(e)
<1>1. \A w \in Seq(S) : w \in Seq(All)
  OBVIOUS
<1>2. parts \in Seq(Seq(All)) /\ n \in Nat /\ n >= 2 /\ DOMAIN parts = 1 .. n /\ parts[1] = e.runtime
  <2>1. S \subseteq All
    OBVIOUS
  <2> HIDE DEF All
  <2> QED
    BY <2>1, WordsTyped
<1>3. {"'", "\\"} \subseteq All /\ Blank \in All /\ NewLine \in All /\ "'" \in All /\ "/" \in All
  OBVIOUS
<1>4. text = FlattenSeq(seqs)
  BY DEF ToExecStart, Printed
<1> HIDE DEF All, parts, text
<1>5. \A i \in 1 .. n : Printed(parts, i) \in Seq(All)
  <2> SUFFICES ASSUME NEW i \in 1 .. n PROVE Printed(parts, i) \in Seq(All)
    OBVIOUS
  <2>1. ShellQuote(parts[i]) \in Seq(All)
    <3>1. parts[i] \in Seq(All)
      BY <1>2
    <3> QED
      BY <1>3, <3>1, Quotes
  <2>2. (IF i = 1 THEN <<>> ELSE <<Blank>>) \in Seq(All)
    BY <1>3
  <2> QED
    BY <2>1, <2>2, ConcatProperties DEF Printed
<1>6. seqs \in Seq(Seq(All)) /\ Len(seqs) = n /\ \A i \in 1 .. n : seqs[i] = Printed(parts, i)
  <2> DEFINE W == Seq(All)
  <2>1. /\ seqs = [i \in 1 .. n |-> Printed(parts, i)]
        /\ \A i \in 1 .. n : Printed(parts, i) \in W
        /\ n \in Nat
    BY <1>2, <1>5
  <2> HIDE DEF n, W, seqs
  <2>2. seqs \in Seq(W) /\ Len(seqs) = n /\ \A i \in 1 .. n : seqs[i] = Printed(parts, i)
    BY <2>1
  <2> QED
    BY <2>2 DEF W
<1> HIDE DEF seqs
<1> DEFINE p == <<"'", "/">>
<1>7. p \in Seq(All)
  BY <1>3
<1>8. Begins(seqs[1], p)
  <2> DEFINE q == ShellQuote(parts[1])
  <2>1. q \in Seq(All) /\ Begins(q, p)
    <3>1. parts[1] \in Seq(All) /\ parts[1] # <<>> /\ parts[1][1] = "/"
      BY <1>2
    <3> DEFINE w == parts[1]
    <3> HIDE DEF w
    <3>2. ShellQuote(w) \in Seq(All) /\ Begins(ShellQuote(w), <<"'", w[1]>>)
      BY <1>3, <3>1, Quotes DEF w
    <3> QED
      BY <3>1, <3>2 DEF w
  <2>2. seqs[1] = <<>> \o q
    <3>1. seqs[1] = Printed(parts, 1)
      BY <1>2, <1>6
    <3> QED
      BY <3>1 DEF Printed
  <2> HIDE DEF q
  <2>3. <<>> \o q = q
    BY <2>1
  <2> QED
    BY <2>1, <2>2, <2>3
<1>9. text \in Seq(All) /\ Begins(text, p)
  <2> HIDE DEF p
  <2>1. Len(seqs) >= 1
    BY <1>2, <1>6
  <2> QED
    BY <1>4, <1>6, <1>7, <1>8, <2>1, FlattenBegins
<1>10. Len(text) >= 2 /\ Len(text) \in Nat /\ SubSeq(text, 1, 2) = Append(Append(<<>>, "'"), "/")
  <2>1. Len(text) >= 2 /\ text[1] = "'" /\ text[2] = "/" /\ Len(text) \in Nat
    <3> DEFINE m == Len(text)
    <3>1. m \in Nat
      BY <1>9
    <3>2. Len(p) = 2 /\ p[1] = "'" /\ p[2] = "/"
      OBVIOUS
    <3>3. 1 \in 1 .. 2 /\ 2 \in 1 .. 2
      OBVIOUS
    <3> HIDE DEF p
    <3> QED
      BY <1>9, <3>1, <3>2, <3>3 DEF Begins
  <2>2. /\ SubSeq(text, 1, 0) = <<>> /\ SubSeq(text, 1, 1) = Append(SubSeq(text, 1, 0), text[1])
        /\ SubSeq(text, 1, 2) = Append(SubSeq(text, 1, 1), text[2])
    BY <1>9, <2>1
  <2> QED
    BY <2>1, <2>2
<1>11. Splitting(SubSeq(text, 1, 2)) = InQuotes(<<>>, Append(<<>>, "/"))
  <2>1. <<>> \in Seq(All) /\ Append(<<>>, "'") \in Seq(All)
    BY <1>3
  <2>2. Splitting(Append(<<>>, "'")) = SplitNext(Splitting(<<>>), "'")
    BY <1>3, <2>1, SplittingSteps
  <2>3. Splitting(Append(<<>>, "'")) = InQuotes(<<>>, <<>>)
    BY <2>2, AtStart, Opens
  <2>4. Splitting(Append(Append(<<>>, "'"), "/")) = SplitNext(InQuotes(<<>>, <<>>), "/")
    BY <1>3, <2>1, <2>3, SplittingSteps
  <2>5. "/" \notin {"'", "\\", NewLine}
    BY Zenon DEF NewLine
  <2>6. SplitNext(InQuotes(<<>>, <<>>), "/") = InQuotes(<<>>, Append(<<>>, "/"))
    BY <2>5, Takes
  <2> QED
    BY <1>10, <2>4, <2>6
<1>12. FirstBegins(Splitting(SubSeq(text, 1, 2)), <<"/">>)
  <2> DEFINE s == InQuotes(<<>>, Append(<<>>, "/"))
  <2>1. s.words = <<>> /\ s.open /\ s.word = <<"/">>
    BY DEF InQuotes
  <2>2. Begins(<<"/">>, <<"/">>)
    BY DEF Begins
  <2> HIDE DEF s
  <2>3. FirstBegins(s, <<"/">>)
    BY <2>1, <2>2 DEF FirstBegins
  <2> QED
    BY <1>11, <2>3 DEF s
<1>13. <<"/">> \in Seq(All) /\ 2 \in 0 .. Len(text)
  BY <1>3, <1>10
<1>14. Begins(Split(text)[1], <<"/">>)
  <2>1. Split(text) # <<>>
    BY DEF text
  <2> QED
    BY <1>3, <1>9, <1>12, <1>13, <2>1, SplitBegins
<1>15. Split(text)[1] \in Seq(All)
  <2>1. Split(text) \in Seq(Seq(All)) /\ Split(text) # <<>>
    BY <1>3, <1>9, SplitTyped DEF text
  <2> DEFINE ws == Split(text)
             W == Seq(All)
  <2>2. ws \in Seq(W) /\ ws # <<>>
    BY <2>1
  <2> HIDE DEF ws, W
  <2>3. ws[1] \in W
    BY <2>2
  <2> QED
    BY <2>3 DEF ws, W
<1> QED
  BY <1>14, <1>15 DEF text, All
=============================================================================
