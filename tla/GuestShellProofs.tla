-------------------------- MODULE GuestShellProofs ---------------------------
(***************************************************************************)
(* Why no call is forgotten, the warm shell always takes commands and each *)
(* caller gets its own output, for any number of commands and shells: the  *)
(* calls that wait are those that a shell holds, each once, and only       *)
(* shells that are up hold any; whoever closes a shell, or hears of its    *)
(* exit, forgets the warm one; and of a shell that takes commands, what    *)
(* was said and not yet handed out is the answer to its current command,   *)
(* after at most the ends of earlier status lines that a chunk cut off.    *)
(***************************************************************************)
EXTENDS GuestShell, FiniteSetTheorems, SequenceTheorems, TLAPS

Up == (1 .. made) \ gone

\* Only shells that were made are closed or exit, and only those that are up hold
\* calls.
Made ==
  /\ closed \cup gone \subseteq 1 .. made
  /\ \A s \in Shells \ Up : current[s] = Nothing /\ queue[s] = <<>>

\* A call waits when, and only when, a shell holds it.
Waited == \A c \in Commands : state[c] = "waiting" <=> \E s \in Shells : c \in Held(s)

\* No two shells hold the same call.
Apart == \A s, r \in Shells : s # r => Held(s) \cap Held(r) = {}

\* No shell holds a call twice.
Once == \A s \in Shells : IsInjective(queue[s]) /\ current[s] \notin ToSet(queue[s])

\* The inductive invariant.
Inv == TypeOK /\ Made /\ WarmIsLive /\ Waited /\ Apart /\ Once

\* A piece of a sequence holds nothing else than the sequence.
LEMMA SubSeqType ==
  ASSUME NEW S, NEW s \in Seq(S), NEW m \in Nat \ {0}, NEW n \in 0 .. Len(s)
  PROVE  SubSeq(s, m, n) \in Seq(S)
OBVIOUS

\* drain() keeps commands in queues and tokens in buffers.
LEMMA DrainType ==
  ASSUME TypeOK, NEW s \in Shells, NEW q \in Seq(Commands), NEW rest \in Seq(Token),
         Drain(s, q, rest)
  PROVE  /\ queue' \in [Shells -> Seq(Commands)]
         /\ current' \in [Shells -> Commands \cup {Nothing}]
         /\ buffer' \in [Shells -> Seq(Token)]
         /\ input' \in [Shells -> Seq(Commands)]
<1>1. CASE q = <<>>
  BY <1>1 DEF Drain, TypeOK
<1>2. CASE q # <<>>
  <2>1. Head(q) \in Commands /\ Tail(q) \in Seq(Commands)
    BY <1>2
  <2>2. Append(input[s], Head(q)) \in Seq(Commands) /\ <<>> \in Seq(Token)
    BY <2>1 DEF TypeOK
  <2> QED
    BY <1>2, <2>1, <2>2 DEF Drain, TypeOK
<1> QED
  BY <1>1, <1>2

LEMMA RunType ==
  ASSUME TypeOK, NEW c \in Commands, Run(c)
  PROVE  TypeOK'
<1> DEFINE s == IF warm = NoShell THEN made + 1 ELSE warm
<1>1. s \in Shells /\ UNCHANGED <<closed, gone, output, got>>
  BY DEF Run
<1>2. warm' \in Shells /\ made' \in 0 .. MaxShells /\ state' \in [Commands -> States]
  <2>1. warm' = s /\ made' = (IF warm = NoShell THEN s ELSE made)
    BY DEF Run
  <2>2. state' = [state EXCEPT ![c] = "waiting"]
    BY DEF Run
  <2>3. warm' \in Shells /\ made' \in 0 .. MaxShells
    BY <1>1, <2>1, GuestShellAssumption DEF TypeOK, Shells
  <2> QED
    BY <2>2, <2>3 DEF TypeOK, States
<1>3. Append(queue[s], c) \in Seq(Commands) /\ buffer[s] \in Seq(Token)
  BY <1>1 DEF TypeOK
<1>4. CASE current[s] = Nothing
  <2>1. Drain(s, Append(queue[s], c), buffer[s])
    BY <1>4 DEF Run
  <2> HIDE DEF s
  <2> QED
    BY <1>1, <1>2, <1>3, <2>1, DrainType DEF TypeOK
<1>5. CASE current[s] # Nothing
  <2>1. UNCHANGED <<current, buffer, input>> /\ queue' = [queue EXCEPT ![s] = Append(@, c)]
    BY <1>5 DEF Run
  <2> HIDE DEF s
  <2> QED
    BY <1>1, <1>2, <1>3, <2>1 DEF TypeOK
<1> QED
  BY <1>4, <1>5

\* What bash writes for a command: its text, the marker, a digit that tells whether
\* it failed, and nothing else a chunk that ends early could not leave.
LEMMA AnswerIs ==
  ASSUME NEW c \in Commands, NEW w \in Answers(c)
  PROVE  /\ w \in Seq(Token) /\ Len(w) \in {4, 5, 6}
         /\ w[1] = [of |-> c, part |-> "text"]
         /\ w[2] = [of |-> c, part |-> "mark"]
         /\ w[3] = [of |-> c, part |-> IF c \in Failing THEN "nonzero" ELSE "zero"]
         /\ \A j \in 4 .. Len(w) : Crumb(w[j])
<1> DEFINE says(p) == [of |-> c, part |-> p]
<1>1. \A p \in Parts : says(p) \in Token
  BY DEF Token
<1>2. /\ says("text") \in Token /\ says("mark") \in Token /\ says("tail") \in Token
      /\ says("zero") \in Token /\ says("nonzero") \in Token /\ says("more") \in Token
  BY <1>1 DEF Parts
<1>3. Crumb(says("tail")) /\ (c \in Failing => Crumb(says("more")))
  BY DEF Crumb
<1> DEFINE short(f) == << says("text"), says("mark"), says(f), says("tail") >>
           two == << says("text"), says("mark"), says("nonzero"), says("more"), says("tail") >>
           three == << says("text"), says("mark"), says("nonzero"), says("more"),
                       says("more"), says("tail") >>
<1>4. \/ c \notin Failing /\ w = short("zero")
      \/ c \in Failing /\ (w = short("nonzero") \/ w = two \/ w = three)
  BY DEF Answers
<1>5. SUFFICES
      /\ w \in Seq(Token) /\ Len(w) \in {4, 5, 6}
      /\ w[1] = says("text")
      /\ w[2] = says("mark")
      /\ w[3] = says(IF c \in Failing THEN "nonzero" ELSE "zero")
      /\ \A j \in 4 .. Len(w) : Crumb(w[j])
  OBVIOUS
<1> HIDE DEF says
<1>6. CASE c \notin Failing /\ w = short("zero")
  BY <1>2, <1>3, <1>6
<1>7. CASE c \in Failing /\ w = short("nonzero")
  BY <1>2, <1>3, <1>7
<1>8. CASE c \in Failing /\ w = two
  BY <1>2, <1>3, <1>8
<1>9. CASE c \in Failing /\ w = three
  BY <1>2, <1>3, <1>9
<1> QED
  BY <1>4, <1>6, <1>7, <1>8, <1>9

LEMMA ExecuteType ==
  ASSUME TypeOK, NEW s \in Shells, Execute(s)
  PROVE  TypeOK'
<1>1. Head(input[s]) \in Commands /\ Tail(input[s]) \in Seq(Commands)
  BY DEF Execute, TypeOK
<1>2. PICK answer \in Answers(Head(input[s])) :
        output' = [output EXCEPT ![s] = @ \o answer]
  BY DEF Execute
<1>3. answer \in Seq(Token)
  BY <1>1, AnswerIs
<1>4. /\ input' = [input EXCEPT ![s] = Tail(@)]
      /\ UNCHANGED <<warm, made, closed, gone, queue, current, buffer, state, got>>
  BY DEF Execute
<1>5. output[s] \o answer \in Seq(Token)
  BY <1>3 DEF TypeOK
<1> QED
  BY <1>1, <1>2, <1>4, <1>5 DEF TypeOK

LEMMA ReceiveType ==
  ASSUME TypeOK, NEW s \in Shells, Receive(s)
  PROVE  TypeOK'
<1> DEFINE c == current[s]
<1> PICK n \in 1 .. Len(output[s]) :
      LET b == buffer[s] \o SubSeq(output[s], 1, n)
          i == MarkerIndex(b, c)
      IN
      /\ output' = [output EXCEPT ![s] = SubSeq(@, n + 1, Len(@))]
      /\ \/ /\ c = Nothing
            /\ UNCHANGED <<queue, current, input, buffer, state, got>>
         \/ /\ c # Nothing
            /\ ~Framed(b, i)
            /\ buffer' = [buffer EXCEPT ![s] = b]
            /\ UNCHANGED <<queue, current, input, state, got>>
         \/ /\ c # Nothing
            /\ Framed(b, i)
            /\ state' = [state EXCEPT ![c] =
                 IF ExitedZero(b, i) THEN "resolved" ELSE "failed"]
            /\ got' = [got EXCEPT ![c] = SubSeq(b, 1, i - 1)]
            /\ \E e \in i .. Len(b) :
                 /\ MatchEnds(b, i, e)
                 /\ Drain(s, queue[s], SubSeq(b, e + 1, Len(b)))
  BY DEF Receive
<1> DEFINE b == buffer[s] \o SubSeq(output[s], 1, n)
           i == MarkerIndex(b, c)
<1>1. UNCHANGED <<warm, made, closed, gone>>
  BY DEF Receive
<1>2. output[s] \in Seq(Token) /\ buffer[s] \in Seq(Token) /\ c \in Commands \cup {Nothing}
  BY DEF TypeOK
<1>3. b \in Seq(Token) /\ SubSeq(output[s], n + 1, Len(output[s])) \in Seq(Token)
  <2>1. SubSeq(output[s], 1, n) \in Seq(Token)
    BY <1>2, SubSeqType
  <2>2. SubSeq(output[s], n + 1, Len(output[s])) \in Seq(Token)
    BY <1>2, SubSeqType
  <2> QED
    BY <1>2, <2>1, <2>2
<1>4. output' \in [Shells -> Seq(Token)]
  BY <1>3 DEF TypeOK
<1>5. CASE c = Nothing
  BY <1>1, <1>4, <1>5 DEF TypeOK
<1>6. CASE c # Nothing /\ ~Framed(b, i)
  <2>1. buffer' = [buffer EXCEPT ![s] = b] /\ UNCHANGED <<queue, current, input, state, got>>
    BY <1>6
  <2> HIDE DEF b
  <2> QED
    BY <1>1, <1>3, <1>4, <2>1 DEF TypeOK
<1>7. CASE c # Nothing /\ Framed(b, i)
  <2>1. i \in DOMAIN b
    <3> HIDE DEF b, c
    <3> QED
      BY <1>7 DEF MarkerIndex, Framed
  <2>2. i \in 1 .. Len(b)
    <3> HIDE DEF b, i
    <3> QED
      BY <1>3, <2>1
  <2> PICK e \in i .. Len(b) : Drain(s, queue[s], SubSeq(b, e + 1, Len(b)))
    BY <1>7
  <2> DEFINE rest == SubSeq(b, e + 1, Len(b))
  <2>3. SubSeq(b, 1, i - 1) \in Seq(Token) /\ rest \in Seq(Token)
    <3> HIDE DEF b, i
    <3>1. SubSeq(b, 1, i - 1) \in Seq(Token)
      BY <1>3, <2>2, SubSeqType
    <3>2. e + 1 \in Nat \ {0}
      BY <1>3, <2>2
    <3> QED
      BY <1>3, <3>1, <3>2, SubSeqType
  <2>4. Drain(s, queue[s], rest)
    OBVIOUS
  <2>5. got' = [got EXCEPT ![c] = SubSeq(b, 1, i - 1)]
        /\ state' = [state EXCEPT ![c] = IF ExitedZero(b, i) THEN "resolved" ELSE "failed"]
    BY <1>7
  <2>6. queue[s] \in Seq(Commands) /\ c \in Commands
    BY <1>2, <1>7 DEF TypeOK
  <2> HIDE DEF b, c, i, rest
  <2>7. got' \in [Commands -> Seq(Token)] /\ state' \in [Commands -> States]
    BY <2>3, <2>5, <2>6 DEF TypeOK, States
  <2> QED
    BY <1>1, <1>4, <2>3, <2>4, <2>6, <2>7, DrainType DEF TypeOK
<1> QED
  BY <1>5, <1>6, <1>7

\* A chunk of output settles the current command of its shell, or nobody's.
LEMMA ReceiveEffect ==
  ASSUME NEW s \in Shells, Receive(s)
  PROVE  \/ UNCHANGED <<queue, current, state>>
         \/ /\ current[s] # Nothing
            /\ \E result \in {"resolved", "failed"} :
                 state' = [state EXCEPT ![current[s]] = result]
            /\ \E rest : Drain(s, queue[s], rest)
<1> DEFINE c == current[s]
<1> PICK n \in 1 .. Len(output[s]) :
      LET b == buffer[s] \o SubSeq(output[s], 1, n)
          i == MarkerIndex(b, c)
      IN
      \/ UNCHANGED <<queue, current, state>>
      \/ /\ c # Nothing
         /\ state' = [state EXCEPT ![c] = IF ExitedZero(b, i) THEN "resolved" ELSE "failed"]
         /\ \E e : Drain(s, queue[s], SubSeq(b, e + 1, Len(b)))
  BY DEF Receive
<1> QED
  OBVIOUS

\* Every step keeps the types.
LEMMA TypeStep == TypeOK /\ [Next]_vars => TypeOK'
<1> SUFFICES ASSUME TypeOK, [Next]_vars PROVE TypeOK'
  OBVIOUS
<1>1. ASSUME NEW s \in Shells, Timeout(s) PROVE TypeOK'
  BY <1>1, GuestShellAssumption DEF Timeout, TypeOK, States
<1>2. ASSUME NEW s \in Shells, Exit(s) PROVE TypeOK'
  <2>1. /\ gone' = gone \cup {s}
        /\ state' = [c \in Commands |-> IF c \in Held(s) THEN "lost" ELSE state[c]]
        /\ current' = [current EXCEPT ![s] = Nothing]
        /\ queue' = [queue EXCEPT ![s] = <<>>]
        /\ warm' = NoShell
        /\ UNCHANGED <<made, closed, input, output, buffer, got>>
    BY <1>2 DEF Exit
  <2>2. state' \in [Commands -> States]
    BY <2>1 DEF TypeOK, States
  <2>3. <<>> \in Seq(Commands)
    OBVIOUS
  <2> QED
    BY <2>1, <2>2, <2>3 DEF TypeOK
<1>3. CASE CloseHost
  BY <1>3 DEF CloseHost, TypeOK
<1>4. CASE UNCHANGED vars
  BY <1>4 DEF vars, TypeOK
<1> QED
  BY <1>1, <1>2, <1>3, <1>4, RunType, ExecuteType, ReceiveType DEF Next

\* A shell that is closed or exits was made and holds nothing any more, and what is
\* warm afterwards was warm before, or has just been made.
LEMMA ShellsStep == Inv /\ [Next]_vars => Made' /\ WarmIsLive'
<1> SUFFICES ASSUME Inv, [Next]_vars PROVE Made' /\ WarmIsLive'
  OBVIOUS
<1> USE DEF Inv, Made, WarmIsLive, Live, Shells, NoShell, Up
<1>1. ASSUME NEW c \in Commands, Run(c) PROVE Made' /\ WarmIsLive'
  <2> DEFINE s == IF warm = 0 THEN made + 1 ELSE warm
  <2>1. /\ s \in Shells /\ warm' = s
        /\ made' = IF warm = 0 THEN s ELSE made
        /\ UNCHANGED <<closed, gone>>
    BY <1>1 DEF Run
  <2>2. s \in 1 .. made' /\ s \notin closed \cup gone /\ made' \in Nat /\ made <= made'
    BY <2>1 DEF TypeOK
  <2>3. \A r \in Shells \ {s} : current'[r] = current[r] /\ queue'[r] = queue[r]
    BY <1>1 DEF Run, Drain, TypeOK
  <2> HIDE DEF s
  <2>4. Up \cup {s} \subseteq Up' /\ 1 .. made \subseteq 1 .. made'
    BY <2>1, <2>2 DEF TypeOK
  <2>5. \A r \in Shells \ Up' : current'[r] = Nothing /\ queue'[r] = <<>>
    BY <2>3, <2>4
  <2>6. Made'
    BY <2>1, <2>4, <2>5
  <2> QED
    BY <2>1, <2>2, <2>6 DEF TypeOK
<1>2. ASSUME NEW s \in Shells, Execute(s) PROVE Made' /\ WarmIsLive'
  BY <1>2 DEF Execute
<1>3. ASSUME NEW s \in Shells, Receive(s) PROVE Made' /\ WarmIsLive'
  <2>1. UNCHANGED <<warm, made, closed, gone>>
    BY <1>3 DEF Receive
  <2>2. CASE UNCHANGED <<queue, current>>
    BY <2>1, <2>2
  <2>3. ASSUME NEW rest, current[s] # Nothing, Drain(s, queue[s], rest)
        PROVE  Made' /\ WarmIsLive'
    <3>1. \A r \in Shells \ {s} : current'[r] = current[r] /\ queue'[r] = queue[r]
      BY <2>3 DEF Drain, TypeOK
    <3> QED
      BY <2>1, <2>3, <3>1
  <2> QED
    BY <1>3, <2>2, <2>3, ReceiveEffect
<1>4. ASSUME NEW s \in Shells, Exit(s) PROVE Made' /\ WarmIsLive'
  <2>1. /\ s \in 1 .. made /\ gone' = gone \cup {s} /\ warm' = 0 /\ UNCHANGED <<made, closed>>
        /\ current' = [current EXCEPT ![s] = Nothing]
        /\ queue' = [queue EXCEPT ![s] = <<>>]
    BY <1>4 DEF Exit
  <2> QED
    BY <2>1 DEF TypeOK
<1>5. CASE CloseHost
  BY <1>5 DEF CloseHost
<1>6. ASSUME NEW s \in Shells, Timeout(s) PROVE Made' /\ WarmIsLive'
  <2>1. /\ current[s] \in Timed
        /\ current' = [current EXCEPT ![s] = Nothing]
        /\ closed' = closed \cup {s} \cup ({warm} \ {0})
        /\ warm' = 0
        /\ UNCHANGED <<made, gone, queue>>
    BY <1>6 DEF Timeout
  <2>2. s \in 1 .. made
    BY <2>1, GuestShellAssumption
  <2> QED
    BY <2>1, <2>2 DEF TypeOK
<1>7. CASE UNCHANGED vars
  BY <1>7 DEF vars
<1> QED
  BY <1>1, <1>2, <1>3, <1>4, <1>5, <1>6, <1>7 DEF Next

-----------------------------------------------------------------------------
\* The end of a queue: what is new comes last.
LEMMA AppendOnce ==
  ASSUME NEW q \in Seq(Commands), NEW c \in Commands, c \notin ToSet(q), IsInjective(q)
  PROVE  /\ Append(q, c) \in Seq(Commands)
         /\ ToSet(Append(q, c)) = ToSet(q) \cup {c}
         /\ IsInjective(Append(q, c))
<1>1. /\ Append(q, c) \in Seq(Commands)
      /\ DOMAIN q = 1 .. Len(q) /\ Len(q) \in Nat
      /\ DOMAIN Append(q, c) = 1 .. Len(q) + 1
      /\ \A i \in 1 .. Len(q) : Append(q, c)[i] = q[i]
      /\ Append(q, c)[Len(q) + 1] = c
  OBVIOUS
<1>2. ToSet(Append(q, c)) = ToSet(q) \cup {c}
  <2>1. 1 .. Len(q) + 1 = (1 .. Len(q)) \cup {Len(q) + 1}
    BY <1>1
  <2>2. ToSet(Append(q, c)) =
          {Append(q, c)[i] : i \in 1 .. Len(q)} \cup {Append(q, c)[Len(q) + 1]}
    BY <1>1, <2>1 DEF ToSet
  <2>3. {Append(q, c)[i] : i \in 1 .. Len(q)} = ToSet(q)
    BY <1>1 DEF ToSet
  <2> QED
    BY <1>1, <2>2, <2>3
<1>3. \A i \in 1 .. Len(q) : q[i] # c
  BY <1>1 DEF ToSet
<1>4. IsInjective(Append(q, c))
  BY <1>1, <1>3 DEF IsInjective
<1> QED
  BY <1>1, <1>2, <1>4

\* The front of a queue: its first command is not in the rest.
LEMMA TailOnce ==
  ASSUME NEW q \in Seq(Commands), q # <<>>, IsInjective(q)
  PROVE  /\ Head(q) \in Commands
         /\ Head(q) \notin ToSet(Tail(q))
         /\ ToSet(q) = {Head(q)} \cup ToSet(Tail(q))
         /\ IsInjective(Tail(q))
<1>1. /\ Len(q) \in Nat \ {0} /\ DOMAIN q = 1 .. Len(q) /\ Head(q) = q[1]
      /\ DOMAIN Tail(q) = 1 .. Len(q) - 1
      /\ \A i \in 1 .. Len(q) - 1 : Tail(q)[i] = q[i + 1]
  OBVIOUS
<1>2. Head(q) \in Commands
  OBVIOUS
<1>3. Head(q) \notin ToSet(Tail(q)) /\ IsInjective(Tail(q))
  BY <1>1 DEF ToSet, IsInjective
<1>4. ToSet(q) = {Head(q)} \cup ToSet(Tail(q))
  <2>1. \A i \in 2 .. Len(q) : i - 1 \in 1 .. Len(q) - 1 /\ q[i] = Tail(q)[i - 1]
    BY <1>1
  <2>2. \A i \in 1 .. Len(q) - 1 : i + 1 \in 1 .. Len(q)
    BY <1>1
  <2>3. \A x \in ToSet(q) : x = Head(q) \/ x \in ToSet(Tail(q))
    <3> SUFFICES ASSUME NEW i \in 1 .. Len(q), q[i] # q[1]
                 PROVE  q[i] \in ToSet(Tail(q))
      BY <1>1 DEF ToSet
    <3>1. i \in 2 .. Len(q)
      BY <1>1
    <3> QED
      BY <1>1, <2>1, <3>1 DEF ToSet
  <2>4. \A x \in ToSet(Tail(q)) : x \in ToSet(q)
    BY <1>1, <2>2 DEF ToSet
  <2>5. Head(q) \in ToSet(q)
    BY <1>1 DEF ToSet
  <2> QED
    BY <2>3, <2>4, <2>5
<1> QED
  BY <1>2, <1>3, <1>4

\* drain() keeps what is queued: its first command becomes the current one.
LEMMA DrainHeld ==
  ASSUME TypeOK, NEW s \in Shells, NEW q \in Seq(Commands), NEW rest, IsInjective(q),
         Drain(s, q, rest)
  PROVE  /\ Held(s)' = ToSet(q)
         /\ IsInjective(queue'[s]) /\ current'[s] \notin ToSet(queue'[s])
         /\ \A r \in Shells \ {s} : current'[r] = current[r] /\ queue'[r] = queue[r]
<1>0. \A r \in Shells \ {s} : current'[r] = current[r] /\ queue'[r] = queue[r]
  BY DEF Drain, TypeOK
<1>1. CASE q = <<>>
  <2>1. current'[s] = Nothing /\ queue'[s] = <<>>
    BY <1>1 DEF Drain, TypeOK
  <2>2. ToSet(<<>>) = {} /\ IsInjective(<<>>)
    BY DEF ToSet, IsInjective
  <2> QED
    BY <1>0, <1>1, <2>1, <2>2 DEF Held
<1>2. CASE q # <<>>
  <2>1. current'[s] = Head(q) /\ queue'[s] = Tail(q)
    BY <1>2 DEF Drain, TypeOK
  <2>2. Head(q) # Nothing
    BY <1>2, TailOnce, GuestShellAssumption
  <2> QED
    BY <1>0, <1>2, <2>1, <2>2, TailOnce DEF Held
<1> QED
  BY <1>1, <1>2

\* A call that is held waits.
LEMMA HeldWaits ==
  ASSUME TypeOK, Waited, NEW s \in Shells
  PROVE  \A c \in Held(s) : c \in Commands /\ state[c] = "waiting"
<1>1. ToSet(queue[s]) \subseteq Commands
  BY DEF TypeOK, ToSet
<1> QED
  BY <1>1 DEF TypeOK, Waited, Held

\* What one step may do to the calls held: shell s gives up calls, which come back,
\* and takes over calls that were not waiting.
LEMMA Exchange ==
  ASSUME Waited, Apart, Once, NEW s \in Shells,
         \A c \in Held(s)' : c \in Commands /\ (c \in Held(s) \/ state[c] # "waiting"),
         \A c \in Commands : state'[c] = "waiting" <=>
           c \in Held(s)' \/ (state[c] = "waiting" /\ c \notin Held(s)),
         IsInjective(queue'[s]), current'[s] \notin ToSet(queue'[s]),
         \A r \in Shells \ {s} : current'[r] = current[r] /\ queue'[r] = queue[r]
  PROVE  Waited' /\ Apart' /\ Once'
<1>1. \A r \in Shells \ {s} : Held(r)' = Held(r)
  BY DEF Held
<1>2. Once'
  BY DEF Once
<1>3. Apart'
  BY <1>1 DEF Apart, Waited
<1>4. Waited'
  BY <1>1 DEF Apart, Waited
<1> QED
  BY <1>2, <1>3, <1>4

\* A call is queued or written to bash once, and comes back when it is given up.
LEMMA HeldStep == Inv /\ [Next]_vars => Waited' /\ Apart' /\ Once'
<1> SUFFICES ASSUME Inv, [Next]_vars PROVE Waited' /\ Apart' /\ Once'
  OBVIOUS
<1> USE DEF Inv
<1>1. ASSUME NEW c \in Commands, Run(c) PROVE Waited' /\ Apart' /\ Once'
  <2>1. state[c] = "idle" /\ state' = [state EXCEPT ![c] = "waiting"]
    BY <1>1 DEF Run
  <2>2. PICK s \in Shells :
          LET q == Append(queue[s], c) IN
          \/ current[s] = Nothing /\ Drain(s, q, buffer[s])
          \/ current[s] # Nothing /\ queue' = [queue EXCEPT ![s] = q] /\ UNCHANGED current
    BY <1>1 DEF Run
  <2> DEFINE q == Append(queue[s], c)
  <2>3. c \notin Held(s)
    BY <2>1 DEF Waited
  <2>4. queue[s] \in Seq(Commands) /\ IsInjective(queue[s]) /\ c \notin ToSet(queue[s])
    BY <2>1, <2>3 DEF TypeOK, Once, Held
  <2>5. q \in Seq(Commands) /\ ToSet(q) = ToSet(queue[s]) \cup {c} /\ IsInjective(q)
    BY <2>4, AppendOnce
  <2>6. \/ current[s] = Nothing /\ Drain(s, q, buffer[s])
        \/ current[s] # Nothing /\ queue' = [queue EXCEPT ![s] = q] /\ current' = current
    BY <2>2
  <2> HIDE DEF q
  <2>7. /\ Held(s)' = Held(s) \cup {c}
        /\ IsInjective(queue'[s]) /\ current'[s] \notin ToSet(queue'[s])
        /\ \A r \in Shells \ {s} : current'[r] = current[r] /\ queue'[r] = queue[r]
    <3>1. CASE current[s] = Nothing
      <4>1. Drain(s, q, buffer[s]) /\ Held(s) = ToSet(queue[s])
        BY <2>6, <3>1 DEF Held
      <4> QED
        BY <2>1, <2>5, <4>1, DrainHeld
    <3>2. CASE current[s] # Nothing
      <4>1. queue' = [queue EXCEPT ![s] = q] /\ current' = current
        BY <2>6, <3>2
      <4>2. queue'[s] = q /\ \A r \in Shells \ {s} : queue'[r] = queue[r]
        BY <2>1, <4>1 DEF TypeOK
      <4>3. current[s] # c /\ current[s] \notin ToSet(queue[s])
        BY <2>1, <2>3, <3>2 DEF Held, Once
      <4> QED
        BY <2>5, <4>1, <4>2, <4>3 DEF Held
    <3> QED
      BY <3>1, <3>2
  <2>8. \A d \in Held(s) : d \in Commands /\ state[d] = "waiting"
    BY HeldWaits
  <2>9. \A d \in Commands : state'[d] = "waiting" <=> d = c \/ state[d] = "waiting"
    BY <2>1 DEF TypeOK
  <2> QED
    BY <2>1, <2>7, <2>8, <2>9, Exchange
<1>2. ASSUME NEW s \in Shells, Execute(s) PROVE Waited' /\ Apart' /\ Once'
  BY <1>2 DEF Execute, Waited, Apart, Once, Held
<1>3. ASSUME NEW s \in Shells, Receive(s) PROVE Waited' /\ Apart' /\ Once'
  <2>1. CASE UNCHANGED <<queue, current, state>>
    BY <2>1 DEF Waited, Apart, Once, Held
  <2>2. ASSUME current[s] # Nothing, NEW rest, Drain(s, queue[s], rest),
               NEW result \in {"resolved", "failed"},
               state' = [state EXCEPT ![current[s]] = result]
        PROVE  Waited' /\ Apart' /\ Once'
    <3>1. /\ Held(s)' = ToSet(queue[s])
          /\ IsInjective(queue'[s]) /\ current'[s] \notin ToSet(queue'[s])
          /\ \A r \in Shells \ {s} : current'[r] = current[r] /\ queue'[r] = queue[r]
      BY <2>2, DrainHeld DEF TypeOK, Once
    <3>2. Held(s)' = Held(s) \ {current[s]} /\ current[s] \in Held(s)
      BY <2>2, <3>1 DEF Held, Once
    <3>3. \A d \in Commands : state'[d] = "waiting" <=>
            state[d] = "waiting" /\ d # current[s]
      BY <2>2 DEF TypeOK
    <3>4. \A d \in Held(s) : d \in Commands /\ state[d] = "waiting"
      BY HeldWaits
    <3> QED
      BY <3>1, <3>2, <3>3, <3>4, Exchange
  <2> QED
    BY <1>3, <2>1, <2>2, ReceiveEffect
<1>4. ASSUME NEW s \in Shells, Timeout(s) PROVE Waited' /\ Apart' /\ Once'
  <2>1. /\ current[s] \in Timed
        /\ state' = [state EXCEPT ![current[s]] = "timed out"]
        /\ current' = [current EXCEPT ![s] = Nothing]
        /\ queue' = queue
    BY <1>4 DEF Timeout
  <2>2. current'[s] = Nothing /\ queue'[s] = queue[s] /\ current[s] # Nothing
        /\ \A r \in Shells \ {s} : current'[r] = current[r] /\ queue'[r] = queue[r]
    BY <2>1, GuestShellAssumption DEF TypeOK
  <2>3. Nothing \notin ToSet(queue[s])
    BY GuestShellAssumption DEF TypeOK, ToSet
  <2>4. Held(s)' = Held(s) \ {current[s]} /\ current[s] \in Held(s)
    BY <2>2 DEF Held, Once
  <2>5. \A d \in Commands : state'[d] = "waiting" <=>
          state[d] = "waiting" /\ d # current[s]
    BY <2>1 DEF TypeOK
  <2>6. IsInjective(queue'[s]) /\ current'[s] \notin ToSet(queue'[s])
    BY <2>2, <2>3 DEF Once
  <2>7. \A d \in Held(s) : d \in Commands /\ state[d] = "waiting"
    BY HeldWaits
  <2> QED
    BY <2>2, <2>4, <2>5, <2>6, <2>7, Exchange
<1>5. ASSUME NEW s \in Shells, Exit(s) PROVE Waited' /\ Apart' /\ Once'
  <2>1. /\ state' = [c \in Commands |-> IF c \in Held(s) THEN "lost" ELSE state[c]]
        /\ current' = [current EXCEPT ![s] = Nothing]
        /\ queue' = [queue EXCEPT ![s] = <<>>]
    BY <1>5 DEF Exit
  <2>2. /\ current'[s] = Nothing /\ queue'[s] = <<>>
        /\ \A r \in Shells \ {s} : current'[r] = current[r] /\ queue'[r] = queue[r]
    BY <2>1 DEF TypeOK
  <2>3. ToSet(<<>>) = {} /\ IsInjective(<<>>)
    BY DEF ToSet, IsInjective
  <2>4. Held(s)' = {}
    BY <2>2, <2>3 DEF Held
  <2>5. \A d \in Commands : state'[d] = "waiting" <=>
          state[d] = "waiting" /\ d \notin Held(s)
    BY <2>1 DEF TypeOK
  <2>6. IsInjective(queue'[s]) /\ current'[s] \notin ToSet(queue'[s])
    BY <2>2, <2>3
  <2> QED
    BY <2>2, <2>4, <2>5, <2>6, Exchange
<1>6. CASE CloseHost
  BY <1>6 DEF CloseHost, Waited, Apart, Once, Held
<1>7. CASE UNCHANGED vars
  BY <1>7 DEF vars, Waited, Apart, Once, Held
<1> QED
  BY <1>1, <1>2, <1>3, <1>4, <1>5, <1>6, <1>7 DEF Next

-----------------------------------------------------------------------------
\* Calls that are held once can be counted.
LEMMA HeldCount ==
  ASSUME TypeOK, Once, NEW s \in Shells
  PROVE  Cardinality(Held(s)) = Len(queue[s]) + (IF current[s] = Nothing THEN 0 ELSE 1)
<1> DEFINE q == queue[s]
<1>1. q \in Seq(Commands) /\ IsInjective(q) /\ current[s] \notin ToSet(q)
  BY DEF TypeOK, Once
<1>2. q \in Bijection(1 .. Len(q), ToSet(q))
  BY <1>1 DEF Bijection, Injection, Surjection, ToSet
<1>3. IsFiniteSet(1 .. Len(q)) /\ Cardinality(1 .. Len(q)) = Len(q)
  BY <1>1, FS_Interval
<1>4. IsFiniteSet(ToSet(q)) /\ Cardinality(ToSet(q)) = Len(q)
  BY <1>2, <1>3, FS_Bijection DEF ExistsBijection
<1>5. CASE current[s] = Nothing
  <2>1. Held(s) = ToSet(q)
    BY <1>5 DEF Held
  <2> HIDE DEF q
  <2>2. Len(q) \in Nat
    BY <1>1
  <2> QED
    BY <1>4, <1>5, <2>1, <2>2 DEF q
<1>6. CASE current[s] # Nothing
  <2>1. Held(s) = ToSet(q) \cup {current[s]}
    BY <1>6 DEF Held
  <2> QED
    BY <1>1, <1>4, <1>6, <2>1, FS_AddElement
<1> QED
  BY <1>5, <1>6

\* No shell, no call, nothing waits.
LEMMA InvInit == Init => Inv
<1> SUFFICES ASSUME Init PROVE Inv
  OBVIOUS
<1>1. ToSet(<<>>) = {} /\ IsInjective(<<>>) /\ \A S : <<>> \in Seq(S)
  BY DEF ToSet, IsInjective
<1>2. TypeOK
  BY <1>1, GuestShellAssumption DEF Init, TypeOK, States
<1>3. \A s \in Shells : current[s] = Nothing /\ queue[s] = <<>> /\ Held(s) = {}
  BY <1>1 DEF Init, Held
<1> QED
  BY <1>1, <1>2, <1>3 DEF Init, Inv, Made, WarmIsLive, Waited, Apart, Once

LEMMA InvCorrect == Spec => []Inv
<1>1. Inv /\ [Next]_vars => Inv'
  BY TypeStep, ShellsStep, HeldStep DEF Inv
<1> QED
  BY InvInit, <1>1, PTL DEF Spec

\* What the variables hold, for any number of commands and shells (GuestShell).
THEOREM TypeCorrect == Spec => []TypeOK
<1>1. Inv => TypeOK
  BY DEF Inv
<1> QED
  BY <1>1, InvCorrect, PTL

\* The shell getGuestShell() hands out was not closed and did not exit.
THEOREM WarmCorrect == Spec => []WarmIsLive
<1>1. Inv => WarmIsLive
  BY DEF Inv
<1> QED
  BY <1>1, InvCorrect, PTL

\* No promise of runGuestCommand() is dropped: whichever shells are closed, time
\* out or die, each call that waits is held, once, by one shell that is up.
THEOREM AccountedCorrect == Spec => []Accounted
<1>1. Inv => Accounted
  <2> SUFFICES ASSUME Inv PROVE Accounted
    OBVIOUS
  <2> USE DEF Inv
  <2>1. \A s \in Shells \ Up : Held(s) = {}
    <3>1. ToSet(<<>>) = {}
      BY DEF ToSet
    <3> QED
      BY <3>1 DEF Made, Held
  <2>2. Up \subseteq Shells
    <3>1. made \in 0 .. MaxShells /\ MaxShells \in Nat
      BY GuestShellAssumption DEF TypeOK
    <3> QED
      BY <3>1 DEF Up, Shells
  <2>3. \A c \in Commands : state[c] = "waiting" <=> \E s \in Up : c \in Held(s)
    BY <2>1, <2>2 DEF Waited
  <2>4. \A s \in Shells :
          Cardinality(Held(s)) = Len(queue[s]) + (IF current[s] = Nothing THEN 0 ELSE 1)
    BY HeldCount
  <2> QED
    BY <2>3, <2>4 DEF Accounted, Apart, Up
<1> QED
  BY <1>1, InvCorrect, PTL

-----------------------------------------------------------------------------
\* What shell s has said since its current command began: read, and not yet read.
Pending(s) == buffer[s] \o output[s]

\* Nothing but ends of status lines of earlier commands.
Crumbs(p) == \A i \in 1 .. Len(p) : Crumb(p[i])

\* After such ends, the whole answer to c.
Replied(p, c) ==
  \E k \in Nat :
    /\ k + 4 <= Len(p)
    /\ \A i \in 1 .. k : Crumb(p[i])
    /\ p[k + 1] = [of |-> c, part |-> "text"]
    /\ p[k + 2] = [of |-> c, part |-> "mark"]
    /\ p[k + 3] = [of |-> c, part |-> IF c \in Failing THEN "nonzero" ELSE "zero"]
    /\ \A i \in k + 4 .. Len(p) : Crumb(p[i])

\* Shell s is between commands: bash has nothing to run and said nothing.
Silent(s) == input[s] = <<>> /\ Crumbs(Pending(s))

\* Shell s was sent c, and bash has not run it or has answered it.
Answering(s, c) ==
  \/ input[s] = <<c>> /\ Crumbs(Pending(s))
  \/ input[s] = <<>> /\ Replied(Pending(s), c)

\* A shell says nothing of a command but the current one.  A shell whose command
\* timed out may: it is not the warm one, and takes no command any more.
Streams ==
  \A s \in Shells :
    /\ current[s] # Nothing => Answering(s, current[s])
    /\ current[s] = Nothing /\ (warm = s \/ made < s) => Silent(s)

\* The inductive invariant of the output.
Framing == Inv /\ Streams /\ ResultIsOwn

\* Where the elements of two sequences are in the longer one.
LEMMA ConcatParts ==
  ASSUME NEW S, NEW b \in Seq(S), NEW more \in Seq(S)
  PROVE  /\ Len(b) + Len(more) = Len(b \o more)
         /\ \A j \in 1 .. Len(b) : b[j] = (b \o more)[j]
         /\ \A j \in 1 .. Len(more) : more[j] = (b \o more)[Len(b) + j]
OBVIOUS

\* A sequence cut in two is the same again when its parts are put together.
LEMMA Rejoin ==
  ASSUME NEW S, NEW p \in Seq(S), NEW first \in Seq(S), NEW more \in Seq(S),
         NEW o, o = first \o more
  PROVE  (p \o first) \o more = p \o o
OBVIOUS

\* A stream cut after n tokens of o.
LEMMA Cut ==
  ASSUME NEW S, NEW p \in Seq(S), NEW o \in Seq(S), NEW n \in 1 .. Len(o)
  PROVE  /\ p \o SubSeq(o, 1, n) \in Seq(S)
         /\ SubSeq(o, n + 1, Len(o)) \in Seq(S)
         /\ p \o o = (p \o SubSeq(o, 1, n)) \o SubSeq(o, n + 1, Len(o))
<1> DEFINE first == SubSeq(o, 1, n)
           more == SubSeq(o, n + 1, Len(o))
<1>1. first \in Seq(S) /\ more \in Seq(S)
  OBVIOUS
<1>2. o = first \o more
  <2>1. SubSeq(o, 1, n) \o SubSeq(o, n + 1, Len(o)) = SubSeq(o, 1, Len(o))
    BY ConcatAdjacentSubSeq
  <2>2. SubSeq(o, 1, Len(o)) = o
    BY SubSeqFull
  <2> QED
    BY <2>1, <2>2
<1> HIDE DEF first, more
<1>3. (p \o first) \o more = p \o o
  BY <1>1, <1>2, Rejoin
<1>4. p \o first \in Seq(S)
  BY <1>1
<1> QED
  BY <1>1, <1>3, <1>4 DEF first, more

\* The marker of c at i, in what was read of the stream p, is that of its own answer.
OwnAnswer(p, c, b, i) ==
  /\ i \in Nat /\ 2 <= i /\ i < Len(b)
  /\ \A j \in 1 .. i - 2 : Crumb(b[j])
  /\ b[i - 1] = [of |-> c, part |-> "text"]
  /\ ExitedZero(b, i) <=> c \notin Failing
  /\ ~Crumb(b[i + 1])
  /\ \A j \in i + 2 .. Len(p) : Crumb(p[j])

\* A command is framed only by its own answer: what onData() takes for its output
\* ends with its text, the first digit of the status is its own, and behind it come
\* only further digits and the newline.
LEMMA OwnFrame ==
  ASSUME NEW p \in Seq(Token), NEW c \in Commands, Crumbs(p) \/ Replied(p, c),
         NEW b \in Seq(Token), Len(b) <= Len(p), \A j \in 1 .. Len(b) : b[j] = p[j],
         NEW i, i = MarkerIndex(b, c), Framed(b, i)
  PROVE  OwnAnswer(p, c, b, i)
<1> DEFINE mark == [of |-> c, part |-> "mark"]
<1>1. i \in DOMAIN b /\ b[i] = mark /\ i < Len(b)
  BY DEF MarkerIndex, Framed
<1>2. i \in 1 .. Len(p) /\ i \in Nat /\ p[i] = mark /\ p[i].part = "mark"
  BY <1>1
<1>3. ~Crumbs(p)
  BY <1>2 DEF Crumbs, Crumb
<1>4. PICK k \in Nat :
        /\ k + 4 <= Len(p)
        /\ \A j \in 1 .. k : Crumb(p[j])
        /\ p[k + 1] = [of |-> c, part |-> "text"]
        /\ p[k + 2] = mark
        /\ p[k + 3] = [of |-> c, part |-> IF c \in Failing THEN "nonzero" ELSE "zero"]
        /\ \A j \in k + 4 .. Len(p) : Crumb(p[j])
  BY <1>3 DEF Replied
<1>5. /\ p[k + 1].part = "text"
      /\ p[k + 3].part = IF c \in Failing THEN "nonzero" ELSE "zero"
  BY <1>4
<1>6. i = k + 2
  <2>1. ~Crumb(p[i])
    BY <1>2 DEF Crumb
  <2>2. i \notin 1 .. k /\ i # k + 1 /\ i # k + 3 /\ i \notin k + 4 .. Len(p)
    BY <1>2, <1>4, <1>5, <2>1
  <2> QED
    BY <2>2, <1>2, <1>4
<1>7. b[i - 1] = p[k + 1] /\ b[i + 1] = p[k + 3]
  <2>1. /\ i - 1 = k + 1 /\ i + 1 = k + 3
        /\ i - 1 \in 1 .. Len(b) /\ i + 1 \in 1 .. Len(b)
    BY <1>1, <1>2, <1>6
  <2> QED
    BY <2>1
<1>8. ExitedZero(b, i) <=> c \notin Failing
  BY <1>1, <1>5, <1>7 DEF ExitedZero
<1>9. ~Crumb(b[i + 1])
  BY <1>5, <1>7 DEF Crumb
<1> QED
  BY <1>1, <1>2, <1>4, <1>6, <1>7, <1>8, <1>9 DEF OwnAnswer

\* What the answer to c makes of its output.
LEMMA OwnOutput ==
  ASSUME NEW c \in Commands, NEW b \in Seq(Token), NEW i \in Nat, 2 <= i, i < Len(b),
         \A j \in 1 .. i - 2 : Crumb(b[j]), b[i - 1] = [of |-> c, part |-> "text"]
  PROVE  /\ [of |-> c, part |-> "text"] \in ToSet(SubSeq(b, 1, i - 1))
         /\ \A t \in ToSet(SubSeq(b, 1, i - 1)) : t.of # c => Crumb(t)
<1> DEFINE g == SubSeq(b, 1, i - 1)
<1>1. DOMAIN g = 1 .. i - 1 /\ \A j \in 1 .. i - 1 : g[j] = b[j]
  OBVIOUS
<1> HIDE DEF g
<1>2. i - 1 \in 1 .. i - 1 /\ \A j \in 1 .. i - 1 : j = i - 1 \/ j \in 1 .. i - 2
  OBVIOUS
<1>3. g[i - 1] = [of |-> c, part |-> "text"] /\ g[i - 1].of = c
  BY <1>1, <1>2
<1>4. [of |-> c, part |-> "text"] \in ToSet(g)
  BY <1>1, <1>2, <1>3 DEF ToSet
<1>5. \A t \in ToSet(g) : t.of # c => Crumb(t)
  BY <1>1, <1>2, <1>3 DEF ToSet
<1> QED
  BY <1>4, <1>5 DEF g

\* drain() leaves shell s silent, or sends it a command while it is.
LEMMA DrainStream ==
  ASSUME TypeOK, NEW s \in Shells, NEW q \in Seq(Commands), NEW rest,
         Drain(s, q, rest), input[s] = <<>>,
         Crumbs(output'[s]), Crumbs(rest \o output'[s]), output'[s] \in Seq(Token)
  PROVE  /\ current'[s] # Nothing => Answering(s, current[s])'
         /\ current'[s] = Nothing => Silent(s)'
<1>1. CASE q = <<>>
  <2>1. current'[s] = Nothing /\ buffer'[s] = rest /\ input'[s] = <<>>
    BY <1>1 DEF Drain, TypeOK
  <2> QED
    BY <2>1 DEF Silent, Pending
<1>2. CASE q # <<>>
  <2> DEFINE d == Head(q)
  <2>1. current' = [current EXCEPT ![s] = d] /\ buffer' = [buffer EXCEPT ![s] = <<>>]
        /\ input' = [input EXCEPT ![s] = Append(@, d)]
    BY <1>2 DEF Drain
  <2>2. d \in Commands
    BY <1>2, TailOnce
  <2> HIDE DEF d
  <2>3. current'[s] = d /\ buffer'[s] = <<>> /\ input'[s] = Append(<<>>, d) /\ d # Nothing
    BY <2>1, <2>2, GuestShellAssumption DEF TypeOK
  <2>4. Append(<<>>, d) = <<d>> /\ <<>> \o output'[s] = output'[s]
    OBVIOUS
  <2> QED
    BY <2>3, <2>4 DEF Answering, Pending
<1> QED
  BY <1>1, <1>2

\* Two streams of such ends make one.
LEMMA CrumbsJoin ==
  ASSUME NEW p \in Seq(Token), NEW q \in Seq(Token)
  PROVE  Crumbs(p \o q) <=> Crumbs(p) /\ Crumbs(q)
<1>1. /\ Len(p) \in Nat /\ Len(q) \in Nat /\ Len(p \o q) = Len(p) + Len(q)
      /\ \A j \in 1 .. Len(p) : (p \o q)[j] = p[j]
      /\ \A j \in 1 .. Len(q) : (p \o q)[Len(p) + j] = q[j]
  OBVIOUS
<1>2. \A j \in 1 .. Len(p) + Len(q) :
        j \in 1 .. Len(p) \/ \E h \in 1 .. Len(q) : j = Len(p) + h
  <2> TAKE j \in 1 .. Len(p) + Len(q)
  <2>1. CASE j <= Len(p)
    BY <2>1, <1>1
  <2>2. CASE ~(j <= Len(p))
    <3>1. j - Len(p) \in 1 .. Len(q) /\ j = Len(p) + (j - Len(p))
      BY <2>2, <1>1
    <3> QED
      BY <3>1
  <2> QED
    BY <2>1, <2>2
<1> DEFINE all == p \o q
<1> HIDE DEF all
<1>3. /\ Len(all) = Len(p) + Len(q)
      /\ \A j \in 1 .. Len(p) : all[j] = p[j]
      /\ \A j \in 1 .. Len(q) : all[Len(p) + j] = q[j]
  BY <1>1 DEF all
<1>4. ASSUME Crumbs(p), Crumbs(q) PROVE Crumbs(all)
  <2>1. \A j \in 1 .. Len(p) : Crumb(all[j])
    BY <1>3, <1>4 DEF Crumbs
  <2>2. \A j \in 1 .. Len(q) : Crumb(all[Len(p) + j])
    BY <1>3, <1>4 DEF Crumbs
  <2>3. \A j \in 1 .. Len(p) + Len(q) : Crumb(all[j])
    BY <1>2, <2>1, <2>2
  <2> QED
    BY <1>3, <2>3 DEF Crumbs
<1>5. Crumbs(all) => Crumbs(p) /\ Crumbs(q)
  <2>1. \A j \in 1 .. Len(p) : j \in 1 .. Len(p) + Len(q)
    BY <1>1
  <2>2. \A j \in 1 .. Len(q) : Len(p) + j \in 1 .. Len(p) + Len(q)
    BY <1>1
  <2> QED
    BY <1>3, <2>1, <2>2 DEF Crumbs
<1> QED
  BY <1>4, <1>5 DEF all

\* What onData() keeps of a stream once a command is framed: no more than digits of
\* its status and the newline.
LEMMA LeftOver ==
  ASSUME NEW b \in Seq(Token), NEW more \in Seq(Token), NEW i \in Nat,
         \A j \in i + 2 .. Len(b \o more) : Crumb((b \o more)[j]),
         i < Len(b), ~Crumb(b[i + 1]), NEW e \in i .. Len(b), MatchEnds(b, i, e)
  PROVE  Crumbs(more) /\ Crumbs(SubSeq(b, e + 1, Len(b)) \o more)
<1>1. PICK d \in i .. Len(b) :
        \/ d = Len(b) /\ e = d
        \/ d < Len(b) /\ b[d + 1].part = "tail" /\ e = d + 1
  BY DEF MatchEnds
<1>2. i + 1 <= e
  <2>1. b[d + 1].part = "tail" => Crumb(b[d + 1])
    BY DEF Crumb
  <2>2. Len(b) \in Nat
    OBVIOUS
  <2> HIDE DEF Crumb
  <2>3. CASE d = i
    BY <1>1, <2>1, <2>3
  <2>4. CASE d # i
    BY <1>1, <2>2, <2>4
  <2> QED
    BY <2>3, <2>4
<1>3. /\ Len(b) + Len(more) = Len(b \o more) /\ Len(b) \in Nat /\ Len(more) \in Nat
      /\ \A j \in 1 .. Len(b) : b[j] = (b \o more)[j]
      /\ \A j \in 1 .. Len(more) : more[j] = (b \o more)[Len(b) + j]
  BY ConcatParts
<1> DEFINE all == b \o more
           rest == SubSeq(b, e + 1, Len(b))
<1>4. /\ rest \in Seq(Token) /\ Len(rest) = Len(b) - e
      /\ \A j \in 1 .. Len(rest) : rest[j] = b[e + j]
  BY <1>2
<1> HIDE DEF all, rest
<1>5. Crumbs(more)
  <2>1. \A j \in 1 .. Len(more) : Len(b) + j \in i + 2 .. Len(all) /\ more[j] = all[Len(b) + j]
    BY <1>3 DEF all
  <2> QED
    BY <2>1 DEF Crumbs, all
<1>6. Crumbs(rest)
  <2>1. \A j \in 1 .. Len(rest) :
          /\ e + j \in 1 .. Len(b) /\ e + j \in i + 2 .. Len(all)
          /\ rest[j] = all[e + j]
    BY <1>2, <1>3, <1>4 DEF all
  <2> QED
    BY <2>1 DEF Crumbs, all
<1>7. Crumbs(rest \o more)
  BY <1>4, <1>5, <1>6, CrumbsJoin
<1> QED
  BY <1>5, <1>7 DEF rest

\* What shell s does is no business of the other shells.
LEMMA OneStream ==
  ASSUME Streams, NEW s \in Shells,
         \A r \in Shells \ {s} :
           /\ current'[r] = current[r] /\ input'[r] = input[r]
           /\ output'[r] = output[r] /\ buffer'[r] = buffer[r]
           /\ warm' = r \/ made' < r => warm = r \/ made < r,
         current'[s] # Nothing => Answering(s, current[s])',
         current'[s] = Nothing /\ (warm' = s \/ made' < s) => Silent(s)'
  PROVE  Streams'
<1>1. \A r \in Shells \ {s} :
        /\ current'[r] # Nothing => Answering(r, current[r])'
        /\ current'[r] = Nothing /\ (warm' = r \/ made' < r) => Silent(r)'
  BY DEF Streams, Answering, Silent, Pending
<1> QED
  BY <1>1 DEF Streams

LEMMA ExecuteFraming ==
  ASSUME Framing, NEW s \in Shells, Execute(s)
  PROVE  Streams' /\ ResultIsOwn'
<1> USE DEF Framing, Inv
<1> DEFINE c == Head(input[s])
<1>1. /\ input[s] # <<>>
      /\ input' = [input EXCEPT ![s] = Tail(@)]
      /\ UNCHANGED <<warm, made, closed, gone, queue, current, buffer, state, got>>
  BY DEF Execute
<1> PICK w \in Answers(c) : output' = [output EXCEPT ![s] = @ \o w]
  BY DEF Execute
<1>2. ResultIsOwn'
  BY <1>1 DEF ResultIsOwn
<1>3. input'[s] = Tail(input[s]) /\ output'[s] = output[s] \o w
  BY <1>1 DEF TypeOK
<1>4. ASSUME current[s] # Nothing PROVE Answering(s, current[s])'
  <2>1. input[s] = <<current[s]>> /\ Crumbs(Pending(s)) /\ current[s] \in Commands
    BY <1>1, <1>4 DEF Streams, Answering, TypeOK
  <2>2. c = current[s] /\ input'[s] = <<>> /\ current' = current
    BY <1>1, <1>3, <2>1
  <2>3. Pending(s) \in Seq(Token) /\ buffer[s] \in Seq(Token) /\ output[s] \in Seq(Token)
    BY DEF TypeOK, Pending
  <2> HIDE DEF c
  <2>4. /\ w \in Seq(Token) /\ Len(w) \in {4, 5, 6}
        /\ w[1] = [of |-> c, part |-> "text"]
        /\ w[2] = [of |-> c, part |-> "mark"]
        /\ w[3] = [of |-> c, part |-> IF c \in Failing THEN "nonzero" ELSE "zero"]
        /\ \A j \in 4 .. Len(w) : Crumb(w[j])
    BY <2>1, <2>2, AnswerIs
  <2> DEFINE p == Pending(s)
             all == p \o w
  <2>5. Pending(s)' = all
    <3>1. Pending(s)' = buffer[s] \o output'[s] /\ output'[s] = output[s] \o w
      BY <1>1, <1>3 DEF Pending
    <3>2. ASSUME NEW x \in Seq(Token), NEW y \in Seq(Token), NEW o, o = y \o w
          PROVE  (x \o y) \o w = x \o o
      BY <2>4, <3>2, Rejoin
    <3> QED
      BY <2>3, <3>1, <3>2 DEF Pending
  <2>6. /\ Len(p) \in Nat /\ Len(all) = Len(p) + Len(w)
        /\ \A j \in 1 .. Len(p) : all[j] = p[j]
        /\ \A j \in 1 .. Len(w) : all[Len(p) + j] = w[j]
    BY <2>3, <2>4, ConcatParts
  <2>7. \A j \in 1 .. Len(p) : Crumb(p[j])
    BY <2>1 DEF Crumbs
  <2> HIDE DEF p, all
  <2>8. /\ Len(p) + 4 <= Len(all)
        /\ \A j \in 1 .. Len(p) : Crumb(all[j])
        /\ all[Len(p) + 1] = [of |-> c, part |-> "text"]
        /\ all[Len(p) + 2] = [of |-> c, part |-> "mark"]
        /\ all[Len(p) + 3] = [of |-> c, part |-> IF c \in Failing THEN "nonzero" ELSE "zero"]
    <3>0. Len(w) \in {4, 5, 6} /\ Len(p) \in Nat /\ Len(all) = Len(p) + Len(w)
      BY <2>4, <2>6, Zenon
    <3> DEFINE n == Len(w)
    <3>1. \A h \in {4, 5, 6} : h \in Nat /\ 4 <= h
      OBVIOUS
    <3>2. 1 \in 1 .. n /\ 2 \in 1 .. n /\ 3 \in 1 .. n /\ Len(p) + 4 <= Len(all)
      <4>1. n \in Nat /\ 4 <= n
        BY <3>0, <3>1, Zenon
      <4> HIDE DEF n
      <4> QED
        BY <3>0, <4>1 DEF n
    <3>3. all[Len(p) + 1] = w[1] /\ all[Len(p) + 2] = w[2] /\ all[Len(p) + 3] = w[3]
      BY <2>6, <3>2, Zenon DEF n
    <3> QED
      BY <2>4, <2>6, <2>7, <3>2, <3>3, Zenon
  <2>9. \A j \in Len(p) + 4 .. Len(all) : Crumb(all[j])
    <3> TAKE j \in Len(p) + 4 .. Len(all)
    <3>1. j - Len(p) \in 4 .. Len(w) /\ j - Len(p) \in 1 .. Len(w)
          /\ Len(p) + (j - Len(p)) = j
      BY <2>4, <2>6
    <3>2. all[j] = w[j - Len(p)]
      BY <2>6, <3>1
    <3> QED
      BY <2>4, <3>1, <3>2
  <2>10. Replied(all, c)
    BY <2>6, <2>8, <2>9 DEF Replied
  <2> QED
    BY <2>2, <2>5, <2>10 DEF Answering
<1>5. ~(current[s] = Nothing /\ (warm = s \/ made < s))
  BY <1>1 DEF Streams, Silent
<1>6. \A r \in Shells \ {s} : input'[r] = input[r] /\ output'[r] = output[r]
  BY <1>1 DEF TypeOK
<1> QED
  BY <1>1, <1>2, <1>4, <1>5, <1>6, OneStream

\* A chunk that frames a command gives it the output, and the status, bash wrote for it.
LEMMA FramedOwn ==
  ASSUME Framing, NEW s \in Shells, current[s] # Nothing,
         NEW b \in Seq(Token), NEW more \in Seq(Token), Pending(s) = b \o more,
         NEW i, i = MarkerIndex(b, current[s]), Framed(b, i),
         NEW e \in i .. Len(b), MatchEnds(b, i, e),
         output' = [output EXCEPT ![s] = more],
         state' = [state EXCEPT ![current[s]] =
           IF ExitedZero(b, i) THEN "resolved" ELSE "failed"],
         got' = [got EXCEPT ![current[s]] = SubSeq(b, 1, i - 1)],
         Drain(s, queue[s], SubSeq(b, e + 1, Len(b))),
         UNCHANGED <<warm, made, closed, gone>>
  PROVE  Streams' /\ ResultIsOwn'
<1> USE DEF Framing, Inv
<1> DEFINE c == current[s]
           p == Pending(s)
           rest == SubSeq(b, e + 1, Len(b))
<1>1. c \in Commands /\ p \in Seq(Token) /\ Answering(s, c)
  BY DEF TypeOK, Streams, Pending
<1>2. Crumbs(p) \/ Replied(p, c)
  BY <1>1 DEF Answering
<1>3. Len(b) <= Len(p) /\ \A j \in 1 .. Len(b) : b[j] = p[j]
  BY ConcatParts
<1> HIDE DEF c, p
<1>4. /\ i \in Nat /\ 2 <= i /\ i < Len(b)
      /\ \A j \in 1 .. i - 2 : Crumb(b[j])
      /\ b[i - 1] = [of |-> c, part |-> "text"]
      /\ ExitedZero(b, i) <=> c \notin Failing
      /\ ~Crumb(b[i + 1])
      /\ \A j \in i + 2 .. Len(p) : Crumb(p[j])
  <2>1. i = MarkerIndex(b, c)
    BY DEF c
  <2> QED
    <3>1. OwnAnswer(p, c, b, i)
      BY <1>1, <1>2, <1>3, <2>1, OwnFrame
    <3> QED
      BY <3>1, Zenon DEF OwnAnswer
<1>6. Crumbs(more) /\ Crumbs(rest \o more)
  <2>1. p = b \o more
    BY DEF p
  <2>2. \A j \in i + 2 .. Len(b \o more) : Crumb((b \o more)[j])
    BY <1>4, <2>1
  <2> QED
    BY <1>4, <2>2, LeftOver
<1>7. input[s] = <<>>
  <2>1. ~Crumbs(p)
    <3>0. i \in 1 .. Len(p) /\ i \in 1 .. Len(b) /\ i # 0
      BY <1>3, <1>4
    <3>1. b[i] = [of |-> c, part |-> "mark"]
      BY <3>0 DEF MarkerIndex, c
    <3>2. p[i].part = "mark"
      BY <1>3, <3>0, <3>1
    <3> QED
      BY <3>0, <3>2 DEF Crumbs, Crumb
  <2> QED
    BY <1>1, <2>1 DEF Answering, p
<1>8. Streams'
  <2>1. queue[s] \in Seq(Commands) /\ output'[s] = more /\ output'[s] \in Seq(Token)
    BY DEF TypeOK
  <2> HIDE DEF rest
  <2>2. Drain(s, queue[s], rest)
    BY DEF rest
  <2>3. /\ current'[s] # Nothing => Answering(s, current[s])'
        /\ current'[s] = Nothing => Silent(s)'
    BY <1>6, <1>7, <2>1, <2>2, DrainStream
  <2>4. \A r \in Shells \ {s} :
          /\ current'[r] = current[r] /\ input'[r] = input[r] /\ buffer'[r] = buffer[r]
    BY <2>2 DEF Drain, TypeOK
  <2>5. \A r \in Shells \ {s} : output'[r] = output[r]
    BY DEF TypeOK
  <2> QED
    BY <2>3, <2>4, <2>5, OneStream
<1>9. ResultIsOwn'
  <2> DEFINE g == SubSeq(b, 1, i - 1)
  <2>1. [of |-> c, part |-> "text"] \in ToSet(g)
        /\ \A t \in ToSet(g) : t.of # c => Crumb(t)
    BY <1>1, <1>4, OwnOutput
  <2> HIDE DEF g
  <2>2. got' = [got EXCEPT ![c] = g]
        /\ state' = [state EXCEPT ![c] = IF c \notin Failing THEN "resolved" ELSE "failed"]
    BY <1>4 DEF g, c
  <2>3. /\ got'[c] = g /\ state'[c] = IF c \notin Failing THEN "resolved" ELSE "failed"
        /\ \A d \in Commands \ {c} : got'[d] = got[d] /\ state'[d] = state[d]
    BY <1>1, <2>2 DEF TypeOK
  <2>4. ASSUME NEW d \in Commands \ {c}, state'[d] \in {"resolved", "failed"}
        PROVE  /\ state'[d] = "resolved" <=> d \notin Failing
               /\ [of |-> d, part |-> "text"] \in ToSet(got'[d])
               /\ \A t \in ToSet(got'[d]) : t.of # d => Crumb(t)
    BY <2>3, <2>4 DEF ResultIsOwn
  <2>5. /\ state'[c] = "resolved" <=> c \notin Failing
        /\ [of |-> c, part |-> "text"] \in ToSet(got'[c])
        /\ \A t \in ToSet(got'[c]) : t.of # c => Crumb(t)
    <3>1. state'[c] = "resolved" <=> c \notin Failing
      BY <2>3
    <3> QED
      BY <2>1, <2>3, <3>1
  <2> QED
    BY <2>4, <2>5 DEF ResultIsOwn
<1> QED
  BY <1>8, <1>9

LEMMA ReceiveFraming ==
  ASSUME Framing, NEW s \in Shells, Receive(s)
  PROVE  Streams' /\ ResultIsOwn'
<1> USE DEF Framing, Inv
<1> DEFINE c == current[s]
<1> PICK n \in 1 .. Len(output[s]) :
      LET b == buffer[s] \o SubSeq(output[s], 1, n)
          i == MarkerIndex(b, c)
      IN
      /\ output' = [output EXCEPT ![s] = SubSeq(@, n + 1, Len(@))]
      /\ \/ /\ c = Nothing
            /\ UNCHANGED <<queue, current, input, buffer, state, got>>
         \/ /\ c # Nothing
            /\ ~Framed(b, i)
            /\ buffer' = [buffer EXCEPT ![s] = b]
            /\ UNCHANGED <<queue, current, input, state, got>>
         \/ /\ c # Nothing
            /\ Framed(b, i)
            /\ state' = [state EXCEPT ![c] =
                 IF ExitedZero(b, i) THEN "resolved" ELSE "failed"]
            /\ got' = [got EXCEPT ![c] = SubSeq(b, 1, i - 1)]
            /\ \E e \in i .. Len(b) :
                 /\ MatchEnds(b, i, e)
                 /\ Drain(s, queue[s], SubSeq(b, e + 1, Len(b)))
  BY DEF Receive
<1> DEFINE b == buffer[s] \o SubSeq(output[s], 1, n)
           more == SubSeq(output[s], n + 1, Len(output[s]))
           i == MarkerIndex(b, c)
<1>1. UNCHANGED <<warm, made, closed, gone>> /\ output' = [output EXCEPT ![s] = more]
  BY DEF Receive
<1>2. output[s] \in Seq(Token) /\ buffer[s] \in Seq(Token)
  BY DEF TypeOK
<1>3. b \in Seq(Token) /\ more \in Seq(Token) /\ Pending(s) = b \o more
  <2>1. \A x, y \in Seq(Token) : \A m \in 1 .. Len(y) :
          /\ x \o SubSeq(y, 1, m) \in Seq(Token)
          /\ SubSeq(y, m + 1, Len(y)) \in Seq(Token)
          /\ x \o y = (x \o SubSeq(y, 1, m)) \o SubSeq(y, m + 1, Len(y))
    BY Cut, Zenon
  <2> QED
    BY <1>2, <2>1, Zenon DEF Pending
<1>4. output'[s] = more /\ \A r \in Shells \ {s} : output'[r] = output[r]
  <2> HIDE DEF more
  <2> QED
    BY <1>1 DEF TypeOK
<1>5. CASE c = Nothing
  <2>1. UNCHANGED <<current, input, buffer, state, got>>
    BY <1>5
  <2>2. ASSUME warm' = s \/ made' < s PROVE Silent(s)'
    <3>1. Silent(s)
      BY <1>1, <1>5, <2>2 DEF Streams
    <3>2. Crumbs(b \o more) /\ input[s] = <<>>
      BY <1>3, <3>1 DEF Silent
    <3> HIDE DEF b, more
    <3>3. Crumbs(more)
      BY <1>3, <3>2, CrumbsJoin
    <3>4. Crumbs(buffer[s])
      <4>1. Crumbs(buffer[s] \o output[s])
        BY <3>1 DEF Silent, Pending
      <4> QED
        BY <1>2, <4>1, CrumbsJoin
    <3>5. Crumbs(buffer[s] \o more)
      BY <1>2, <1>3, <3>3, <3>4, CrumbsJoin
    <3> QED
      BY <1>4, <2>1, <3>2, <3>5 DEF Silent, Pending
  <2> HIDE DEF b, more
  <2>3. Streams'
    BY <1>1, <1>4, <1>5, <2>1, <2>2, OneStream
  <2> QED
    BY <2>1, <2>3 DEF ResultIsOwn
<1>6. CASE c # Nothing /\ ~Framed(b, i)
  <2>1. buffer' = [buffer EXCEPT ![s] = b] /\ UNCHANGED <<current, input, state, got>>
    BY <1>6
  <2> HIDE DEF b, more
  <2>2. buffer'[s] = b /\ \A r \in Shells \ {s} : buffer'[r] = buffer[r]
    BY <1>3, <2>1 DEF TypeOK
  <2>3. Pending(s)' = Pending(s)
    BY <1>3, <1>4, <2>2 DEF Pending
  <2>4. Answering(s, c)'
    BY <1>6, <2>1, <2>3 DEF Streams, Answering
  <2>5. Streams'
    BY <1>1, <1>4, <1>6, <2>1, <2>2, <2>4, OneStream
  <2> QED
    BY <2>1, <2>5 DEF ResultIsOwn
<1>7. CASE c # Nothing /\ Framed(b, i)
  <2>1. /\ state' = [state EXCEPT ![c] = IF ExitedZero(b, i) THEN "resolved" ELSE "failed"]
        /\ got' = [got EXCEPT ![c] = SubSeq(b, 1, i - 1)]
    BY <1>7
  <2> PICK e \in i .. Len(b) : MatchEnds(b, i, e) /\ Drain(s, queue[s], SubSeq(b, e + 1, Len(b)))
    BY <1>7
  <2>2. i = MarkerIndex(b, current[s])
    OBVIOUS
  <2> HIDE DEF b, more, i
  <2> QED
    BY <1>1, <1>3, <1>7, <2>1, <2>2, FramedOwn
<1> QED
  BY <1>5, <1>6, <1>7

LEMMA RunFraming ==
  ASSUME Framing, NEW c \in Commands, Run(c)
  PROVE  Streams' /\ ResultIsOwn'
<1> USE DEF Framing, Inv
<1>1. PICK s \in Shells :
      /\ s = (IF warm = NoShell THEN made + 1 ELSE warm)
      /\ state[c] = "idle" /\ warm' = s
      /\ made' = (IF warm = NoShell THEN s ELSE made)
      /\ state' = [state EXCEPT ![c] = "waiting"]
      /\ UNCHANGED <<closed, gone, output, got>>
      /\ IF current[s] = Nothing
         THEN Drain(s, Append(queue[s], c), buffer[s])
         ELSE /\ queue' = [queue EXCEPT ![s] = Append(@, c)]
              /\ UNCHANGED <<current, buffer, input>>
  BY Zenon DEF Run
<1>2. warm = s \/ made < s
  BY <1>1 DEF TypeOK
<1>3. \A r \in Shells : warm' = r \/ made' < r => warm = r \/ made < r
  BY <1>1, <1>2 DEF TypeOK, Shells, NoShell
<1>4. ResultIsOwn'
  <2>1. \A d \in Commands : state'[d] \in {"resolved", "failed"} => state'[d] = state[d]
    BY <1>1 DEF TypeOK
  <2> QED
    BY <1>1, <2>1 DEF ResultIsOwn
<1>5. CASE current[s] = Nothing
  <2> DEFINE q == Append(queue[s], c)
  <2>1. Drain(s, q, buffer[s]) /\ q \in Seq(Commands)
    BY <1>1, <1>5 DEF TypeOK
  <2> HIDE DEF q
  <2>2. Silent(s)
    BY <1>1, <1>2, <1>5 DEF Streams
  <2>3. /\ buffer[s] \in Seq(Token) /\ output[s] \in Seq(Token) /\ output'[s] = output[s]
        /\ input[s] = <<>> /\ Crumbs(buffer[s] \o output[s])
    BY <1>1, <2>2 DEF TypeOK, Silent, Pending
  <2>4. Crumbs(output[s])
    BY <2>3, CrumbsJoin
  <2>5. /\ current'[s] # Nothing => Answering(s, current[s])'
        /\ current'[s] = Nothing => Silent(s)'
    <3>1. /\ Crumbs(output'[s]) /\ Crumbs(buffer[s] \o output'[s])
          /\ output'[s] \in Seq(Token) /\ input[s] = <<>>
      BY <2>3, <2>4
    <3> QED
      BY <1>1, <2>1, <3>1, DrainStream
  <2>6. \A r \in Shells \ {s} :
          /\ current'[r] = current[r] /\ input'[r] = input[r]
          /\ output'[r] = output[r] /\ buffer'[r] = buffer[r]
    BY <1>1, <2>1 DEF Drain, TypeOK
  <2> QED
    BY <1>1, <1>3, <1>4, <2>5, <2>6, OneStream
<1>6. CASE current[s] # Nothing
  BY <1>1, <1>3, <1>4, <1>6 DEF Streams, Answering, Silent, Pending
<1> QED
  BY <1>5, <1>6

\* An answer that was given stays: a step that gives none keeps those that came.
LEMMA Kept ==
  ASSUME ResultIsOwn, UNCHANGED got,
         \A d \in Commands : state'[d] \in {"resolved", "failed"} => state'[d] = state[d]
  PROVE  ResultIsOwn'
BY DEF ResultIsOwn

\* A command's own answer comes back, and nobody else's, whatever is sent, cut into
\* chunks, timed out or killed in between.
LEMMA FramingStep == Framing /\ [Next]_vars => Streams' /\ ResultIsOwn'
<1> SUFFICES ASSUME Framing, [Next]_vars PROVE Streams' /\ ResultIsOwn'
  OBVIOUS
<1> USE DEF Framing, Inv
<1>1. ASSUME NEW s \in Shells, Timeout(s) PROVE Streams' /\ ResultIsOwn'
  <2>1. /\ current[s] \in Timed
        /\ state' = [state EXCEPT ![current[s]] = "timed out"]
        /\ current' = [current EXCEPT ![s] = Nothing]
        /\ warm' = NoShell
        /\ UNCHANGED <<made, input, output, buffer, got>>
    BY <1>1 DEF Timeout
  <2>2. current[s] # Nothing /\ s \in Up
    BY <2>1, GuestShellAssumption DEF Made
  <2>3. /\ ~(warm' = s \/ made' < s)
        /\ \A r \in Shells : warm' = r \/ made' < r => warm = r \/ made < r
    <3>1. s \in Nat \ {0} /\ made \in Nat /\ s <= made
      BY <2>2 DEF Up, TypeOK
    <3>2. warm' = 0 /\ made' = made
      BY <2>1 DEF NoShell
    <3>3. \A r \in Shells : r # 0
      BY DEF Shells
    <3> QED
      BY <3>1, <3>2, <3>3
  <2>4. current'[s] = Nothing /\ \A r \in Shells \ {s} : current'[r] = current[r]
    BY <2>1 DEF TypeOK
  <2>5. Streams'
    BY <2>1, <2>3, <2>4, OneStream
  <2>6. \A d \in Commands : state'[d] \in {"resolved", "failed"} => state'[d] = state[d]
    BY <2>1 DEF TypeOK
  <2> QED
    BY <2>1, <2>5, <2>6, Kept
<1>2. ASSUME NEW s \in Shells, Exit(s) PROVE Streams' /\ ResultIsOwn'
  <2>1. /\ s \in 1 .. made
        /\ state' = [c \in Commands |-> IF c \in Held(s) THEN "lost" ELSE state[c]]
        /\ current' = [current EXCEPT ![s] = Nothing]
        /\ warm' = NoShell
        /\ UNCHANGED <<made, input, output, buffer, got>>
    BY <1>2 DEF Exit
  <2>2. /\ ~(warm' = s \/ made' < s)
        /\ \A r \in Shells : warm' = r \/ made' < r => warm = r \/ made < r
    <3>1. s \in Nat \ {0} /\ made \in Nat /\ s <= made
      BY <2>1 DEF TypeOK
    <3> QED
      BY <2>1, <3>1 DEF Shells, NoShell
  <2>3. current'[s] = Nothing /\ \A r \in Shells \ {s} : current'[r] = current[r]
    BY <2>1 DEF TypeOK
  <2>4. Streams'
    BY <2>1, <2>2, <2>3, OneStream
  <2>5. \A d \in Commands : state'[d] \in {"resolved", "failed"} => state'[d] = state[d]
    BY <2>1
  <2> QED
    BY <2>1, <2>4, <2>5, Kept
<1>3. CASE CloseHost
  <2>1. warm' = NoShell /\ UNCHANGED <<made, current, input, output, buffer, state, got>>
    BY <1>3 DEF CloseHost
  <2>2. \A r \in Shells : warm' # r
    BY <2>1 DEF Shells, NoShell
  <2> QED
    BY <2>1, <2>2 DEF Streams, Answering, Silent, Pending, ResultIsOwn
<1>4. CASE UNCHANGED vars
  BY <1>4 DEF vars, Streams, Answering, Silent, Pending, ResultIsOwn
<1> QED
  BY <1>1, <1>2, <1>3, <1>4, RunFraming, ExecuteFraming, ReceiveFraming DEF Next

\* runGuestCommand() gives its caller the output and the exit status of its own
\* command, for any number of commands, shells and chunks.
THEOREM ResultCorrect == Spec => []ResultIsOwn
<1>1. Init => Framing
  <2> SUFFICES ASSUME Init PROVE Streams /\ ResultIsOwn
    BY InvInit DEF Framing
  <2>1. <<>> \o <<>> = <<>> /\ Crumbs(<<>>)
    BY DEF Crumbs
  <2> QED
    BY <2>1 DEF Init, Streams, Silent, Pending, ResultIsOwn
<1>2. Framing /\ [Next]_vars => Framing'
  BY FramingStep, TypeStep, ShellsStep, HeldStep DEF Framing, Inv
<1>3. Framing => ResultIsOwn
  BY DEF Framing
<1> QED
  BY <1>1, <1>2, <1>3, PTL DEF Spec
=============================================================================
