----------------------------- MODULE GuestShell ------------------------------
(***************************************************************************)
(* The warm guest shell of the test host: one bash process that runs the   *)
(* commands of many callers one after the other, framing the output of     *)
(* each with a marker, and the module-level variable that says which shell *)
(* is the warm one.                                                        *)
(*                                                                         *)
(* JavaScript callbacks run to completion, so each callback is one action: *)
(* a call, a chunk of output, a timer, the exit event of a process.  What  *)
(* bash writes for a command is its output, the marker, the digits of the  *)
(* exit status, of which only the first tells zero from nonzero, and the   *)
(* newline that ends the line; a chunk is any piece of the stream, and may *)
(* end between two digits.                                                 *)
(***************************************************************************)
EXTENDS Naturals, Sequences, FiniteSets, SequencesExt

CONSTANTS
  Commands,    \* calls of runGuestCommand, each made once
  Timed,       \* those made through runGuestCommandWithTimeout
  Hanging,     \* those bash may never finish
  Failing,     \* those that end with a nonzero exit status
  MaxShells,   \* bound on the shell processes of a run
  Fragile      \* shell processes may die on their own

VARIABLES
  warm,      \* guestShell: the warm shell, or NoShell
  made,      \* how many shells were made; shell s is the s-th
  closed,    \* shells that were closed: killed, or about to be
  gone,      \* shells whose exit event was handled
  queue,     \* queue[s]: commands waiting for shell s
  current,   \* current[s]: the command whose output s collects, or Nothing
  input,     \* input[s]: commands written to s and not yet run by bash
  output,    \* output[s]: tokens written by s and not yet read
  buffer,    \* buffer[s]: tokens read for the current command
  state,     \* state[c]: what the caller of c knows
  got        \* got[c]: the output its caller was given

vars == <<warm, made, closed, gone, queue, current, input, output, buffer, state, got>>

Shells  == 1 .. MaxShells
NoShell == 0
Nothing == "nothing"

ASSUME GuestShellAssumption ==
  /\ Timed \subseteq Commands
  /\ Hanging \subseteq Commands
  /\ Failing \subseteq Commands
  /\ MaxShells \in Nat
  /\ Fragile \in BOOLEAN
  /\ Nothing \notin Commands

Parts == {"text", "mark", "zero", "nonzero", "more", "tail"}
Token == [of : Commands, part : Parts]
States == {"idle", "waiting", "resolved", "failed", "timed out", "lost"}

TypeOK ==
  /\ warm \in Shells \cup {NoShell}
  /\ made \in 0 .. MaxShells
  /\ closed \in SUBSET Shells
  /\ gone \in SUBSET Shells
  /\ queue \in [Shells -> Seq(Commands)]
  /\ current \in [Shells -> Commands \cup {Nothing}]
  /\ input \in [Shells -> Seq(Commands)]
  /\ output \in [Shells -> Seq(Token)]
  /\ buffer \in [Shells -> Seq(Token)]
  /\ state \in [Commands -> States]
  /\ got \in [Commands -> Seq(Token)]

Init ==
  /\ warm = NoShell
  /\ made = 0
  /\ closed = {}
  /\ gone = {}
  /\ queue = [s \in Shells |-> <<>>]
  /\ current = [s \in Shells |-> Nothing]
  /\ input = [s \in Shells |-> <<>>]
  /\ output = [s \in Shells |-> <<>>]
  /\ buffer = [s \in Shells |-> <<>>]
  /\ state = [c \in Commands |-> "idle"]
  /\ got = [c \in Commands |-> <<>>]

-----------------------------------------------------------------------------
\* Mutant of Drain: a command that ends does not start the next one.
Drain_NotAfterResult(s, q, rest) ==
  IF q = <<>> \/ current[s] # Nothing
  THEN /\ queue' = [queue EXCEPT ![s] = q]
       /\ current' = [current EXCEPT ![s] = Nothing]
       /\ buffer' = [buffer EXCEPT ![s] = rest]
       /\ UNCHANGED input
  ELSE /\ queue' = [queue EXCEPT ![s] = Tail(q)]
       /\ current' = [current EXCEPT ![s] = Head(q)]
       /\ buffer' = [buffer EXCEPT ![s] = <<>>]
       /\ input' = [input EXCEPT ![s] = Append(@, Head(q))]

\* drain(): with nothing running, the first command of q is written to bash.
\* rest is what the buffer holds if nothing is left to run.
Drain(s, q, rest) ==
  IF q = <<>>
  THEN /\ queue' = [queue EXCEPT ![s] = <<>>]
       /\ current' = [current EXCEPT ![s] = Nothing]
       /\ buffer' = [buffer EXCEPT ![s] = rest]
       /\ UNCHANGED input
  ELSE /\ queue' = [queue EXCEPT ![s] = Tail(q)]
       /\ current' = [current EXCEPT ![s] = Head(q)]
       /\ buffer' = [buffer EXCEPT ![s] = <<>>]
       /\ input' = [input EXCEPT ![s] = Append(@, Head(q))]

\* getGuestShell(), then run() on that shell.
Run(c) ==
  LET s == IF warm = NoShell THEN made + 1 ELSE warm IN
  /\ state[c] = "idle"
  /\ s \in Shells
  /\ warm' = s
  /\ made' = IF warm = NoShell THEN s ELSE made
  /\ state' = [state EXCEPT ![c] = "waiting"]
  /\ IF current[s] = Nothing
     THEN Drain(s, Append(queue[s], c), buffer[s])
     ELSE /\ queue' = [queue EXCEPT ![s] = Append(@, c)]
          /\ UNCHANGED <<current, buffer, input>>
  /\ UNCHANGED <<closed, gone, output, got>>

\* What bash writes for c: an exit status is zero, or has up to three digits.
Answers(c) ==
  LET says(p) == [of |-> c, part |-> p] IN
  IF c \notin Failing
  THEN {<< says("text"), says("mark"), says("zero"), says("tail") >>}
  ELSE {<< says("text"), says("mark"), says("nonzero"), says("tail") >>,
        << says("text"), says("mark"), says("nonzero"), says("more"), says("tail") >>,
        << says("text"), says("mark"), says("nonzero"), says("more"), says("more"),
           says("tail") >>}

\* bash runs the next command it was sent.
Execute(s) ==
  /\ s \notin gone
  /\ input[s] # <<>>
  /\ input' = [input EXCEPT ![s] = Tail(@)]
  /\ \E answer \in Answers(Head(input[s])) :
       output' = [output EXCEPT ![s] = @ \o answer]
  /\ UNCHANGED <<warm, made, closed, gone, queue, current, buffer, state, got>>

\* Position of the current command's marker in b, 0 if it is not there.
MarkerIndex(b, c) ==
  IF \E i \in DOMAIN b : b[i] = [of |-> c, part |-> "mark"]
  THEN CHOOSE i \in DOMAIN b : b[i] = [of |-> c, part |-> "mark"]
  ELSE 0

\* Mutant of Framed: the marker alone ends a command.
Framed_MarkerOnly(b, i) == i # 0

\* The marker, at i, and a digit behind it have come: (\d+) asks for no more.
Framed(b, i) == i # 0 /\ i < Len(b)

\* The status read; without one, Number(undefined) is not zero.
ExitedZero(b, i) == i < Len(b) /\ b[i + 1].part = "zero"

\* The match of a marker at i ends at e: it takes the digits that have come, all of
\* them, and the newline if it is next.
MatchEnds(b, i, e) ==
  \E d \in i .. Len(b) :
    /\ \A j \in i + 1 .. d : b[j].part \in {"zero", "nonzero", "more"}
    /\ \/ d = Len(b) /\ e = d
       \/ d < Len(b) /\ b[d + 1].part = "tail" /\ e = d + 1

\* onData(): collect until the marker and a digit after it have come.  Digits and
\* the newline that come later are left to the next command, or to nobody.
Receive(s) ==
  \E n \in 1 .. Len(output[s]) :
    LET c == current[s]
        b == buffer[s] \o SubSeq(output[s], 1, n)
        i == MarkerIndex(b, c)
    IN
    /\ output' = [output EXCEPT ![s] = SubSeq(@, n + 1, Len(@))]
    /\ \/ /\ c = Nothing
          /\ UNCHANGED <<queue, current, input, buffer, state, got>>
       \/ /\ c # Nothing
          /\ ~Framed(b, i)
          /\ buffer' = [buffer EXCEPT ![s] = b]
          /\ UNCHANGED <<queue, current, input, state, got>>
       \/ /\ c # Nothing
          /\ Framed(b, i)
          /\ state' = [state EXCEPT ![c] =
               IF ExitedZero(b, i) THEN "resolved" ELSE "failed"]
          /\ got' = [got EXCEPT ![c] = SubSeq(b, 1, i - 1)]
          /\ \E e \in i .. Len(b) :
               /\ MatchEnds(b, i, e)
               /\ Drain(s, queue[s], SubSeq(b, e + 1, Len(b)))
    /\ UNCHANGED <<warm, made, closed, gone>>

\* Mutant of Timeout: the shell is closed, but it stays the warm one.
Timeout_KeepsWarm(s) ==
  /\ current[s] \in Timed
  /\ state' = [state EXCEPT ![current[s]] = "timed out"]
  /\ current' = [current EXCEPT ![s] = Nothing]
  /\ closed' = closed \cup {s}
  /\ UNCHANGED <<warm, made, gone, queue, input, output, buffer, got>>

\* The timer of the current command of s: the command fails and s is closed;
\* then runGuestCommandWithTimeout() closes the warm shell, whichever that is.
Timeout(s) ==
  /\ current[s] \in Timed
  /\ state' = [state EXCEPT ![current[s]] = "timed out"]
  /\ current' = [current EXCEPT ![s] = Nothing]
  /\ closed' = closed \cup {s} \cup ({warm} \ {NoShell})
  /\ warm' = NoShell
  /\ UNCHANGED <<made, gone, queue, input, output, buffer, got>>

\* Mutant of CloseHost: a shell that is not there is closed.
CloseHost_Unguarded ==
  /\ closed' = closed \cup {warm}
  /\ warm' = NoShell
  /\ UNCHANGED <<made, gone, queue, current, input, output, buffer, state, got>>

\* closeTestHost().
CloseHost ==
  /\ warm # NoShell
  /\ closed' = closed \cup {warm}
  /\ warm' = NoShell
  /\ UNCHANGED <<made, gone, queue, current, input, output, buffer, state, got>>

\* The commands an exit event finds on s, running or queued.
Held(s) == ({current[s]} \ {Nothing}) \cup ToSet(queue[s])

\* Mutant of Exit: queued commands are dropped, not rejected.
Exit_DropsQueue(s) ==
  /\ s \in 1 .. made
  /\ s \notin gone
  /\ Fragile \/ s \in closed
  /\ gone' = gone \cup {s}
  /\ state' = [c \in Commands |-> IF c = current[s] THEN "lost" ELSE state[c]]
  /\ current' = [current EXCEPT ![s] = Nothing]
  /\ queue' = [queue EXCEPT ![s] = <<>>]
  /\ warm' = NoShell
  /\ UNCHANGED <<made, closed, input, output, buffer, got>>

\* The exit event: every command held by s is rejected and onExitCleanup()
\* forgets the warm shell, whichever that is.
Exit(s) ==
  /\ s \in 1 .. made
  /\ s \notin gone
  /\ Fragile \/ s \in closed
  /\ gone' = gone \cup {s}
  /\ state' = [c \in Commands |-> IF c \in Held(s) THEN "lost" ELSE state[c]]
  /\ current' = [current EXCEPT ![s] = Nothing]
  /\ queue' = [queue EXCEPT ![s] = <<>>]
  /\ warm' = NoShell
  /\ UNCHANGED <<made, closed, input, output, buffer, got>>

-----------------------------------------------------------------------------
Next ==
  \/ \E c \in Commands : Run(c)
  \/ \E s \in Shells : Execute(s) \/ Receive(s) \/ Timeout(s) \/ Exit(s)
  \/ CloseHost

Spec == Init /\ [][Next]_vars

\* bash gets round to commands that do not hang, its output is read, timers
\* fire and a killed process exits.
Fairness ==
  \A s \in Shells :
    /\ WF_vars(Execute(s) /\ Head(input[s]) \notin Hanging)
    /\ WF_vars(Receive(s))
    /\ WF_vars(Timeout(s))
    /\ WF_vars(s \in closed /\ Exit(s))

FairSpec == Spec /\ Fairness

-----------------------------------------------------------------------------
\* The shells that are up and not being closed.
Live == (1 .. made) \ (closed \cup gone)

\* What a chunk that ends early can leave of an answer: digits of a status other than
\* the first, which are a failed command's, and the newline behind them.
Crumb(t) == t.part = "tail" \/ (t.part = "more" /\ t.of \in Failing)

\* A command that came back resolved if and only if its own exit status is zero, and
\* with its own output, whole.  Of other commands it has at most what a chunk that
\* ended inside their last line left: the newline, and the further digits of the
\* status of one that failed.
ResultIsOwn ==
  \A c \in Commands : state[c] \in {"resolved", "failed"} =>
    /\ state[c] = "resolved" <=> c \notin Failing
    /\ [of |-> c, part |-> "text"] \in ToSet(got[c])
    /\ \A t \in ToSet(got[c]) : t.of # c => Crumb(t)

\* A call that waits is held by exactly one shell, which has not exited, and a
\* shell holds no call twice and none that came back: no promise is dropped.
Accounted ==
  /\ \A c \in Commands :
       state[c] = "waiting" <=> \E s \in (1 .. made) \ gone : c \in Held(s)
  /\ \A s, r \in Shells : s # r => Held(s) \cap Held(r) = {}
  /\ \A s \in Shells :
       Cardinality(Held(s)) = Len(queue[s]) + (IF current[s] = Nothing THEN 0 ELSE 1)

\* The warm shell takes commands: it was not closed and did not exit.
WarmIsLive == warm # NoShell => warm \in Live

\* Every call comes back.
Settles == \A c \in Commands : state[c] = "waiting" ~> state[c] # "waiting"
=============================================================================
