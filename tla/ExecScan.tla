------------------------------ MODULE ExecScan -------------------------------
(***************************************************************************)
(* isAbsoluteExecCommand: a scan over the prefix characters of a command   *)
(* line that decides whether the line names an absolute executable.  The   *)
(* scanner moves one prefix at a time; Absolute says, without a scanner,   *)
(* which lines it accepts.                                                 *)
(***************************************************************************)
EXTENDS Naturals, Sequences

CONSTANTS
  Chars,   \* characters of a command line
  Lines    \* command lines that are scanned

ASSUME ExecScanAssumption == Lines \subseteq Seq(Chars)

VARIABLES
  line,        \* the value being scanned
  index,       \* the next character, counted from 1
  privileged,  \* a privilege prefix has been seen
  verdict      \* "idle", "scanning", "absolute" or "refused"

scanVars == <<line, index, privileged, verdict>>

Modifiers  == {"@", "-", ":"}
Privileges == {"+", "!"}

ScanInit ==
  /\ line = <<>>
  /\ index = 1
  /\ privileged = FALSE
  /\ verdict = "idle"

Begin(l) ==
  /\ line' = l
  /\ index' = 1
  /\ privileged' = FALSE
  /\ verdict' = "scanning"

\* The scanner's variables are gone when it returns.
End ==
  /\ line' = <<>>
  /\ index' = 1
  /\ privileged' = FALSE
  /\ verdict' = "idle"

SkipModifier ==
  /\ verdict = "scanning"
  /\ index \in DOMAIN line
  /\ line[index] \in Modifiers
  /\ index' = index + 1
  /\ UNCHANGED <<line, privileged, verdict>>

\* Mutant of Width: `!!` is read as two prefixes.
Width_One == 1

\* `!!` is one prefix.
Width ==
  IF line[index] = "!" /\ index + 1 \in DOMAIN line /\ line[index + 1] = "!" THEN 2 ELSE 1

SkipPrivilege ==
  /\ verdict = "scanning"
  /\ index \in DOMAIN line
  /\ line[index] \in Privileges
  /\ ~privileged
  /\ privileged' = TRUE
  /\ index' = index + Width
  /\ UNCHANGED <<line, verdict>>

\* Two privilege prefixes contradict each other.
RefusePrivilege ==
  /\ verdict = "scanning"
  /\ index \in DOMAIN line
  /\ line[index] \in Privileges
  /\ privileged
  /\ verdict' = "refused"
  /\ UNCHANGED <<line, index, privileged>>

\* The first character that is no prefix, or the end of the line, decides.
Settle ==
  /\ verdict = "scanning"
  /\ index \in DOMAIN line => line[index] \notin Modifiers \cup Privileges
  /\ verdict' = IF index \in DOMAIN line /\ line[index] = "/" THEN "absolute" ELSE "refused"
  /\ UNCHANGED <<line, index, privileged>>

ScanStep == SkipModifier \/ SkipPrivilege \/ RefusePrivilege \/ Settle

ScanNext ==
  \/ verdict # "scanning" /\ \E l \in Lines : Begin(l)
  \/ ScanStep

ScanSpec == ScanInit /\ [][ScanNext]_scanVars
-----------------------------------------------------------------------------
\* Positions i and j may both hold privilege prefixes: they are one `!!`.
OnePrefix(l, i, j) == j = i + 1 /\ l[i] = "!" /\ l[j] = "!"

\* The path begins at k: prefixes only come before it, and at most one of them
\* concerns privileges.
PathAt(l, k) ==
  /\ l[k] = "/"
  /\ \A i \in 1..(k - 1) : l[i] \in Modifiers \cup Privileges
  /\ \A i, j \in 1..(k - 1) :
       i < j /\ l[i] \in Privileges /\ l[j] \in Privileges => OnePrefix(l, i, j)

Absolute(l) == \E k \in DOMAIN l : PathAt(l, k)

\* The scan accepts exactly the absolute command lines, whatever order its
\* prefixes come in and wherever the line ends.
ScanDecides ==
  /\ verdict = "absolute" => Absolute(line)
  /\ verdict = "refused" => ~Absolute(line)

-----------------------------------------------------------------------------
\* What the scanner has behind it: prefixes only, with at most one for
\* privileges, and a flag that says whether there is one.
Behind ==
  /\ index \in 1..(Len(line) + 1)
  /\ \A i \in 1..(index - 1) : line[i] \in Modifiers \cup Privileges
  /\ \A i, j \in 1..(index - 1) :
       i < j /\ line[i] \in Privileges /\ line[j] \in Privileges => OnePrefix(line, i, j)
  /\ ~privileged => \A i \in 1..(index - 1) : line[i] \notin Privileges

\* A privilege prefix behind the scanner rules out another one ahead: it is not
\* the first half of a `!!`.
Barred ==
  privileged /\ index \in DOMAIN line =>
    \E i \in 1..(index - 1) : line[i] \in Privileges /\ ~OnePrefix(line, i, index)

ScanInv ==
  /\ line \in Seq(Chars)
  /\ privileged \in BOOLEAN
  /\ verdict \in {"idle", "scanning", "absolute", "refused"}
  /\ verdict = "scanning" => Behind /\ Barred
  /\ ScanDecides
=============================================================================
