------------------------------ MODULE Ownership ------------------------------
(***************************************************************************)
(* What SystemdTs promises about the unit directory, with every command,   *)
(* loop and stage of a call left out.  An application asks for a set of    *)
(* unit texts.  Its request looks at the record of its owner once, and     *)
(* finds all of it or, while the world is not steady, may find nothing.    *)
(* Then files change one by one and only where the record, or the request, *)
(* names them; a record is given up or replaced only when all that was     *)
(* asked for is in place and all that was found in it is cleared; and the  *)
(* application may be told of a failure at any time.  What it does not     *)
(* promise: a request that found nothing forgets what it did not find.     *)
(***************************************************************************)
CONSTANTS
  Units,     \* unit filenames
  Apps,      \* processes that use systemd-ts
  Owners,    \* values of options.owner
  OwnerOf,   \* the owner an application passes
  Demands,   \* Demands[a]: what a may ask for, each a function from units to texts
  Empty,     \* the demand for no unit at all
  Absent,    \* no file
  Torn       \* a file that is being written

VARIABLES
  files,     \* files[u]: the text of u in the unit directory
  record,    \* record[o]: the units o is known to own
  steady,    \* records can be read
  serving,   \* applications whose request is being worked on
  looking,   \* those whose request has not looked at the record yet
  seen,      \* seen[a]: what a's request found on record
  asked,     \* asked[a]: the demand of a's request, or of its last one
  clearing,  \* applications whose request is to delete what it does not ask for
  answer     \* answer[a]: how the last request ended

oVars == <<files, record, steady, serving, looking, seen, asked, clearing, answer>>

\* What a request may find on record.
Sights(a) == {record[OwnerOf[a]]} \cup (IF steady THEN {} ELSE {{}})

\* Units a's request found on record and does not ask for.
Surplus(a) == seen[a] \ DOMAIN asked[a]

Working(a) == a \in serving \ looking

\* Everything asked for is on disk, and everything to be deleted is not.
Done(a) ==
  /\ \A u \in DOMAIN asked[a] : files[u] = asked[a][u]
  /\ a \in clearing => \A u \in Surplus(a) : files[u] = Absent

Init ==
  /\ files = [u \in Units |-> Absent]
  /\ record = [o \in Owners |-> {}]
  /\ steady \in BOOLEAN
  /\ serving = {}
  /\ looking = {}
  /\ seen = [a \in Apps |-> {}]
  /\ asked = [a \in Apps |-> Empty]
  /\ clearing = {}
  /\ answer = [a \in Apps |-> "none"]

\* A request is taken up, or turned down at once.
Ask(a) ==
  /\ a \notin serving
  /\ \E d \in Demands[a] : asked' = [asked EXCEPT ![a] = d]
  /\ clearing' \in {clearing \cup {a}, clearing \ {a}}
  /\ seen' = [seen EXCEPT ![a] = {}]
  /\ \/ /\ serving' = serving \cup {a}
        /\ looking' = looking \cup {a}
        /\ answer' = [answer EXCEPT ![a] = "none"]
     \/ /\ answer' = [answer EXCEPT ![a] = "err"]
        /\ UNCHANGED <<serving, looking>>
  /\ UNCHANGED <<files, record, steady>>

\* The request goes by what it finds on record.  One for nothing at all has to find
\* something to go on.
Look(a) ==
  /\ a \in looking
  /\ \E found \in Sights(a) :
       /\ found # {} \/ DOMAIN asked[a] # {}
       /\ seen' = [seen EXCEPT ![a] = found]
  /\ looking' = looking \ {a}
  /\ UNCHANGED <<files, record, steady, serving, asked, clearing, answer>>

\* A request for nothing at all that finds nothing is done, and changes nothing.
Overlook(a) ==
  /\ a \in looking
  /\ DOMAIN asked[a] = {}
  /\ {} \in Sights(a)
  /\ looking' = looking \ {a}
  /\ serving' = serving \ {a}
  /\ answer' = [answer EXCEPT ![a] = "ok"]
  /\ UNCHANGED <<files, record, steady, seen, asked, clearing>>

\* A file that was asked for is truncated or gets its text.
Put(a, u) ==
  /\ Working(a)
  /\ u \in DOMAIN asked[a]
  /\ \E text \in {Torn, asked[a][u]} : files' = [files EXCEPT ![u] = text]
  /\ UNCHANGED <<record, steady, serving, looking, seen, asked, clearing, answer>>

\* Only what was found, is still on record and is not asked for is deleted.
Delete(a, u) ==
  /\ Working(a)
  /\ u \in Surplus(a) \cap record[OwnerOf[a]]
  /\ files' = [files EXCEPT ![u] = Absent]
  /\ UNCHANGED <<record, steady, serving, looking, seen, asked, clearing, answer>>

\* The record is rewritten in place: for a moment there is none.
Erase(a) ==
  /\ Working(a)
  /\ Done(a)
  /\ record' = [record EXCEPT ![OwnerOf[a]] = {}]
  /\ UNCHANGED <<files, steady, serving, looking, seen, asked, clearing, answer>>

Succeed(a) ==
  /\ Working(a)
  /\ Done(a)
  /\ record' = [record EXCEPT ![OwnerOf[a]] = DOMAIN asked[a]]
  /\ serving' = serving \ {a}
  /\ answer' = [answer EXCEPT ![a] = "ok"]
  /\ UNCHANGED <<files, steady, looking, seen, asked, clearing>>

\* An error result, an exception, or the death of the process.
Fail(a) ==
  /\ a \in serving
  /\ serving' = serving \ {a}
  /\ looking' = looking \ {a}
  /\ \E e \in {"err", "rejected", "crashed"} : answer' = [answer EXCEPT ![a] = e]
  /\ UNCHANGED <<files, record, steady, seen, asked, clearing>>

\* From now on whoever looks at a record finds all of it.
Steady ==
  /\ steady' = TRUE
  /\ UNCHANGED <<files, record, serving, looking, seen, asked, clearing, answer>>

Next ==
  \/ \E a \in Apps :
       \/ Ask(a) \/ Look(a) \/ Overlook(a) \/ Erase(a) \/ Succeed(a) \/ Fail(a)
       \/ \E u \in Units : Put(a, u) \/ Delete(a, u)
  \/ Steady

Spec == Init /\ [][Next]_oVars
=============================================================================
