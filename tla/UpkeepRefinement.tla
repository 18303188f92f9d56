-------------------------- MODULE UpkeepRefinement ---------------------------
(***************************************************************************)
(* Upkeep implements Ownership.  A call is being served while its stage is *)
(* not idle, it is looking until it has read its manifest, the record of   *)
(* an owner is its manifest, and everything else a call keeps (its diff,   *)
(* its loops, the manager) is hidden.                                      *)
(***************************************************************************)
EXTENDS UpkeepInvariant

\* The call deletes the files of the units that are gone.
Clears(r) == r.op # "attach" /\ r.prune

Promise == INSTANCE Ownership WITH
  Demands  <- [a \in Apps |-> {r.want : r \in Requests[a]}],
  Empty    <- NoCall.want,
  record   <- manifest,
  steady   <- ~ReadsFail,
  serving  <- {a \in Apps : pc[a] # "idle"},
  looking  <- {a \in Apps : pc[a] = "read"},
  seen     <- prior,
  asked    <- [a \in Apps |-> req[a].want],
  clearing <- {a \in Apps : Clears(req[a])},
  answer   <- outcome

\* Every behaviour of the calls is one that Ownership allows: files change one at
\* a time and only where the request or the manifest names them, and a manifest is
\* given up or replaced only when everything requested is on disk and, if the call
\* prunes, nothing else is that it found in the manifest.  A call finds the whole
\* manifest, or nothing while reads may fail.
KeepsPromise == Promise!Spec

\* Stages by which what is gone has been deleted.
Deleted == Installing \cup {"refresh", "forget"}

\* What the pruning loop has visited is gone, and stays gone up to the end.
Cleared(a) ==
  Separate(a) /\ Clears(req[a]) =>
    /\ pc[a] = "prune" => \A u \in Gone(a) \ todo[a] : files[u] = Absent
    /\ pc[a] \in Deleted => \A u \in Gone(a) : files[u] = Absent

AllCleared == \A a \in Apps : Cleared(a)
=============================================================================
