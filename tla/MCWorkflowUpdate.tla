--------------------------- MODULE MCWorkflowUpdate --------------------------
(***************************************************************************)
(* Instances of WorkflowUpdate for TLC: two workflow files with an action  *)
(* used at two versions, mise, and a comment that is no version.           *)
(***************************************************************************)
EXTENDS WorkflowUpdate, TLC

CONSTANTS checkout, miseAction, mise, old, older

V(major, minor, patch) ==
  [major |-> major, minor |-> minor, patch |-> patch, pre |-> 0, segments |-> 3]
V3 == V(3, 2, 0)
V4 == V(4, 0, 0)
\* v4, which moves along with the releases of 4, and a prerelease of 5.
Prefix4 == [V4 EXCEPT !.segments = 1]
Pre5 == [V(5, 0, 0) EXCEPT !.pre = 1]
Text == [text |-> "pinned"]
Tag(version) == [v |-> TRUE, version |-> version]
Bare(version) == [v |-> FALSE, version |-> version]

MCReleases ==
  (checkout :> <<Tag(Text), Tag(V3), Bare(Prefix4), Tag(Prefix4), Tag(Pre5), Tag(V4)>>) @@
  (miseAction :> <<Tag(Text)>>) @@
  (mise :> <<Tag(V(0, 8, 0)), Tag(V(1, 0, 0)), Tag(V(1, 0, 12))>>)

MCPublished == (checkout :> 5) @@ (miseAction :> 1) @@ (mise :> 2)

Use(indent, starts, action, ref, version) ==
  [kind |-> "use", indent |-> indent, starts |-> starts,
   action |-> action, ref |-> ref, version |-> version]
Version(indent, version) ==
  [kind |-> "version", indent |-> indent, starts |-> FALSE,
   action |-> None, ref |-> NoRef, version |-> version]
Other(indent, starts) ==
  [kind |-> "text", indent |-> indent, starts |-> starts,
   action |-> None, ref |-> NoRef, version |-> None]

\* A step that has a name before its action, and the last step of a job, which
\* pins no version: the version below belongs to the next job.
Jobs ==
  << Use(6, FALSE, miseAction, old, V(2, 1, 0)), Version(8, V(1, 0, 0)),
     Use(4, TRUE, miseAction, old, V(2, 1, 0)), Other(2, TRUE), Version(8, V(0, 9, 0)) >>

Checkouts == << Use(4, TRUE, checkout, old, V3), Use(6, FALSE, checkout, older, Text) >>

\* Steps that begin with their action, as most of this repository do, though not
\* the one that uses mise: the version below belongs to another action.
BareSteps ==
  << Use(4, TRUE, miseAction, old, V(2, 1, 0)), Other(4, TRUE), Other(6, FALSE),
     Version(8, V(0, 9, 0)) >>

MCJobs == <<Jobs, Checkouts>>
MCBare == <<BareSteps>>
=============================================================================
