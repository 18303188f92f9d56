------------------------------ MODULE MCUpkeep -------------------------------
(***************************************************************************)
(* Instances of Upkeep for TLC.  Requests are built from the options of    *)
(* the calls, so that an instance lists them the way an application would. *)
(***************************************************************************)
EXTENDS UpkeepRefinement

CONSTANTS svc, tmr, aux, v1, v2, app, peer, ours, theirs

\* Units, the text each is wanted with.
Just(u, v) == [x \in {u} |-> v]
Both(u, v, w, x) == [y \in {u, w} |-> IF y = u THEN v ELSE x]

Plain == [op |-> "detach", want |-> [x \in {} |-> Invalid], enable |-> FALSE,
          start |-> FALSE, restart |-> FALSE, stop |-> TRUE, disable |-> TRUE,
          prune |-> TRUE]
Detach == Plain
Attach(want, enable, start) ==
  [Plain EXCEPT !.op = "attach", !.want = want, !.enable = enable, !.start = start]
Reattach(want, enable, start, restart) ==
  [Plain EXCEPT !.op = "reattach", !.want = want, !.enable = enable,
                !.start = start, !.restart = restart]
Leaving(r) == [r EXCEPT !.stop = FALSE, !.disable = FALSE]
Keeping(r) == [r EXCEPT !.prune = FALSE]

TimerUnits == {svc, tmr}
TimerTarget == [u \in TimerUnits |-> IF u = tmr THEN {svc} ELSE {}]
NoTarget == [u \in {svc, aux} |-> {}]

OneOwner == [a \in {app} |-> ours]
TwoOwners == [a \in {app, peer} |-> IF a = app THEN ours ELSE theirs]

\* One application with a timer and the service it triggers, every kind of call.
TimerRequests == [a \in {app} |->
  { Attach(Both(svc, v1, tmr, v1), TRUE, FALSE),
    Reattach(Both(svc, v2, tmr, v1), TRUE, TRUE, TRUE),
    Reattach(Just(svc, v1), FALSE, FALSE, TRUE),
    Reattach(Just(svc, Invalid), TRUE, TRUE, TRUE),
    Detach }]

\* Two owners that share the unit directory and the manager, not their units.
OwnersRequests == [a \in {app, peer} |->
  IF a = app
  THEN { Reattach(Just(svc, v1), FALSE, TRUE, TRUE), Detach }
  ELSE { Attach(Just(aux, v1), TRUE, FALSE), Keeping(Leaving(Detach)) }]

\* Updates by reattach only.
EnablingUpdates == [a \in {app} |->
  { Reattach(Both(svc, v1, aux, v1), TRUE, TRUE, TRUE),
    Reattach(Both(svc, v2, aux, v1), TRUE, TRUE, TRUE),
    Reattach(Just(aux, v2), TRUE, FALSE, TRUE),
    Detach }]

\* An application that gives up a unit, with the default options.
ShrinkRequests == [a \in {app} |->
  { Reattach(Both(svc, v1, aux, v1), TRUE, FALSE, FALSE),
    Reattach(Just(svc, v1), TRUE, FALSE, FALSE) }]
=============================================================================
