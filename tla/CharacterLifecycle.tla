------------------------- MODULE CharacterLifecycle -------------------------
(***************************************************************************)
(* What the service promises about one character, whatever requests, DB    *)
(* statements and background sweeps bring it about.  A character is born   *)
(* as a reservation ("pending", invisible to readers), and then either the *)
(* consumer confirms it ("active", visible and never physically deleted    *)
(* again), or the origin reclaims it.  Only an active character is edited  *)
(* or removed, and each edit moves its version by exactly one.             *)
(*                                                                         *)
(*     none --> pending --> active --> deleted                             *)
(*                 |                                                       *)
(*                 +------> reclaimed                                      *)
(*                                                                         *)
(* CharacterService is shown to implement this specification.              *)
(***************************************************************************)
EXTENDS Integers

CONSTANTS
  Id,        \* character ids
  Existing   \* the ids confirmed before the behaviour starts

VARIABLES
  stage,     \* stage[i]: where character i is in its life
  version    \* version[i]: its optimistic-lock version (0 before it is born)

vars == <<stage, version>>

Stage == {"none", "pending", "active", "deleted", "reclaimed"}

Init ==
  /\ stage = [i \in Id |-> IF i \in Existing THEN "active" ELSE "none"]
  /\ version = [i \in Id |-> IF i \in Existing THEN 1 ELSE 0]

Move(i, from, to) ==
  /\ stage[i] = from
  /\ stage' = [stage EXCEPT ![i] = to]

\* A reservation is made, at version 1.
Reserve(i) ==
  /\ Move(i, "none", "pending")
  /\ version' = [version EXCEPT ![i] = 1]

\* The reservation becomes visible data.
Confirm(i) == Move(i, "pending", "active") /\ UNCHANGED version

\* The origin drops a set of reservations, and never anything visible.
Reclaim(I) ==
  /\ I # {}
  /\ \A i \in I : stage[i] = "pending"
  /\ stage' = [i \in Id |-> IF i \in I THEN "reclaimed" ELSE stage[i]]
  /\ UNCHANGED version

\* Only visible data is edited, and no edit goes unnumbered.
Edit(i) ==
  /\ stage[i] = "active"
  /\ version' = [version EXCEPT ![i] = @ + 1]
  /\ UNCHANGED stage

\* Deletion is logical, final, and reaches only visible data.
Remove(i) == Move(i, "active", "deleted") /\ UNCHANGED version

Next ==
  \/ \E i \in Id : Reserve(i) \/ Confirm(i) \/ Edit(i) \/ Remove(i)
  \/ \E I \in SUBSET Id : Reclaim(I)

Spec == Init /\ [][Next]_vars
=============================================================================
