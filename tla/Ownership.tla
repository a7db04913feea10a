------------------------------ MODULE Ownership ------------------------------
(***************************************************************************)
(* The reservation pattern of README.md as a whole: CharacterService and   *)
(* the consumer (the application, which keeps the owners in a MySQL of its  *)
(* own).  No transaction spans the two stores.  The consumer reserves a    *)
(* character, links it to its owner, confirms it, and repeats any of these *)
(* as often as it likes, in as many requests at a time as it likes; it     *)
(* crashes by not going on.  When a confirmation is answered 404, or a     *)
(* deletion 204, it removes the link.                                      *)
(***************************************************************************)
EXTENDS CharacterService

VARIABLE owned   \* the characters that the consumer has linked to an owner

ownVars == <<vars, owned>>

OwnTypeOK == TypeOK /\ owned \subseteq Id

OwnInit == Init /\ owned = Existing

\* What the consumer sends: it confirms what it has linked.
Send(r) ==
  /\ \E c \in CallsOf(r) :
       /\ c.op \in Ops
       /\ c.op = "confirm" => c.id \in owned
       /\ Dispatch(r, c)
  /\ UNCHANGED owned

\* The owner is written once the id of the reservation is known.
Link(r) ==
  /\ GivenCharacter(r)
  /\ reply[r].id \notin owned
  /\ owned' = owned \cup {reply[r].id}
  /\ UNCHANGED vars

\* The link goes when the character cannot be confirmed any more, or is deleted.
Unlink(r) ==
  /\ call[r] # None /\ call[r].id \in owned
  /\ \/ call[r].op = "confirm" /\ Answered(r, "notFound")
     \/ Answered(r, "deleted")
  /\ owned' = owned \ {call[r].id}
  /\ UNCHANGED vars

\* What goes on in the service.
Work ==
  /\ \/ \E r \in Req : Serve(r)
     \/ \E i \in Id : Elapse(i)
     \/ SweepUnconfirmed
     \/ \E x \in Race : DeleteRace(x)
  /\ UNCHANGED owned

OwnNext == Work \/ \E r \in Req : Send(r) \/ Link(r) \/ Unlink(r)

OwnSpec == OwnInit /\ [][OwnNext]_ownVars

-----------------------------------------------------------------------------
Gone(i) == i \in reclaimed \/ (Present(i) /\ rows[i].deleted)

\* README.md:137: a character that readers can see has an owner, whatever is
\* retried, lost, swept or deleted meanwhile, and wherever the consumer stops.
VisibleHasOwner == \A i \in Id : Active(i) => i \in owned

\* Why: a confirmation under way is one of a linked character, or comes too late.
ConfirmationsAreOwned ==
  \A r \in Req :
    pc[r] \in {"confirm", "recheck"} => call[r].id \in owned \/ Gone(call[r].id)

\* A deletion answered 204 is for good.
DeletionsStand == \A r \in Req : Answered(r, "deleted") => Gone(call[r].id)

OwnInv == Inv /\ OwnTypeOK /\ VisibleHasOwner /\ ConfirmationsAreOwned /\ DeletionsStand
=============================================================================
