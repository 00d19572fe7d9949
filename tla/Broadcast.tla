----------------------------- MODULE Broadcast ------------------------------
(***************************************************************************)
(* What a talkspurt promises the radios that follow it: the packets of one *)
(* push of the button leave in the order announcement, audio by sequence   *)
(* number, END, and no packet of an earlier push is among them.  The       *)
(* promise is void while the radio is stuck, from a refused role change to *)
(* the next return to reception.  Talkspurt.tla implements it with a       *)
(* queue, two tasks and the session state of the adapter.                  *)
(***************************************************************************)
EXTENDS Naturals

VARIABLES
  session,          \* the push of the button under way
  stuck,            \* a role change was refused and reception not yet restored
  air               \* the last packet of the session handed to the radio

Rank(kind) == CASE kind = "announce" -> 1 [] kind = "audio" -> 2
                [] kind = "end" -> 3 [] OTHER -> 0

\* item may be handed to the radio after before, in the same session.
After(before, item) ==
  \/ Rank(before.kind) < Rank(item.kind)
  \/ before.kind = item.kind /\ (item.kind = "audio" => before.n < item.n)

Init == stuck = FALSE /\ air.kind = "none"

Begin == session' # session /\ air'.kind = "none" /\ UNCHANGED stuck

Transmit ==
  /\ ~stuck => air'.session = session /\ After(air, air')
  /\ UNCHANGED << session, stuck >>

RoleChange == stuck' \in BOOLEAN /\ UNCHANGED << session, air >>

Next == Begin \/ Transmit \/ RoleChange
Spec == Init /\ [][Next]_<< session, stuck, air >>
=============================================================================
