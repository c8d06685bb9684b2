----------------------------- MODULE SettledView -----------------------------
(***************************************************************************)
(* What a mirror of the portal promises, whatever channels feed it: an     *)
(* entity only ever shows a reading that the portal had, now or earlier,   *)
(* and once the portal rests it comes to show the portal's reading.  It    *)
(* may fall back to an older reading in between.                           *)
(***************************************************************************)
EXTENDS Naturals

CONSTANTS
  Items,            \* what the portal reports
  ValueOf(_, _)     \* the reading that version n of an item carries

VARIABLES
  truth,            \* the portal's version of each item
  view              \* the version that is shown

viewed == <<truth, view>>

\* A version stands for its reading: two versions may carry the same one.
Settled(i) == ValueOf(i, view[i]) = ValueOf(i, truth[i])

Init == truth \in [Items -> Nat] /\ view = truth

Publish(i) ==
  /\ truth' = [truth EXCEPT ![i] = @ + 1]
  /\ UNCHANGED view

\* Some items are shown anew, in any version up to the portal's.
Show ==
  /\ UNCHANGED truth
  /\ DOMAIN view' = Items
  /\ \A i \in Items : view'[i] = view[i] \/ view'[i] \in 0 .. truth[i]

CatchUp(i) ==
  /\ ~Settled(i)
  /\ view' = [view EXCEPT ![i] = truth[i]]
  /\ UNCHANGED truth

Next == Show \/ \E i \in Items : Publish(i)

Spec == Init /\ [][Next]_viewed /\ \A i \in Items : WF_viewed(CatchUp(i))
=============================================================================
