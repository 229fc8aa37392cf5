------------------------------ MODULE ReportStore ------------------------------
(***************************************************************************)
(* What the report database promises: every report that says something is  *)
(* stored whole, in one step and under an id of its own; one that says     *)
(* nothing leaves no trace; and what was stored is never touched again.    *)
(* The server may die at any time, and a report it has in its hands is     *)
(* then either stored or not.  A lossy store may leave out entries of a    *)
(* report, or all of it, but keeps the entries that it stores whole.       *)
(* InsertDatabase implements it.                                           *)
(***************************************************************************)
EXTENDS Naturals

CONSTANTS
  Ids,        \* the numbers a report may be stored under
  Reports,    \* the reports a client may send
  Content,    \* Content[r]: what r says, as the set of its entries' sets of lines
  Lossy,      \* whether entries may be left out
  NoReport    \* the store is not working on a report

VARIABLES
  inbox,      \* the report being worked on, or NoReport
  stored,     \* the stored reports' lines, as a function of their ids
  dead        \* the server has ended

vars == <<inbox, stored, dead>>

Init == inbox = NoReport /\ stored = [i \in {} |-> {}] /\ dead = FALSE

Submit(r) ==
  /\ ~dead /\ inbox = NoReport
  /\ inbox' = r
  /\ UNCHANGED <<stored, dead>>

(* Ids grow, so that a report never comes to stand for an older one. *)
StoreAs(id) ==
  /\ inbox # NoReport
  /\ \A old \in DOMAIN stored : old < id
  /\ \E kept \in (SUBSET Content[inbox]) \ {{}} :
       /\ Lossy \/ kept = Content[inbox]
       /\ stored' = [i \in DOMAIN stored \cup {id} |-> IF i = id THEN UNION kept ELSE stored[i]]

Store ==
  /\ ~dead
  /\ \E id \in Ids : StoreAs(id)
  /\ inbox' = NoReport /\ UNCHANGED dead

Discard ==
  /\ ~dead /\ inbox # NoReport
  /\ Lossy \/ Content[inbox] = {}
  /\ inbox' = NoReport
  /\ UNCHANGED <<stored, dead>>

Die ==
  /\ ~dead
  /\ UNCHANGED stored \/ \E id \in Ids : StoreAs(id)
  /\ dead' = TRUE /\ inbox' = NoReport

Restart == dead /\ dead' = FALSE /\ UNCHANGED <<inbox, stored>>

Next == (\E r \in Reports : Submit(r)) \/ Store \/ Discard \/ Die \/ Restart

Spec == Init /\ [][Next]_vars
=============================================================================
