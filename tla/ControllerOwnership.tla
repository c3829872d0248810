------------------------ MODULE ControllerOwnership ------------------------
(***************************************************************************)
(* What the handoff promises of one session, without its phases, workers,  *)
(* crashes or rollbacks: a session has one owner, only the owner's         *)
(* controller is ever started, and ownership moves while none runs.        *)
(***************************************************************************)
CONSTANT Owners

VARIABLES
  owner,     \* the interface the session is committed to
  writers    \* the controllers that run

vars == <<owner, writers>>

TypeOK == owner \in Owners /\ writers \in SUBSET Owners

Init == owner \in Owners /\ writers = {owner}

Launch == writers = {} /\ writers' = {owner} /\ UNCHANGED owner

Stop == writers' = {} /\ UNCHANGED owner

Switch == writers = {} /\ owner' \in Owners /\ UNCHANGED writers

Next == Launch \/ Stop \/ Switch

Spec == Init /\ [][Next]_vars

\* Two controllers never write to one native conversation.
OneWriter == writers \subseteq {owner}
=============================================================================
