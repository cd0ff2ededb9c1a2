------------------------------ MODULE MCControl ------------------------------
(***************************************************************************)
(* ControlPlane on a small instance: two hubs and one tier.                *)
(***************************************************************************)
EXTENDS ControlPlane

CONSTANTS h1, h2

\* Bounds on what a behaviour explores: tier changes and lookups, or a reload and
\* cached responses, or more reloads.
Responses == fill # NoConfig \/ kept # NoResponse
Lookups == flight # Quiet \/ \E h \in Replicas : look[h] # Quiet \/ cached[h] # None
ControlScope ==
  \/ done.reloads = 0 /\ ~Responses
  \/ done.changes = 0 /\ ~Lookups /\ (Responses => done.reloads < 2)
=============================================================================
