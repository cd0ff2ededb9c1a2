------------------------------ MODULE AdminAPI ------------------------------
(***************************************************************************)
(* The hub's key administration (packages/hub/keys.go and the /tiers       *)
(* endpoint of server.go): one key record, the secrets ever minted for it  *)
(* and the tier store that decides which of them work.                     *)
(*                                                                         *)
(* A handler loads the record, decides, and then performs a fixed list of  *)
(* writes.  Each write is one step, so handlers interleave; any write may  *)
(* fail, with or without effect, which ends the request with an error.     *)
(***************************************************************************)
EXTENDS Integers, Sequences, FiniteSets

CONSTANTS
  Callers,     \* requests handled at the same time
  Roles,       \* roles of the tokens requests carry
  Plans,       \* tiers the group defines
  MaxSecrets,  \* bound: secrets minted
  MaxRequests  \* bound: requests

VARIABLES
  rec,      \* the key record: [hash, tier], or NoRecord
  legacy,   \* the record in the layout before hash tags
  tier,     \* tier[s]: the tier store's entry of secret s, "" when absent
  owned,    \* secrets whose owner is stored
  minted,   \* secrets minted
  calls,    \* calls[p]: the writes request p has left
  called,   \* requests started
  log,      \* audit entries
  deleting, \* a deletion has been asked for
  overlap,  \* two requests have been in progress together
  halfway,  \* a rotation has failed
  again     \* a migration has been started over

adminVars == <<rec, legacy, tier, owned, minted, calls, called, log, deleting, overlap, halfway, again>>

Secrets == 1 .. MaxSecrets
Done == [kind |-> "none"]
NoRecord == [hash |-> 0, tier |-> ""]
AdminInit ==
  /\ rec = NoRecord /\ legacy \in {NoRecord} \cup [hash : {1}, tier : Plans]
  /\ tier = [s \in Secrets |-> IF s = legacy.hash THEN legacy.tier ELSE ""]
  /\ owned = {legacy.hash} \ {0} /\ minted = legacy.hash
  /\ calls = [p \in Callers |-> Done] /\ called = 0 /\ log = 0 /\ deleting = FALSE
  /\ overlap = FALSE /\ halfway = FALSE /\ again = FALSE

----------------------------------------------------------------------------
\* The lists of writes.  assign: the tier, then the owner (nil leaves it, a
\* revocation clears it), then the push to the edges.
Save(r) == [w |-> "save", rec |-> r]
SetTier(s, t) == [w |-> "tier", s |-> s, t |-> t]
SetOwner(s, o) == [w |-> "owner", s |-> s, o |-> o]
PushTier == [w |-> "push"]
Audit == [w |-> "audit"]
assign(s, t, owner) ==
  <<SetTier(s, t)>> \o (IF t = "" THEN <<SetOwner(s, FALSE)>>
                        ELSE IF owner THEN <<SetOwner(s, TRUE)>> ELSE <<>>) \o <<PushTier>>
createKey(s, t) ==
  <<Save([hash |-> s, tier |-> t])>> \o assign(s, t, TRUE) \o <<Audit>>
\* updateKey writes the tier store only when the record's tier or the owner
\* changes.
updateKey(t, owner) ==
  <<Save([rec EXCEPT !.tier = t])>>
  \o (IF t # rec.tier \/ owner THEN assign(rec.hash, t, TRUE) ELSE <<>>) \o <<Audit>>
rotateKey(s) ==
  <<Save([rec EXCEPT !.hash = s])>> \o assign(s, rec.tier, TRUE)
  \o assign(rec.hash, "", FALSE) \o <<Audit>>
deleteKeyRecordFirst ==
  <<Save(NoRecord)>> \o assign(rec.hash, "", FALSE) \o <<Audit>>
deleteKey ==
  assign(rec.hash, "", FALSE) \o <<Save(NoRecord)>> \o <<Audit>>
\* MigrateKeyLayout: copy the record, delete the old one, then the old index.
MigrateForgetFirst == <<[w |-> "forget"], Save(legacy), PushTier>>
MigrateKeyLayout == <<Save(legacy), [w |-> "forget"], PushTier>>

\* authorize: the admin token may do anything, the read-only token only read.
MayWrite(role) == role = "admin"

Start(p, kind, writes) ==
  /\ calls[p] = Done /\ called < MaxRequests
  /\ \E role \in Roles : MayWrite(role)
  /\ calls' = [calls EXCEPT ![p] = [kind |-> kind, left |-> writes]]
  /\ called' = called + 1
  /\ overlap' = (overlap \/ \E q \in Callers : calls[q] # Done)
  /\ deleting' = (deleting \/ kind = "delete")
  /\ again' = (again \/ (kind = "migrate" /\ rec # NoRecord))
  /\ UNCHANGED <<rec, legacy, tier, owned, log, halfway>>

Create(p, t) ==
  /\ minted = 0 /\ Start(p, "create", createKey(1, t)) /\ minted' = 1
Update(p, t, owner) ==
  /\ rec # NoRecord /\ Start(p, "update", updateKey(t, owner)) /\ UNCHANGED minted
Rotate(p) ==
  /\ minted < MaxSecrets /\ rec # NoRecord
  /\ Start(p, "rotate", rotateKey(minted + 1)) /\ minted' = minted + 1
Delete(p) ==
  /\ rec # NoRecord /\ Start(p, "delete", deleteKey) /\ UNCHANGED minted
Migrate(p) ==
  /\ legacy # NoRecord /\ Start(p, "migrate", MigrateKeyLayout) /\ UNCHANGED minted
\* POST and DELETE /tiers on the hash of the record's secret: no record, no owner.
Retier(p, t) ==
  /\ rec # NoRecord /\ Start(p, "tiers", assign(rec.hash, t, FALSE) \o <<Audit>>) /\ UNCHANGED minted

\* What one write does.
Apply(x) ==
  /\ rec' = IF x.w = "save" THEN x.rec ELSE rec
  /\ legacy' = IF x.w = "forget" THEN NoRecord ELSE legacy
  /\ tier' = IF x.w = "tier" THEN [tier EXCEPT ![x.s] = x.t] ELSE tier
  /\ owned' = IF x.w # "owner" THEN owned ELSE IF x.o THEN owned \cup {x.s} ELSE owned \ {x.s}
  /\ log' = IF x.w = "audit" THEN log + 1 ELSE log
Write(p) ==
  /\ calls[p] # Done
  /\ Apply(Head(calls[p].left))
  /\ LET rest == Tail(calls[p].left)
     IN  calls' = [calls EXCEPT ![p] = IF rest = <<>> THEN Done ELSE [@ EXCEPT !.left = rest]]
  /\ UNCHANGED <<minted, called, overlap, deleting, again, halfway>>

\* A failed write ends the request; a failed push or audit entry does not.  A
\* handler that crashes is one whose write failed.
Fail(p, effect) ==
  /\ calls[p] # Done /\ Head(calls[p].left).w \notin {"push", "audit"}
  /\ IF effect THEN Apply(Head(calls[p].left)) ELSE UNCHANGED <<rec, legacy, tier, owned, log>>
  /\ calls' = [calls EXCEPT ![p] = Done]
  /\ halfway' = (halfway \/ calls[p].kind = "rotate")
  /\ UNCHANGED <<minted, called, overlap, deleting, again>>

AdminNext ==
  \/ \E p \in Callers : \E t \in Plans : Create(p, t)
  \/ \E p \in Callers : \E t \in Plans, o \in BOOLEAN : Update(p, t, o)
  \/ \E p \in Callers : Rotate(p)
  \/ \E p \in Callers : Delete(p)
  \/ \E p \in Callers : Migrate(p)
  \/ \E p \in Callers : \E t \in Plans \cup {""} : Retier(p, t)
  \/ \E p \in Callers : Write(p)
  \/ \E p \in Callers : \E effect \in BOOLEAN : Fail(p, effect)

AdminSpec == AdminInit /\ [][AdminNext]_adminVars

----------------------------------------------------------------------------
AllDone == \A p \in Callers : calls[p] = Done

\* Whatever write of a request fails, the only secret that works is the one of
\* the record, so that deleting the key revokes it: as long as requests are
\* handled one at a time, no rotation has failed and no migration is started
\* over (deleteKey revokes before it deletes, createKey records before it
\* assigns).
OnlyRecordedSecretWorks ==
  AllDone /\ ~overlap /\ ~halfway /\ ~again => \A s \in Secrets : tier[s] # "" => s \in {rec.hash, legacy.hash}

\* A key that nobody deletes has a record, in one layout or the other, through
\* failed, repeated and concurrent migrations (MigrateKeyLayout: "idempotent").
MigrationKeepsKey ==
  legacy = NoRecord /\ 1 \in owned /\ ~deleting => rec # NoRecord
=============================================================================
