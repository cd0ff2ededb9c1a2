------------------------------ MODULE Batcher ------------------------------
(***************************************************************************)
(* limiter.Batcher: an edge's concurrent lease requests coalesced into     *)
(* batched calls, at most MaxInflight of them at a time, and the hub's     *)
(* RequestQuotaLeases that answers one.  A hub that predates batching      *)
(* answers Unimplemented, after which requests go out one by one.          *)
(***************************************************************************)
EXTENDS Integers, Sequences, FiniteSets

CONSTANTS Calls, MaxItems, MaxInflight

ASSUME BatcherSettings == MaxItems \in Nat \ {0} /\ MaxInflight \in Nat \ {0}

VARIABLES
  waiter,     \* waiter[c]: its step and its answer
  pending,    \* Batcher.pending
  batches,    \* the batches being exchanged: their calls and how many were asked for alone
  inflight,   \* Batcher.inflight
  unbatched   \* Batcher.unbatched

batchVars == <<waiter, pending, batches, inflight, unbatched>>

NoAnswer == [kind |-> "none", of |-> {}]
BatchInit ==
  /\ waiter = [c \in Calls |-> [step |-> "idle", answer |-> NoAnswer]]
  /\ pending = <<>> /\ batches = {} /\ inflight = 0 /\ unbatched = FALSE

AnswerTo(kind, c) == [kind |-> kind, of |-> {c}]
Least(a, b) == IF a < b THEN a ELSE b

\* takeLocked, with the queue p and n batches in flight: the batch started and what is left
Starts(p, n) == p # <<>> /\ n < MaxInflight
takeLocked(p, others, n) ==
  LET k == Least(Len(p), MaxItems)
  IN  IF Starts(p, n)
      THEN /\ pending' = SubSeq(p, k + 1, Len(p)) /\ inflight' = n + 1
           /\ batches' = others \cup {[calls |-> SubSeq(p, 1, k), alone |-> 0, phase |-> "sent"]}
      ELSE pending' = p /\ batches' = others /\ inflight' = n

\* Batcher.RequestQuotaLease: queued, and sent at once if a batch may start.  A caller whose context
\* ends stops waiting for c.done and nothing else: its request stays in the queue or in its batch.
RequestQuotaLease(c) ==
  /\ waiter[c].step = "idle"
  /\ IF unbatched
     THEN /\ waiter' = [waiter EXCEPT ![c].step = "direct"] /\ UNCHANGED <<pending, batches, inflight, unbatched>>
     ELSE /\ waiter' = [waiter EXCEPT ![c].step = "queued"] /\ takeLocked(Append(pending, c), batches, inflight)
          /\ UNCHANGED unbatched
DirectAnswer(c, kind) ==
  /\ waiter[c].step = "direct"
  /\ waiter' = [waiter EXCEPT ![c] = [step |-> "done", answer |-> AnswerTo(kind, c)]]
  /\ UNCHANGED <<pending, batches, inflight, unbatched>>
\* The hub: requests that do not resolve are answered at their own place, the rest are granted in
\* one ledger call and put back in the places they came from.
PlacesPacked(reqs, refused) ==
  LET rest == SelectSeq(reqs, LAMBDA c : c \notin refused)
  IN  [i \in DOMAIN reqs |-> IF i <= Len(rest) THEN AnswerTo("granted", rest[i]) ELSE AnswerTo("refused", reqs[i])]
\* How many of the first i requests are granted: the place of request i in the ledger call, if it is.
Rank(reqs, refused, i) == Cardinality({h \in 1 .. i : reqs[h] \notin refused})
Places(reqs, refused) ==
  LET index(j) == CHOOSE i \in DOMAIN reqs : reqs[i] \notin refused /\ Rank(reqs, refused, i) = j
      grants == [j \in 1 .. Rank(reqs, refused, Len(reqs)) |-> AnswerTo("granted", reqs[index(j)])]
  IN  [i \in DOMAIN reqs |->
        IF reqs[i] \in refused THEN AnswerTo("refused", reqs[i]) ELSE grants[Rank(reqs, refused, i)]]
RequestQuotaLeases(reqs) == {Places(reqs, refused) : refused \in SUBSET {reqs[i] : i \in DOMAIN reqs}}

\* exchange: each call of the batch takes the result at its place, or the error
Results(b, out, err) ==
  waiter' = [c \in Calls |->
    IF \E i \in DOMAIN b.calls : b.calls[i] = c
    THEN LET i == CHOOSE i \in DOMAIN b.calls : b.calls[i] = c
         IN  [waiter[c] EXCEPT !.answer = IF err THEN AnswerTo("error", c)
                                        ELSE IF i > Len(out) THEN AnswerTo("fewer", c) ELSE out[i]]
    ELSE waiter[c]]
exchange(b) ==
  /\ b \in batches /\ b.phase = "sent"
  /\ batches' = (batches \ {b}) \cup {[b EXCEPT !.phase = "answered"]}
  /\ \/ Results(b, <<>>, TRUE)
     \/ \E out \in RequestQuotaLeases(b.calls), n \in {Len(b.calls), Len(b.calls) - 1} :
          Results(b, SubSeq(out, 1, n), FALSE)
  /\ UNCHANGED <<pending, inflight, unbatched>>
exchangeUnimplemented(b) ==
  /\ b \in batches /\ b.phase = "sent"
  /\ unbatched' = TRUE
  /\ batches' = (batches \ {b}) \cup {[b EXCEPT !.phase = "alone"]}
  /\ UNCHANGED <<waiter, pending, inflight>>
exchangeAlone(b, kind) ==
  LET c == b.calls[b.alone + 1]
  IN  /\ b \in batches /\ b.phase = "alone"
      /\ waiter' = [waiter EXCEPT ![c].answer = AnswerTo(kind, c)]
      /\ batches' = (batches \ {b})
           \cup {[b EXCEPT !.alone = @ + 1, !.phase = IF b.alone + 1 = Len(b.calls) THEN "answered" ELSE "alone"]}
      /\ UNCHANGED <<pending, inflight, unbatched>>
\* exchange's deferred close of every done, then send's loop: the slot is taken by the next batch
send(b) ==
  /\ b \in batches /\ b.phase = "answered"
  /\ waiter' = [c \in Calls |-> IF \E i \in DOMAIN b.calls : b.calls[i] = c
                              THEN [waiter[c] EXCEPT !.step = "done"] ELSE waiter[c]]
  /\ takeLocked(pending, batches \ {b}, inflight - 1)
  /\ UNCHANGED unbatched

BatchNext ==
  \/ \E c \in Calls : RequestQuotaLease(c)
  \/ \E c \in Calls, kind \in {"granted", "error"} : DirectAnswer(c, kind)
  \/ \E b \in batches : exchange(b) \/ exchangeUnimplemented(b) \/ send(b)
  \/ \E b \in batches, kind \in {"granted", "error"} : exchangeAlone(b, kind)

BatchSpec == BatchInit /\ [][BatchNext]_batchVars

----------------------------------------------------------------------------
(* Properties.                                                             *)

InBatch(c) == \E b \in batches : \E i \in DOMAIN b.calls : b.calls[i] = c
Queued(c) == \E i \in DOMAIN pending : pending[i] = c

\* No lease request waits on nothing, and none gets another's answer (Batcher, takeLocked and
\* send): a call that is not done is in the queue or in one batch, never in two; the queue is only
\* non-empty while every slot is taken, so some exchange will take it up; the slots counted are the
\* batches there are; and a call that is done holds an answer to its own request, whatever places
\* of its batch the hub refused, answered or left out.
EveryCallAnswered ==
  /\ inflight = Cardinality(batches) /\ inflight <= MaxInflight
  /\ pending # <<>> => inflight = MaxInflight
  /\ \A b \in batches : b.calls # <<>> /\ Len(b.calls) <= MaxItems
  /\ \A c \in Calls :
       /\ waiter[c].step = "queued" => Queued(c) # InBatch(c)
       /\ \A b1, b2 \in batches : b1 # b2 =>
            ~((\E i \in DOMAIN b1.calls : b1.calls[i] = c) /\ (\E i \in DOMAIN b2.calls : b2.calls[i] = c))
       /\ waiter[c].step = "done" => waiter[c].answer.of = {c}
=============================================================================
