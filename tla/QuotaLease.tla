----------------------------- MODULE QuotaLease -----------------------------
(***************************************************************************)
(* One fixed-window quota enforced by leasing: the edges' limiter          *)
(* (packages/limiter/lease.go) over the hub's ledger (FixedLedger).        *)
(*                                                                         *)
(* Every request is a goroutine running Lease.Allow.  A step is one atomic *)
(* operation on shared state together with the reads next to it; the reads *)
(* that the code separates from the write they justify are separate steps. *)
(* The tokens of one window live in a heap cell (the Go struct held) that  *)
(* requests keep a pointer to after a roll has replaced it.  Edges fetch   *)
(* from the hub through one call in flight per quota; a call may be slow,  *)
(* fail, be abandoned and still be executed by the hub, or be executed     *)
(* twice.  Edges drain, evict idle quotas and crash.                       *)
(*                                                                         *)
(* The request cost is the cost charged: settling an estimate afterwards   *)
(* (debt) is not part of this module, so a balance is never negative.      *)
(***************************************************************************)
EXTENDS FixedLedger, Functions

CONSTANTS
  Slots,        \* requests an edge runs at once
  EdgeLimit,    \* the limit in the edges' configuration
  Costs,        \* costs of requests
  Backoff,      \* pause after a failed call (failureBackoff)
  MissRetries,  \* fetches one request makes (missRetries)
  NumCells,     \* heap cells per edge: more than are reachable at once
  MaxFaults     \* bound: faults, failed calls and duplicated calls of an edge

VARIABLES
  cur,           \* cur[e]: the cell of the current window
  held,          \* held[e, c]: the cells
  resetAt,       \* resetAt[e]: when the quota is whole again; 0 unknown
  retryAt,       \* retryAt[e]: do not ask the hub before this; 0 free to ask
  renewing,      \* renewing[e]: the background renewal: no, start or wait
  backoffUntil,  \* backoffUntil[e]: no call before this
  flight,        \* flight[e]: the call in flight
  req,           \* req[e, s]: the requests
  rets,          \* rets[e, n]: the return messages sent
  seq,           \* seq[e]: returns edge e has made
  strays,        \* strays[e]: calls the hub may still run for nobody
  faults,        \* faults[e]: faults so far
  charged        \* charged[w]: cost charged to window w by every edge

leaseVars == <<cur, held, resetAt, retryAt, renewing, backoffUntil>>
netVars == <<rets, seq, strays, faults>>
vars == <<ledgerVars, leaseVars, netVars, flight, req, charged>>

ASSUME LeaseConstants ==
  /\ IsFiniteSet(Slots)
  /\ EdgeLimit \in Nat
  /\ Costs \subseteq Nat \ {0}
  /\ Backoff \in Nat
  /\ MissRetries \in Nat
  /\ NumCells \in Nat \ {0}
  /\ MaxFaults \in Nat

Cells == 1 .. NumCells
NoCell == 0
Heap == Edges \X Cells
Reqs == Edges \X Slots

Fresh(w) == [win |-> w, tokens |-> 0, consumed |-> 0, expiresAt |-> 0]
Idle == [pc |-> "idle", cost |-> 0, t |-> 0, waiting |-> FALSE, tries |-> 0,
         h |-> NoCell]
NoAnswer == [granted |-> 0, win |-> 0, expires |-> 0, reset |-> 0, retry |-> 0]
NoFlight == [pc |-> "idle", sent |-> 0, h |-> NoCell, resp |-> NoAnswer]

Init ==
  /\ LedgerInit
  /\ cur = [e \in Edges |-> 1]
  /\ held = [x \in Heap |-> Fresh(0)]
  /\ resetAt = [e \in Edges |-> 0]
  /\ retryAt = [e \in Edges |-> 0]
  /\ renewing = [e \in Edges |-> "no"]
  /\ backoffUntil = [e \in Edges |-> 0]
  /\ flight = [e \in Edges |-> NoFlight]
  /\ req = [r \in Reqs |-> Idle]
  /\ rets = [i \in ReturnIds |-> [win |-> 0, tokens |-> 0]]
  /\ seq = [e \in Edges |-> 0]
  /\ strays = [e \in Edges |-> 0]
  /\ faults = [e \in Edges |-> 0]
  /\ charged = [w \in Windows |-> 0]

-----------------------------------------------------------------------------
(***************************************************************************)
(* The heap.                                                               *)
(***************************************************************************)

\* The cells the call in flight and the requests in the slots S of e point to.
Pointed(e, S) == {flight[e].h} \cup {req[<<e, s>>].h : s \in S}
NewCell(e) == CHOOSE c \in Cells \ Pointed(e, Slots) : TRUE

\* The heap after e installs a fresh cell for window w; cells that no request
\* in S points to are garbage.
Installed(e, w, S) ==
  [x \in Heap |->
     IF x[1] # e THEN held[x]
     ELSE IF x[2] = NewCell(e) THEN Fresh(w)
     ELSE IF x[2] \in Pointed(e, S) THEN held[x]
     ELSE Fresh(0)]

\* leaseCounter.install(old, w): replace the current cell by a fresh one for
\* window w, unless a newer window replaced old meanwhile.
SupersededNever(e, old, w) == FALSE
Superseded(e, old, w) == cur[e] # old /\ held[<<e, cur[e]>>].win > w
Install(e, w, S) ==
  /\ Cells \ Pointed(e, Slots) # {}
  /\ held' = Installed(e, w, S)
  /\ cur' = [cur EXCEPT ![e] = NewCell(e)]

-----------------------------------------------------------------------------
(***************************************************************************)
(* Lease.Allow.                                                            *)
(***************************************************************************)

\* Read the clock; past the reset time, claim the reset.
Enter(r) ==
  LET e == r[1]
      due == resetAt[e] > 0 /\ now >= resetAt[e]
  IN  /\ req[r].pc = "idle"
      /\ \E c \in Costs :
           req' = [req EXCEPT ![r] = [Idle EXCEPT !.pc = IF due THEN "reset" ELSE "check",
                                                  !.cost = c, !.t = now]]
      /\ resetAt' = IF due THEN [resetAt EXCEPT ![e] = 0] ELSE resetAt
      /\ retryAt' = IF due THEN [retryAt EXCEPT ![e] = 0] ELSE retryAt
      /\ UNCHANGED <<ledgerVars, cur, held, renewing, backoffUntil,
                     flight, netVars, charged>>

\* The reset: load the current cell, then replace it by an empty one for the
\* same window.
ResetLoad(r) ==
  /\ req[r].pc = "reset"
  /\ req' = [req EXCEPT ![r].pc = "install", ![r].h = cur[r[1]]]
  /\ UNCHANGED <<ledgerVars, leaseVars, flight, netVars, charged>>

ResetWinNext(r) == held[<<r[1], req[r].h>>].win + 1
ResetWin(r) == held[<<r[1], req[r].h>>].win
ResetInstall(r) ==
  LET e == r[1]
      w == ResetWin(r)
  IN  /\ req[r].pc = "install"
      /\ IF Superseded(e, req[r].h, w) THEN UNCHANGED <<cur, held>> ELSE Install(e, w, Slots \ {r[2]})
      /\ req' = [req EXCEPT ![r].pc = "check", ![r].h = NoCell]
      /\ UNCHANGED <<ledgerVars, resetAt, retryAt, renewing, backoffUntil,
                     flight, netVars, charged>>

\* The fixed-window guard: this edge has charged the whole quota already.
OverGuard(x, cost) == held[x].consumed + cost > EdgeLimit
Expired(x, t) == held[x].expiresAt > 0 /\ t >= held[x].expiresAt

\* Note whether the hub said WAITING, load the current cell, apply the guard
\* and begin to take from it, all against the clock read on entry.
Check(r) ==
  LET e == r[1]
      x == <<e, cur[e]>>
      q == req[r]
      waiting == retryAt[e] > q.t
  IN  /\ q.pc = "check"
      /\ retryAt' = IF waiting THEN retryAt ELSE [retryAt EXCEPT ![e] = 0]
      /\ req' = [req EXCEPT ![r] =
           IF OverGuard(x, q.cost) THEN Idle
           ELSE [q EXCEPT !.pc = IF Expired(x, q.t) THEN "expire" ELSE "spend",
                          !.h = cur[e], !.waiting = waiting]]
      /\ UNCHANGED <<ledgerVars, cur, held, resetAt, renewing,
                     backoffUntil, flight, netVars, charged>>

\* A miss joins the call in flight, or starts one, and waits for it.  It is
\* a denial when the hub said WAITING or the retries are used up, and an
\* error during a backoff.
Down(e) == now < backoffUntil[e]
Joined(e) == IF flight[e].pc = "idle"
             THEN [flight EXCEPT ![e].pc = "sent", ![e].sent = now]
             ELSE flight
Miss(r) ==
  LET q == req[r]
      fetch == ~q.waiting /\ q.tries < MissRetries /\ ~Down(r[1])
  IN  /\ req' = [req EXCEPT ![r] =
           IF fetch THEN [q EXCEPT !.pc = "wait", !.tries = @ + 1, !.h = NoCell] ELSE Idle]
      /\ flight' = IF fetch THEN Joined(r[1]) ELSE flight

\* take, past its expiry check: drop what the cell holds, and miss.
Expire(r) ==
  /\ req[r].pc = "expire"
  /\ held' = [held EXCEPT ![<<r[1], req[r].h>>].tokens = 0]
  /\ Miss(r)
  /\ UNCHANGED <<ledgerVars, cur, resetAt, retryAt, renewing, backoffUntil, netVars, charged>>

\* take: spend cost tokens of the cell, or miss.
SpendUnchecked(r) ==
  LET x == <<r[1], req[r].h>>
      cost == req[r].cost
  IN  /\ req[r].pc = "spend"
      /\ held' = [held EXCEPT ![x].tokens = @ - cost]
      /\ charged' = [charged EXCEPT ![held[x].win] = @ + cost]
      /\ req' = [req EXCEPT ![r] = [Idle EXCEPT !.pc = "count", !.h = req[r].h,
                                                !.cost = cost]]
      /\ UNCHANGED <<ledgerVars, cur, resetAt, retryAt, renewing, backoffUntil, flight, netVars>>
Spend(r) ==
  LET x == <<r[1], req[r].h>>
      cost == req[r].cost
  IN  /\ req[r].pc = "spend"
      /\ IF held[x].tokens >= cost
         THEN /\ held' = [held EXCEPT ![x].tokens = @ - cost]
              /\ charged' = [charged EXCEPT ![held[x].win] = @ + cost]
              /\ req' = [req EXCEPT ![r] = [Idle EXCEPT !.pc = "count", !.h = req[r].h,
                                                        !.cost = cost]]
              /\ UNCHANGED flight
         ELSE /\ Miss(r)
              /\ UNCHANGED <<held, charged>>
      /\ UNCHANGED <<ledgerVars, cur, resetAt, retryAt, renewing, backoffUntil, netVars>>

\* Count the cost for the guard, and perhaps start a background renewal: at
\* the low-water mark of the last grant, or shortly before a lease that ends
\* ahead of its window does.  Those thresholds tune how often the hub is
\* asked, so any admission may find itself past them.  The caller keeps the
\* charge, or may yet take it back.
Count(r) ==
  LET e == r[1]
      x == <<e, req[r].h>>
  IN  /\ req[r].pc = "count"
      /\ held' = [held EXCEPT ![x].consumed = @ + req[r].cost]
      /\ \/ UNCHANGED renewing
         \/ /\ retryAt[e] = 0 /\ renewing[e] = "no"
            /\ renewing' = [renewing EXCEPT ![e] = "start"]
      /\ \/ req' = [req EXCEPT ![r] = Idle]
         \/ req' = [req EXCEPT ![r].pc = "charged"]
      /\ UNCHANGED <<ledgerVars, cur, resetAt, retryAt, backoffUntil, flight, netVars, charged>>

\* Another limit of the request denied it: take the charge back.  It is
\* dropped once the cell is not current.
RefundAgain(r) ==
  LET x == <<r[1], req[r].h>>
      cost == req[r].cost
  IN  /\ req[r].pc = "charged"
      /\ cur[r[1]] = req[r].h
      /\ held' = [held EXCEPT ![x].tokens = @ + cost, ![x].consumed = @ - cost]
      /\ charged' = [charged EXCEPT ![held[x].win] = @ - cost]
      /\ UNCHANGED <<ledgerVars, cur, resetAt, retryAt, renewing,
                     backoffUntil, flight, req, netVars>>
Refund(r) ==
  LET e == r[1]
      x == <<e, req[r].h>>
      cost == req[r].cost
  IN  /\ req[r].pc = "charged"
      /\ IF cur[e] = req[r].h
         THEN /\ held' = [held EXCEPT ![x].tokens = @ + cost, ![x].consumed = @ - cost]
              /\ charged' = [charged EXCEPT ![held[x].win] = @ - cost]
         ELSE UNCHANGED <<held, charged>>
      /\ req' = [req EXCEPT ![r] = Idle]
      /\ UNCHANGED <<ledgerVars, cur, resetAt, retryAt, renewing,
                     backoffUntil, flight, netVars>>

-----------------------------------------------------------------------------
(***************************************************************************)
(* Lease.fetch: one call in flight per edge, shared by those who miss.     *)
(***************************************************************************)

\* The background renewal fetches too, but does not retry.
RenewStuck(e) ==
  /\ renewing[e] = "start"
  /\ flight' = IF Down(e) THEN flight ELSE Joined(e)
  /\ renewing' = [renewing EXCEPT ![e] = "wait"]
  /\ UNCHANGED <<ledgerVars, cur, held, resetAt, retryAt, backoffUntil, req, netVars, charged>>
RenewFetch(e) ==
  /\ renewing[e] = "start"
  /\ flight' = IF Down(e) THEN flight ELSE Joined(e)
  /\ renewing' = [renewing EXCEPT ![e] = IF Down(e) THEN "no" ELSE "wait"]
  /\ UNCHANGED <<ledgerVars, cur, held, resetAt, retryAt, backoffUntil, req, netVars, charged>>

\* The caller's context ends while it waits; the call goes on without it.
Cancel(r) ==
  /\ req[r].pc = "wait"
  /\ req' = [req EXCEPT ![r] = Idle]
  /\ UNCHANGED <<ledgerVars, leaseVars, flight, netVars, charged>>

\* A fault of edge e or of its calls.
Fault(e) == faults[e] < MaxFaults /\ faults' = [faults EXCEPT ![e] = @ + 1]

\* A call that was not answered may still reach the hub.
Abandon(e) ==
  strays' = IF flight[e].pc = "sent" THEN [strays EXCEPT ![e] = @ + 1] ELSE strays

\* The hub runs the call, or runs an abandoned or duplicated copy of one,
\* whose answer nobody reads.
HubGrant(e) ==
  /\ flight[e].pc = "sent"
  /\ \E a \in Answers :
       /\ Grant(a)
       /\ flight' = [flight EXCEPT ![e].pc = "answered", ![e].resp = a]
  /\ \/ UNCHANGED <<strays, faults>>
     \/ Fault(e) /\ strays' = [strays EXCEPT ![e] = @ + 1]
  /\ UNCHANGED <<leaseVars, req, rets, seq, charged>>

HubStray(e) ==
  /\ strays[e] > 0
  /\ \E a \in Answers : Grant(a)
  /\ strays' = [strays EXCEPT ![e] = @ - 1]
  /\ UNCHANGED <<leaseVars, flight, req, rets, seq, faults, charged>>

\* The call ends: everyone waiting for it has its result.
Deliver(e, n) ==
  /\ req' = [r \in Reqs |->
       IF r[1] = e /\ req[r].pc = "wait"
       THEN IF n > 0 THEN [req[r] EXCEPT !.pc = "got"] ELSE Idle
       ELSE req[r]]
  /\ renewing' = IF renewing[e] = "wait" THEN [renewing EXCEPT ![e] = "no"] ELSE renewing

\* accept.  An answer from an older window than the tokens held is dropped;
\* one from a newer window installs its cell.
Stale(e) == flight[e].resp.win < held[<<e, cur[e]>>].win
Newer(e) == flight[e].resp.win > held[<<e, cur[e]>>].win
Heap1(e) == IF Newer(e) THEN Installed(e, flight[e].resp.win, Slots) ELSE held
Cell1(e) == IF Newer(e) THEN NewCell(e) ELSE cur[e]

\* Lifetimes are measured from when the call was sent.
LifeFromNow(e) == now
LifeFrom(e) == flight[e].sent

AcceptOld(e) ==
  /\ flight[e].pc = "answered"
  /\ Deliver(e, 0)
  /\ flight' = [flight EXCEPT ![e] = NoFlight]
  /\ UNCHANGED <<ledgerVars, cur, held, resetAt, retryAt, backoffUntil,
                 netVars, charged>>

\* WAITING: ask again after the hinted time, jittered.
AcceptWaiting(e) ==
  LET resp == flight[e].resp
      half == resp.retry \div 2
  IN  /\ flight[e].pc = "answered"
      /\ resp.granted = 0
      /\ Cells \ Pointed(e, Slots) # {}
      /\ cur' = [cur EXCEPT ![e] = Cell1(e)]
      /\ held' = Heap1(e)
      /\ resetAt' = [resetAt EXCEPT ![e] = LifeFrom(e) + resp.reset]
      /\ \E d \in half .. (half + resp.retry - 1) :
           retryAt' = [retryAt EXCEPT ![e] = now + d]
      /\ Deliver(e, 0)
      /\ flight' = [flight EXCEPT ![e] = NoFlight]
      /\ UNCHANGED <<ledgerVars, backoffUntil, netVars, charged>>

\* An answer that adds nothing: late, or WAITING.  AnswersNeverStale says that
\* the first never comes while an edge makes one call at a time to one ledger.
AcceptNone(e) == IF Stale(e) THEN AcceptOld(e) ELSE AcceptWaiting(e)

\* A grant, as far as the store that extends the lease.
AcceptGrant(e) ==
  LET resp == flight[e].resp
  IN  /\ flight[e].pc = "answered"
      /\ ~Stale(e)
      /\ resp.granted > 0
      /\ Cells \ Pointed(e, Slots) # {}
      /\ cur' = [cur EXCEPT ![e] = Cell1(e)]
      /\ held' = [Heap1(e) EXCEPT ![<<e, Cell1(e)>>].expiresAt = LifeFrom(e) + resp.expires]
      /\ resetAt' = [resetAt EXCEPT ![e] = LifeFrom(e) + resp.reset]
      /\ flight' = [flight EXCEPT ![e].pc = "adding", ![e].h = Cell1(e)]
      /\ UNCHANGED <<ledgerVars, retryAt, renewing, backoffUntil, req,
                     netVars, charged>>

\* A grant, its last stores: add the tokens to the cell and return.
AcceptAdd(e) ==
  LET x == <<e, flight[e].h>>
      n == flight[e].resp.granted
  IN  /\ flight[e].pc = "adding"
      /\ held' = [held EXCEPT ![x].tokens = @ + n]
      /\ Deliver(e, n)
      /\ flight' = [flight EXCEPT ![e] = NoFlight]
      /\ UNCHANGED <<ledgerVars, cur, resetAt, retryAt, backoffUntil, netVars, charged>>

\* The call fails (no connection, the RPC timeout, a lost answer) and the
\* edge backs off, or the hub rejects it and the edge does not.
FlightFail(e) ==
  /\ flight[e].pc \in {"sent", "answered"}
  /\ Fault(e)
  /\ \/ Abandon(e) \/ UNCHANGED strays
  /\ flight' = [flight EXCEPT ![e] = NoFlight]
  /\ Deliver(e, 0)
  /\ \E until \in {backoffUntil[e], now + Backoff} :
       backoffUntil' = [backoffUntil EXCEPT ![e] = until]
  /\ UNCHANGED <<ledgerVars, cur, held, resetAt, retryAt, rets, seq, charged>>

\* With a grant in hand: load the current cell again, apply the guard, and
\* take against a fresh reading of the clock.
Retake(r) ==
  LET e == r[1]
      x == <<e, cur[e]>>
  IN  /\ req[r].pc = "got"
      /\ req' = [req EXCEPT ![r] =
           IF OverGuard(x, req[r].cost) THEN Idle
           ELSE [@ EXCEPT !.pc = IF Expired(x, now) THEN "expire" ELSE "spend",
                          !.h = cur[e]]]
      /\ UNCHANGED <<ledgerVars, leaseVars, flight, netVars, charged>>

-----------------------------------------------------------------------------
(***************************************************************************)
(* Giving tokens back, and losing them.                                    *)
(***************************************************************************)

\* giveBack: swap the balance out, and send it with a fresh id unless it is
\* nothing or has expired.
Sendable(e) ==
  LET x == <<e, cur[e]>> IN IF Expired(x, now) THEN 0 ELSE held[x].tokens
SendReturn(e) ==
  IF Sendable(e) = 0
  THEN UNCHANGED <<rets, seq>>
  ELSE /\ seq[e] < MaxReturns
       /\ seq' = [seq EXCEPT ![e] = @ + 1]
       /\ rets' = [rets EXCEPT ![<<e, seq[e] + 1>>] =
                     [win |-> held[<<e, cur[e]>>].win, tokens |-> Sendable(e)]]

\* Lease.Drain, on shutdown.
DrainKeep(e) ==
  /\ SendReturn(e)
  /\ UNCHANGED <<ledgerVars, leaseVars, flight, req, strays, faults, charged>>
Drain(e) ==
  /\ SendReturn(e)
  /\ held' = [held EXCEPT ![<<e, cur[e]>>].tokens = 0]
  /\ UNCHANGED <<ledgerVars, cur, resetAt, retryAt, renewing, backoffUntil,
                 flight, req, strays, faults, charged>>

\* What a new leaseCounter, and a whole new edge, starts from.
FreshCounter(e) ==
  /\ cur' = [cur EXCEPT ![e] = 1]
  /\ held' = [x \in Heap |-> IF x[1] = e THEN Fresh(0) ELSE held[x]]
  /\ resetAt' = [resetAt EXCEPT ![e] = 0]
  /\ retryAt' = [retryAt EXCEPT ![e] = 0]

\* Lease.Run drops a quota nobody has asked for in a minute, far longer than
\* a request or a call lasts, and gives its tokens back.
Evict(e) ==
  /\ renewing[e] = "no" /\ flight[e].pc = "idle"
  /\ \A s \in Slots : req[<<e, s>>].pc = "idle"
  /\ SendReturn(e)
  /\ FreshCounter(e)
  /\ UNCHANGED <<ledgerVars, renewing, backoffUntil, flight, req, strays, faults, charged>>

\* The hub applies a return, on whichever attempt reaches it; a repeat finds
\* its id recorded.
HubReturn(i) ==
  /\ rets[i].tokens > 0
  /\ Return(i, rets[i].win, rets[i].tokens)
  /\ UNCHANGED <<leaseVars, flight, req, netVars, charged>>

\* The edge dies and comes back with nothing; its ids never repeat (bootID).
Crash(e) ==
  /\ Fault(e)
  /\ \/ Abandon(e) \/ UNCHANGED strays
  /\ FreshCounter(e)
  /\ renewing' = [renewing EXCEPT ![e] = "no"]
  /\ backoffUntil' = [backoffUntil EXCEPT ![e] = 0]
  /\ flight' = [flight EXCEPT ![e] = NoFlight]
  /\ req' = [r \in Reqs |-> IF r[1] = e THEN Idle ELSE req[r]]
  /\ UNCHANGED <<ledgerVars, rets, seq, charged>>

-----------------------------------------------------------------------------
Step(r) == \/ Enter(r) \/ ResetLoad(r) \/ ResetInstall(r) \/ Check(r)
           \/ Expire(r) \/ Spend(r) \/ Count(r) \/ Refund(r)
           \/ Cancel(r) \/ Retake(r)

EdgeStep(e) == \/ RenewFetch(e) \/ FlightFail(e)
               \/ AcceptNone(e) \/ AcceptGrant(e) \/ AcceptAdd(e)
               \/ Drain(e) \/ Evict(e) \/ Crash(e)

HubStep == \/ \E e \in Edges : HubGrant(e) \/ HubStray(e)
           \/ \E i \in ReturnIds : HubReturn(i)

Next == \/ Tick /\ UNCHANGED <<leaseVars, netVars, flight, req, charged>>
        \/ HubStep
        \/ \E e \in Edges : EdgeStep(e)
        \/ \E r \in Reqs : Step(r)

Spec == Init /\ [][Next]_vars

\* Goroutines are scheduled, and a call ends: the hub answers it, or the RPC
\* timeout fails it.  Nothing else has to happen.
Proceed(r) == \/ ResetLoad(r) \/ ResetInstall(r) \/ Check(r) \/ Expire(r)
              \/ Spend(r) \/ Count(r) \/ Refund(r) \/ Retake(r)
CallStep(e) == \/ HubGrant(e) \/ FlightFail(e)
               \/ AcceptNone(e) \/ AcceptGrant(e) \/ AcceptAdd(e)
Fairness == /\ \A r \in Reqs : WF_vars(Proceed(r))
            /\ \A e \in Edges : WF_vars(CallStep(e)) /\ WF_vars(RenewFetch(e))
FairSpec == Spec /\ Fairness

-----------------------------------------------------------------------------
(***************************************************************************)
(* Properties.                                                             *)
(***************************************************************************)

CellRec == [win : Windows, tokens : Nat, consumed : Int, expiresAt : Nat]
AnswerRec == [granted : Nat, win : Windows, expires : Nat, reset : Nat, retry : Nat]
FlightRec == [pc : {"idle", "sent", "answered", "adding"}, sent : Nat,
              h : Cells \cup {NoCell}, resp : AnswerRec]
ReqRec == [pc : {"idle", "reset", "install", "check", "expire", "spend",
                 "count", "charged", "wait", "got"},
           cost : Nat, t : Nat, waiting : BOOLEAN, tries : Nat, h : Cells \cup {NoCell}]
ReturnRec == [win : Windows, tokens : Nat]
TypeOK ==
  /\ LedgerTypeOK
  /\ cur \in [Edges -> Cells]
  /\ held \in [Heap -> CellRec]
  /\ resetAt \in [Edges -> Nat]
  /\ retryAt \in [Edges -> Nat]
  /\ renewing \in [Edges -> {"no", "start", "wait"}]
  /\ backoffUntil \in [Edges -> Nat]
  /\ flight \in [Edges -> FlightRec]
  /\ req \in [Reqs -> ReqRec]
  /\ rets \in [ReturnIds -> ReturnRec]
  /\ seq \in [Edges -> Nat]
  /\ strays \in [Edges -> Nat]
  /\ faults \in [Edges -> Nat]
  /\ charged \in [Windows -> Int]

\* The quota: whatever the edges and the network do, the cost all edges
\* charge to one window never exceeds the limit (Lease "enforces a global
\* quota shared by every edge").
QuotaNeverExceeded == \A w \in Windows : charged[w] <= Limit

\* The leased limiter implements the central counter: every charge fits under
\* the limit and names a window that has begun, every refund takes back a
\* charge that was made, and nothing else changes what a window was charged
\* (Lease.Allow and held.adjust against RedisCounter.Allow).
Central == INSTANCE Quota WITH window <- wid, count <- charged
ImplementsCentral == Central!QuotaSpec

\* The ledger never has more than the limit out in one window, returns
\* included (Ledger.Grant, Ledger.Return).
GrantsWithinLimit == \A w \in Windows : used[w] <= Limit

\* Every token charged, held in a cell, in an answer on its way or in a
\* return not yet applied is one the ledger counts as granted in that very
\* window: none is spent twice, both spent and returned, credited twice, or
\* moved to another window (take, giveBack, accept, Ledger.Return).
HeldIn(h, w) == [x \in Heap |-> IF h[x].win = w THEN h[x].tokens ELSE 0]
FlyingIn(f, w) == [e \in Edges |->
  IF f[e].pc \in {"answered", "adding"} /\ f[e].resp.win = w THEN f[e].resp.granted ELSE 0]
ReturningIn(d, m, w) == [i \in ReturnIds |->
  IF d[i] = 0 /\ m[i].win = w THEN m[i].tokens ELSE 0]
Outstanding(w) == SumFunctionOnSet(HeldIn(held, w), Heap)
                  + SumFunctionOnSet(FlyingIn(flight, w), Edges)
                  + SumFunctionOnSet(ReturningIn(deduped, rets, w), ReturnIds)
TokensBacked == \A w \in Windows : charged[w] + Outstanding(w) <= used[w]

\* The edge's view of a token's expiry is never later than the end of its
\* window on the ledger's clock, however late the answer arrived (fetch: "the
\* edge's view of a token's expiry is never later than the hub's").
ExpiryNeverLate ==
  \A x \in Heap : held[x].tokens > 0 =>
    /\ held[x].expiresAt > 0
    /\ held[x].expiresAt <= WindowEnd(held[x].win, Window)

\* The window an edge spends from never goes back: neither a late answer nor
\* a reset that lost its race replaces a newer window (install: "a newer
\* window won the race").  Only a new counter starts over.
WindowNeverGoesBack ==
  [][\A e \in Edges : Crash(e) \/ Evict(e) \/
       held'[<<e, cur'[e]>>].win >= held[<<e, cur[e]>>].win]_vars

\* An answer is never from an older window than the one its edge spends from:
\* an edge makes one call at a time, only answers name later windows, and a
\* reset keeps the number of the window it empties.  So the branch of accept
\* for "a late reply from before a roll" is a second line of defence.
AnswersNeverStale == \A e \in Edges : flight[e].pc = "answered" => ~Stale(e)

\* Every Allow returns, and every background renewal ends, so that the next
\* one may start: whichever calls fail, are slow or find the window rolled
\* (the loop of Lease.Allow, the deferred renewing.Store(false) of renew).
EveryCallReturns ==
  /\ \A r \in Reqs : (req[r].pc # "idle") ~> (req[r].pc = "idle")
  /\ \A e \in Edges : (renewing[e] # "no") ~> (renewing[e] = "no")

\* take clears a balance only once the lease on it has run out: not after a
\* grant has extended it and added its tokens (accept: "Extend the lease
\* before adding tokens so a concurrent take cannot expire the new grant").
Live(x) == held[x].tokens > 0 /\ held[x].expiresAt > now /\ flight[x[1]].pc # "adding"
TakeDropsOnlyDead ==
  [][\A r \in Reqs : Expire(r) => ~Live(<<r[1], req[r].h>>)]_vars

\* A reset drops only tokens whose window is over, as the edge knows it
\* (reset: "held tokens are dropped (the hub already counts the new window
\* from zero)").
ResetDropsOnlyDead ==
  [][\A r \in Reqs : ResetInstall(r) /\ cur'[r[1]] # cur[r[1]] => ~Live(<<r[1], cur[r[1]]>>)]_vars

\* The per-edge guard: no edge charges more than the limit it is configured
\* with to one window, so n edges charge at most n times that, whatever the
\* hub grants (Lease.Allow: "One edge can never legitimately admit more than
\* a whole fixed-window quota in one window, whatever the hub grants").
GuardHolds == \A w \in Windows : charged[w] <= EdgeLimit * Cardinality(Edges)

-----------------------------------------------------------------------------
(***************************************************************************)
(* What the safety properties rest on: the rest of the inductive invariant *)
(* that QuotaLeaseProofs shows every step to preserve.                     *)
(***************************************************************************)

\* A request or a call past its load of a cell points to one, and a grant
\* half-applied is for the window of its cell.
HasCell == {"install", "expire", "spend", "count", "charged"}
PointersValid ==
  /\ \A r \in Reqs : req[r].pc \in HasCell => req[r].h \in Cells
  /\ \A r \in Reqs : req[r].pc # "idle" => req[r].cost \in Costs
  /\ \A e \in Edges : flight[e].pc = "adding" =>
       flight[e].h \in Cells /\ held[<<e, flight[e].h>>].win = flight[e].resp.win

\* Nothing is known of a window before it begins on the ledger's clock.
WindowsBegun ==
  /\ \A x \in Heap : held[x].win <= wid
  /\ \A e \in Edges : flight[e].resp.win <= wid
  /\ \A i \in ReturnIds : rets[i].win <= wid

\* A return that has not been made is empty, and the record of one outlives
\* the window its tokens are from.
DedupeOutlivesWindow ==
  \A i \in ReturnIds :
    /\ i[2] > seq[i[1]] => rets[i].tokens = 0 /\ deduped[i] = 0
    /\ deduped[i] > 0 => rets[i].win < WindowOf(deduped[i], Window)

\* What may yet be refunded in a window has been charged to it.
PendingIn(q, h, w) == [r \in Reqs |->
  IF q[r].pc \in {"count", "charged"} /\ h[<<r[1], q[r].h>>].win = w THEN q[r].cost ELSE 0]
RefundsCovered ==
  \A w \in Windows : SumFunctionOnSet(PendingIn(req, held, w), Reqs) <= charged[w]

\* No lease outlasts its window, and one that has held tokens has an end.
LeasesEnd ==
  /\ \A x \in Heap : held[x].expiresAt <= WindowEnd(held[x].win, Window)
  /\ \A x \in Heap : held[x].tokens > 0 => held[x].expiresAt > 0
  /\ \A r \in Reqs : req[r].pc \in {"count", "charged"} => held[<<r[1], req[r].h>>].expiresAt > 0
  /\ \A e \in Edges :
       /\ flight[e].sent <= now
       /\ flight[e].pc = "adding" => held[<<e, flight[e].h>>].expiresAt > 0
       /\ flight[e].pc \in {"answered", "adding"} =>
            /\ flight[e].resp.expires > 0
            /\ flight[e].sent + flight[e].resp.expires <= WindowEnd(flight[e].resp.win, Window)

IInv ==
  /\ TypeOK /\ PointersValid /\ WindowsBegun /\ DedupeOutlivesWindow
  /\ GrantsWithinLimit /\ TokensBacked /\ RefundsCovered /\ LeasesEnd

=============================================================================
