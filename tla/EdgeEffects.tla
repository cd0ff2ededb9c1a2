---------------------------- MODULE EdgeEffects ----------------------------
(***************************************************************************)
(* Lemmas about EdgeRequest, for any number of requests and replicas and   *)
(* any services: what each action does to a request, to the limiters and   *)
(* to the replicas, that it keeps every request's state what its place in  *)
(* ServeHTTP calls for (Typed), and that the concurrency slots stay those  *)
(* of the requests that hold one (SlotsKept).                              *)
(***************************************************************************)
EXTENDS EdgeRequest, Sums

----------------------------------------------------------------------------
(* Requests and what the actions make of them.                             *)

Charge == [at : {"primary", "safety", "none"}, cost : Int]
Adjustment == [i : Nat, at : {"primary", "safety", "none"}, delta : Int]
Labels ==
  {"new", "cache", "slot", "acquire", "full", "reserve", "safety", "undo", "adjust", "pick", "send",
   "try", "backoff", "body", "settle", "unwind", "store", "done"}
Methods == {"GET", "POST", "OPTIONS"}
Origins == {"edge", "upstream"}
ReqRec ==
  [pc : Labels, method : Methods, asked : Nat, slot : Nat, i : Nat, charged : Seq(Charge),
   todo : SUBSET Adjustment, after : Labels, large : BOOLEAN, gone : BOOLEAN, sent : Nat,
   target : Replicas \cup {NoTarget}, status : Int, from : Origins, failed : BOOLEAN, actual : Int,
   aborted : BOOLEAN]
ReqType == req \in [Requests -> ReqRec] /\ svc \in Services

\* One request changes, and the others do not.
Changed(r) ==
  /\ req[r] \in ReqRec /\ req'[r] \in ReqRec /\ req' \in [Requests -> ReqRec]
  /\ \A o \in Requests \ {r} : req'[o] = req[o]
SameAsk(q, p) == q.method = p.method /\ q.asked = p.asked
SameSlot(q, p) == q.slot = p.slot
SameAccount(q, p) == q.i = p.i /\ q.charged = p.charged /\ q.todo = p.todo /\ q.after = p.after
SameCall(q, p) == q.target = p.target /\ q.sent = p.sent
SameResponse(q, p) == q.status = p.status /\ q.from = p.from /\ q.failed = p.failed
SameCost(q, p) == q.actual = p.actual /\ q.aborted = p.aborted

\* A step of a request that leaves it a record.
LEMMA StepFacts ==
  ASSUME ReqType, NEW r \in Requests, NEW from, NEW q \in ReqRec, Step(r, from, q)
  PROVE  Changed(r) /\ req[r].pc = from /\ req'[r] = q
<1>1. req[r] \in ReqRec /\ req' = [req EXCEPT ![r] = q] /\ req \in [Requests -> ReqRec] /\ req[r].pc = from
  BY Zenon DEF ReqType, Step
<1> HIDE DEF ReqRec
<1> QED BY <1>1, Zenon DEF Changed

\* A refusal has a code.
LEMMA RefusalCode ==
  ASSUME svc \in Services, NEW method, NEW found, NEW lookup \in {"known", "unknown", "foreign", "failed"}
  PROVE  FirstRefusal(route(method, found), cors(method), authenticate(lookup)) \in Int
<1>1. svc.auth \in {"jwt", "none", "api_key"} BY ServiceSettings, Zenon
<1>2. apiKey(lookup) \in Int BY DEF apiKey, resolveTier
<1>3. bearerToken(lookup) \in Int BY DEF bearerToken
<1>4. Identify(lookup) \in Int BY <1>1, <1>2, <1>3 DEF Identify
<1>5. authenticate(lookup) \in Int BY <1>4 DEF authenticate
<1>6. route(method, found) \in Int /\ cors(method) \in Int BY DEF route, cors
<1> QED BY <1>5, <1>6, Zenon DEF FirstRefusal

\* It moves on.
LEMMA MoveFacts ==
  ASSUME ReqType, NEW r \in Requests, NEW from, NEW to \in Labels,
         Step(r, from, To(r, to))
  PROVE  /\ Changed(r) /\ req[r].pc = from
         /\ req'[r].pc = to
         /\ SameAsk(req'[r], req[r]) /\ SameSlot(req'[r], req[r]) /\ SameAccount(req'[r], req[r])
         /\ SameCall(req'[r], req[r]) /\ SameResponse(req'[r], req[r]) /\ SameCost(req'[r], req[r])
<1> DEFINE p == req[r]
           q == [p EXCEPT !.pc = to]
<1>1. p \in ReqRec BY Zenon DEF ReqType
<1>2. Step(r, from, q) BY Zenon DEF To
<1> HIDE DEF p
<1>3. /\ q \in ReqRec /\ q.pc = to
      /\ SameAsk(q, p) /\ SameSlot(q, p) /\ SameAccount(q, p) /\ SameCall(q, p) /\ SameResponse(q, p)
      /\ SameCost(q, p)
  BY <1>1, Zenon DEF ReqRec, SameAsk, SameSlot, SameAccount, SameCall, SameResponse, SameCost
<1> HIDE DEF q
<1>4. Changed(r) /\ req[r].pc = from /\ req'[r] = q BY <1>2, <1>3, StepFacts, Zenon
<1> QED BY <1>3, <1>4, Zenon DEF p

\* It has been asked for something.
Arrived(r, to, method, n, code) == [To(r, to) EXCEPT !.method = method, !.asked = n, !.status = code]

\* A step that ends with Arrived changes the request's method and estimate, and nothing of its slot,
\* charges or call.
LEMMA ArriveFacts ==
  ASSUME ReqType, NEW r \in Requests, NEW from, NEW to \in Labels, NEW method \in Methods, NEW n \in Nat,
         NEW code \in Int,
         Step(r, from, Arrived(r, to, method, n, code))
  PROVE  /\ Changed(r) /\ req[r].pc = from
         /\ req'[r].pc = to /\ req'[r].method = method /\ req'[r].from = req[r].from
              /\ req'[r].failed = req[r].failed
         /\ SameSlot(req'[r], req[r]) /\ SameAccount(req'[r], req[r]) /\ SameCall(req'[r], req[r])
         /\ SameCost(req'[r], req[r])
<1> DEFINE p == req[r]
           q == [p EXCEPT !.pc = to, !.method = method, !.asked = n, !.status = code]
<1>1. p \in ReqRec BY Zenon DEF ReqType
<1>2. Step(r, from, q) BY Zenon DEF To, Arrived
<1> HIDE DEF p
<1>3. /\ q \in ReqRec /\ q.pc = to /\ q.method = method /\ q.from = p.from /\ q.failed = p.failed
      /\ SameSlot(q, p) /\ SameAccount(q, p) /\ SameCall(q, p) /\ SameCost(q, p)
  BY <1>1, Zenon DEF ReqRec, SameSlot, SameAccount, SameCall, SameCost
<1> HIDE DEF q
<1>4. Changed(r) /\ req[r].pc = from /\ req'[r] = q BY <1>2, <1>3, StepFacts, Zenon
<1> QED BY <1>3, <1>4, Zenon DEF p

\* It has an answer.
Answering(r, to, code) == [To(r, to) EXCEPT !.status = code]

\* A step that ends with Answering changes a request's status and nothing of its slot, charges or call.
LEMMA StatusFacts ==
  ASSUME ReqType, NEW r \in Requests, NEW from, NEW to \in Labels, NEW code \in Int,
         Step(r, from, Answering(r, to, code))
  PROVE  /\ Changed(r) /\ req[r].pc = from
         /\ req'[r].pc = to /\ req'[r].status = code /\ req'[r].from = req[r].from
              /\ req'[r].failed = req[r].failed
         /\ SameAsk(req'[r], req[r]) /\ SameSlot(req'[r], req[r]) /\ SameAccount(req'[r], req[r])
         /\ SameCall(req'[r], req[r]) /\ SameCost(req'[r], req[r])
<1> DEFINE p == req[r]
           q == [p EXCEPT !.pc = to, !.status = code]
<1>1. p \in ReqRec BY Zenon DEF ReqType
<1>2. Step(r, from, q) BY Zenon DEF To, Answering
<1> HIDE DEF p
<1>3. /\ q \in ReqRec /\ q.pc = to /\ q.status = code /\ q.from = p.from /\ q.failed = p.failed
      /\ SameAsk(q, p) /\ SameSlot(q, p) /\ SameAccount(q, p) /\ SameCall(q, p) /\ SameCost(q, p)
  BY <1>1, Zenon DEF ReqRec, SameAsk, SameSlot, SameAccount, SameCall, SameCost
<1> HIDE DEF q
<1>4. Changed(r) /\ req[r].pc = from /\ req'[r] = q BY <1>2, <1>3, StepFacts, Zenon
<1> QED BY <1>3, <1>4, Zenon DEF p

\* It takes up a counter, or lets go of it.
Slotted(r, to, n) == [To(r, to) EXCEPT !.slot = n]

\* A step that ends with Slotted gives a request its counter and changes nothing else of it.
LEMMA SlotFacts ==
  ASSUME ReqType, NEW r \in Requests, NEW from, NEW to \in Labels, NEW n \in Nat,
         Step(r, from, Slotted(r, to, n))
  PROVE  /\ Changed(r) /\ req[r].pc = from
         /\ req'[r].pc = to /\ req'[r].slot = n
         /\ SameAsk(req'[r], req[r]) /\ SameAccount(req'[r], req[r]) /\ SameCall(req'[r], req[r])
         /\ SameResponse(req'[r], req[r]) /\ SameCost(req'[r], req[r])
<1> DEFINE p == req[r]
           q == [p EXCEPT !.pc = to, !.slot = n]
<1>1. p \in ReqRec BY Zenon DEF ReqType
<1>2. Step(r, from, q) BY Zenon DEF To, Slotted
<1> HIDE DEF p
<1>3. /\ q \in ReqRec /\ q.pc = to /\ q.slot = n
      /\ SameAsk(q, p) /\ SameAccount(q, p) /\ SameCall(q, p) /\ SameResponse(q, p) /\ SameCost(q, p)
  BY <1>1, Zenon DEF ReqRec, SameAsk, SameAccount, SameCall, SameResponse, SameCost
<1> HIDE DEF q
<1>4. Changed(r) /\ req[r].pc = from /\ req'[r] = q BY <1>2, <1>3, StepFacts, Zenon
<1> QED BY <1>3, <1>4, Zenon DEF p

\* It is one too many.
Refused(r, to, code, n) == [req[r] EXCEPT !.status = code, !.pc = to, !.slot = n]

\* A step that ends with Refused takes a request's counter from it and gives it its status.
LEMMA FullFacts ==
  ASSUME ReqType, NEW r \in Requests, NEW from, NEW to \in Labels, NEW code \in Int, NEW n \in Nat,
         Step(r, from, Refused(r, to, code, n))
  PROVE  /\ Changed(r) /\ req[r].pc = from
         /\ req'[r].pc = to /\ req'[r].slot = n /\ req'[r].status = code /\ req'[r].from = req[r].from
              /\ req'[r].failed = req[r].failed
         /\ SameAsk(req'[r], req[r]) /\ SameAccount(req'[r], req[r]) /\ SameCall(req'[r], req[r])
         /\ SameCost(req'[r], req[r])
<1> DEFINE p == req[r]
           q == [p EXCEPT !.status = code, !.pc = to, !.slot = n]
<1>1. p \in ReqRec BY Zenon DEF ReqType
<1>2. Step(r, from, q) BY Zenon DEF Refused
<1> HIDE DEF p
<1>3. /\ q \in ReqRec /\ q.pc = to /\ q.slot = n /\ q.status = code /\ q.from = p.from
           /\ q.failed = p.failed
      /\ SameAsk(q, p) /\ SameAccount(q, p) /\ SameCall(q, p) /\ SameCost(q, p)
  BY <1>1, Zenon DEF ReqRec, SameAsk, SameAccount, SameCall, SameCost
<1> HIDE DEF q
<1>4. Changed(r) /\ req[r].pc = from /\ req'[r] = q BY <1>2, <1>3, StepFacts, Zenon
<1> QED BY <1>3, <1>4, Zenon DEF p

\* Its reservation is rolled back.
RolledBack(r, todo, code, to, after, charged) == [req[r] EXCEPT !.todo = todo, !.status = code, !.pc = to,
    !.after = after, !.charged = charged]

\* A step that ends with RolledBack replaces a request's charges by the adjustments that give them
\* back.
LEMMA RollbackFacts ==
  ASSUME ReqType, NEW r \in Requests, NEW from, NEW todo \in SUBSET Adjustment, NEW code \in Int,
         NEW to \in Labels, NEW after \in Labels, NEW charged \in Seq(Charge),
         Step(r, from, RolledBack(r, todo, code, to, after, charged))
  PROVE  /\ Changed(r) /\ req[r].pc = from
         /\ req'[r].pc = to /\ req'[r].todo = todo /\ req'[r].after = after /\ req'[r].charged = charged
              /\ req'[r].i = req[r].i /\ req'[r].status = code /\ req'[r].from = req[r].from
                   /\ req'[r].failed = req[r].failed
         /\ SameAsk(req'[r], req[r]) /\ SameSlot(req'[r], req[r]) /\ SameCall(req'[r], req[r])
         /\ SameCost(req'[r], req[r])
<1> DEFINE p == req[r]
           q == [p EXCEPT !.todo = todo, !.status = code, !.pc = to, !.after = after, !.charged = charged]
<1>1. p \in ReqRec BY Zenon DEF ReqType
<1>2. Step(r, from, q) BY Zenon DEF RolledBack
<1> HIDE DEF p
<1>3. /\ q \in ReqRec /\ q.pc = to /\ q.todo = todo /\ q.after = after /\ q.charged = charged /\ q.i = p.i
           /\ q.status = code /\ q.from = p.from /\ q.failed = p.failed
      /\ SameAsk(q, p) /\ SameSlot(q, p) /\ SameCall(q, p) /\ SameCost(q, p)
  BY <1>1, Zenon DEF ReqRec, SameAsk, SameSlot, SameCall, SameCost
<1> HIDE DEF q
<1>4. Changed(r) /\ req[r].pc = from /\ req'[r] = q BY <1>2, <1>3, StepFacts, Zenon
<1> QED BY <1>3, <1>4, Zenon DEF p

\* One adjustment is made.
Adjusted(r, todo) == [req[r] EXCEPT !.todo = todo]

\* A step that ends with Adjusted changes the adjustments a request has left, and nothing else of it.
LEMMA TodoFacts ==
  ASSUME ReqType, NEW r \in Requests, NEW from, NEW todo \in SUBSET Adjustment,
         Step(r, from, Adjusted(r, todo))
  PROVE  /\ Changed(r) /\ req[r].pc = from
         /\ req'[r].pc = req[r].pc /\ req'[r].todo = todo /\ req'[r].after = req[r].after
              /\ req'[r].charged = req[r].charged /\ req'[r].i = req[r].i
         /\ SameAsk(req'[r], req[r]) /\ SameSlot(req'[r], req[r]) /\ SameCall(req'[r], req[r])
         /\ SameResponse(req'[r], req[r]) /\ SameCost(req'[r], req[r])
<1> DEFINE p == req[r]
           q == [p EXCEPT !.todo = todo]
<1>1. p \in ReqRec BY Zenon DEF ReqType
<1>2. Step(r, from, q) BY Zenon DEF Adjusted
<1> HIDE DEF p
<1>3. /\ q \in ReqRec /\ q.pc = p.pc /\ q.todo = todo /\ q.after = p.after /\ q.charged = p.charged
           /\ q.i = p.i
      /\ SameAsk(q, p) /\ SameSlot(q, p) /\ SameCall(q, p) /\ SameResponse(q, p) /\ SameCost(q, p)
  BY <1>1, Zenon DEF ReqRec, SameAsk, SameSlot, SameCall, SameResponse, SameCost
<1> HIDE DEF q
<1>4. Changed(r) /\ req[r].pc = from /\ req'[r] = q BY <1>2, <1>3, StepFacts, Zenon
<1> QED BY <1>3, <1>4, Zenon DEF p

\* Its settlement begins.
Settling(r, to, todo, after) == [To(r, to) EXCEPT !.todo = todo, !.after = after]

\* A step that ends with Settling gives a request its adjustments and keeps its charges.
LEMMA SettleFacts ==
  ASSUME ReqType, NEW r \in Requests, NEW from, NEW to \in Labels, NEW todo \in SUBSET Adjustment,
         NEW after \in Labels,
         Step(r, from, Settling(r, to, todo, after))
  PROVE  /\ Changed(r) /\ req[r].pc = from
         /\ req'[r].pc = to /\ req'[r].todo = todo /\ req'[r].after = after
              /\ req'[r].charged = req[r].charged /\ req'[r].i = req[r].i
         /\ SameAsk(req'[r], req[r]) /\ SameSlot(req'[r], req[r]) /\ SameCall(req'[r], req[r])
         /\ SameResponse(req'[r], req[r]) /\ SameCost(req'[r], req[r])
<1> DEFINE p == req[r]
           q == [p EXCEPT !.pc = to, !.todo = todo, !.after = after]
<1>1. p \in ReqRec BY Zenon DEF ReqType
<1>2. Step(r, from, q) BY Zenon DEF To, Settling
<1> HIDE DEF p
<1>3. /\ q \in ReqRec /\ q.pc = to /\ q.todo = todo /\ q.after = after /\ q.charged = p.charged /\ q.i = p.i
      /\ SameAsk(q, p) /\ SameSlot(q, p) /\ SameCall(q, p) /\ SameResponse(q, p) /\ SameCost(q, p)
  BY <1>1, Zenon DEF ReqRec, SameAsk, SameSlot, SameCall, SameResponse, SameCost
<1> HIDE DEF q
<1>4. Changed(r) /\ req[r].pc = from /\ req'[r] = q BY <1>2, <1>3, StepFacts, Zenon
<1> QED BY <1>3, <1>4, Zenon DEF p

\* A check admits it.
Admitted(r, to, charged, n) == [[req[r] EXCEPT !.charged = charged, !.i = n] EXCEPT !.pc = to]

\* A step that ends with Admitted changes a request's charges and the limit it is at, and nothing else
\* of it.
LEMMA AdmitFacts ==
  ASSUME ReqType, NEW r \in Requests, NEW from, NEW to \in Labels, NEW charged \in Seq(Charge),
         NEW n \in Nat,
         Step(r, from, Admitted(r, to, charged, n))
  PROVE  /\ Changed(r) /\ req[r].pc = from
         /\ req'[r].pc = to /\ req'[r].charged = charged /\ req'[r].i = n /\ req'[r].todo = req[r].todo
              /\ req'[r].after = req[r].after
         /\ SameAsk(req'[r], req[r]) /\ SameSlot(req'[r], req[r]) /\ SameCall(req'[r], req[r])
         /\ SameResponse(req'[r], req[r]) /\ SameCost(req'[r], req[r])
<1> DEFINE p == req[r]
           q == [p EXCEPT !.charged = charged, !.i = n, !.pc = to]
<1>1. p \in ReqRec BY Zenon DEF ReqType
<1>2. Step(r, from, q) BY Zenon DEF Admitted
<1> HIDE DEF p
<1>3. /\ q \in ReqRec /\ q.pc = to /\ q.charged = charged /\ q.i = n /\ q.todo = p.todo /\ q.after = p.after
      /\ SameAsk(q, p) /\ SameSlot(q, p) /\ SameCall(q, p) /\ SameResponse(q, p) /\ SameCost(q, p)
  BY <1>1, Zenon DEF ReqRec, SameAsk, SameSlot, SameCall, SameResponse, SameCost
<1> HIDE DEF q
<1>4. Changed(r) /\ req[r].pc = from /\ req'[r] = q BY <1>2, <1>3, StepFacts, Zenon
<1> QED BY <1>3, <1>4, Zenon DEF p

\* Its upstream failed.
Failed(r, b, t, to, code) == [req[r] EXCEPT !.failed = b, !.target = t, !.pc = to, !.status = code]

\* A step that ends with Failed changes a request's response and replica, and nothing of its slot or
\* charges.
LEMMA ErrorFacts ==
  ASSUME ReqType, NEW r \in Requests, NEW from, NEW b \in BOOLEAN, NEW t \in Replicas \cup {NoTarget},
         NEW to \in Labels, NEW code \in Int,
         Step(r, from, Failed(r, b, t, to, code))
  PROVE  /\ Changed(r) /\ req[r].pc = from
         /\ req'[r].pc = to /\ req'[r].failed = b /\ req'[r].target = t /\ req'[r].sent = req[r].sent
         /\ SameAsk(req'[r], req[r]) /\ SameSlot(req'[r], req[r]) /\ SameAccount(req'[r], req[r])
         /\ SameCost(req'[r], req[r])
<1> DEFINE p == req[r]
           q == [p EXCEPT !.failed = b, !.target = t, !.pc = to, !.status = code]
<1>1. p \in ReqRec BY Zenon DEF ReqType
<1>2. Step(r, from, q) BY Zenon DEF Failed
<1> HIDE DEF p
<1>3. /\ q \in ReqRec /\ q.pc = to /\ q.failed = b /\ q.target = t /\ q.sent = p.sent
      /\ SameAsk(q, p) /\ SameSlot(q, p) /\ SameAccount(q, p) /\ SameCost(q, p)
  BY <1>1, Zenon DEF ReqRec, SameAsk, SameSlot, SameAccount, SameCost
<1> HIDE DEF q
<1>4. Changed(r) /\ req[r].pc = from /\ req'[r] = q BY <1>2, <1>3, StepFacts, Zenon
<1> QED BY <1>3, <1>4, Zenon DEF p

\* Its body is too large to be sent again.
TooLarge(r, code, to, t) == [[req[r] EXCEPT !.status = code, !.pc = to] EXCEPT !.target = t]

\* A step that ends with TooLarge changes a request's status and replica, and nothing of its slot or
\* charges.
LEMMA LargeFacts ==
  ASSUME ReqType, NEW r \in Requests, NEW from, NEW code \in Int, NEW to \in Labels,
         NEW t \in Replicas \cup {NoTarget},
         Step(r, from, TooLarge(r, code, to, t))
  PROVE  /\ Changed(r) /\ req[r].pc = from
         /\ req'[r].pc = to /\ req'[r].status = code /\ req'[r].from = req[r].from
              /\ req'[r].failed = req[r].failed /\ req'[r].target = t /\ req'[r].sent = req[r].sent
         /\ SameAsk(req'[r], req[r]) /\ SameSlot(req'[r], req[r]) /\ SameAccount(req'[r], req[r])
         /\ SameCost(req'[r], req[r])
<1> DEFINE p == req[r]
           q == [p EXCEPT !.status = code, !.pc = to, !.target = t]
<1>1. p \in ReqRec BY Zenon DEF ReqType
<1>2. Step(r, from, q) BY Zenon DEF TooLarge
<1> HIDE DEF p
<1>3. /\ q \in ReqRec /\ q.pc = to /\ q.status = code /\ q.from = p.from /\ q.failed = p.failed
           /\ q.target = t /\ q.sent = p.sent
      /\ SameAsk(q, p) /\ SameSlot(q, p) /\ SameAccount(q, p) /\ SameCost(q, p)
  BY <1>1, Zenon DEF ReqRec, SameAsk, SameSlot, SameAccount, SameCost
<1> HIDE DEF q
<1>4. Changed(r) /\ req[r].pc = from /\ req'[r] = q BY <1>2, <1>3, StepFacts, Zenon
<1> QED BY <1>3, <1>4, Zenon DEF p

\* It will be sent to a replica.
Chosen(r, b, to, t) == [[req[r] EXCEPT !.large = b, !.pc = to] EXCEPT !.target = t]

\* A step that ends with Chosen gives a request its first replica and changes nothing of its slot or
\* charges.
LEMMA SendFacts ==
  ASSUME ReqType, NEW r \in Requests, NEW from, NEW b \in BOOLEAN, NEW to \in Labels,
         NEW t \in Replicas \cup {NoTarget},
         Step(r, from, Chosen(r, b, to, t))
  PROVE  /\ Changed(r) /\ req[r].pc = from
         /\ req'[r].pc = to /\ req'[r].target = t /\ req'[r].sent = req[r].sent
         /\ SameAsk(req'[r], req[r]) /\ SameSlot(req'[r], req[r]) /\ SameAccount(req'[r], req[r])
         /\ SameResponse(req'[r], req[r]) /\ SameCost(req'[r], req[r])
<1> DEFINE p == req[r]
           q == [p EXCEPT !.large = b, !.pc = to, !.target = t]
<1>1. p \in ReqRec BY Zenon DEF ReqType
<1>2. Step(r, from, q) BY Zenon DEF Chosen
<1> HIDE DEF p
<1>3. /\ q \in ReqRec /\ q.pc = to /\ q.target = t /\ q.sent = p.sent
      /\ SameAsk(q, p) /\ SameSlot(q, p) /\ SameAccount(q, p) /\ SameResponse(q, p) /\ SameCost(q, p)
  BY <1>1, Zenon DEF ReqRec, SameAsk, SameSlot, SameAccount, SameResponse, SameCost
<1> HIDE DEF q
<1>4. Changed(r) /\ req[r].pc = from /\ req'[r] = q BY <1>2, <1>3, StepFacts, Zenon
<1> QED BY <1>3, <1>4, Zenon DEF p

\* It will be sent again.
ChosenAgain(r, to, t) == [To(r, to) EXCEPT !.target = t]

\* A step that ends with ChosenAgain gives a request another replica and changes nothing else that is
\* counted.
LEMMA AgainFacts ==
  ASSUME ReqType, NEW r \in Requests, NEW from, NEW to \in Labels, NEW t \in Replicas \cup {NoTarget},
         Step(r, from, ChosenAgain(r, to, t))
  PROVE  /\ Changed(r) /\ req[r].pc = from
         /\ req'[r].pc = to /\ req'[r].target = t /\ req'[r].sent = req[r].sent
         /\ SameAsk(req'[r], req[r]) /\ SameSlot(req'[r], req[r]) /\ SameAccount(req'[r], req[r])
         /\ SameResponse(req'[r], req[r]) /\ SameCost(req'[r], req[r])
<1> DEFINE p == req[r]
           q == [p EXCEPT !.pc = to, !.target = t]
<1>1. p \in ReqRec BY Zenon DEF ReqType
<1>2. Step(r, from, q) BY Zenon DEF To, ChosenAgain
<1> HIDE DEF p
<1>3. /\ q \in ReqRec /\ q.pc = to /\ q.target = t /\ q.sent = p.sent
      /\ SameAsk(q, p) /\ SameSlot(q, p) /\ SameAccount(q, p) /\ SameResponse(q, p) /\ SameCost(q, p)
  BY <1>1, Zenon DEF ReqRec, SameAsk, SameSlot, SameAccount, SameResponse, SameCost
<1> HIDE DEF q
<1>4. Changed(r) /\ req[r].pc = from /\ req'[r] = q BY <1>2, <1>3, StepFacts, Zenon
<1> QED BY <1>3, <1>4, Zenon DEF p

\* It has been sent.
Trying(r, to, n) == [To(r, to) EXCEPT !.sent = n]

\* A step that ends with Trying counts an attempt and keeps the replica.
LEMMA TryFacts ==
  ASSUME ReqType, NEW r \in Requests, NEW from, NEW to \in Labels, NEW n \in Nat,
         Step(r, from, Trying(r, to, n))
  PROVE  /\ Changed(r) /\ req[r].pc = from
         /\ req'[r].pc = to /\ req'[r].target = req[r].target /\ req'[r].sent = n
         /\ SameAsk(req'[r], req[r]) /\ SameSlot(req'[r], req[r]) /\ SameAccount(req'[r], req[r])
         /\ SameResponse(req'[r], req[r]) /\ SameCost(req'[r], req[r])
<1> DEFINE p == req[r]
           q == [p EXCEPT !.pc = to, !.sent = n]
<1>1. p \in ReqRec BY Zenon DEF ReqType
<1>2. Step(r, from, q) BY Zenon DEF To, Trying
<1> HIDE DEF p
<1>3. /\ q \in ReqRec /\ q.pc = to /\ q.target = p.target /\ q.sent = n
      /\ SameAsk(q, p) /\ SameSlot(q, p) /\ SameAccount(q, p) /\ SameResponse(q, p) /\ SameCost(q, p)
  BY <1>1, Zenon DEF ReqRec, SameAsk, SameSlot, SameAccount, SameResponse, SameCost
<1> HIDE DEF q
<1>4. Changed(r) /\ req[r].pc = from /\ req'[r] = q BY <1>2, <1>3, StepFacts, Zenon
<1> QED BY <1>3, <1>4, Zenon DEF p

\* Its upstream answered.
Responded(r, code, source, to, t) == [[req[r] EXCEPT !.status = code, !.from = source,
    !.pc = to] EXCEPT !.target = t]

\* A step that ends with Responded gives a request its upstream's status and keeps its slot and
\* charges.
LEMMA BodyFacts ==
  ASSUME ReqType, NEW r \in Requests, NEW from, NEW code \in Int, NEW source \in Origins,
         NEW to \in Labels, NEW t \in Replicas \cup {NoTarget},
         Step(r, from, Responded(r, code, source, to, t))
  PROVE  /\ Changed(r) /\ req[r].pc = from
         /\ req'[r].pc = to /\ req'[r].target = t /\ req'[r].sent = req[r].sent /\ req'[r].status = code
              /\ req'[r].from = source /\ req'[r].failed = req[r].failed
         /\ SameAsk(req'[r], req[r]) /\ SameSlot(req'[r], req[r]) /\ SameAccount(req'[r], req[r])
         /\ SameCost(req'[r], req[r])
<1> DEFINE p == req[r]
           q == [p EXCEPT !.status = code, !.from = source, !.pc = to, !.target = t]
<1>1. p \in ReqRec BY Zenon DEF ReqType
<1>2. Step(r, from, q) BY Zenon DEF Responded
<1> HIDE DEF p
<1>3. /\ q \in ReqRec /\ q.pc = to /\ q.target = t /\ q.sent = p.sent /\ q.status = code /\ q.from = source
           /\ q.failed = p.failed
      /\ SameAsk(q, p) /\ SameSlot(q, p) /\ SameAccount(q, p) /\ SameCost(q, p)
  BY <1>1, Zenon DEF ReqRec, SameAsk, SameSlot, SameAccount, SameCost
<1> HIDE DEF q
<1>4. Changed(r) /\ req[r].pc = from /\ req'[r] = q BY <1>2, <1>3, StepFacts, Zenon
<1> QED BY <1>3, <1>4, Zenon DEF p

\* It waits to be sent again.
Waiting(r, to, b) == [To(r, to) EXCEPT !.gone = b]

\* A step that ends with Waiting changes nothing of a request that is counted.
LEMMA BackoffFacts ==
  ASSUME ReqType, NEW r \in Requests, NEW from, NEW to \in Labels, NEW b \in BOOLEAN,
         Step(r, from, Waiting(r, to, b))
  PROVE  /\ Changed(r) /\ req[r].pc = from
         /\ req'[r].pc = to
         /\ SameAsk(req'[r], req[r]) /\ SameSlot(req'[r], req[r]) /\ SameAccount(req'[r], req[r])
         /\ SameCall(req'[r], req[r]) /\ SameResponse(req'[r], req[r]) /\ SameCost(req'[r], req[r])
<1> DEFINE p == req[r]
           q == [p EXCEPT !.pc = to, !.gone = b]
<1>1. p \in ReqRec BY Zenon DEF ReqType
<1>2. Step(r, from, q) BY Zenon DEF To, Waiting
<1> HIDE DEF p
<1>3. /\ q \in ReqRec /\ q.pc = to
      /\ SameAsk(q, p) /\ SameSlot(q, p) /\ SameAccount(q, p) /\ SameCall(q, p) /\ SameResponse(q, p)
      /\ SameCost(q, p)
  BY <1>1, Zenon DEF ReqRec, SameAsk, SameSlot, SameAccount, SameCall, SameResponse, SameCost
<1> HIDE DEF q
<1>4. Changed(r) /\ req[r].pc = from /\ req'[r] = q BY <1>2, <1>3, StepFacts, Zenon
<1> QED BY <1>3, <1>4, Zenon DEF p

\* Its body ends.
Closed(r, to, n, b, t) == [To(r, to) EXCEPT !.actual = n, !.aborted = b, !.target = t]

\* A step that ends with Closed records what the response cost and keeps a request's slot and charges.
LEMMA CloseFacts ==
  ASSUME ReqType, NEW r \in Requests, NEW from, NEW to \in Labels, NEW n \in Int, NEW b \in BOOLEAN,
         NEW t \in Replicas \cup {NoTarget},
         Step(r, from, Closed(r, to, n, b, t))
  PROVE  /\ Changed(r) /\ req[r].pc = from
         /\ req'[r].pc = to /\ req'[r].actual = n /\ req'[r].aborted = b /\ req'[r].target = t
              /\ req'[r].sent = req[r].sent
         /\ SameAsk(req'[r], req[r]) /\ SameSlot(req'[r], req[r]) /\ SameAccount(req'[r], req[r])
         /\ SameResponse(req'[r], req[r])
<1> DEFINE p == req[r]
           q == [p EXCEPT !.pc = to, !.actual = n, !.aborted = b, !.target = t]
<1>1. p \in ReqRec BY Zenon DEF ReqType
<1>2. Step(r, from, q) BY Zenon DEF To, Closed
<1> HIDE DEF p
<1>3. /\ q \in ReqRec /\ q.pc = to /\ q.actual = n /\ q.aborted = b /\ q.target = t /\ q.sent = p.sent
      /\ SameAsk(q, p) /\ SameSlot(q, p) /\ SameAccount(q, p) /\ SameResponse(q, p)
  BY <1>1, Zenon DEF ReqRec, SameAsk, SameSlot, SameAccount, SameResponse
<1> HIDE DEF q
<1>4. Changed(r) /\ req[r].pc = from /\ req'[r] = q BY <1>2, <1>3, StepFacts, Zenon
<1> QED BY <1>3, <1>4, Zenon DEF p

----------------------------------------------------------------------------
(* What each action does to a request.                                     *)

\* How a request's steps follow one another.
Answered == {"settle", "adjust", "unwind", "store"}
Unsent == {"new", "cache", "slot", "acquire", "reserve", "safety", "undo", "pick"}
Sound(s, q) ==
  /\ q.pc = "adjust" => q.after = "unwind"
  /\ q.pc \in {"send", "try"} => q.target \in Replicas
  /\ q.pc = "body" => q.from = "upstream"
  /\ q.pc \in Answered /\ q.status \in cacheableStatus => q.from = "upstream" \/ q.failed
  /\ q.pc \in Unsent => q.sent = 0
  /\ q.pc = "try" => q.sent > 0
  /\ q.method = "POST" /\ ~s.nonIdempotent =>
       q.sent <= 1 /\ q.pc # "backoff" /\ (q.pc = "send" => q.sent = 0)

\* What a request was charged, and what is left to adjust.
Est(s, q) ==
  IF s.cost = "none" THEN s.costs[q.method]
  ELSE IF q.asked > 0 THEN q.asked
  ELSE IF s.estimate > 0 THEN s.estimate ELSE s.costs[q.method]
Distinct(s, todo) ==
  \A a \in todo : a.i \in DOMAIN s.limits /\ a.at # "none" /\ \A b \in todo : a.i = b.i => a = b
Booked(s, q) ==
  /\ q.pc \in {"new", "cache", "slot", "acquire", "full"} => q.charged = <<>> /\ q.i = 1
  /\ q.pc \in {"reserve", "safety", "undo"} => q.i = Len(q.charged) + 1 /\ q.i <= Len(s.limits)
  /\ q.pc \in {"safety", "undo"} => s.safety.on
  /\ Len(q.charged) <= Len(s.limits)
  /\ \A j \in DOMAIN q.charged :
       q.charged[j].cost = Est(s, q) /\ (q.charged[j].at = "safety" => s.safety.on)
  /\ q.aborted => q.pc \in {"unwind", "done"}
  /\ q.pc = "adjust" => Distinct(s, q.todo)
Typed == ReqType /\ \A r \in Requests : Sound(svc, req[r]) /\ Booked(svc, req[r])

\* What request q has been charged on limit i, net of what it was given back.
ChargedAt(q, i) == i \in DOMAIN q.charged /\ q.charged[i].at # "none"
Paid(q, i) == IF ChargedAt(q, i) THEN q.charged[i].cost ELSE 0
Pending(todo, i) == IF \E a \in todo : a.i = i THEN (CHOOSE a \in todo : a.i = i).delta ELSE 0
Due(s, q, i) ==
  IF ~ChargedAt(q, i) THEN 0
  ELSE IF s.cost = "none" \/ q.aborted THEN q.charged[i].cost
  ELSE IF q.actual >= 0 THEN q.actual
  ELSE IF s.cost = "refund" \/ q.failed THEN 0 ELSE q.charged[i].cost
Net(s, q, i) ==
  IF q.pc \in {"store", "done"} THEN 0
  ELSE IF q.pc = "unwind" THEN Due(s, q, i)
  ELSE IF q.pc = "adjust" THEN Due(s, q, i) - Pending(q.todo, i)
  ELSE IF q.pc = "undo" /\ i = q.i THEN Est(s, q) ELSE Paid(q, i)

\* A step that has nothing to do with the slots, or the replicas.
Free == {"new", "cache", "slot", "store", "done"}
SlotsSteady(r) ==
  /\ UNCHANGED <<slots, table, sweep, raced>> /\ req'[r].slot = req[r].slot
  /\ req[r].pc \notin {"acquire", "full"} /\ req'[r].pc \notin {"acquire", "full"}
  /\ req'[r].pc \in Free => req[r].pc \in Free
ReplicasSteady(r) == UNCHANGED up /\ req[r].pc \notin {"try", "body"} /\ req'[r].pc \notin {"try", "body"}

\* A sound request that a step leaves sound.
LEMMA TypedStep ==
  ASSUME Typed, NEW r \in Requests, Changed(r), svc' = svc, Sound(svc, req'[r]), Booked(svc, req'[r])
  PROVE  Typed'
<1>1. ReqType' BY Zenon DEF Typed, ReqType, Changed
<1>2. ASSUME NEW o \in Requests PROVE Sound(svc', req'[o]) /\ Booked(svc', req'[o])
  BY <1>2, Zenon DEF Typed, Changed
<1> QED BY <1>1, <1>2, Zenon DEF Typed

\* The limits of a service.
LEMMA LimitFacts ==
  ASSUME Typed
  PROVE  Len(svc.limits) \in Nat \ {0} /\ DOMAIN svc.limits = 1 .. Len(svc.limits)
BY ServiceSettings DEF Typed, ReqType

\* What of a request's charges depends on its account only.
LEMMA BookedKept ==
  ASSUME Typed, NEW r \in Requests, Changed(r), SameAsk(req'[r], req[r]), SameAccount(req'[r], req[r]),
         ~req'[r].aborted,
         req'[r].pc \notin {"safety", "undo", "adjust"},
         req'[r].pc \in {"new", "cache", "slot", "acquire", "full", "reserve"} =>
           req[r].pc \in {"new", "cache", "slot", "acquire", "full"}
  PROVE  Booked(svc, req'[r])
<1>1. Booked(svc, req[r]) /\ Len(svc.limits) >= 1 BY LimitFacts DEF Typed
<1>2. Est(svc, req'[r]) = Est(svc, req[r]) BY Zenon DEF Est, SameAsk
<1>3. Len(<<>>) = 0 BY Zenon
<1> QED BY <1>1, <1>2, <1>3 DEF Booked, SameAccount

\* The cost of a check.
LEMMA EstFacts ==
  ASSUME Typed, NEW r \in Requests
  PROVE  /\ Est(svc, req[r]) \in Nat /\ estimate(r) = Est(svc, req[r])
         /\ \A i \in DOMAIN svc.limits : checks(r)[i].cost = Est(svc, req[r])
<1>1. req[r] \in ReqRec /\ svc \in Services BY Zenon DEF Typed, ReqType
<1>2. req[r].method \in Methods /\ req[r].asked \in Nat BY <1>1, Zenon DEF ReqRec
<1>3. svc.costs[req[r].method] \in Nat /\ svc.estimate \in Nat
  BY <1>1, <1>2, ServiceSettings, Zenon DEF Methods
<1>4. estimate(r) = Est(svc, req[r]) BY Zenon DEF estimate, Est, methodCost
<1>5. Est(svc, req[r]) \in Nat BY <1>2, <1>3, Zenon DEF Est
<1> QED BY <1>4, <1>5, Zenon DEF checks

\* The adjustments of a settlement or a rollback.
LEMMA AdjustmentFacts ==
  ASSUME Typed, NEW r \in Requests, NEW cost \in Int
  PROVE  /\ Adjustments(r, cost) \in SUBSET Adjustment /\ Distinct(svc, Adjustments(r, cost))
         /\ \A i \in DOMAIN svc.limits :
              Pending(Adjustments(r, cost), i)
                = IF ChargedAt(req[r], i) THEN cost - req[r].charged[i].cost ELSE 0
<1> DEFINE charged == req[r].charged
           J == {j \in DOMAIN charged : charged[j].at # "none"}
           At(j) == [i |-> j, at |-> charged[j].at, delta |-> cost - charged[j].cost]
<1>1. charged \in Seq(Charge) /\ Len(charged) <= Len(svc.limits) BY Zenon DEF Typed, ReqType, ReqRec, Booked
<1>2. Adjustments(r, cost) = {At(j) : j \in J} BY Zenon DEF Adjustments
<1>3. \A j \in J : ChargedAt(req[r], j) BY Zenon DEF ChargedAt
<1>4. \A i : ChargedAt(req[r], i) => i \in J BY Zenon DEF ChargedAt
<1> HIDE DEF charged
<1>5. ASSUME NEW j \in J PROVE At(j) \in Adjustment /\ j \in DOMAIN svc.limits /\ At(j).at # "none"
        /\ At(j).i = j
  <2>1. j \in Nat /\ j \in 1 .. Len(charged) /\ charged[j] \in Charge BY <1>1
  <2>2. charged[j].at \in {"primary", "safety", "none"} /\ charged[j].cost \in Int BY <2>1, Zenon DEF Charge
  <2>3. j \in DOMAIN svc.limits BY <1>1, <2>1, LimitFacts
  <2> QED BY <2>1, <2>2, <2>3 DEF Adjustment
<1> HIDE DEF J
<1>6. \A a \in Adjustments(r, cost) : \E j \in J : a = At(j) BY <1>2, Zenon
<1>7. \A j \in J : At(j) \in Adjustments(r, cost) BY <1>2, Zenon
<1>8. \A j \in J : At(j).delta = cost - charged[j].cost BY Zenon
<1> HIDE DEF At
<1>9. Adjustments(r, cost) \in SUBSET Adjustment BY <1>5, <1>6, Zenon
<1>10. Distinct(svc, Adjustments(r, cost)) BY <1>5, <1>6 DEF Distinct
<1>11. ASSUME NEW i \in DOMAIN svc.limits
       PROVE  Pending(Adjustments(r, cost), i) = IF ChargedAt(req[r], i) THEN cost - charged[i].cost ELSE 0
  <2>1. CASE i \in J
    <3>1. \E a \in Adjustments(r, cost) : a.i = i BY <2>1, <1>5, <1>7, Zenon
    <3>2. PICK a : a = CHOOSE b \in Adjustments(r, cost) : b.i = i BY Zenon
    <3>3. a \in Adjustments(r, cost) /\ a.i = i BY <3>1, <3>2, Zenon
    <3>4. a = At(i) BY <3>3, <1>5, <1>6, Zenon
    <3>5. a.delta = cost - charged[i].cost BY <2>1, <3>4, <1>8, Zenon
    <3> QED BY <2>1, <3>1, <3>2, <3>5, <1>3, Zenon DEF Pending
  <2>2. CASE i \notin J
    <3>1. ~\E a \in Adjustments(r, cost) : a.i = i BY <2>2, <1>5, <1>6, Zenon
    <3> QED BY <2>2, <3>1, <1>4, Zenon DEF Pending
  <2> QED BY <2>1, <2>2, Zenon
<1> QED BY <1>9, <1>10, <1>11, Zenon DEF charged

\* A check admits a request, at one of the limiters or in the shadow.
LEMMA AdmitEffect ==
  ASSUME Typed, NEW r \in Requests,
         NEW at \in {"primary", "safety", "none"}, at = "safety" => svc.safety.on,
         req[r].pc \in {"reserve", "safety", "undo"}, NEW from, Step(r, from, Admit(r, at))
  PROVE  /\ Changed(r) /\ Sound(svc, req'[r]) /\ Booked(svc, req'[r]) /\ req[r].pc = from
         /\ req'[r].pc \in {"pick", "reserve"} /\ SameSlot(req'[r], req[r])
         /\ req'[r].charged = Append(req[r].charged, [at |-> at, cost |-> Est(svc, req[r])])
<1> DEFINE p == req[r]
           charge == [at |-> at, cost |-> Est(svc, req[r])]
           charged == Append(req[r].charged, charge)
           n == req[r].i + 1
           to == IF n > Len(svc.limits) THEN "pick" ELSE "reserve"
<1>1. ReqType /\ req[r] \in ReqRec BY Zenon DEF Typed, ReqType
<1>2. req[r].i = Len(req[r].charged) + 1 /\ req[r].i <= Len(svc.limits) /\ req[r].charged \in Seq(Charge)
  BY <1>1, Zenon DEF Typed, Booked, ReqRec
<1>3. req[r].i \in DOMAIN svc.limits /\ req[r].i \in Nat BY <1>2, LimitFacts
<1>4. checks(r)[req[r].i].cost = Est(svc, req[r]) /\ Est(svc, req[r]) \in Nat BY <1>3, EstFacts, Zenon
<1>5. charge \in Charge BY <1>4 DEF Charge
<1>6. Step(r, from, Admitted(r, to, charged, n))
  <2> DEFINE q == [req[r] EXCEPT !.charged = charged, !.i = n]
  <2>1. Admit(r, at) = [q EXCEPT !.pc = IF q.i > Len(svc.limits) THEN "pick" ELSE "reserve"]
    BY <1>4, Zenon DEF Admit
  <2>2. q.i = n BY <1>1, Zenon DEF ReqRec
  <2> QED BY <2>1, <2>2, Zenon DEF Admitted
<1> HIDE DEF charge
<1>7. charged \in Seq(Charge) /\ Len(charged) = Len(req[r].charged) + 1 /\ n \in Nat
  BY <1>2, <1>3, <1>5
<1>8. /\ to \in {"pick", "reserve"} /\ (to = "reserve" => n <= Len(svc.limits)) /\ n = Len(charged) + 1
      /\ Len(charged) <= Len(svc.limits)
  BY <1>2, <1>7, LimitFacts
<1>9. \A j \in DOMAIN charged : charged[j] = charge
        \/ (j \in DOMAIN req[r].charged /\ charged[j] = req[r].charged[j])
  BY <1>2, <1>5
<1> HIDE DEF n, to, charged
<1>10. to \in Labels BY <1>8, Zenon DEF Labels
<1>11. /\ Changed(r) /\ req[r].pc = from /\ req'[r].pc = to /\ req'[r].charged = charged /\ req'[r].i = n
       /\ SameSlot(req'[r], req[r]) /\ SameAsk(req'[r], req[r]) /\ SameCall(req'[r], req[r])
       /\ SameCost(req'[r], req[r])
  BY <1>1, <1>6, <1>7, <1>10, AdmitFacts
<1>12. Sound(svc, req'[r]) BY <1>8, <1>11, Zenon DEF Typed, Sound, SameAsk, SameCall, Answered, Unsent
<1>13. Est(svc, req'[r]) = Est(svc, req[r]) BY <1>11, Zenon DEF Est, SameAsk
<1>14. \A j \in DOMAIN charged : charged[j].cost = Est(svc, req[r])
         /\ (charged[j].at = "safety" => svc.safety.on)
  BY <1>9 DEF Typed, Booked, charge
<1>15. ~req[r].aborted BY Zenon DEF Typed, Booked
<1>16. Booked(svc, req'[r]) BY <1>8, <1>11, <1>13, <1>14, <1>15, Zenon DEF Booked, SameCost
<1> QED BY <1>8, <1>11, <1>12, <1>16, Zenon DEF charged, charge

\* A check refuses it: passed over in the shadow, else everything is rolled back.
RolledBackTo(r) ==
  /\ Changed(r) /\ Sound(svc, req'[r]) /\ Booked(svc, req'[r])
  /\ req'[r].pc = "adjust" /\ SameSlot(req'[r], req[r])
  /\ req'[r].charged = <<>> /\ req'[r].todo = Adjustments(r, 0)

\* A refused limit is either let through in shadow mode or rolls back what the request took (Reserve).
LEMMA RefuseEffect ==
  ASSUME Typed, NEW r \in Requests,
         NEW code \in {403, 429, 503}, req[r].pc \in {"reserve", "safety", "undo"},
         NEW from, Step(r, from, Refuse(r, code))
  PROVE  req[r].pc = from /\ (Step(r, from, Admit(r, "none")) \/ RolledBackTo(r))
<1>1. CASE checks(r)[req[r].i].shadow BY <1>1 DEF Refuse, Step
<1>2. CASE ~checks(r)[req[r].i].shadow
  <2> DEFINE todo == Adjustments(r, 0)
             none == <<>>
  <2>1. /\ ReqType /\ code \in Int /\ "adjust" \in Labels /\ "unwind" \in Labels /\ none \in Seq(Charge)
        /\ todo \in SUBSET Adjustment /\ Distinct(svc, todo)
    <3>1. 0 \in Int OBVIOUS
    <3> QED BY <3>1, AdjustmentFacts DEF Typed, Labels
  <2>2. Step(r, from, RolledBack(r, todo, code, "adjust", "unwind", none))
    BY <1>2, Zenon DEF Refuse, rollback, RolledBack
  <2> HIDE DEF todo, none
  <2>3. /\ Changed(r) /\ req[r].pc = from /\ req'[r].pc = "adjust" /\ req'[r].todo = todo
        /\ req'[r].after = "unwind" /\ req'[r].charged = none /\ req'[r].status = code
        /\ SameSlot(req'[r], req[r]) /\ SameAsk(req'[r], req[r]) /\ SameCall(req'[r], req[r])
        /\ SameCost(req'[r], req[r])
    BY <2>1, <2>2, RollbackFacts
  <2>4. Sound(svc, req'[r])
    BY <2>3 DEF Typed, Sound, SameAsk, SameCall, Answered, Unsent, cacheableStatus
  <2>5. ~req[r].aborted /\ Len(none) = 0 /\ DOMAIN none = {} /\ Len(svc.limits) \in Nat
    BY LimitFacts DEF Typed, Booked, none
  <2>6. Booked(svc, req'[r]) BY <2>1, <2>3, <2>5 DEF Booked, SameCost
  <2> QED BY <2>3, <2>4, <2>6, Zenon DEF RolledBackTo, todo, none
<1> QED BY <1>1, <1>2

\* What ServeHTTP's lookup and authentication change: the request alone.
LEMMA ArriveEffect ==
  ASSUME Typed, NEW r \in Requests, NEW method \in {"GET", "POST", "OPTIONS"}, NEW found \in BOOLEAN,
         NEW lookup \in {"known", "unknown", "foreign", "failed"}, NEW n \in {0, 2},
         Arrive(r, method, found, lookup, n)
  PROVE  /\ Changed(r) /\ Typed' /\ SlotsSteady(r) /\ ReplicasSteady(r)
         /\ req[r].pc = "new" /\ req'[r].pc \in {"cache", "done"} /\ SameAccount(req'[r], req[r])
         /\ UNCHANGED <<svc, used, safe, owed, cache>>
<1> DEFINE code == FirstRefusal(route(method, found), cors(method), authenticate(lookup))
           to == IF code = 0 THEN "cache" ELSE "done"
<1>1. ReqType BY Zenon DEF Typed
<1>2. code \in Int BY <1>1, RefusalCode, Zenon DEF ReqType
<1>3. /\ Step(r, "new", Arrived(r, to, method, n, code))
      /\ UNCHANGED <<svc, slots, table, sweep, raced, used, safe, owed, up, cache>>
  BY Zenon DEF Arrive, Arrived, concurrency, accounts
<1> HIDE DEF code
<1>4. to \in {"cache", "done"} BY <1>2, Zenon
<1> HIDE DEF to
<1>5. to \in Labels BY <1>4, Zenon DEF Labels
<1>6. n \in Nat /\ method \in Methods BY DEF Methods
<1>7. /\ Changed(r) /\ req[r].pc = "new"
      /\ req'[r].pc = to /\ req'[r].method = method /\ req'[r].from = req[r].from
           /\ req'[r].failed = req[r].failed
      /\ SameSlot(req'[r], req[r]) /\ SameAccount(req'[r], req[r]) /\ SameCall(req'[r], req[r])
      /\ SameCost(req'[r], req[r])
  BY <1>1, <1>2, <1>3, <1>5, <1>6, ArriveFacts, Zenon
<1>8. Sound(svc, req'[r]) BY <1>4, <1>7 DEF Typed, Sound, SameCall, Answered, Unsent
<1>9. Booked(svc, req'[r])
  <2>1. Booked(svc, req[r]) /\ Len(<<>>) = 0 /\ DOMAIN <<>> = {} BY DEF Typed
  <2> QED BY <1>4, <1>7, <2>1, Zenon DEF Booked, SameAccount, SameCost
<1>10. Typed' BY <1>3, <1>7, <1>8, <1>9, TypedStep, Zenon
<1> QED BY <1>3, <1>4, <1>7, <1>10, Zenon DEF SlotsSteady, ReplicasSteady, SameSlot, Free

\* What serveFromCache changes: the request alone.
LEMMA CacheEffect ==
  ASSUME Typed, NEW r \in Requests, serveFromCache(r)
  PROVE  /\ Changed(r) /\ Typed' /\ SlotsSteady(r) /\ ReplicasSteady(r)
         /\ req[r].pc = "cache" /\ req'[r].pc \in {"slot", "reserve", "done"}
              /\ SameAccount(req'[r], req[r])
         /\ UNCHANGED <<svc, used, safe, owed, cache>>
<1> DEFINE to == IF svc.concurrent > 0 THEN "slot" ELSE "reserve"
<1>1. ReqType BY Zenon DEF Typed
<1>2. UNCHANGED <<svc, slots, table, sweep, raced, used, safe, owed, up, cache>>
  BY Zenon DEF serveFromCache, concurrency, accounts
<1>3. Step(r, "cache", Answering(r, "done", 200)) \/ Step(r, "cache", To(r, to))
  BY Zenon DEF serveFromCache, Answering
<1>4. svc.concurrent \in Nat BY <1>1, ServiceSettings, Zenon DEF ReqType
<1>5. to \in {"slot", "reserve"} BY <1>4, Zenon
<1> HIDE DEF to
<1>6. to \in Labels /\ "done" \in Labels /\ 200 \in Int BY <1>5 DEF Labels
<1>7. /\ Changed(r) /\ req[r].pc = "cache" /\ req'[r].pc \in {"slot", "reserve", "done"}
      /\ SameAsk(req'[r], req[r]) /\ SameSlot(req'[r], req[r]) /\ SameAccount(req'[r], req[r])
      /\ SameCall(req'[r], req[r]) /\ SameCost(req'[r], req[r])
  <2>1. CASE Step(r, "cache", Answering(r, "done", 200)) BY <1>1, <1>6, <2>1, StatusFacts
  <2>2. CASE Step(r, "cache", To(r, to)) BY <1>1, <1>5, <1>6, <2>2, MoveFacts, Zenon
  <2> QED BY <1>3, <2>1, <2>2, Zenon
<1>8. Sound(svc, req'[r]) BY <1>7, Zenon DEF Typed, Sound, SameAsk, SameCall, Answered, Unsent
<1>9. ~req[r].aborted BY <1>7, Zenon DEF Typed, Booked
<1>10. Booked(svc, req'[r]) BY <1>7, <1>9, BookedKept, Zenon DEF SameCost
<1>11. Typed' BY <1>2, <1>7, <1>8, <1>10, TypedStep, Zenon
<1> QED BY <1>2, <1>7, <1>11, Zenon DEF SlotsSteady, ReplicasSteady, SameSlot, Free

\* What Concurrency.get changes: the request has the counter of the table, made if there is none.
LEMMA GetEffect ==
  ASSUME Typed, NEW r \in Requests, slots \in Seq(Int), table \in Nat, get(r)
  PROVE  /\ Changed(r) /\ Typed' /\ ReplicasSteady(r)
         /\ req[r].pc = "slot" /\ req'[r].pc = "acquire" /\ SameAccount(req'[r], req[r])
         /\ req'[r].slot = (IF table = 0 THEN Len(slots) + 1 ELSE table)
         /\ UNCHANGED <<svc, used, safe, owed, cache, sweep, raced>>
<1> DEFINE n == IF table = 0 THEN Len(slots) + 1 ELSE table
<1>1. ReqType /\ "acquire" \in Labels BY Zenon DEF Typed, Labels
<1>2. n \in Nat OBVIOUS
<1>3. Step(r, "slot", Slotted(r, "acquire", n))
        /\ UNCHANGED <<svc, used, safe, owed, up, cache, sweep, raced>>
  BY Zenon DEF get, Slotted, accounts
<1> HIDE DEF n
<1>4. /\ Changed(r) /\ req[r].pc = "slot" /\ req'[r].pc = "acquire" /\ req'[r].slot = n
      /\ SameAsk(req'[r], req[r]) /\ SameAccount(req'[r], req[r])
      /\ SameCall(req'[r], req[r]) /\ SameCost(req'[r], req[r])
  BY <1>1, <1>2, <1>3, SlotFacts, Zenon
<1>5. Sound(svc, req'[r]) BY <1>4, Zenon DEF Typed, Sound, SameAsk, SameCall, Answered, Unsent
<1>6. ~req[r].aborted BY <1>4, Zenon DEF Typed, Booked
<1>7. Booked(svc, req'[r]) BY <1>4, <1>6, BookedKept, Zenon DEF SameCost
<1>8. Typed' BY <1>3, <1>4, <1>5, <1>7, TypedStep, Zenon
<1> QED BY <1>3, <1>4, <1>8, Zenon DEF ReplicasSteady, n

\* What Concurrency.Acquire's increment changes: the request is over the cap or goes on.
LEMMA AcquireEffect ==
  ASSUME Typed, NEW r \in Requests, slots[req[r].slot] \in Int, Acquire(r)
  PROVE  /\ Changed(r) /\ Typed' /\ ReplicasSteady(r) /\ SameSlot(req'[r], req[r])
         /\ req[r].pc = "acquire" /\ SameAccount(req'[r], req[r])
         /\ req'[r].pc = (IF slots[req[r].slot] + 1 > svc.concurrent THEN "full" ELSE "reserve")
         /\ UNCHANGED <<svc, used, safe, owed, cache, table, sweep, raced>>
<1> DEFINE to == IF slots[req[r].slot] + 1 > svc.concurrent THEN "full" ELSE "reserve"
<1>1. ReqType BY Zenon DEF Typed
<1>2. to \in {"full", "reserve"} BY Zenon
<1>3. Step(r, "acquire", To(r, to)) /\ UNCHANGED <<svc, used, safe, owed, up, cache, table, sweep, raced>>
  BY Zenon DEF Acquire, accounts
<1> HIDE DEF to
<1>4. to \in Labels BY <1>2, Zenon DEF Labels
<1>5. /\ Changed(r) /\ req[r].pc = "acquire" /\ req'[r].pc = to /\ SameSlot(req'[r], req[r])
      /\ SameAsk(req'[r], req[r]) /\ SameAccount(req'[r], req[r])
      /\ SameCall(req'[r], req[r]) /\ SameCost(req'[r], req[r])
  BY <1>1, <1>3, <1>4, MoveFacts, Zenon
<1>6. Sound(svc, req'[r]) BY <1>2, <1>5, Zenon DEF Typed, Sound, SameAsk, SameCall, Answered, Unsent
<1>7. ~req[r].aborted BY <1>5, Zenon DEF Typed, Booked
<1>8. Booked(svc, req'[r]) BY <1>2, <1>5, <1>7, BookedKept, Zenon DEF SameCost
<1>9. Typed' BY <1>3, <1>5, <1>6, <1>8, TypedStep, Zenon
<1> QED BY <1>2, <1>3, <1>5, <1>9, Zenon DEF ReplicasSteady, to

\* What Concurrency.Acquire's refusal changes: the request has no counter and unwinds.
LEMMA FullEffect ==
  ASSUME Typed, NEW r \in Requests, AcquireFull(r)
  PROVE  /\ Changed(r) /\ Typed' /\ ReplicasSteady(r)
         /\ req[r].pc = "full" /\ req'[r].pc = "unwind" /\ req'[r].slot = 0 /\ SameAccount(req'[r], req[r])
         /\ UNCHANGED <<svc, used, safe, owed, cache, table, sweep, raced>>
<1>1. ReqType /\ "unwind" \in Labels /\ 429 \in Int /\ 0 \in Nat BY DEF Typed, Labels
<1>2. Step(r, "full", Refused(r, "unwind", 429, 0))
        /\ UNCHANGED <<svc, used, safe, owed, up, cache, table, sweep, raced>>
  BY Zenon DEF AcquireFull, Answer, Refused, accounts
<1>3. /\ Changed(r) /\ req[r].pc = "full" /\ req'[r].pc = "unwind" /\ req'[r].slot = 0
           /\ req'[r].status = 429
      /\ SameAsk(req'[r], req[r]) /\ SameAccount(req'[r], req[r])
      /\ SameCall(req'[r], req[r]) /\ SameCost(req'[r], req[r])
  BY <1>1, <1>2, FullFacts
<1>4. Sound(svc, req'[r]) BY <1>3 DEF Typed, Sound, SameAsk, SameCall, Answered, Unsent, cacheableStatus
<1>5. ~req[r].aborted BY <1>3, Zenon DEF Typed, Booked
<1>6. Booked(svc, req'[r]) BY <1>3, <1>5, BookedKept, Zenon DEF SameCost
<1>7. Typed' BY <1>2, <1>3, <1>4, <1>6, TypedStep
<1> QED BY <1>2, <1>3, <1>7, Zenon DEF ReplicasSteady

\* Where a check leaves a request: it has one more charge, or is rolled back.
Charged(r, at) ==
  /\ req'[r].pc \in {"pick", "reserve"}
  /\ req'[r].charged = Append(req[r].charged, [at |-> at, cost |-> Est(svc, req[r])])

\* What a check of the primary limiter changes: its count and the request's charge together, or
\* neither.
LEMMA PrimaryEffect ==
  ASSUME Typed, NEW r \in Requests, AllowPrimary(r)
  PROVE  /\ Changed(r) /\ Typed' /\ SlotsSteady(r) /\ ReplicasSteady(r)
         /\ req[r].pc = "reserve"
         /\ \/ Charged(r, "primary") /\ used' = [used EXCEPT ![req[r].i] = @ + Est(svc, req[r])]
            \/ (Charged(r, "none") \/ RolledBackTo(r)) /\ used' = used
         /\ UNCHANGED <<svc, safe, owed, cache>>
<1>1. req[r].pc = "reserve" BY Zenon DEF AllowPrimary, Step
<1>2. req[r].i \in DOMAIN svc.limits BY <1>1, LimitFacts DEF Typed, Booked, ReqType, ReqRec
<1>3. checks(r)[req[r].i].cost = Est(svc, req[r]) BY <1>2, EstFacts, Zenon
<1>4. UNCHANGED <<svc, safe, owed, cache, up, slots, table, sweep, raced>>
  BY Zenon DEF AllowPrimary, concurrency
<1>5. \/ Step(r, "reserve", Admit(r, "primary")) /\ used' = [used EXCEPT ![req[r].i] = @ + Est(svc, req[r])]
      \/ Step(r, "reserve", Refuse(r, 429)) /\ used' = used
  BY <1>3, Zenon DEF AllowPrimary
<1>6. CASE Step(r, "reserve", Admit(r, "primary"))
        /\ used' = [used EXCEPT ![req[r].i] = @ + Est(svc, req[r])]
  <2>1. Changed(r) /\ Sound(svc, req'[r]) /\ Booked(svc, req'[r]) /\ Charged(r, "primary")
          /\ SameSlot(req'[r], req[r])
    BY <1>1, <1>6, AdmitEffect, Zenon DEF Charged
  <2>2. Typed' BY <1>4, <2>1, TypedStep, Zenon
  <2> QED BY <1>1, <1>4, <1>6, <2>1, <2>2, Zenon DEF SlotsSteady, ReplicasSteady, Charged, SameSlot, Free
<1>7. CASE Step(r, "reserve", Refuse(r, 429)) /\ used' = used
  <2>1. Step(r, "reserve", Admit(r, "none")) \/ RolledBackTo(r) BY <1>1, <1>7, RefuseEffect
  <2>2. /\ Changed(r) /\ Sound(svc, req'[r]) /\ Booked(svc, req'[r]) /\ SameSlot(req'[r], req[r])
        /\ Charged(r, "none") \/ RolledBackTo(r)
    BY <1>1, <2>1, AdmitEffect, Zenon DEF Charged, RolledBackTo
  <2>3. Typed' BY <1>4, <2>2, TypedStep, Zenon
  <2> QED
    BY <1>1, <1>4, <1>7, <2>2, <2>3, Zenon
       DEF SlotsSteady, ReplicasSteady, Charged, RolledBackTo, SameSlot, Free
<1> QED BY <1>5, <1>6, <1>7, Zenon

\* What a failed check of the primary limiter changes: no count.
LEMMA FailsEffect ==
  ASSUME Typed, NEW r \in Requests, NEW rejected \in BOOLEAN, AllowFails(r, rejected)
  PROVE  /\ Changed(r) /\ Typed' /\ SlotsSteady(r) /\ ReplicasSteady(r)
         /\ req[r].pc = "reserve"
         /\ \/ req'[r].pc = "safety" /\ SameAccount(req'[r], req[r])
            \/ Charged(r, "none")
            \/ RolledBackTo(r)
         /\ UNCHANGED <<svc, used, safe, owed, cache>>
<1>1. req[r].pc = "reserve" BY Zenon DEF AllowFails, Step
<1>2. UNCHANGED <<svc, used, safe, owed, cache, up, slots, table, sweep, raced>>
  BY Zenon DEF AllowFails, concurrency, accounts
<1>3. \/ \E code \in {403, 429, 503} : Step(r, "reserve", Refuse(r, code))
      \/ Step(r, "reserve", To(r, "safety")) /\ svc.safety.on
  BY DEF AllowFails
<1>4. ASSUME NEW code \in {403, 429, 503}, Step(r, "reserve", Refuse(r, code))
      PROVE  /\ Changed(r) /\ Typed' /\ SlotsSteady(r) /\ ReplicasSteady(r)
             /\ Charged(r, "none") \/ RolledBackTo(r)
  <2>1. Step(r, "reserve", Admit(r, "none")) \/ RolledBackTo(r) BY <1>1, <1>4, RefuseEffect
  <2>2. /\ Changed(r) /\ Sound(svc, req'[r]) /\ Booked(svc, req'[r]) /\ SameSlot(req'[r], req[r])
        /\ Charged(r, "none") \/ RolledBackTo(r)
    BY <1>1, <2>1, AdmitEffect, Zenon DEF Charged, RolledBackTo
  <2>3. Typed' BY <1>2, <2>2, TypedStep, Zenon
  <2> QED BY <1>1, <1>2, <2>2, <2>3 DEF SlotsSteady, ReplicasSteady, Charged, RolledBackTo, SameSlot, Free
<1>5. CASE Step(r, "reserve", To(r, "safety")) /\ svc.safety.on
  <2>1. ReqType /\ "safety" \in Labels BY Zenon DEF Typed, Labels
  <2>2. /\ Changed(r) /\ req'[r].pc = "safety"
        /\ SameAsk(req'[r], req[r]) /\ SameSlot(req'[r], req[r]) /\ SameAccount(req'[r], req[r])
        /\ SameCall(req'[r], req[r]) /\ SameCost(req'[r], req[r])
    BY <1>5, <2>1, MoveFacts, Zenon
  <2>3. Sound(svc, req'[r]) BY <1>1, <2>2, Zenon DEF Typed, Sound, SameAsk, SameCall, Answered, Unsent
  <2>4. Est(svc, req'[r]) = Est(svc, req[r]) BY <2>2, Zenon DEF Est, SameAsk
  <2>5. Booked(svc, req'[r]) BY <1>1, <1>5, <2>2, <2>4 DEF Typed, Booked, SameAccount, SameCost
  <2>6. Typed' BY <1>2, <2>2, <2>3, <2>5, TypedStep, Zenon
  <2> QED BY <1>1, <1>2, <2>2, <2>6, Zenon DEF SlotsSteady, ReplicasSteady, SameSlot, Free
<1> QED BY <1>1, <1>2, <1>3, <1>4, <1>5

\* What a check of the safety limiter changes: its count, and the charge or the duty to take it back.
LEMMA LocalEffect ==
  ASSUME Typed, NEW r \in Requests, AllowLocal(r)
  PROVE  /\ Changed(r) /\ Typed' /\ SlotsSteady(r) /\ ReplicasSteady(r)
         /\ req[r].pc = "safety" /\ svc.safety.on
         /\ \/ /\ req'[r].pc = "undo" /\ SameAccount(req'[r], req[r])
               /\ Est(svc, req'[r]) = Est(svc, req[r])
            \/ Charged(r, "safety")
         /\ safe' = [safe EXCEPT ![req[r].i] = @ + safetyRule(r, req[r].i).cost]
         /\ UNCHANGED <<svc, used, owed, cache>>
<1>1. req[r].pc = "safety" BY Zenon DEF AllowLocal, Step
<1>2. svc.safety.on BY <1>1, Zenon DEF Typed, Booked
<1>3. /\ UNCHANGED <<svc, used, owed, cache, up, slots, table, sweep, raced>>
      /\ safe' = [safe EXCEPT ![req[r].i] = @ + safetyRule(r, req[r].i).cost]
  BY Zenon DEF AllowLocal, concurrency
<1>4. Step(r, "safety", Admit(r, "safety")) \/ Step(r, "safety", To(r, "undo")) BY Zenon DEF AllowLocal
<1>5. CASE Step(r, "safety", Admit(r, "safety"))
  <2>1. Changed(r) /\ Sound(svc, req'[r]) /\ Booked(svc, req'[r]) /\ Charged(r, "safety")
          /\ SameSlot(req'[r], req[r])
    BY <1>1, <1>2, <1>5, AdmitEffect, Zenon DEF Charged
  <2>2. Typed' BY <1>3, <2>1, TypedStep, Zenon
  <2> QED BY <1>1, <1>2, <1>3, <2>1, <2>2, Zenon DEF SlotsSteady, ReplicasSteady, Charged, SameSlot, Free
<1>6. CASE Step(r, "safety", To(r, "undo"))
  <2>1. ReqType /\ "undo" \in Labels BY Zenon DEF Typed, Labels
  <2>2. /\ Changed(r) /\ req'[r].pc = "undo"
        /\ SameAsk(req'[r], req[r]) /\ SameSlot(req'[r], req[r]) /\ SameAccount(req'[r], req[r])
        /\ SameCall(req'[r], req[r]) /\ SameCost(req'[r], req[r])
    BY <1>6, <2>1, MoveFacts, Zenon
  <2>3. Sound(svc, req'[r]) BY <1>1, <2>2, Zenon DEF Typed, Sound, SameAsk, SameCall, Answered, Unsent
  <2>4. Est(svc, req'[r]) = Est(svc, req[r]) BY <2>2, Zenon DEF Est, SameAsk
  <2>5. Booked(svc, req'[r]) BY <1>1, <2>2, <2>4 DEF Typed, Booked, SameAccount, SameCost
  <2>6. Typed' BY <1>3, <2>2, <2>3, <2>5, TypedStep, Zenon
  <2> QED BY <1>1, <1>2, <1>3, <2>2, <2>4, <2>6, Zenon DEF SlotsSteady, ReplicasSteady, SameSlot, Free
<1> QED BY <1>4, <1>5, <1>6, Zenon

\* What taking back a refused check of the safety limiter changes: its count.
LEMMA UndoEffect ==
  ASSUME Typed, NEW r \in Requests, AllowLocalUndo(r)
  PROVE  /\ Changed(r) /\ Typed' /\ SlotsSteady(r) /\ ReplicasSteady(r)
         /\ req[r].pc = "undo" /\ svc.safety.on
         /\ Charged(r, "none") \/ RolledBackTo(r)
         /\ safe' = [safe EXCEPT ![req[r].i] = @ - safetyRule(r, req[r].i).cost]
         /\ UNCHANGED <<svc, used, owed, cache>>
<1>1. req[r].pc = "undo" BY Zenon DEF AllowLocalUndo, Step
<1>2. svc.safety.on BY <1>1, Zenon DEF Typed, Booked
<1>3. /\ UNCHANGED <<svc, used, owed, cache, up, slots, table, sweep, raced>>
      /\ safe' = [safe EXCEPT ![req[r].i] = @ - safetyRule(r, req[r].i).cost]
      /\ Step(r, "undo", Refuse(r, 429))
  BY Zenon DEF AllowLocalUndo, concurrency
<1>4. Step(r, "undo", Admit(r, "none")) \/ RolledBackTo(r) BY <1>1, <1>3, RefuseEffect
<1>5. /\ Changed(r) /\ Sound(svc, req'[r]) /\ Booked(svc, req'[r]) /\ SameSlot(req'[r], req[r])
      /\ Charged(r, "none") \/ RolledBackTo(r)
  BY <1>1, <1>4, AdmitEffect, Zenon DEF Charged, RolledBackTo
<1>6. Typed' BY <1>3, <1>5, TypedStep, Zenon
<1> QED
  BY <1>1, <1>2, <1>3, <1>5, <1>6, Zenon
     DEF SlotsSteady, ReplicasSteady, Charged, RolledBackTo, SameSlot, Free

\* One adjustment is made, or all have been.
Adjusts(r, a) ==
  /\ a \in req[r].todo /\ req'[r].todo = req[r].todo \ {a} /\ req'[r].pc = "adjust"
  /\ used' = IF a.at = "primary" THEN [used EXCEPT ![a.i] = @ + a.delta] ELSE used
  /\ safe' = IF a.at = "safety" THEN [safe EXCEPT ![a.i] = @ + a.delta] ELSE safe

\* What one adjustment of a rollback or a settlement changes: one limiter's count and the request's
\* duty.
LEMMA AdjustEffect ==
  ASSUME Typed, NEW r \in Requests, Adjust(r)
  PROVE  /\ Changed(r) /\ Typed' /\ SlotsSteady(r) /\ ReplicasSteady(r)
         /\ req[r].pc = "adjust"
         /\ SameCost(req'[r], req[r]) /\ SameResponse(req'[r], req[r]) /\ req'[r].charged = req[r].charged
         /\ \/ req[r].todo = {} /\ req'[r].pc = "unwind" /\ UNCHANGED <<used, safe>>
            \/ \E a \in Adjustment : Adjusts(r, a)
         /\ UNCHANGED <<svc, owed, cache>>
<1>1. req[r].pc = "adjust" BY Zenon DEF Adjust, Step
<1>2. UNCHANGED <<svc, owed, cache, up, slots, table, sweep, raced>> BY Zenon DEF Adjust, concurrency
<1>3. ReqType /\ req[r] \in ReqRec /\ Sound(svc, req[r]) /\ Booked(svc, req[r]) BY Zenon DEF Typed, ReqType
<1>4. req[r].after = "unwind" /\ Distinct(svc, req[r].todo) BY <1>1, <1>3, Zenon DEF Sound, Booked
<1>5. CASE req[r].todo = {}
  <2>1. Step(r, "adjust", To(r, "unwind")) /\ UNCHANGED <<used, safe>> BY <1>4, <1>5, Zenon DEF Adjust
  <2>2. "unwind" \in Labels BY Zenon DEF Labels
  <2>3. /\ Changed(r) /\ req'[r].pc = "unwind" /\ SameResponse(req'[r], req[r])
        /\ SameAsk(req'[r], req[r]) /\ SameSlot(req'[r], req[r]) /\ SameAccount(req'[r], req[r])
        /\ SameCall(req'[r], req[r]) /\ SameCost(req'[r], req[r])
    BY <1>3, <2>1, <2>2, MoveFacts, Zenon
  <2>4. Sound(svc, req'[r])
    BY <1>1, <1>3, <2>3, Zenon DEF Sound, SameAsk, SameCall, SameResponse, Answered, Unsent
  <2>5. ~req'[r].aborted BY <1>1, <1>3, <2>3, Zenon DEF Booked, SameCost
  <2>6. Booked(svc, req'[r]) BY <2>3, <2>5, BookedKept, Zenon
  <2>7. Typed' BY <1>2, <2>3, <2>4, <2>6, TypedStep, Zenon
  <2> QED
    BY <1>1, <1>2, <1>5, <2>1, <2>3, <2>7, Zenon
       DEF SlotsSteady, ReplicasSteady, SameSlot, SameAccount, Free
<1>6. CASE req[r].todo # {}
  <2> DEFINE least(a) == \A b \in req[r].todo : a.i <= b.i
  <2>1. PICK a : a = CHOOSE b \in req[r].todo : least(b) BY Zenon
  <2>2. \E b \in req[r].todo : least(b)
    <3> DEFINE T == {b.i : b \in req[r].todo}
    <3>1. \A b \in req[r].todo : b.i \in Nat BY <1>3, Zenon DEF ReqRec, Adjustment
    <3>2. T \subseteq Nat /\ T # {} BY <1>6, <3>1, Zenon
    <3>3. PICK x \in T : \A y \in T : x <= y BY <3>2, LeastNat, Zenon
    <3>4. PICK b \in req[r].todo : b.i = x BY <3>3, Zenon
    <3> QED BY <3>3, <3>4, Zenon
  <2>3. a \in req[r].todo BY <2>1, <2>2, Zenon
  <2>4. /\ Step(r, "adjust", Adjusted(r, req[r].todo \ {a}))
        /\ used' = IF a.at = "primary" THEN [used EXCEPT ![a.i] = @ + a.delta] ELSE used
        /\ safe' = IF a.at = "safety" THEN [safe EXCEPT ![a.i] = @ + a.delta] ELSE safe
    BY <1>6, <2>1, Zenon DEF Adjust, Adjusted
  <2>5. a \in Adjustment /\ req[r].todo \ {a} \in SUBSET Adjustment BY <1>3, <2>3, Zenon DEF ReqRec
  <2> HIDE DEF least
  <2>6. PICK todo : todo = req[r].todo \ {a} BY Zenon
  <2>7. /\ Changed(r) /\ req'[r].pc = req[r].pc /\ SameResponse(req'[r], req[r])
        /\ req'[r].todo = todo /\ req'[r].after = req[r].after /\ req'[r].charged = req[r].charged
        /\ SameAsk(req'[r], req[r]) /\ SameSlot(req'[r], req[r])
        /\ SameCall(req'[r], req[r]) /\ SameCost(req'[r], req[r])
    BY <1>3, <2>4, <2>5, <2>6, TodoFacts, Zenon
  <2>8. Sound(svc, req'[r])
    BY <1>1, <1>3, <2>7, Zenon DEF Sound, SameAsk, SameCall, SameResponse, Answered, Unsent
  <2>9. Distinct(svc, todo) BY <1>4, <2>6, Zenon DEF Distinct
  <2>10. Est(svc, req'[r]) = Est(svc, req[r]) BY <2>7, Zenon DEF Est, SameAsk
  <2>11. Booked(svc, req'[r]) BY <1>1, <1>3, <2>7, <2>9, <2>10, Zenon DEF Booked, SameCost
  <2>12. Typed' BY <1>2, <2>7, <2>8, <2>11, TypedStep, Zenon
  <2>13. Adjusts(r, a) BY <1>1, <2>3, <2>4, <2>6, <2>7, Zenon DEF Adjusts
  <2> QED BY <1>1, <1>2, <2>5, <2>7, <2>12, <2>13, Zenon DEF SlotsSteady, ReplicasSteady, SameSlot, Free
<1> QED BY <1>5, <1>6, Zenon

\* A proxy error sends a request to its settlement with its slot and charges as they were (proxyError).
LEMMA ErrorEffect ==
  ASSUME Typed, NEW r \in Requests, NEW why \in {"large", "gone", "timeout", "circuit", "error"},
         req[r].pc \in {"pick", "try", "backoff"}, NEW from, Step(r, from, proxyError(r, why))
  PROVE  /\ Changed(r) /\ Sound(svc, req'[r]) /\ Booked(svc, req'[r]) /\ req[r].pc = from
         /\ req'[r].pc = "settle" /\ SameSlot(req'[r], req[r]) /\ SameAccount(req'[r], req[r])
<1> DEFINE code == CASE why = "large" -> 413
                 [] why = "gone" -> 0
                 [] why \notin {"large", "gone"} /\ svc.failOpen -> 200
                 [] why = "timeout" /\ ~svc.failOpen -> 504
                 [] why = "circuit" /\ ~svc.failOpen -> 503
                 [] why = "error" /\ ~svc.failOpen -> 502
           yes == TRUE
           to == "settle"
           t == NoTarget
<1>1. code \in Int
  <2>1. CASE why = "large" BY <2>1
  <2>2. CASE why = "gone" BY <2>2
  <2>3. CASE why \notin {"large", "gone"} /\ svc.failOpen BY <2>3
  <2>4. CASE why \notin {"large", "gone"} /\ ~svc.failOpen BY <2>4
  <2> QED BY <2>1, <2>2, <2>3, <2>4, Zenon
<1>2. Step(r, from, Failed(r, yes, t, to, code)) BY Zenon DEF proxyError, Failed
<1>3. ReqType /\ yes \in BOOLEAN /\ t \in Replicas \cup {NoTarget} /\ to \in Labels /\ yes = TRUE
        /\ to = "settle"
  BY Zenon DEF Typed, Labels
<1> HIDE DEF code, yes, t, to
<1>4. /\ Changed(r) /\ req[r].pc = from /\ req'[r].pc = to /\ req'[r].failed = yes
           /\ req'[r].sent = req[r].sent
      /\ SameAsk(req'[r], req[r]) /\ SameSlot(req'[r], req[r]) /\ SameAccount(req'[r], req[r])
      /\ SameCost(req'[r], req[r])
  BY <1>1, <1>2, <1>3, ErrorFacts, Zenon
<1>5. Sound(svc, req'[r]) BY <1>3, <1>4, Zenon DEF Typed, Sound, SameAsk, Answered, Unsent
<1>6. ~req[r].aborted BY Zenon DEF Typed, Booked
<1>7. Booked(svc, req'[r]) BY <1>3, <1>4, <1>6, BookedKept, Zenon DEF SameCost
<1> QED BY <1>3, <1>4, <1>5, <1>7, Zenon

\* A pool picks replicas of its own (pool.pick).
LEMMA PickFacts ==
  ASSUME NEW avoid
  PROVE  pick(avoid) \subseteq Replicas
<1> DEFINE healthy == {t \in Replicas : ~up[t].open}
           others == IF Cardinality(Replicas) > 1 THEN healthy \ {avoid} ELSE healthy
<1>1. healthy \subseteq Replicas /\ others \subseteq Replicas BY Zenon
<1>2. \/ pick(avoid) = healthy \cap {avoid}
      \/ pick(avoid) = {t \in others : \A u \in others : up[t].inflight <= up[u].inflight}
      \/ pick(avoid) = others
  BY Zenon DEF pick
<1> HIDE DEF healthy, others
<1> QED BY <1>1, <1>2, Zenon

\* A request that goes to a replica, or whose upstream has failed.
Passed(r) ==
  /\ Changed(r) /\ Typed' /\ SlotsSteady(r) /\ ReplicasSteady(r)
  /\ req[r].pc \in {"pick", "backoff"} /\ req'[r].pc \in {"send", "settle"} /\ SameAccount(req'[r], req[r])
  /\ UNCHANGED <<svc, used, safe, owed, cache>>

\* What ServeHTTP's call of the proxy changes: the request alone.
LEMMA ForwardEffect ==
  ASSUME Typed, NEW r \in Requests, NEW large \in BOOLEAN, forward(r, large)
  PROVE  Passed(r)
<1>1. req[r].pc = "pick" /\ UNCHANGED <<svc, used, safe, owed, cache, up, slots, table, sweep, raced>>
  BY Zenon DEF forward, concurrency, accounts
<1>2. ReqType /\ "settle" \in Labels /\ "send" \in Labels /\ 413 \in Int BY DEF Typed, Labels
<1>3. \/ \E why \in {"gone", "circuit"} : Step(r, "pick", proxyError(r, why))
      \/ \E t \in Replicas : Step(r, "pick", TooLarge(r, 413, "settle", t))
      \/ \E t \in Replicas : Step(r, "pick", Chosen(r, large, "send", t))
  <2>1. \/ Picked(r, [req[r] EXCEPT !.status = 413, !.pc = "settle"])
        \/ Picked(r, [req[r] EXCEPT !.large = large, !.pc = "send"])
    BY Zenon DEF forward
  <2>2. pick(req[r].target) \subseteq Replicas BY PickFacts, Zenon
  <2> QED BY <1>1, <2>1, <2>2, Zenon DEF Picked, TooLarge, Chosen
<1>4. /\ Changed(r) /\ Sound(svc, req'[r]) /\ Booked(svc, req'[r]) /\ req'[r].pc \in {"send", "settle"}
      /\ SameSlot(req'[r], req[r]) /\ SameAccount(req'[r], req[r])
  <2>1. CASE \E why \in {"gone", "circuit"} : Step(r, "pick", proxyError(r, why))
    <3>1. PICK why \in {"gone", "circuit"} : Step(r, "pick", proxyError(r, why)) BY <2>1, Zenon
    <3> QED BY <1>1, <3>1, ErrorEffect, Zenon
  <2>2. ~req[r].aborted /\ Sound(svc, req[r]) BY <1>1, Zenon DEF Typed, Booked
  <2>3. CASE \E t \in Replicas : Step(r, "pick", TooLarge(r, 413, "settle", t))
    <3>0. PICK t \in Replicas : Step(r, "pick", TooLarge(r, 413, "settle", t)) BY <2>3, Zenon
    <3>1. t \in Replicas \cup {NoTarget} BY Zenon
    <3>2. /\ Changed(r) /\ req'[r].pc = "settle" /\ req'[r].status = 413 /\ req'[r].sent = req[r].sent
          /\ SameAsk(req'[r], req[r]) /\ SameSlot(req'[r], req[r]) /\ SameAccount(req'[r], req[r])
          /\ SameCost(req'[r], req[r])
      BY <1>2, <3>0, <3>1, LargeFacts
    <3>3. Sound(svc, req'[r]) BY <1>1, <2>2, <3>2 DEF Sound, SameAsk, Answered, Unsent, cacheableStatus
    <3>4. Booked(svc, req'[r]) BY <2>2, <3>2, BookedKept, Zenon DEF SameCost
    <3> QED BY <3>2, <3>3, <3>4, Zenon
  <2>4. CASE \E t \in Replicas : Step(r, "pick", Chosen(r, large, "send", t))
    <3>0. PICK t \in Replicas : Step(r, "pick", Chosen(r, large, "send", t)) BY <2>4, Zenon
    <3>1. t \in Replicas \cup {NoTarget} BY Zenon
    <3>2. /\ Changed(r) /\ req'[r].pc = "send" /\ req'[r].target = t /\ req'[r].sent = req[r].sent
          /\ SameAsk(req'[r], req[r]) /\ SameSlot(req'[r], req[r]) /\ SameAccount(req'[r], req[r])
          /\ SameCost(req'[r], req[r])
      BY <1>2, <3>0, <3>1, SendFacts
    <3>3. Sound(svc, req'[r]) BY <1>1, <2>2, <3>2, Zenon DEF Sound, SameAsk, Answered, Unsent
    <3>4. Booked(svc, req'[r]) BY <2>2, <3>2, BookedKept, Zenon DEF SameCost
    <3> QED BY <3>2, <3>3, <3>4, Zenon
  <2> QED BY <1>3, <2>1, <2>3, <2>4, Zenon
<1>5. Typed' BY <1>1, <1>4, TypedStep, Zenon
<1> QED BY <1>1, <1>4, <1>5, Zenon DEF Passed, SlotsSteady, ReplicasSteady, SameSlot, Free

\* What the end of a retry's wait changes: the request alone.
LEMMA BackoffEffect ==
  ASSUME Typed, NEW r \in Requests, NEW end \in {"slept", "gone", "timeout"}, Backoff(r, end)
  PROVE  Passed(r)
<1>1. req[r].pc = "backoff" /\ UNCHANGED <<svc, used, safe, owed, cache, up, slots, table, sweep, raced>>
  BY Zenon DEF Backoff, concurrency, accounts
<1>2. ReqType /\ "send" \in Labels BY Zenon DEF Typed, Labels
<1>3. \/ \E why \in {"gone", "circuit", "timeout"} : Step(r, "backoff", proxyError(r, why))
      \/ \E t \in Replicas : Step(r, "backoff", ChosenAgain(r, "send", t))
  <2>1. pick(req[r].target) \subseteq Replicas BY PickFacts, Zenon
  <2>2. CASE end = "slept" BY <1>1, <2>1, <2>2, Zenon DEF Backoff, Picked, ChosenAgain
  <2>3. CASE end # "slept" BY <2>3, Zenon DEF Backoff
  <2> QED BY <2>2, <2>3, Zenon
<1>4. /\ Changed(r) /\ Sound(svc, req'[r]) /\ Booked(svc, req'[r]) /\ req'[r].pc \in {"send", "settle"}
      /\ SameSlot(req'[r], req[r]) /\ SameAccount(req'[r], req[r])
  <2>1. CASE \E why \in {"gone", "circuit", "timeout"} : Step(r, "backoff", proxyError(r, why))
    <3>1. PICK why \in {"gone", "circuit", "timeout"} : Step(r, "backoff", proxyError(r, why))
      BY <2>1, Zenon
    <3> QED BY <1>1, <3>1, ErrorEffect, Zenon
  <2>2. ~req[r].aborted /\ Sound(svc, req[r]) BY <1>1, Zenon DEF Typed, Booked
  <2>3. CASE \E t \in Replicas : Step(r, "backoff", ChosenAgain(r, "send", t))
    <3>0. PICK t \in Replicas : Step(r, "backoff", ChosenAgain(r, "send", t)) BY <2>3, Zenon
    <3>1. t \in Replicas \cup {NoTarget} BY Zenon
    <3>2. /\ Changed(r) /\ req'[r].pc = "send" /\ req'[r].target = t /\ req'[r].sent = req[r].sent
          /\ SameAsk(req'[r], req[r]) /\ SameSlot(req'[r], req[r]) /\ SameAccount(req'[r], req[r])
          /\ SameCost(req'[r], req[r])
      BY <1>2, <3>0, <3>1, AgainFacts, Zenon
    <3>3. Sound(svc, req'[r]) BY <1>1, <2>2, <3>2, Zenon DEF Sound, SameAsk, Answered, Unsent
    <3>4. Booked(svc, req'[r]) BY <2>2, <3>2, BookedKept, Zenon DEF SameCost
    <3> QED BY <3>2, <3>3, <3>4, Zenon
  <2> QED BY <1>3, <2>1, <2>3, Zenon
<1>5. Typed' BY <1>1, <1>4, TypedStep, Zenon
<1> QED BY <1>1, <1>4, <1>5, Zenon DEF Passed, SlotsSteady, ReplicasSteady, SameSlot, Free

\* An attempt begins, ends or fails; its charges stand.
Called(r) ==
  /\ Changed(r) /\ Typed' /\ SlotsSteady(r) /\ SameAccount(req'[r], req[r])
  /\ UNCHANGED <<svc, used, safe, owed, cache>>

\* What the start of an attempt changes: the replica has one more in flight (RoundTrip).
LEMMA StartEffect ==
  ASSUME Typed, NEW r \in Requests, StartAttempt(r)
  PROVE  /\ Called(r) /\ req[r].pc = "send" /\ req'[r].pc = "try"
         /\ req[r].target \in Replicas /\ req'[r].target = req[r].target
         /\ up' = [up EXCEPT ![req[r].target].inflight = @ + 1]
<1> DEFINE n == req[r].sent + 1
<1>1. ReqType /\ "try" \in Labels BY Zenon DEF Typed, Labels
<1>2. req[r].sent \in Nat /\ n \in Nat BY <1>1 DEF ReqType, ReqRec
<1>3. /\ Step(r, "send", Trying(r, "try", n))
           /\ UNCHANGED <<svc, used, safe, owed, cache, slots, table, sweep, raced>>
      /\ up' = [up EXCEPT ![req[r].target].inflight = @ + 1]
  <2>1. To(r, "try").sent = req[r].sent BY <1>1, Zenon DEF To, ReqType, ReqRec
  <2> QED BY <2>1, Zenon DEF StartAttempt, Trying, concurrency, accounts
<1>4. n > 0 /\ (req[r].sent = 0 => n = 1) BY <1>2
<1> HIDE DEF n
<1>5. /\ Changed(r) /\ req[r].pc = "send" /\ req'[r].pc = "try" /\ req'[r].target = req[r].target
           /\ req'[r].sent = n
      /\ SameAsk(req'[r], req[r]) /\ SameSlot(req'[r], req[r]) /\ SameAccount(req'[r], req[r])
      /\ SameCost(req'[r], req[r])
  BY <1>1, <1>2, <1>3, TryFacts, Zenon
<1>6. Sound(svc, req[r]) /\ ~req[r].aborted BY <1>5, Zenon DEF Typed, Booked
<1>7. req[r].target \in Replicas BY <1>5, <1>6, Zenon DEF Sound
<1>8. Sound(svc, req'[r]) BY <1>4, <1>5, <1>6 DEF Sound, SameAsk, Answered, Unsent
<1>9. Booked(svc, req'[r]) BY <1>5, <1>6, BookedKept, Zenon DEF SameCost
<1>10. Typed' BY <1>3, <1>5, <1>8, <1>9, TypedStep, Zenon
<1> QED BY <1>3, <1>5, <1>7, <1>10, Zenon DEF Called, SlotsSteady, SameSlot, Free

\* What the response of an attempt changes: the replica's report, and its count if the connection is
\* taken over.
LEMMA EndEffect ==
  ASSUME Typed, NEW r \in Requests, NEW code \in {101, 200, 500}, EndAttempt(r, code)
  PROVE  /\ Called(r) /\ req[r].pc = "try" /\ req'[r].pc = "body" /\ req[r].target \in Replicas
         /\ req'[r].target = (IF code = 101 THEN NoTarget ELSE req[r].target)
         /\ LET u == report(up[req[r].target], code < 500)
            IN  up' = [up EXCEPT ![req[r].target] = IF code = 101 THEN Released(u) ELSE u]
<1> DEFINE t == IF code = 101 THEN NoTarget ELSE req[r].target
           p == req[r]
           q == [p EXCEPT !.status = code, !.from = "upstream", !.pc = "body"]
<1>1. ReqType /\ "body" \in Labels /\ "upstream" \in Origins /\ code \in Int BY DEF Typed, Labels, Origins
<1>2. p \in ReqRec BY <1>1 DEF ReqType
<1>3. t \in Replicas \cup {NoTarget} BY <1>2, Zenon DEF ReqRec
<1>4. /\ Step(r, "try", IF code = 101 THEN [q EXCEPT !.target = NoTarget] ELSE q)
      /\ UNCHANGED <<svc, used, safe, owed, cache, slots, table, sweep, raced>>
      /\ LET u == report(up[req[r].target], code < 500)
         IN  up' = [up EXCEPT ![req[r].target] = IF code = 101 THEN Released(u) ELSE u]
  BY Zenon DEF EndAttempt, concurrency, accounts
<1>5. q = [q EXCEPT !.target = req[r].target]
  <2> HIDE DEF p
  <2>1. q = [q EXCEPT !.target = p.target] BY <1>2, Zenon DEF ReqRec
  <2> QED BY <2>1, Zenon DEF p
<1>6. Step(r, "try", Responded(r, code, "upstream", "body", t)) BY <1>4, <1>5, Zenon DEF Responded
<1> HIDE DEF t, q, p
<1>7. /\ Changed(r) /\ req[r].pc = "try" /\ req'[r].pc = "body" /\ req'[r].target = t
           /\ req'[r].sent = req[r].sent
      /\ req'[r].from = "upstream"
      /\ SameAsk(req'[r], req[r]) /\ SameSlot(req'[r], req[r]) /\ SameAccount(req'[r], req[r])
      /\ SameCost(req'[r], req[r])
  BY <1>1, <1>3, <1>6, BodyFacts
<1>8. Sound(svc, req[r]) /\ ~req[r].aborted BY <1>7, Zenon DEF Typed, Booked
<1>9. req[r].target \in Replicas BY <1>7, <1>8, Zenon DEF Sound
<1>10. Sound(svc, req'[r]) BY <1>7, <1>8, Zenon DEF Sound, SameAsk, Answered, Unsent
<1>11. Booked(svc, req'[r]) BY <1>7, <1>8, BookedKept, Zenon DEF SameCost
<1>12. Typed' BY <1>4, <1>7, <1>10, <1>11, TypedStep, Zenon
<1> QED BY <1>4, <1>7, <1>9, <1>12, Zenon DEF Called, SlotsSteady, SameSlot, Free, t

\* What a failed attempt changes: the replica's report and its count (RoundTrip).
LEMMA FailEffect ==
  ASSUME Typed, NEW r \in Requests, NEW why \in {"large", "gone", "timeout", "error"}, FailAttempt(r, why)
  PROVE  /\ Called(r) /\ req[r].pc = "try" /\ req'[r].pc \in {"backoff", "settle"}
           /\ req[r].target \in Replicas
         /\ up' = [up EXCEPT ![req[r].target] = Released(report(@, FALSE))]
<1>1. /\ req[r].pc = "try" /\ UNCHANGED <<svc, used, safe, owed, cache, slots, table, sweep, raced>>
      /\ up' = [up EXCEPT ![req[r].target] = Released(report(@, FALSE))]
  BY Zenon DEF FailAttempt, Step, concurrency, accounts
<1>2. ReqType /\ "backoff" \in Labels BY Zenon DEF Typed, Labels
<1>3. req[r].sent \in Nat /\ req[r].method \in Methods BY <1>2, Zenon DEF ReqType, ReqRec
<1>4. Sound(svc, req[r]) /\ ~req[r].aborted BY <1>1, Zenon DEF Typed, Booked
<1>5. req[r].target \in Replicas /\ req[r].sent >= 1 BY <1>1, <1>3, <1>4 DEF Sound
<1>6. req[r].method = "POST" /\ ~svc.nonIdempotent => req[r].sent >= Attempts(r)
  BY <1>5 DEF Attempts, retryable, Idempotent
<1>7. \/ Step(r, "try", proxyError(r, why))
      \/ Step(r, "try", Waiting(r, "backoff", why = "gone"))
           /\ ~(req[r].method = "POST" /\ ~svc.nonIdempotent)
  BY <1>6, Zenon DEF FailAttempt, Waiting
<1>8. /\ Changed(r) /\ Sound(svc, req'[r]) /\ Booked(svc, req'[r]) /\ req'[r].pc \in {"backoff", "settle"}
      /\ SameSlot(req'[r], req[r]) /\ SameAccount(req'[r], req[r])
  <2>1. CASE Step(r, "try", proxyError(r, why)) BY <1>1, <2>1, ErrorEffect, Zenon
  <2>2. CASE Step(r, "try", Waiting(r, "backoff", why = "gone"))
          /\ ~(req[r].method = "POST" /\ ~svc.nonIdempotent)
    <3>1. PICK b \in BOOLEAN : b = (why = "gone") BY Zenon
    <3>2. Step(r, "try", Waiting(r, "backoff", b)) BY <2>2, <3>1, Zenon
    <3>3. /\ Changed(r) /\ req'[r].pc = "backoff"
          /\ SameAsk(req'[r], req[r]) /\ SameSlot(req'[r], req[r]) /\ SameAccount(req'[r], req[r])
          /\ SameCall(req'[r], req[r]) /\ SameCost(req'[r], req[r])
      BY <1>2, <3>2, BackoffFacts, Zenon
    <3>4. Sound(svc, req'[r])
      BY <1>1, <1>4, <2>2, <3>3, Zenon DEF Sound, SameAsk, SameCall, Answered, Unsent
    <3>5. Booked(svc, req'[r]) BY <1>4, <3>3, BookedKept, Zenon DEF SameCost
    <3> QED BY <3>3, <3>4, <3>5, Zenon
  <2> QED BY <1>7, <2>1, <2>2, Zenon
<1>9. Typed' BY <1>1, <1>8, TypedStep, Zenon
<1> QED BY <1>1, <1>5, <1>8, <1>9, Zenon DEF Called, SlotsSteady, SameSlot, Free

\* What closing a response's body changes: the replica has one less in flight unless it was let go
\* before.
LEMMA CloseEffect ==
  ASSUME Typed, NEW r \in Requests, NEW actual \in {-1, 0, 2}, NEW broke \in BOOLEAN,
         CloseBody(r, actual, broke)
  PROVE  /\ Called(r) /\ req[r].pc = "body"
         /\ req'[r].pc = "settle" \/ (req'[r].pc = "unwind" /\ req'[r].aborted)
         /\ up' = IF req[r].target = NoTarget THEN up ELSE [up EXCEPT ![req[r].target] = Released(@)]
<1> DEFINE to == IF broke THEN "unwind" ELSE "settle"
<1>1. ReqType /\ actual \in Int /\ NoTarget \in Replicas \cup {NoTarget} BY DEF Typed
<1>2. to \in {"unwind", "settle"} /\ (broke <=> to = "unwind") BY Zenon
<1>3. /\ Step(r, "body", Closed(r, to, actual, broke, NoTarget))
      /\ UNCHANGED <<svc, used, safe, owed, cache, slots, table, sweep, raced>>
      /\ up' = IF req[r].target = NoTarget THEN up ELSE [up EXCEPT ![req[r].target] = Released(@)]
  BY Zenon DEF CloseBody, Closed, concurrency, accounts
<1> HIDE DEF to
<1>4. to \in Labels BY <1>2, Zenon DEF Labels
<1>5. /\ Changed(r) /\ req[r].pc = "body" /\ req'[r].pc = to /\ req'[r].aborted = broke
           /\ req'[r].sent = req[r].sent
      /\ SameAsk(req'[r], req[r]) /\ SameSlot(req'[r], req[r]) /\ SameAccount(req'[r], req[r])
      /\ SameResponse(req'[r], req[r])
  BY <1>1, <1>3, <1>4, CloseFacts
<1>6. Sound(svc, req[r]) /\ Booked(svc, req[r]) BY Zenon DEF Typed
<1>7. Sound(svc, req'[r]) BY <1>2, <1>5, <1>6, Zenon DEF Sound, SameAsk, SameResponse, Answered, Unsent
<1>8. Est(svc, req'[r]) = Est(svc, req[r]) BY <1>5, Zenon DEF Est, SameAsk
<1>9. Booked(svc, req'[r]) BY <1>2, <1>5, <1>6, <1>8, Zenon DEF Booked, SameAccount
<1>10. Typed' BY <1>3, <1>5, <1>7, <1>9, TypedStep, Zenon
<1> QED BY <1>2, <1>3, <1>5, <1>10, Zenon DEF Called, SlotsSteady, SameSlot, Free

\* What a settlement adjusts is what a request should have been charged, less
\* what it was.
LEMMA SettlesFacts ==
  ASSUME Typed, NEW r \in Requests, ~req[r].aborted
  PROVE  /\ Settles(r) \in SUBSET Adjustment /\ Distinct(svc, Settles(r))
         /\ \A i \in DOMAIN svc.limits : Pending(Settles(r), i) = Due(svc, req[r], i) - Paid(req[r], i)
<1>1. /\ req[r].actual \in Int /\ req[r].charged \in Seq(Charge)
      /\ \A i : ChargedAt(req[r], i) => req[r].charged[i] \in Charge
  BY DEF Typed, ReqType, ReqRec, ChargedAt
<1>2. \A i : ChargedAt(req[r], i) => req[r].charged[i].cost \in Int BY <1>1, Zenon DEF Charge
<1>3. CASE Settles(r) = {} /\ \A i : ChargedAt(req[r], i) => Due(svc, req[r], i) = req[r].charged[i].cost
  BY <1>2, <1>3 DEF Distinct, Pending, Due, Paid
<1>4. ASSUME NEW cost \in Int,
             Settles(r) = Adjustments(r, cost), \A i : ChargedAt(req[r], i) => Due(svc, req[r], i) = cost
      PROVE  /\ Settles(r) \in SUBSET Adjustment /\ Distinct(svc, Settles(r))
             /\ \A i \in DOMAIN svc.limits : Pending(Settles(r), i) = Due(svc, req[r], i) - Paid(req[r], i)
  <2>1. /\ Adjustments(r, cost) \in SUBSET Adjustment /\ Distinct(svc, Adjustments(r, cost))
        /\ \A i \in DOMAIN svc.limits :
             Pending(Adjustments(r, cost), i)
               = IF ChargedAt(req[r], i) THEN cost - req[r].charged[i].cost ELSE 0
    BY AdjustmentFacts, Zenon
  <2>2. \A i : ~ChargedAt(req[r], i) => Due(svc, req[r], i) = 0 BY Zenon DEF Due
  <2> QED BY <1>2, <1>4, <2>1, <2>2 DEF Paid
<1>5. CASE svc.cost = "none" BY <1>3, <1>5, Zenon DEF Settles, Due
<1>6. CASE svc.cost # "none" /\ req[r].actual >= 0
  <2>1. Settles(r) = Adjustments(r, req[r].actual) BY <1>1, <1>6 DEF Settles, Settle
  <2>2. \A i : ChargedAt(req[r], i) => Due(svc, req[r], i) = req[r].actual BY <1>1, <1>6, Zenon DEF Due
  <2> QED BY <1>1, <1>4, <2>1, <2>2, Zenon
<1>7. CASE svc.cost # "none" /\ req[r].actual < 0 /\ (svc.cost = "refund" \/ req[r].failed)
  <2>1. Settles(r) = Adjustments(r, 0) BY <1>1, <1>7 DEF Settles, Settle
  <2>2. \A i : ChargedAt(req[r], i) => Due(svc, req[r], i) = 0 BY <1>1, <1>7 DEF Due
  <2> QED BY <1>1, <1>4, <2>1, <2>2
<1>8. CASE svc.cost # "none" /\ req[r].actual < 0 /\ ~(svc.cost = "refund" \/ req[r].failed)
  <2>1. Settles(r) = {} BY <1>1, <1>8 DEF Settles
  <2> QED BY <1>1, <1>3, <1>8, <2>1 DEF Due
<1> QED BY <1>1, <1>5, <1>6, <1>7, <1>8

\* What the settlement computes: the adjustments from estimates to actual costs, with no count changed
\* yet.
LEMMA SettleEffect ==
  ASSUME Typed, NEW r \in Requests, SettleCost(r)
  PROVE  /\ Changed(r) /\ Typed' /\ SlotsSteady(r) /\ ReplicasSteady(r)
         /\ req[r].pc = "settle" /\ req'[r].pc = "adjust" /\ req'[r].todo = Settles(r)
         /\ req'[r].charged = req[r].charged /\ SameResponse(req'[r], req[r]) /\ SameCost(req'[r], req[r])
         /\ UNCHANGED <<svc, used, safe, owed, cache>>
<1> DEFINE todo == Settles(r)
<1>1. req[r].pc = "settle" BY Zenon DEF SettleCost, Step
<1>2. Sound(svc, req[r]) /\ Booked(svc, req[r]) /\ ~req[r].aborted BY <1>1, Zenon DEF Typed, Booked
<1>3. todo \in SUBSET Adjustment /\ Distinct(svc, todo) BY <1>2, SettlesFacts, Zenon
<1>4. ReqType /\ "adjust" \in Labels /\ "unwind" \in Labels BY Zenon DEF Typed, Labels
<1>5. /\ Step(r, "settle", Settling(r, "adjust", todo, "unwind"))
      /\ UNCHANGED <<svc, used, safe, owed, cache, up, slots, table, sweep, raced>>
  BY Zenon DEF SettleCost, Settling, concurrency, accounts
<1> HIDE DEF todo
<1>6. /\ Changed(r) /\ req'[r].pc = "adjust" /\ req'[r].todo = todo /\ req'[r].after = "unwind"
      /\ req'[r].charged = req[r].charged /\ req'[r].i = req[r].i
      /\ SameAsk(req'[r], req[r]) /\ SameSlot(req'[r], req[r]) /\ SameCall(req'[r], req[r])
      /\ SameResponse(req'[r], req[r]) /\ SameCost(req'[r], req[r])
  BY <1>3, <1>4, <1>5, SettleFacts
<1>7. Sound(svc, req'[r])
  BY <1>1, <1>2, <1>6, Zenon DEF Sound, SameAsk, SameCall, SameResponse, Answered, Unsent
<1>8. Est(svc, req'[r]) = Est(svc, req[r]) BY <1>6, Zenon DEF Est, SameAsk
<1>9. Booked(svc, req'[r]) BY <1>1, <1>2, <1>3, <1>6, <1>8, Zenon DEF Booked, SameCost
<1>10. Typed' BY <1>5, <1>6, <1>7, <1>9, TypedStep, Zenon
<1> QED BY <1>1, <1>5, <1>6, <1>10, Zenon DEF SlotsSteady, ReplicasSteady, SameSlot, Free, todo

\* The edge's own limiter charges what the primary would have.
SafetyAgrees ==
  \A s \in Services : s.safety.on => s.cost = "none" /\ \A m \in Methods : s.safety.costs[m] = s.costs[m]

\* Where the safety limiter's rules agree with the service's, a check of either costs the same.
LEMMA SafetyCost ==
  ASSUME Typed, SafetyAgrees, NEW r \in Requests, NEW i \in DOMAIN svc.limits, svc.safety.on
  PROVE  safetyRule(r, i).cost = Est(svc, req[r])
<1>1. svc \in Services /\ req[r].method \in Methods BY Zenon DEF Typed, ReqType, ReqRec
<1>2. svc.cost = "none" /\ svc.safety.costs[req[r].method] = svc.costs[req[r].method]
  BY <1>1, Zenon DEF SafetyAgrees
<1>3. Est(svc, req[r]) = svc.costs[req[r].method] BY <1>2, Zenon DEF Est
<1>4. checks(r)[i].cost = Est(svc, req[r]) BY EstFacts, Zenon
<1>5. CASE i = 1
  <2>1. checks(r)[i]
          = [limit |-> svc.limits[i].quota, cost |-> estimate(r), shadow |-> svc.limits[i].shadow]
    BY Zenon DEF checks
  <2>2. safetyRule(r, i).cost = svc.safety.costs[req[r].method]
    BY <1>5, <2>1, Zenon DEF safetyRule, methodCost
  <2> QED BY <1>2, <1>3, <2>2, Zenon
<1>6. CASE i # 1 BY <1>4, <1>6, Zenon DEF safetyRule
<1> QED BY <1>5, <1>6, Zenon

\* What the documentation has it pay.
LEMMA OwesFacts ==
  ASSUME Typed, SafetyAgrees, NEW r \in Requests, NEW i \in DOMAIN svc.limits
  PROVE  Owes(r, i) = Due(svc, req[r], i)
<1> DEFINE charged == req[r].charged
           taken == IF charged[i].at = "safety" THEN safetyRule(r, i).cost ELSE checks(r)[i].cost
<1>1. /\ charged \in Seq(Charge) /\ i \in 1 .. Len(svc.limits) /\ Len(svc.limits) \in Nat
           /\ Booked(svc, req[r])
      /\ checks(r)[i].cost = Est(svc, req[r])
  BY LimitFacts, EstFacts, Zenon DEF Typed, ReqType, ReqRec
<1>2. i > Len(charged) <=> i \notin DOMAIN charged BY <1>1
<1>3. i \in DOMAIN charged => taken = charged[i].cost
  <2>1. i \in DOMAIN charged /\ charged[i].at = "safety" => safetyRule(r, i).cost = Est(svc, req[r])
    BY <1>1, SafetyCost, Zenon DEF Booked
  <2>2. i \in DOMAIN charged => charged[i].cost = Est(svc, req[r]) BY <1>1, Zenon DEF Booked
  <2> QED BY <1>1, <2>1, <2>2, Zenon
<1>4. Owes(r, i) = IF i > Len(charged) THEN 0
                   ELSE IF charged[i].at = "none" THEN 0
                   ELSE IF svc.cost = "none" \/ req[r].aborted THEN taken
                   ELSE IF req[r].actual >= 0 THEN req[r].actual
                   ELSE IF svc.cost = "refund" \/ req[r].failed THEN 0 ELSE taken
  BY Zenon DEF Owes
<1>5. Due(svc, req[r], i) = IF ~(i \in DOMAIN charged /\ charged[i].at # "none") THEN 0
                            ELSE IF svc.cost = "none" \/ req[r].aborted THEN charged[i].cost
                            ELSE IF req[r].actual >= 0 THEN req[r].actual
                            ELSE IF svc.cost = "refund" \/ req[r].failed THEN 0 ELSE charged[i].cost
  BY Zenon DEF Due, ChargedAt
<1> HIDE DEF taken, charged
<1> QED BY <1>2, <1>3, <1>4, <1>5

\* What the deferred release changes: the slot is given back and the request's cost is owed.
LEMMA ReleaseEffect ==
  ASSUME Typed, NEW r \in Requests, Release(r)
  PROVE  /\ Changed(r) /\ Typed' /\ ReplicasSteady(r)
         /\ req[r].pc = "unwind" /\ req'[r].pc \in {"store", "done"} /\ req'[r].slot = 0
         /\ slots' = IF req[r].slot = 0 THEN slots ELSE [slots EXCEPT ![req[r].slot] = @ - 1]
         /\ owed' = [i \in DOMAIN owed |-> owed[i] + Owes(r, i)]
         /\ UNCHANGED <<svc, used, safe, cache, table, sweep, raced>>
<1> DEFINE to == IF req[r].aborted \/ ~Caches(r) THEN "done" ELSE "store"
<1>1. ReqType /\ 0 \in Nat BY Zenon DEF Typed
<1>2. to \in {"store", "done"} /\ (req[r].aborted => to = "done") BY Zenon
<1>3. /\ Step(r, "unwind", Slotted(r, to, 0))
      /\ UNCHANGED <<svc, used, safe, up, cache, table, sweep, raced>>
      /\ slots' = IF req[r].slot = 0 THEN slots ELSE [slots EXCEPT ![req[r].slot] = @ - 1]
      /\ owed' = [i \in DOMAIN owed |-> owed[i] + Owes(r, i)]
  BY Zenon DEF Release, Unwound, Slotted
<1> HIDE DEF to
<1>4. to \in Labels BY <1>2, Zenon DEF Labels
<1>5. /\ Changed(r) /\ req[r].pc = "unwind" /\ req'[r].pc = to /\ req'[r].slot = 0
      /\ SameAsk(req'[r], req[r]) /\ SameAccount(req'[r], req[r]) /\ SameCall(req'[r], req[r])
      /\ SameResponse(req'[r], req[r]) /\ SameCost(req'[r], req[r])
  BY <1>1, <1>3, <1>4, SlotFacts, Zenon
<1>6. Sound(svc, req[r]) /\ Booked(svc, req[r]) BY Zenon DEF Typed
<1>7. Sound(svc, req'[r])
  BY <1>2, <1>5, <1>6, Zenon DEF Sound, SameAsk, SameCall, SameResponse, Answered, Unsent
<1>8. Est(svc, req'[r]) = Est(svc, req[r]) BY <1>5, Zenon DEF Est, SameAsk
<1>9. Booked(svc, req'[r]) BY <1>2, <1>5, <1>6, <1>8, Zenon DEF Booked, SameAccount, SameCost
<1>10. Typed' BY <1>3, <1>5, <1>7, <1>9, TypedStep, Zenon
<1> QED BY <1>2, <1>3, <1>5, <1>10, Zenon DEF ReplicasSteady

\* What storing a response changes: the cache holds it or what it held.
LEMMA StoreEffect ==
  ASSUME Typed, NEW r \in Requests, NEW overflow \in BOOLEAN, StoreResponse(r, overflow)
  PROVE  /\ Changed(r) /\ Typed' /\ SlotsSteady(r) /\ ReplicasSteady(r)
         /\ req[r].pc = "store" /\ req'[r].pc = "done" /\ cache' \in {cache, "upstream"}
         /\ UNCHANGED <<svc, used, safe, owed>>
<1>1. ReqType /\ "done" \in Labels BY Zenon DEF Typed, Labels
<1>2. /\ Step(r, "store", To(r, "done"))
           /\ UNCHANGED <<svc, used, safe, owed, up, slots, table, sweep, raced>>
      /\ cache' = IF cacheable(r) /\ ~overflow THEN req[r].from ELSE cache
  BY Zenon DEF StoreResponse, concurrency, accounts
<1>3. /\ Changed(r) /\ req[r].pc = "store" /\ req'[r].pc = "done"
      /\ SameAsk(req'[r], req[r]) /\ SameSlot(req'[r], req[r]) /\ SameAccount(req'[r], req[r])
      /\ SameCall(req'[r], req[r]) /\ SameResponse(req'[r], req[r]) /\ SameCost(req'[r], req[r])
  BY <1>1, <1>2, MoveFacts, Zenon
<1>4. Sound(svc, req[r]) /\ ~req[r].aborted BY <1>3, Zenon DEF Typed, Booked
<1>5. cacheable(r) => req[r].from = "upstream" BY <1>3, <1>4, Zenon DEF cacheable, Sound, Answered
<1>6. cache' \in {cache, "upstream"} BY <1>2, <1>5, Zenon
<1>7. Sound(svc, req'[r]) BY <1>3, <1>4, Zenon DEF Sound, SameAsk, SameCall, Answered, Unsent
<1>8. Booked(svc, req'[r]) BY <1>3, <1>4, BookedKept, Zenon DEF SameCost
<1>9. Typed' BY <1>2, <1>3, <1>7, <1>8, TypedStep, Zenon
<1> QED BY <1>2, <1>3, <1>6, <1>9, Zenon DEF SlotsSteady, ReplicasSteady, SameSlot, Free

----------------------------------------------------------------------------
(* Slots.                                                                 *)

\* A set that one element joins or leaves.
Counts(A, B, r) ==
  /\ Cardinality(A) \in Nat /\ Cardinality(B) \in Nat
  /\ (r \in A <=> r \in B) => B = A
  /\ r \in B /\ r \notin A => Cardinality(B) = Cardinality(A) + 1
  /\ r \in A /\ r \notin B => Cardinality(B) = Cardinality(A) - 1

\* How the size of a set changes when one element may join or leave it.
LEMMA CountMoves ==
  ASSUME NEW S, IsFiniteSet(S), NEW A \in SUBSET S, NEW B \in SUBSET S, NEW r \in S,
         \A o \in S \ {r} : o \in A <=> o \in B
  PROVE  Counts(A, B, r)
<1>1. IsFiniteSet(A) /\ IsFiniteSet(B) BY FS_Subset, Zenon
<1>2. Cardinality(A) \in Nat /\ Cardinality(B) \in Nat BY <1>1, FS_CardinalityType, Zenon
<1>3. ASSUME r \in A <=> r \in B PROVE B = A BY <1>3
<1>4. ASSUME r \in B, r \notin A PROVE Cardinality(B) = Cardinality(A) + 1
  <2>1. B = A \cup {r} BY <1>4, Zenon
  <2> QED BY <1>1, <1>4, <2>1, FS_AddElement, Zenon
<1>5. ASSUME r \in A, r \notin B PROVE Cardinality(B) = Cardinality(A) - 1
  <2>1. B = A \ {r} BY <1>5, Zenon
  <2> QED BY <1>1, <1>5, <2>1, FS_RemoveElement, Zenon
<1> QED BY <1>2, <1>3, <1>4, <1>5, Zenon DEF Counts

\* Every request has a counter that was made, the one in the table unless a
\* sweep dropped one in use; only a request past the cap's check holds one.
Slotting(r) ==
  /\ req[r].slot \in 0 .. Len(slots)
  /\ req[r].pc \in Free => req[r].slot = 0
  /\ req[r].pc \in {"acquire", "full"} => req[r].slot # 0
  /\ ~raced => req[r].slot \in {0, table}
SlotsType == slots \in Seq(Int) /\ table \in 0 .. Len(slots) /\ sweep \in {0, table} /\ raced \in BOOLEAN
SlotsKept == SlotsType /\ (\A r \in Requests : Slotting(r)) /\ SlotsBalance

\* The holders of a counter when one request has taken a step.
LEMMA HoldersMove ==
  ASSUME NEW r \in Requests, Changed(r), NEW c
  PROVE  /\ Cardinality(Holders(c)) \in Nat /\ Cardinality(Holders(c)') \in Nat
         /\ (r \in Holders(c) <=> r \in Holders(c)') => Holders(c)' = Holders(c)
         /\ r \in Holders(c)' /\ r \notin Holders(c)
              => Cardinality(Holders(c)') = Cardinality(Holders(c)) + 1
         /\ r \in Holders(c) /\ r \notin Holders(c)'
              => Cardinality(Holders(c)') = Cardinality(Holders(c)) - 1
<1>1. PICK A, B : A = Holders(c) /\ B = Holders(c)' BY Zenon
<1>2. A \in SUBSET Requests /\ B \in SUBSET Requests BY <1>1, Zenon DEF Holders
<1>3. \A o \in Requests \ {r} : o \in A <=> o \in B BY <1>1, Zenon DEF Holders, Changed
<1>4. IsFiniteSet(Requests) BY ServiceSettings, Zenon
<1>5. Counts(A, B, r) BY <1>2, <1>3, <1>4, CountMoves, Zenon
<1> QED BY <1>1, <1>5, Zenon DEF Counts

\* How the number of requests that hold a slot changes when one request changes.
LEMMA RunningMove ==
  ASSUME NEW r \in Requests, Changed(r)
  PROVE  /\ Cardinality(Running) \in Nat /\ Cardinality(Running') \in Nat
         /\ (r \in Running <=> r \in Running') => Running' = Running
         /\ r \in Running /\ r \notin Running' => Cardinality(Running') = Cardinality(Running) - 1
<1>1. PICK A, B : A = Running /\ B = Running' BY Zenon
<1>2. A \in SUBSET Requests /\ B \in SUBSET Requests BY <1>1, Zenon DEF Running
<1>3. \A o \in Requests \ {r} : o \in A <=> o \in B BY <1>1, Zenon DEF Running, Changed
<1>4. IsFiniteSet(Requests) BY ServiceSettings, Zenon
<1>5. Counts(A, B, r) BY <1>2, <1>3, <1>4, CountMoves, Zenon
<1> QED BY <1>1, <1>5, Zenon DEF Counts

\* A step that is about no slot keeps the slots balanced.
LEMMA SlotsSteadyKept ==
  ASSUME SlotsKept, NEW r \in Requests, Changed(r), SlotsSteady(r), svc' = svc
  PROVE  SlotsKept'
<1>1. SlotsType' BY Zenon DEF SlotsKept, SlotsType, SlotsSteady
<1>2. Slotting(r)' BY Zenon DEF SlotsKept, SlotsSteady, Slotting
<1>3. ASSUME NEW o \in Requests \ {r} PROVE Slotting(o)'
  BY <1>3, Zenon DEF SlotsKept, SlotsSteady, Slotting, Changed
<1>4. ASSUME NEW c PROVE Holders(c)' = Holders(c)
  <2>1. r \in Holders(c) <=> r \in Holders(c)' BY Zenon DEF Holders, SlotsSteady
  <2> QED BY <2>1, HoldersMove, Zenon
<1>5. Running' = Running
  <2>1. r \in Running <=> r \in Running' BY Zenon DEF Running, SlotsSteady
  <2> QED BY <2>1, RunningMove, Zenon
<1>6. SlotsBalance' BY <1>4, <1>5, Zenon DEF SlotsKept, SlotsBalance, SlotsSteady
<1> QED BY <1>1, <1>2, <1>3, <1>6, Zenon DEF SlotsKept

\* Finding or making the counter keeps the slots balanced (Concurrency.get).
LEMMA SlotsGet ==
  ASSUME Typed, SlotsKept, NEW r \in Requests, get(r)
  PROVE  SlotsKept'
<1> DEFINE n == IF table = 0 THEN Len(slots) + 1 ELSE table
<1>1. slots \in Seq(Int) /\ table \in 0 .. Len(slots) /\ sweep \in {0, table} /\ raced \in BOOLEAN
        /\ Len(slots) \in Nat
  BY DEF SlotsKept, SlotsType
<1>2. /\ Changed(r) /\ req[r].pc = "slot" /\ req'[r].pc = "acquire" /\ req'[r].slot = n
      /\ UNCHANGED <<svc, sweep, raced>>
  BY <1>1, GetEffect
<1>3. table' = n /\ slots' = IF table = 0 THEN Append(slots, 0) ELSE slots BY Zenon DEF get
<1>4. /\ slots' \in Seq(Int) /\ n \in 1 .. Len(slots') /\ Len(slots) <= Len(slots') /\ Len(slots') \in Nat
      /\ \A c \in DOMAIN slots' : (c \in DOMAIN slots /\ slots'[c] = slots[c])
           \/ (c > Len(slots) /\ slots'[c] = 0)
  <2>1. CASE table = 0 BY <1>1, <1>3, <2>1
  <2>2. CASE table # 0 BY <1>1, <1>3, <2>2
  <2> QED BY <2>1, <2>2, Zenon
<1>5. req[r].slot = 0 BY <1>2, Zenon DEF SlotsKept, Slotting, Free
<1>6. SlotsType' BY <1>1, <1>2, <1>3, <1>4 DEF SlotsType
<1>7. table # 0 => n = table BY Zenon
<1> HIDE DEF n
<1>8. Slotting(r)' BY <1>2, <1>3, <1>4 DEF Slotting, Free
<1>9. ASSUME NEW o \in Requests \ {r} PROVE Slotting(o)'
  <2>1. Slotting(o) /\ req'[o] = req[o] BY <1>2, Zenon DEF SlotsKept, Changed
  <2> QED BY <1>1, <1>2, <1>3, <1>4, <1>7, <2>1 DEF Slotting
<1>10. ASSUME NEW c, c # 0 PROVE Holders(c)' = Holders(c)
  <2>1. r \in Holders(c) <=> r \in Holders(c)' BY <1>2, <1>5, <1>10, Zenon DEF Holders
  <2> QED BY <1>2, <2>1, HoldersMove, Zenon
<1>11. Running' = Running
  <2>1. r \in Running <=> r \in Running' BY <1>2, <1>5, Zenon DEF Running
  <2> QED BY <1>2, <2>1, RunningMove, Zenon
<1>12. ASSUME NEW c \in DOMAIN slots' PROVE slots'[c] = Cardinality(Holders(c)')
  <2>1. c # 0 /\ c \in Nat BY <1>4
  <2>2. CASE c \in DOMAIN slots /\ slots'[c] = slots[c]
    BY <1>10, <2>1, <2>2, Zenon DEF SlotsKept, SlotsBalance
  <2>3. CASE c > Len(slots) /\ slots'[c] = 0
    <3>1. \A o \in Requests : req[o].slot # c BY <1>1, <2>1, <2>3 DEF SlotsKept, Slotting
    <3>2. Holders(c) = {} BY <3>1, Zenon DEF Holders
    <3> QED BY <1>10, <2>1, <2>3, <3>2, FS_EmptySet, Zenon
  <2> QED BY <1>4, <2>2, <2>3, Zenon
<1>13. SlotsBalance' BY <1>2, <1>11, <1>12, Zenon DEF SlotsKept, SlotsBalance
<1> QED BY <1>6, <1>8, <1>9, <1>13, Zenon DEF SlotsKept

\* The increment and the comparison with the cap keep the slots balanced (Concurrency.Acquire).
LEMMA SlotsAcquire ==
  ASSUME Typed, SlotsKept, NEW r \in Requests, Acquire(r)
  PROVE  SlotsKept'
<1>0. PICK c : c = req[r].slot BY Zenon
<1>1. slots \in Seq(Int) /\ table \in 0 .. Len(slots) /\ sweep \in {0, table} /\ raced \in BOOLEAN
        /\ Len(slots) \in Nat
  BY DEF SlotsKept, SlotsType
<1>2. req[r].pc = "acquire" /\ slots' = [slots EXCEPT ![c] = @ + 1] BY <1>0, Zenon DEF Acquire, Step
<1>3. c \in DOMAIN slots /\ slots[c] \in Int BY <1>0, <1>1, <1>2 DEF SlotsKept, Slotting
<1>4. svc \in Services /\ svc.concurrent \in Nat BY ServiceSettings, Zenon DEF Typed, ReqType
<1>5. /\ Changed(r) /\ req'[r].slot = c
      /\ req'[r].pc = (IF slots[c] + 1 > svc.concurrent THEN "full" ELSE "reserve")
      /\ UNCHANGED <<svc, table, sweep, raced>>
  BY <1>0, <1>3, AcquireEffect, Zenon DEF SameSlot
<1>6. req'[r].pc \in {"full", "reserve"} /\ (req'[r].pc = "reserve" => slots[c] + 1 <= svc.concurrent)
  BY <1>3, <1>4, <1>5
<1>7. /\ slots' \in Seq(Int) /\ Len(slots') = Len(slots) /\ slots'[c] = slots[c] + 1
           /\ DOMAIN slots' = DOMAIN slots
      /\ \A d \in DOMAIN slots \ {c} : slots'[d] = slots[d]
  BY <1>1, <1>2, <1>3
<1>8. SlotsType' BY <1>1, <1>5, <1>7, Zenon DEF SlotsType
<1>9. Slotting(r)' BY <1>0, <1>2, <1>5, <1>6, <1>7, Zenon DEF SlotsKept, Slotting, Free
<1>10. ASSUME NEW o \in Requests \ {r} PROVE Slotting(o)'
  <2>1. Slotting(o) /\ req'[o] = req[o] BY <1>5, Zenon DEF SlotsKept, Changed
  <2> QED BY <1>5, <1>7, <2>1, Zenon DEF Slotting
<1>11. ASSUME NEW d \in DOMAIN slots PROVE slots'[d] = Cardinality(Holders(d)')
  <2>1. slots[d] = Cardinality(Holders(d)) BY Zenon DEF SlotsKept, SlotsBalance
  <2>2. CASE d = c
    <3>1. r \notin Holders(c) /\ r \in Holders(c)' BY <1>0, <1>2, <1>5, <1>6, Zenon DEF Holders
    <3> QED BY <1>5, <1>7, <2>1, <2>2, <3>1, HoldersMove, Zenon
  <2>3. CASE d # c
    <3>1. r \notin Holders(d) /\ r \notin Holders(d)' BY <1>0, <1>5, <2>3, Zenon DEF Holders
    <3> QED BY <1>5, <1>7, <2>1, <2>3, <3>1, HoldersMove, Zenon
  <2> QED BY <2>2, <2>3, Zenon
<1>12. ASSUME ~raced' PROVE Cardinality(Running') <= svc.concurrent \/ svc.concurrent = 0
  <2>1. CASE req'[r].pc = "full"
    <3>1. r \notin Running /\ r \notin Running' BY <1>2, <2>1, Zenon DEF Running
    <3> QED BY <1>5, <1>12, <3>1, RunningMove, Zenon DEF SlotsKept, SlotsBalance
  <2>2. CASE req'[r].pc = "reserve"
    <3>1. c # 0 BY <1>1, <1>3
    <3>2. c = table' BY <1>5, <1>9, <1>12, <3>1, Zenon DEF Slotting
    <3>3. Running' \in SUBSET Holders(c)'
      <4>1. ASSUME NEW o \in Requests, req'[o].slot # 0 PROVE req'[o].slot = c
        BY <1>9, <1>10, <1>12, <3>2, <4>1, Zenon DEF Slotting
      <4> QED BY <4>1, Zenon DEF Running, Holders
    <3>4. IsFiniteSet(Holders(c)')
      <4>1. Holders(c)' \in SUBSET Requests BY Zenon DEF Holders
      <4> QED BY <4>1, FS_Subset, ServiceSettings, Zenon
    <3>5. Cardinality(Running') <= Cardinality(Holders(c)') BY <3>3, <3>4, FS_Subset, Zenon
    <3>6. Cardinality(Holders(c)') <= svc.concurrent BY <1>3, <1>6, <1>7, <1>11, <2>2, Zenon
    <3> QED BY <1>4, <1>5, <3>5, <3>6, HoldersMove, RunningMove
  <2> QED BY <1>6, <2>1, <2>2, Zenon
<1>13. SlotsBalance' BY <1>5, <1>7, <1>11, <1>12, Zenon DEF SlotsBalance
<1> QED BY <1>8, <1>9, <1>10, <1>13, Zenon DEF SlotsKept

\* A request lets go of its counter, if it has one.
LEMMA SlotsLetGo ==
  ASSUME SlotsKept, svc \in Services, NEW r \in Requests,
         Changed(r), req[r].pc \notin Free \cup {"acquire"}, req'[r].slot = 0,
         req'[r].pc \notin {"acquire", "full"}, UNCHANGED <<svc, table, sweep, raced>>,
         slots' = IF req[r].slot = 0 THEN slots ELSE [slots EXCEPT ![req[r].slot] = @ - 1]
  PROVE  SlotsKept'
<1> DEFINE c == req[r].slot
<1>1. slots \in Seq(Int) /\ table \in 0 .. Len(slots) /\ sweep \in {0, table} /\ raced \in BOOLEAN
        /\ Len(slots) \in Nat
  BY DEF SlotsKept, SlotsType
<1>2. c \in 0 .. Len(slots) BY Zenon DEF SlotsKept, Slotting
<1>3. /\ slots' \in Seq(Int) /\ Len(slots') = Len(slots) /\ DOMAIN slots' = DOMAIN slots
      /\ \A d \in DOMAIN slots : d \in Nat /\ slots[d] \in Int /\ d # 0
           /\ slots'[d] = slots[d] - IF d = c THEN 1 ELSE 0
  <2>1. CASE c = 0 BY <1>1, <2>1
  <2>2. CASE c # 0
    <3>1. slots' = [slots EXCEPT ![c] = @ - 1] /\ c \in DOMAIN slots BY <1>1, <1>2, <2>2
    <3> HIDE DEF c
    <3> QED BY <1>1, <3>1
  <2> QED BY <2>1, <2>2, Zenon
<1>4. SlotsType' BY <1>1, <1>3, Zenon DEF SlotsType
<1>5. Slotting(r)' BY <1>1, <1>3 DEF Slotting
<1>6. ASSUME NEW o \in Requests \ {r} PROVE Slotting(o)'
  <2>1. Slotting(o) /\ req'[o] = req[o] BY Zenon DEF SlotsKept, Changed
  <2> QED BY <1>3, <2>1, Zenon DEF Slotting
<1>7. ASSUME NEW d \in DOMAIN slots PROVE slots'[d] = Cardinality(Holders(d)')
  <2>1. slots[d] = Cardinality(Holders(d)) BY Zenon DEF SlotsKept, SlotsBalance
  <2>2. r \notin Holders(d)' BY <1>3, Zenon DEF Holders
  <2>3. CASE d = c
    <3>1. r \in Holders(d) BY <2>3, Zenon DEF Holders
    <3> QED BY <1>3, <2>1, <2>2, <2>3, <3>1, HoldersMove, Zenon
  <2>4. CASE d # c
    <3>1. r \notin Holders(d) BY <2>4, Zenon DEF Holders
    <3> HIDE DEF c
    <3> QED BY <1>3, <2>1, <2>2, <2>4, <3>1, HoldersMove
  <2> QED BY <2>3, <2>4, Zenon
<1>8. ASSUME ~raced' PROVE Cardinality(Running') <= svc.concurrent \/ svc.concurrent = 0
  <2>1. r \notin Running' BY Zenon DEF Running
  <2>2. Running' = Running \/ Cardinality(Running') = Cardinality(Running) - 1 BY <2>1, RunningMove, Zenon
  <2>3. Cardinality(Running) <= svc.concurrent \/ svc.concurrent = 0
    BY <1>8, Zenon DEF SlotsKept, SlotsBalance
  <2>4. svc.concurrent \in Nat BY ServiceSettings, Zenon
  <2> QED BY <2>2, <2>3, <2>4, RunningMove
<1>9. SlotsBalance' BY <1>3, <1>7, <1>8, Zenon DEF SlotsBalance
<1> QED BY <1>4, <1>5, <1>6, <1>9, Zenon DEF SlotsKept

\* The decrement of a refused request keeps the slots balanced (Concurrency.Acquire).
LEMMA SlotsFull ==
  ASSUME Typed, SlotsKept, NEW r \in Requests, AcquireFull(r)
  PROVE  SlotsKept'
<1>1. Changed(r) /\ req[r].pc = "full" /\ req'[r].pc = "unwind" /\ req'[r].slot = 0
        /\ UNCHANGED <<svc, table, sweep, raced>>
  BY FullEffect, Zenon
<1>2. slots' = [slots EXCEPT ![req[r].slot] = @ - 1] BY Zenon DEF AcquireFull
<1>3. req[r].slot # 0 /\ svc \in Services BY <1>1, Zenon DEF SlotsKept, Slotting, Typed, ReqType
<1> QED BY <1>1, <1>2, <1>3, SlotsLetGo, Zenon DEF Free

\* A sweep that sees a counter at zero, or drops it, keeps the slots balanced (Concurrency.Sweep).
LEMMA SlotsSweep ==
  ASSUME SlotsKept, SweepSees \/ SweepEvicts
  PROVE  SlotsKept'
<1>1. slots \in Seq(Int) /\ table \in 0 .. Len(slots) /\ sweep \in {0, table} /\ raced \in BOOLEAN
        /\ Len(slots) \in Nat
  BY DEF SlotsKept, SlotsType
<1>2. UNCHANGED <<svc, req, slots>> BY Zenon DEF SweepSees, SweepEvicts
<1>3. CASE SweepSees
  <2>1. sweep' = table /\ table' = table /\ raced' = raced BY <1>3, Zenon DEF SweepSees
  <2>2. SlotsType' BY <1>1, <1>2, <2>1, Zenon DEF SlotsType
  <2>3. \A r \in Requests : Slotting(r)' BY <1>2, <2>1, Zenon DEF SlotsKept, Slotting
  <2>4. SlotsBalance' BY <1>2, <2>1, Zenon DEF SlotsKept, SlotsBalance, Holders, Running
  <2> QED BY <2>2, <2>3, <2>4, Zenon DEF SlotsKept
<1>4. CASE SweepEvicts
  <2>1. /\ sweep # 0 /\ sweep' = 0 /\ table' = 0
        /\ raced' = (raced \/ \E r \in Requests : Holds(r, sweep))
    BY <1>4, Zenon DEF SweepEvicts
  <2>2. SlotsType' BY <1>1, <1>2, <2>1 DEF SlotsType
  <2>3. ASSUME NEW r \in Requests PROVE Slotting(r)'
    <3>1. Slotting(r) BY Zenon DEF SlotsKept
    <3>2. ASSUME ~raced' PROVE req[r].slot = 0
      <4>1. ~raced /\ ~Holds(r, sweep) /\ sweep = table BY <1>1, <2>1, <3>2, Zenon
      <4> QED BY <3>1, <4>1, Zenon DEF Slotting, Holds, Free
    <3> QED BY <1>2, <2>1, <3>1, <3>2, Zenon DEF Slotting
  <2>4. ~raced' => ~raced BY <1>1, <2>1, Zenon
  <2>5. Running' = Running /\ \A c : Holders(c)' = Holders(c) BY <1>2, Zenon DEF Running, Holders
  <2>6. SlotsBalance' BY <1>2, <2>4, <2>5, Zenon DEF SlotsKept, SlotsBalance
  <2> QED BY <2>2, <2>3, <2>6, Zenon DEF SlotsKept
<1> QED BY <1>3, <1>4, Zenon
=============================================================================
