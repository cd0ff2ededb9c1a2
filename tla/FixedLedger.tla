---------------------------- MODULE FixedLedger ----------------------------
(***************************************************************************)
(* The hub's ledger for one fixed-window quota (packages/ledger): the      *)
(* atomic grant and return scripts over a counter per window, on the       *)
(* ledger's own clock.  A script is one step: Redis runs it atomically,    *)
(* and Mem holds its mutex throughout.                                     *)
(***************************************************************************)
EXTENDS LedgerArith, FiniteSets

CONSTANTS
  Edges,       \* the edges that ask for tokens
  Limit,       \* tokens per window
  Window,      \* length of a window, in ticks
  Targets,     \* grant sizes the edges' requests and demand arrive at
  RetryFloor,  \* retry hint of an exhausted window: max(window/10, 500 ms)
  MaxTime,     \* bound: the clock stops here
  MaxReturns   \* bound: returns one edge makes

VARIABLES
  now,      \* the ledger's clock
  used,     \* used[w]: tokens granted in window w and not given back
  deduped   \* deduped[i]: when the record of return i lapses; 0 if none

ledgerVars == <<now, used, deduped>>

ASSUME LedgerConstants ==
  /\ IsFiniteSet(Edges)
  /\ Limit \in Nat \ {0}
  /\ Window \in Nat \ {0}
  /\ Targets \subseteq Nat \ {0}
  /\ RetryFloor \in Nat \ {0}
  /\ MaxTime \in Nat
  /\ MaxReturns \in Nat

wid == WindowOf(now, Window)
Windows == 0 .. WindowOf(MaxTime, Window)
ReturnIds == Edges \X (1 .. MaxReturns)

LedgerInit ==
  /\ now = 0
  /\ used = [w \in Windows |-> 0]
  /\ deduped = [i \in ReturnIds |-> 0]

Tick ==
  /\ now < MaxTime
  /\ now' = now + 1
  /\ UNCHANGED <<used, deduped>>

avail == Limit - used[wid]

\* The answer to a request for target tokens when n edges are active on the
\* quota (an edge that asked long ago is not counted, so n may be any number
\* of them): zero tokens and a retry hint when the window is exhausted.
GrantAnswer(target, n) ==
  LET reset == WindowEnd(wid, Window) - now
      none  == avail <= 0
  IN  [granted |-> IF none THEN 0 ELSE GrantSize(avail, n, Capped(target, Limit)),
       win     |-> wid,
       expires |-> reset,
       reset   |-> reset,
       retry   |-> IF none THEN MinOf(RetryFloor, reset) ELSE 0]

Grant(answer) ==
  /\ used' = [used EXCEPT ![wid] = @ + answer.granted]
  /\ UNCHANGED <<now, deduped>>

Answers == {GrantAnswer(target, n) : target \in Targets, n \in 1 .. Cardinality(Edges)}

\* Return i of tokens from window w: applied once per id while the record of
\* the id lasts (two periods), and only while the window is still current.
ReturnEachTime(i, w, tokens) ==
  /\ deduped' = [deduped EXCEPT ![i] = now + 2 * Window]
  /\ used' = IF w = wid THEN [used EXCEPT ![w] = Credit(@, tokens)] ELSE used
  /\ UNCHANGED now
Return(i, w, tokens) ==
  IF deduped[i] > now
  THEN UNCHANGED ledgerVars
  ELSE /\ deduped' = [deduped EXCEPT ![i] = now + 2 * Window]
       /\ used' = IF w = wid THEN [used EXCEPT ![w] = Credit(@, tokens)] ELSE used
       /\ UNCHANGED now

LedgerTypeOK ==
  /\ now \in 0 .. MaxTime
  /\ used \in [Windows -> Nat]
  /\ deduped \in [ReturnIds -> Nat]

=============================================================================
