---------------------------- MODULE LedgerArith ----------------------------
(***************************************************************************)
(* The ledger's arithmetic (packages/ledger): what both implementations of *)
(* the grant and return scripts compute from a counter, free of state.     *)
(* Times and durations are whole ticks of the ledger's clock.              *)
(***************************************************************************)
EXTENDS Integers

MinOf(a, b) == IF a <= b THEN a ELSE b
MaxOf(a, b) == IF a <= b THEN b ELSE a
CeilDiv(a, b) == (a + b - 1) \div b

\* The epoch-aligned window of length win that contains t, and its end.
WindowOf(t, win) == t \div win
WindowEnd(w, win) == (w + 1) * win

\* A request for more than a whole quota is cut to bankerCapPct of it.
bankerCapPct == 25
Capped(target, limit) ==
  IF target > limit THEN MinOf(target, MaxOf(1, (limit * bankerCapPct) \div 100))
                    ELSE target

\* What one grant takes from avail > 0 when n edges are active: the target,
\* or near the end of the quota an equal share of what is left, rounded up.
GrantWhole(avail, n, target) == target
GrantSize(avail, n, target) ==
  MinOf(IF avail < n * target THEN (avail + n - 1) \div n ELSE target, avail)

\* Tokens given back to a window counter, never below zero.
Credit(used, tokens) == used - MinOf(tokens, used)

=============================================================================
