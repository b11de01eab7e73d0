----------------------------- MODULE FaultLatch -----------------------------
(***************************************************************************)
(* What the fault latch promises the rest of the drive: the latched error  *)
(* is the highest-ranking one raised since the last reset, and only a      *)
(* resettable error is ever taken away.                                    *)
(***************************************************************************)
EXTENDS Integers

CONSTANTS Errors, NoFault

VARIABLE top  \* the latched error, or NoFault

Outranks(f, e) == f.level < e.level \/ (f.level = e.level /\ f.disp < e.disp)

Init == top = NoFault

Raise(f) == (top = NoFault \/ Outranks(f, top)) /\ top' = f

Reset == top # NoFault /\ top.reset = 1 /\ top' = NoFault

Next == Reset \/ \E f \in Errors : Raise(f)

Spec == Init /\ [][Next]_top
=============================================================================
