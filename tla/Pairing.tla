------------------------------- MODULE Pairing -------------------------------
(***************************************************************************)
(* What bank reconciliation promises: statement lines and journals are     *)
(* paired one to one and only when their amounts agree, one pair at a time *)
(* is made, and one pair at a time is taken apart.                         *)
(***************************************************************************)
CONSTANTS Lines, Vouchers   \* both with an amount

VARIABLE pairs

Free(line, voucher) == \A x \in pairs : x.line # line /\ x.voucher # voucher

Pair(line, voucher) ==
  /\ line.amount = voucher.amount
  /\ Free(line, voucher)
  /\ pairs' = pairs \cup {[line |-> line, voucher |-> voucher]}

Unpair(x) == pairs' = pairs \ {x}

Init == pairs = {}

Next == \/ \E line \in Lines, voucher \in Vouchers : Pair(line, voucher)
        \/ \E x \in pairs : Unpair(x)

Spec == Init /\ [][Next]_pairs
=============================================================================
