-------------------------- MODULE InvoicePromise ---------------------------
(***************************************************************************)
(* What the VAT invoice queue promises for each payment, whatever fails on *)
(* the way (apps/billing/invoicing.py, the module's docstring): the money  *)
(* taken, an invoice is owed; it is issued and then mailed to the buyer,   *)
(* or the team is asked, once and for all, to issue it by hand.            *)
(***************************************************************************)
CONSTANT Payments

VARIABLE fate

Init == fate = [p \in Payments |-> "unpaid"]

Turn(p, from, to) ==
    /\ fate[p] = from
    /\ fate' = [fate EXCEPT ![p] = to]

Pay(p)     == Turn(p, "unpaid", "owed")
Issue(p)   == Turn(p, "owed", "invoiced")
GiveUp(p)  == Turn(p, "owed", "by hand")
Deliver(p) == Turn(p, "invoiced", "delivered")

Next == \E p \in Payments : Pay(p) \/ Issue(p) \/ GiveUp(p) \/ Deliver(p)

Spec == Init /\ [][Next]_fate

=============================================================================
