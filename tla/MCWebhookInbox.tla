--------------------------- MODULE MCWebhookInbox ---------------------------
(* Small instances of WebhookInbox for TLC. *)
EXTENDS WebhookInbox, TLC

CONSTANTS inv, first, int, r1, r2, pay, eInv, eFirst, eRef, eChg, ePay

\* Two refunds of one booking's payment, and the payout of that payment less one
\* of the refunds.
MCPaidBy == [r \in Refund |-> int]
MCSettles == [x \in Payout |-> {int, r1}]

\* The invoices of a renewal and of a first membership, the two events that
\* report a refund, and the event of a payout.
KindOf == eInv :> "invoice" @@ eFirst :> "invoice" @@ eRef :> "refund.created"
            @@ eChg :> "charge.refunded" @@ ePay :> "payout"
ObjectsOf == eInv :> {inv} @@ eFirst :> {first} @@ eRef :> {r1}
               @@ eChg :> Refund @@ ePay :> {pay}
MCKind == [e \in Event |-> KindOf[e]]
MCAbout == [e \in Event |-> ObjectsOf[e]]
=============================================================================
