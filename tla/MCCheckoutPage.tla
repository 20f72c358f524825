---------------------------- MODULE MCCheckoutPage ----------------------------
(* Two orders, so that a second can be on the page when news of the first    *)
(* arrives, and two clicks, so that two submissions can overlap.             *)
EXTENDS CheckoutPage
MCOrder == {1, 2}
MCClick == {1, 2}
MCForm == {1, 2, 3}
=============================================================================
