--------------------------- MODULE MCPaymentWebhooks ---------------------------
(***************************************************************************)
(* PaymentWebhooks for TLC: one sale of one unit at one location.           *)
(***************************************************************************)
EXTENDS PaymentWebhooks

CONSTANTS shelf

MCRoute == <<shelf>>
MCOpening == shelf :> 1
=============================================================================
