----------------------------- MODULE MCDelivery -----------------------------
(***************************************************************************)
(* Model values for checking module Delivery with TLC.                     *)
(***************************************************************************)
EXTENDS DeliveryRefinement

CONSTANTS owner, contact, d1, d2, w1, w2

=============================================================================
