----------------------------- MODULE Freshness -----------------------------
(***************************************************************************)
(* The one freshness rule of the boundary (src/sut/freshness.py), used on  *)
(* the iat of invocations, proofs and single-use artifacts.                *)
(***************************************************************************)
EXTENDS Integers

CONSTANT Delta   \* DELTA_SECONDS: the freshness window, and the cache's TTL

(* |now - iat| <= Delta, inclusive at both ends and symmetric. *)
IsFresh(now, iat) == now - iat <= Delta /\ iat - now <= Delta

=============================================================================
