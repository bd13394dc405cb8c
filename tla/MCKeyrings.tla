----------------------------- MODULE MCKeyrings -----------------------------
(* Two monitors and a host that is none, in inventory order. *)
EXTENDS CephKeyrings

CONSTANTS h1, h2, h3

MCInventory == <<h1, h2, h3>>
=============================================================================
