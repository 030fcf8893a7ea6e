------------------------- MODULE MCFirewallBackend -------------------------
(***************************************************************************)
(* FirewallBackend on one IPv4 and one IPv6 address.                       *)
(***************************************************************************)
EXTENDS FirewallBackend
=============================================================================
