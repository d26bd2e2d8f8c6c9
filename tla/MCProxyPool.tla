---------------------------- MODULE MCProxyPool ----------------------------
(* Finite instances of ProxyPool. *)
EXTENDS ProxyPool
=============================================================================
