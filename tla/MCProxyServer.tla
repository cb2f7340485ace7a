---------------------------- MODULE MCProxyServer ----------------------------
(* Small instances of ProxyServer for TLC *)
EXTENDS ProxyServer, TLC

Symmetry == Permutations(Clients) \cup Permutations(Listeners)
=============================================================================
