-------------------------- MODULE MCLoginThrottle --------------------------
(***************************************************************************)
(* Two requests at a time, from one client that connects directly and one  *)
(* behind a proxy; the second of their buckets is already over the bound.  *)
(***************************************************************************)
EXTENDS LoginThrottle, TLC

CONSTANTS forwarded, proxy, direct, first, second

MCClients == {forwarded, proxy, direct}
MCTrusted == {proxy}
MCRequests ==
  {[peer |-> proxy, forwarded |-> forwarded], [peer |-> direct, forwarded |-> forwarded]}
MCAttempts == {first, second}
MCSymmetry == Permutations(MCAttempts)
=============================================================================
