-------------------------- MODULE MCBrowserStream --------------------------
(***************************************************************************)
(* One page, with two connections at most: its own and one that the server *)
(* has not given up yet.  They lead to one replica, which may be replaced, *)
(* or to two.                                                              *)
(***************************************************************************)
EXTENDS BrowserStream

MCSlots == {1, 2}
=============================================================================
