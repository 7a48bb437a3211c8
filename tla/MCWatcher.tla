------------------------------ MODULE MCWatcher ------------------------------
(* Instances of Watcher for TLC.                                           *)
EXTENDS Watcher

CONSTANTS ingresses, pods, gateways

TypedOnly == <<ingresses, pods>>
TypedAndOptional == <<ingresses, gateways>>

\* The second change of a cache undoes the first, the third does not show.
ShownContents == [i \in Contents |-> IF i = 1 THEN "one" ELSE "none"]

=============================================================================
