------------------------ MODULE MCOptionalInformers ------------------------
(* Instances of OptionalInformers for TLC.                                 *)
EXTENDS OptionalInformers

CONSTANTS routesV1, routesV1beta1, virtualServersV1, gateway, f5, routes, virtualServers

\* One resource in two versions, and one of the other provider.
Table == <<routesV1, routesV1beta1, virtualServersV1>>
Groupings == [g \in {routesV1, routesV1beta1, virtualServersV1} |->
                IF g = virtualServersV1 THEN f5 ELSE gateway]
Namings == [g \in {routesV1, routesV1beta1, virtualServersV1} |->
              IF g = virtualServersV1 THEN virtualServers ELSE routes]

=============================================================================
