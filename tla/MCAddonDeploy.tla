---------------------------- MODULE MCAddonDeploy ----------------------------
(* An instance of AddonDeploy for TLC: Calico with a version that does not *)
(* support Typha and one that does, in two parameter sets; one chart.      *)
EXTENDS AddonDeploy, TLC

MCAddonList == <<"calico", "chart", "cluster-api">>
MCOffers == ("calico" :> {<<1, 0>>, <<2, 0>>, <<2, 1>>})
                @@ ("chart" :> {<<1, 0>>, <<2, 0>>})
                @@ ("cluster-api" :> {<<1, 0>>})
=============================================================================
