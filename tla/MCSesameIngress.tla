-------------------------- MODULE MCSesameIngress --------------------------
(* Specs for TLC: those that differ in how Envoy is published, and one     *)
(* that sets every other field. Two releases share the tag of the image.   *)
EXTENDS SesameIngress, MCEnvoyPublishing

Crossed ==
    [LoadBalancer("AWS", "External") EXCEPT
        !.containerPorts = <<Port("http", 8443), Port("https", 8080)>>]

\* Of each type, valid and not, and every comparison between two of them.
IngressPublishings ==
    {LoadBalancer("AWS", "External"),
     [LoadBalancer("AWS", "External") EXCEPT !.aws = NLB, !.containerPorts = Swapped],
     [LoadBalancer("AWS", "External") EXCEPT !.azure = AzureParams],
     [LoadBalancer("Azure", "Internal") EXCEPT !.azure = AzureParams],
     NodePortService(<<Port("http", 30080), Port("https", 30443)>>),
     NodePortService(<<Port("https", 30080), Port("http", 0)>>),
     NodePortService(Nil),
     [LoadBalancer("GCP", "External") EXCEPT !.type = "ClusterIPService",
                                             !.containerPorts = Moved],
     Crossed}

Plain(p) ==
    [envoy |-> p, replicas |-> 2, class |-> Nil, gateway |-> Nil, external |-> Nil,
     placement |-> Nil]

Full ==
    [envoy |-> Crossed, replicas |-> 0, class |-> "internal", gateway |-> "gateway",
     external |-> TRUE, placement |-> [sesame |-> Nil, envoy |-> "edge"]]

MCSpecs == {Plain(p) : p \in IngressPublishings \ {Crossed}} \cup {Full}

MCReleases ==
    {[tag |-> "v2", sesame |-> "sesame:v2", envoy |-> "envoy:v1"],
     [tag |-> "v2", sesame |-> "local", envoy |-> "envoy:v1"]}

MCBudgets == {<<2, 0>>, <<1, 1>>}

=============================================================================
