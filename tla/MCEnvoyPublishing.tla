------------------------- MODULE MCEnvoyPublishing -------------------------
(* Publishings for TLC: every branch of validation and of the generation   *)
(* of the Service, each alone or with the one it could be confused with.   *)
EXTENDS EnvoyPublishing

Port(n, number) == [name |-> n, number |-> number]
Standard == <<Port("http", 8080), Port("https", 8443)>>
Swapped == <<Port("https", 8443), Port("http", 8080)>>
Moved == <<Port("http", 8081), Port("https", 8443)>>

LoadBalancer(provider, scope) ==
    [type |-> "LoadBalancerService", containerPorts |-> Standard,
     nodePorts |-> Nil, scope |-> scope, provider |-> provider,
     aws |-> Nil, azure |-> Nil, gcp |-> Nil]

NLB == [type |-> "NLB", ids |-> "eipalloc"]
AzureParams == [address |-> "10.0.0.1", resourceGroup |-> "group", subnet |-> "subnet"]
GCPParams == [address |-> Nil, subnet |-> "subnet"]

LoadBalancers ==
    {LoadBalancer("AWS", "External"),
     LoadBalancer("AWS", "Internal"),
     [LoadBalancer("AWS", "External") EXCEPT !.aws = NLB, !.containerPorts = Swapped],
     [LoadBalancer("AWS", "External") EXCEPT !.azure = AzureParams],
     [LoadBalancer("Azure", "External") EXCEPT !.azure = AzureParams],
     [LoadBalancer("Azure", "Internal") EXCEPT !.azure = AzureParams],
     [LoadBalancer("GCP", "Internal") EXCEPT !.gcp = GCPParams],
     [LoadBalancer("GCP", "External") EXCEPT !.gcp = [GCPParams EXCEPT !.address = "host"]],
     [LoadBalancer("AWS", "External") EXCEPT !.containerPorts = Moved],
     [LoadBalancer("AWS", "External") EXCEPT
        !.containerPorts = <<Port("http", 8080), Port("https", 8080)>>]}

NodePortService(ports) ==
    [LoadBalancer("AWS", "External") EXCEPT !.type = "NodePortService", !.nodePorts = ports]

NodePortServices ==
    {NodePortService(Nil),
     NodePortService(<<Port("http", 30080), Port("https", 30443)>>),
     NodePortService(<<Port("https", 30080), Port("http", 0)>>),
     NodePortService(<<Port("http", 30080), Port("other", 30443)>>),
     [NodePortService(Nil) EXCEPT !.containerPorts = Swapped]}

ClusterIPServices ==
    {[LoadBalancer("AWS", "External") EXCEPT !.type = "ClusterIPService"],
     [LoadBalancer("GCP", "External") EXCEPT !.type = "ClusterIPService",
                                             !.containerPorts = Moved]}

MCPublishings == LoadBalancers \cup NodePortServices \cup ClusterIPServices

AnyPublishings == MCPublishings \cup
    {NodePortService(<<Port("http", 30080), Port("https", 30080)>>)}

=============================================================================
