-------------------------- MODULE EnvoyPublishing --------------------------
(***************************************************************************)
(* How Envoy is published to the network: a user edits                     *)
(* spec.networkPublishing.envoy of a Sesame; the operator validates it,    *)
(* generates the Service it asks for and brings the Service that is in the *)
(* API server in line with it, with a comparison of its own for each type. *)
(* The API server assigns node ports and refuses some updates; others edit *)
(* the Service behind the operator's back.                                 *)
(***************************************************************************)
EXTENDS Integers

CONSTANTS
    Publishings,  \* values of spec.networkPublishing.envoy users choose from
    ValidIPs,     \* the addresses that net.ParseIP accepts
    Range,        \* the API server's range of node ports
    Nil,          \* a pointer or list that is not set; no Service
    MaxEdits,     \* bound on what the user does
    MaxMeddles    \* bound on what others do to the Service

Types == {"LoadBalancerService", "NodePortService", "ClusterIPService"}

\* What the schema of the CRD lets through: lists of ports have two members,
\* and a number of 0 stands for one that is not set.
PortLists(numbers) ==
    [1..2 -> [name : {"http", "https", "other"}, number : numbers]]

ASSUME PublishingsAssumption ==
    \A p \in Publishings :
        /\ p.type \in Types
        /\ p.containerPorts \in PortLists(Nat \ {0})
        /\ p.nodePorts \in PortLists(Nat) \cup {Nil}
        /\ p.scope \in {"External", "Internal"}
        /\ p.provider \in {"AWS", "Azure", "GCP"}

ASSUME RangeAssumption == Range \subseteq Nat \ {0}

ASSUME BoundsAssumption == MaxEdits \in Nat /\ MaxMeddles \in Nat

VARIABLES
    want,     \* the Sesame's spec.networkPublishing.envoy
    svc,      \* the Envoy Service in the API server
    outcome,  \* of the last reconcile, "pending" if it is out of date
    edits, meddles  \* what is left of the bounds

vars == <<want, svc, outcome, edits, meddles>>

Outcomes == {"pending", "invalid", "refused", "panic", "written", "insync"}

-----------------------------------------------------------------------------
(* validation.Sesame, without its list of other Sesames.                   *)

ContainerPorts(p) ==
    LET ports == p.containerPorts
    IN  /\ ports[1].number # ports[2].number
        /\ {ports[1].name, ports[2].name} = {"http", "https"}

\* The two numbers are pointers to variables of their own, decoded from JSON:
\* they are never equal, so only the names are checked.
NodePorts(p) ==
    LET ports == p.nodePorts
    IN  ports = Nil \/ {ports[1].name, ports[2].name} = {"http", "https"}

Address(p) ==
    CASE p.provider = "Azure" /\ p.azure # Nil -> p.azure.address
      [] p.provider = "GCP" /\ p.gcp # Nil -> p.gcp.address
      [] OTHER -> Nil

LoadBalancerAddress(p) == Address(p) \in ValidIPs \cup {Nil}

\* Only the chosen provider's parameters may be set.
LoadBalancerProvider(p) ==
    /\ p.aws # Nil => p.provider = "AWS"
    /\ p.azure # Nil => p.provider = "Azure"
    /\ p.gcp # Nil => p.provider = "GCP"

Valid(p) ==
    /\ ContainerPorts(p)
    /\ p.type = "NodePortService" => NodePorts(p)
    /\ p.type = "LoadBalancerService" =>
          LoadBalancerAddress(p) /\ LoadBalancerProvider(p)

-----------------------------------------------------------------------------
(* DesiredEnvoyService. Annotations are pairs of a name and a value.       *)

IsELB(p) == p.provider = "AWS" /\ (p.aws = Nil \/ p.aws.type = "Classic")

\* Annotation a if the condition holds.
When(condition, a) == IF condition THEN {a} ELSE {}

AllocationIDsNeeded(p) ==
    /\ p.provider = "AWS" /\ p.scope = "External"
    /\ p.aws # Nil
    /\ p.aws.type = "NLB" /\ p.aws.ids # Nil

ResourceGroupNeeded(p) ==
    /\ p.provider = "Azure" /\ p.scope = "External"
    /\ p.azure # Nil
    /\ p.azure.resourceGroup # Nil

AzureSubnetNeeded(p) ==
    /\ p.provider = "Azure" /\ p.scope = "Internal"
    /\ p.azure # Nil
    /\ p.azure.subnet # Nil

GCPSubnetNeeded(p) ==
    /\ p.provider = "GCP" /\ p.scope = "Internal"
    /\ p.gcp # Nil
    /\ p.gcp.subnet # Nil

Annotations(p) ==
    IF p.type # "LoadBalancerService" THEN {}
    ELSE When(IsELB(p), <<"aws-backend-protocol", "tcp">>)
         \cup When(IsELB(p), <<"aws-proxy-protocol", "*">>)
         \cup When(p.provider = "AWS" /\ ~ IsELB(p), <<"aws-type", "nlb">>)
         \cup When(AllocationIDsNeeded(p), <<"aws-eip-allocations", p.aws.ids>>)
         \cup When(ResourceGroupNeeded(p), <<"azure-resource-group", p.azure.resourceGroup>>)
         \cup When(AzureSubnetNeeded(p), <<"azure-subnet", p.azure.subnet>>)
         \cup When(GCPSubnetNeeded(p), <<"gcp-subnet", p.gcp.subnet>>)
         \cup When(p.scope = "Internal", <<p.provider, "internal">>)

LoadBalancerIP(p) ==
    IF p.type = "LoadBalancerService" THEN Address(p) ELSE Nil

\* The node port asked for, 0 for any.
NodePort(p, name) ==
    IF p.type = "NodePortService" /\ p.nodePorts # Nil
    THEN LET i == CHOOSE j \in 1..2 : p.nodePorts[j].name = name
         IN  p.nodePorts[i].number
    ELSE 0

\* Deviation: leaves the number of the second port at the zero value.
ServicePortUnnumbered(p, containerPort) ==
    [name |-> containerPort.name,
     port |-> IF containerPort.name = "http" THEN 80 ELSE 0,
     target |-> containerPort.number,
     nodePort |-> NodePort(p, containerPort.name)]

ServicePort(p, containerPort) ==
    [name |-> containerPort.name,
     port |-> IF containerPort.name = "http" THEN 80 ELSE 443,
     target |-> containerPort.number,
     nodePort |-> NodePort(p, containerPort.name)]

Desired(p) ==
    [type |-> p.type,
     ports |-> [i \in 1..2 |-> ServicePort(p, p.containerPorts[i])],
     selector |-> "envoy",
     policy |-> IF p.type = "ClusterIPService" THEN Nil ELSE "Local",
     annotations |-> Annotations(p),
     ip |-> LoadBalancerIP(p)]

-----------------------------------------------------------------------------
(* The comparisons of the equality package, as what they make of current;  *)
(* nothing has changed if that is current itself.                          *)

\* Deviation: compares the node ports too.
LoadBalancerServiceReset(current, expected) ==
    [current EXCEPT !.type = expected.type, !.ports = expected.ports,
                    !.selector = expected.selector, !.policy = expected.policy,
                    !.annotations = expected.annotations, !.ip = expected.ip]

\* Deviation: forgets the annotations.
LoadBalancerServicePlain(current, expected) ==
    [current EXCEPT !.type = expected.type, !.ports = expected.ports,
                    !.selector = expected.selector, !.policy = expected.policy,
                    !.ip = expected.ip]

\* Assigned node ports stay with the ports of the same index.
LoadBalancerServiceChanged(current, expected) ==
    [current EXCEPT
        !.type = expected.type,
        !.ports = IF DOMAIN @ # DOMAIN expected.ports THEN expected.ports
                  ELSE [i \in DOMAIN @ |->
                          [expected.ports[i] EXCEPT !.nodePort = current.ports[i].nodePort]],
        !.selector = expected.selector,
        !.policy = expected.policy,
        !.annotations = expected.annotations,
        !.ip = expected.ip]

NodePortServiceChanged(current, expected) ==
    [current EXCEPT !.type = expected.type, !.ports = expected.ports,
                    !.selector = expected.selector, !.policy = expected.policy,
                    !.annotations = expected.annotations]

\* It walks current's ports and looks up the expected ones by their index.
NodePortServicePanics(current, expected) ==
    \E i \in DOMAIN current.ports : i \notin DOMAIN expected.ports

ClusterIPServiceChanged(current, expected) ==
    [current EXCEPT !.type = expected.type, !.ports = expected.ports,
                    !.selector = expected.selector]

Updated(p, current) ==
    CASE p.type = "NodePortService" -> NodePortServiceChanged(current, Desired(p))
      [] p.type = "ClusterIPService" -> ClusterIPServiceChanged(current, Desired(p))
      [] OTHER -> LoadBalancerServiceChanged(current, Desired(p))

-----------------------------------------------------------------------------
(* The API server's side of a Create or Update of the Service.             *)

Used(ports) == {ports[i].nodePort : i \in DOMAIN ports} \ {0}

\* The port of that name had this node port, unless another one takes it now.
Kept(name, ports) ==
    IF svc = Nil THEN {}
    ELSE {svc.ports[i].nodePort : i \in
             {j \in DOMAIN svc.ports : svc.ports[j].name = name}}
         \ (Used(ports) \cup {0})

Assigned(port, ports) ==
    IF port.nodePort # 0 THEN {port.nodePort}
    ELSE IF Kept(port.name, ports) # {} THEN Kept(port.name, ports)
    ELSE Range \ Used(ports)

Assignments(ports) ==
    {numbers \in [DOMAIN ports -> Range \cup Used(ports)] :
        /\ \A i \in DOMAIN ports : numbers[i] \in Assigned(ports[i], ports)
        /\ \A i, j \in DOMAIN ports : i # j => numbers[i] # numbers[j]}

\* The Services the server may make of s. One that others cannot reach has no
\* node ports and no traffic policy.
Admitted(s) ==
    IF s.type = "ClusterIPService"
    THEN {[s EXCEPT !.policy = Nil,
                    !.ports = [i \in DOMAIN @ |-> [@[i] EXCEPT !.nodePort = 0]]]}
    ELSE {[s EXCEPT !.ports = [i \in DOMAIN @ |-> [@[i] EXCEPT !.nodePort = numbers[i]]]] :
            numbers \in Assignments(s.ports)}

\* A server before release 1.23 refuses a policy instead of dropping it.
Refusable(s) ==
    \/ Admitted(s) = {}
    \/ s.type = "ClusterIPService" /\ s.policy # Nil

Write(s) ==
    \/ /\ svc' \in Admitted(s)
       /\ outcome' = "written"
    \/ /\ Refusable(s)
       /\ outcome' = "refused"
       /\ UNCHANGED svc

-----------------------------------------------------------------------------

Init ==
    /\ want \in Publishings
    /\ svc = Nil
    /\ outcome = "pending"
    /\ edits = MaxEdits
    /\ meddles = MaxMeddles

\* A panic ends the operator's process; it starts again and reconciles.
Reconcile ==
    /\ IF ~ Valid(want) THEN outcome' = "invalid" /\ UNCHANGED svc
       ELSE IF svc = Nil THEN Write(Desired(want))
       ELSE IF want.type = "NodePortService" /\ NodePortServicePanics(svc, Desired(want))
       THEN outcome' = "panic" /\ UNCHANGED svc
       ELSE IF Updated(want, svc) = svc THEN outcome' = "insync" /\ UNCHANGED svc
       ELSE Write(Updated(want, svc))
    /\ UNCHANGED <<want, edits, meddles>>

EditPublishing ==
    /\ edits > 0
    /\ edits' = edits - 1
    /\ want' \in Publishings \ {want}
    /\ outcome' = "pending"
    /\ UNCHANGED <<svc, meddles>>

\* Others delete the Service or change it in a way the server admits.
ExtraPort == [name |-> "other", port |-> 8002, target |-> 8002, nodePort |-> 0]

AddPort(s) ==
    [s EXCEPT !.ports = [i \in 1..3 |-> IF i = 3 THEN ExtraPort ELSE @[i]]]

Meddle ==
    /\ meddles > 0
    /\ meddles' = meddles - 1
    /\ svc # Nil
    /\ \/ svc' = Nil
       \/ \E s \in {AddPort(svc),
                    [svc EXCEPT !.annotations = @ \cup {<<"other", "set">>}],
                    [svc EXCEPT !.annotations = {}],
                    [svc EXCEPT !.selector = "other"],
                    [svc EXCEPT !.ip = Nil],
                    [svc EXCEPT !.ports[1].nodePort = CHOOSE n \in Range : TRUE],
                    [svc EXCEPT !.ports[1].target = 9090]} :
             /\ s # svc
             /\ svc' \in Admitted(s)
    /\ outcome' = "pending"
    /\ UNCHANGED <<want, edits>>

Next == Reconcile \/ EditPublishing \/ Meddle

Spec == Init /\ [][Next]_vars

-----------------------------------------------------------------------------
(* Properties.                                                             *)

ServicePorts ==
    [name : {"http", "https", "other"}, port : Nat \ {0}, target : Nat \ {0},
     nodePort : Nat]

\* The type invariant: the Service is missing or has two or three ports.
TypeOK ==
    /\ want \in Publishings
    /\ outcome \in Outcomes
    /\ svc # Nil =>
         /\ svc.type \in Types
         /\ svc.ports \in [1..2 -> ServicePorts] \cup [1..3 -> ServicePorts]
    /\ edits \in 0..MaxEdits
    /\ meddles \in 0..MaxMeddles

\* After a reconcile that ends well, whatever the Service was before, of
\* whatever type, and whoever had changed it, it publishes Envoy as the spec
\* says (updateEnvoyServiceIfNeeded, service.go:392-418).
Matches(s, p) ==
    LET expected == Desired(p)
    IN  /\ s.type = expected.type
        /\ s.selector = expected.selector
        /\ DOMAIN s.ports = 1..2
        /\ \A i \in 1..2 :
             LET port == s.ports[i]
                 asked == expected.ports[i]
             IN  /\ port.name = asked.name
                 /\ port.port = asked.port
                 /\ port.target = asked.target
                 /\ asked.nodePort # 0 => port.nodePort = asked.nodePort
        /\ p.type # "ClusterIPService" =>
             /\ s.annotations = expected.annotations
             /\ s.policy = expected.policy
        /\ p.type = "LoadBalancerService" => s.ip = expected.ip

Published == outcome \in {"written", "insync"} => Matches(svc, want)

\* Once the Service is as the spec asks, a reconcile does not write it again:
\* what the API server assigned does not count as a difference (equality.go:
\* 127-129 and 167-169), unless the spec leaves a node port of a NodePort
\* Service open.
Settled(p) ==
    p.type = "NodePortService" =>
        \A name \in {"http", "https"} : NodePort(p, name) # 0

Quiescent ==
    outcome \in {"written", "insync"} /\ Settled(want) => Updated(want, svc) = svc

\* "Names and port numbers must be unique in the list" of node ports
\* (sesame_types.go:295): a spec that breaks this is found invalid.
NodePortsUnique ==
    outcome \notin {"pending", "invalid"} /\ want.type = "NodePortService"
    /\ want.nodePorts # Nil =>
        \/ want.nodePorts[1].number # want.nodePorts[2].number
        \/ want.nodePorts[1].number = 0

\* "NodePortServiceChanged checks if current and expected match and if not,
\* returns true and the expected Service resource" (equality.go:236-237), for
\* any current Service.
NeverPanics == outcome # "panic"

=============================================================================
