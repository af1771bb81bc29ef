----------------------- MODULE EnvoyPublishingProofs -----------------------
(***************************************************************************)
(* Theorems about EnvoyPublishing, for any set of publishings that the CRD *)
(* admits, any range of node ports and any number of edits by anybody.     *)
(***************************************************************************)
EXTENDS EnvoyPublishing, TLAPS

\* The fields of a Service and the shape of its ports.
IsService(s) ==
    /\ s = [type |-> s.type, ports |-> s.ports, selector |-> s.selector,
            policy |-> s.policy, annotations |-> s.annotations, ip |-> s.ip]
    /\ s.type \in Types
    /\ s.ports \in [1..2 -> ServicePorts] \cup [1..3 -> ServicePorts]

\* The type invariant, with the record made explicit.
IInv == TypeOK /\ (svc # Nil => IsService(svc))

\* A container port that validation lets through has a known name and a number.
LEMMA ContainerPortsTyped ==
  ASSUME NEW p \in Publishings, Valid(p), NEW i \in 1..2
  PROVE  /\ p.containerPorts[i].name \in {"http", "https"}
         /\ p.containerPorts[i].number \in Nat \ {0}
<1>1. p.containerPorts \in PortLists(Nat \ {0})
  BY PublishingsAssumption
<1>2. p.containerPorts[i] \in [name : {"http", "https", "other"}, number : Nat \ {0}]
  BY <1>1 DEF PortLists
<1>3. p.containerPorts[i].number \in Nat \ {0}
  BY <1>2
<1>4. {p.containerPorts[1].name, p.containerPorts[2].name} = {"http", "https"}
  BY DEF Valid, ContainerPorts
<1>5. p.containerPorts[i].name \in {p.containerPorts[1].name, p.containerPorts[2].name}
  <2>1. i = 1 \/ i = 2
    OBVIOUS
  <2> QED
    BY <2>1
<1> QED
  BY <1>3, <1>4, <1>5

\* A node port that was asked for is a number.
LEMMA NodePortTyped ==
  ASSUME NEW p \in Publishings, NEW name \in {"http", "https"}, Valid(p)
  PROVE  NodePort(p, name) \in Nat
<1>1. CASE p.type = "NodePortService" /\ p.nodePorts # Nil
  <2>1. p.nodePorts \in PortLists(Nat)
    BY <1>1, PublishingsAssumption
  <2>2. {p.nodePorts[1].name, p.nodePorts[2].name} = {"http", "https"}
    BY <1>1 DEF Valid, NodePorts
  <2>3. \E j \in 1..2 : p.nodePorts[j].name = name
    BY <2>2
  <2>4. \A j \in 1..2 : p.nodePorts[j].number \in Nat
    BY <2>1 DEF PortLists
  <2> QED
    BY <1>1, <2>3, <2>4 DEF NodePort
<1>2. CASE ~ (p.type = "NodePortService" /\ p.nodePorts # Nil)
  BY <1>2 DEF NodePort
<1> QED
  BY <1>1, <1>2

\* What a valid spec asks for is a Service with two ports.
LEMMA DesiredTyped ==
  ASSUME NEW p \in Publishings, Valid(p)
  PROVE  IsService(Desired(p)) /\ Desired(p).ports \in [1..2 -> ServicePorts]
<1>1. p.type \in Types
  BY PublishingsAssumption
<1>2. ASSUME NEW i \in 1..2 PROVE ServicePort(p, p.containerPorts[i]) \in ServicePorts
  <2>1. PICK c : c = p.containerPorts[i]
    OBVIOUS
  <2>2. c.name \in {"http", "https"} /\ c.number \in Nat \ {0}
    BY <2>1, ContainerPortsTyped
  <2>3. NodePort(p, c.name) \in Nat
    BY <2>2, NodePortTyped
  <2>4. ServicePort(p, c) \in ServicePorts
    BY <2>2, <2>3 DEF ServicePort, ServicePorts
  <2> QED
    BY <2>1, <2>4
<1>3. Desired(p).ports \in [1..2 -> ServicePorts]
  BY <1>2 DEF Desired
<1> QED
  BY <1>1, <1>3 DEF IsService, Desired

\* So is every Service an update makes of one.
LEMMA UpdatedTyped ==
  ASSUME NEW p \in Publishings, Valid(p), NEW s, IsService(s)
  PROVE  IsService(Updated(p, s))
<1>1. IsService(Desired(p)) /\ Desired(p).ports \in [1..2 -> ServicePorts]
  BY DesiredTyped
<1>2. CASE p.type = "NodePortService"
  BY <1>1, <1>2 DEF Updated, NodePortServiceChanged, IsService
<1>3. CASE p.type = "ClusterIPService"
  BY <1>1, <1>3 DEF Updated, ClusterIPServiceChanged, IsService
<1>4. CASE p.type \notin {"NodePortService", "ClusterIPService"}
  <2>1. Updated(p, s) = LoadBalancerServiceChanged(s, Desired(p))
    BY <1>4 DEF Updated
  <2>2. LoadBalancerServiceChanged(s, Desired(p)).ports \in [1..2 -> ServicePorts]
    BY <1>1 DEF LoadBalancerServiceChanged, IsService, ServicePorts
  <2> QED
    BY <1>1, <2>1, <2>2 DEF LoadBalancerServiceChanged, IsService
<1> QED
  BY <1>2, <1>3, <1>4

\* The server changes node ports that were not asked for, and what a Service of
\* type ClusterIP has no use for, and nothing else.
LEMMA AdmittedKeeps ==
  ASSUME NEW s, IsService(s), svc # Nil => IsService(svc), NEW r \in Admitted(s)
  PROVE  /\ IsService(r)
         /\ r.type = s.type /\ r.selector = s.selector
         /\ r.annotations = s.annotations /\ r.ip = s.ip
         /\ DOMAIN r.ports = DOMAIN s.ports
         /\ \A i \in DOMAIN s.ports :
              /\ r.ports[i].name = s.ports[i].name
              /\ r.ports[i].port = s.ports[i].port
              /\ r.ports[i].target = s.ports[i].target
         /\ s.type # "ClusterIPService" =>
              /\ r.policy = s.policy
              /\ \A i \in DOMAIN s.ports :
                   s.ports[i].nodePort # 0 => r.ports[i].nodePort = s.ports[i].nodePort
<1>dom. DOMAIN s.ports = 1..2 \/ DOMAIN s.ports = 1..3
  BY DEF IsService
<1>ports. \A i \in DOMAIN s.ports : s.ports[i] \in ServicePorts
  BY DEF IsService
<1>1. CASE s.type = "ClusterIPService"
  <2>1. r = [s EXCEPT !.policy = Nil,
                      !.ports = [i \in DOMAIN s.ports |-> [s.ports[i] EXCEPT !.nodePort = 0]]]
    BY <1>1 DEF Admitted
  <2>2. /\ r.type = s.type /\ r.selector = s.selector
        /\ r.annotations = s.annotations /\ r.ip = s.ip
        /\ r.ports = [i \in DOMAIN s.ports |-> [s.ports[i] EXCEPT !.nodePort = 0]]
        /\ r = [type |-> r.type, ports |-> r.ports, selector |-> r.selector,
                policy |-> r.policy, annotations |-> r.annotations, ip |-> r.ip]
    BY <2>1 DEF IsService
  <2>3. \A i \in DOMAIN s.ports :
          /\ r.ports[i] \in ServicePorts
          /\ r.ports[i].name = s.ports[i].name
          /\ r.ports[i].port = s.ports[i].port
          /\ r.ports[i].target = s.ports[i].target
    BY <1>ports, <2>2 DEF ServicePorts
  <2>4. r.ports \in [1..2 -> ServicePorts] \cup [1..3 -> ServicePorts]
    BY <1>dom, <2>2, <2>3
  <2> QED
    BY <1>1, <2>2, <2>3, <2>4 DEF IsService
<1>2. CASE s.type # "ClusterIPService"
  <2>1. PICK numbers \in Assignments(s.ports) :
          r = [s EXCEPT !.ports =
                 [i \in DOMAIN s.ports |-> [s.ports[i] EXCEPT !.nodePort = numbers[i]]]]
    BY <1>2 DEF Admitted
  <2>2. \A i \in DOMAIN s.ports : numbers[i] \in Range \cup Used(s.ports)
    <3>1. numbers \in [DOMAIN s.ports -> Range \cup Used(s.ports)]
      BY DEF Assignments
    <3> QED
      BY <3>1
  <2>3. Range \cup Used(s.ports) \subseteq Nat
    <3>1. \A i \in DOMAIN s.ports : s.ports[i].nodePort \in Nat
      BY <1>ports DEF ServicePorts
    <3>2. \A n \in Used(s.ports) : n \in Nat
      BY <3>1 DEF Used
    <3> QED
      BY <3>2, RangeAssumption
  <2>4. \A i \in DOMAIN s.ports : s.ports[i].nodePort # 0 => numbers[i] = s.ports[i].nodePort
    BY DEF Assignments, Assigned
  <2>5. /\ r.type = s.type /\ r.selector = s.selector /\ r.policy = s.policy
        /\ r.annotations = s.annotations /\ r.ip = s.ip
        /\ r.ports = [i \in DOMAIN s.ports |-> [s.ports[i] EXCEPT !.nodePort = numbers[i]]]
        /\ r = [type |-> r.type, ports |-> r.ports, selector |-> r.selector,
                policy |-> r.policy, annotations |-> r.annotations, ip |-> r.ip]
    BY <2>1 DEF IsService
  <2>6. \A i \in DOMAIN s.ports :
          /\ r.ports[i] \in ServicePorts
          /\ r.ports[i].name = s.ports[i].name
          /\ r.ports[i].port = s.ports[i].port
          /\ r.ports[i].target = s.ports[i].target
          /\ r.ports[i].nodePort = numbers[i]
    BY <1>ports, <2>2, <2>3, <2>5 DEF ServicePorts
  <2>7. r.ports \in [1..2 -> ServicePorts] \cup [1..3 -> ServicePorts]
    BY <1>dom, <2>5, <2>6
  <2> QED
    BY <1>2, <2>4, <2>5, <2>6, <2>7 DEF IsService
<1> QED
  BY <1>1, <1>2

\* The generated Service is what the spec asks for, and so is any Service after
\* the comparison for its new type has been applied to it.
LEMMA UpdatedMatches ==
  ASSUME NEW p \in Publishings, Valid(p), NEW s, IsService(s)
  PROVE  Matches(Updated(p, s), p) /\ Matches(Desired(p), p)
<1>1. IsService(Desired(p)) /\ Desired(p).ports \in [1..2 -> ServicePorts]
  BY DesiredTyped
<1>2. Matches(Desired(p), p)
  BY <1>1 DEF Matches
<1>3. CASE p.type = "NodePortService"
  BY <1>1, <1>3 DEF Updated, NodePortServiceChanged, IsService, Matches
<1>4. CASE p.type = "ClusterIPService"
  BY <1>1, <1>4 DEF Updated, ClusterIPServiceChanged, IsService, Matches
<1>5. CASE p.type = "LoadBalancerService"
  <2>1. Updated(p, s) = LoadBalancerServiceChanged(s, Desired(p))
    BY <1>5 DEF Updated
  <2>2. \A i \in 1..2 : Desired(p).ports[i].nodePort = 0
    BY <1>5 DEF Desired, ServicePort, NodePort
  <2>3. DOMAIN LoadBalancerServiceChanged(s, Desired(p)).ports = 1..2
    BY <1>1 DEF LoadBalancerServiceChanged, IsService
  <2>4. \A i \in 1..2 :
          LET port == LoadBalancerServiceChanged(s, Desired(p)).ports[i]
              asked == Desired(p).ports[i]
          IN  port.name = asked.name /\ port.port = asked.port /\ port.target = asked.target
    BY <1>1 DEF LoadBalancerServiceChanged, IsService, ServicePorts
  <2> QED
    BY <1>1, <2>1, <2>2, <2>3, <2>4 DEF LoadBalancerServiceChanged, IsService, Matches
<1> QED
  BY <1>2, <1>3, <1>4, <1>5, PublishingsAssumption DEF Types

\* A Service that the server has admitted still matches.
LEMMA AdmittedMatches ==
  ASSUME NEW p \in Publishings, NEW s, IsService(s), Matches(s, p),
         svc # Nil => IsService(svc), NEW r \in Admitted(s)
  PROVE  Matches(r, p)
<1>1. s.type = p.type
  BY DEF Matches, Desired
<1>2. CASE p.type = "ClusterIPService"
  <2>1. \A i \in 1..2 : Desired(p).ports[i].nodePort = 0
    BY <1>2 DEF Desired, ServicePort, NodePort
  <2> QED
    BY <1>1, <1>2, <2>1, AdmittedKeeps DEF Matches
<1>3. CASE p.type # "ClusterIPService"
  BY <1>1, <1>3, AdmittedKeeps DEF Matches
<1> QED
  BY <1>2, <1>3

-----------------------------------------------------------------------------

\* What the type invariant and Published need to be inductive.
PInv == IInv /\ Published

\* A write leaves a Service of the right form that matches, or nothing changed.
LEMMA WriteKeeps ==
  ASSUME NEW p \in Publishings, NEW s, IsService(s), Matches(s, p),
         svc # Nil => IsService(svc), Write(s)
  PROVE  /\ outcome' \in {"written", "refused"}
         /\ svc' # svc => IsService(svc')
         /\ outcome' = "written" => IsService(svc') /\ Matches(svc', p)
<1>1. CASE svc' \in Admitted(s) /\ outcome' = "written"
  <2>1. IsService(svc')
    BY <1>1, AdmittedKeeps
  <2>2. Matches(svc', p)
    BY <1>1, AdmittedMatches
  <2> QED
    BY <1>1, <2>1, <2>2
<1>2. CASE outcome' = "refused" /\ UNCHANGED svc
  BY <1>2
<1> QED
  BY <1>1, <1>2 DEF Write

\* What others make of the Service is a Service.
LEMMA MeddleTyped ==
  ASSUME IInv, Range # {}, Meddle, svc' # Nil
  PROVE  IsService(svc')
<1>1. IsService(svc)
  BY DEF Meddle, IInv
<1>2. PICK s \in {AddPort(svc),
                  [svc EXCEPT !.annotations = @ \cup {<<"other", "set">>}],
                  [svc EXCEPT !.annotations = {}],
                  [svc EXCEPT !.selector = "other"],
                  [svc EXCEPT !.ip = Nil],
                  [svc EXCEPT !.ports[1].nodePort = CHOOSE n \in Range : TRUE],
                  [svc EXCEPT !.ports[1].target = 9090]} :
             svc' \in Admitted(s)
  BY DEF Meddle
<1>3. IsService(s)
  <2>1. CASE s = AddPort(svc)
    <3>1. ExtraPort \in ServicePorts
      BY DEF ExtraPort, ServicePorts
    <3>2. s.ports \in [1..3 -> ServicePorts]
      BY <1>1, <2>1, <3>1 DEF AddPort, IsService
    <3> QED
      BY <1>1, <2>1, <3>2 DEF AddPort, IsService
  <2>2. CASE s = [svc EXCEPT !.ports[1].nodePort = CHOOSE n \in Range : TRUE]
    <3>1. (CHOOSE n \in Range : TRUE) \in Nat
      BY RangeAssumption
    <3> DEFINE free == CHOOSE n \in Range : TRUE
    <3>2. s = [svc EXCEPT !.ports[1].nodePort = free]
      BY <2>2
    <3>3. free \in Nat
      BY <3>1
    <3> HIDE DEF free
    <3>4. s.ports \in [1..2 -> ServicePorts] \cup [1..3 -> ServicePorts]
      BY <1>1, <3>2, <3>3 DEF IsService, ServicePorts
    <3> QED
      BY <1>1, <3>2, <3>4 DEF IsService
  <2>3. CASE s = [svc EXCEPT !.ports[1].target = 9090]
    <3>1. s.ports \in [1..2 -> ServicePorts] \cup [1..3 -> ServicePorts]
      BY <1>1, <2>3 DEF IsService, ServicePorts
    <3> QED
      BY <1>1, <2>3, <3>1 DEF IsService
  <2>4. CASE s \in {[svc EXCEPT !.annotations = @ \cup {<<"other", "set">>}],
                    [svc EXCEPT !.annotations = {}],
                    [svc EXCEPT !.selector = "other"],
                    [svc EXCEPT !.ip = Nil]}
    BY <1>1, <2>4 DEF IsService
  <2> QED
    BY <1>2, <2>1, <2>2, <2>3, <2>4
<1> QED
  BY <1>1, <1>2, <1>3, AdmittedKeeps

\* A reconcile ends with what it says.
LEMMA ReconcileKeeps ==
  ASSUME PInv, Reconcile
  PROVE  PInv'
<1> USE DEF PInv, IInv
<1>1. /\ want \in Publishings /\ want' = want
      /\ edits \in 0..MaxEdits /\ edits' = edits
      /\ meddles \in 0..MaxMeddles /\ meddles' = meddles
      /\ svc # Nil => IsService(svc)
  BY DEF TypeOK, Reconcile
<1>2. SUFFICES /\ outcome' \in Outcomes
               /\ svc' # Nil => IsService(svc')
               /\ outcome' \in {"written", "insync"} => Matches(svc', want)
  BY <1>1 DEF TypeOK, Published, IsService
<1>3. CASE outcome' \in {"invalid", "panic"} /\ UNCHANGED svc
  BY <1>1, <1>3 DEF Outcomes
<1>4. CASE Valid(want) /\ svc = Nil /\ Write(Desired(want))
  <2>1. IsService(Desired(want))
    BY <1>1, <1>4, DesiredTyped
  <2>2. Matches(Desired(want), want)
    BY <1>1, <1>4, <2>1, UpdatedMatches
  <2> QED
    BY <1>1, <1>4, <2>1, <2>2, WriteKeeps DEF Outcomes
<1>5. CASE Valid(want) /\ svc # Nil /\ Updated(want, svc) = svc
           /\ outcome' = "insync" /\ UNCHANGED svc
  <2>1. Matches(svc, want)
    BY <1>1, <1>5, UpdatedMatches
  <2> QED
    BY <1>1, <1>5, <2>1 DEF Outcomes
<1>6. CASE Valid(want) /\ svc # Nil /\ Write(Updated(want, svc))
  <2>1. IsService(Updated(want, svc)) /\ Matches(Updated(want, svc), want)
    BY <1>1, <1>6, UpdatedTyped, UpdatedMatches
  <2> QED
    BY <1>1, <1>6, <2>1, WriteKeeps DEF Outcomes
<1> QED
  BY <1>3, <1>4, <1>5, <1>6 DEF Reconcile

\* The invariant is inductive.
LEMMA PInvInductive ==
  ASSUME Range # {}
  PROVE  /\ Init => PInv
         /\ PInv /\ [Next]_vars => PInv'
<1>1. Init => PInv
  BY BoundsAssumption DEF Init, PInv, IInv, TypeOK, Outcomes, Published
<1>2. ASSUME PInv, [Next]_vars PROVE PInv'
  <2>1. CASE Reconcile
    BY <1>2, <2>1, ReconcileKeeps
  <2>2. CASE EditPublishing
    BY <1>2, <2>2, BoundsAssumption
    DEF EditPublishing, PInv, IInv, TypeOK, IsService, Outcomes, Published
  <2>3. CASE Meddle
    <3>1. svc' # Nil => IsService(svc')
      BY <1>2, <2>3, MeddleTyped DEF PInv
    <3> QED
      BY <1>2, <2>3, <3>1, BoundsAssumption
      DEF Meddle, PInv, IInv, TypeOK, IsService, Outcomes, Published
  <2>4. CASE UNCHANGED vars
    BY <1>2, <2>4
    DEF vars, PInv, IInv, TypeOK, IsService, Outcomes, Published, Matches
  <2> QED
    BY <1>2, <2>1, <2>2, <2>3, <2>4 DEF Next
<1> QED
  BY <1>1, <1>2

\* The Service in the API server always has the shape the comparisons rely on,
\* whatever the user asks for and others do to it.
THEOREM ServiceTyped ==
  ASSUME Range # {}
  PROVE  Spec => []TypeOK
<1>1. PInv => TypeOK
  BY DEF PInv, IInv
<1> QED
  BY <1>1, PInvInductive, PTL DEF Spec

\* After every reconcile that ends well the Service publishes Envoy as the spec
\* asks, for every spec that the CRD admits and whatever the Service had been,
\* of whatever type and however changed by others (service.go:392-418).
THEOREM PublishedAsAsked ==
  ASSUME Range # {}
  PROVE  Spec => []Published
<1>1. PInv => Published
  BY DEF PInv
<1> QED
  BY <1>1, PInvInductive, PTL DEF Spec

-----------------------------------------------------------------------------
(* A Service that is as the spec asks is not written again.                *)

\* In a Service of type ClusterIP no port has a node port.
NoNodePorts(s) == \A i \in DOMAIN s.ports : s.ports[i].nodePort = 0

\* The comparison finds no difference in a Service that matches.
LEMMA MatchingUnchanged ==
  ASSUME NEW p \in Publishings, Valid(p), Settled(p), NEW s, IsService(s),
         Matches(s, p), p.type = "ClusterIPService" => NoNodePorts(s)
  PROVE  Updated(p, s) = s
<1> DEFINE e == Desired(p)
<1>1. IsService(e) /\ e.ports \in [1..2 -> ServicePorts]
  BY DesiredTyped
<1>2. /\ s.type = p.type /\ s.type = e.type /\ s.selector = e.selector
      /\ s.ports \in [1..2 -> ServicePorts]
      /\ \A i \in 1..2 : /\ s.ports[i].name = e.ports[i].name
                         /\ s.ports[i].port = e.ports[i].port
                         /\ s.ports[i].target = e.ports[i].target
                         /\ e.ports[i].nodePort # 0 =>
                              s.ports[i].nodePort = e.ports[i].nodePort
  BY DEF Matches, Desired, IsService
<1>3. p.type # "ClusterIPService" =>
        s.annotations = e.annotations /\ s.policy = e.policy
  BY DEF Matches
<1>4. p.type = "LoadBalancerService" => s.ip = e.ip
  BY DEF Matches
<1>5. ASSUME \A i \in 1..2 : s.ports[i].nodePort = e.ports[i].nodePort
      PROVE  s.ports = e.ports
  <2>1. \A i \in 1..2 : s.ports[i] = e.ports[i]
    BY <1>1, <1>2, <1>5 DEF ServicePorts
  <2> QED
    BY <1>1, <1>2, <2>1
<1>6. CASE p.type = "NodePortService"
  <2>1. \A i \in 1..2 : e.ports[i].nodePort # 0
    <3>1. \A i \in 1..2 : p.containerPorts[i].name \in {"http", "https"}
      BY ContainerPortsTyped
    <3>2. \A i \in 1..2 : e.ports[i].nodePort = NodePort(p, p.containerPorts[i].name)
      BY DEF Desired, ServicePort
    <3> QED
      BY <1>6, <3>1, <3>2 DEF Settled
  <2>2. s.ports = e.ports
    BY <1>2, <1>5, <2>1
  <2> HIDE DEF e
  <2>3. NodePortServiceChanged(s, e) = s
    BY <1>2, <1>3, <1>6, <2>2 DEF NodePortServiceChanged, IsService
  <2> QED
    BY <1>6, <2>3 DEF Updated, e
<1>7. CASE p.type = "ClusterIPService"
  <2>1. \A i \in 1..2 : e.ports[i].nodePort = 0
    BY <1>7 DEF Desired, ServicePort, NodePort
  <2>2. s.ports = e.ports
    BY <1>2, <1>5, <1>7, <2>1 DEF NoNodePorts
  <2> HIDE DEF e
  <2>3. ClusterIPServiceChanged(s, e) = s
    BY <1>2, <2>2 DEF ClusterIPServiceChanged, IsService
  <2> QED
    BY <1>7, <2>3 DEF Updated, e
<1>8. CASE p.type = "LoadBalancerService"
  <2> HIDE DEF e
  <2>1. \A i \in 1..2 :
          [e.ports[i] EXCEPT !.nodePort = s.ports[i].nodePort] = s.ports[i]
    BY <1>1, <1>2 DEF ServicePorts
  <2>2. [i \in DOMAIN s.ports |->
           [e.ports[i] EXCEPT !.nodePort = s.ports[i].nodePort]] = s.ports
    BY <1>2, <2>1
  <2>3. DOMAIN s.ports = DOMAIN e.ports
    BY <1>1, <1>2
  <2>4. LoadBalancerServiceChanged(s, e) = s
    BY <1>2, <1>3, <1>4, <1>8, <2>2, <2>3 DEF LoadBalancerServiceChanged, IsService
  <2> QED
    BY <1>8, <2>4 DEF Updated, e
<1> QED
  BY <1>6, <1>7, <1>8, PublishingsAssumption DEF Types

\* Nor in what a write has just left.
LEMMA WrittenUnchanged ==
  ASSUME NEW p \in Publishings, Valid(p), Settled(p), NEW s, IsService(s),
         Matches(s, p), svc # Nil => IsService(svc), Write(s), outcome' = "written"
  PROVE  Updated(p, svc') = svc'
<1>1. svc' \in Admitted(s)
  BY DEF Write
<1>2. IsService(svc') /\ Matches(svc', p)
  BY WriteKeeps
<1>3. CASE p.type = "ClusterIPService"
  <2>1. s.type = "ClusterIPService"
    BY <1>3 DEF Matches, Desired
  <2>2. svc'.ports = [i \in DOMAIN s.ports |-> [s.ports[i] EXCEPT !.nodePort = 0]]
    BY <1>1, <2>1 DEF Admitted, IsService
  <2>3. \A i \in DOMAIN s.ports : s.ports[i] \in ServicePorts
    BY DEF IsService
  <2>4. NoNodePorts(svc')
    BY <2>2, <2>3 DEF NoNodePorts, ServicePorts
  <2> QED
    BY <1>2, <2>4, MatchingUnchanged
<1>4. CASE p.type # "ClusterIPService"
  BY <1>2, <1>4, MatchingUnchanged
<1> QED
  BY <1>3, <1>4

\* Once the Service is as the spec asks, the next reconcile finds no difference,
\* whatever node ports the API server assigned (equality.go:127-129, 167-169).
THEOREM SettledIsQuiet ==
  ASSUME Range # {}
  PROVE  Spec => []Quiescent
<1>1. Init => Quiescent
  BY DEF Init, Quiescent
<1>2. ASSUME PInv, Quiescent, [Next]_vars PROVE Quiescent'
  <2>1. CASE Reconcile
    <3>1. want \in Publishings /\ want' = want /\ (svc # Nil => IsService(svc))
      BY <1>2, <2>1 DEF PInv, IInv, TypeOK, Reconcile
    <3>2. SUFFICES ASSUME outcome' \in {"written", "insync"}, Settled(want)
                   PROVE  Updated(want, svc') = svc'
      BY <3>1 DEF Quiescent
    <3>3. CASE outcome' = "insync"
      BY <2>1, <3>3 DEF Reconcile, Write
    <3>4. CASE Valid(want) /\ svc = Nil /\ Write(Desired(want)) /\ outcome' = "written"
      <4>1. IsService(Desired(want)) /\ Matches(Desired(want), want)
        BY <3>1, <3>4, DesiredTyped, UpdatedMatches
      <4> QED
        BY <3>1, <3>2, <3>4, <4>1, WrittenUnchanged
    <3>5. CASE /\ Valid(want) /\ svc # Nil
               /\ Write(Updated(want, svc)) /\ outcome' = "written"
      <4>1. IsService(Updated(want, svc)) /\ Matches(Updated(want, svc), want)
        BY <3>1, <3>5, UpdatedTyped, UpdatedMatches
      <4> QED
        BY <3>1, <3>2, <3>5, <4>1, WrittenUnchanged
    <3> QED
      BY <2>1, <3>2, <3>3, <3>4, <3>5 DEF Reconcile
  <2>2. CASE EditPublishing \/ Meddle
    BY <2>2 DEF EditPublishing, Meddle, Quiescent
  <2>3. CASE UNCHANGED vars
    BY <1>2, <2>3 DEF vars, Quiescent
  <2> QED
    BY <1>2, <2>1, <2>2, <2>3 DEF Next
<1> QED
  BY <1>1, <1>2, PInvInductive, PTL DEF Spec

=============================================================================
