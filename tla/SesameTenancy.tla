--------------------------- MODULE SesameTenancy ---------------------------
(***************************************************************************)
(* What the operator promises to those who share a cluster, without its    *)
(* queue, its calls, its caches and its objects: a Sesame asks for a       *)
(* namespace, holds it to the exclusion of the others, has objects in it   *)
(* only while it holds it, and gives it up only when it has none there.    *)
(* SesameOperator implements this (ImplementsTenancy).                     *)
(***************************************************************************)
CONSTANTS Sesames, Namespaces, Nil

VARIABLES
    stage,   \* of each Sesame
    place,   \* the namespace it asks for, Nil if it is absent
    tenants  \* of each namespace: the Sesames with child objects in it

tenancy == <<stage, place, tenants>>

Holders == {s \in Sesames : stage[s] \in {"holding", "leaving"}}

Init ==
    /\ stage = [s \in Sesames |-> "absent"]
    /\ place = [s \in Sesames |-> Nil]
    /\ tenants = [n \in Namespaces |-> {}]

Moves(s, from, to) ==
    /\ stage[s] = from
    /\ stage' = [stage EXCEPT ![s] = to]

Ask(s, n) ==
    /\ Moves(s, "absent", "asking")
    /\ place' = [place EXCEPT ![s] = n]
    /\ UNCHANGED tenants

Withdraw(s) ==
    /\ Moves(s, "asking", "absent")
    /\ place' = [place EXCEPT ![s] = Nil]
    /\ UNCHANGED tenants

\* One Sesame holds a namespace at a time.
Admit(s) ==
    /\ Moves(s, "asking", "holding")
    /\ \A t \in Holders : place[t] # place[s]
    /\ UNCHANGED <<place, tenants>>

AskToLeave(s) ==
    /\ Moves(s, "holding", "leaving")
    /\ UNCHANGED <<place, tenants>>

\* A reconcile under way may still build what it will have to tear down.
Enter(s) ==
    /\ s \in Holders
    /\ tenants' = [tenants EXCEPT ![place[s]] = @ \cup {s}]
    /\ UNCHANGED <<stage, place>>

\* Its last object goes; others than the operator may have deleted it.
Vacate(s, n) ==
    /\ tenants' = [tenants EXCEPT ![n] = @ \ {s}]
    /\ UNCHANGED <<stage, place>>

Depart(s) ==
    /\ Moves(s, "leaving", "absent")
    /\ s \notin tenants[place[s]]
    /\ place' = [place EXCEPT ![s] = Nil]
    /\ UNCHANGED tenants

Next ==
    \E s \in Sesames :
        \/ \E n \in Namespaces : Ask(s, n) \/ Vacate(s, n)
        \/ Withdraw(s) \/ Admit(s) \/ AskToLeave(s) \/ Enter(s) \/ Depart(s)

Spec == Init /\ [][Next]_tenancy

=============================================================================
