---------------------------- MODULE EgressPolicy ----------------------------
(***************************************************************************)
(* What the proxy promises of every request, whatever handler serves it and *)
(* however often the allowlist is reloaded meanwhile.                       *)
(*                                                                          *)
(* A request is admitted, and later granted a destination or refused. It is *)
(* granted only if some policy in force between its admission and the grant *)
(* permits it, and it is sent to an address only if some policy in force in *)
(* that time allows connections to the address. It is refused only if some  *)
(* policy in force in that time gives a reason, or because of its quota.    *)
(*                                                                          *)
(* Of the addresses there is an exception: an upgrade, and a request whose  *)
(* name could not be looked up, are sent to the name they asked for. What   *)
(* the name stands for at that moment no policy has seen.                   *)
(***************************************************************************)
CONSTANTS Requests, Asks, Policies, Destinations, None, Nowhere,
          Permits,  \* the pairs <<p, a>> such that policy p permits a
          Reaches,  \* the triples <<p, a, d>> such that p lets a be sent to d
          Rejects,  \* the pairs <<p, a>> such that p gives a reason to refuse a
          Named,    \* the pairs <<a, d>> such that d is the name a asks for
          Upgrades  \* the asks whose name is never looked up

VARIABLES policy, ask, seen, verdict, destination,
          unresolved  \* requests whose name could not be looked up

vars == <<policy, ask, seen, verdict, destination, unresolved>>

Init == /\ policy \in Policies
        /\ ask = [r \in Requests |-> None]
        /\ seen = [r \in Requests |-> {}]
        /\ verdict = [r \in Requests |-> "none"]
        /\ destination = [r \in Requests |-> Nowhere]
        /\ unresolved = {}

(* A new policy takes over; pending requests have then lived under it too.  *)
Change(p) ==
    /\ policy' = p
    /\ seen' = [r \in Requests |-> IF verdict[r] = "pending" THEN seen[r] \union {p}
                                                             ELSE seen[r]]
    /\ UNCHANGED <<ask, verdict, destination, unresolved>>

Admit(r, a) ==
    /\ verdict[r] = "none"
    /\ ask' = [ask EXCEPT ![r] = a]
    /\ seen' = [seen EXCEPT ![r] = {policy}]
    /\ verdict' = [verdict EXCEPT ![r] = "pending"]
    /\ UNCHANGED <<policy, destination, unresolved>>

(* A request can be turned away at the door.                                *)
TurnAway(r, a) ==
    /\ verdict[r] = "none"
    /\ ask' = [ask EXCEPT ![r] = a]
    /\ <<policy, a>> \in Rejects
    /\ verdict' = [verdict EXCEPT ![r] = "refused"]
    /\ UNCHANGED <<policy, seen, destination, unresolved>>

(* The resolver fails: the request goes on, and to its name.                *)
LookupFails(r) ==
    /\ verdict[r] = "pending" /\ ask[r] \notin Upgrades
    /\ unresolved' = unresolved \union {r}
    /\ UNCHANGED <<policy, ask, seen, verdict, destination>>

Grant(r, d) ==
    /\ verdict[r] = "pending"
    /\ \E p \in seen[r] : <<p, ask[r]>> \in Permits
    /\ \/ \E p \in seen[r] : <<p, ask[r], d>> \in Reaches
       \/ <<ask[r], d>> \in Named /\ (ask[r] \in Upgrades \/ r \in unresolved)
    /\ verdict' = [verdict EXCEPT ![r] = "granted"]
    /\ destination' = [destination EXCEPT ![r] = d]
    /\ seen' = [seen EXCEPT ![r] = {}]
    /\ UNCHANGED <<policy, ask, unresolved>>

Refuse(r) ==
    /\ verdict[r] = "pending"
    /\ \E p \in seen[r] : <<p, ask[r]>> \in Rejects
    /\ verdict' = [verdict EXCEPT ![r] = "refused"]
    /\ seen' = [seen EXCEPT ![r] = {}]
    /\ UNCHANGED <<policy, ask, destination, unresolved>>

(* The request is over its quota, or its client never sent it.              *)
Drop(r) ==
    /\ verdict[r] = "pending"
    /\ verdict' = [verdict EXCEPT ![r] = "dropped"]
    /\ seen' = [seen EXCEPT ![r] = {}]
    /\ UNCHANGED <<policy, ask, destination, unresolved>>

Next == \/ \E p \in Policies : Change(p)
        \/ \E r \in Requests : \/ \E a \in Asks : Admit(r, a) \/ TurnAway(r, a)
                               \/ \E d \in Destinations : Grant(r, d)
                               \/ LookupFails(r)
                               \/ Refuse(r)
                               \/ Drop(r)

Spec == Init /\ [][Next]_vars
=============================================================================
