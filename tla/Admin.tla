-------------------------------- MODULE Admin --------------------------------
(***************************************************************************)
(* What the admin server edits, the rules in force, and what it and a       *)
(* webhook are sent, the entries of the audit log.  The two share nothing,  *)
(* so a behaviour exercises one of them, chosen at the start: the state     *)
(* space is the sum of theirs, not the product.                             *)
(***************************************************************************)
EXTENDS RulesApi, AuditLog

VARIABLE part

adminVars == <<rulesVars, auditVars, part>>

Init == part \in {"rules", "audit"} /\ RulesInit /\ AuditInit

Next == /\ \/ part = "rules" /\ RulesNext /\ UNCHANGED auditVars
           \/ part = "audit" /\ AuditNext /\ UNCHANGED rulesVars
        /\ UNCHANGED part

\* The fairness of the audit log: outside its part it stands still.
Spec ==
    /\ Init /\ [][Next]_adminVars
    /\ \A s \in Streams : WF_auditVars(part = "audit" /\ Read(s) /\ UNCHANGED hookVars)
    /\ WF_auditVars(part = "audit" /\ BatchTimeout /\ UNCHANGED <<logged, streamVars>>)
    /\ WF_auditVars(/\ part = "audit"
                    /\ \E p \in posts : Answers(p) /\ UNCHANGED <<logged, streamVars>>)

\* The type invariant of the audit log; those of the rules are in LimitersInStep.
TypeOK == AuditTypeOK
=============================================================================
