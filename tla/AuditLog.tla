------------------------------ MODULE AuditLog ------------------------------
(***************************************************************************)
(* AuditLogger (logging/audit-logger.ts) with its sinks: every entry goes to*)
(* the streams of the admin server and then to a webhook. The file, the     *)
(* console and the main logger are left out.                                *)
(***************************************************************************)
EXTENDS AuditStream, Webhook

CONSTANT MaxEntries \* bound: entries logged

auditVars == <<logged, streamVars, hookVars>>

AuditInit == StreamInit /\ HookInit

(* writeEntry: no sink keeps the others from the entry.                     *)
WriteEntry ==
    /\ logged < MaxEntries
    /\ Publish
    /\ HookWrite(logged + 1)

AuditNext == \/ WriteEntry
             \/ StreamNext /\ UNCHANGED hookVars
             \/ HookNext /\ UNCHANGED <<logged, streamVars>>

AuditSpec == AuditInit /\ [][AuditNext]_auditVars

(* Timers expire, and clients and the endpoint are slow, but not dead: what *)
(* a dead client gets is the business of the safety properties, and a dead  *)
(* endpoint is waited for.                                                  *)
AuditFairSpec ==
    /\ AuditSpec
    /\ \A s \in Streams : WF_auditVars(Read(s) /\ UNCHANGED hookVars)
    /\ WF_auditVars(BatchTimeout /\ UNCHANGED <<logged, streamVars>>)
    /\ WF_auditVars(\E p \in posts : Answers(p) /\ UNCHANGED <<logged, streamVars>>)

-----------------------------------------------------------------------------
(* Types, of both sinks.                                                    *)
AuditTypeOK == StreamTypeOK /\ HookTypeOK

(* The posts of every entry come to an end - of those logged during and     *)
(* after close() too - and a paused stream whose client reads on is resumed.*)
SinksCatchUp ==
    /\ \A n \in 1..MaxEntries :
           (logged >= n) ~> \E entries \in finished : n \in Range(entries)
    /\ ReadersCatchUp
=============================================================================
