------------------------------- MODULE Webhook -------------------------------
(***************************************************************************)
(* WebhookDestination (logging/log-destinations.ts): entries are collected  *)
(* into batches, and a batch is posted until it is accepted or was tried    *)
(* often enough. Batches are posted independently of each other.            *)
(***************************************************************************)
EXTENDS Naturals, Sequences, FiniteSets

CONSTANTS BatchSize, RetryCount

ASSUME WebhookAssumption == BatchSize \in Nat \ {0} /\ RetryCount \in Nat

VARIABLES
    batch,     \* the entries collected
    timer,     \* batchTimer runs
    posts,     \* batches under way: what they hold, retriesLeft, and whether they
               \* are sent or delayed
    finished,  \* history: the batches whose promise has settled
    close,     \* "open", "flushing" or "closed"
    flushed    \* history: what was collected when close() was called

hookVars == <<batch, timer, posts, finished, close, flushed>>

HookInit ==
    /\ batch = <<>> /\ timer = FALSE /\ posts = {}
    /\ finished = {}
    /\ close = "open" /\ flushed = <<>>

-----------------------------------------------------------------------------
Post(entries) == [entries |-> entries, left |-> RetryCount, stage |-> "sent"]

(* sendBatch, up to its await.                                              *)
SendBatch(entries) ==
    /\ batch' = <<>> /\ timer' = FALSE
    /\ posts' = IF entries = <<>> THEN posts ELSE posts \union {Post(entries)}

(* Variant of Collect: the timer is started by a batch's first entry only if*)
(* nothing is being posted.                                                 *)
CollectLate(entry) ==
    LET entries == Append(batch, entry) IN
    IF Len(entries) >= BatchSize
    THEN SendBatch(entries)
    ELSE /\ batch' = entries /\ timer' = (timer \/ posts = {})
         /\ UNCHANGED posts

(* write, which close() does not end.                                       *)
Collect(entry) ==
    LET entries == Append(batch, entry) IN
    IF Len(entries) >= BatchSize
    THEN SendBatch(entries)
    ELSE /\ batch' = entries /\ timer' = TRUE
         /\ UNCHANGED posts

HookWrite(entry) ==
    /\ Collect(entry)
    /\ UNCHANGED <<finished, close, flushed>>

BatchTimeout ==
    /\ timer
    /\ SendBatch(batch)
    /\ UNCHANGED <<finished, close, flushed>>

-----------------------------------------------------------------------------
(* The promise of sendWithRetry settles, and with it that of close, if that *)
(* is the batch it waits for. It settles the same way if the batch is given *)
(* up.                                                                      *)
Settle(p) ==
    /\ posts' = posts \ {p}
    /\ finished' = finished \union {p.entries}
    /\ close' = IF close = "flushing" /\ p.entries = flushed THEN "closed" ELSE close

TryAgain(p) ==
    posts' = (posts \ {p}) \union {[p EXCEPT !.stage = "delayed", !.left = @ - 1]}

Accepted(p) ==
    /\ p.stage = "sent"
    /\ Settle(p)
    /\ UNCHANGED <<batch, timer, flushed>>

(* Another status, or an error of the request, after which the endpoint may *)
(* have got the batch nevertheless: it gets it up to RetryCount times more. *)
(* An endpoint that does not answer is waited for.                          *)
Refused(p) ==
    /\ p.stage = "sent"
    /\ IF p.left > 0 THEN TryAgain(p) /\ UNCHANGED <<finished, close>> ELSE Settle(p)
    /\ UNCHANGED <<batch, timer, flushed>>

Retry(p) ==
    /\ p.stage = "delayed"
    /\ posts' = (posts \ {p}) \union {[p EXCEPT !.stage = "sent"]}
    /\ UNCHANGED <<batch, timer, finished, close, flushed>>

(* Variant of Flush: the batch is posted but not waited for.                *)
FlushUnawaited == close' = "closed"

Flush == close' = IF batch = <<>> THEN "closed" ELSE "flushing"

(* close: flush, that is sendBatch. It waits for the batch it sends, not for*)
(* those that are under way.                                                *)
Close ==
    /\ close = "open"
    /\ flushed' = batch
    /\ Flush
    /\ SendBatch(batch)
    /\ UNCHANGED <<finished>>

Answers(p) == Accepted(p) \/ Refused(p) \/ Retry(p)

HookNext == BatchTimeout \/ Close \/ \E p \in posts : Answers(p)

-----------------------------------------------------------------------------
(* Types. Entries that are collected have a timer, and so none is forgotten.*)
HookTypeOK ==
    /\ Len(batch) < BatchSize /\ timer = (batch # <<>>)
    /\ \A p \in posts : p.left \in 0..RetryCount /\ p.stage \in {"sent", "delayed"}
    /\ close \in {"open", "flushing", "closed"}

(* close() settles no sooner than what was collected is delivered or given  *)
(* up. Of batches that were under way it says nothing.                      *)
CloseFlushes ==
    close = "closed" /\ flushed # <<>> => flushed \in finished
=============================================================================
