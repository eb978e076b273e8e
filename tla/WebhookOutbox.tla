--------------------------- MODULE WebhookOutbox ----------------------------
(***************************************************************************)
(* Webhook deliveries: webhook/outbox.ts and what webhook/bridge.ts puts   *)
(* into it.  Items are idempotency keys, that is, events to tell of.  A    *)
(* batch (deliverDue) reads the settings and the due rows once, then sends *)
(* one row after another; an answer may be lost although the receiver has  *)
(* the delivery, and a row that was being sent when the application        *)
(* stopped is sent again, since delivering rows are due as well.           *)
(***************************************************************************)
EXTENDS JobQueue

VARIABLES row,        \* webhook_outbox.status of each key, "none" without a row
          tries,      \* webhook_outbox.attempts
          subscribed, \* the settings: events sent when they happen, {} when off
          batch,      \* the rows deliverDue has read and not yet come to
          sending,    \* the row whose request is under way, or "none"
          got,        \* deliveries the receiver has: 0, 1, or 2 for more
          stops

outboxVars == <<row, tries, subscribed, batch, sending, got, stops>>

RowStatus == {"none", "pending", "delivering", "delivered", "failed", "dead"}
DueRow(s) == s \in {"pending", "failed", "delivering"}

Init == /\ row = [e \in Items |-> "none"]
        /\ tries = [e \in Items |-> 0]
        /\ subscribed \in SUBSET Items
        /\ batch = {}
        /\ sending = "none"
        /\ got = [e \in Items |-> 0]
        /\ stops = 0

\* enqueue: a row whose key is found, before the INSERT or by its failure, is left as it is.
Enqueue(e) == row' = [row EXCEPT ![e] = Enqueued(@)]

\* The bridge enqueues an event that is subscribed.
Publish(e) == /\ e \in subscribed
              /\ Enqueue(e)
              /\ UNCHANGED <<tries, subscribed, batch, sending, got, stops>>

\* saveConfig: events are added and dropped, the whole is switched on and off.
SaveConfig == /\ subscribed' \in SUBSET Items
              /\ UNCHANGED <<row, tries, batch, sending, got, stops>>

\* deliverDue: it runs, with its flag set, from the first row to the last.
Delivering == batch # {} \/ sending # "none"

\* It reads what is due of what is subscribed.  The backoff of a row that failed
\* may have passed or not; all others are due at once.
StartBatch == /\ ~Delivering
              /\ batch' \in SUBSET {e \in subscribed : DueRow(row[e])} \ {{}}
              /\ \A e \in subscribed : DueRow(row[e]) /\ row[e] # "failed" => e \in batch'
              /\ UNCHANGED <<row, tries, subscribed, sending, got, stops>>

Send(e) == /\ sending = "none" /\ e \in batch
           /\ sending' = e
           /\ batch' = batch \ {e}
           /\ row' = [row EXCEPT ![e] = "delivering"]
           /\ UNCHANGED <<tries, subscribed, got, stops>>

Receives(e) == got' = [got EXCEPT ![e] = IF @ = 2 THEN 2 ELSE @ + 1]

Settled(e, s) == /\ sending = e
                 /\ sending' = "none"
                 /\ row' = [row EXCEPT ![e] = s]
                 /\ tries' = [tries EXCEPT ![e] = @ + 1]
                 /\ UNCHANGED <<subscribed, batch, stops>>

Accepted(e) == Settled(e, "delivered") /\ Receives(e)

\* Another status, a network error or the time limit; the receiver may have it.
Refused(e) == /\ Settled(e, AfterFailure(tries[e]))
              /\ Receives(e) \/ UNCHANGED got

\* The application stops, with a request under way or not, and starts again.
Restart == /\ stops < MaxStops
           /\ stops' = stops + 1
           /\ batch' = {} /\ sending' = "none"
           /\ UNCHANGED got \/ \E e \in Items : sending = e /\ Receives(e)
           /\ UNCHANGED <<row, tries, subscribed>>

Next == \/ \E e \in Items : Publish(e) \/ Send(e) \/ Accepted(e) \/ Refused(e)
        \/ SaveConfig \/ StartBatch \/ Restart

Spec == Init /\ [][Next]_outboxVars

\* The scheduler ticks, requests have a time limit, and the backoff of a row
\* passes: a row that batches could begin with time and again is in one.
Fairness == /\ WF_outboxVars(\E e \in Items : Send(e))
            /\ \A e \in Items : /\ SF_outboxVars(StartBatch /\ e \in batch')
                                /\ WF_outboxVars(Accepted(e) \/ Refused(e))
-----------------------------------------------------------------------------
TypeOK == /\ row \in [Items -> RowStatus]
          /\ tries \in [Items -> 0 .. MaxTries]
          /\ subscribed \in SUBSET Items
          /\ batch \in SUBSET Items
          /\ sending \in Items \cup {"none"}
          /\ got \in [Items -> 0 .. 2]
          /\ stops \in 0 .. MaxStops

\* Nothing is lost and nothing is kept twice without need: a row marked as
\* delivered was received, an event never subscribed is never received, and a
\* receiver has a first delivery more than once only if an attempt failed or the
\* application stopped in between.
DeliveredWasReceived ==
  \A e \in Items : /\ row[e] = "delivered" => got[e] > 0
                   /\ row[e] = "none" => got[e] = 0
                   /\ got[e] > 1 => tries[e] + stops > 1

\* Rows as stages of DurableJob: a row that is delivering while nothing sends it
\* was cut short, and waits.
RowStage(e) == CASE row[e] = "delivering" -> (IF sending = e THEN "working" ELSE "waiting")
                 [] row[e] = "delivered" -> "done"
                 [] OTHER -> Stage(row[e])

Durable == INSTANCE DurableJob WITH
             Jobs <- Items, Limit <- MaxTries, stage <- [e \in Items |-> RowStage(e)]

\* The rows of webhook_outbox keep the promises of DurableJob.
ImplementsDurable == Durable!DSpec

\* An event that was enqueued is delivered, or given up after the last attempt,
\* if from some time on the webhook is on and subscribed to it.
RowSettles == \A e \in Items :
  <>[](e \in subscribed) => (row[e] = "pending" ~> row[e] \in {"delivered", "dead"})
=============================================================================
