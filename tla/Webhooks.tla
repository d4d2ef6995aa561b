------------------------------- MODULE Webhooks -------------------------------
(***************************************************************************)
(* The webhook Dispatcher (internal/webhooks/dispatch.go): a bounded queue *)
(* of deliveries, a pool of workers that post them and record each attempt *)
(* in the store, retries on a timer, Close and a crash.                    *)
(***************************************************************************)
EXTENDS Naturals, Sequences, FiniteSets

CONSTANTS
  Hooks, Events,
  Posters,     \* worker goroutines (4 in the code)
  JobsCap,     \* capacity of the queue (256 in the code)
  MaxRetries   \* Dispatcher.maxRetries (5 in the code)

ASSUME WebhooksAssumption == JobsCap \in Nat /\ MaxRetries \in Nat

VARIABLES
  registered,  \* the webhooks in the store
  sending,     \* sending[e]: webhooks the Dispatch of e found and has not queued yet
  jobs,        \* Dispatcher.queue
  posting,     \* posting[w]: the job worker w delivers, if any
  timers,      \* retries that wait for their delay
  phase,       \* "up", "stopping" (stopCh is closed), "stopped" or "crashed"
  deliveries,  \* deliveries[h][e]: status of each attempt, in the store
  fate         \* fate[h][e]: what became of the delivery (history)

webhookVars == <<registered, sending, jobs, posting, timers, phase, deliveries, fate>>

JobsOf == [hook : Hooks, event : Events, attempt : 0 .. MaxRetries]
NoPost == [hook |-> "none"]

WebhooksInit ==
  /\ registered = Hooks
  /\ sending = [e \in Events |-> {}]
  /\ jobs = <<>> /\ posting = [w \in Posters |-> NoPost] /\ timers = {}
  /\ phase = "up"
  /\ deliveries = [h \in Hooks |-> [e \in Events |-> <<>>]]
  /\ fate = [h \in Hooks |-> [e \in Events |-> "none"]]

Decided(h, e, f) == fate' = [fate EXCEPT ![h][e] = f]

(* Store.Delete.  Jobs of the webhook carry a copy of it and stay.         *)
DeleteHook(h) ==
  /\ h \in registered
  /\ registered' = registered \ {h}
  /\ UNCHANGED <<sending, jobs, posting, timers, phase, deliveries, fate>>

(* Dispatch: FindMatching, then one webhook after the other.               *)
Dispatch(e) ==
  /\ phase = "up" /\ sending[e] = {} /\ \A h \in Hooks : fate[h][e] = "none"
  /\ sending' = [sending EXCEPT ![e] = registered]
  /\ UNCHANGED <<registered, jobs, posting, timers, phase, deliveries, fate>>

(* GetSecret finds the webhook; a full queue drops the event.              *)
HasRoomMutant == Len(jobs) <= JobsCap
HasRoom == Len(jobs) < JobsCap
SendTo(h, e) ==
  /\ h \in sending[e] \intersect registered
  /\ sending' = [sending EXCEPT ![e] = @ \ {h}]
  /\ IF HasRoom THEN /\ jobs' = Append(jobs, [hook |-> h, event |-> e, attempt |-> 0])
                     /\ Decided(h, e, "underway")
     ELSE Decided(h, e, "dropped") /\ UNCHANGED jobs
  /\ UNCHANGED <<registered, posting, timers, phase, deliveries>>

HookGone(h, e) ==
  /\ h \in sending[e] \ registered
  /\ sending' = [sending EXCEPT ![e] = @ \ {h}]
  /\ UNCHANGED <<registered, jobs, posting, timers, phase, deliveries, fate>>

(* worker and RecordDelivery.  With stopCh closed select may still choose  *)
(* the queue.                                                              *)
TakeJob(w) ==
  /\ phase \in {"up", "stopping"} /\ posting[w] = NoPost /\ jobs # <<>>
  /\ LET j == Head(jobs) IN
     /\ posting' = [posting EXCEPT ![w] = j]
     /\ deliveries' = [deliveries EXCEPT ![j.hook][j.event] = Append(@, "pending")]
  /\ jobs' = Tail(jobs)
  /\ UNCHANGED <<registered, sending, timers, phase, fate>>

(* UpdateDelivery of the row RecordDelivery made.                          *)
Updated(j, outcome) ==
  deliveries' = [deliveries EXCEPT ![j.hook][j.event][j.attempt + 1] = outcome]

Posted(w) ==
  /\ posting[w] # NoPost
  /\ Updated(posting[w], "delivered")
  /\ Decided(posting[w].hook, posting[w].event, "delivered")
  /\ posting' = [posting EXCEPT ![w] = NoPost]
  /\ UNCHANGED <<registered, sending, jobs, timers, phase>>

(* postBody fails or times out.                                            *)
MayRetryMutant(j) == j.attempt <= MaxRetries
MayRetry(j) == j.attempt < MaxRetries
RetryMutant(j) == timers
Retry(j) == timers \union {j}
PostFails(w) ==
  LET j == posting[w] IN
  /\ j # NoPost
  /\ Updated(j, "failed")
  /\ IF MayRetry(j) THEN timers' = Retry(j) /\ UNCHANGED fate
     ELSE Decided(j.hook, j.event, "exhausted") /\ UNCHANGED timers
  /\ posting' = [posting EXCEPT ![w] = NoPost]
  /\ UNCHANGED <<registered, sending, jobs, phase>>

(* The AfterFunc: a full queue drops the retry, without a word.            *)
TimerFires(j) ==
  /\ phase # "crashed" /\ j \in timers
  /\ timers' = timers \ {j}
  /\ IF HasRoom THEN jobs' = Append(jobs, [j EXCEPT !.attempt = @ + 1]) /\ UNCHANGED fate
     ELSE Decided(j.hook, j.event, "dropped") /\ UNCHANGED jobs
  /\ UNCHANGED <<registered, sending, posting, phase, deliveries>>

(* Close waits for the workers, not for the queue or the timers.           *)
Close ==
  /\ phase = "up"
  /\ phase' = "stopping"
  /\ UNCHANGED <<registered, sending, jobs, posting, timers, deliveries, fate>>

WorkersLeave ==
  /\ phase = "stopping" /\ \A w \in Posters : posting[w] = NoPost
  /\ phase' = "stopped"
  /\ UNCHANGED <<registered, sending, jobs, posting, timers, deliveries, fate>>

(* Only the store survives.                                                *)
ServerEnds ==
  /\ phase # "crashed"
  /\ phase' = "crashed"
  /\ sending' = [e \in Events |-> {}] /\ jobs' = <<>> /\ timers' = {}
  /\ posting' = [w \in Posters |-> NoPost]
  /\ UNCHANGED <<registered, deliveries, fate>>

-----------------------------------------------------------------------------
Deliver == \E w \in Posters : TakeJob(w) \/ Posted(w) \/ PostFails(w)
Timer == \E j \in timers : TimerFires(j)

WebhooksNext ==
  \/ \E h \in Hooks : DeleteHook(h) \/ \E e \in Events : SendTo(h, e) \/ HookGone(h, e)
  \/ \E e \in Events : Dispatch(e)
  \/ Deliver \/ Timer \/ Close \/ WorkersLeave \/ ServerEnds

WebhooksSpec == WebhooksInit /\ [][WebhooksNext]_webhookVars /\ WF_webhookVars(Deliver) /\ WF_webhookVars(Timer)

-----------------------------------------------------------------------------
(* Properties.                                                             *)

(* Every variable stays in its type and the queue within its capacity.     *)
WebhooksTypeOK ==
  /\ registered \subseteq Hooks /\ sending \in [Events -> SUBSET Hooks]
  /\ jobs \in Seq(JobsOf) /\ Len(jobs) <= JobsCap /\ timers \subseteq JobsOf
  /\ \A w \in Posters : posting[w] = NoPost \/ posting[w] \in JobsOf
  /\ phase \in {"up", "stopping", "stopped", "crashed"}
  /\ \A h \in Hooks, e \in Events :
       /\ deliveries[h][e] \in Seq({"pending", "delivered", "failed"})
       /\ fate[h][e] \in {"none", "underway", "delivered", "exhausted", "dropped"}

(* Where the next attempt of e to h is: queue, timers and workers together *)
(* never have two, and it has the number after the attempts recorded.      *)
Queued(h, e)  == {i \in DOMAIN jobs : jobs[i].hook = h /\ jobs[i].event = e}
Waiting(h, e) == {j \in timers : j.hook = h /\ j.event = e}
Posting(h, e) == {w \in Posters : posting[w] # NoPost /\ posting[w].hook = h /\ posting[w].event = e}

(* Attempts follow one another: every attempt but the last one has failed, *)
(* there are at most maxRetries + 1, the same delivery is never queued,    *)
(* waiting and posted twice over, and none comes after it was delivered.   *)
AttemptsFollowOneAnother ==
  \A h \in Hooks, e \in Events :
    LET log == deliveries[h][e]
        carriers == Cardinality(Queued(h, e)) + Cardinality(Waiting(h, e)) + Cardinality(Posting(h, e))
    IN  /\ Len(log) <= MaxRetries + 1
        /\ \A i \in 1 .. Len(log) - 1 : log[i] = "failed"
        /\ carriers <= 1
        /\ fate[h][e] # "underway" => carriers = 0
        /\ \A i \in Queued(h, e) : jobs[i].attempt = Len(log)
        /\ \A j \in Waiting(h, e) : j.attempt + 1 = Len(log)

(* An event that was queued for a webhook is delivered in the end, or all  *)
(* its attempts failed, or a full queue dropped it, unless the process     *)
(* ends before: no retry is forgotten.                                     *)
DeliveriesSettle ==
  \A h \in Hooks, e \in Events :
    fate[h][e] = "underway" ~> fate[h][e] # "underway" \/ phase # "up"
=============================================================================
