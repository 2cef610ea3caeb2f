--------------------------- MODULE WebhookDelivery ---------------------------
(***************************************************************************)
(* Outbound webhooks (control_plane/webhooks.py, webhook_delivery.py,      *)
(* routers/webhooks.py and the two repositories): an event becomes one row *)
(* per subscription, and the delivery worker of every replica polls the    *)
(* rows that are due.  A worker reads its batch in one query, claims       *)
(* nothing, and decides by the attempt_count it read whether to give up.   *)
(***************************************************************************)
EXTENDS Naturals, FiniteSets

CONSTANTS
    Subs,            \* subscription ids
    Events,          \* events fired, each once
    Hooks,           \* delivery workers, one per replica
    MaxHooks,        \* BOXXKITE_MAX_WEBHOOKS_PER_ACCOUNT
    MaxAttempts,     \* BOXXKITE_WEBHOOK_MAX_DELIVERY_ATTEMPTS
    HookFaults,      \* "unsafe": the destination fails its check; "secret"; "die";
                     \* "port": a URL with a port out of range; "write": of an outcome
    MaxLapses        \* bound on workers dying and outcomes that are not written

ASSUME HookAssumption ==
    /\ MaxAttempts \in Nat \ {0} /\ MaxLapses \in Nat /\ MaxHooks \in Nat
    /\ IsFiniteSet(Hooks)

Deliveries == Events \X Subs
NoBatch == [d |-> <<>>, count |-> 0, outcome |-> "none"]

VARIABLES
    hook,        \* webhook_subscriptions: new (not yet an id), on, gone
    fan,         \* the subscriptions an event has still to get a row for
    fired,       \* events fired
    delivery,    \* webhook_deliveries.status, or "none"
    count,       \* attempt_count
    due,         \* next_attempt_at has come
    batch,       \* the deliveries a worker read, with the count it read
    busy,        \* the delivery a worker is at, and what came of the attempt
    sends,       \* history: attempts made at a delivery
    acked,       \* history: deliveries the receiver answered 2xx
    badport,     \* the subscriptions whose URL has a port out of range
    lapses       \* history: workers that died, and outcomes that were not written

rare == <<badport, lapses>>
hookvars == <<hook, fan, fired, delivery, count, due, batch, busy, sends, acked, rare>>

HookTypeOK ==
    /\ hook \in [Subs -> {"new", "on", "gone"}] /\ fired \subseteq Events
    /\ fan \in [Events -> SUBSET Subs]
    /\ delivery \in [Deliveries -> {"none", "pending", "delivered", "failed"}]
    /\ count \in [Deliveries -> Nat] /\ sends \in [Deliveries -> Nat]
    /\ due \subseteq Deliveries /\ acked \subseteq Deliveries
    /\ badport \subseteq Subs /\ lapses \in Nat
    /\ \A w \in Hooks : batch[w] \subseteq Deliveries \X Nat
    /\ \A w \in Hooks : busy[w] = NoBatch \/ busy[w].d \in Deliveries

HookInit ==
    /\ hook = [s \in Subs |-> "new"] /\ fired = {}
    /\ fan = [e \in Events |-> {}]
    /\ delivery = [d \in Deliveries |-> "none"]
    /\ count = [d \in Deliveries |-> 0] /\ sends = [d \in Deliveries |-> 0]
    /\ due = {} /\ acked = {}
    /\ batch = [w \in Hooks |-> {}]
    /\ busy = [w \in Hooks |-> NoBatch]
    /\ badport = {} /\ lapses = 0

Registered == {s \in Subs : hook[s] = "on"}

-----------------------------------------------------------------------------
(* routers/webhooks.py.                                                     *)

\* create_webhook: counted, validated, its secret encrypted, inserted.  The
\* validation looks at the host, not at the port.
Register(s) ==
    /\ hook[s] = "new"
    /\ Cardinality(Registered) < MaxHooks
    /\ hook' = [hook EXCEPT ![s] = "on"]
    /\ \/ UNCHANGED badport
       \/ "port" \in HookFaults /\ badport' = badport \cup {s}
    /\ UNCHANGED <<fan, fired, delivery, count, due, batch, busy, sends, acked, lapses>>

\* delete_webhook: the deliveries go with the row (ON DELETE CASCADE).
Unregister(s) ==
    /\ s \in Registered
    /\ hook' = [hook EXCEPT ![s] = "gone"]
    /\ delivery' = [d \in Deliveries |-> IF d[2] = s THEN "none" ELSE delivery[d]]
    /\ due' = {d \in due : d[2] # s}
    /\ UNCHANGED <<fan, fired, count, batch, busy, sends, acked, rare>>

-----------------------------------------------------------------------------
(* enqueue_event.                                                           *)

Fire(e) ==
    /\ e \notin fired
    /\ fired' = fired \cup {e}
    /\ fan' = [fan EXCEPT ![e] = Registered]
    /\ UNCHANGED <<hook, delivery, count, due, batch, busy, sends, acked, rare>>

\* One row, one commit.  A subscription deleted meanwhile fails the foreign
\* key, and the error ends the loop: the others get no row.
Enqueue(e, s) ==
    /\ s \in fan[e]
    /\ IF s \in Registered
       THEN /\ fan' = [fan EXCEPT ![e] = @ \ {s}]
            /\ delivery' = [delivery EXCEPT ![<<e, s>>] = "pending"]
            /\ due' = due \cup {<<e, s>>}
       ELSE fan' = [fan EXCEPT ![e] = {}] /\ UNCHANGED <<delivery, due>>
    /\ UNCHANGED <<hook, fired, count, batch, busy, sends, acked, rare>>

-----------------------------------------------------------------------------
(* The worker.                                                              *)

\* Mutation: a row that was tried before is not listed again.
ListFresh(w) ==
    LET fresh == {d \in due : delivery[d] = "pending" /\ count[d] = 0}
    IN  /\ batch[w] = {} /\ busy[w] = NoBatch
        /\ fresh # {}
        /\ batch' = [batch EXCEPT ![w] = {<<d, 0>> : d \in fresh}]
        /\ UNCHANGED <<hook, fan, fired, delivery, count, due, busy, sends, acked, rare>>

\* next_attempt_at has come and the row is not settled.
DueNow == {d \in due : delivery[d] = "pending"}

\* _deliver_once: list_due, each row with its subscription.
ListDue(w) ==
    /\ batch[w] = {} /\ busy[w] = NoBatch
    /\ DueNow # {}
    /\ batch' = [batch EXCEPT ![w] = {<<d, count[d]>> : d \in DueNow}]
    /\ UNCHANGED <<hook, fan, fired, delivery, count, due, busy, sends, acked, rare>>

\* _attempt_delivery: the destination is checked again, the body signed and
\* sent.  "unsafe" and "secret" never reach the receiver.
Attempt(w, item, outcome) ==
    /\ item \in batch[w] /\ busy[w] = NoBatch
    /\ \/ outcome \in {"ok", "error"} /\ item[1][2] \notin badport
       \/ outcome \in HookFaults \cap {"unsafe", "secret"}
    /\ batch' = [batch EXCEPT ![w] = @ \ {item}]
    /\ busy' = [busy EXCEPT ![w] = [d |-> item[1], count |-> item[2], outcome |-> outcome]]
    /\ sends' = [sends EXCEPT ![item[1]] = @ + 1]
    /\ acked' = IF outcome = "ok" THEN acked \cup {item[1]} ELSE acked
    /\ UNCHANGED <<hook, fan, fired, delivery, count, due, rare>>

\* The port of the URL is read after the checks, and raises ValueError if it is
\* out of range: the loop logs it and goes on, and the row stays due as it was.
AttemptRaises(w, item) ==
    /\ item \in batch[w] /\ busy[w] = NoBatch
    /\ item[1][2] \in badport
    /\ batch' = [batch EXCEPT ![w] = @ \ {item}]
    /\ UNCHANGED <<hook, fan, fired, delivery, count, due, busy, sends, acked, rare>>

\* Mutation: attempts are counted from one, so the last is never made.
ExhaustedEarly(w) == busy[w].count + 2 >= MaxAttempts

\* _record_failure compares the count that was read, not the one in the row.
Exhausted(w) == busy[w].count + 1 >= MaxAttempts

\* mark_delivered or record_failed_attempt, on whatever the row says now.
RecordOutcome(w) ==
    LET d == busy[w].d
    IN  /\ busy[w] # NoBatch
        /\ busy' = [busy EXCEPT ![w] = NoBatch]
        /\ IF delivery[d] = "none" THEN UNCHANGED <<delivery, count, due>>
           ELSE /\ count' = [count EXCEPT ![d] = @ + 1]
                /\ CASE busy[w].outcome = "ok" ->
                            delivery' = [delivery EXCEPT ![d] = "delivered"] /\ UNCHANGED due
                     [] busy[w].outcome = "secret" \/ (busy[w].outcome # "ok" /\ Exhausted(w)) ->
                            delivery' = [delivery EXCEPT ![d] = "failed"] /\ UNCHANGED due
                     [] OTHER -> due' = due \ {d} /\ UNCHANGED delivery
        /\ UNCHANGED <<hook, fan, fired, batch, sends, acked, rare>>

\* The write of the outcome raises, and the loop logs it: what was sent is not
\* counted, and the row stays due.
OutcomeUnwritten(w) ==
    /\ "write" \in HookFaults /\ lapses < MaxLapses
    /\ busy[w] # NoBatch
    /\ lapses' = lapses + 1
    /\ busy' = [busy EXCEPT ![w] = NoBatch]
    /\ UNCHANGED <<hook, fan, fired, delivery, count, due, batch, sends, acked, badport>>

\* The backoff of a failed attempt is over.
BackoffOver(d) ==
    /\ delivery[d] = "pending" /\ d \notin due
    /\ due' = due \cup {d}
    /\ UNCHANGED <<hook, fan, fired, delivery, count, batch, busy, sends, acked, rare>>

\* The replica dies: what its worker read or sent is not recorded.
HookDies(w) ==
    /\ "die" \in HookFaults /\ lapses < MaxLapses
    /\ batch[w] # {} \/ busy[w] # NoBatch
    /\ lapses' = lapses + 1
    /\ batch' = [batch EXCEPT ![w] = {}]
    /\ busy' = [busy EXCEPT ![w] = NoBatch]
    /\ UNCHANGED <<hook, fan, fired, delivery, count, due, sends, acked, badport>>

HookWorks(w) ==
    \/ ListDue(w)
    \/ \E item \in batch[w], outcome \in {"ok", "error", "unsafe", "secret"} :
            Attempt(w, item, outcome)
    \/ \E item \in batch[w] : AttemptRaises(w, item)
    \/ RecordOutcome(w)

HookNext ==
    \/ \E s \in Subs : Register(s) \/ Unregister(s)
    \/ \E e \in Events : Fire(e) \/ \E s \in Subs : Enqueue(e, s)
    \/ \E w \in Hooks : HookWorks(w) \/ OutcomeUnwritten(w) \/ HookDies(w)
    \/ \E d \in Deliveries : BackoffOver(d)

HookFairness ==
    /\ \A w \in Hooks : WF_hookvars(HookWorks(w))
    /\ \A d \in Deliveries : WF_hookvars(BackoffOver(d))

HookSpec == HookInit /\ [][HookNext]_hookvars

-----------------------------------------------------------------------------
\* Workers decide by counts that are out of date.  All the same a delivery is
\* only given up after the configured number of attempts (or when its secret
\* cannot be read), is only called delivered when the receiver took it, and is
\* tried more often than configured by no more than two rounds of the other
\* workers and one attempt for every death and every outcome that is not written.
TriesCounted == \A d \in Deliveries :
    /\ delivery[d] = "failed" /\ "secret" \notin HookFaults => sends[d] >= MaxAttempts
    /\ delivery[d] = "delivered" => d \in acked
    /\ sends[d] <= MaxAttempts + 2 * (Cardinality(Hooks) - 1) + lapses

\* Every delivery that was enqueued is settled in the end, if its subscription has
\* a URL that can be sent to and an outcome is not written a number of times only.
\* One with a port out of range is due forever.
DeliverySettles == \A d \in Deliveries :
    delivery[d] = "pending" /\ d[2] \notin badport ~> delivery[d] # "pending"
=============================================================================
