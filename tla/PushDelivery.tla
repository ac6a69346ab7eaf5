---------------------------- MODULE PushDelivery ----------------------------
(***************************************************************************)
(* The worker's delivery of push notifications, next to the accounts whose *)
(* devices they go to.                                                     *)
(*                                                                         *)
(* A cycle reads the subscriptions of active users once.  For each trigger *)
(* and each of them it inserts a delivery row, unless there is one, sends, *)
(* and marks the row and then the subscription.  An answer of the push     *)
(* service may be lost after the message was delivered; a failed UPDATE    *)
(* after a successful send is handled as a failed send; a failed UPDATE of *)
(* that ends the cycle; and the worker may die anywhere.  A row is never   *)
(* claimed twice, but retention deletes it after half a year.              *)
(***************************************************************************)
EXTENDS Accounts

CONSTANTS
  Devices,    \* push endpoints
  Triggers    \* notification candidates that may be dispatched

VARIABLES
  subs,       \* push_subscriptions: [Devices -> [owner, enabled]]
  deliveries, \* push_notification_deliveries: [Triggers \X Devices -> status]
  list,       \* the subscriptions the cycle read: [device, owner]
  todo,       \* the deliveries it has left
  sending,    \* the delivery it is at: [pair, phase]
  received    \* history: [Triggers \X Devices -> messages delivered since the
              \* row was last deleted]

pushVars == <<subs, deliveries, list, todo, sending, received>>
vars == <<accountVars, pushVars>>

Pairs == Triggers \X Devices

Idle == [pair |-> << >>, phase |-> "idle"]

Phases == {"claimed", "accepted", "failed", "gone", "sentMarked", "failedMarked", "goneMarked"}

TypeOK ==
  /\ AccountsTypeOK
  /\ subs \in [Devices -> [owner : Persons \cup {Nobody}, enabled : BOOLEAN]]
  /\ deliveries \in [Pairs -> {"none", "claimed", "sent", "failed"}]
  /\ list \subseteq [device : Devices, owner : Persons]
  /\ todo \subseteq Pairs
  /\ sending \in {Idle} \cup [pair : Pairs, phase : Phases]
  /\ received \in [Pairs -> 0..2]

Init ==
  /\ AccountsInit
  /\ subs = [d \in Devices |-> [owner |-> Nobody, enabled |-> FALSE]]
  /\ deliveries = [pair \in Pairs |-> "none"]
  /\ list = {} /\ todo = {} /\ sending = Idle
  /\ received = [pair \in Pairs |-> 0]

-----------------------------------------------------------------------------
(* Requests *)

\* An endpoint is stored once: another user of the browser takes it over.
Subscribe(c, d) ==
  /\ handling[c] # Nobody
  /\ subs' = [subs EXCEPT ![d] = [owner |-> handling[c], enabled |-> TRUE]]
  /\ UNCHANGED <<accountVars, deliveries, list, todo, sending, received>>

Unsubscribe(c, d) ==
  /\ handling[c] # Nobody
  /\ subs[d].owner = handling[c]
  /\ subs' = [subs EXCEPT ![d].enabled = FALSE]
  /\ UNCHANGED <<accountVars, deliveries, list, todo, sending, received>>

-----------------------------------------------------------------------------
(* The worker *)

\* activePushSubscriptions
Deliverable(d) ==
  /\ subs[d].enabled
  /\ user[subs[d].owner] = "active"

StartDelivery(triggers) ==
  /\ list = {} /\ todo = {}
  /\ list' = {[device |-> d, owner |-> subs[d].owner] : d \in {e \in Devices : Deliverable(e)}}
  /\ todo' = triggers \X {d \in Devices : Deliverable(d)}
  /\ UNCHANGED <<accountVars, subs, deliveries, sending, received>>

\* A bug to catch: a failed row is claimed again, so that the message is retried.
Claim_Failed(pair) ==
  /\ sending = Idle /\ pair \in todo
  /\ todo' = todo \ {pair}
  /\ IF deliveries[pair] \in {"none", "failed"}
     THEN /\ deliveries' = [deliveries EXCEPT ![pair] = "claimed"]
          /\ sending' = [pair |-> pair, phase |-> "claimed"]
     ELSE UNCHANGED <<deliveries, sending>>
  /\ UNCHANGED <<accountVars, subs, list, received>>

\* INSERT ... ON CONFLICT DO NOTHING
Claim(pair) ==
  /\ sending = Idle /\ pair \in todo
  /\ todo' = todo \ {pair}
  /\ IF deliveries[pair] = "none"
     THEN /\ deliveries' = [deliveries EXCEPT ![pair] = "claimed"]
          /\ sending' = [pair |-> pair, phase |-> "claimed"]
     ELSE UNCHANGED <<deliveries, sending>>
  /\ UNCHANGED <<accountVars, subs, list, received>>

Answered(phase) == sending' = [sending EXCEPT !.phase = phase]

\* A bug to catch: an endpoint that is gone counts as an answered send.
Send_IgnoresGone ==
  /\ sending.phase = "claimed"
  /\ \/ /\ Answered("accepted") \/ Answered("failed")
        /\ received' = [received EXCEPT ![sending.pair] = @ + 1]
     \/ /\ Answered("failed") \/ Answered("accepted")
        /\ UNCHANGED received
  /\ UNCHANGED <<accountVars, subs, deliveries, list, todo>>

\* The service takes the message, loses it, or takes it and its answer is lost;
\* or it answers that the endpoint is gone.
Send ==
  /\ sending.phase = "claimed"
  /\ \/ /\ Answered("accepted") \/ Answered("failed")
        /\ received' = [received EXCEPT ![sending.pair] = @ + 1]
     \/ /\ Answered("failed") \/ Answered("gone")
        /\ UNCHANGED received
  /\ UNCHANGED <<accountVars, subs, deliveries, list, todo>>

MarkDelivery(phase, status, marked) ==
  /\ sending.phase = phase
  /\ deliveries' = [deliveries EXCEPT ![sending.pair] = status]
  /\ sending' = [sending EXCEPT !.phase = marked]
  /\ UNCHANGED <<accountVars, subs, list, todo, received>>

\* The second UPDATE; only an endpoint that is gone is disabled.
MarkSubscription ==
  /\ sending.phase \in {"sentMarked", "failedMarked", "goneMarked"}
  /\ subs' = IF sending.phase = "goneMarked"
             THEN [subs EXCEPT ![sending.pair[2]].enabled = FALSE]
             ELSE subs
  /\ sending' = Idle
  /\ UNCHANGED <<accountVars, deliveries, list, todo, received>>

\* An UPDATE of markPushDeliverySent throws, into the catch around the send.
MarkSentThrows ==
  /\ sending.phase \in {"accepted", "sentMarked"}
  /\ sending' = [sending EXCEPT !.phase = "failed"]
  /\ UNCHANGED <<accountVars, subs, deliveries, list, todo, received>>

Stops ==
  /\ list' = {} /\ todo' = {} /\ sending' = Idle
  /\ UNCHANGED <<accountVars, subs, deliveries, received>>

FinishDelivery ==
  /\ list # {} /\ todo = {} /\ sending = Idle
  /\ Stops

\* An UPDATE of markPushDeliveryFailed or a claim throws, or the worker dies.
DeliveryAborts ==
  /\ list # {}
  /\ Stops

\* Half a year later: of a delivery the worker is not at.
PruneDelivery(pair) ==
  /\ deliveries[pair] # "none"
  /\ sending = Idle \/ sending.pair # pair
  /\ deliveries' = [deliveries EXCEPT ![pair] = "none"]
  /\ received' = [received EXCEPT ![pair] = 0]
  /\ UNCHANGED <<accountVars, subs, list, todo, sending>>

WorkerStep ==
  \/ \E pair \in Pairs : Claim(pair)
  \/ Send
  \/ MarkDelivery("accepted", "sent", "sentMarked")
  \/ MarkDelivery("failed", "failed", "failedMarked")
  \/ MarkDelivery("gone", "failed", "goneMarked")
  \/ MarkSubscription
  \/ FinishDelivery

PushNext ==
  \/ \E c \in Clients, d \in Devices : Subscribe(c, d) \/ Unsubscribe(c, d)
  \/ \E triggers \in (SUBSET Triggers) \ {{}} : StartDelivery(triggers)
  \/ WorkerStep
  \/ MarkSentThrows
  \/ DeliveryAborts
  \/ \E pair \in Pairs : PruneDelivery(pair)

Next ==
  \/ AccountsNext /\ UNCHANGED pushVars
  \/ PushNext

Spec == Init /\ [][Next]_vars

\* Requests end, and every await of the delivery loop returns.
Fairness ==
  /\ \A c \in Clients : WF_vars(FinishRequest(c) /\ UNCHANGED pushVars)
  /\ WF_vars(WorkerStep)

FairSpec == Spec /\ Fairness

-----------------------------------------------------------------------------

\* One notification reaches a device at most once as long as its delivery row
\* lives, whatever is lost, retried or crashes: claimPushDelivery, the catch of
\* deliverPushNotifications and the unique (trigger_id, subscription_id).
SentOnce == \A pair \in Pairs : received[pair] <= 1

\* What the delivery table says of a message is true: "sent" was delivered, and
\* of what has no row nothing was.
LedgerIsHonest ==
  \A pair \in Pairs :
    /\ deliveries[pair] = "sent" => received[pair] > 0
    /\ deliveries[pair] = "none" => received[pair] = 0

\* A revocation that stands takes effect: a time comes from which no request of
\* the user is let in and nothing is sent to the user's devices, although a
\* request or login in flight may save a session row again, or subscribe, after
\* the revocation (updateUser, requireUser, activePushSubscriptions).
RevocationTakesEffect ==
  \A p \in Persons :
    <>[](user[p] = "revoked")
      => <>[](/\ \A c \in Clients : handling[c] # p
              /\ \A s \in list : s.owner # p)

\* "Revocation must delete that user's persisted session rows so reactivation
\* does not resurrect an old browser session"
\* (docs/plans/2026-07-12-audit-findings-remediation.md:83): no session row is
\* left to the user who is made active again.  The callback saves the session
\* after its transaction, and a request may save its own when it ends, both
\* perhaps after the revocation deleted the rows.
ReactivationRevivesNothing ==
  [][\A p \in Persons :
       user[p] = "revoked" /\ user'[p] = "active" => \A c \in Clients : session[c] # p]_vars
=============================================================================
