--------------------------- MODULE PaymentAdapters ---------------------------
(***************************************************************************)
(* The three payment providers: what their adapters make of a notification *)
(* (parse_webhook_event), what they ask for at checkout, and how they      *)
(* cancel (payment_providers/*.py).  Pure functions of a request and of    *)
(* the provider's answers; Billing takes its events from them.             *)
(*                                                                         *)
(* A notification is the record of the JSON fields an adapter reads.  One  *)
(* that is missing, null or empty is Absent, but for the id, of which one  *)
(* adapter can tell whether it is missing or there and Empty.              *)
(***************************************************************************)
EXTENDS Sequences, Naturals

CONSTANTS
  Absent,     \* a missing, null or empty JSON field
  Empty       \* an id that is there, but null or empty

Types == {"succeeded", "failed", "canceled", "unknown"}       \* PaymentEventType

Fields == {"event", "status", "id", "ref", "account", "client_ref",
           "customer", "subscription", "object", "period_end"}

Blank == [f \in Fields |-> Absent]

Or(x, y) == IF x \in {Absent, Empty} THEN y ELSE x

\* event.get("id", y)
Default(x, y) == IF x = Absent THEN y ELSE x

Mapped(table, event) == IF event \in DOMAIN table THEN table[event] ELSE "unknown"

-----------------------------------------------------------------------------
(* parse_webhook_event; fresh is what uuid4 draws.                         *)

StripeEvents == [e \in {"checkout.session.completed", "invoice.paid",
                        "invoice.payment_failed", "customer.subscription.deleted"} |->
  CASE e = "invoice.payment_failed"        -> "failed"
    [] e = "customer.subscription.deleted" -> "canceled"
    [] OTHER                               -> "succeeded"]

ParseStripe(n, fresh) ==
  [id           |-> Default(n.id, fresh),
   type         |-> Mapped(StripeEvents, n.event),
   account      |-> Or(n.account, n.client_ref),
   customer     |-> n.customer,
   subscription |-> Or(n.subscription, n.object),
   period_end   |-> n.period_end]

PaystackEvents == [e \in {"charge.success", "subscription.create",
                          "invoice.payment_failed", "subscription.disable"} |->
  CASE e = "invoice.payment_failed" -> "failed"
    [] e = "subscription.disable"   -> "canceled"
    [] OTHER                        -> "succeeded"]

\* The transaction names the event; a date that does not parse is no date.
ParsePaystack(n, fresh) ==
  [id           |-> Or(n.id, Or(n.ref, fresh)),
   type         |-> Mapped(PaystackEvents, n.event),
   account      |-> n.account,
   customer     |-> n.customer,
   subscription |-> n.subscription,
   period_end   |-> IF n.period_end = "malformed" THEN Absent ELSE n.period_end]

\* event.startswith("charge."), and "subscription" and "cancel" are both in it.
IsCharge(event)       == event \in {"charge.completed", "charge.failed"}
IsCancellation(event) == event \in {"subscription.cancelled", "subscription.cancel"}

FlutterwaveType(event, status) ==
  CASE IsCharge(event) /\ status = "successful"              -> "succeeded"
    [] IsCharge(event) /\ status \in {"failed", "cancelled"} -> "failed"
    [] IsCancellation(event)                                 -> "canceled"
    [] OTHER                                                 -> "unknown"

\* The subscription is the code of the plan, not one customer's subscription.
ParseFlutterwave(n, fresh) ==
  [id           |-> Or(n.id, Or(n.ref, fresh)),
   type         |-> FlutterwaveType(n.event, n.status),
   account      |-> n.account,
   customer     |-> n.customer,
   subscription |-> n.subscription,
   period_end   |-> Absent]

\* ADAPTERS
Providers == {"stripe", "paystack", "flutterwave"}

Parse(provider, n, fresh) ==
  CASE provider = "stripe"      -> ParseStripe(n, fresh)
    [] provider = "paystack"    -> ParsePaystack(n, fresh)
    [] provider = "flutterwave" -> ParseFlutterwave(n, fresh)

\* What the upsert of apply_event keeps for a later cancellation: the customer and
\* the subscription of the last successful payment, whichever these are.
Kept(provider, e) ==
  [provider |-> provider, customer |-> e.customer, subscription |-> e.subscription]

-----------------------------------------------------------------------------
(* create_checkout_session: the account goes to the provider with the      *)
(* request, and comes back with the notifications that carry it.           *)

PriceOf(prices, plan) == IF plan \in DOMAIN prices THEN prices[plan] ELSE prices["monthly"]

\* ok: the provider has answered with a 2xx (otherwise the call raises).
StripeCheckout(prices, account, plan) ==
  [price |-> PriceOf(prices, plan), account |-> account, client_ref |-> account]

PaystackCheckout(prices, account, plan) ==
  [price |-> PriceOf(prices, plan), account |-> account, client_ref |-> Absent]

FlutterwaveCheckout(prices, account, plan) ==
  [price |-> PriceOf(prices, plan), account |-> account, client_ref |-> Absent]

\* What a notification about this checkout echoes of it.
Echoes(checkout, n) ==
  n.account \in {Absent, checkout.account} /\ n.client_ref \in {Absent, checkout.client_ref}

-----------------------------------------------------------------------------
(* cancel_subscription.  The answers of the provider are the argument, the *)
(* result what has been cancelled there, or Absent when the call returns   *)
(* False (and the route answers 502).                                      *)

StripeCancel(kept, raises) == IF raises THEN Absent ELSE kept.subscription

\* Two requests: the token of the subscription, then its end.
PaystackCancel(kept, fetched, token, disabled) ==
  IF fetched = 200 /\ token # Absent /\ disabled = 200 THEN kept.subscription ELSE Absent

\* The first subscription of the customer to the plan, be it live or not.
FlutterwaveMatch(kept, listing) ==
  LET found == { i \in DOMAIN listing : listing[i].plan = kept.subscription }
  IN  IF found = {} THEN Absent ELSE listing[CHOOSE i \in found : \A j \in found : i <= j].id

FlutterwaveCancel(kept, listed, listing, cancelled) ==
  IF kept.customer # Absent /\ listed = 200 /\ cancelled = 200
  THEN FlutterwaveMatch(kept, listing) ELSE Absent
=============================================================================
