------------------------------ MODULE MCBilling ------------------------------
(* Billing on small instances: one account, one event of each kind, each   *)
(* what an adapter makes of a notification.                                *)
EXTENDS Billing, TLC

CONSTANTS a1, d1, d2, s1, pay, fail, cancel, other, MaxCalls

A == INSTANCE PaymentAdapters WITH Absent <- None, Empty <- ""

\* The notifications of the instance, one per event, as the three providers send them.
Notice ==
     pay    :> <<"stripe", [A!Blank EXCEPT !.event = "checkout.session.completed",
                            !.id = "evt", !.client_ref = a1, !.object = "cs"]>>
  @@ fail   :> <<"paystack", [A!Blank EXCEPT !.event = "invoice.payment_failed",
                              !.account = a1, !.subscription = "SUB"]>>
  @@ cancel :> <<"flutterwave", [A!Blank EXCEPT !.event = "subscription.cancelled",
                                 !.account = a1, !.id = "tx"]>>
  @@ other  :> <<"flutterwave", [A!Blank EXCEPT !.event = "charge.completed",
                                 !.account = a1, !.id = "tx2", !.status = "pending"]>>

Parsed(e) == A!Parse(Notice[e][1], Notice[e][2], "uuid")

Kinds     == [e \in Events |-> Parsed(e).type]
AllForOne == [e \in Events |-> Parsed(e).account]

\* At most MaxCalls of the webhook, signup and claim calls are made.
FewCalls ==
  LET calls == {d \in Deliveries : hook[d].at # "idle"}
                 \cup {s \in Signups : signup[s].at # "idle"}
                 \cup {c \in Claims : claim[c].at # "idle"}
  IN  Cardinality(calls) <= MaxCalls

Symmetry == Permutations(Deliveries) \cup Permutations(Tokens) \cup Permutations(Claims)

-----------------------------------------------------------------------------
(* The adapters, over every notification of these values.                  *)

EventNames == DOMAIN A!StripeEvents \cup DOMAIN A!PaystackEvents
                \cup {"charge.completed", "subscription.cancelled", "transfer.completed"}

Notices == [event : EventNames, status : {None, "successful", "failed", "pending"},
            id : {None, "", "tx"}, ref : {None, "ref"}, account : {None, a1},
            client_ref : {None, a1}, customer : {None, "cus"},
            subscription : {None, "SUB"}, object : {None, "cs"},
            period_end : {None, "malformed"}]

\* Notices that differ in what names them and in what they say.
Named == {n \in Notices : n.account = a1 /\ n.client_ref = None /\ n.customer = "cus"
                            /\ n.subscription = "SUB" /\ n.object = None /\ n.period_end = None}

Prices == "monthly" :> 5000

Checkouts == {A!StripeCheckout(Prices, a1, p) : p \in {"monthly", "yearly"}}
               \cup {A!PaystackCheckout(Prices, a1, "monthly"),
                     A!FlutterwaveCheckout(Prices, a1, "monthly")}

\* What is true of the adapters (parse_webhook_event): a payment is for the account
\* of its checkout or for nobody, in which case apply_event ignores it; a plan without
\* a price is charged as "monthly".
ASSUME PaysForItsAccount ==
  \A k \in Checkouts, p \in A!Providers, n \in Notices :
    A!Echoes(k, n) => A!Parse(p, n, "uuid").account \in {None, k.account}
                        /\ k.price = Prices["monthly"]

\* The event that already_processed looks for is the transaction, whatever its status
\* (base.py:43: "each provider gives a unique event/tx id"): a pending or failed notice
\* that names a transaction first makes the notice of its success a repetition.
ASSUME TransactionIsTheEvent ==
  \A p \in {"paystack", "flutterwave"}, m, n \in Named :
    m.id \notin {None, ""} /\ m.id = n.id => A!Parse(p, m, "u1").id = A!Parse(p, n, "u2").id

\* A notice that names no transaction is another event at each delivery, so it is
\* applied at each delivery: but to Stripe's adapter an empty id is a name, which all
\* notices with one share.
ASSUME UnnamedIsAlwaysNew ==
  \A p \in A!Providers, n \in Named :
    n.id \in {None, ""} /\ n.ref = None =>
      (A!Parse(p, n, "u1").id # A!Parse(p, n, "u2").id <=> ~(p = "stripe" /\ n.id = ""))

\* A cancellation that is reported was confirmed, and is of a subscription of the
\* customer to the plan on record, but of the first listed, which need not be the live one.
Listings == UNION {[1 .. k -> [id : {"s1", "s2"}, plan : {"SUB", "other"}]] :
                     k \in 0 .. 2}

ASSUME CancelsTheCustomers ==
  \A l \in Listings, listed, cancelled \in {200, 500}, customer \in {None, "cus"} :
    LET kept == [provider |-> "flutterwave", customer |-> customer, subscription |-> "SUB"]
        done == A!FlutterwaveCancel(kept, listed, l, cancelled)
    IN  done # None <=> /\ customer # None /\ listed = 200 /\ cancelled = 200
                        /\ \E i \in DOMAIN l : /\ l[i].plan = "SUB" /\ l[i].id = done
                                             /\ \A j \in 1 .. i - 1 : l[j].plan # "SUB"
=============================================================================
