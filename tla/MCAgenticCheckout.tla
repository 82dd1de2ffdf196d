-------------------------- MODULE MCAgenticCheckout --------------------------
(***************************************************************************)
(* Scenarios: two purchases that are in order, and what they become when   *)
(* up to Deviations of their fields are something else.  The product's own *)
(* scenarios carry both commitments, a clock and an empty nonce ledger;    *)
(* the others are those that the replay runner, the benchmarks and the     *)
(* smoke scripts hand to the same functions.                               *)
(***************************************************************************)
EXTENDS AgenticCheckout

CONSTANTS c1, c2, e1, e2, k1, k2, Deviations

MCEvidenceSets == {{}, {e1}, {e1, e2}}

Listing(price, merchant, family, recurring) ==
  [price |-> price, merchant |-> merchant, family |-> family, recurring |-> recurring]

Catalog ==
  [merchant |-> "m1", currency |-> "INR",
   items |-> [s1 |-> Listing(2, "m1", "f1", FALSE), s2 |-> Listing(1, "m1", None, FALSE),
              s3 |-> Listing(2, "m2", "f1", FALSE), s4 |-> Listing(2, "m1", "f2", TRUE)]]

Line(sku, price, quantity) ==
  [sku |-> sku, price |-> price, quantity |-> quantity, total |-> price * quantity,
   recurring |-> FALSE]

Payload(lines, total, quantity) ==
  [merchant |-> "m1", cartCurrency |-> "INR", orderCurrency |-> "INR", total |-> total,
   quantity |-> quantity, cartRecurring |-> FALSE, orderRecurring |-> FALSE, lines |-> lines]

MCMandate(constraints, ceiling, families) ==
  [currency |-> "INR", ceiling |-> ceiling, maxQuantity |-> 2, recurring |-> FALSE,
   merchants |-> {"m1"}, skus |-> None, families |-> families, expiresAt |-> 2,
   nonce |-> "n1", constraints |-> constraints]

\* The commitments and the declared hash are those of tx and catalog as they are.
Scenario(mandate, tx) ==
  [mandate |-> mandate, tx |-> tx, declared |-> tx, catalog |-> Catalog,
   committed |-> [tx |-> tx, catalog |-> Catalog], now |-> 1, consumed |-> {}]

One == Scenario(MCMandate({k1, k2}, 4, {"f1"}), Payload(<<Line("s1", 2, 1)>>, 2, 1))
Two == Scenario(MCMandate({}, 3, None), Payload(<<Line("s1", 2, 1), Line("s2", 1, 1)>>, 3, 2))

\* What one field of a purchase may be instead; the hashes are kept or follow.
Changes(s) ==
  {[s EXCEPT !.mandate.ceiling = 1], [s EXCEPT !.mandate.maxQuantity = 1],
   [s EXCEPT !.mandate.recurring = TRUE], [s EXCEPT !.mandate.merchants = None],
   [s EXCEPT !.mandate.skus = {"s2"}], [s EXCEPT !.mandate.families = None],
   [s EXCEPT !.mandate.families = {"f2"}], [s EXCEPT !.mandate.currency = "USD"],
   [s EXCEPT !.now = 2], [s EXCEPT !.consumed = {"n1"}],
   [s EXCEPT !.catalog.currency = "USD"], [s EXCEPT !.catalog.merchant = "m2"],
   [s EXCEPT !.catalog.items["s1"].price = 1], [s EXCEPT !.catalog.items["s1"].recurring = TRUE],
   [s EXCEPT !.catalog.items["s1"].family = None]}
  \union
  {[s EXCEPT !.tx = t] : t \in
    {[s.tx EXCEPT !.merchant = "m2"], [s.tx EXCEPT !.cartCurrency = "USD"],
     [s.tx EXCEPT !.orderCurrency = "USD"], [s.tx EXCEPT !.total = 1],
     [s.tx EXCEPT !.quantity = 2], [s.tx EXCEPT !.cartRecurring = TRUE],
     [s.tx EXCEPT !.orderRecurring = TRUE], [s.tx EXCEPT !.lines[1].quantity = 2],
     [s.tx EXCEPT !.total = 4, !.lines[1].quantity = 2, !.lines[1].total = 4],
     [s.tx EXCEPT !.lines[1].total = 1], [s.tx EXCEPT !.lines[1].price = 1],
     [s.tx EXCEPT !.lines[1].recurring = TRUE], [s.tx EXCEPT !.lines[1].sku = "s3"],
     [s.tx EXCEPT !.lines[1].sku = "s4"], [s.tx EXCEPT !.lines[1].sku = "s5"]}}

\* A snapshot taken after the change: its hashes are those of what it holds.
Rehashed(s) ==
  [s EXCEPT !.declared = s.tx, !.committed = [tx |-> s.tx, catalog |-> s.catalog]]

Deviating[n \in 0..Deviations] ==
  IF n = 0 THEN {One, Two}
  ELSE Deviating[n - 1] \union UNION {Changes(s) : s \in Deviating[n - 1]}

MCScenarios == Deviating[Deviations] \union {Rehashed(s) : s \in Deviating[Deviations]}
Plain == {One}
=============================================================================
