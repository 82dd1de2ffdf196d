------------------------ MODULE MCRecoveryAcquisition ------------------------
(***************************************************************************)
(* Sources of one merchant for one product, s1: of the product itself, of  *)
(* the merchant, and of another product.  2 replaces 1 for a time; 3 is an *)
(* alias of 1; 8 replaces 6, with another content for one of its entries.  *)
(* 5, 6 and 7 govern the merchant's products, and agree with the product's *)
(* sources, contradict them, or prove nothing.                             *)
(***************************************************************************)
EXTENDS RecoveryAcquisition

CONSTANTS s1, s2, purpose, recurrence, once, monthly

Forever == MaxTime + 1

Entry(id, sku) == [id |-> id, sku |-> sku, content |-> "genuine"]
Record(entry, from, until, supersedes, claims) ==
  [entry |-> entry, from |-> from, until |-> until, supersedes |-> supersedes,
   claims |-> claims]
Source(id, scope, kinds, from, until, records, supersedes) ==
  [id |-> id, merchant |-> Merchant, scope |-> scope, kinds |-> kinds, from |-> from,
   until |-> until, records |-> records, supersedes |-> supersedes]

Billing(value) == [k \in {recurrence} |-> value]

Terms == Record(Entry("terms", s1), 0, Forever, Nothing, Billing(once))
NewTerms == Record(Entry("newTerms", s1), 1, 2, "terms", Billing(once))
Pool ==
  {Source(1, s1, {purpose, recurrence}, 0, Forever, {Terms}, Nothing),
   Source(2, s1, {purpose, recurrence}, 1, 2, {Terms, NewTerms}, 1),
   Source(3, s1, {purpose, recurrence}, 0, Forever, {Terms}, Nothing),
   Source(4, s2, {recurrence}, 0, Forever,
          {Record(Entry("other", s2), 0, Forever, Nothing, Billing(monthly))}, Nothing),
   Source(5, Global, {recurrence}, 0, Forever,
          {Record(Entry("policy", Global), 0, Forever, Nothing, Billing(monthly))}, Nothing),
   Source(6, Global, {purpose}, 0, 2,
          {Record(Entry("use", Global), 0, Forever, Nothing, << >>),
           Record(Entry("notice", Global), 1, Forever, Nothing, << >>)}, Nothing),
   Source(8, Global, {purpose}, 1, Forever,
          {Record([Entry("use", Global) EXCEPT !.content = "revised"], 0, Forever, Nothing,
                  << >>)}, 6),
   Source(7, Global, {recurrence}, 0, Forever,
          {Record(Entry("policy", Global), 1, Forever, Nothing, Billing(Unestablished))}, Nothing)}

MCRegistries == {r \in SUBSET Pool : Cardinality(r) \in 1..3 /\ Constructible(r)}

Genuine(registry) == {d.record.entry : d \in Declared(registry)}
Altered == {[id |-> "terms", sku |-> s1, content |-> "forged"],
            [id |-> "terms", sku |-> Global, content |-> "genuine"]}

\* What the sources declare, but for one entry at most, and one entry of these at most
\* in the place of its own.
MCDeliveries(registry) ==
  {{e \in Genuine(registry) : e.id # missing /\ e.id \notin Ids(altered)} \union altered :
     missing \in Ids(Genuine(registry)) \union {Nothing},
     altered \in {{}} \union {{e} : e \in Altered}} \ {{}}

MCEvidence == UNION {Genuine(r) : r \in MCRegistries} \union Altered
MCInitialSets == {{}, {Entry("terms", s1)}}
MCSkus == {s1}
MCKinds == {purpose, recurrence}
MCRequired == {recurrence}
=============================================================================
