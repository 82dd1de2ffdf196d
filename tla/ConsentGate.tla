----------------------------- MODULE ConsentGate -----------------------------
(***************************************************************************)
(* What the execution kernel promises (README.md and                       *)
(* docs/MANDATE_REVOCATION.md, "VALID CAPABILITY + CURRENT MANDATE STATE   *)
(* != ACTIVE CURRENT VERSION = REJECT BEFORE NETWORK"), without locks,     *)
(* threads, tables or crashes: an order request goes out in one indivisible *)
(* step, only while the bound consent is in force, and only with a nonce   *)
(* nobody has used.  GuardedExecution is shown to implement this, and the  *)
(* requests to one run (CommerceRun) to keep to it.                        *)
(***************************************************************************)
EXTENDS Integers

CONSTANTS
  Mandates, Versions,
  Nonces, Capabilities,
  NonceOf,      \* the decision nonce each capability carries
  Unissued      \* stands for a capability not yet issued

VARIABLES
  inForce,      \* mandate |-> the set of versions the user consents to now
  ever,         \* mandate |-> the versions that were ever in force
  bound,        \* capability |-> the mandate and version it is bound to
  spent,        \* the nonces that can never pay for a request again
  ordered       \* the capabilities an order request was sent for

gateVars == <<inForce, ever, bound, spent, ordered>>

GateInit ==
  /\ inForce = [m \in Mandates |-> {}]
  /\ ever = [m \in Mandates |-> {}]
  /\ bound = [c \in Capabilities |-> Unissued]
  /\ spent = {}
  /\ ordered = {}

\* Consent begins, or is renewed, with a version newer than every earlier one.
Consent(m, v) ==
  /\ \A w \in ever[m] : w < v
  /\ inForce' = [inForce EXCEPT ![m] = {v}]
  /\ ever' = [ever EXCEPT ![m] = @ \union {v}]
  /\ UNCHANGED <<bound, spent, ordered>>

Withdraw(m) ==
  /\ inForce' = [inForce EXCEPT ![m] = {}]
  /\ UNCHANGED <<ever, bound, spent, ordered>>

Bind(c, m, v) ==
  /\ bound[c] = Unissued
  /\ v \in inForce[m]
  /\ bound' = [bound EXCEPT ![c] = [mandate |-> m, version |-> v]]
  /\ UNCHANGED <<inForce, ever, spent, ordered>>

\* A nonce may be lost without a request: a refusal or a crash consumes it.
Burn(n) ==
  /\ n \notin spent
  /\ spent' = spent \union {n}
  /\ UNCHANGED <<inForce, ever, bound, ordered>>

Order(c) ==
  /\ bound[c] # Unissued
  /\ bound[c].version \in inForce[bound[c].mandate]
  /\ NonceOf[c] \notin spent
  /\ spent' = spent \union {NonceOf[c]}
  /\ ordered' = ordered \union {c}
  /\ UNCHANGED <<inForce, ever, bound>>

GateNext ==
  \/ \E m \in Mandates : Withdraw(m)
  \/ \E m \in Mandates, v \in Versions : Consent(m, v)
  \/ \E c \in Capabilities, m \in Mandates, v \in Versions : Bind(c, m, v)
  \/ \E n \in Nonces : Burn(n)
  \/ \E c \in Capabilities : Order(c)

GateSpec == GateInit /\ [][GateNext]_gateVars
=============================================================================
