-------------------------- MODULE SettlementLedger --------------------------
(***************************************************************************)
(* SettlementLedger: the mint records, receipts and balances of the x402   *)
(* payments, as a value and the operations on it.  A signature is modelled *)
(* by whether it matches the fields it was made over, an address by the    *)
(* agent it names (the code lowercases it).                                *)
(***************************************************************************)
EXTENDS Integers, FiniteSets, Sequences

CONSTANTS Agents,
          FundingSource,      \* "system-funding-source", no agent
          RefillThreshold,    \* JABR_X402_AUTO_REFILL_THRESHOLD
          RefillAmount        \* JABR_X402_AUTO_REFILL_AMOUNT

ASSUME LedgerAssumption ==
  /\ FundingSource \notin Agents
  /\ RefillThreshold \in Nat /\ RefillAmount \in Nat

Mint == [from : Agents \cup {FundingSource}, to : Agents, amount : Nat]

\* A PaymentToken as it is presented; tx 0 was minted by some other ledger.
Token == [tx : Nat, from : Agents, to : Agents, amount : Nat, signed : BOOLEAN]

\* waived is no state of the code: what an agent's payments did not take
\* because it was not there.
Ledger == [mints : Seq(Mint), receipts : SUBSET Nat,
           balances : [Agents -> Nat], waived : [Agents -> Nat]]

EmptyLedger ==
  [mints |-> <<>>, receipts |-> {}, balances |-> [a \in Agents |-> 0],
   waived |-> [a \in Agents |-> 0]]

\* mintToken credits the recipient at once and debits nobody.
Minted(l, from, to, amount) ==
  [l EXCEPT !.mints = Append(@, [from |-> from, to |-> to, amount |-> amount]),
            !.balances[to] = @ + amount]

NewToken(l, from, to, amount) ==
  [tx |-> Len(l.mints) + 1, from |-> from, to |-> to, amount |-> amount,
   signed |-> TRUE]

Refills(balance) ==
  RefillThreshold > 0 /\ RefillAmount > 0 /\ balance < RefillThreshold

RefilledIfLow(l, agent) ==
  IF Refills(l.balances[agent])
  THEN Minted(l, FundingSource, agent, RefillAmount) ELSE l

\* Fault: a settled token is not looked up.
PassesUnseen(l, t) ==
  /\ t.tx \in DOMAIN l.mints
  /\ l.mints[t.tx].to = t.to
  /\ t.amount > 0
  /\ t.signed

\* The checks verify() makes before it may await anything.
Passes(l, t) ==
  /\ t.tx \notin l.receipts
  /\ t.tx \in DOMAIN l.mints
  /\ l.mints[t.tx].to = t.to
  /\ t.amount > 0
  /\ t.signed

\* Fault: the payer is debited once for the mint and once for the transfer.
DebitedTwice(balances, t) ==
  [balances EXCEPT ![t.from] = @ - 2 * t.amount]

\* Without a chain the payer is debited, down to zero at most.
Debited(balances, t) ==
  [balances EXCEPT ![t.from] = IF @ > t.amount THEN @ - t.amount ELSE 0]

\* What the payer lacks of the amount.
Short(balances, t) ==
  IF balances[t.from] < t.amount THEN t.amount - balances[t.from] ELSE 0

\* What verify() records once every check has passed.
Settled(l, t, chain) ==
  [l EXCEPT !.receipts = @ \cup {t.tx},
            !.balances = IF chain THEN @ ELSE Debited(@, t),
            !.waived[t.from] = IF chain THEN @ ELSE @ + Short(l.balances, t)]

-----------------------------------------------------------------------------
(* Sums over a ledger, for the properties.                                 *)

\* v[1] + ... + v[n], for every n.  A recursive function rather than a fold
\* of a library: the proofs need its equation.
SumTo(v) ==
  LET upTo[n \in Nat] == IF n = 0 THEN 0 ELSE upTo[n - 1] + v[n] IN upTo

Amounts(l, txs) ==
  [i \in Nat |-> IF i \in DOMAIN l.mints /\ i \in txs
                 THEN l.mints[i].amount ELSE 0]

Total(l, txs) == SumTo(Amounts(l, txs))[Len(l.mints)]

Credits(l, a) == Total(l, {i \in DOMAIN l.mints : l.mints[i].to = a})
Debits(l, a)  == Total(l, {i \in l.receipts : l.mints[i].from = a})
=============================================================================
