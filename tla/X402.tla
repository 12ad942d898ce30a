-------------------------------- MODULE X402 --------------------------------
(***************************************************************************)
(* Delegations that pay: X402Client fetches and caches the card of an      *)
(* agent, mints a token for the price it knows and sends the task;         *)
(* X402Server, in front of an agent, verifies the token on the ledger the  *)
(* two share, against the card it was last given.  With a chain endpoint   *)
(* the verification awaits an answer of the chain, and other requests are  *)
(* served meanwhile.                                                       *)
(***************************************************************************)
EXTENDS SettlementLedger

CONSTANTS Delegations,   \* calls of delegateTask, and requests re-sent
          Delegator,     \* delegatorUrl of the client
          Workers,       \* the agents it delegates to
          Charging,      \* the agents whose X402Server is given cards
          Cards,         \* pricing of a card: its own costPerTask (flat), and
                         \* the costPerTask of its settlement pricing
          Surcharges,    \* costPerToken times the tokens of a text
          CardThreshold, \* settlement.autoRefillThreshold
          MaxMints,      \* bound
          MaxCards,      \* bound on the cards published
          NoPrice,       \* a card without settlement pricing, or no card
          Unfetched,
          NoToken

ASSUME X402Assumption ==
  /\ Delegator \in Agents
  /\ Workers \subseteq Agents /\ Workers # {} /\ Surcharges # {}
  /\ Charging \subseteq Agents
  /\ MaxMints \in Nat /\ CardThreshold \in Nat /\ MaxCards \in Nat
  /\ Cards \subseteq [flat : Nat, settlement : Nat] /\ Surcharges \subseteq Nat
  /\ {NoPrice, Unfetched} \cap Nat = {} /\ NoPrice \notin Cards

VARIABLES chain,           \* a chain endpoint is configured
          ledger,
          card,            \* the card each agent publishes
          published,       \* cards published since the start
          expected,        \* what the server in front of an agent goes by
          cardCache,       \* of the client
          settlementCache, \* of the client
          delegation

vars == <<chain, ledger, card, published, expected, cardCache, settlementCache,
          delegation>>

agentVars == <<card, published, expected>>

\* getSettlementPricing, as far as it is a price.
Price(c) == IF c = NoPrice THEN NoPrice ELSE c.settlement

Prices == {c.settlement : c \in Cards}
Quotes == Prices \cup {NoPrice}

\* A card, and whether its settlement pricing was passed along with it.
Expectations == [card : Cards, passed : BOOLEAN] \cup {NoPrice}

\* due: what the server went by when the request was checked; settled: this
\* request's verification succeeded.
Delegation ==
  [phase : {"idle", "fetching", "refilled", "sent", "verifying", "admitted",
            "refused", "lost"},
   to : Agents, price : Quotes, surcharge : Surcharges,
   token : Token \cup {NoToken}, settled : BOOLEAN, due : Expectations]

TypeOK ==
  /\ chain \in BOOLEAN
  /\ ledger \in Ledger
  /\ ledger.receipts \subseteq DOMAIN ledger.mints
  /\ card \in [Workers -> Cards \cup {NoPrice}] /\ published \in Nat
  /\ expected \in [Agents -> Expectations]
  /\ cardCache \in [Workers -> Quotes \cup {Unfetched}]
  /\ settlementCache \in [Workers -> Quotes \cup {Unfetched}]
  /\ delegation \in [Delegations -> Delegation]

Init ==
  /\ chain \in BOOLEAN
  /\ ledger = EmptyLedger
  /\ card \in [Workers -> Cards \cup {NoPrice}] /\ published = 0
  /\ expected = [a \in Agents |-> NoPrice]
  /\ cardCache = [a \in Workers |-> Unfetched]
  /\ settlementCache = [a \in Workers |-> Unfetched]
  /\ delegation = [d \in Delegations |->
       [phase |-> "idle", to |-> CHOOSE a \in Workers : TRUE,
        price |-> NoPrice, due |-> NoPrice,
        surcharge |-> CHOOSE s \in Surcharges : TRUE, token |-> NoToken,
        settled |-> FALSE]]

-----------------------------------------------------------------------------
(* The client.  f is the delegation with its arguments and the price the   *)
(* client goes by.                                                         *)

\* Fault: the task's own price is forgotten where a text is charged for.
SendPaidBySurcharge(d, f) ==
  LET amount == IF f.surcharge > 0 THEN f.surcharge ELSE f.price
      token  == NewToken(ledger, Delegator, f.to, amount) IN
  /\ Len(ledger.mints) < MaxMints
  /\ ledger' = Minted(ledger, Delegator, f.to, amount)
  /\ delegation' = [delegation EXCEPT ![d] =
                      [f EXCEPT !.phase = "sent", !.token = token]]

\* The token is minted and the task sent with it.
SendPaid(d, f) ==
  LET amount == f.price + f.surcharge
      token  == NewToken(ledger, Delegator, f.to, amount) IN
  /\ Len(ledger.mints) < MaxMints
  /\ ledger' = Minted(ledger, Delegator, f.to, amount)
  /\ delegation' = [delegation EXCEPT ![d] =
                      [f EXCEPT !.phase = "sent", !.token = token]]

\* delegateWithPayment: a low balance is refilled before an await, the
\* token minted after it.
Pay(d, f) ==
  IF ledger.balances[Delegator] < CardThreshold
  THEN /\ Len(ledger.mints) < MaxMints
       /\ ledger' = RefilledIfLow(ledger, Delegator)
       /\ delegation' = [delegation EXCEPT ![d] = [f EXCEPT !.phase = "refilled"]]
  ELSE SendPaid(d, f)

\* delegateTask, once the card is known: no pricing, no token.
GoOn(d, f) ==
  /\ settlementCache' = [settlementCache EXCEPT ![f.to] = f.price]
  /\ IF f.price = NoPrice
     THEN /\ delegation' = [delegation EXCEPT ![d] = [f EXCEPT !.phase = "sent"]]
          /\ UNCHANGED ledger
     ELSE Pay(d, f)

\* What the client knows of an agent's price.  A missing price is looked
\* for again in the card cache, a price is not.
Known(a) ==
  IF settlementCache[a] \in Prices THEN settlementCache[a] ELSE cardCache[a]

DelegateTask(d, a, s) ==
  LET f == [delegation[d] EXCEPT !.to = a, !.surcharge = s, !.price = Known(a)] IN
  /\ delegation[d].phase = "idle"
  /\ IF Known(a) = Unfetched
     THEN /\ delegation' = [delegation EXCEPT ![d] =
                              [f EXCEPT !.phase = "fetching", !.price = NoPrice]]
          /\ UNCHANGED <<settlementCache, ledger>>
     ELSE GoOn(d, f)
  /\ UNCHANGED <<chain, agentVars, cardCache>>

\* fetchCard returns; a failure is cached like a card without pricing.
CardFetched(d, q) ==
  LET f == [delegation[d] EXCEPT !.price = q] IN
  /\ delegation[d].phase = "fetching"
  /\ q \in {Price(card[f.to]), NoPrice}
  /\ cardCache' = [cardCache EXCEPT ![f.to] = q]
  /\ GoOn(d, f)
  /\ UNCHANGED <<chain, agentVars>>

SendAfterRefill(d) ==
  /\ delegation[d].phase = "refilled"
  /\ SendPaid(d, delegation[d])
  /\ UNCHANGED <<chain, agentVars, cardCache, settlementCache>>

\* The cached prices stay.
ClearCache ==
  /\ cardCache' = [a \in Workers |-> Unfetched]
  /\ UNCHANGED <<chain, ledger, agentVars, settlementCache, delegation>>

\* The request never arrives; what was minted stays minted.
RequestLost(d) ==
  /\ delegation[d].phase = "sent"
  /\ delegation' = [delegation EXCEPT ![d].phase = "lost"]
  /\ UNCHANGED <<chain, ledger, agentVars, cardCache, settlementCache>>

\* A request to some agent with a header another one had, whole, damaged, or
\* of a ledger that is not this one.
SentAgain(d, e, a) ==
  LET t == delegation[e].token IN
  /\ delegation[d].phase = "idle"
  /\ delegation[e].token # NoToken
  /\ \E u \in {t, [t EXCEPT !.amount = @ + 1, !.signed = FALSE],
               [t EXCEPT !.tx = 0]} :
       delegation' = [delegation EXCEPT ![d] =
                        [delegation[e] EXCEPT !.phase = "sent", !.to = a,
                                              !.token = u, !.settled = FALSE]]
  /\ UNCHANGED <<chain, ledger, agentVars, cardCache, settlementCache>>

-----------------------------------------------------------------------------
(* The server.                                                             *)

\* An agent publishes another card.
PublishCard(a, c) ==
  /\ published < MaxCards /\ published' = published + 1
  /\ card' = [card EXCEPT ![a] = c]
  /\ UNCHANGED <<chain, ledger, expected, cardCache, settlementCache, delegation>>

\* updateFromCard: the server in front of a is given the card of b, with or
\* without its settlement pricing.
UpdateFromCard(a, b, passed) ==
  /\ expected' = [expected EXCEPT ![a] =
       IF card[b] = NoPrice THEN NoPrice ELSE [card |-> card[b], passed |-> passed]]
  /\ UNCHANGED <<chain, ledger, card, published, cardCache, settlementCache,
                 delegation>>

\* requiredAmount: the card's own price stands in for settlement pricing that
\* was not passed.
Required(e) ==
  IF e = NoPrice THEN 0
  ELSE IF e.passed THEN e.card.settlement ELSE e.card.flat

\* A verification fails: only an agent that expects payment minds.
Unpaid(d, due) ==
  /\ delegation' = [delegation EXCEPT ![d] =
       [@ EXCEPT !.due = due,
                 !.phase = IF due = NoPrice THEN "admitted" ELSE "refused"]]
  /\ UNCHANGED ledger

\* verify() succeeds; only now is the amount compared with the price.
Paid(d, due) ==
  LET f == delegation[d] IN
  /\ ledger' = Settled(ledger, f.token, chain)
  /\ delegation' = [delegation EXCEPT ![d] =
       [f EXCEPT !.settled = TRUE, !.due = due,
                 !.phase = IF f.token.amount < Required(due)
                           THEN "refused" ELSE "admitted"]]

\* X402Server.check up to the answer, or to the question to the chain.  A
\* header that does not parse counts like none.
Check(d) ==
  LET f == delegation[d]
      due == expected[f.to] IN
  /\ f.phase = "sent"
  /\ IF f.token = NoToken THEN Unpaid(d, due)
     ELSE IF ~Passes(ledger, f.token) THEN Unpaid(d, due)
     ELSE IF chain
     THEN /\ delegation' = [delegation EXCEPT ![d] =
                              [@ EXCEPT !.phase = "verifying", !.due = due]]
          /\ UNCHANGED ledger
     ELSE Paid(d, due)
  /\ UNCHANGED <<chain, agentVars, cardCache, settlementCache>>

\* verifyChainProof returns: everything but an explicit confirmation is a
\* refusal.  Whether payment is expected was read before, the price is read
\* now.
ChainAnswers(d, confirmed) ==
  LET f == delegation[d] IN
  /\ f.phase = "verifying"
  /\ IF confirmed
     THEN Paid(d, IF f.due = NoPrice THEN NoPrice ELSE expected[f.to])
     ELSE Unpaid(d, f.due)
  /\ UNCHANGED <<chain, agentVars, cardCache, settlementCache>>

Next ==
  \/ \E d \in Delegations, a \in Workers, s \in Surcharges : DelegateTask(d, a, s)
  \/ \E d \in Delegations, q \in Quotes : CardFetched(d, q)
  \/ \E d \in Delegations : SendAfterRefill(d)
  \/ ClearCache
  \/ \E d \in Delegations : RequestLost(d)
  \/ \E d, e \in Delegations, a \in Agents : SentAgain(d, e, a)
  \/ \E a \in Workers, c \in Cards \cup {NoPrice} : PublishCard(a, c)
  \/ \E a \in Charging, b \in Workers, passed \in BOOLEAN : UpdateFromCard(a, b, passed)
  \/ \E d \in Delegations : Check(d)
  \/ \E d \in Delegations, confirmed \in BOOLEAN : ChainAnswers(d, confirmed)

Spec == Init /\ [][Next]_vars

-----------------------------------------------------------------------------

SettledBy(i) ==
  {d \in Delegations : delegation[d].settled /\ delegation[d].token.tx = i}

(***************************************************************************)
(* A token pays for one request, however often and in whatever order       *)
(* requests carry it, and a receipt stands for a request that was checked. *)
(* With a chain endpoint the first half is not promised: the receipt is    *)
(* looked for before the chain is asked and written after it answered.     *)
(***************************************************************************)
ReceiptPaysOnce ==
  \A i \in DOMAIN ledger.mints :
    /\ i \in ledger.receipts <=> SettledBy(i) # {}
    /\ ~chain => Cardinality(SettledBy(i)) <= 1

(***************************************************************************)
(* A balance is what was minted for the agent less what it paid, but for   *)
(* what its payments did not take because it was not there; with a chain   *)
(* endpoint nothing is taken (settlement-ledger.ts, verify).               *)
(***************************************************************************)
BalancesAccounted ==
  \A a \in Agents :
    ledger.balances[a] =
      IF chain THEN Credits(ledger, a)
      ELSE Credits(ledger, a) - Debits(ledger, a) + ledger.waived[a]

(***************************************************************************)
(* verify() uses the token up before X402Server looks at its amount.  A    *)
(* payment is lost that way only when the server goes by a higher          *)
(* settlement price than the client did, from another card, or was given   *)
(* its card without the settlement pricing and the card's own price is     *)
(* higher (x402-server.ts:103, x402-client.ts:155).                        *)
(***************************************************************************)
LostPaymentWasStale ==
  \A d \in Delegations :
    LET f == delegation[d] IN
    f.settled /\ f.phase = "refused" =>
      /\ f.due # NoPrice
      /\ IF f.due.passed THEN f.price < f.due.card.settlement
         ELSE f.price < f.due.card.flat
=============================================================================
