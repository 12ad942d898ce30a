--------------------------- MODULE RuntimeProofs ----------------------------
(***************************************************************************)
(* Proofs about the services of Runtime, for any numbers of agents,        *)
(* plugins, connections, tool calls and sessions: whatever service a       *)
(* behaviour exercises, what the others rest in stays in order.  In turn:  *)
(* payments, with and without a chain endpoint; the rooms of the realtime  *)
(* server; the balances of the ledger; consensus; the plugins; the         *)
(* specialists' tasks; questions to the user; the editor's sessions.       *)
(***************************************************************************)
EXTENDS Runtime, FiniteSetTheorems, SequenceTheorems,
        WellFoundedInduction, TLAPS

-----------------------------------------------------------------------------
(* What may be said of one delegation f beside its type.  A token a        *)
(* request carries was minted for at least the price the client went by,   *)
(* unless its signature no longer matches; only an answered request can    *)
(* have settled.                                                           *)

Unspent(f) ==
  f.phase \in {"idle", "fetching", "refilled"} => f.token = NoToken

Priced(f) ==
  /\ f.phase = "refilled" => f.price # NoPrice
  /\ f.token # NoToken =>
       f.price # NoPrice /\ (f.token.signed => f.price <= f.token.amount)

Asked(f) ==
  f.phase = "verifying" =>
    /\ chain /\ f.token # NoToken /\ f.token.signed
    /\ f.token.tx \in DOMAIN ledger.mints

Checked(f) ==
  f.settled =>
    /\ f.phase \in {"admitted", "refused"} /\ f.token # NoToken
    /\ f.token.tx \in ledger.receipts
    /\ f.phase = "refused" => f.price < Required(f.due)

InOrder(f) == Unspent(f) /\ Priced(f) /\ Asked(f) /\ Checked(f)

ReceiptsSettled == \A i \in ledger.receipts : SettledBy(i) # {}

SettledOnce ==
  ~chain => \A i \in Nat : \A d, e \in SettledBy(i) : d = e

\* What agents publish and servers go by.
CardsTyped ==
  /\ card \in [Workers -> Cards \cup {NoPrice}] /\ published \in Nat
  /\ expected \in [Agents -> Expectations]

PaymentsInv ==
  /\ TypeOK
  /\ \A d \in Delegations : InOrder(delegation[d])
  /\ ReceiptsSettled
  /\ SettledOnce

-----------------------------------------------------------------------------
(* Prices.                                                                 *)

LEMMA PricesNatural ==
  Prices \subseteq Nat /\ NoPrice \notin Prices /\ Unfetched \notin Prices
  BY X402Assumption DEF Prices

LEMMA RequiredNatural ==
  ASSUME NEW e \in Expectations
  PROVE  Required(e) \in Nat
  <1>1. CASE e = NoPrice
    BY <1>1 DEF Required
  <1>2. CASE e # NoPrice
    <2>1. e.card \in Cards
      BY <1>2 DEF Expectations
    <2>2. e.card.settlement \in Nat /\ e.card.flat \in Nat
      BY <2>1, X402Assumption
    <2> QED
      BY <1>2, <2>2 DEF Required
  <1> QED
    BY <1>1, <1>2

-----------------------------------------------------------------------------
(* The ledger.                                                             *)

LEMMA MintedType ==
  ASSUME NEW l \in Ledger, NEW from \in Agents \cup {FundingSource},
         NEW to \in Agents, NEW amount \in Nat
  PROVE  /\ Minted(l, from, to, amount) \in Ledger
         /\ Minted(l, from, to, amount).receipts = l.receipts
         /\ DOMAIN l.mints \subseteq DOMAIN Minted(l, from, to, amount).mints
  <1> DEFINE mints == Append(l.mints,
                             [from |-> from, to |-> to, amount |-> amount])
             balances == [l.balances EXCEPT ![to] = @ + amount]
  <1>1. Minted(l, from, to, amount) =
          [l EXCEPT !.mints = mints, !.balances = balances]
    BY DEF Minted
  <1>2. /\ mints \in Seq(Mint) /\ DOMAIN l.mints \subseteq DOMAIN mints
        /\ balances \in [Agents -> Nat]
    BY DEF Mint, Ledger
  <1> HIDE DEF mints, balances
  <1> QED
    BY <1>1, <1>2 DEF Ledger

LEMMA RefilledType ==
  ASSUME NEW l \in Ledger, NEW agent \in Agents
  PROVE  /\ RefilledIfLow(l, agent) \in Ledger
         /\ RefilledIfLow(l, agent).receipts = l.receipts
         /\ DOMAIN l.mints \subseteq DOMAIN RefilledIfLow(l, agent).mints
  BY MintedType, LedgerAssumption DEF RefilledIfLow

LEMMA NewTokenType ==
  ASSUME NEW l \in Ledger, NEW to \in Agents, NEW amount \in Nat
  PROVE  /\ NewToken(l, Delegator, to, amount) \in Token
         /\ NewToken(l, Delegator, to, amount).amount = amount
  BY X402Assumption DEF NewToken, Token, Ledger

LEMMA SettledType ==
  ASSUME NEW l \in Ledger, NEW t \in Token, NEW c \in BOOLEAN
  PROVE  /\ Settled(l, t, c) \in Ledger
         /\ Settled(l, t, c).receipts = l.receipts \cup {t.tx}
         /\ Settled(l, t, c).mints = l.mints
  <1> DEFINE receipts == l.receipts \cup {t.tx}
             balances == IF c THEN l.balances ELSE Debited(l.balances, t)
             short    == Short(l.balances, t)
             waived   == [l.waived EXCEPT ![t.from] = IF c THEN @ ELSE @ + short]
  <1>1. Settled(l, t, c) = [l EXCEPT !.receipts = receipts, !.balances = balances,
                                     !.waived = waived]
    BY DEF Settled
  <1>2. receipts \in SUBSET Nat /\ balances \in [Agents -> Nat] /\ short \in Nat
    BY DEF Debited, Short, Ledger, Token
  <1> HIDE DEF short
  <1>3. waived \in [Agents -> Nat]
    <2>1. l.waived \in [Agents -> Nat] /\ t.from \in Agents
      BY DEF Ledger, Token
    <2>2. l.waived[t.from] + short \in Nat
      BY <1>2, <2>1
    <2> QED
      BY <2>1, <2>2
  <1> HIDE DEF receipts, balances, waived
  <1>4. l.mints \in Seq(Mint)
    BY DEF Ledger
  <1>5. /\ Settled(l, t, c) \in Ledger /\ Settled(l, t, c).receipts = receipts
        /\ Settled(l, t, c).mints = l.mints
    BY <1>1, <1>2, <1>3, <1>4 DEF Ledger
  <1> QED
    BY <1>5 DEF receipts

-----------------------------------------------------------------------------
(* What happens to the invariant when one delegation moves.                *)

\* It settles nothing: receipts stay, mints grow at most.
LEMMA DelegationMoves ==
  ASSUME PaymentsInv, NEW d \in Delegations, NEW g \in Delegation,
         delegation' = [delegation EXCEPT ![d] = g],
         ~delegation[d].settled, ~g.settled,
         Unspent(g), Priced(g), Asked(g),
         chain' = chain, CardsTyped',
         cardCache' \in [Workers -> Quotes \cup {Unfetched}],
         settlementCache' \in [Workers -> Quotes \cup {Unfetched}],
         ledger' \in Ledger, ledger'.receipts = ledger.receipts,
         DOMAIN ledger.mints \subseteq DOMAIN ledger'.mints
  PROVE  PaymentsInv'
  <1>1. TypeOK'
    BY DEF PaymentsInv, TypeOK, CardsTyped, agentVars
  <1>2. \A e \in Delegations :
          delegation'[e] = IF e = d THEN g ELSE delegation[e]
    BY DEF PaymentsInv, TypeOK
  <1>3. ASSUME NEW e \in Delegations PROVE InOrder(delegation[e])'
    <2>1. Unspent(delegation'[e]) /\ Priced(delegation'[e])
      BY <1>2 DEF PaymentsInv, InOrder
    <2>2. Asked(delegation[e])'
      BY <1>2 DEF PaymentsInv, InOrder, Asked
    <2>3. Checked(delegation[e])'
      BY <1>2 DEF PaymentsInv, InOrder, Checked
    <2> QED
      BY <2>1, <2>2, <2>3 DEF InOrder, Unspent, Priced
  <1>4. \A i : SettledBy(i)' = SettledBy(i)
    BY <1>2 DEF SettledBy
  <1>5. ReceiptsSettled' /\ SettledOnce'
    BY <1>4 DEF PaymentsInv, ReceiptsSettled, SettledOnce
  <1> QED
    BY <1>1, <1>3, <1>5 DEF PaymentsInv

\* verify() succeeds, for a token that without a chain has no receipt.
LEMMA DelegationSettles ==
  ASSUME PaymentsInv, NEW d \in Delegations, NEW quote \in Expectations, Paid(d, quote),
         delegation[d].token # NoToken, delegation[d].token.signed,
         delegation[d].token.tx \in DOMAIN ledger.mints,
         ~chain => delegation[d].token.tx \notin ledger.receipts,
         UNCHANGED <<chain, agentVars, cardCache, settlementCache>>
  PROVE  PaymentsInv'
  <1> DEFINE f == delegation[d]
             g == [f EXCEPT !.settled = TRUE, !.due = quote,
                            !.phase = IF f.token.amount < Required(quote)
                                      THEN "refused" ELSE "admitted"]
  <1>1. f \in Delegation /\ f.token \in Token /\ ledger \in Ledger
        /\ chain \in BOOLEAN
    BY DEF PaymentsInv, TypeOK, Delegation
  <1>2. /\ g \in Delegation
        /\ g.settled /\ g.due = quote /\ g.token = f.token /\ g.price = f.price
        /\ g.phase = IF f.token.amount < Required(quote)
                     THEN "refused" ELSE "admitted"
    BY <1>1 DEF Delegation
  <1>3. delegation' = [delegation EXCEPT ![d] = g]
    BY DEF Paid
  <1>4. /\ ledger' \in Ledger
        /\ ledger'.receipts = ledger.receipts \cup {f.token.tx}
        /\ ledger'.mints = ledger.mints
    BY <1>1, SettledType DEF Paid
  <1>5. Priced(f) /\ f.price \in Nat /\ f.token.amount \in Nat
        /\ Required(quote) \in Nat /\ f.token.tx \in Nat
    <2>1. f.price # NoPrice
      BY DEF PaymentsInv, InOrder, Priced
    <2>2. Required(quote) \in Nat
      BY RequiredNatural
    <2> QED
      BY <1>1, <2>1, <2>2, PricesNatural
      DEF PaymentsInv, InOrder, Delegation, Quotes, Token
  <1>6. g.phase = "refused" => g.price < Required(g.due)
    BY <1>2, <1>5 DEF Priced
  <1> HIDE DEF f, g
  <1>7. \A e \in Delegations :
          delegation'[e] = IF e = d THEN g ELSE delegation[e]
    BY <1>3 DEF PaymentsInv, TypeOK, CardsTyped, agentVars
  <1>8. TypeOK'
    BY <1>2, <1>3, <1>4 DEF PaymentsInv, TypeOK, CardsTyped, agentVars, f
  <1>9. ASSUME NEW e \in Delegations PROVE InOrder(delegation[e])'
    <2>1. Unspent(delegation'[e]) /\ Priced(delegation'[e])
      BY <1>2, <1>5, <1>7 DEF PaymentsInv, InOrder, Unspent, Priced
    <2>2. Asked(delegation[e])'
      BY <1>2, <1>4, <1>7 DEF PaymentsInv, InOrder, Asked
    <2>3. Checked(delegation[e])'
      BY <1>2, <1>4, <1>6, <1>7 DEF PaymentsInv, InOrder, Checked, f
    <2> QED
      BY <2>1, <2>2, <2>3 DEF InOrder, Unspent, Priced
  <1>10. \A i : SettledBy(i)' = IF i = f.token.tx THEN SettledBy(i) \cup {d}
                                ELSE SettledBy(i) \ {d}
    BY <1>2, <1>7 DEF SettledBy
  <1>11. ~delegation[d].settled \/ f.token.tx \in ledger.receipts
    BY DEF PaymentsInv, InOrder, Checked, f
  <1>12. ReceiptsSettled'
    <2> SUFFICES ASSUME NEW i \in ledger'.receipts PROVE SettledBy(i)' # {}
      BY DEF ReceiptsSettled
    <2>1. CASE i = f.token.tx
      BY <2>1, <1>10
    <2>2. CASE i # f.token.tx
      <3>1. PICK e \in Delegations : e \in SettledBy(i)
        BY <2>2, <1>4 DEF PaymentsInv, ReceiptsSettled, SettledBy
      <3>2. e # d
        BY <3>1, <2>2 DEF SettledBy, f
      <3> QED
        BY <3>1, <3>2, <2>2, <1>10
    <2> QED
      BY <2>1, <2>2
  <1>13. SettledOnce'
    <2> SUFFICES ASSUME ~chain, NEW i \in Nat,
                        NEW a \in SettledBy(i)', NEW b \in SettledBy(i)'
                 PROVE  a = b
      BY DEF SettledOnce
    <2>1. CASE i = f.token.tx
      <3>1. SettledBy(i) = {}
        BY <2>1 DEF SettledBy, PaymentsInv, InOrder, Checked, f
      <3> QED
        BY <3>1, <2>1, <1>10
    <2>2. CASE i # f.token.tx
      BY <2>2, <1>10 DEF PaymentsInv, SettledOnce
    <2> QED
      BY <2>1, <2>2
  <1> QED
    BY <1>8, <1>9, <1>12, <1>13 DEF PaymentsInv

-----------------------------------------------------------------------------
(* The client.                                                             *)

LEMMA PaymentsInit ==
  ASSUME Init
  PROVE  PaymentsInv
  <1>1. (CHOOSE a \in Workers : TRUE) \in Workers
        /\ (CHOOSE s \in Surcharges : TRUE) \in Surcharges
    BY X402Assumption
  <1>2. EmptyLedger \in Ledger /\ EmptyLedger.receipts = {}
    BY DEF EmptyLedger, Ledger
  <1>3. TypeOK
    BY <1>1, <1>2, X402Assumption DEF Init, TypeOK, Delegation, Quotes, Expectations
  <1>4. \A d \in Delegations : InOrder(delegation[d])
    BY DEF Init, InOrder, Unspent, Priced, Asked, Checked
  <1>5. ReceiptsSettled /\ SettledOnce
    BY <1>2 DEF Init, ReceiptsSettled, SettledOnce, SettledBy
  <1> QED
    BY <1>3, <1>4, <1>5 DEF PaymentsInv

\* f: the delegation as the client goes on with it.
LEMMA SendPaidInv ==
  ASSUME PaymentsInv, NEW d \in Delegations, NEW f \in Delegation,
         SendPaid(d, f), ~delegation[d].settled, ~f.settled,
         f.price # NoPrice,
         chain' = chain, CardsTyped',
         cardCache' \in [Workers -> Quotes \cup {Unfetched}],
         settlementCache' \in [Workers -> Quotes \cup {Unfetched}]
  PROVE  PaymentsInv'
  <1> DEFINE amount == f.price + f.surcharge
             token  == NewToken(ledger, Delegator, f.to, amount)
             g      == [f EXCEPT !.phase = "sent", !.token = token]
  <1>1. f.price \in Nat /\ f.surcharge \in Nat /\ f.to \in Agents
        /\ ledger \in Ledger
    BY PricesNatural, X402Assumption DEF Delegation, Quotes, PaymentsInv, TypeOK
  <1>2. amount \in Nat /\ f.price <= amount
    BY <1>1
  <1>3. token \in Token /\ token.amount = amount
    BY <1>1, <1>2, NewTokenType
  <1>4. /\ ledger' \in Ledger /\ ledger'.receipts = ledger.receipts
        /\ DOMAIN ledger.mints \subseteq DOMAIN ledger'.mints
    <2>1. ledger' = Minted(ledger, Delegator, f.to, amount)
      BY DEF SendPaid
    <2>2. f.to \in Agents /\ Delegator \in Agents \cup {FundingSource}
          /\ amount \in Nat /\ ledger \in Ledger
      BY <1>1, <1>2, X402Assumption
    <2> HIDE DEF amount
    <2> QED
      BY <2>1, <2>2, MintedType
  <1>5. delegation' = [delegation EXCEPT ![d] = g]
    BY DEF SendPaid
  <1> HIDE DEF amount, token
  <1>6. /\ g \in Delegation /\ ~g.settled
        /\ g.phase = "sent" /\ g.token = token /\ g.price = f.price
    BY <1>3 DEF Delegation
  <1>7. Unspent(g) /\ Priced(g) /\ Asked(g)
    BY <1>2, <1>3, <1>6 DEF Unspent, Priced, Asked
  <1> HIDE DEF g
  <1> QED
    BY <1>4, <1>5, <1>6, <1>7, DelegationMoves

LEMMA PayInv ==
  ASSUME PaymentsInv, NEW d \in Delegations, NEW f \in Delegation,
         Pay(d, f), ~delegation[d].settled, ~f.settled,
         f.price # NoPrice, f.token = NoToken,
         chain' = chain, CardsTyped',
         cardCache' \in [Workers -> Quotes \cup {Unfetched}],
         settlementCache' \in [Workers -> Quotes \cup {Unfetched}]
  PROVE  PaymentsInv'
  <1>1. CASE SendPaid(d, f)
    BY <1>1, SendPaidInv
  <1>2. CASE /\ ledger' = RefilledIfLow(ledger, Delegator)
             /\ delegation' = [delegation EXCEPT ![d] =
                                 [f EXCEPT !.phase = "refilled"]]
    <2> DEFINE g == [f EXCEPT !.phase = "refilled"]
    <2>1. g \in Delegation /\ ~g.settled /\ g.phase = "refilled"
          /\ g.token = NoToken /\ g.price # NoPrice
      BY DEF Delegation
    <2>2. Unspent(g) /\ Priced(g) /\ Asked(g)
      BY <2>1 DEF Unspent, Priced, Asked
    <2>3. /\ ledger' \in Ledger /\ ledger'.receipts = ledger.receipts
          /\ DOMAIN ledger.mints \subseteq DOMAIN ledger'.mints
      BY <1>2, RefilledType, X402Assumption
      DEF PaymentsInv, TypeOK, CardsTyped, agentVars
    <2>4. delegation' = [delegation EXCEPT ![d] = g]
      BY <1>2
    <2> HIDE DEF g
    <2> QED
      BY <2>1, <2>2, <2>3, <2>4, DelegationMoves
  <1> QED
    BY <1>1, <1>2 DEF Pay

LEMMA GoOnInv ==
  ASSUME PaymentsInv, NEW d \in Delegations, NEW f \in Delegation,
         GoOn(d, f), ~delegation[d].settled, ~f.settled, f.token = NoToken,
         UNCHANGED <<chain, agentVars>>,
         cardCache' \in [Workers -> Quotes \cup {Unfetched}]
  PROVE  PaymentsInv'
  <1>1. /\ chain' = chain /\ CardsTyped'
        /\ settlementCache' \in [Workers -> Quotes \cup {Unfetched}]
        /\ ledger \in Ledger
    BY DEF GoOn, PaymentsInv, TypeOK, Delegation, CardsTyped, agentVars
  <1>2. CASE f.price = NoPrice
    <2> DEFINE g == [f EXCEPT !.phase = "sent"]
    <2>1. g \in Delegation /\ ~g.settled /\ g.phase = "sent" /\ g.token = NoToken
      BY DEF Delegation
    <2>2. Unspent(g) /\ Priced(g) /\ Asked(g)
      BY <2>1 DEF Unspent, Priced, Asked
    <2>3. delegation' = [delegation EXCEPT ![d] = g] /\ ledger' = ledger
      BY <1>2 DEF GoOn
    <2> HIDE DEF g
    <2> QED
      BY <1>1, <2>1, <2>2, <2>3, DelegationMoves
  <1>3. CASE f.price # NoPrice
    BY <1>1, <1>3, PayInv DEF GoOn
  <1> QED
    BY <1>2, <1>3

LEMMA DelegateTaskInv ==
  ASSUME PaymentsInv, NEW d \in Delegations, NEW a \in Workers,
         NEW s \in Surcharges, DelegateTask(d, a, s)
  PROVE  PaymentsInv'
  <1> DEFINE f == [delegation[d] EXCEPT !.to = a, !.surcharge = s,
                                        !.price = Known(a)]
  <1>1. /\ delegation[d] \in Delegation /\ ~delegation[d].settled
        /\ delegation[d].token = NoToken /\ delegation[d].phase = "idle"
    BY DEF DelegateTask, PaymentsInv, TypeOK, InOrder, Unspent, Checked
  <1>2. CASE Known(a) = Unfetched
    <2> DEFINE g == [f EXCEPT !.phase = "fetching", !.price = NoPrice]
    <2>1. g \in Delegation /\ ~g.settled /\ g.phase = "fetching"
          /\ g.token = NoToken
      BY <1>1, X402Assumption DEF Delegation, Quotes
    <2>2. Unspent(g) /\ Priced(g) /\ Asked(g)
      BY <2>1 DEF Unspent, Priced, Asked
    <2>3. delegation' = [delegation EXCEPT ![d] = g] /\ ledger' = ledger
      BY <1>2 DEF DelegateTask
    <2> HIDE DEF g
    <2> QED
      BY <1>1, <1>2, <2>1, <2>2, <2>3, DelegationMoves
      DEF DelegateTask, PaymentsInv, TypeOK, CardsTyped, agentVars
  <1>3. CASE Known(a) # Unfetched
    <2>1. Known(a) \in Quotes
      BY <1>3 DEF Known, Quotes, PaymentsInv, TypeOK
    <2>2. f \in Delegation /\ ~f.settled /\ f.token = NoToken
      BY <1>1, <2>1, X402Assumption DEF Delegation
    <2>3. GoOn(d, f) /\ UNCHANGED <<chain, agentVars, cardCache>>
      BY <1>3 DEF DelegateTask
    <2> HIDE DEF f
    <2> QED
      BY <1>1, <2>2, <2>3, GoOnInv
      DEF PaymentsInv, TypeOK, CardsTyped, agentVars
  <1> QED
    BY <1>2, <1>3

LEMMA CardFetchedInv ==
  ASSUME PaymentsInv, NEW d \in Delegations, NEW q \in Quotes,
         CardFetched(d, q)
  PROVE  PaymentsInv'
  <1> DEFINE f == [delegation[d] EXCEPT !.price = q]
  <1>1. /\ delegation[d] \in Delegation /\ ~delegation[d].settled
        /\ delegation[d].token = NoToken
    BY DEF CardFetched, PaymentsInv, TypeOK, InOrder, Unspent, Checked
  <1>2. f \in Delegation /\ ~f.settled /\ f.token = NoToken
    BY <1>1 DEF Delegation
  <1>3. /\ GoOn(d, f) /\ UNCHANGED <<chain, agentVars>>
        /\ cardCache' \in [Workers -> Quotes \cup {Unfetched}]
    BY DEF CardFetched, PaymentsInv, TypeOK, CardsTyped, agentVars
  <1> HIDE DEF f
  <1> QED
    BY <1>1, <1>2, <1>3, GoOnInv

LEMMA SendAfterRefillInv ==
  ASSUME PaymentsInv, NEW d \in Delegations, SendAfterRefill(d)
  PROVE  PaymentsInv'
  <1>1. /\ delegation[d] \in Delegation /\ ~delegation[d].settled
        /\ delegation[d].price # NoPrice
    BY DEF SendAfterRefill, PaymentsInv, TypeOK, InOrder, Priced, Checked
  <1> QED
    BY <1>1, SendPaidInv
    DEF SendAfterRefill, PaymentsInv, TypeOK, CardsTyped, agentVars

LEMMA RequestLostInv ==
  ASSUME PaymentsInv, NEW d \in Delegations, RequestLost(d)
  PROVE  PaymentsInv'
  <1> DEFINE g == [delegation[d] EXCEPT !.phase = "lost"]
  <1>1. delegation[d] \in Delegation /\ InOrder(delegation[d])
        /\ ~delegation[d].settled
    BY DEF RequestLost, PaymentsInv, TypeOK, InOrder, Checked
  <1>2. /\ g \in Delegation /\ ~g.settled /\ g.phase = "lost"
        /\ g.token = delegation[d].token /\ g.price = delegation[d].price
    BY <1>1 DEF Delegation
  <1>3. Unspent(g) /\ Priced(g) /\ Asked(g)
    BY <1>1, <1>2 DEF InOrder, Unspent, Priced, Asked
  <1>4. delegation' = [delegation EXCEPT ![d] = g]
    BY DEF RequestLost, PaymentsInv, TypeOK
  <1> HIDE DEF g
  <1> QED
    BY <1>1, <1>2, <1>3, <1>4, DelegationMoves
    DEF RequestLost, PaymentsInv, TypeOK, CardsTyped, agentVars

LEMMA SentAgainInv ==
  ASSUME PaymentsInv, NEW d \in Delegations, NEW e \in Delegations,
         NEW a \in Agents, SentAgain(d, e, a)
  PROVE  PaymentsInv'
  <1> DEFINE t == delegation[e].token
  <1>1. /\ delegation[e] \in Delegation /\ InOrder(delegation[e])
        /\ t \in Token /\ ~delegation[d].settled /\ t # NoToken
    <2>1. /\ delegation[e] \in Delegation /\ InOrder(delegation[e])
          /\ Checked(delegation[d]) /\ delegation[d].phase = "idle"
          /\ t # NoToken
      BY DEF SentAgain, PaymentsInv, TypeOK, InOrder
    <2> QED
      BY <2>1 DEF Checked, Delegation
  <1>2. PICK u \in {t, [t EXCEPT !.amount = @ + 1, !.signed = FALSE],
                    [t EXCEPT !.tx = 0]} :
          delegation' = [delegation EXCEPT ![d] =
                           [delegation[e] EXCEPT !.phase = "sent", !.to = a, !.token = u,
                                                 !.settled = FALSE]]
    BY DEF SentAgain
  <1>3. u \in Token /\ (u.signed => t.signed /\ u.amount = t.amount)
    <2> HIDE DEF t
    <2>1. CASE u = t
      BY <1>1, <2>1
    <2>2. CASE u = [t EXCEPT !.amount = @ + 1, !.signed = FALSE]
      <3> DEFINE more == t.amount + 1
      <3>1. more \in Nat /\ u = [t EXCEPT !.amount = more, !.signed = FALSE]
        BY <1>1, <2>2 DEF Token
      <3> HIDE DEF more
      <3>2. u \in Token
        BY <1>1, <3>1 DEF Token
      <3>3. u.signed = FALSE
        BY <1>1, <3>1 DEF Token
      <3> QED
        BY <3>2, <3>3
    <2>3. CASE u = [t EXCEPT !.tx = 0]
      BY <1>1, <2>3 DEF Token
    <2> QED
      BY <2>1, <2>2, <2>3
  <1> DEFINE g == [delegation[e] EXCEPT !.phase = "sent", !.to = a, !.token = u,
                                        !.settled = FALSE]
  <1>4. /\ g \in Delegation /\ ~g.settled /\ g.phase = "sent"
        /\ g.token = u /\ g.price = delegation[e].price
    BY <1>1, <1>3 DEF Delegation
  <1>5. Unspent(g) /\ Priced(g) /\ Asked(g)
    BY <1>1, <1>3, <1>4 DEF InOrder, Unspent, Priced, Asked
  <1>6. delegation' = [delegation EXCEPT ![d] = g]
    BY <1>2
  <1> HIDE DEF g
  <1> QED
    BY <1>1, <1>4, <1>5, <1>6, DelegationMoves
    DEF SentAgain, PaymentsInv, TypeOK, CardsTyped, agentVars

-----------------------------------------------------------------------------
(* The server.                                                             *)

LEMMA UnpaidInv ==
  ASSUME PaymentsInv, NEW d \in Delegations, NEW quote \in Expectations,
         Unpaid(d, quote), delegation[d].phase \in {"sent", "verifying"},
         UNCHANGED <<chain, agentVars, cardCache, settlementCache>>
  PROVE  PaymentsInv'
  <1> DEFINE g == [delegation[d] EXCEPT !.due = quote,
                     !.phase = IF quote = NoPrice THEN "admitted" ELSE "refused"]
  <1>1. delegation[d] \in Delegation /\ InOrder(delegation[d])
        /\ ~delegation[d].settled
    BY DEF PaymentsInv, TypeOK, InOrder, Checked
  <1>2. /\ g \in Delegation /\ ~g.settled /\ g.phase \in {"admitted", "refused"}
        /\ g.token = delegation[d].token /\ g.price = delegation[d].price
    BY <1>1 DEF Delegation
  <1>3. Unspent(g) /\ Priced(g) /\ Asked(g)
    BY <1>1, <1>2 DEF InOrder, Unspent, Priced, Asked
  <1>4. delegation' = [delegation EXCEPT ![d] = g] /\ ledger' = ledger
    BY DEF Unpaid, PaymentsInv, TypeOK
  <1> HIDE DEF g
  <1> QED
    BY <1>1, <1>2, <1>3, <1>4, DelegationMoves
    DEF PaymentsInv, TypeOK, CardsTyped, agentVars

LEMMA CheckInv ==
  ASSUME PaymentsInv, NEW d \in Delegations, Check(d)
  PROVE  PaymentsInv'
  <1> DEFINE f   == delegation[d]
             quote == expected[f.to]
  <1>1. /\ f \in Delegation /\ InOrder(f) /\ f.phase = "sent" /\ ~f.settled
        /\ quote \in Expectations
        /\ UNCHANGED <<chain, agentVars, cardCache, settlementCache>>
    BY DEF Check, PaymentsInv, TypeOK, InOrder, Checked, Delegation
  <1>2. CASE Unpaid(d, quote)
    BY <1>1, <1>2, UnpaidInv
  <1>3. CASE f.token # NoToken /\ Passes(ledger, f.token) /\ ~chain /\ Paid(d, quote)
    BY <1>1, <1>3, DelegationSettles DEF Passes
  <1>4. CASE /\ f.token # NoToken /\ Passes(ledger, f.token) /\ chain
             /\ delegation' = [delegation EXCEPT ![d] =
                                 [@ EXCEPT !.phase = "verifying", !.due = quote]]
             /\ UNCHANGED ledger
    <2> DEFINE g == [f EXCEPT !.phase = "verifying", !.due = quote]
    <2>1. /\ g \in Delegation /\ ~g.settled /\ g.phase = "verifying"
          /\ g.token = f.token /\ g.price = f.price
      BY <1>1 DEF Delegation
    <2>2. Unspent(g) /\ Priced(g) /\ Asked(g)
      BY <1>1, <1>4, <2>1 DEF InOrder, Unspent, Priced, Asked, Passes
    <2>3. delegation' = [delegation EXCEPT ![d] = g] /\ ledger' = ledger
      BY <1>4 DEF PaymentsInv, TypeOK
    <2> HIDE DEF g
    <2> QED
      BY <1>1, <2>1, <2>2, <2>3, DelegationMoves
      DEF PaymentsInv, TypeOK, CardsTyped, agentVars
  <1> QED
    BY <1>2, <1>3, <1>4 DEF Check

LEMMA ChainAnswersInv ==
  ASSUME PaymentsInv, NEW d \in Delegations, NEW confirmed \in BOOLEAN,
         ChainAnswers(d, confirmed)
  PROVE  PaymentsInv'
  <1> DEFINE f   == delegation[d]
             quote == IF f.due = NoPrice THEN NoPrice ELSE expected[f.to]
  <1>1. /\ f \in Delegation /\ Asked(f) /\ f.phase = "verifying"
        /\ f.due \in Expectations /\ quote \in Expectations
        /\ UNCHANGED <<chain, agentVars, cardCache, settlementCache>>
    BY DEF ChainAnswers, PaymentsInv, TypeOK, InOrder, Delegation, Quotes
  <1>2. CASE confirmed /\ Paid(d, quote)
    BY <1>1, <1>2, DelegationSettles DEF Asked
  <1>3. CASE Unpaid(d, f.due)
    BY <1>1, <1>3, UnpaidInv
  <1> QED
    BY <1>2, <1>3 DEF ChainAnswers

\* Cards and caches: nothing the invariant relates.
LEMMA CardsInv ==
  ASSUME PaymentsInv, UNCHANGED <<chain, ledger, delegation>>,
         CardsTyped',
         cardCache' \in [Workers -> Quotes \cup {Unfetched}],
         settlementCache' \in [Workers -> Quotes \cup {Unfetched}]
  PROVE  PaymentsInv'
  <1>1. TypeOK'
    BY DEF PaymentsInv, TypeOK, CardsTyped, agentVars
  <1>2. \A d \in Delegations : InOrder(delegation[d])'
    BY DEF PaymentsInv, InOrder, Unspent, Priced, Asked, Checked
  <1>3. ReceiptsSettled' /\ SettledOnce'
    BY DEF PaymentsInv, ReceiptsSettled, SettledOnce, SettledBy
  <1> QED
    BY <1>1, <1>2, <1>3 DEF PaymentsInv

\* A server is given a card.
LEMMA ExpectationsTyped ==
  ASSUME PaymentsInv, NEW a \in Charging, NEW b \in Workers, NEW passed \in BOOLEAN,
         UpdateFromCard(a, b, passed)
  PROVE  CardsTyped'
  <1>1. /\ card \in [Workers -> Cards \cup {NoPrice}] /\ published \in Nat
        /\ expected \in [Agents -> Expectations]
    BY DEF PaymentsInv, TypeOK
  <1>2. (IF card[b] = NoPrice THEN NoPrice ELSE [card |-> card[b], passed |-> passed])
          \in Expectations
    BY <1>1 DEF Expectations
  <1> QED
    BY <1>1, <1>2 DEF UpdateFromCard, CardsTyped

LEMMA PaymentsStep ==
  ASSUME PaymentsInv, [Next]_vars
  PROVE  PaymentsInv'
  <1>1. CASE ClearCache
    BY <1>1, CardsInv DEF ClearCache, PaymentsInv, TypeOK, CardsTyped, agentVars
  <1>2. ASSUME NEW a \in Workers, NEW c \in Cards \cup {NoPrice}, PublishCard(a, c)
        PROVE  PaymentsInv'
    BY <1>2, CardsInv DEF PublishCard, PaymentsInv, TypeOK, CardsTyped
  <1>3. ASSUME NEW a \in Charging, NEW b \in Workers, NEW passed \in BOOLEAN,
               UpdateFromCard(a, b, passed)
        PROVE  PaymentsInv'
    BY <1>3, ExpectationsTyped, CardsInv DEF UpdateFromCard, PaymentsInv, TypeOK
  <1>4. CASE UNCHANGED vars
    BY <1>4, CardsInv DEF vars, PaymentsInv, TypeOK, CardsTyped
  <1> QED
    BY <1>1, <1>2, <1>3, <1>4, DelegateTaskInv, CardFetchedInv, SendAfterRefillInv,
       RequestLostInv, SentAgainInv, CheckInv, ChainAnswersInv DEF Next

-----------------------------------------------------------------------------
(* What the invariant says of the properties.                              *)

LEMMA PaidOnce ==
  ASSUME PaymentsInv
  PROVE  ReceiptPaysOnce
  <1> SUFFICES ASSUME NEW i \in DOMAIN ledger.mints
               PROVE  /\ i \in ledger.receipts <=> SettledBy(i) # {}
                      /\ ~chain => Cardinality(SettledBy(i)) <= 1
    BY DEF ReceiptPaysOnce
  <1>1. i \in Nat
    BY DEF PaymentsInv, TypeOK, Ledger
  <1>2. i \in ledger.receipts <=> SettledBy(i) # {}
    BY DEF PaymentsInv, ReceiptsSettled, SettledBy, InOrder, Checked
  <1>3. ASSUME ~chain PROVE Cardinality(SettledBy(i)) <= 1
    <2>1. CASE SettledBy(i) = {}
      BY <2>1, FS_EmptySet
    <2>2. \A d : Cardinality({d}) = 1
      BY FS_Singleton
    <2>3. \A d, e \in SettledBy(i) : d = e
      BY <1>1, <1>3 DEF PaymentsInv, SettledOnce
    <2>4. CASE SettledBy(i) # {}
      <3>1. PICK d : d \in SettledBy(i)
        BY <2>4
      <3>2. SettledBy(i) = {d}
        BY <2>3, <3>1
      <3> QED
        BY <2>2, <3>2
    <2> QED
      BY <2>1, <2>4
  <1> QED
    BY <1>2, <1>3

LEMMA LostWasStale ==
  ASSUME PaymentsInv
  PROVE  LostPaymentWasStale
  <1> SUFFICES ASSUME NEW d \in Delegations, delegation[d].settled,
                      delegation[d].phase = "refused"
               PROVE  LET f == delegation[d] IN
                      /\ f.due # NoPrice
                      /\ IF f.due.passed THEN f.price < f.due.card.settlement
                         ELSE f.price < f.due.card.flat
    BY DEF LostPaymentWasStale
  <1> DEFINE f == delegation[d]
  <1>1. f.price < Required(f.due) /\ f.price # NoPrice /\ f.price \in Quotes
    BY DEF PaymentsInv, TypeOK, Delegation, InOrder, Checked, Priced
  <1>2. f.price \in Nat
    BY <1>1, PricesNatural DEF Quotes
  <1> HIDE DEF f
  <1>3. f.due # NoPrice
    BY <1>1, <1>2 DEF Required
  <1>4. IF f.due.passed THEN f.price < f.due.card.settlement
        ELSE f.price < f.due.card.flat
    BY <1>1, <1>3 DEF Required
  <1> QED
    BY <1>3, <1>4 DEF f

(***************************************************************************)
(* Payments by themselves: whatever is minted, sent, lost, sent again or   *)
(* damaged, a receipt stands for a checked request, and for one only       *)
(* unless a chain is asked.                                                *)
(***************************************************************************)
THEOREM PaymentsHold == Spec => []ReceiptPaysOnce
  BY PaidOnce, PaymentsInit, PaymentsStep, PTL DEF Spec

-----------------------------------------------------------------------------
(* Rooms.  RoomMembersConnected is not inductive: a connection that joins  *)
(* must be one the server counts or lost count of, so every open socket    *)
(* has to be.                                                              *)

OpenIsKnown ==
  \A c \in Connections : socket[c] = "open" => c \in known \cup astray

RoomsInv == RealtimeTypeOK /\ OpenIsKnown /\ RoomMembersConnected

LEMMA RoomsInit ==
  ASSUME RealtimeInit
  PROVE  RoomsInv
  BY DEF RealtimeInit, RoomsInv, RealtimeTypeOK, OpenIsKnown,
         RoomMembersConnected, SocketStates

\* The connections that are forgotten leave every room; what was open and
\* forgotten is astray.
LEMMA ForgetInv ==
  ASSUME RoomsInv, NEW dead \in SUBSET known, Forget(dead),
         astray' = astray \cup {c \in dead : socket[c] = "open"},
         UNCHANGED <<listening, socket>>
  PROVE  RoomsInv'
  <1>1. RealtimeTypeOK'
    BY DEF Forget, RoomsInv, RealtimeTypeOK
  <1>2. OpenIsKnown'
    BY DEF Forget, RoomsInv, RealtimeTypeOK, OpenIsKnown
  <1>3. RoomMembersConnected'
    BY DEF Forget, RoomsInv, RealtimeTypeOK, RoomMembersConnected
  <1> QED
    BY <1>1, <1>2, <1>3 DEF RoomsInv

LEMMA RoomsStep ==
  ASSUME RoomsInv, RealtimeNext
  PROVE  RoomsInv'
  <1> USE DEF RoomsInv, RealtimeTypeOK, OpenIsKnown, RoomMembersConnected
  <1>1. CASE StartListening
    BY <1>1 DEF StartListening
  <1>2. CASE StopListening
    BY <1>2 DEF StopListening
  <1>3. CASE Broadcast \/ PingAll
    <2> HIDE DEF RoomsInv
    <2>1. PICK failing \in SUBSET {c \in known : socket[c] = "open"},
               dead \in SUBSET known :
            /\ Forget(dead)
            /\ astray' = astray \cup failing
            /\ failing = {c \in dead : socket[c] = "open"}
            /\ UNCHANGED <<listening, socket>>
      BY <1>3 DEF Broadcast, PingAll
    <2> QED
      BY <2>1, ForgetInv
  <1>4. ASSUME NEW c \in Connections, OnOpen(c) PROVE RoomsInv'
    BY <1>4 DEF OnOpen, SocketStates
  <1>5. ASSUME NEW c \in Connections, Breaks(c) PROVE RoomsInv'
    BY <1>5 DEF Breaks, SocketStates
  <1>6. ASSUME NEW c \in Connections, OnClose(c) PROVE RoomsInv'
    BY <1>6 DEF OnClose, Forget, SocketStates
  <1>7. ASSUME NEW c \in Connections, NEW r \in Rooms, JoinRoom(c, r)
        PROVE  RoomsInv'
    BY <1>7 DEF JoinRoom, Joins
  <1>8. ASSUME NEW c \in Connections, NEW r \in Rooms, LeaveRoom(c, r)
        PROVE  RoomsInv'
    BY <1>8 DEF LeaveRoom
  <1> HIDE DEF RoomsInv
  <1> QED
    BY <1>1, <1>2, <1>3, <1>4, <1>5, <1>6, <1>7, <1>8 DEF RealtimeNext

(***************************************************************************)
(* No order of opening, breaking, closing, joining, leaving, failing sends *)
(* and restarts of the server leaves a closed connection in a room.        *)
(***************************************************************************)
THEOREM RoomsHoldConnections == RuntimeSpec => []RoomMembersConnected
  <1>1. RuntimeInit => RoomsInv
    BY RoomsInit DEF RuntimeInit
  <1>2. RoomsInv /\ [RuntimeNext]_<<exercised, pluginVars, realtimeVars,
                        paymentVars, ballot, specialistVars, elicitationVars,
                        bridgeVars>> => RoomsInv'
    <2> SUFFICES ASSUME RoomsInv, RealtimeNext \/ UNCHANGED realtimeVars
                 PROVE  RoomsInv'
      BY DEF RuntimeNext
    <2>1. CASE UNCHANGED realtimeVars
      BY <2>1 DEF realtimeVars, RoomsInv, RealtimeTypeOK, OpenIsKnown,
                  RoomMembersConnected
    <2> QED
      BY <2>1, RoomsStep
  <1>3. RoomsInv => RoomMembersConnected
    BY DEF RoomsInv
  <1> QED
    BY <1>1, <1>2, <1>3, PTL DEF RuntimeSpec

-----------------------------------------------------------------------------
(* Payments, whichever service is exercised.                               *)

LEMMA PaymentsRuntime ==
  ASSUME PaymentsInv,
         [RuntimeNext]_<<exercised, pluginVars, realtimeVars, paymentVars,
                         ballot, specialistVars, elicitationVars, bridgeVars>>
  PROVE  PaymentsInv'
  <1>1. ASSUME RuntimeNext \/ UNCHANGED paymentVars PROVE [Next]_vars
    BY <1>1 DEF RuntimeNext, paymentVars
  <1> QED
    BY <1>1, PaymentsStep

(***************************************************************************)
(* Whatever is minted, sent, lost, sent again or damaged, a receipt stands *)
(* for a checked request, and for one only unless a chain is asked.        *)
(***************************************************************************)
THEOREM PaymentsKept == RuntimeSpec => []ReceiptPaysOnce
  <1>1. RuntimeInit => PaymentsInv
    BY PaymentsInit DEF RuntimeInit
  <1> QED
    BY <1>1, PaymentsRuntime, PaidOnce, PTL DEF RuntimeSpec

(***************************************************************************)
(* A payment that was settled and bought nothing was made for less than    *)
(* the settlement price the server went by, from the card it was last      *)
(* given, or was met by a server that had not been passed that price, for  *)
(* less than the card's own.                                               *)
(***************************************************************************)
THEOREM OnlyStalePaymentsAreLost == RuntimeSpec => []LostPaymentWasStale
  <1>1. RuntimeInit => PaymentsInv
    BY PaymentsInit DEF RuntimeInit
  <1> QED
    BY <1>1, PaymentsRuntime, LostWasStale, PTL DEF RuntimeSpec

-----------------------------------------------------------------------------
(* A least natural number and what follows from it: induction for a set of *)
(* numbers.                                                                *)

LEMMA LeastNatural ==
  ASSUME NEW T \in SUBSET Nat, T # {}
  PROVE  \E n \in T : \A m \in T : n <= m
  <1>1. PICK R : /\ IsWellFoundedOn(R, Nat)
                 /\ \A x, y \in Nat : x < y => <<x, y>> \in R
    <2> DEFINE R == OpToRel(<, Nat)
    <2>1. IsWellFoundedOn(R, Nat)
      BY NatLessThanWellFounded
    <2>2. \A x, y \in Nat : x < y => <<x, y>> \in R
      BY DEF OpToRel
    <2> HIDE DEF R
    <2> QED
      BY <2>1, <2>2
  <1>2. PICK n \in T : \A m \in T : ~ (<<m, n>> \in R)
    <2>1. IsWellFoundedOn(R, Nat) /\ T \subseteq Nat /\ T # {}
      BY <1>1
    <2>2. \E n \in T : \A m \in T : ~ (<<m, n>> \in R)
      BY <2>1, WFMin, Zenon
    <2> QED
      BY <2>2
  <1>3. \A m \in T : ~(m < n)
    BY <1>1, <1>2
  <1> QED
    BY <1>3

LEMMA EveryNatural ==
  ASSUME NEW T \in SUBSET Nat, 0 \in T, \A n \in T : n + 1 \in T
  PROVE  T = Nat
  <1> SUFFICES ASSUME Nat \ T # {} PROVE FALSE
    OBVIOUS
  <1>1. PICK m \in Nat \ T : \A n \in Nat \ T : m <= n
    BY LeastNatural
  <1>2. m # 0 /\ m - 1 \in Nat /\ ~(m <= m - 1)
    BY <1>1
  <1>3. m - 1 \in T
    BY <1>1, <1>2
  <1>4. (m - 1) + 1 \in T
    BY <1>3
  <1> QED
    BY <1>1, <1>4

-----------------------------------------------------------------------------
(* Sums, and what a mint record or a receipt changes in them.              *)

\* g is the sum function of v, up to n.
Sums(v, n, g) ==
  /\ g \in [0..n -> Int] /\ g[0] = 0
  /\ \A k \in 1..n : g[k] = g[k - 1] + v[k]

LEMMA SumsExist ==
  ASSUME NEW v \in [Nat -> Int], NEW n \in Nat
  PROVE  \E g : Sums(v, n, g)
  <1> DEFINE T == {m \in Nat : \E g : Sums(v, m, g)}
  <1>1. 0 \in T
    <2>1. Sums(v, 0, [k \in 0..0 |-> 0])
      BY DEF Sums
    <2> QED
      BY <2>1
  <1>2. ASSUME NEW m \in T PROVE m + 1 \in T
    <2>1. PICK g : Sums(v, m, g)
      OBVIOUS
    <2> DEFINE h == [k \in 0..(m + 1) |-> IF k = m + 1 THEN g[m] + v[m + 1]
                                                       ELSE g[k]]
    <2>2. m \in Nat /\ g[m] \in Int /\ v[m + 1] \in Int
      BY <2>1 DEF Sums
    <2>3. h \in [0..(m + 1) -> Int] /\ h[0] = 0
      BY <2>1, <2>2 DEF Sums
    <2>4. ASSUME NEW k \in 1..(m + 1) PROVE h[k] = h[k - 1] + v[k]
      <3>1. k \in 0..(m + 1) /\ k - 1 \in 0..(m + 1) /\ k - 1 # m + 1
        BY <2>2
      <3>2. h[k - 1] = g[k - 1]
        BY <3>1
      <3>3. CASE k = m + 1
        BY <2>2, <3>1, <3>2, <3>3
      <3>4. CASE k # m + 1
        <4>1. k \in 1..m
          BY <2>2, <3>4
        <4> QED
          BY <2>1, <3>1, <3>2, <3>4, <4>1 DEF Sums
      <3> QED
        BY <3>3, <3>4
    <2> HIDE DEF h
    <2>5. Sums(v, m + 1, h)
      BY <2>3, <2>4 DEF Sums
    <2> QED
      BY <2>2, <2>5
  <1> HIDE DEF T
  <1>3. T \in SUBSET Nat
    BY DEF T
  <1>4. T = Nat
    BY <1>1, <1>2, <1>3, EveryNatural
  <1> QED
    BY <1>4 DEF T

LEMMA SumsAgree ==
  ASSUME NEW v \in [Nat -> Int], NEW n \in Nat, NEW m \in Nat,
         NEW g, NEW h, Sums(v, n, g), Sums(v, m, h),
         NEW k \in Nat, k <= n, k <= m
  PROVE  g[k] = h[k]
  <1> DEFINE T == {j \in Nat : j <= n /\ j <= m => g[j] = h[j]}
  <1>1. 0 \in T
    BY DEF Sums
  <1>2. ASSUME NEW j \in T PROVE j + 1 \in T
    <2> SUFFICES ASSUME j + 1 <= n, j + 1 <= m PROVE g[j + 1] = h[j + 1]
      OBVIOUS
    <2>1. /\ j + 1 \in 1..n /\ j + 1 \in 1..m /\ (j + 1) - 1 = j
          /\ j <= n /\ j <= m
      OBVIOUS
    <2>2. g[j] = h[j]
      BY <2>1
    <2> QED
      BY <2>1, <2>2 DEF Sums
  <1> HIDE DEF T
  <1>3. T = Nat
    <2>1. T \in SUBSET Nat
      BY DEF T
    <2> QED
      BY <1>1, <1>2, <2>1, EveryNatural
  <1> QED
    BY <1>3 DEF T

\* The equation of the recursive definition.
LEMMA SumEquation ==
  ASSUME NEW v \in [Nat -> Int]
  PROVE  /\ SumTo(v) \in [Nat -> Int]
         /\ SumTo(v)[0] = 0
         /\ \A n \in Nat : SumTo(v)[n + 1] = SumTo(v)[n] + v[n + 1]
  <1> DEFINE up(n) == CHOOSE g : Sums(v, n, g)
             sum == [n \in Nat |-> up(n)[n]]
             f == SumTo(v)
  <1>1. ASSUME NEW n \in Nat PROVE Sums(v, n, up(n))
    BY SumsExist, Zenon
  <1> HIDE DEF up
  <1>2. ASSUME NEW n \in Nat
        PROVE  sum[n] = IF n = 0 THEN 0 ELSE sum[n - 1] + v[n]
    <2>1. Sums(v, n, up(n))
      BY <1>1
    <2>2. CASE n = 0
      BY <2>1, <2>2 DEF Sums
    <2>3. CASE n # 0
      <3>1. n - 1 \in Nat /\ n \in 1..n /\ n - 1 <= n
        BY <2>3
      <3>2. up(n)[n] = up(n)[n - 1] + v[n]
        BY <2>1, <3>1 DEF Sums
      <3>3. Sums(v, n - 1, up(n - 1))
        BY <1>1, <3>1
      <3>4. up(n)[n - 1] = up(n - 1)[n - 1]
        BY <2>1, <3>1, <3>3, SumsAgree
      <3> QED
        BY <2>3, <3>1, <3>2, <3>4
    <2> QED
      BY <2>2, <2>3
  <1>3. sum = [n \in Nat |-> IF n = 0 THEN 0 ELSE sum[n - 1] + v[n]]
    BY <1>2
  <1>4. f = CHOOSE h : h = [n \in Nat |-> IF n = 0 THEN 0 ELSE h[n - 1] + v[n]]
    BY DEF SumTo
  <1> HIDE DEF sum, f
  <1>5. f = [n \in Nat |-> IF n = 0 THEN 0 ELSE f[n - 1] + v[n]]
    BY <1>3, <1>4, Zenon
  <1>6. f[0] = 0
    BY <1>5
  <1>7. ASSUME NEW n \in Nat PROVE f[n + 1] = f[n] + v[n + 1]
    <2>1. n + 1 \in Nat /\ n + 1 # 0 /\ (n + 1) - 1 = n
      OBVIOUS
    <2> QED
      BY <1>5, <2>1
  <1>8. \A n \in Nat : f[n] \in Int
    <2> DEFINE T == {n \in Nat : f[n] \in Int}
    <2>1. 0 \in T
      BY <1>6
    <2>2. ASSUME NEW n \in T PROVE n + 1 \in T
      BY <1>7
    <2> HIDE DEF T
    <2>3. T = Nat
      <3>1. T \in SUBSET Nat
        BY DEF T
      <3> QED
        BY <2>1, <2>2, <3>1, EveryNatural
    <2> QED
      BY <2>3 DEF T
  <1>9. f \in [Nat -> Int]
    BY <1>5, <1>8
  <1> QED
    BY <1>6, <1>7, <1>9 DEF f

\* w is v, but for the summand i, which is greater by x.
Grows(v, w, i, x) ==
  /\ v \in [Nat -> Int] /\ w \in [Nat -> Int] /\ i \in Nat \ {0} /\ x \in Int
  /\ w[i] = v[i] + x /\ \A k \in Nat \ {0, i} : w[k] = v[k]

\* A sum reads what it adds up and nothing else; one summand that grows by x
\* makes it grow by x.
LEMMA SumChanges ==
  ASSUME NEW v, NEW w, NEW i, NEW x, Grows(v, w, i, x), NEW n \in Nat
  PROVE  SumTo(w)[n] = SumTo(v)[n] + (IF i <= n THEN x ELSE 0)
  <1> USE DEF Grows
  <1> DEFINE f == SumTo(v)
             g == SumTo(w)
             T == {m \in Nat : g[m] = f[m] + (IF i <= m THEN x ELSE 0)}
  <1>1. /\ f \in [Nat -> Int] /\ f[0] = 0
        /\ \A m \in Nat : f[m + 1] = f[m] + v[m + 1]
        /\ g \in [Nat -> Int] /\ g[0] = 0
        /\ \A m \in Nat : g[m + 1] = g[m] + w[m + 1]
    BY SumEquation
  <1> HIDE DEF f, g
  <1>2. 0 \in T
    BY <1>1
  <1>3. ASSUME NEW m \in T PROVE m + 1 \in T
    <2>1. /\ m \in Nat /\ m + 1 \in Nat \ {0} /\ f[m] \in Int /\ g[m] \in Int
          /\ v[m + 1] \in Int /\ w[m + 1] \in Int
          /\ f[m + 1] = f[m] + v[m + 1] /\ g[m + 1] = g[m] + w[m + 1]
          /\ g[m] = f[m] + (IF i <= m THEN x ELSE 0)
      BY <1>1
    <2>2. CASE m + 1 = i
      <3>1. ~(i <= m) /\ i <= m + 1
        BY <2>1, <2>2
      <3> QED
        BY <2>1, <2>2, <3>1
    <2>3. CASE m + 1 # i
      <3>1. (i <= m) <=> (i <= m + 1)
        BY <2>1, <2>3
      <3>2. w[m + 1] = v[m + 1]
        BY <2>1, <2>3
      <3> QED
        BY <2>1, <3>1, <3>2
    <2> QED
      BY <2>2, <2>3
  <1> HIDE DEF T
  <1>4. T = Nat
    <2>1. T \in SUBSET Nat
      BY DEF T
    <2> QED
      BY <1>2, <1>3, <2>1, EveryNatural
  <1> QED
    BY <1>4 DEF T, f, g

\* The books of a ledger l, kept with a chain (c) or without one.
Books(l, c) ==
  \A a \in Agents :
    l.balances[a] = IF c THEN Credits(l, a)
                    ELSE Credits(l, a) - Debits(l, a) + l.waived[a]

Sound(l) == l \in Ledger /\ l.receipts \subseteq DOMAIN l.mints

LEMMA AmountsType ==
  ASSUME NEW l, Sound(l), NEW txs
  PROVE  /\ Len(l.mints) \in Nat /\ DOMAIN l.mints = 1..Len(l.mints)
         /\ Amounts(l, txs) \in [Nat -> Int]
         /\ \A i \in Nat : Amounts(l, txs)[i] =
              IF i \in DOMAIN l.mints /\ i \in txs THEN l.mints[i].amount ELSE 0
         /\ Total(l, txs) \in Int
  <1>1. /\ l.mints \in Seq(Mint) /\ Len(l.mints) \in Nat
        /\ DOMAIN l.mints = 1..Len(l.mints)
    BY DEF Sound, Ledger
  <1>2. \A i \in DOMAIN l.mints : l.mints[i].amount \in Int
    <2>1. \A i \in DOMAIN l.mints : l.mints[i] \in Mint
      BY <1>1
    <2> QED
      BY <2>1 DEF Mint
  <1>3. Amounts(l, txs) \in [Nat -> Int]
    BY <1>2 DEF Amounts
  <1>4. \A i \in Nat : Amounts(l, txs)[i] =
          IF i \in DOMAIN l.mints /\ i \in txs THEN l.mints[i].amount ELSE 0
    BY DEF Amounts
  <1>5. Total(l, txs) \in Int
    BY <1>1, <1>3, SumEquation DEF Total
  <1> QED
    BY <1>1, <1>3, <1>4, <1>5

\* One more mint record: what is added up of the records before it, and of it.
LEMMA TotalMinted ==
  ASSUME NEW l, Sound(l), NEW from \in Agents \cup {FundingSource},
         NEW to \in Agents, NEW amount \in Nat, NEW txs, NEW more,
         \A i \in DOMAIN l.mints : i \in txs <=> i \in more
  PROVE  Total(Minted(l, from, to, amount), more) =
           Total(l, txs) + (IF Len(l.mints) + 1 \in more THEN amount ELSE 0)
  <1> DEFINE m == Minted(l, from, to, amount)
             n == Len(l.mints)
             v == Amounts(l, txs)
             w == Amounts(m, more)
             x == IF n + 1 \in more THEN amount ELSE 0
  <1>1. m.mints = Append(l.mints, [from |-> from, to |-> to, amount |-> amount])
    BY DEF Minted, Sound, Ledger
  <1>2. l.mints \in Seq(Mint)
    BY DEF Sound, Ledger
  <1>3. /\ n \in Nat /\ Len(m.mints) = n + 1
        /\ DOMAIN l.mints = 1..n /\ DOMAIN m.mints = 1..(n + 1)
        /\ \A i \in 1..n : m.mints[i] = l.mints[i]
        /\ m.mints[n + 1].amount = amount
    BY <1>1, <1>2
  <1>4. /\ v \in [Nat -> Int]
        /\ \A i \in Nat : v[i] =
             IF i \in DOMAIN l.mints /\ i \in txs THEN l.mints[i].amount ELSE 0
    BY AmountsType
  <1>5. Sound(m)
    BY MintedType DEF Sound
  <1>6. /\ w \in [Nat -> Int]
        /\ \A i \in Nat : w[i] =
             IF i \in DOMAIN m.mints /\ i \in more THEN m.mints[i].amount ELSE 0
    BY <1>5, AmountsType
  <1>7. Total(l, txs) = SumTo(v)[n] /\ Total(m, more) = SumTo(w)[n + 1]
    BY <1>3 DEF Total
  <1> HIDE DEF m, n, v, w
  <1>8. /\ n + 1 \in Nat \ {0} /\ ~(n + 1 \in 1..n) /\ n + 1 \in 1..(n + 1)
        /\ x \in Int
    BY <1>3
  <1>9. v[n + 1] = 0 /\ w[n + 1] = x
    BY <1>3, <1>4, <1>6, <1>8
  <1>10. ASSUME NEW k \in Nat \ {0, n + 1} PROVE w[k] = v[k]
    <2>1. k \in 1..n <=> k \in 1..(n + 1)
      BY <1>3
    <2> QED
      BY <1>3, <1>4, <1>6, <2>1
  <1> HIDE DEF x
  <1>11. w[n + 1] = v[n + 1] + x
    BY <1>8, <1>9
  <1>12. SumTo(w)[n + 1] = SumTo(v)[n + 1] + (IF n + 1 <= n + 1 THEN x ELSE 0)
    <2>1. Grows(v, w, n + 1, x)
      BY <1>4, <1>6, <1>8, <1>10, <1>11 DEF Grows
    <2> QED
      BY <1>8, <2>1, SumChanges
  <1>13. SumTo(v)[n + 1] = SumTo(v)[n] + v[n + 1] /\ SumTo(v)[n] \in Int
    BY <1>3, <1>4, SumEquation
  <1>14. SumTo(w)[n + 1] = SumTo(v)[n] + x
    BY <1>8, <1>9, <1>12, <1>13
  <1> QED
    BY <1>7, <1>14 DEF x, m, n

\* One more receipt.
LEMMA TotalSettled ==
  ASSUME NEW l, Sound(l), NEW m, Sound(m), m.mints = l.mints,
         NEW txs, NEW more, NEW i \in DOMAIN l.mints, i \notin txs,
         \A k \in DOMAIN l.mints \ {i} : k \in txs <=> k \in more
  PROVE  Total(m, more) =
           Total(l, txs) + (IF i \in more THEN l.mints[i].amount ELSE 0)
  <1> DEFINE n == Len(l.mints)
             v == Amounts(l, txs)
             w == Amounts(m, more)
             x == IF i \in more THEN l.mints[i].amount ELSE 0
  <1>1. /\ n \in Nat /\ DOMAIN l.mints = 1..n /\ i \in 1..n
        /\ v \in [Nat -> Int]
        /\ \A k \in Nat : v[k] =
             IF k \in DOMAIN l.mints /\ k \in txs THEN l.mints[k].amount ELSE 0
    BY AmountsType
  <1>2. /\ w \in [Nat -> Int]
        /\ \A k \in Nat : w[k] =
             IF k \in DOMAIN l.mints /\ k \in more THEN l.mints[k].amount ELSE 0
    BY AmountsType
  <1>3. Total(l, txs) = SumTo(v)[n] /\ Total(m, more) = SumTo(w)[n]
    BY DEF Total
  <1> HIDE DEF n, v, w
  <1>4. i \in Nat \ {0} /\ i <= n
    BY <1>1
  <1>5. v[i] = 0 /\ w[i] = x /\ x \in Int
    BY <1>1, <1>2, <1>4
  <1>6. ASSUME NEW k \in Nat \ {0, i} PROVE w[k] = v[k]
    BY <1>1, <1>2
  <1> HIDE DEF x
  <1>7. w[i] = v[i] + x
    BY <1>5
  <1>8. SumTo(w)[n] = SumTo(v)[n] + (IF i <= n THEN x ELSE 0)
    <2>1. Grows(v, w, i, x)
      BY <1>1, <1>2, <1>4, <1>5, <1>6, <1>7 DEF Grows
    <2> QED
      BY <1>1, <2>1, SumChanges
  <1> QED
    BY <1>3, <1>4, <1>8 DEF x

LEMMA BooksOpen ==
  Books(EmptyLedger, FALSE) /\ Books(EmptyLedger, TRUE)
  <1>1. Sound(EmptyLedger) /\ Len(EmptyLedger.mints) = 0
        /\ \A a \in Agents : EmptyLedger.balances[a] = 0 /\ EmptyLedger.waived[a] = 0
    BY DEF Sound, EmptyLedger, Ledger
  <1>2. ASSUME NEW txs PROVE Total(EmptyLedger, txs) = 0
    <2>1. Amounts(EmptyLedger, txs) \in [Nat -> Int]
      BY <1>1, AmountsType
    <2> QED
      BY <1>1, <2>1, SumEquation DEF Total
  <1> QED
    BY <1>1, <1>2 DEF Books, Credits, Debits

LEMMA BooksMinted ==
  ASSUME NEW l, Sound(l), NEW from \in Agents \cup {FundingSource},
         NEW to \in Agents, NEW amount \in Nat, NEW c \in BOOLEAN, Books(l, c)
  PROVE  Books(Minted(l, from, to, amount), c)
  <1> DEFINE m == Minted(l, from, to, amount)
             n == Len(l.mints)
             record == [from |-> from, to |-> to, amount |-> amount]
  <1>1. /\ m.mints = Append(l.mints, record) /\ m.receipts = l.receipts
        /\ m.balances = [l.balances EXCEPT ![to] = @ + amount]
        /\ l.balances \in [Agents -> Nat]
        /\ m.waived = l.waived /\ l.waived \in [Agents -> Nat]
    BY DEF Minted, Sound, Ledger
  <1>2. /\ n \in Nat /\ DOMAIN l.mints = 1..n /\ DOMAIN m.mints = 1..(n + 1)
        /\ \A i \in 1..n : m.mints[i] = l.mints[i]
        /\ m.mints[n + 1] = record
    BY <1>1 DEF Sound, Ledger
  <1>3. l.receipts \subseteq 1..n /\ n + 1 \notin 1..n
    BY <1>2 DEF Sound
  <1> SUFFICES ASSUME NEW a \in Agents
               PROVE  m.balances[a] =
                        IF c THEN Credits(m, a)
                        ELSE Credits(m, a) - Debits(m, a) + m.waived[a]
    BY DEF Books
  <1>4. /\ Credits(l, a) \in Int /\ Debits(l, a) \in Int
        /\ l.balances[a] \in Nat /\ l.waived[a] \in Nat
        /\ l.balances[a] = IF c THEN Credits(l, a)
                           ELSE Credits(l, a) - Debits(l, a) + l.waived[a]
    <2>1. Credits(l, a) \in Int /\ Debits(l, a) \in Int
      BY AmountsType DEF Credits, Debits
    <2> QED
      BY <1>1, <2>1 DEF Books
  <1>5. m.balances[a] = l.balances[a] + (IF to = a THEN amount ELSE 0)
    BY <1>1
  <1>6. Credits(m, a) = Credits(l, a) + (IF to = a THEN amount ELSE 0)
    <2> DEFINE txs  == {i \in DOMAIN l.mints : l.mints[i].to = a}
               more == {i \in DOMAIN m.mints : m.mints[i].to = a}
    <2>1. \A i \in DOMAIN l.mints : i \in txs <=> i \in more
      BY <1>2
    <2>2. n + 1 \in more <=> to = a
      BY <1>2
    <2>3. Credits(m, a) = Total(m, more) /\ Credits(l, a) = Total(l, txs)
      BY DEF Credits
    <2> HIDE DEF txs, more
    <2>4. Total(m, more) = Total(l, txs) + (IF n + 1 \in more THEN amount ELSE 0)
      BY <2>1, TotalMinted
    <2> QED
      BY <2>2, <2>3, <2>4
  <1>7. Debits(m, a) = Debits(l, a)
    <2> DEFINE txs  == {i \in l.receipts : l.mints[i].from = a}
               more == {i \in m.receipts : m.mints[i].from = a}
    <2>1. \A i \in DOMAIN l.mints : i \in txs <=> i \in more
      BY <1>1, <1>2
    <2>2. n + 1 \notin more
      BY <1>1, <1>3
    <2>3. Debits(m, a) = Total(m, more) /\ Debits(l, a) = Total(l, txs)
      BY DEF Debits
    <2> HIDE DEF txs, more
    <2>4. Total(m, more) = Total(l, txs) + (IF n + 1 \in more THEN amount ELSE 0)
      BY <2>1, TotalMinted
    <2>5. Total(l, txs) \in Int
      BY AmountsType
    <2> QED
      BY <2>2, <2>3, <2>4, <2>5
  <1>8. m.waived[a] = l.waived[a]
    BY <1>1
  <1> HIDE DEF m, n
  <1>9. CASE c
    BY <1>4, <1>5, <1>6, <1>9
  <1>10. CASE ~c
    <2>1. amount \in Nat
      OBVIOUS
    <2> QED
      BY <1>4, <1>5, <1>6, <1>7, <1>8, <1>10, <2>1
  <1> QED
    BY <1>9, <1>10

LEMMA BooksSettled ==
  ASSUME NEW l, Sound(l), NEW t \in Token, NEW c \in BOOLEAN, Books(l, c),
         t.tx \in DOMAIN l.mints, ~c => t.tx \notin l.receipts,
         l.mints[t.tx].from = t.from, l.mints[t.tx].amount = t.amount
  PROVE  Books(Settled(l, t, c), c)
  <1> DEFINE m == Settled(l, t, c)
  <1>1. /\ m.mints = l.mints /\ m.receipts = l.receipts \cup {t.tx}
        /\ m.balances = IF c THEN l.balances ELSE Debited(l.balances, t)
        /\ m.waived = [l.waived EXCEPT ![t.from] =
                         IF c THEN @ ELSE @ + Short(l.balances, t)]
        /\ l.balances \in [Agents -> Nat] /\ l.waived \in [Agents -> Nat]
        /\ t.from \in Agents /\ t.amount \in Nat
    BY DEF Settled, Sound, Ledger, Token
  <1>2. Sound(m)
    BY <1>1, SettledType DEF Sound
  <1> SUFFICES ASSUME NEW a \in Agents
               PROVE  m.balances[a] =
                        IF c THEN Credits(m, a)
                        ELSE Credits(m, a) - Debits(m, a) + m.waived[a]
    BY DEF Books
  <1>3. /\ Credits(l, a) \in Int /\ Debits(l, a) \in Int
        /\ l.balances[a] \in Nat /\ l.waived[a] \in Nat
        /\ l.balances[a] = IF c THEN Credits(l, a)
                           ELSE Credits(l, a) - Debits(l, a) + l.waived[a]
    <2>1. Credits(l, a) \in Int /\ Debits(l, a) \in Int
      BY AmountsType DEF Credits, Debits
    <2> QED
      BY <1>1, <2>1 DEF Books
  <1>4. Credits(m, a) = Credits(l, a)
    BY <1>1 DEF Credits, Total, Amounts
  <1>5. ASSUME ~c
        PROVE  Debits(m, a) = Debits(l, a) + (IF t.from = a THEN t.amount ELSE 0)
    <2> DEFINE txs  == {i \in l.receipts : l.mints[i].from = a}
               more == {i \in m.receipts : m.mints[i].from = a}
    <2>1. Debits(m, a) = Total(m, more) /\ Debits(l, a) = Total(l, txs)
      BY DEF Debits
    <2>2. t.tx \notin txs
          /\ \A k \in DOMAIN l.mints \ {t.tx} : k \in txs <=> k \in more
      BY <1>1, <1>5
    <2>3. t.tx \in more <=> t.from = a
      BY <1>1
    <2> HIDE DEF m, txs, more
    <2>4. Total(m, more) = Total(l, txs) +
                             (IF t.tx \in more THEN l.mints[t.tx].amount ELSE 0)
      BY <1>1, <1>2, <2>2, TotalSettled
    <2> QED
      BY <2>1, <2>3, <2>4
  <1>6. CASE c
    BY <1>1, <1>3, <1>4, <1>6
  <1>7. CASE ~c
    <2>1. CASE t.from = a
      <3>1. /\ m.balances[a] = IF l.balances[a] > t.amount
                               THEN l.balances[a] - t.amount ELSE 0
            /\ m.waived[a] = l.waived[a] + (IF l.balances[a] < t.amount
                                            THEN t.amount - l.balances[a] ELSE 0)
        BY <1>1, <1>7, <2>1 DEF Debited, Short
      <3> HIDE DEF m
      <3> QED
        BY <1>1, <1>3, <1>4, <1>5, <1>7, <2>1, <3>1
    <2>2. CASE t.from # a
      <3>1. m.balances[a] = l.balances[a] /\ m.waived[a] = l.waived[a]
        BY <1>1, <1>7, <2>2 DEF Debited
      <3> HIDE DEF m
      <3> QED
        BY <1>3, <1>4, <1>5, <1>7, <2>2, <3>1
    <2> QED
      BY <2>1, <2>2
  <1> QED
    BY <1>6, <1>7

-----------------------------------------------------------------------------
(* The books follow the ledger.  A payment debits the token's payer by the *)
(* token's amount, the account adds up the mint records: a signed token    *)
(* has to say what the record says.  Token 0 is of another ledger.         *)

Genuine(t, l) ==
  t # NoToken /\ t.signed /\ t.tx # 0 =>
    /\ t.tx \in DOMAIN l.mints
    /\ l.mints[t.tx] = [from |-> t.from, to |-> t.to, amount |-> t.amount]

BooksInv ==
  /\ \A d \in Delegations : Genuine(delegation[d].token, ledger)
  /\ Books(ledger, chain)

\* What is on record stays on record.
LEMMA GenuineStays ==
  ASSUME NEW l, Sound(l), NEW from \in Agents \cup {FundingSource},
         NEW to \in Agents, NEW amount \in Nat, NEW t, Genuine(t, l)
  PROVE  Genuine(t, Minted(l, from, to, amount))
  <1> DEFINE record == [from |-> from, to |-> to, amount |-> amount]
             m == Minted(l, from, to, amount)
  <1>1. m.mints = Append(l.mints, record) /\ l.mints \in Seq(Mint)
        /\ record \in Mint
    BY DEF Minted, Sound, Ledger, Mint
  <1> HIDE DEF record, m
  <1>2. /\ DOMAIN l.mints \subseteq DOMAIN m.mints
        /\ \A i \in DOMAIN l.mints : m.mints[i] = l.mints[i]
    BY <1>1
  <1>3. Genuine(t, m)
    BY <1>2 DEF Genuine
  <1> QED
    BY <1>3 DEF m

\* One delegation moves, and at most one record is minted.
LEMMA BooksMove ==
  ASSUME PaymentsInv, BooksInv, NEW d \in Delegations, NEW g,
         delegation' = [delegation EXCEPT ![d] = g], chain' = chain,
         Genuine(g.token, ledger'),
         \/ ledger' = ledger
         \/ \E from \in Agents \cup {FundingSource}, to \in Agents, amount \in Nat :
              ledger' = Minted(ledger, from, to, amount)
  PROVE  BooksInv'
  <1>1. Sound(ledger) /\ chain \in BOOLEAN
    BY DEF PaymentsInv, TypeOK, Sound
  <1>2. \A e \in Delegations :
          delegation'[e] = IF e = d THEN g ELSE delegation[e]
    BY DEF PaymentsInv, TypeOK
  <1>3. /\ Books(ledger', chain)
        /\ \A e \in Delegations : Genuine(delegation[e].token, ledger')
    <2>1. CASE ledger' = ledger
      BY <2>1 DEF BooksInv
    <2>2. ASSUME NEW from \in Agents \cup {FundingSource}, NEW to \in Agents,
                 NEW amount \in Nat, ledger' = Minted(ledger, from, to, amount)
          PROVE  /\ Books(ledger', chain)
                 /\ \A e \in Delegations : Genuine(delegation[e].token, ledger')
      BY <1>1, <2>2, BooksMinted, GenuineStays DEF BooksInv
    <2> QED
      BY <2>1, <2>2
  <1>4. \A e \in Delegations : Genuine(delegation'[e].token, ledger')
    BY <1>2, <1>3
  <1> QED
    BY <1>3, <1>4 DEF BooksInv

\* The client's steps: f is the delegation as the client goes on with it.
LEMMA SendPaidBooks ==
  ASSUME PaymentsInv, BooksInv, NEW d \in Delegations, NEW f \in Delegation,
         SendPaid(d, f), f.price # NoPrice, chain' = chain
  PROVE  BooksInv'
  <1> DEFINE amount == f.price + f.surcharge
             token  == NewToken(ledger, Delegator, f.to, amount)
             record == [from |-> Delegator, to |-> f.to, amount |-> amount]
             g      == [f EXCEPT !.phase = "sent", !.token = token]
  <1>1. /\ f.price \in Nat /\ f.surcharge \in Nat /\ f.to \in Agents
        /\ ledger \in Ledger /\ Delegator \in Agents
    BY PricesNatural, X402Assumption DEF Delegation, Quotes, PaymentsInv, TypeOK
  <1>2. amount \in Nat /\ g.token = token
    BY <1>1 DEF Delegation
  <1>3. /\ ledger' = Minted(ledger, Delegator, f.to, amount)
        /\ delegation' = [delegation EXCEPT ![d] = g]
    BY DEF SendPaid
  <1> HIDE DEF amount
  <1>4. Genuine(token, ledger')
    <2>1. /\ ledger'.mints = Append(ledger.mints, record)
          /\ ledger.mints \in Seq(Mint) /\ record \in Mint
      BY <1>1, <1>2, <1>3 DEF Minted, Ledger, Mint
    <2>2. /\ token.tx = Len(ledger.mints) + 1 /\ token.from = Delegator
          /\ token.to = f.to /\ token.amount = amount
      BY DEF NewToken
    <2> HIDE DEF token
    <2>3. /\ Len(ledger.mints) + 1 \in DOMAIN ledger'.mints
          /\ ledger'.mints[Len(ledger.mints) + 1] = record
      BY <2>1
    <2> QED
      BY <2>2, <2>3 DEF Genuine
  <1> HIDE DEF g, token
  <1>5. \E from \in Agents \cup {FundingSource}, to \in Agents, n \in Nat :
          ledger' = Minted(ledger, from, to, n)
    BY <1>1, <1>2, <1>3
  <1> QED
    BY <1>2, <1>3, <1>4, <1>5, BooksMove

LEMMA GoOnBooks ==
  ASSUME PaymentsInv, BooksInv, NEW d \in Delegations, NEW f \in Delegation,
         GoOn(d, f), f.token = NoToken, chain' = chain
  PROVE  BooksInv'
  <1>1. CASE f.price = NoPrice
    <2> DEFINE g == [f EXCEPT !.phase = "sent"]
    <2>1. /\ g.token = NoToken /\ ledger' = ledger
          /\ delegation' = [delegation EXCEPT ![d] = g]
      BY <1>1 DEF GoOn, Delegation
    <2> HIDE DEF g
    <2> QED
      BY <2>1, BooksMove DEF Genuine
  <1>2. CASE /\ ledger' = RefilledIfLow(ledger, Delegator)
             /\ delegation' = [delegation EXCEPT ![d] =
                                 [f EXCEPT !.phase = "refilled"]]
    <2> DEFINE g == [f EXCEPT !.phase = "refilled"]
    <2>1. g.token = NoToken /\ delegation' = [delegation EXCEPT ![d] = g]
      BY <1>2 DEF Delegation
    <2>2. \/ ledger' = ledger
          \/ \E from \in Agents \cup {FundingSource}, to \in Agents,
                amount \in Nat : ledger' = Minted(ledger, from, to, amount)
      BY <1>2, LedgerAssumption, X402Assumption DEF RefilledIfLow
    <2> HIDE DEF g
    <2> QED
      BY <2>1, <2>2, BooksMove DEF Genuine
  <1>3. CASE f.price # NoPrice /\ SendPaid(d, f)
    BY <1>3, SendPaidBooks
  <1> QED
    BY <1>1, <1>2, <1>3 DEF GoOn, Pay

LEMMA ClientBooks ==
  ASSUME PaymentsInv, BooksInv, NEW d \in Delegations,
         \/ \E a \in Workers, s \in Surcharges : DelegateTask(d, a, s)
         \/ \E q \in Quotes : CardFetched(d, q)
         \/ SendAfterRefill(d)
  PROVE  BooksInv'
  <1>1. /\ delegation[d] \in Delegation /\ Unspent(delegation[d])
        /\ Priced(delegation[d])
    BY DEF PaymentsInv, TypeOK, InOrder
  <1>2. ASSUME NEW a \in Workers, NEW s \in Surcharges, DelegateTask(d, a, s)
        PROVE  BooksInv'
    <2> DEFINE f == [delegation[d] EXCEPT !.to = a, !.surcharge = s,
                                          !.price = Known(a)]
    <2>1. delegation[d].token = NoToken /\ chain' = chain
      BY <1>1, <1>2 DEF DelegateTask, Unspent
    <2>2. CASE Known(a) = Unfetched
      <3> DEFINE g == [f EXCEPT !.phase = "fetching", !.price = NoPrice]
      <3>1. /\ g.token = NoToken /\ ledger' = ledger
            /\ delegation' = [delegation EXCEPT ![d] = g]
        BY <1>1, <1>2, <2>1, <2>2 DEF DelegateTask, Delegation
      <3> HIDE DEF g
      <3> QED
        BY <2>1, <3>1, BooksMove DEF Genuine
    <2>3. CASE Known(a) # Unfetched
      <3>1. Known(a) \in Quotes
        BY <2>3 DEF Known, Quotes, PaymentsInv, TypeOK
      <3>2. f \in Delegation /\ f.token = NoToken
        BY <1>1, <2>1, <3>1, X402Assumption DEF Delegation
      <3>3. GoOn(d, f)
        BY <1>2, <2>3 DEF DelegateTask
      <3> HIDE DEF f
      <3> QED
        BY <2>1, <3>2, <3>3, GoOnBooks
    <2> QED
      BY <2>2, <2>3
  <1>3. ASSUME NEW q \in Quotes, CardFetched(d, q) PROVE BooksInv'
    <2> DEFINE f == [delegation[d] EXCEPT !.price = q]
    <2>1. /\ f \in Delegation /\ f.token = NoToken /\ GoOn(d, f)
          /\ chain' = chain
      BY <1>1, <1>3 DEF CardFetched, Unspent, Delegation
    <2> HIDE DEF f
    <2> QED
      BY <2>1, GoOnBooks
  <1>4. ASSUME SendAfterRefill(d) PROVE BooksInv'
    BY <1>1, <1>4, SendPaidBooks DEF SendAfterRefill, Priced
  <1> QED
    BY <1>2, <1>3, <1>4

\* A request is lost, or its header is sent again.
LEMMA NetworkBooks ==
  ASSUME PaymentsInv, BooksInv, NEW d \in Delegations,
         RequestLost(d) \/ \E e \in Delegations, a \in Agents : SentAgain(d, e, a)
  PROVE  BooksInv'
  <1>1. CASE RequestLost(d)
    <2> DEFINE g == [delegation[d] EXCEPT !.phase = "lost"]
    <2>1. /\ g.token = delegation[d].token /\ ledger' = ledger /\ chain' = chain
          /\ delegation' = [delegation EXCEPT ![d] = g]
      BY <1>1 DEF RequestLost, PaymentsInv, TypeOK, Delegation
    <2> HIDE DEF g
    <2> QED
      BY <2>1, BooksMove DEF BooksInv
  <1>2. ASSUME NEW e \in Delegations, NEW a \in Agents, SentAgain(d, e, a) PROVE BooksInv'
    <2> DEFINE t == delegation[e].token
    <2>1. PICK u \in {t, [t EXCEPT !.amount = @ + 1, !.signed = FALSE],
                      [t EXCEPT !.tx = 0]} :
            delegation' = [delegation EXCEPT ![d] =
                             [delegation[e] EXCEPT !.phase = "sent", !.to = a, !.token = u,
                                                   !.settled = FALSE]]
      BY <1>2 DEF SentAgain
    <2>2. /\ delegation[e] \in Delegation /\ t \in Token
          /\ Genuine(t, ledger) /\ ledger' = ledger /\ chain' = chain
      BY <1>2 DEF SentAgain, PaymentsInv, TypeOK, BooksInv, Delegation
    <2>3. Genuine(u, ledger')
      <3> HIDE DEF t
      <3>1. u = t \/ u.signed = FALSE \/ u.tx = 0
        BY <2>1, <2>2 DEF Token
      <3> QED
        BY <2>2, <3>1 DEF Genuine
    <2> DEFINE g == [delegation[e] EXCEPT !.phase = "sent", !.to = a, !.token = u,
                                          !.settled = FALSE]
    <2>4. g.token = u /\ delegation' = [delegation EXCEPT ![d] = g]
      BY <2>1, <2>2 DEF Delegation
    <2> HIDE DEF g, t
    <2> QED
      BY <2>2, <2>3, <2>4, BooksMove
  <1> QED
    BY <1>1, <1>2

\* The server's steps.
LEMMA UnpaidBooks ==
  ASSUME PaymentsInv, BooksInv, NEW d \in Delegations, NEW quote,
         Unpaid(d, quote), chain' = chain
  PROVE  BooksInv'
  <1> DEFINE g == [delegation[d] EXCEPT !.due = quote,
                     !.phase = IF quote = NoPrice THEN "admitted" ELSE "refused"]
  <1>1. /\ g.token = delegation[d].token /\ ledger' = ledger
        /\ delegation' = [delegation EXCEPT ![d] = g]
    BY DEF Unpaid, PaymentsInv, TypeOK, Delegation
  <1> HIDE DEF g
  <1> QED
    BY <1>1, BooksMove DEF BooksInv

LEMMA PaidBooks ==
  ASSUME PaymentsInv, BooksInv, NEW d \in Delegations, NEW quote,
         Paid(d, quote), chain' = chain,
         delegation[d].token # NoToken, delegation[d].token.signed,
         delegation[d].token.tx \in DOMAIN ledger.mints,
         ~chain => delegation[d].token.tx \notin ledger.receipts
  PROVE  BooksInv'
  <1> DEFINE t == delegation[d].token
  <1>1. /\ Sound(ledger) /\ chain \in BOOLEAN /\ t \in Token
        /\ Genuine(t, ledger) /\ ledger' = Settled(ledger, t, chain)
        /\ ledger.mints \in Seq(Mint)
    BY DEF PaymentsInv, TypeOK, Sound, Ledger, Delegation, BooksInv, Paid
  <1>2. /\ t.tx # 0
        /\ ledger.mints[t.tx] = [from |-> t.from, to |-> t.to, amount |-> t.amount]
    BY <1>1 DEF Genuine
  <1>3. Books(ledger', chain)
    BY <1>1, <1>2, BooksSettled DEF BooksInv
  <1>4. ledger'.mints = ledger.mints
    BY <1>1, SettledType DEF Sound
  <1>5. \A e \in Delegations : delegation'[e].token = delegation[e].token
    BY DEF Paid, PaymentsInv, TypeOK, Delegation
  <1> QED
    BY <1>3, <1>4, <1>5 DEF BooksInv, Genuine

LEMMA ServerBooks ==
  ASSUME PaymentsInv, BooksInv, NEW d \in Delegations,
         Check(d) \/ \E confirmed \in BOOLEAN : ChainAnswers(d, confirmed)
  PROVE  BooksInv'
  <1> DEFINE f   == delegation[d]
             quote == expected[f.to]
  <1>1. CASE Check(d)
    <2>1. chain' = chain
      BY <1>1 DEF Check
    <2>2. CASE Unpaid(d, quote)
      BY <2>1, <2>2, UnpaidBooks
    <2>3. CASE f.token # NoToken /\ Passes(ledger, f.token) /\ Paid(d, quote)
      BY <2>1, <2>3, PaidBooks DEF Passes
    <2>4. CASE /\ delegation' = [delegation EXCEPT ![d] =
                                   [@ EXCEPT !.phase = "verifying", !.due = quote]]
               /\ UNCHANGED ledger
      <3> DEFINE g == [f EXCEPT !.phase = "verifying", !.due = quote]
      <3>1. /\ g.token = delegation[d].token /\ ledger' = ledger
            /\ delegation' = [delegation EXCEPT ![d] = g]
        BY <2>4 DEF PaymentsInv, TypeOK, Delegation
      <3> HIDE DEF g
      <3> QED
        BY <2>1, <3>1, BooksMove DEF BooksInv
    <2> QED
      BY <1>1, <2>2, <2>3, <2>4 DEF Check
  <1>2. ASSUME NEW confirmed \in BOOLEAN, ChainAnswers(d, confirmed)
        PROVE  BooksInv'
    <2>1. chain' = chain /\ Asked(f) /\ f.phase = "verifying"
      BY <1>2 DEF ChainAnswers, PaymentsInv, InOrder
    <2>2. ASSUME NEW q, Paid(d, q) PROVE BooksInv'
      BY <2>1, <2>2, PaidBooks DEF Asked
    <2>3. ASSUME NEW q, Unpaid(d, q) PROVE BooksInv'
      BY <2>1, <2>3, UnpaidBooks
    <2> QED
      BY <1>2, <2>2, <2>3 DEF ChainAnswers
  <1> QED
    BY <1>1, <1>2

LEMMA BooksStep ==
  ASSUME PaymentsInv, BooksInv, [Next]_vars
  PROVE  BooksInv'
  <1>1. ASSUME UNCHANGED <<chain, ledger, delegation>> PROVE BooksInv'
    BY <1>1 DEF BooksInv, Genuine, Books, Credits, Debits
  <1>2. CASE ClearCache
    BY <1>1, <1>2 DEF ClearCache
  <1>3. ASSUME NEW a \in Workers, NEW c \in Cards \cup {NoPrice}, PublishCard(a, c)
        PROVE  BooksInv'
    BY <1>1, <1>3 DEF PublishCard
  <1>4. ASSUME NEW a \in Charging, NEW b \in Workers, NEW passed \in BOOLEAN,
               UpdateFromCard(a, b, passed)
        PROVE  BooksInv'
    BY <1>1, <1>4 DEF UpdateFromCard
  <1>5. CASE UNCHANGED vars
    BY <1>1, <1>5 DEF vars
  <1> QED
    BY <1>2, <1>3, <1>4, <1>5, ClientBooks, NetworkBooks, ServerBooks DEF Next

(***************************************************************************)
(* For any number of delegations, mints, refills and payments in any       *)
(* order, an agent's balance is exactly what was minted for it less what   *)
(* it paid, plus the part of its payments there was no balance to take;    *)
(* with a chain endpoint, what was minted for it.                          *)
(***************************************************************************)
THEOREM BalancesAddUp == RuntimeSpec => []BalancesAccounted
  <1>1. RuntimeInit => PaymentsInv /\ BooksInv
    <2>1. ASSUME Init PROVE BooksInv
      <3>1. Books(ledger, chain)
        <4>1. ledger = EmptyLedger /\ (chain = TRUE \/ chain = FALSE)
          BY <2>1 DEF Init
        <4> QED
          BY <4>1, BooksOpen, Zenon
      <3>2. \A d \in Delegations : delegation[d].token = NoToken
        BY <2>1 DEF Init
      <3> QED
        BY <3>1, <3>2 DEF BooksInv, Genuine
    <2> QED
      BY <2>1, PaymentsInit DEF RuntimeInit
  <1>2. PaymentsInv /\ BooksInv
          /\ [RuntimeNext]_<<exercised, pluginVars, realtimeVars, paymentVars,
                             ballot, specialistVars, elicitationVars, bridgeVars>>
        => BooksInv'
    <2>1. ASSUME RuntimeNext \/ UNCHANGED paymentVars PROVE [Next]_vars
      BY <2>1 DEF RuntimeNext, paymentVars
    <2> QED
      BY <2>1, BooksStep
  <1>3. BooksInv => BalancesAccounted
    BY DEF BooksInv, Books, BalancesAccounted
  <1> QED
    BY <1>1, <1>2, <1>3, PaymentsRuntime, PTL DEF RuntimeSpec

-----------------------------------------------------------------------------
(* Consensus.                                                              *)

LEMMA WeightedBound ==
  ASSUME NEW share \in (0..100) \cup {Missing}, NEW weight \in {40, 30, 10}
  PROVE  /\ Weighted(share, weight) \in Nat
         /\ Weighted(share, weight) <= weight * 100
         /\ share \in {0, Missing} => Weighted(share, weight) = 0
  <1>1. CASE share = Missing
    BY <1>1 DEF Weighted
  <1>2. CASE share # Missing
    <2>1. share \in 0..100 /\ Weighted(share, weight) = share * weight
      BY <1>2 DEF Weighted
    <2>2. CASE weight = 40
      BY <1>2, <2>1, <2>2
    <2>3. CASE weight = 30
      BY <1>2, <2>1, <2>3
    <2>4. CASE weight = 10
      BY <1>2, <2>1, <2>4
    <2> QED
      BY <2>2, <2>3, <2>4
  <1> QED
    BY <1>1, <1>2

\* Scores are in ten-thousandths; without a success rate they end at 0.6.
LEMMA ScoreBound ==
  ASSUME NEW a \in Answers
  PROVE  /\ ScoreResponse(a) \in Nat /\ ScoreResponse(a) <= 10000
         /\ a.rate \in {0, Missing} => ScoreResponse(a) <= 6000
  <1>1. /\ a.rate \in (0..100) \cup {Missing}
        /\ a.relevance \in (0..100) \cup {Missing}
        /\ a.tags \in (0..100) \cup {Missing}
        /\ a.long \in BOOLEAN
    BY ConsensusAssumption DEF Answers
  <1> DEFINE r == Weighted(a.rate, 40)
             v == Weighted(a.relevance, 30)
             g == Weighted(a.tags, 10)
             w == IF a.long THEN 2000 ELSE 0
  <1>2. /\ r \in Nat /\ v \in Nat /\ g \in Nat /\ w \in Nat
        /\ r <= 4000 /\ v <= 3000 /\ g <= 1000 /\ w <= 2000
        /\ a.rate \in {0, Missing} => r = 0
    BY <1>1, WeightedBound
  <1>3. ScoreResponse(a) = r + w + v + g
    BY DEF ScoreResponse
  <1> HIDE DEF r, v, g, w
  <1> QED
    BY <1>2, <1>3

\* What is bounded has a greatest member.
LEMMA GreatestBelow ==
  ASSUME NEW bound \in Nat, NEW S \in SUBSET (0..bound), S # {}
  PROVE  \E most \in S : \A m \in S : m <= most
  <1> DEFINE T == {bound - m : m \in S}
  <1>1. T \in SUBSET Nat
    BY SMT
  <1>2. T # {}
    <2>1. PICK m \in S : TRUE
      OBVIOUS
    <2>2. bound - m \in T
      BY <2>1
    <2> QED
      BY <2>2
  <1>3. \E k \in T : \A m \in T : k <= m
    <2> HIDE DEF T
    <2> QED
      BY <1>1, <1>2, LeastNatural
  <1>4. PICK most \in S : \A k \in T : bound - most <= k
    BY <1>3
  <1>5. ASSUME NEW m \in S PROVE m <= most
    <2>1. bound - m \in T
      OBVIOUS
    <2>2. bound - most <= bound - m
      BY <1>4, <2>1
    <2>3. m \in Int /\ most \in Int
      BY <1>4
    <2> QED
      BY <2>2, <2>3
  <1> QED
    BY <1>5

\* Of finitely many scores there is a first among the highest.
LEMMA FirstAmongHighest ==
  ASSUME NEW bound \in Nat, NEW n \in Nat \ {0}, NEW s \in [1..n -> 0..bound]
  PROVE  \E b \in 1..n : \A j \in 1..n :
           ~(s[j] > s[b] \/ (s[j] = s[b] /\ j < b))
  <1>1. PICK most \in 1..n : \A i \in 1..n : s[i] <= s[most]
    <2> DEFINE S == {s[i] : i \in 1..n}
    <2>1. s[1] \in S
      OBVIOUS
    <2>2. S \in SUBSET (0..bound)
      OBVIOUS
    <2>3. \E top \in S : \A m \in S : m <= top
      <3> HIDE DEF S
      <3>1. S # {}
        BY <2>1
      <3> QED
        BY <2>2, <3>1, GreatestBelow
    <2> QED
      BY <2>3
  <1>2. PICK b \in 1..n : /\ s[b] = s[most]
                          /\ \A i \in 1..n : s[i] = s[most] => b <= i
    <2> DEFINE T == {i \in 1..n : s[i] = s[most]}
    <2>1. T \in SUBSET Nat /\ T # {}
      BY <1>1
    <2>2. PICK b \in T : \A i \in T : b <= i
      <3> HIDE DEF T
      <3> QED
        BY <2>1, LeastNatural
    <2> QED
      BY <2>2
  <1>3. ASSUME NEW j \in 1..n PROVE ~(s[j] > s[b]) /\ ~(s[j] = s[b] /\ j < b)
    <2>1. s[j] \in Nat /\ s[b] \in Nat /\ s[most] \in Nat
      BY <1>1, <1>2
    <2> QED
      BY <1>1, <1>2, <2>1
  <1> QED
    BY <1>3

\* The inputs that come before one in the ranking.
Above(inputs, i) ==
  {j \in DOMAIN inputs :
     \/ ScoreResponse(inputs[j]) > ScoreResponse(inputs[i])
     \/ ScoreResponse(inputs[j]) = ScoreResponse(inputs[i]) /\ j < i}

\* The first of the ranking is an answer that nobody beats.
LEMMA FirstIsBest ==
  ASSUME NEW n \in Nat \ {0}, NEW inputs \in [1..n -> Answers]
  PROVE  /\ Ranked(inputs)[1] \in 1..n
         /\ \A i \in 1..n : ScoreResponse(inputs[i])
                              <= ScoreResponse(inputs[Ranked(inputs)[1]])
  <1> DEFINE s == [i \in 1..n |-> ScoreResponse(inputs[i])]
             best == CHOOSE i \in DOMAIN inputs :
                       Cardinality(Above(inputs, i)) = 1 - 1
             bound == 10000
  <1>1. /\ DOMAIN inputs = 1..n /\ 1 \in 1..n
        /\ bound \in Nat /\ s \in [1..n -> 0..bound]
        /\ \A i \in 1..n : s[i] = ScoreResponse(inputs[i])
    <2>1. \A i \in 1..n : inputs[i] \in Answers
      OBVIOUS
    <2>2. \A i \in 1..n : /\ ScoreResponse(inputs[i]) \in Nat
                          /\ ScoreResponse(inputs[i]) <= 10000
      BY <2>1, ScoreBound
    <2>3. bound \in Nat /\ \A i \in 1..n : ScoreResponse(inputs[i]) <= bound
      BY <2>2
    <2> HIDE DEF best, bound
    <2>4. s \in [1..n -> 0..bound]
      BY <2>2, <2>3
    <2> QED
      BY <2>3, <2>4
  <1> HIDE DEF bound
  <1>2. Ranked(inputs)[1] = best
    BY <1>1 DEF Ranked, Above
  <1>3. \E b \in 1..n : Above(inputs, b) = {}
    <2>1. PICK b \in 1..n : \A j \in 1..n :
                 ~(s[j] > s[b] \/ (s[j] = s[b] /\ j < b))
      <3> HIDE DEF s
      <3>1. bound \in Nat /\ s \in [1..n -> 0..bound]
        BY <1>1
      <3> QED
        BY <3>1, FirstAmongHighest
    <2> HIDE DEF s
    <2>2. ASSUME NEW j \in DOMAIN inputs
          PROVE  ~(\/ ScoreResponse(inputs[j]) > ScoreResponse(inputs[b])
                   \/ /\ ScoreResponse(inputs[j]) = ScoreResponse(inputs[b])
                      /\ j < b)
      BY <1>1, <2>1
    <2> QED
      BY <2>2 DEF Above
  <1>4. \E b \in DOMAIN inputs : Cardinality(Above(inputs, b)) = 1 - 1
    <2>1. PICK b \in DOMAIN inputs : Above(inputs, b) = {}
      BY <1>1, <1>3
    <2>2. Cardinality(Above(inputs, b)) = 0
      BY <2>1, FS_EmptySet
    <2> QED
      BY <2>2
  <1>5. best \in DOMAIN inputs /\ Cardinality(Above(inputs, best)) = 1 - 1
    BY <1>4, Zenon
  <1> HIDE DEF best
  <1>6. Above(inputs, best) = {}
    <2>1. IsFiniteSet(DOMAIN inputs)
      BY <1>1, FS_Interval
    <2>2. Above(inputs, best) \in SUBSET DOMAIN inputs
      BY DEF Above
    <2> QED
      BY <1>5, <2>1, <2>2, FS_Subset, FS_EmptySet
  <1>7. ASSUME NEW i \in 1..n
        PROVE  ScoreResponse(inputs[i]) <= ScoreResponse(inputs[best])
    <2>1. ~(ScoreResponse(inputs[i]) > ScoreResponse(inputs[best]))
      BY <1>1, <1>6 DEF Above
    <2>2. s[i] \in Nat /\ s[best] \in Nat
      BY <1>1, <1>5
    <2> QED
      BY <1>1, <1>5, <2>1, <2>2
  <1> QED
    BY <1>1, <1>2, <1>5, <1>7

\* What evaluate says of answers.
LEMMA EvaluatedRests ==
  ASSUME NEW n \in Nat \ {0}, NEW inputs \in [1..n -> Answers]
  PROVE  LET v == Evaluated(inputs) IN
         /\ v.winner \in 1..n /\ ~v.consensus /\ ~v.contested
         /\ v.confidence = ScoreResponse(inputs[v.winner])
         /\ \A i \in 1..n :
              ScoreResponse(inputs[i]) <= ScoreResponse(inputs[v.winner])
  BY FirstIsBest DEF Evaluated, NoVerdict

\* What VerdictsRestOnAnswers says of a ballot, but for the last conjunct.
Rests(b) ==
  LET convincing == {i \in DOMAIN b.inputs :
                       ScoreResponse(b.inputs[i]) >= Threshold} IN
  /\ b.phase # "none" /\ b.text # "as given" => \A i \in DOMAIN b.inputs :
       ScoreResponse(b.inputs[i]) <= ScoreResponse(b.inputs[b.verdict.winner])
  /\ b.verdict.consensus =>
       convincing # {} \/ (b.by = "router" /\ Len(b.inputs) = 1)
  /\ b.verdict.contested => convincing = {} \/ Len(b.inputs) < MinAgents
  /\ b.by \in {"agent", "router"} => b.verdict.contested = ~b.verdict.consensus

IsBallot(b) ==
  b \in [phase : {b.phase}, by : {b.by}, inputs : {b.inputs},
         verdict : {b.verdict}, text : {b.text}]

BallotInv ==
  /\ IsBallot(ballot) /\ Rests(ballot)
  /\ ballot.phase = "evaluated" => ballot.text = "none"
  /\ \E n \in Nat : ballot.inputs \in [1..n -> Answers]

LEMMA BallotInit ==
  ASSUME ConsensusInit
  PROVE  BallotInv
  <1>1. /\ IsBallot(ballot) /\ ballot.phase = "none" /\ ballot.inputs = << >>
        /\ ballot.verdict = NoVerdict /\ ballot.by = "none"
    BY DEF ConsensusInit, NoBallot, IsBallot
  <1>2. Rests(ballot)
    BY <1>1 DEF Rests, NoVerdict
  <1>3. ballot.inputs \in [1..0 -> Answers]
    BY <1>1
  <1> QED
    BY <1>1, <1>2, <1>3 DEF BallotInv

\* The best score against the threshold: either consensus or contested.
LEMMA ThresholdedRests ==
  ASSUME NEW n \in Nat \ {0}, NEW inputs \in [1..n -> Answers]
  PROVE  LET v == Thresholded(Evaluated(inputs))
             convincing == {i \in DOMAIN inputs :
                              ScoreResponse(inputs[i]) >= Threshold}
         IN /\ v.winner \in 1..n /\ v.contested = ~v.consensus
            /\ v.consensus => convincing # {}
            /\ v.contested => convincing = {}
            /\ \A i \in 1..n :
                 ScoreResponse(inputs[i]) <= ScoreResponse(inputs[v.winner])
  <1> DEFINE e == Evaluated(inputs)
             v == Thresholded(e)
  <1>1. /\ e.winner \in 1..n /\ e.confidence = ScoreResponse(inputs[e.winner])
        /\ \A i \in 1..n :
             ScoreResponse(inputs[i]) <= ScoreResponse(inputs[e.winner])
    BY EvaluatedRests
  <1>2. /\ v.winner = e.winner /\ v.consensus = (e.confidence >= Threshold)
        /\ v.contested = (e.confidence < Threshold)
    BY DEF Thresholded, Evaluated, NoVerdict
  <1> HIDE DEF e, v
  <1>3. \A i \in 1..n : inputs[i] \in Answers /\ ScoreResponse(inputs[i]) \in Nat
    BY ScoreBound
  <1>4. e.confidence \in Nat /\ Threshold \in Nat /\ DOMAIN inputs = 1..n
    BY <1>1, <1>3, ConsensusAssumption
  <1>5. v.contested = ~v.consensus
    <2>1. (e.confidence < Threshold) = ~(e.confidence >= Threshold)
      BY <1>4
    <2> QED
      BY <1>2, <2>1, Zenon
  <1>6. v.consensus => e.winner \in {i \in DOMAIN inputs :
                                       ScoreResponse(inputs[i]) >= Threshold}
    <2>1. e.winner \in DOMAIN inputs
      BY <1>1, <1>4
    <2> SUFFICES ASSUME v.consensus
                 PROVE  ScoreResponse(inputs[e.winner]) >= Threshold
      BY <2>1
    <2>2. e.confidence >= Threshold
      BY <1>2
    <2> QED
      BY <1>1, <2>2
  <1>7. ASSUME v.contested, NEW i \in DOMAIN inputs,
               ScoreResponse(inputs[i]) >= Threshold
        PROVE  FALSE
    <2>1. e.confidence < Threshold
      BY <1>2, <1>7
    <2>2. i \in 1..n /\ ScoreResponse(inputs[i]) \in Nat
      BY <1>3, <1>4
    <2>3. ScoreResponse(inputs[i]) <= e.confidence
      BY <1>1, <2>2
    <2> QED
      BY <1>4, <1>7, <2>1, <2>2, <2>3
  <1>8. v.contested => {i \in DOMAIN inputs :
                          ScoreResponse(inputs[i]) >= Threshold} = {}
    BY <1>7
  <1> QED
    BY <1>1, <1>2, <1>5, <1>6, <1>8 DEF e, v

LEMMA VoteInv ==
  ASSUME NEW n \in Nat \ {0}, NEW inputs \in [1..n -> Answers],
         \/ \E by \in {"agent", "router"} :
              Vote(by, inputs, Thresholded(Evaluated(inputs)))
         \/ Vote("consensus", inputs, Evaluated(inputs))
  PROVE  BallotInv'
  <1>1. ASSUME NEW by, NEW verdict, Vote(by, inputs, verdict)
        PROVE  /\ IsBallot(ballot') /\ ballot'.inputs = inputs
               /\ ballot'.verdict = verdict /\ ballot'.by = by
               /\ ballot'.phase = "evaluated" /\ ballot'.text = "none"
    BY <1>1 DEF Vote, NoBallot, IsBallot
  <1>2. DOMAIN inputs = 1..n
    OBVIOUS
  <1>3. ASSUME NEW by \in {"agent", "router"},
               Vote(by, inputs, Thresholded(Evaluated(inputs)))
        PROVE  BallotInv'
    <2> DEFINE v == Thresholded(Evaluated(inputs))
    <2>1. /\ v.winner \in 1..n /\ v.contested = ~v.consensus
          /\ v.consensus => {i \in DOMAIN inputs :
                               ScoreResponse(inputs[i]) >= Threshold} # {}
          /\ v.contested => {i \in DOMAIN inputs :
                               ScoreResponse(inputs[i]) >= Threshold} = {}
          /\ \A i \in 1..n :
               ScoreResponse(inputs[i]) <= ScoreResponse(inputs[v.winner])
      BY ThresholdedRests
    <2>2. Vote(by, inputs, v)
      BY <1>3
    <2> HIDE DEF v
    <2>3. /\ IsBallot(ballot') /\ ballot'.inputs = inputs
          /\ ballot'.verdict = v /\ ballot'.by = by
          /\ ballot'.phase = "evaluated" /\ ballot'.text = "none"
      BY <1>1, <2>2
    <2>4. Rests(ballot')
      BY <1>2, <2>1, <2>3 DEF Rests
    <2> QED
      BY <2>3, <2>4 DEF BallotInv
  <1>4. CASE Vote("consensus", inputs, Evaluated(inputs))
    <2> DEFINE v == Evaluated(inputs)
    <2>1. /\ v.winner \in 1..n /\ ~v.consensus /\ ~v.contested
          /\ \A i \in 1..n :
               ScoreResponse(inputs[i]) <= ScoreResponse(inputs[v.winner])
      BY EvaluatedRests
    <2>2. Vote("consensus", inputs, v)
      BY <1>4
    <2> HIDE DEF v
    <2>3. /\ IsBallot(ballot') /\ ballot'.inputs = inputs
          /\ ballot'.verdict = v /\ ballot'.by = "consensus"
          /\ ballot'.phase = "evaluated" /\ ballot'.text = "none"
      BY <1>1, <2>2
    <2>4. Rests(ballot')
      BY <1>2, <2>1, <2>3 DEF Rests
    <2> QED
      BY <2>3, <2>4 DEF BallotInv
  <1> QED
    BY <1>3, <1>4

LEMMA DecideInv ==
  ASSUME NEW n \in Nat, NEW inputs \in [1..n -> Answers], NEW by, NEW verdict,
         Decide(by, inputs, verdict),
         verdict.consensus => by = "router" /\ n = 1,
         verdict.contested => n < MinAgents,
         by \in {"agent", "router"} => verdict.contested = ~verdict.consensus
  PROVE  BallotInv'
  <1>1. /\ IsBallot(ballot') /\ ballot'.inputs = inputs
        /\ ballot'.verdict = verdict /\ ballot'.by = by
        /\ ballot'.phase = "decided" /\ ballot'.text = "as given"
    BY DEF Decide, NoBallot, IsBallot
  <1>2. Len(inputs) = n
    OBVIOUS
  <1>3. Rests(ballot')
    BY <1>1, <1>2 DEF Rests
  <1> QED
    BY <1>1, <1>3 DEF BallotInv

LEMMA BallotStep ==
  ASSUME BallotInv, ConsensusNext
  PROVE  BallotInv'
  <1>1. ASSUME NEW n \in 0..MaxInputs, NEW inputs \in [1..n -> Answers],
               \/ Verify(inputs) \/ RunVerification(inputs)
               \/ ExecuteConsensus(inputs)
        PROVE  BallotInv'
    <2>1. n \in Nat
      BY ConsensusAssumption
    <2>2. Len(inputs) = n /\ (inputs # << >> => n # 0)
      <3>1. inputs \in Seq(Answers) /\ Len(inputs) = n
        BY <2>1
      <3> QED
        BY <3>1, EmptySeq
    <2>3. CASE Verify(inputs)
      <3>1. CASE n < MinAgents
        <4> DEFINE v == [NoVerdict EXCEPT !.contested = TRUE]
        <4>1. Decide("agent", inputs, v) /\ v.contested = TRUE /\ v.consensus = FALSE
          BY <2>2, <2>3, <3>1 DEF Verify, NoVerdict
        <4> HIDE DEF v
        <4> QED
          BY <2>1, <3>1, <4>1, DecideInv
      <3>2. CASE ~(n < MinAgents)
        <4>1. n # 0
          BY <2>1, <3>2, ConsensusAssumption
        <4> QED
          BY <2>1, <2>2, <2>3, <3>2, <4>1, VoteInv DEF Verify
      <3> QED
        BY <3>1, <3>2
    <2>4. CASE RunVerification(inputs)
      <3>1. CASE n = 1
        <4> DEFINE v == [NoVerdict EXCEPT !.consensus = TRUE, !.confidence = 5000,
                                          !.winner = 1]
        <4>1. Decide("router", inputs, v) /\ v.contested = FALSE /\ v.consensus = TRUE
          BY <2>2, <2>4, <3>1 DEF RunVerification, NoVerdict
        <4> HIDE DEF v
        <4> QED
          BY <2>1, <3>1, <4>1, DecideInv
      <3>2. CASE n # 1
        BY <2>1, <2>2, <2>4, <3>2, VoteInv DEF RunVerification
      <3> QED
        BY <3>1, <3>2
    <2>5. CASE ExecuteConsensus(inputs)
      <3>1. CASE n # 0 /\ Vote("consensus", inputs, Evaluated(inputs))
        BY <2>1, <3>1, VoteInv
      <3>2. ASSUME NEW v, Decide("consensus", inputs, v), v.consensus = FALSE,
                   v.contested = FALSE
            PROVE  BallotInv'
        BY <2>1, <3>2, DecideInv
      <3>3. \/ n # 0 /\ Vote("consensus", inputs, Evaluated(inputs))
            \/ \E v : /\ Decide("consensus", inputs, v)
                      /\ v.consensus = FALSE /\ v.contested = FALSE
        <4>1. /\ NoVerdict.consensus = FALSE /\ NoVerdict.contested = FALSE
              /\ [NoVerdict EXCEPT !.winner = 1].consensus = FALSE
              /\ [NoVerdict EXCEPT !.winner = 1].contested = FALSE
          BY DEF NoVerdict
        <4> QED
          BY <2>2, <2>5, <4>1 DEF ExecuteConsensus
      <3> QED
        BY <3>1, <3>2, <3>3
    <2> QED
      BY <1>1, <2>3, <2>4, <2>5
  <1>2. CASE BuildSynthesis
    <2>1. /\ IsBallot(ballot') /\ ballot'.inputs = ballot.inputs
          /\ ballot'.verdict = ballot.verdict /\ ballot'.by = ballot.by
          /\ ballot.phase = "evaluated" /\ ballot.text = "none"
          /\ ballot'.phase = "decided"
      BY <1>2 DEF BuildSynthesis, BallotInv, IsBallot
    <2>2. Rests(ballot')
      BY <2>1 DEF BallotInv, Rests
    <2> QED
      BY <2>1, <2>2 DEF BallotInv
  <1> QED
    BY <1>1, <1>2 DEF ConsensusNext

LEMMA VerdictRests ==
  ASSUME BallotInv
  PROVE  VerdictsRestOnAnswers
  <1>1. PICK n \in Nat : ballot.inputs \in [1..n -> Answers]
    BY DEF BallotInv
  <1>2. ASSUME Threshold > 6000, NEW i \in Convincing,
               ballot.inputs[i].rate \in {0, Missing}
        PROVE  FALSE
    <2>1. ballot.inputs[i] \in Answers /\ ScoreResponse(ballot.inputs[i]) >= Threshold
      BY <1>1 DEF Convincing
    <2>2. /\ ScoreResponse(ballot.inputs[i]) \in Nat
          /\ ScoreResponse(ballot.inputs[i]) <= 6000
      BY <1>2, <2>1, ScoreBound
    <2> QED
      BY <1>2, <2>1, <2>2, ConsensusAssumption
  <1>3. Threshold > 6000 =>
          \A i \in Convincing : ballot.inputs[i].rate \notin {Missing, 0}
    <2> HIDE DEF Convincing
    <2> SUFFICES ASSUME Threshold > 6000, NEW i \in Convincing,
                        ballot.inputs[i].rate \in {Missing, 0}
                 PROVE  FALSE
      OBVIOUS
    <2>1. ballot.inputs[i].rate \in {0, Missing}
      OBVIOUS
    <2> QED
      BY <1>2, <2>1
  <1>4. Rests(ballot)
    BY DEF BallotInv
  <1> DEFINE b == ballot
  <1>5. /\ Scored => \A i \in DOMAIN b.inputs :
             ScoreResponse(b.inputs[i]) <= ScoreResponse(b.inputs[b.verdict.winner])
        /\ b.verdict.consensus =>
             Convincing # {} \/ (b.by = "router" /\ Len(b.inputs) = 1)
        /\ b.verdict.contested => Convincing = {} \/ Len(b.inputs) < MinAgents
        /\ b.by \in {"agent", "router"} =>
             b.verdict.contested = ~b.verdict.consensus
    BY <1>4, Zenon DEF Rests, Scored, Convincing
  <1> QED
    BY <1>3, <1>5, Zenon DEF VerdictsRestOnAnswers, b

(***************************************************************************)
(* For any answers and any number of them, in any order, and any           *)
(* threshold: the winner of a vote is one that nobody beats, consensus     *)
(* rests on an answer that meets the threshold or is the router's verdict  *)
(* on a single one, contested means that none does or that there were too  *)
(* few, and above 0.6 no answer convinces without a success rate.          *)
(***************************************************************************)
THEOREM VerdictsRest == RuntimeSpec => []VerdictsRestOnAnswers
  <1>1. RuntimeInit => BallotInv
    BY BallotInit DEF RuntimeInit
  <1>2. BallotInv /\ [RuntimeNext]_<<exercised, pluginVars, realtimeVars,
                        paymentVars, ballot, specialistVars, elicitationVars,
                        bridgeVars>> => BallotInv'
    <2> SUFFICES ASSUME BallotInv, ConsensusNext \/ UNCHANGED ballot
                 PROVE  BallotInv'
      BY DEF RuntimeNext
    <2>1. CASE UNCHANGED ballot
      BY <2>1 DEF BallotInv, IsBallot
    <2> QED
      BY <2>1, BallotStep
  <1> QED
    BY <1>1, <1>2, VerdictRests, PTL DEF RuntimeSpec

-----------------------------------------------------------------------------
(* Plugins.  The calls of the registry under way: one leaves its place in  *)
(* the sequence, or takes one.                                             *)

Kinds == {"initialize", "shutdown"}

Calls == [kind : Kinds, pos : Nat, todo : Seq(Plugins),
          at : Plugins \cup {NoPlugin}]

Without(cs, i) == SubSeq(cs, 1, i - 1) \o SubSeq(cs, i + 1, Len(cs))
Replaced(cs, i, x) ==
  SubSeq(cs, 1, i - 1) \o <<x>> \o SubSeq(cs, i + 1, Len(cs))

\* big is small with x in place i.
Inserted(big, small, i, x) ==
  /\ big \in Seq(Calls) /\ small \in Seq(Calls)
  /\ i \in 1..(Len(small) + 1) /\ Len(big) = Len(small) + 1
  /\ big[i] = x
  /\ \A k \in 1..(i - 1) : big[k] = small[k]
  /\ \A k \in i..Len(small) : big[k + 1] = small[k]

LEMMA Parts ==
  ASSUME NEW cs \in Seq(Calls), NEW i \in 1..(Len(cs) + 1)
  PROVE  /\ Len(cs) \in Nat
         /\ SubSeq(cs, 1, i - 1) \in Seq(Calls)
         /\ Len(SubSeq(cs, 1, i - 1)) = i - 1
         /\ \A k \in 1..(i - 1) : SubSeq(cs, 1, i - 1)[k] = cs[k]
         /\ SubSeq(cs, i + 1, Len(cs)) \in Seq(Calls)
         /\ i <= Len(cs) =>
              /\ Len(SubSeq(cs, i + 1, Len(cs))) = Len(cs) - i
              /\ \A k \in 1..(Len(cs) - i) :
                   SubSeq(cs, i + 1, Len(cs))[k] = cs[k + i]
         /\ i = Len(cs) + 1 => SubSeq(cs, i + 1, Len(cs)) = << >>
  <1>1. Len(cs) \in Nat /\ i \in Int /\ 1 <= i /\ i <= Len(cs) + 1
    OBVIOUS
  <1>2. \A k \in 1..Len(cs) : cs[k] \in Calls
    OBVIOUS
  <1>3. /\ SubSeq(cs, 1, i - 1) \in Seq(Calls)
        /\ Len(SubSeq(cs, 1, i - 1)) = i - 1
        /\ \A k \in 1..(i - 1) : SubSeq(cs, 1, i - 1)[k] = cs[k]
    <2>1. \A k \in 1..(i - 1) : cs[k] \in Calls
      BY <1>1, <1>2
    <2>2. i - 1 \in Int /\ 1 \in Int
      BY <1>1
    <2>3. /\ SubSeq(cs, 1, i - 1) \in Seq(Calls)
          /\ Len(SubSeq(cs, 1, i - 1)) =
               IF 1 <= i - 1 THEN (i - 1) - 1 + 1 ELSE 0
          /\ \A k \in 1..((i - 1) - 1 + 1) :
               SubSeq(cs, 1, i - 1)[k] = cs[1 + k - 1]
      BY <2>1, <2>2, SubSeqProperties
    <2>4. Len(SubSeq(cs, 1, i - 1)) = i - 1
      BY <1>1, <2>3
    <2>5. ASSUME NEW k \in 1..(i - 1)
          PROVE  SubSeq(cs, 1, i - 1)[k] = cs[k]
      <3>1. k \in 1..((i - 1) - 1 + 1) /\ 1 + k - 1 = k
        BY <1>1
      <3> QED
        BY <2>3, <3>1
    <2> QED
      BY <2>3, <2>4, <2>5
  <1>4. SubSeq(cs, i + 1, Len(cs)) \in Seq(Calls)
    <2>1. \A k \in (i + 1)..Len(cs) : cs[k] \in Calls
      BY <1>1, <1>2
    <2> QED
      BY <1>1, <2>1, SubSeqProperties
  <1>5. ASSUME i <= Len(cs)
        PROVE  /\ Len(SubSeq(cs, i + 1, Len(cs))) = Len(cs) - i
               /\ \A k \in 1..(Len(cs) - i) :
                    SubSeq(cs, i + 1, Len(cs))[k] = cs[k + i]
    <2>1. \A k \in (i + 1)..Len(cs) : cs[k] \in Calls
      BY <1>1, <1>2
    <2>2. /\ Len(SubSeq(cs, i + 1, Len(cs))) =
               IF i + 1 <= Len(cs) THEN Len(cs) - (i + 1) + 1 ELSE 0
          /\ \A k \in 1..(Len(cs) - (i + 1) + 1) :
               SubSeq(cs, i + 1, Len(cs))[k] = cs[(i + 1) + k - 1]
      BY <1>1, <2>1, SubSeqProperties
    <2>3. Len(SubSeq(cs, i + 1, Len(cs))) = Len(cs) - i
      BY <1>1, <1>5, <2>2
    <2>4. ASSUME NEW k \in 1..(Len(cs) - i)
          PROVE  SubSeq(cs, i + 1, Len(cs))[k] = cs[k + i]
      <3>1. k \in 1..(Len(cs) - (i + 1) + 1) /\ (i + 1) + k - 1 = k + i
        BY <1>1
      <3> QED
        BY <2>2, <3>1
    <2> QED
      BY <2>3, <2>4
  <1>6. i = Len(cs) + 1 => SubSeq(cs, i + 1, Len(cs)) = << >>
    BY <1>1, SubSeqEmpty
  <1> QED
    BY <1>1, <1>3, <1>4, <1>5, <1>6

LEMMA WithoutOne ==
  ASSUME NEW cs \in Seq(Calls), NEW i \in 1..Len(cs)
  PROVE  Inserted(cs, Without(cs, i), i, cs[i])
  <1> DEFINE a == SubSeq(cs, 1, i - 1)
             z == SubSeq(cs, i + 1, Len(cs))
             r == a \o z
  <1>1. /\ Len(cs) \in Nat /\ i \in Nat /\ 1 <= i /\ i <= Len(cs)
        /\ a \in Seq(Calls) /\ Len(a) = i - 1
        /\ \A k \in 1..(i - 1) : a[k] = cs[k]
        /\ z \in Seq(Calls) /\ Len(z) = Len(cs) - i
        /\ \A k \in 1..(Len(cs) - i) : z[k] = cs[k + i]
    BY Parts
  <1>2. r = Without(cs, i)
    BY DEF Without
  <1> HIDE DEF a, z
  <1>3. /\ r \in Seq(Calls) /\ Len(r) = Len(cs) - 1
        /\ \A k \in 1..(Len(cs) - 1) :
             r[k] = IF k <= i - 1 THEN a[k] ELSE z[k - (i - 1)]
    <2>1. a \in Seq(Calls) /\ z \in Seq(Calls)
      BY <1>1
    <2>2. /\ r \in Seq(Calls) /\ Len(r) = Len(a) + Len(z)
          /\ \A k \in 1..(Len(a) + Len(z)) :
               r[k] = IF k <= Len(a) THEN a[k] ELSE z[k - Len(a)]
      BY <2>1, ConcatProperties
    <2> HIDE DEF r
    <2>3. Len(a) = i - 1 /\ Len(a) + Len(z) = Len(cs) - 1
      BY <1>1
    <2> QED
      BY <2>2, <2>3
  <1> HIDE DEF r
  <1>4. ASSUME NEW k \in 1..(i - 1)
        PROVE  cs[k] = r[k]
    <2>1. k \in 1..(Len(cs) - 1) /\ k <= i - 1
      BY <1>1
    <2> QED
      BY <1>1, <1>3, <2>1
  <1>5. ASSUME NEW k \in i..(Len(cs) - 1)
        PROVE  cs[k + 1] = r[k]
    <2>1. r[k] = z[k - (i - 1)]
      BY <1>1, <1>3
    <2>2. k - (i - 1) \in 1..(Len(cs) - i) /\ (k - (i - 1)) + i = k + 1
      BY <1>1
    <2> QED
      BY <1>1, <2>1, <2>2
  <1> QED
    BY <1>1, <1>2, <1>3, <1>4, <1>5 DEF Inserted

LEMMA WithoutNone ==
  ASSUME NEW cs \in Seq(Calls)
  PROVE  Without(cs, Len(cs) + 1) = cs
  <1> DEFINE i == Len(cs) + 1
             a == SubSeq(cs, 1, i - 1)
  <1>1. /\ Len(cs) \in Nat /\ i \in 1..(Len(cs) + 1)
        /\ a \in Seq(Calls) /\ Len(a) = i - 1
        /\ \A k \in 1..(i - 1) : a[k] = cs[k]
        /\ SubSeq(cs, i + 1, Len(cs)) = << >>
    BY Parts
  <1> HIDE DEF a
  <1>2. a = cs
    BY <1>1, SeqEqual
  <1>3. a \o << >> = a
    BY <1>1, ConcatEmptySeq
  <1> QED
    BY <1>1, <1>2, <1>3 DEF Without, a

\* Putting x where a call was, or at the end.
LEMMA ReplacedOne ==
  ASSUME NEW cs \in Seq(Calls), NEW i \in 1..(Len(cs) + 1), NEW x \in Calls
  PROVE  Inserted(Replaced(cs, i, x), Without(cs, i), i, x)
  <1> DEFINE a == SubSeq(cs, 1, i - 1)
             z == SubSeq(cs, i + 1, Len(cs))
             r == a \o z
             ax == a \o <<x>>
             g == ax \o z
  <1>1. /\ Len(cs) \in Nat /\ i \in Nat /\ 1 <= i
        /\ a \in Seq(Calls) /\ Len(a) = i - 1
        /\ z \in Seq(Calls) /\ Len(z) \in Nat
    BY Parts
  <1>2. r = Without(cs, i) /\ g = Replaced(cs, i, x)
    BY DEF Without, Replaced
  <1> HIDE DEF a, z
  <1>3. /\ r \in Seq(Calls) /\ Len(r) = (i - 1) + Len(z)
        /\ \A k \in 1..((i - 1) + Len(z)) :
             r[k] = IF k <= i - 1 THEN a[k] ELSE z[k - (i - 1)]
    <2>1. /\ r \in Seq(Calls) /\ Len(r) = Len(a) + Len(z)
          /\ \A k \in 1..(Len(a) + Len(z)) :
               r[k] = IF k <= Len(a) THEN a[k] ELSE z[k - Len(a)]
      BY <1>1, ConcatProperties
    <2> HIDE DEF r
    <2> QED
      BY <1>1, <2>1
  <1>4. <<x>> \in Seq(Calls) /\ Len(<<x>>) = 1 /\ <<x>>[1] = x
    OBVIOUS
  <1>5. /\ ax \in Seq(Calls) /\ Len(ax) = i
        /\ \A k \in 1..i :
             ax[k] = IF k <= i - 1 THEN a[k] ELSE <<x>>[k - (i - 1)]
    <2>1. /\ ax \in Seq(Calls) /\ Len(ax) = Len(a) + Len(<<x>>)
          /\ \A k \in 1..(Len(a) + Len(<<x>>)) :
               ax[k] = IF k <= Len(a) THEN a[k] ELSE <<x>>[k - Len(a)]
      BY <1>1, <1>4, ConcatProperties
    <2> HIDE DEF ax
    <2> QED
      BY <1>1, <1>4, <2>1
  <1>6. ax[i] = x /\ \A k \in 1..(i - 1) : ax[k] = a[k]
    <2>1. i - (i - 1) = 1
      BY <1>1
    <2> HIDE DEF ax
    <2> QED
      BY <1>1, <1>4, <1>5, <2>1
  <1> HIDE DEF ax, r
  <1>7. /\ g \in Seq(Calls) /\ Len(g) = i + Len(z)
        /\ \A k \in 1..(i + Len(z)) :
             g[k] = IF k <= i THEN ax[k] ELSE z[k - i]
    BY <1>1, <1>5, ConcatProperties
  <1> HIDE DEF g
  <1>8. g[i] = x
    <2>1. i \in 1..(i + Len(z)) /\ i <= i
      BY <1>1
    <2> QED
      BY <1>6, <1>7, <2>1
  <1>9. ASSUME NEW k \in 1..(i - 1)
        PROVE  g[k] = r[k]
    <2>1. /\ k \in 1..(i + Len(z)) /\ k <= i /\ k <= i - 1
          /\ k \in 1..((i - 1) + Len(z))
      BY <1>1
    <2> QED
      BY <1>3, <1>6, <1>7, <2>1
  <1>10. ASSUME NEW k \in i..Len(r)
        PROVE  g[k + 1] = r[k]
    <2>1. g[k + 1] = z[(k + 1) - i] /\ r[k] = z[k - (i - 1)]
      BY <1>1, <1>3, <1>7
    <2>2. (k + 1) - i = k - (i - 1)
      BY <1>1
    <2> QED
      BY <2>1, <2>2
  <1>11. i \in 1..(Len(r) + 1) /\ Len(g) = Len(r) + 1
    BY <1>1, <1>3, <1>7
  <1> QED
    BY <1>2, <1>3, <1>7, <1>8, <1>9, <1>10, <1>11 DEF Inserted

\* Where the calls of small are in big.
Up(i, l) == IF l < i THEN l ELSE l + 1

LEMMA Places ==
  ASSUME NEW big, NEW small, NEW i, NEW x, Inserted(big, small, i, x)
  PROVE  /\ i \in DOMAIN big /\ big[i] = x
         /\ \A l \in DOMAIN small : Up(i, l) \in DOMAIN big \ {i}
                                    /\ big[Up(i, l)] = small[l]
         /\ \A k \in DOMAIN big \ {i} : \E l \in DOMAIN small : k = Up(i, l)
         /\ \A l, m \in DOMAIN small : Up(i, l) = Up(i, m) => l = m
  <1>1. /\ DOMAIN big = 1..Len(big) /\ DOMAIN small = 1..Len(small)
        /\ Len(small) \in Nat /\ Len(big) = Len(small) + 1
        /\ i \in 1..(Len(small) + 1) /\ big[i] = x
    BY DEF Inserted
  <1>2. ASSUME NEW l \in DOMAIN small
        PROVE  Up(i, l) \in DOMAIN big \ {i} /\ big[Up(i, l)] = small[l]
    <2>1. CASE l < i
      <3>1. l \in 1..(i - 1) /\ l \in DOMAIN big \ {i} /\ Up(i, l) = l
        BY <1>1, <2>1 DEF Up
      <3> QED
        BY <3>1 DEF Inserted
    <2>2. CASE ~(l < i)
      <3>1. /\ l \in i..Len(small) /\ l + 1 \in DOMAIN big \ {i}
            /\ Up(i, l) = l + 1
        BY <1>1, <2>2 DEF Up
      <3> QED
        BY <3>1 DEF Inserted
    <2> QED
      BY <2>1, <2>2
  <1>3. ASSUME NEW k \in DOMAIN big \ {i}
        PROVE  \E l \in DOMAIN small : k = Up(i, l)
    <2>1. CASE k < i
      <3>1. k \in DOMAIN small /\ Up(i, k) = k
        BY <1>1, <2>1 DEF Up
      <3> QED
        BY <3>1
    <2>2. CASE ~(k < i)
      <3>1. k - 1 \in DOMAIN small /\ Up(i, k - 1) = k
        BY <1>1, <2>2 DEF Up
      <3> QED
        BY <3>1
    <2> QED
      BY <2>1, <2>2
  <1>4. \A l, m \in DOMAIN small : Up(i, l) = Up(i, m) => l = m
    BY <1>1 DEF Up
  <1> QED
    BY <1>1, <1>2, <1>3, <1>4

-----------------------------------------------------------------------------
(* What one plugin has to do with the calls.                               *)

\* At most one call is at p.
Alone(cs, p) ==
  \A k, l \in DOMAIN cs : cs[k].at = p /\ cs[l].at = p => k = l

\* Some call of a kind is at p.
HeldFor(cs, p, kind) ==
  \E k \in DOMAIN cs : cs[k].at = p /\ cs[k].kind = kind

Free(cs, p) == \A k \in DOMAIN cs : cs[k].at # p

LEMMA AloneKept ==
  ASSUME NEW big, NEW small, NEW i, NEW x, Inserted(big, small, i, x), NEW p
  PROVE  /\ Alone(big, p) => Alone(small, p) /\ (x.at = p => Free(small, p))
         /\ Alone(small, p) /\ (x.at = p => Free(small, p)) => Alone(big, p)
  <1>1. ASSUME Alone(big, p) PROVE Alone(small, p)
    BY <1>1, Places DEF Alone
  <1>2. ASSUME Alone(big, p), x.at = p PROVE Free(small, p)
    BY <1>2, Places DEF Alone, Free
  <1>3. ASSUME Alone(small, p), x.at = p => Free(small, p)
        PROVE  Alone(big, p)
    <2> SUFFICES ASSUME NEW k \in DOMAIN big, NEW l \in DOMAIN big,
                        big[k].at = p, big[l].at = p
                 PROVE  k = l
      BY DEF Alone
    <2>1. CASE k = i /\ l = i
      BY <2>1
    <2>2. CASE k # i /\ l # i
      <3>1. PICK m \in DOMAIN small : k = Up(i, m)
        BY <2>2, Places
      <3>2. PICK o \in DOMAIN small : l = Up(i, o)
        BY <2>2, Places
      <3>3. small[m].at = p /\ small[o].at = p
        BY <3>1, <3>2, Places
      <3>4. m = o
        BY <1>3, <3>3 DEF Alone
      <3> QED
        BY <3>1, <3>2, <3>4
    <2>3. ASSUME NEW m \in DOMAIN big, m # i, big[m].at = p, x.at = p
          PROVE  FALSE
      <3>1. PICK o \in DOMAIN small : m = Up(i, o)
        BY <2>3, Places
      <3>2. small[o].at = p
        BY <2>3, <3>1, Places
      <3> QED
        BY <1>3, <2>3, <3>2 DEF Free
    <2> QED
      BY <2>1, <2>2, <2>3, Places
  <1> QED
    BY <1>1, <1>2, <1>3

LEMMA HeldKept ==
  ASSUME NEW big, NEW small, NEW i, NEW x, Inserted(big, small, i, x),
         NEW p, NEW kind
  PROVE  HeldFor(big, p, kind) <=>
           HeldFor(small, p, kind) \/ (x.at = p /\ x.kind = kind)
  BY Places DEF HeldFor

-----------------------------------------------------------------------------
(* The registry and the bus, es and b, between two halves of a step.       *)

Ids(es, b) ==
  {s.id : s \in b} \cup UNION {es[p].subscriptions : p \in DOMAIN es}

Owned(b, p) == {s \in b : s.owner = p}

Tracked(es, b) ==
  \A s \in b : s.owner \in DOMAIN es /\ s.id \in es[s.owner].subscriptions

\* No id is in two entries.
Apart(es) ==
  \A p, q \in DOMAIN es :
    p # q => es[p].subscriptions \cap es[q].subscriptions = {}

RegistryEntry == [state : States, subscriptions : SUBSET Int]

RegistryInv(es, b) ==
  /\ DOMAIN es \subseteq Plugins /\ es \in [DOMAIN es -> RegistryEntry]
  /\ Tracked(es, b) /\ Apart(es) /\ IsFiniteSet(Ids(es, b))

\* The plugin runs and no shutdown has come to it.
RunsIn(p, es, cs) ==
  /\ p \in DOMAIN es /\ es[p].state = "Running"
  /\ ~HeldFor(cs, p, "shutdown")

\* A plugin is subscribed while it runs, and at no other time.
Subscribed(p, es, b, cs) ==
  /\ Alone(cs, p)
  /\ p \in DOMAIN es /\ HeldFor(cs, p, "initialize")
       => es[p].state = "Loaded"
  /\ IF RunsIn(p, es, cs) THEN \E s : Owned(b, p) = {s} ELSE Owned(b, p) = {}

\* The three changes a step makes to the registry and the bus.
InState(es, p, state) == [es EXCEPT ![p].state = state]

Emptied(es, p) == [es EXCEPT ![p].subscriptions = {}]
Cleaned(es, b, p) == {s \in b : s.id \notin es[p].subscriptions}

Tagged(es, p, n) ==
  [es EXCEPT ![p].subscriptions = @ \cup {n}, ![p].state = "Running"]
Joined(b, p, n) == b \cup {[id |-> n, owner |-> p]}

\* Only an entry's state changes.
LEMMA StateSet ==
  ASSUME NEW es, NEW b, RegistryInv(es, b), NEW p \in DOMAIN es,
         NEW state \in States
  PROVE  /\ DOMAIN InState(es, p, state) = DOMAIN es
         /\ RegistryInv(InState(es, p, state), b)
         /\ InState(es, p, state)[p].state = state
         /\ \A q \in DOMAIN es :
              InState(es, p, state)[q].subscriptions = es[q].subscriptions
         /\ \A q \in DOMAIN es \ {p} : InState(es, p, state)[q] = es[q]
  <1> DEFINE e2 == InState(es, p, state)
  <1>0. e2 = [es EXCEPT ![p].state = state]
    BY DEF InState
  <1> HIDE DEF e2
  <1>1. es[p] \in RegistryEntry
    BY DEF RegistryInv
  <1>2. /\ DOMAIN e2 = DOMAIN es
        /\ e2[p] = [es[p] EXCEPT !.state = state]
        /\ \A q \in DOMAIN es \ {p} : e2[q] = es[q]
    BY <1>0
  <1>3. /\ e2[p] \in RegistryEntry /\ e2[p].state = state
        /\ e2[p].subscriptions = es[p].subscriptions
    BY <1>1, <1>2 DEF RegistryEntry
  <1>4. \A q \in DOMAIN es : e2[q].subscriptions = es[q].subscriptions
    BY <1>2, <1>3
  <1>5. e2 \in [DOMAIN e2 -> RegistryEntry]
    BY <1>0, <1>2, <1>3 DEF RegistryInv
  <1>6. Ids(e2, b) = Ids(es, b)
    BY <1>2, <1>4 DEF Ids
  <1>7. Tracked(e2, b) /\ Apart(e2)
    BY <1>2, <1>4 DEF RegistryInv, Tracked, Apart
  <1> QED
    BY <1>2, <1>3, <1>4, <1>5, <1>6, <1>7 DEF RegistryInv, e2

\* An entry's subscriptions are taken back: the owner's, and nobody else's.
LEMMA TakenBack ==
  ASSUME NEW es, NEW b, RegistryInv(es, b), NEW p \in DOMAIN es
  PROVE  /\ DOMAIN Emptied(es, p) = DOMAIN es
         /\ RegistryInv(Emptied(es, p), Cleaned(es, b, p))
         /\ \A q \in DOMAIN es : Emptied(es, p)[q].state = es[q].state
         /\ Owned(Cleaned(es, b, p), p) = {}
         /\ \A q : q # p => Owned(Cleaned(es, b, p), q) = Owned(b, q)
  <1> DEFINE e2 == Emptied(es, p)
             b2 == Cleaned(es, b, p)
  <1>0. /\ e2 = [es EXCEPT ![p].subscriptions = {}]
        /\ b2 = {s \in b : s.id \notin es[p].subscriptions}
    BY DEF Emptied, Cleaned
  <1> HIDE DEF e2, b2
  <1>1. es[p] \in RegistryEntry
    BY DEF RegistryInv
  <1>2. /\ DOMAIN e2 = DOMAIN es
        /\ e2[p] = [es[p] EXCEPT !.subscriptions = {}]
        /\ \A q \in DOMAIN es \ {p} : e2[q] = es[q]
    BY <1>0
  <1>3. /\ e2[p] \in RegistryEntry /\ e2[p].state = es[p].state
        /\ e2[p].subscriptions = {}
    BY <1>1, <1>2 DEF RegistryEntry
  <1>4. e2 \in [DOMAIN e2 -> RegistryEntry]
    BY <1>0, <1>2, <1>3 DEF RegistryInv
  <1>5. b2 \subseteq b /\ \A s \in b : s \in b2 <=> s.owner # p
    BY <1>0 DEF RegistryInv, Tracked, Apart
  <1>6. Owned(b2, p) = {} /\ \A q : q # p => Owned(b2, q) = Owned(b, q)
    BY <1>5 DEF Owned
  <1>7. Tracked(e2, b2)
    BY <1>2, <1>5 DEF RegistryInv, Tracked
  <1>8. Apart(e2)
    BY <1>2, <1>3 DEF RegistryInv, Apart
  <1>9. IsFiniteSet(Ids(e2, b2))
    <2>1. \A q \in DOMAIN e2 : e2[q].subscriptions \subseteq es[q].subscriptions
      BY <1>2, <1>3
    <2>2. Ids(e2, b2) \in SUBSET Ids(es, b)
      BY <1>2, <1>5, <2>1 DEF Ids
    <2> QED
      BY <2>2, FS_Subset DEF RegistryInv
  <1>10. \A q \in DOMAIN es : e2[q].state = es[q].state
    BY <1>2, <1>3
  <1> QED
    BY <1>2, <1>4, <1>6, <1>7, <1>8, <1>9, <1>10 DEF RegistryInv, e2, b2

\* There is an id that nobody holds.
LEMMA FreshIdIsFresh ==
  ASSUME IsFiniteSet(Held)
  PROVE  FreshId \in Int /\ FreshId \notin Held
  <1> DEFINE c == Cardinality(Held)
  <1>1. c \in Nat
    BY FS_CardinalityType
  <1>2. \E n \in 1..(c + 1) : n \notin Held
    <2> SUFFICES ASSUME 1..(c + 1) \subseteq Held PROVE FALSE
      OBVIOUS
    <2>1. Cardinality(1..(c + 1)) <= c
      BY FS_Subset
    <2> HIDE DEF c
    <2>2. Cardinality(1..(c + 1)) = c + 1
      <3>1. 1 \in Int /\ c + 1 \in Int /\ ~(1 > c + 1) /\ (c + 1) - 1 + 1 = c + 1
        BY <1>1
      <3> QED
        BY <3>1, FS_Interval
    <2> QED
      BY <1>1, <2>1, <2>2
  <1>3. FreshId \in 1..(c + 1) /\ FreshId \notin Held
    BY <1>2, Zenon DEF FreshId
  <1> HIDE DEF c
  <1> QED
    BY <1>1, <1>3

\* The plugin is subscribed under a fresh id, and runs.
LEMMA SubscribedAnew ==
  ASSUME NEW es, NEW b, RegistryInv(es, b), NEW p \in DOMAIN es,
         NEW n \in Int, n \notin Ids(es, b)
  PROVE  /\ DOMAIN Tagged(es, p, n) = DOMAIN es
         /\ RegistryInv(Tagged(es, p, n), Joined(b, p, n))
         /\ Tagged(es, p, n)[p].state = "Running"
         /\ \A q \in DOMAIN es \ {p} : Tagged(es, p, n)[q] = es[q]
         /\ Owned(Joined(b, p, n), p) =
              Owned(b, p) \cup {[id |-> n, owner |-> p]}
         /\ \A q : q # p => Owned(Joined(b, p, n), q) = Owned(b, q)
  <1> DEFINE new == [id |-> n, owner |-> p]
             e2 == Tagged(es, p, n)
             b2 == Joined(b, p, n)
  <1>0. /\ e2 = [es EXCEPT ![p].subscriptions = @ \cup {n},
                           ![p].state = "Running"]
        /\ b2 = b \cup {new}
    BY DEF Tagged, Joined
  <1> HIDE DEF e2, b2
  <1>1. es[p] \in RegistryEntry
    BY DEF RegistryInv
  <1>2. /\ DOMAIN e2 = DOMAIN es
        /\ \A q \in DOMAIN es \ {p} : e2[q] = es[q]
    BY <1>0
  <1>3. /\ e2[p] \in RegistryEntry /\ e2[p].state = "Running"
        /\ e2[p].subscriptions = es[p].subscriptions \cup {n}
    BY <1>0, <1>1 DEF RegistryEntry, States
  <1>4. e2 \in [DOMAIN e2 -> RegistryEntry]
    BY <1>0, <1>2, <1>3 DEF RegistryInv
  <1>5. new.owner = p /\ new.id = n /\ b2 = b \cup {new}
    BY <1>0
  <1> HIDE DEF new
  <1>6. /\ Owned(b2, p) = Owned(b, p) \cup {new}
        /\ \A q : q # p => Owned(b2, q) = Owned(b, q)
    BY <1>5 DEF Owned
  <1>7. Tracked(e2, b2)
    <2>1. \A q \in DOMAIN es : es[q].subscriptions \subseteq e2[q].subscriptions
      BY <1>2, <1>3
    <2> QED
      BY <1>2, <1>3, <1>5, <2>1 DEF RegistryInv, Tracked
  <1>8. Apart(e2)
    <2>1. \A q \in DOMAIN es : n \notin es[q].subscriptions
      BY DEF Ids
    <2> QED
      BY <1>2, <1>3, <2>1 DEF RegistryInv, Apart
  <1>9. IsFiniteSet(Ids(e2, b2))
    <2>1. \A q \in DOMAIN e2 : e2[q].subscriptions \subseteq es[q].subscriptions \cup {n}
      BY <1>2, <1>3
    <2>2. Ids(e2, b2) \in SUBSET (Ids(es, b) \cup {n})
      BY <1>2, <1>5, <2>1 DEF Ids
    <2>3. IsFiniteSet(Ids(es, b) \cup {n})
      BY FS_AddElement DEF RegistryInv
    <2> QED
      BY <2>2, <2>3, FS_Subset
  <1> QED
    BY <1>2, <1>3, <1>4, <1>6, <1>7, <1>8, <1>9 DEF RegistryInv, new, e2, b2

-----------------------------------------------------------------------------
(* The second half of a step: the call comes to the next plugin.           *)

CallOk(c, es) == c \in Calls /\ \A j \in DOMAIN c.todo : c.todo[j] \in DOMAIN es

CallsOk(cs, es) ==
  /\ cs \in Seq(Calls)
  /\ \A k \in DOMAIN cs : CallOk(cs[k], es) /\ cs[k].at \in DOMAIN es

\* Who was subscribed as he should be still is, p if no other call is at it.
Carried(p, es, b, small, e2, b2, big) ==
  \A q : Subscribed(q, es, b, small) /\ (q = p => Free(small, p))
           => Subscribed(q, e2, b2, big)

LEMMA EntersInv ==
  ASSUME NEW es, NEW b, RegistryInv(es, b), NEW small, NEW big, NEW i,
         NEW c \in Calls, NEW x, Inserted(big, small, i, x),
         NEW p \in DOMAIN es, x.at = p, x.kind = c.kind,
         c.kind = "initialize" => Initializable(es[p])
  PROVE  /\ DOMAIN Enters(c, p, es, b).entries = DOMAIN es
         /\ RegistryInv(Enters(c, p, es, b).entries, Enters(c, p, es, b).bus)
         /\ Carried(p, es, b, small, Enters(c, p, es, b).entries,
                    Enters(c, p, es, b).bus, big)
  <1> DEFINE e2 == Enters(c, p, es, b).entries
             b2 == Enters(c, p, es, b).bus
  <1>1. c.kind \in Kinds
    BY DEF Calls
  <1>2. \A q, kind : HeldFor(big, q, kind) <=>
                       HeldFor(small, q, kind) \/ (q = p /\ kind = c.kind)
    BY HeldKept
  <1>3. \A q : Alone(small, q) /\ (q = p => Free(small, p)) => Alone(big, q)
    BY AloneKept
  <1>4. Free(small, p) => \A kind : ~HeldFor(small, p, kind)
    BY DEF Free, HeldFor
  <1>5. CASE c.kind = "initialize"
    <2>0. "Loaded" \in States
      BY DEF States
    <2>1. e2 = InState(es, p, "Loaded") /\ b2 = b
      BY <1>5 DEF Enters, InState
    <2>2. /\ DOMAIN e2 = DOMAIN es /\ RegistryInv(e2, b)
          /\ e2[p].state = "Loaded"
          /\ \A q \in DOMAIN es \ {p} : e2[q] = es[q]
      BY <2>0, <2>1, StateSet
    <2>3. es[p].state # "Running"
      BY <1>5 DEF Initializable
    <2>4. ASSUME NEW q, q # p, Subscribed(q, es, b, small)
          PROVE  Subscribed(q, e2, b2, big)
      <3>1. RunsIn(q, e2, big) <=> RunsIn(q, es, small)
        BY <1>2, <2>2, <2>4 DEF RunsIn
      <3> QED
        BY <1>2, <1>3, <2>1, <2>2, <2>4, <3>1 DEF Subscribed
    <2>5. ASSUME Subscribed(p, es, b, small), Free(small, p)
          PROVE  Subscribed(p, e2, b2, big)
      BY <1>3, <2>1, <2>2, <2>3, <2>5 DEF Subscribed, RunsIn
    <2> QED
      BY <2>1, <2>2, <2>4, <2>5 DEF Carried
  <1>6. CASE c.kind = "shutdown"
    <2>1. e2 = Emptied(es, p) /\ b2 = Cleaned(es, b, p)
      BY <1>6 DEF Enters, Emptied, Cleaned
    <2>2. /\ DOMAIN e2 = DOMAIN es /\ RegistryInv(e2, b2)
          /\ \A q \in DOMAIN es : e2[q].state = es[q].state
          /\ Owned(b2, p) = {}
          /\ \A q : q # p => Owned(b2, q) = Owned(b, q)
      BY <2>1, TakenBack
    <2>3. ASSUME NEW q, q # p, Subscribed(q, es, b, small)
          PROVE  Subscribed(q, e2, b2, big)
      <3>1. RunsIn(q, e2, big) <=> RunsIn(q, es, small)
        BY <1>2, <2>2, <2>3 DEF RunsIn
      <3> QED
        BY <1>2, <1>3, <2>2, <2>3, <3>1 DEF Subscribed
    <2>4. ASSUME Subscribed(p, es, b, small), Free(small, p)
          PROVE  Subscribed(p, e2, b2, big)
      BY <1>2, <1>3, <1>4, <1>6, <2>2, <2>4 DEF Subscribed, RunsIn
    <2> QED
      BY <2>2, <2>3, <2>4 DEF Carried
  <1> QED
    BY <1>1, <1>5, <1>6 DEF Kinds

LEMMA ProceedsInv ==
  ASSUME NEW es, NEW b, NEW i \in 1..(Len(calls) + 1), NEW c,
         RegistryInv(es, b), CallOk(c, es),
         calls \in Seq(Calls), CallsOk(Without(calls, i), es),
         order \in Seq(DOMAIN es), Proceeds(i, c, es, b)
  PROVE  /\ DOMAIN entries' = DOMAIN es /\ RegistryInv(entries', bus')
         /\ CallsOk(calls', entries') /\ disturbed \subseteq disturbed'
         /\ \A q : q \notin disturbed'
                   /\ Subscribed(q, es, b, Without(calls, i))
                     => Subscribed(q, entries', bus', calls')
  <1> DEFINE js == Ahead(c, es)
             small == Without(calls, i)
  <1>1. CASE js = {}
    <2>1. /\ calls' = small /\ entries' = es /\ bus' = b
          /\ disturbed' = disturbed
      BY <1>1 DEF Proceeds, Without
    <2> QED
      BY <2>1
  <1>2. CASE js # {}
    <2> DEFINE j == CHOOSE k \in js : \A l \in js : k <= l
               p == IF c.kind = "initialize" THEN order[j] ELSE c.todo[j]
               x == [c EXCEPT !.pos = j, !.at = p]
    <2>1. js \in SUBSET Nat
      <3>1. c.pos \in Nat /\ Len(order) \in Nat /\ Len(c.todo) \in Nat
        BY DEF CallOk, Calls
      <3> QED
        BY <3>1 DEF Ahead
    <2>2. j \in js
      <3> HIDE DEF js
      <3>1. \E k \in js : \A l \in js : k <= l
        BY <1>2, <2>1, LeastNatural
      <3> QED
        BY <3>1, Zenon
    <2>3. /\ calls' = Replaced(calls, i, x)
          /\ entries' = Enters(c, p, es, b).entries
          /\ bus' = Enters(c, p, es, b).bus
          /\ disturbed' = disturbed \cup
               {q \in {p} : \E k \in DOMAIN calls \ {i} : calls[k].at = q}
      BY <1>2, Zenon DEF Proceeds, Replaced
    <2> HIDE DEF j
    <2>4. /\ p \in DOMAIN es
          /\ c.kind = "initialize" => Initializable(es[p])
      <3>1. c.pos \in Nat /\ Len(order) \in Nat /\ c.todo \in Seq(Plugins)
        BY DEF CallOk, Calls
      <3>2. CASE c.kind = "initialize"
        <4>1. j \in 1..Len(order) /\ Initializable(es[order[j]])
          BY <2>2, <3>1, <3>2 DEF Ahead
        <4> QED
          BY <3>2, <4>1
      <3>3. CASE c.kind # "initialize"
        <4>1. j \in 1..Len(c.todo)
          BY <2>2, <3>1, <3>3 DEF Ahead
        <4> QED
          BY <3>1, <3>3, <4>1 DEF CallOk
      <3> QED
        BY <3>2, <3>3
    <2> HIDE DEF p, js
    <2>5. /\ x \in Calls /\ x.at = p /\ x.kind = c.kind /\ x.todo = c.todo
          /\ CallOk(x, es)
      <3>1. j \in Nat /\ p \in Plugins
        BY <2>1, <2>2, <2>4 DEF RegistryInv
      <3> QED
        BY <3>1 DEF CallOk, Calls
    <2> HIDE DEF x
    <2>6. Inserted(calls', small, i, x)
      BY <2>3, <2>5, ReplacedOne
    <2> HIDE DEF small
    <2>7. /\ DOMAIN entries' = DOMAIN es /\ RegistryInv(entries', bus')
          /\ Carried(p, es, b, small, entries', bus', calls')
      <3>1. c \in Calls
        BY DEF CallOk
      <3> DEFINE e2 == Enters(c, p, es, b).entries
                 b2 == Enters(c, p, es, b).bus
      <3>2. /\ DOMAIN e2 = DOMAIN es /\ RegistryInv(e2, b2)
            /\ Carried(p, es, b, small, e2, b2, calls')
        BY <2>4, <2>5, <2>6, <3>1, EntersInv
      <3> QED
        BY <2>3, <3>2
    <2>8. p \notin disturbed' => Free(small, p)
      <3> SUFFICES ASSUME NEW l \in DOMAIN small, small[l].at = p,
                          p \notin disturbed'
                   PROVE  FALSE
        BY DEF Free
      <3>1. \A k \in DOMAIN calls \ {i} : calls[k].at # p
        BY <2>3
      <3>2. CASE i \in 1..Len(calls)
        <4>1. Inserted(calls, small, i, calls[i])
          BY <3>2, WithoutOne DEF small
        <4>2. /\ Up(i, l) \in DOMAIN calls \ {i}
              /\ calls[Up(i, l)] = small[l]
          BY <4>1, Places
        <4> QED
          BY <3>1, <4>2
      <3>3. CASE i = Len(calls) + 1
        <4>1. small = calls /\ i \notin DOMAIN calls
          BY <3>3, WithoutNone DEF small
        <4> QED
          BY <3>1, <4>1
      <3> QED
        BY <3>2, <3>3
    <2>9. CallsOk(calls', entries')
      <3> SUFFICES ASSUME NEW k \in DOMAIN calls'
                   PROVE  CallOk(calls'[k], es) /\ calls'[k].at \in DOMAIN es
        BY <2>6, <2>7 DEF CallsOk, CallOk, Inserted
      <3>1. CASE k = i
        BY <2>4, <2>5, <2>6, <3>1, Places
      <3>2. CASE k # i
        <4>1. PICK l \in DOMAIN small : calls'[k] = small[l]
          BY <2>6, <3>2, Places
        <4> QED
          BY <4>1 DEF CallsOk, small
      <3> QED
        BY <3>1, <3>2
    <2> QED
      BY <2>3, <2>7, <2>8, <2>9 DEF Carried, small
  <1> QED
    BY <1>1, <1>2

-----------------------------------------------------------------------------
(* The first half: the call leaves the plugin it waited for.               *)

PluginsInv ==
  /\ order \in Seq(DOMAIN entries) /\ CallsOk(calls, entries)
  /\ RegistryInv(entries, bus)
  /\ \A p \in Plugins \ disturbed : Subscribed(p, entries, bus, calls)

\* Call i leaves plugin p, and es and b are left of the registry and the bus.
LEMMA LeavesInv ==
  ASSUME PluginsInv, NEW i \in DOMAIN calls, NEW p, p = calls[i].at,
         NEW es, NEW b, RegistryInv(es, b), DOMAIN es = DOMAIN entries,
         \A q \in DOMAIN entries \ {p} : es[q] = entries[q],
         \A q : q # p => Owned(b, q) = Owned(bus, q),
         \/ p \in disturbed
         \/ IF es[p].state = "Running"
              THEN \E s : Owned(b, p) = {s} ELSE Owned(b, p) = {},
         Proceeds(i, calls[i], es, b), order' = order
  PROVE  PluginsInv'
  <1> DEFINE small == Without(calls, i)
  <1>1. /\ calls \in Seq(Calls) /\ i \in 1..(Len(calls) + 1)
        /\ CallOk(calls[i], es) /\ p \in DOMAIN entries
    BY DEF PluginsInv, CallsOk, CallOk
  <1>2. Inserted(calls, small, i, calls[i])
    BY <1>1, WithoutOne
  <1> HIDE DEF small
  <1>3. CallsOk(small, es)
    <2>1. \A l \in DOMAIN small : \E k \in DOMAIN calls : small[l] = calls[k]
      BY <1>2, Places
    <2> QED
      BY <1>2, <2>1 DEF PluginsInv, CallsOk, CallOk, Inserted
  <1>4. /\ DOMAIN entries' = DOMAIN es /\ RegistryInv(entries', bus')
        /\ CallsOk(calls', entries') /\ disturbed \subseteq disturbed'
        /\ \A q : q \notin disturbed' /\ Subscribed(q, es, b, small)
                    => Subscribed(q, entries', bus', calls')
    BY <1>1, <1>3, ProceedsInv DEF PluginsInv, small
  <1>5. ASSUME NEW q \in Plugins, q \notin disturbed
        PROVE  Subscribed(q, es, b, small)
    <2>1. Subscribed(q, entries, bus, calls)
      BY <1>5 DEF PluginsInv
    <2>2. Alone(small, q) /\ (q = p => Free(small, q))
      BY <1>2, <2>1, AloneKept DEF Subscribed
    <2>3. CASE q = p
      <3>1. \A kind : ~HeldFor(small, p, kind)
        BY <2>2, <2>3 DEF Free, HeldFor
      <3> QED
        BY <1>1, <1>5, <2>2, <2>3, <3>1 DEF Subscribed, RunsIn
    <2>4. CASE q # p
      <3>1. \A kind : HeldFor(calls, q, kind) <=> HeldFor(small, q, kind)
        BY <1>2, <2>4, HeldKept
      <3>2. RunsIn(q, entries, calls) <=> RunsIn(q, es, small)
        BY <2>4, <3>1 DEF RunsIn
      <3> QED
        BY <2>1, <2>2, <2>4, <3>1, <3>2 DEF Subscribed
    <2> QED
      BY <2>3, <2>4
  <1> QED
    BY <1>4, <1>5 DEF PluginsInv

-----------------------------------------------------------------------------
(* Each action.                                                            *)

LEMMA PluginsInitInv == PluginsInit => PluginsInv
  <1> SUFFICES ASSUME PluginsInit PROVE PluginsInv
    OBVIOUS
  <1>1. entries = << >> /\ order = << >> /\ bus = {} /\ calls = << >>
    BY DEF PluginsInit
  <1>2. DOMAIN entries = {} /\ DOMAIN calls = {}
    BY <1>1
  <1>3. CallsOk(calls, entries)
    BY <1>1, <1>2 DEF CallsOk
  <1>4. RegistryInv(entries, bus)
    <2>1. Ids(entries, bus) = {}
      BY <1>1, <1>2 DEF Ids
    <2>2. entries \in [DOMAIN entries -> RegistryEntry]
      BY <1>1, <1>2
    <2> QED
      BY <1>1, <1>2, <2>1, <2>2, FS_EmptySet DEF RegistryInv, Tracked, Apart
  <1>5. \A p : Subscribed(p, entries, bus, calls)
    BY <1>1, <1>2 DEF Subscribed, Alone, HeldFor, RunsIn, Owned
  <1> QED
    BY <1>1, <1>3, <1>4, <1>5 DEF PluginsInv

LEMMA LoadInv ==
  ASSUME PluginsInv, NEW p \in Plugins, LoadPlugin(p)
  PROVE  PluginsInv'
  <1>1. bus' = bus /\ calls' = calls /\ disturbed' = disturbed
    BY DEF LoadPlugin
  <1>2. CASE p \in DOMAIN entries
    <2>1. entries' = entries /\ order' = order
      BY <1>2 DEF LoadPlugin, Register, Registered
    <2> QED
      BY <1>1, <2>1 DEF PluginsInv
  <1>3. CASE p \notin DOMAIN entries
    <2>1. entries' = With(p) /\ order' = Append(order, p)
      BY <1>3 DEF LoadPlugin, Register, Registered
    <2>2. /\ DOMAIN entries' = DOMAIN entries \cup {p}
          /\ entries'[p] = NewEntry
          /\ \A q \in DOMAIN entries : entries'[q] = entries[q]
      BY <1>3, <2>1 DEF With, Registered
    <2>3. /\ NewEntry \in RegistryEntry /\ NewEntry.subscriptions = {}
          /\ NewEntry.state = "Validated"
      BY DEF NewEntry, RegistryEntry, States
    <2>4. order' \in Seq(DOMAIN entries')
      BY <2>1, <2>2 DEF PluginsInv
    <2>5. RegistryInv(entries', bus')
      <3>1. entries' \in [DOMAIN entries' -> RegistryEntry]
        BY <2>1, <2>2, <2>3 DEF With, PluginsInv, RegistryInv
      <3>2. Ids(entries', bus') = Ids(entries, bus)
        BY <1>1, <2>2, <2>3 DEF Ids
      <3>3. Tracked(entries', bus') /\ Apart(entries')
        BY <1>1, <2>2, <2>3 DEF PluginsInv, RegistryInv, Tracked, Apart
      <3> QED
        BY <2>2, <3>1, <3>2, <3>3 DEF PluginsInv, RegistryInv
    <2>6. CallsOk(calls', entries')
      BY <1>1, <2>2 DEF PluginsInv, CallsOk, CallOk
    <2>7. \A kind : ~HeldFor(calls, p, kind)
      BY <1>3 DEF HeldFor, PluginsInv, CallsOk
    <2>8. ASSUME NEW q \in Plugins \ disturbed
          PROVE  Subscribed(q, entries', bus', calls')
      <3>1. Subscribed(q, entries, bus, calls)
        BY <2>8 DEF PluginsInv
      <3>2. CASE q = p
        BY <1>1, <1>3, <2>2, <2>3, <2>7, <3>1, <3>2 DEF Subscribed, RunsIn
      <3>3. CASE q # p
        BY <1>1, <2>2, <3>1, <3>3 DEF Subscribed, RunsIn
      <3> QED
        BY <3>2, <3>3
    <2> QED
      BY <1>1, <2>4, <2>5, <2>6, <2>8 DEF PluginsInv
  <1> QED
    BY <1>2, <1>3

\* A call of the registry begins.
LEMMA BeginInv ==
  ASSUME PluginsInv, NEW c, CallOk(c, entries), Begin(c)
  PROVE  PluginsInv'
  <1> DEFINE i == Len(calls) + 1
  <1>1. calls \in Seq(Calls) /\ i \in 1..(Len(calls) + 1)
    BY DEF PluginsInv, CallsOk
  <1>2. Without(calls, i) = calls
    BY <1>1, WithoutNone
  <1>3. Proceeds(i, c, entries, bus) /\ order' = order
    BY DEF Begin
  <1> HIDE DEF i
  <1>4. /\ DOMAIN entries' = DOMAIN entries /\ RegistryInv(entries', bus')
        /\ CallsOk(calls', entries') /\ disturbed \subseteq disturbed'
        /\ \A q : q \notin disturbed' /\ Subscribed(q, entries, bus, calls)
                    => Subscribed(q, entries', bus', calls')
    BY <1>1, <1>2, <1>3, ProceedsInv DEF PluginsInv
  <1> QED
    BY <1>3, <1>4 DEF PluginsInv

LEMMA CallIsOk ==
  ASSUME PluginsInv, NEW kind \in Kinds, NEW todo \in Seq(DOMAIN entries)
  PROVE  CallOk(Call(kind, todo), entries)
  <1>1. todo \in Seq(Plugins)
    BY DEF PluginsInv, RegistryInv
  <1> QED
    BY <1>1 DEF Call, CallOk, Calls

LEMMA CallsBegin ==
  ASSUME PluginsInv,
         \/ InitializeAll \/ ShutdownAll
         \/ \E p \in Plugins : Shutdown(p)
  PROVE  PluginsInv'
  <1>1. CASE InitializeAll
    <2>1. << >> \in Seq(DOMAIN entries) /\ "initialize" \in Kinds
      BY DEF Kinds
    <2> QED
      BY <1>1, <2>1, CallIsOk, BeginInv DEF InitializeAll
  <1>2. CASE ShutdownAll
    <2>1. Reverse(order) \in Seq(DOMAIN entries) /\ "shutdown" \in Kinds
      <3>1. /\ order \in Seq(DOMAIN entries) /\ Len(order) \in Nat
            /\ \A k \in 1..Len(order) : order[k] \in DOMAIN entries
        BY DEF PluginsInv
      <3>2. \A k \in 1..Len(order) : (Len(order) - k) + 1 \in 1..Len(order)
        BY <3>1
      <3> QED
        BY <3>1, <3>2 DEF Reverse, Kinds
    <2> QED
      BY <1>2, <2>1, CallIsOk, BeginInv DEF ShutdownAll
  <1>3. ASSUME NEW p \in Plugins, Shutdown(p)
        PROVE  PluginsInv'
    <2>1. <<p>> \in Seq(DOMAIN entries) /\ "shutdown" \in Kinds
      BY <1>3 DEF Shutdown, Registered, Kinds
    <2> QED
      BY <1>3, <2>1, CallIsOk, BeginInv DEF Shutdown
  <1> QED
    BY <1>1, <1>2, <1>3

\* What a call under way tells of its plugin.
LEMMA PluginHeld ==
  ASSUME PluginsInv, NEW i \in DOMAIN calls
  PROVE  /\ calls[i].at \in DOMAIN entries
         /\ calls[i].at \notin disturbed =>
              /\ Owned(bus, calls[i].at) = {}
              /\ calls[i].kind = "initialize" =>
                   entries[calls[i].at].state = "Loaded"
  <1> DEFINE p == calls[i].at
  <1>1. p \in DOMAIN entries /\ calls[i].kind \in Kinds /\ p \in Plugins
    BY DEF PluginsInv, CallsOk, CallOk, Calls, RegistryInv
  <1>2. HeldFor(calls, p, calls[i].kind)
    BY DEF HeldFor
  <1>3. ASSUME p \notin disturbed
        PROVE  /\ Owned(bus, p) = {}
               /\ calls[i].kind = "initialize" => entries[p].state = "Loaded"
    <2>1. Subscribed(p, entries, bus, calls)
      BY <1>1, <1>3 DEF PluginsInv
    <2> HIDE DEF p
    <2> QED
      BY <1>1, <1>2, <2>1 DEF Subscribed, RunsIn, Kinds
  <1> QED
    BY <1>1, <1>3

LEMMA InitializedInv ==
  ASSUME PluginsInv, NEW i \in DOMAIN calls, Initialized(i)
  PROVE  PluginsInv'
  <1> DEFINE p == calls[i].at
             es == Tagged(entries, p, FreshId)
             b == Joined(bus, p, FreshId)
  <1>1. /\ p \in DOMAIN entries
        /\ p \notin disturbed => Owned(bus, p) = {}
    BY PluginHeld
  <1>2. /\ Proceeds(i, calls[i], es, b) /\ order' = order
    BY DEF Initialized, Tagged, Joined
  <1>3. FreshId \in Int /\ FreshId \notin Ids(entries, bus)
    <2>1. Held = Ids(entries, bus)
      BY DEF Held, Ids, Registered
    <2> QED
      BY <2>1, FreshIdIsFresh DEF PluginsInv, RegistryInv
  <1> HIDE DEF p
  <1>4. /\ DOMAIN es = DOMAIN entries /\ RegistryInv(es, b)
        /\ es[p].state = "Running"
        /\ \A q \in DOMAIN entries \ {p} : es[q] = entries[q]
        /\ Owned(b, p) = Owned(bus, p) \cup {[id |-> FreshId, owner |-> p]}
        /\ \A q : q # p => Owned(b, q) = Owned(bus, q)
    BY <1>1, <1>3, SubscribedAnew DEF PluginsInv
  <1> HIDE DEF es, b
  <1>5. \/ p \in disturbed
        \/ IF es[p].state = "Running"
             THEN \E s : Owned(b, p) = {s} ELSE Owned(b, p) = {}
    BY <1>1, <1>4
  <1> QED
    BY <1>2, <1>4, <1>5, LeavesInv DEF p

\* The call leaves its plugin in a state it does not run in.
LEMMA StopsInv ==
  ASSUME PluginsInv, NEW i \in DOMAIN calls, NEW state \in {"Error", "Shutdown"},
         Proceeds(i, calls[i], InState(entries, calls[i].at, state), bus),
         order' = order
  PROVE  PluginsInv'
  <1> DEFINE p == calls[i].at
             es == InState(entries, p, state)
  <1>1. /\ p \in DOMAIN entries
        /\ p \notin disturbed => Owned(bus, p) = {}
    BY PluginHeld
  <1>2. state \in States /\ state # "Running"
    BY DEF States
  <1>3. Proceeds(i, calls[i], es, bus)
    OBVIOUS
  <1> HIDE DEF p
  <1>4. /\ DOMAIN es = DOMAIN entries /\ RegistryInv(es, bus)
        /\ es[p].state = state
        /\ \A q \in DOMAIN entries \ {p} : es[q] = entries[q]
    BY <1>1, <1>2, StateSet DEF PluginsInv
  <1> HIDE DEF es
  <1>5. \/ p \in disturbed
        \/ IF es[p].state = "Running"
             THEN \E s : Owned(bus, p) = {s} ELSE Owned(bus, p) = {}
    BY <1>1, <1>2, <1>4
  <1> QED
    BY <1>3, <1>4, <1>5, LeavesInv DEF p

LEMMA UnsubscribeAllInv ==
  ASSUME PluginsInv, NEW p \in Plugins, UnsubscribeAll(p)
  PROVE  PluginsInv'
  <1>1. /\ entries' = entries /\ order' = order /\ calls' = calls /\ bus' = {}
        /\ disturbed' = disturbed \cup {s.owner : s \in bus}
    BY DEF UnsubscribeAll
  <1>2. RegistryInv(entries', bus')
    <2>1. Ids(entries, {}) \in SUBSET Ids(entries, bus)
      BY DEF Ids
    <2>2. IsFiniteSet(Ids(entries, {}))
      BY <2>1, FS_Subset DEF PluginsInv, RegistryInv
    <2> QED
      BY <1>1, <2>2 DEF PluginsInv, RegistryInv, Tracked
  <1>3. ASSUME NEW q \in Plugins \ disturbed'
        PROVE  Subscribed(q, entries', bus', calls')
    <2>1. Subscribed(q, entries, bus, calls) /\ Owned(bus, q) = {}
      BY <1>1, <1>3 DEF PluginsInv, Owned
    <2>2. Owned({}, q) = {}
      BY DEF Owned
    <2>3. ~RunsIn(q, entries, calls)
      BY <2>1 DEF Subscribed
    <2> QED
      BY <1>1, <2>1, <2>2, <2>3 DEF Subscribed
  <1> QED
    BY <1>1, <1>2, <1>3 DEF PluginsInv

LEMMA PluginsStep ==
  ASSUME PluginsInv, PluginsNext
  PROVE  PluginsInv'
  <1>1. ASSUME NEW p \in Plugins, SubscribeItself(p)
        PROVE  PluginsInv'
    BY <1>1 DEF SubscribeItself, PluginsInv
  <1>2. ASSUME NEW i \in DOMAIN calls, InitializationFails(i)
        PROVE  PluginsInv'
    BY <1>2, StopsInv DEF InitializationFails, InState
  <1>3. ASSUME NEW i \in DOMAIN calls, ShutDown(i)
        PROVE  PluginsInv'
    BY <1>3, StopsInv DEF ShutDown, InState
  <1>4. CASE EmitOnce \/ EmitBridged
    BY <1>4 DEF EmitOnce, EmitBridged, Dispatch, PluginsInv
  <1> QED
    BY <1>1, <1>2, <1>3, <1>4, LoadInv, CallsBegin, InitializedInv,
       UnsubscribeAllInv DEF PluginsNext

-----------------------------------------------------------------------------
(* What the plugins hear.                                                  *)

LEMMA RunsAsIn ==
  ASSUME PluginsInv, NEW p
  PROVE  Runs(p) <=> RunsIn(p, entries, calls)
  <1>1. \A k \in DOMAIN calls : calls[k].kind \in Kinds
    BY DEF PluginsInv, CallsOk, CallOk, Calls
  <1> QED
    BY <1>1 DEF Runs, RunsIn, HeldFor, Registered, Kinds

LEMMA DispatchHeard ==
  ASSUME PluginsInv, EventsHeardAsDue, NEW times \in Nat, Dispatch(times)
  PROVE  EventsHeardAsDue'
  <1>1. /\ heard' = [p \in Plugins |->
                       heard[p] + times * Cardinality(Owned(bus, p))]
        /\ due' = [p \in Plugins |-> due[p] + IF Runs(p) THEN times ELSE 0]
        /\ disturbed' = disturbed
    BY DEF Dispatch, Owned
  <1>2. ASSUME NEW p \in Plugins \ disturbed
        PROVE  times * Cardinality(Owned(bus, p))
                 = IF Runs(p) THEN times ELSE 0
    <2>1. Subscribed(p, entries, bus, calls)
      BY <1>2 DEF PluginsInv
    <2>2. Runs(p) <=> RunsIn(p, entries, calls)
      BY RunsAsIn
    <2>3. CASE Runs(p)
      <3>1. \E s : Owned(bus, p) = {s}
        BY <2>1, <2>2, <2>3 DEF Subscribed
      <3>2. Cardinality(Owned(bus, p)) = 1
        BY <3>1, FS_Singleton
      <3> QED
        BY <2>3, <3>2
    <2>4. CASE ~Runs(p)
      <3>1. Cardinality(Owned(bus, p)) = 0
        BY <2>1, <2>2, <2>4, FS_EmptySet DEF Subscribed
      <3> QED
        BY <2>4, <3>1
    <2> QED
      BY <2>3, <2>4
  <1> QED
    BY <1>1, <1>2 DEF EventsHeardAsDue

LEMMA DisturbedGrows ==
  ASSUME PluginsNext
  PROVE  disturbed \subseteq disturbed'
  <1>1. ASSUME NEW i, NEW c, NEW es, NEW b, Proceeds(i, c, es, b)
        PROVE  disturbed \subseteq disturbed'
    <2>1. CASE Ahead(c, es) = {}
      BY <1>1, <2>1 DEF Proceeds
    <2>2. CASE Ahead(c, es) # {}
      BY <1>1, <2>2 DEF Proceeds
    <2> QED
      BY <2>1, <2>2
  <1>2. ASSUME NEW p \in Plugins,
               LoadPlugin(p) \/ SubscribeItself(p) \/ UnsubscribeAll(p)
        PROVE  disturbed \subseteq disturbed'
    BY <1>2 DEF LoadPlugin, SubscribeItself, UnsubscribeAll
  <1>3. ASSUME NEW c, Begin(c)
        PROVE  disturbed \subseteq disturbed'
    BY <1>1, <1>3 DEF Begin
  <1>4. CASE EmitOnce \/ EmitBridged
    BY <1>4 DEF EmitOnce, EmitBridged, Dispatch
  <1>5. ASSUME NEW i, Initialized(i) \/ InitializationFails(i) \/ ShutDown(i)
        PROVE  disturbed \subseteq disturbed'
    BY <1>1, <1>5 DEF Initialized, InitializationFails, ShutDown
  <1> QED
    BY <1>2, <1>3, <1>4, <1>5
       DEF PluginsNext, Shutdown, InitializeAll, ShutdownAll

LEMMA HeardStep ==
  ASSUME PluginsInv, EventsHeardAsDue, PluginsNext
  PROVE  EventsHeardAsDue'
  <1>1. CASE EmitOnce
    BY <1>1, DispatchHeard DEF EmitOnce
  <1>2. CASE EmitBridged
    BY <1>2, DispatchHeard DEF EmitBridged
  <1>3. CASE ~(EmitOnce \/ EmitBridged)
    <2>1. UNCHANGED events
      BY <1>3 DEF PluginsNext, LoadPlugin, Shutdown, SubscribeItself,
         UnsubscribeAll, InitializeAll, ShutdownAll, Begin, Initialized,
         InitializationFails, ShutDown
    <2> QED
      BY <2>1, DisturbedGrows DEF events, EventsHeardAsDue
  <1> QED
    BY <1>1, <1>2, <1>3

-----------------------------------------------------------------------------

(***************************************************************************)
(* For any plugins and any number of overlapping calls: a subscription the *)
(* registry made is, while it is on the bus, in its owner's entry, and it  *)
(* outlives its plugin only if two calls were at the plugin at once.       *)
(***************************************************************************)
THEOREM SubscriptionsAreTracked == RuntimeSpec => []SubscriptionsTracked
  <1>1. RuntimeInit => PluginsInv
    BY PluginsInitInv DEF RuntimeInit
  <1>2. PluginsInv /\ [RuntimeNext]_<<exercised, pluginVars, realtimeVars,
                        paymentVars, ballot, specialistVars, elicitationVars,
                        bridgeVars>> => PluginsInv'
    <2> SUFFICES ASSUME PluginsInv, PluginsNext \/ UNCHANGED pluginVars
                 PROVE  PluginsInv'
      BY DEF RuntimeNext
    <2>1. CASE UNCHANGED pluginVars
      BY <2>1 DEF pluginVars, PluginsInv
    <2> QED
      BY <2>1, PluginsStep
  <1>3. PluginsInv => SubscriptionsTracked
    <2> SUFFICES ASSUME PluginsInv, NEW s \in bus
                 PROVE  /\ s.owner \in Registered
                        /\ s.id \in entries[s.owner].subscriptions
                        /\ s.owner \notin disturbed => Runs(s.owner)
      BY DEF SubscriptionsTracked
    <2>1. /\ s.owner \in DOMAIN entries /\ s.owner \in Plugins
          /\ s.id \in entries[s.owner].subscriptions
      BY DEF PluginsInv, RegistryInv, Tracked
    <2>2. ASSUME s.owner \notin disturbed PROVE Runs(s.owner)
      <3>1. Subscribed(s.owner, entries, bus, calls)
        BY <2>1, <2>2 DEF PluginsInv
      <3>2. Owned(bus, s.owner) # {}
        BY DEF Owned
      <3>3. RunsIn(s.owner, entries, calls)
        BY <3>1, <3>2 DEF Subscribed
      <3> QED
        BY <3>3, RunsAsIn
    <2> QED
      BY <2>1, <2>2 DEF Registered
  <1> QED
    BY <1>1, <1>2, <1>3, PTL DEF RuntimeSpec

(***************************************************************************)
(* A plugin hears every event that is dispatched while it runs once, and   *)
(* none before or after, unless two calls were at it at the same time or   *)
(* another plugin cleared the bus.                                         *)
(***************************************************************************)
THEOREM PluginsHearTheirEvents == RuntimeSpec => []EventsHeardAsDue
  <1> DEFINE IInv == PluginsInv /\ EventsHeardAsDue
  <1>1. RuntimeInit => IInv
    <2>1. PluginsInit => EventsHeardAsDue
      BY DEF PluginsInit, EventsHeardAsDue
    <2> QED
      BY <2>1, PluginsInitInv DEF RuntimeInit
  <1>2. IInv /\ [RuntimeNext]_<<exercised, pluginVars, realtimeVars,
                   paymentVars, ballot, specialistVars, elicitationVars,
                   bridgeVars>> => IInv'
    <2> SUFFICES ASSUME IInv, PluginsNext \/ UNCHANGED pluginVars
                 PROVE  IInv'
      BY DEF RuntimeNext
    <2>1. CASE UNCHANGED pluginVars
      BY <2>1 DEF pluginVars, PluginsInv, EventsHeardAsDue
    <2> QED
      BY <2>1, PluginsStep, HeardStep
  <1> QED
    BY <1>1, <1>2, PTL DEF RuntimeSpec

-----------------------------------------------------------------------------
(* Tasks of the specialists.  What is said of a job at work: nothing has   *)
(* been answered yet, only a failure that was absorbed is noted as one,    *)
(* and the two agents without a store leave no task behind.                *)

IsJob(j) ==
  j \in [phase : {j.phase}, agent : {j.agent}, topic : {j.topic},
         doing : {j.doing}, reporting : {j.reporting}, found : {j.found},
         task : {j.task}, said : {j.said}, artifact : {j.artifact},
         handsTo : {j.handsTo}, cause : {j.cause}]

Storeless == {"scientist", "llm"}

Ready(j) ==
  /\ j.phase = "working" /\ j.said = 0
  /\ j.agent \in Storeless =>
       j.task = "none" /\ j.cause = "none" /\ j.topic # "malformed"
  /\ j.agent \notin Storeless =>
       (j.task = "failed" <=> j.cause \in {"disk", "input"})

\* What TasksEndAnswered says of one job.
Ended(j) ==
  /\ j.phase = "answered" =>
       IF j.agent \in Storeless
       THEN j.task = "none"
       ELSE /\ j.said = 1
            /\ j.task = IF j.cause \in {"disk", "input"}
                        THEN "failed" ELSE "completed"
  /\ j.phase = "threw" => j.cause = "disk" \/ j.agent = "llm"
  /\ j.phase = "lost" =>
       \/ j.cause = "timeout"
       \/ j.cause = "sigterm" /\ j.agent \in RunAgents

JobInOrder(j) == IsJob(j) /\ (j.phase = "working" => Ready(j)) /\ Ended(j)

JobsInv == /\ DOMAIN job = Tasks /\ job = [t \in Tasks |-> job[t]]
           /\ DOMAIN process \subseteq Served
           /\ \A t \in Tasks : JobInOrder(job[t])

LEMMA JobsInit ==
  ASSUME SpecialistsInit
  PROVE  JobsInv
  <1>1. JobInOrder(Idle)
    BY DEF Idle, JobInOrder, IsJob, Ended
  <1> QED
    BY <1>1 DEF SpecialistsInit, JobsInv

LEMMA AnsweredInOrder ==
  ASSUME NEW j, IsJob(j), Ready(j)
  PROVE  JobInOrder(Answered(j))
  <1>1. /\ Answered(j).phase = "answered" /\ Answered(j).agent = j.agent
        /\ Answered(j).cause = j.cause
        /\ j.agent \in Storeless => Answered(j).task = j.task
        /\ j.agent \notin Storeless =>
             /\ Answered(j).said = j.said + 1
             /\ Answered(j).task = IF j.task # "failed" THEN "completed"
                                                        ELSE "failed"
    BY DEF IsJob, Answered, Storeless
  <1>2. IsJob(Answered(j))
    BY DEF IsJob, Answered
  <1> QED
    BY <1>1, <1>2 DEF JobInOrder, Ready, Ended

LEMMA ThrownInOrder ==
  ASSUME NEW j, IsJob(j), NEW cause, cause = "disk" \/ j.agent = "llm"
  PROVE  JobInOrder(Thrown(j, cause)) /\ Thrown(j, cause).phase = "threw"
  <1>1. /\ Thrown(j, cause).phase = "threw"
        /\ Thrown(j, cause).cause = cause /\ Thrown(j, cause).agent = j.agent
        /\ IsJob(Thrown(j, cause))
    BY DEF IsJob, Thrown
  <1> QED
    BY <1>1 DEF JobInOrder, Ended

\* A document that cannot be written ends the job, or leaves it at work with
\* the failure noted.
LEMMA SavedInOrder ==
  ASSUME NEW j, IsJob(j), Ready(j), NEW slug, NEW o \in Saved(j, slug)
  PROVE  /\ JobInOrder(o.job)
         /\ o.job.phase = "threw" \/ (IsJob(o.job) /\ Ready(o.job))
  <1> DEFINE d == [j EXCEPT !.task = "failed", !.cause = "disk"]
  <1>1. CASE o.job = j
    BY <1>1 DEF JobInOrder, Ready, Ended
  <1>2. CASE o.job = Thrown(j, "disk")
    BY <1>2, ThrownInOrder
  <1>3. CASE j.agent = "verification" /\ o.job = d
    <2>1. /\ IsJob(d) /\ d.phase = j.phase /\ d.said = j.said
          /\ d.agent = j.agent /\ d.task = "failed" /\ d.cause = "disk"
      BY DEF IsJob
    <2> HIDE DEF d
    <2> QED
      BY <1>3, <2>1 DEF JobInOrder, Ready, Ended, Storeless
  <1> QED
    BY <1>1, <1>2, <1>3 DEF Saved, Done

LEMMA GoesInOrder ==
  ASSUME NEW j, IsJob(j), Ready(j), NEW o \in Goes(j)
  PROVE  JobInOrder(o.job)
  <1> DEFINE report == [j EXCEPT !.reporting = TRUE,
                          !.doing = << <<"memory">> \o IF j.found THEN <<"board">>
                                                       ELSE << >> >>]
             bad == [j EXCEPT !.task = "failed", !.cause = "input"]
  <1>1. CASE o.job = j
    BY <1>1 DEF JobInOrder, Ready, Ended
  <1>2. CASE o.job = report
    <2>1. /\ IsJob(report) /\ report.phase = j.phase /\ report.said = j.said
          /\ report.agent = j.agent /\ report.task = j.task
          /\ report.cause = j.cause /\ report.topic = j.topic
      BY DEF IsJob
    <2> HIDE DEF report
    <2> QED
      BY <1>2, <2>1 DEF JobInOrder, Ready, Ended
  <1>3. CASE j.topic = "malformed" /\ o.job = Answered(bad)
    <2>1. /\ IsJob(bad) /\ bad.phase = j.phase /\ bad.said = j.said
          /\ bad.agent = j.agent /\ bad.task = "failed"
          /\ bad.cause = "input"
      BY DEF IsJob
    <2> HIDE DEF bad
    <2>2. Ready(bad)
      BY <1>3, <2>1 DEF Ready
    <2> QED
      BY <1>3, <2>1, <2>2, AnsweredInOrder
  <1>4. CASE o.job = Answered(j)
    BY <1>4, AnsweredInOrder
  <1>5. CASE \E s \in Slugs(j) : \E w \in Saved(j, s) :
               o.job = IF w.job.phase = "threw" THEN w.job ELSE Answered(w.job)
    BY <1>5, SavedInOrder, AnsweredInOrder
  <1> HIDE DEF report, bad
  <1>6. \/ o.job = j
        \/ o.job = report
        \/ j.topic = "malformed" /\ o.job = Answered(bad)
        \/ o.job = Answered(j)
        \/ \E s \in Slugs(j) : \E w \in Saved(j, s) :
             o.job = IF w.job.phase = "threw" THEN w.job ELSE Answered(w.job)
    <2>1. CASE ~AllDone(j)
      BY <2>1 DEF Goes, Done
    <2>2. CASE AllDone(j) /\ j.topic = "steward" /\ ~j.reporting
      BY <2>2 DEF Goes, Done, report
    <2>3. CASE AllDone(j) /\ ~(j.topic = "steward" /\ ~j.reporting)
      BY <2>3 DEF Goes, Done, bad
    <2> QED
      BY <2>1, <2>2, <2>3
  <1> QED
    BY <1>1, <1>2, <1>3, <1>4, <1>5, <1>6

\* The step gives one job an outcome that is in order.
LEMMA OneJobMoves ==
  ASSUME JobsInv, NEW t \in Tasks, NEW j, JobInOrder(j),
         job' = [job EXCEPT ![t] = j], UNCHANGED process
  PROVE  JobsInv'
  <1>1. /\ DOMAIN job' = Tasks /\ job' = [u \in Tasks |-> job'[u]]
        /\ \A u \in Tasks : job'[u] = IF u = t THEN j ELSE job[u]
    BY DEF JobsInv
  <1> QED
    BY <1>1 DEF JobsInv

LEMMA BecomesInOrder ==
  ASSUME JobsInv, NEW t \in Tasks, NEW outcomes, Becomes(t, outcomes),
         \A o \in outcomes : JobInOrder(o.job), UNCHANGED process
  PROVE  JobsInv'
  BY OneJobMoves DEF Becomes

LEMMA OnTaskInv ==
  ASSUME JobsInv, NEW t \in Tasks, NEW a \in DOMAIN process,
         NEW topic \in DOMAIN Awaits[a], OnTask(t, a, topic)
  PROVE  JobsInv'
  <1>1. a \in DOMAIN Awaits /\ (a \in Storeless => topic # "malformed")
    <2>1. a \in DOMAIN Awaits
      BY SpecialistsAssumption DEF JobsInv
    <2>2. a = "scientist" => topic # "malformed"
      BY DEF Awaits, ScientistAwaits, ExplorerAwaits
    <2>3. a = "llm" => topic # "malformed"
      BY DEF Awaits, LlmAwaits
    <2> QED
      BY <2>1, <2>2, <2>3 DEF Storeless
  <1>2. PICK p \in Awaits[a][topic], found \in BOOLEAN :
          LET j == [Idle EXCEPT !.phase = "working", !.agent = a,
                      !.topic = topic, !.doing = p,
                      !.task = IF a \in {"fixer", "librarian", "jarvis"}
                               THEN "working"
                               ELSE IF a \in {"scientist", "llm"} THEN "none"
                               ELSE "submitted",
                      !.found = found /\ topic = "inputs"]
          IN Becomes(t, IF a = "librarian"
                        THEN UNION {Saved(j, s) : s \in Slugs(j)} ELSE Goes(j))
    BY DEF OnTask
  <1> DEFINE j == [Idle EXCEPT !.phase = "working", !.agent = a,
                     !.topic = topic, !.doing = p,
                     !.task = IF a \in {"fixer", "librarian", "jarvis"}
                              THEN "working"
                              ELSE IF a \in {"scientist", "llm"} THEN "none"
                              ELSE "submitted",
                     !.found = found /\ topic = "inputs"]
  <1>3. /\ IsJob(j) /\ j.phase = "working" /\ j.agent = a /\ j.topic = topic
        /\ j.said = 0 /\ j.cause = "none"
        /\ j.task \in {"working", "none", "submitted"}
        /\ a \in Storeless => j.task = "none"
    BY DEF Idle, IsJob, Storeless
  <1>4. Becomes(t, IF a = "librarian"
                   THEN UNION {Saved(j, s) : s \in Slugs(j)} ELSE Goes(j))
    BY <1>2
  <1>5. UNCHANGED process
    BY DEF OnTask
  <1> HIDE DEF j
  <1>6. Ready(j)
    BY <1>1, <1>3 DEF Ready
  <1>7. /\ \A s : \A o \in Saved(j, s) : JobInOrder(o.job)
        /\ \A o \in Goes(j) : JobInOrder(o.job)
    BY <1>3, <1>6, SavedInOrder, GoesInOrder
  <1>8. CASE a = "librarian"
    <2>1. \A o \in UNION {Saved(j, s) : s \in Slugs(j)} : JobInOrder(o.job)
      BY <1>7
    <2> QED
      BY <1>4, <1>5, <1>8, <2>1, BecomesInOrder
  <1>9. CASE a # "librarian"
    BY <1>4, <1>5, <1>7, <1>9, BecomesInOrder
  <1> QED
    BY <1>8, <1>9

\* What is awaited, found or decided is not what the properties are about.
SameBut(j, i) ==
  /\ IsJob(j) /\ j.phase = i.phase /\ j.agent = i.agent /\ j.topic = i.topic
  /\ j.said = i.said /\ j.task = i.task /\ j.cause = i.cause

LEMMA SameButInOrder ==
  ASSUME NEW i, Ready(i), NEW j, SameBut(j, i)
  PROVE  IsJob(j) /\ Ready(j)
  BY DEF SameBut, Ready

LEMMA CallReturnsInv ==
  ASSUME JobsInv, NEW t \in Tasks, NEW k, CallReturns(t, k)
  PROVE  JobsInv'
  <1> DEFINE j == [job[t] EXCEPT !.doing[k] = Tail(@)]
             f == [j EXCEPT !.found = TRUE]
             h(to) == [j EXCEPT !.handsTo = DecideRoute(to)]
  <1>1. IsJob(job[t]) /\ Ready(job[t]) /\ UNCHANGED process
    BY DEF CallReturns, JobsInv, JobInOrder
  <1>2. SameBut(j, job[t])
    BY <1>1 DEF IsJob, SameBut
  <1>3. \/ Becomes(t, Goes(j))
        \/ \E to \in Served \cup {"nobody"} : Becomes(t, Goes(h(to)))
        \/ Becomes(t, Goes(f))
        \/ \E s \in Slugs(f) : \E o \in Saved(f, s) :
             IF o.job.phase = "threw" THEN Becomes(t, {o})
             ELSE /\ \E g \in Goes(f) : job' = [job EXCEPT ![t] = g.job]
                  /\ skills' = o.skills
    BY DEF CallReturns
  <1> HIDE DEF j
  <1>4. SameBut(f, j) /\ \A to : SameBut(h(to), j)
    BY <1>2 DEF IsJob, SameBut
  <1>5. IsJob(j) /\ Ready(j) /\ IsJob(f) /\ Ready(f)
    BY <1>1, <1>2, <1>4, SameButInOrder
  <1>6. \A to : IsJob(h(to)) /\ Ready(h(to))
    BY <1>4, <1>5, SameButInOrder
  <1> HIDE DEF f, h
  <1>7. CASE Becomes(t, Goes(j)) \/ Becomes(t, Goes(f))
    BY <1>1, <1>5, <1>7, GoesInOrder, BecomesInOrder
  <1>8. ASSUME NEW to, Becomes(t, Goes(h(to)))
        PROVE  JobsInv'
    BY <1>1, <1>6, <1>8, GoesInOrder, BecomesInOrder
  <1>9. ASSUME NEW s, NEW o \in Saved(f, s),
               IF o.job.phase = "threw" THEN Becomes(t, {o})
               ELSE \E g \in Goes(f) : job' = [job EXCEPT ![t] = g.job]
        PROVE  JobsInv'
    <2>1. CASE o.job.phase = "threw"
      BY <1>1, <1>5, <1>9, <2>1, SavedInOrder, BecomesInOrder
    <2>2. CASE o.job.phase # "threw"
      BY <1>1, <1>5, <1>9, <2>2, GoesInOrder, OneJobMoves
    <2> QED
      BY <2>1, <2>2
  <1> QED
    BY <1>3, <1>7, <1>8, <1>9

LEMMA CallFailsInv ==
  ASSUME JobsInv, NEW t \in Tasks, NEW k, CallFails(t, k)
  PROVE  JobsInv'
  <1> DEFINE call == Head(job[t].doing[k])
             rest == IF call = "tool" THEN << >> ELSE Tail(job[t].doing[k])
             j == [job[t] EXCEPT !.doing[k] = rest]
  <1>1. IsJob(job[t]) /\ Ready(job[t]) /\ UNCHANGED process
    BY DEF CallFails, JobsInv, JobInOrder
  <1>2. SameBut(j, job[t])
    <2> HIDE DEF rest
    <2> QED
      BY <1>1 DEF IsJob, SameBut
  <1>3. IF Absorbs(j.agent, call) THEN Becomes(t, Goes(j))
        ELSE Becomes(t, {Done(Thrown(j, "call"), skills)})
    BY DEF CallFails
  <1> HIDE DEF j, call
  <1>4. IsJob(j) /\ Ready(j)
    BY <1>1, <1>2, SameButInOrder
  <1>5. CASE Absorbs(j.agent, call)
    BY <1>1, <1>3, <1>4, <1>5, GoesInOrder, BecomesInOrder
  <1>6. CASE ~Absorbs(j.agent, call)
    <2>1. JobInOrder(Thrown(j, "call"))
      BY <1>4, <1>6, ThrownInOrder DEF Absorbs
    <2>2. \A o \in {Done(Thrown(j, "call"), skills)} : JobInOrder(o.job)
      BY <2>1 DEF Done
    <2> QED
      BY <1>1, <1>3, <1>6, <2>2, BecomesInOrder
  <1> QED
    BY <1>5, <1>6

\* The jobs that a process leaves behind when it ends are lost.
LEMMA ExitsInv ==
  ASSUME JobsInv, NEW a \in DOMAIN process, NEW cause, Exits(a, cause),
         \/ cause = "timeout"
         \/ cause = "sigterm" /\ a \in RunAgents
         \/ Busy(a) = {}
  PROVE  JobsInv'
  <1>1. DOMAIN process' = DOMAIN process
    BY DEF Exits
  <1>2. ASSUME NEW t \in Tasks
        PROVE  JobInOrder(job'[t])
    <2> DEFINE g == [job[t] EXCEPT !.phase = "lost", !.cause = cause,
                                   !.doing = << >>]
    <2>1. JobInOrder(job[t])
      BY DEF JobsInv
    <2>2. CASE t \in Busy(a)
      <3>1. job[t].agent = a /\ IsJob(job[t])
        BY <2>1, <2>2 DEF Busy, JobInOrder
      <3>2. IsJob(g) /\ g.phase = "lost" /\ g.agent = a /\ g.cause = cause
        BY <3>1 DEF IsJob
      <3>3. job'[t] = g
        BY <2>2 DEF Exits
      <3> HIDE DEF g
      <3> QED
        BY <2>2, <3>2, <3>3 DEF JobInOrder, Ended
    <2>3. CASE t \notin Busy(a)
      <3>1. job'[t] = job[t]
        BY <2>3 DEF Exits
      <3> QED
        BY <2>1, <3>1 DEF JobInOrder
    <2> QED
      BY <2>2, <2>3
  <1>3. DOMAIN job' = Tasks /\ job' = [t \in Tasks |-> job'[t]]
    BY DEF Exits
  <1> QED
    BY <1>1, <1>2, <1>3 DEF JobsInv

LEMMA JobsStep ==
  ASSUME JobsInv, SpecialistsNext
  PROVE  JobsInv'
  <1>1. ASSUME NEW a \in DOMAIN process, Sigterm(a) \/ Sigint(a)
        PROVE  JobsInv'
    <2>1. CASE a \in RunAgents /\ Exits(a, "sigterm")
      BY <2>1, ExitsInv
    <2>2. CASE process' = [process EXCEPT ![a] = "draining"] /\ job' = job
      BY <2>2 DEF JobsInv
    <2> QED
      BY <1>1, <2>1, <2>2 DEF Sigterm, Sigint
  <1>2. ASSUME NEW a \in DOMAIN process, Drained(a) \/ DrainTimesOut(a)
        PROVE  JobsInv'
    BY <1>2, ExitsInv DEF Drained, DrainTimesOut
  <1> QED
    BY <1>1, <1>2, OnTaskInv, CallReturnsInv, CallFailsInv DEF SpecialistsNext

(***************************************************************************)
(* Whatever model, search, tool, memory, board or disk fails around an     *)
(* agent, and whenever its process is told to end: a task that is answered *)
(* got one message and is over, and only the failures named leave one      *)
(* without an answer.                                                      *)
(***************************************************************************)
THEOREM TasksAreAnswered == RuntimeSpec => []TasksEndAnswered
  <1>1. RuntimeInit => JobsInv
    BY JobsInit DEF RuntimeInit
  <1>2. JobsInv /\ [RuntimeNext]_<<exercised, pluginVars, realtimeVars,
                        paymentVars, ballot, specialistVars, elicitationVars,
                        bridgeVars>> => JobsInv'
    <2> SUFFICES ASSUME JobsInv, SpecialistsNext \/ UNCHANGED specialistVars
                 PROVE  JobsInv'
      BY DEF RuntimeNext
    <2>1. CASE UNCHANGED specialistVars
      BY <2>1 DEF specialistVars, JobsInv
    <2> QED
      BY <2>1, JobsStep
  <1>3. JobsInv => TasksEndAnswered
    BY DEF JobsInv, JobInOrder, Ended, Storeless, TasksEndAnswered
  <1> QED
    BY <1>1, <1>2, <1>3, PTL DEF RuntimeSpec

-----------------------------------------------------------------------------
(* Questions to the user.  An answer on the board is for whoever is kept   *)
(* under its id: what is kept there was asked on the board, under that id. *)

Question == [via : Ports, mode : Modes, is : Decisions \cup {"none", "open"}]

KeptUnderItsId ==
  \A k \in DOMAIN pending :
    /\ pending[k] \in ToolCalls
    /\ k = Key(pending[k], question[pending[k]].mode)
    /\ question[pending[k]].is # "none" /\ question[pending[k]].via = "hermes"

\* Whose question the terminal shows has asked there and has no answer yet.
PromptedAsked ==
  prompt # NoCall =>
    /\ prompt \in ToolCalls /\ reply[prompt] = "none"
    /\ question[prompt].via = "readline" /\ question[prompt].is # "none"

RepliedAsked ==
  \A c \in ToolCalls : question[c].is = "none" => reply[c] = "none"

QuestionsInv ==
  /\ question \in [ToolCalls -> Question]
  /\ reply \in [ToolCalls -> Decisions \cup {"none"}]
  /\ decider \in [ToolCalls -> ToolCalls \cup {NoCall}]
  /\ KeptUnderItsId /\ PromptedAsked /\ RepliedAsked /\ AcceptanceWasGiven

LEMMA QuestionsInit ==
  ASSUME ElicitationInit
  PROVE  QuestionsInv
  BY DEF ElicitationInit, QuestionsInv, Question, NoQuestion, Ports, Modes,
         KeptUnderItsId, PromptedAsked, RepliedAsked, AcceptanceWasGiven

LEMMA QuestionsRest ==
  ASSUME QuestionsInv, UNCHANGED <<question, prompt, pending, reply, decider>>
  PROVE  QuestionsInv'
  BY DEF QuestionsInv, KeptUnderItsId, PromptedAsked, RepliedAsked,
         AcceptanceWasGiven, OnBoard

\* What was accepted stays so while nobody takes back what decided it.
LEMMA AcceptedStays ==
  ASSUME QuestionsInv, NEW b \in ToolCalls, question[b].is = "accept",
         question'[b].is = "accept", question'[b].via = question[b].via,
         question'[b].mode = question[b].mode, decider'[b] = decider[b],
         \A e \in ToolCalls : reply[e] # "none" =>
           /\ reply'[e] = reply[e] /\ question'[e].via = question[e].via
           /\ question'[e].mode = question[e].mode
  PROVE  /\ decider'[b] \in ToolCalls /\ reply'[decider'[b]] = "accept"
         /\ decider'[b] = b \/ (OnBoard(b)' /\ OnBoard(decider[b])')
  <1> DEFINE e == decider[b]
  <1>1. /\ e \in ToolCalls /\ reply[e] = "accept"
        /\ e = b \/ (OnBoard(b) /\ OnBoard(e))
    BY DEF QuestionsInv, AcceptanceWasGiven
  <1> HIDE DEF e
  <1>2. /\ reply'[e] = "accept" /\ question'[e].via = question[e].via
        /\ question'[e].mode = question[e].mode
    BY <1>1
  <1>3. decider'[b] = e
    BY DEF e
  <1>4. e = b \/ (OnBoard(b)' /\ /\ question'[e].via = "hermes"
                                 /\ question'[e].mode = "form")
    BY <1>1, <1>2 DEF OnBoard
  <1> QED
    BY <1>1, <1>2, <1>3, <1>4 DEF e, OnBoard

\* A question that is put is neither accepted nor answered, and its call had
\* put none before.
LEMMA PutFacts ==
  ASSUME QuestionsInv, NEW c \in ToolCalls, NEW m \in Modes, Asks(c),
         NEW d \in {"open", "decline"}, Put(c, m, d), port \in Ports,
         UNCHANGED <<reply, decider>>
  PROVE  /\ question' \in [ToolCalls -> Question]
         /\ question'[c] = [via |-> port, mode |-> m, is |-> d]
         /\ \A b \in ToolCalls \ {c} : question'[b] = question[b]
         /\ \A k \in DOMAIN pending : pending[k] # c
         /\ prompt # c \/ prompt = NoCall
         /\ RepliedAsked' /\ AcceptanceWasGiven'
  <1>1. question[c].is = "none" /\ reply[c] = "none"
    BY DEF Asks, QuestionsInv, RepliedAsked
  <1>2. question'[c] = [via |-> port, mode |-> m, is |-> d]
    BY DEF Put, QuestionsInv
  <1>3. \A b \in ToolCalls \ {c} : question'[b] = question[b]
    BY DEF Put, QuestionsInv
  <1>4. question' \in [ToolCalls -> Question]
    BY DEF Put, QuestionsInv, Question, Decisions
  <1>5. /\ \A k \in DOMAIN pending : pending[k] # c
        /\ prompt # c \/ prompt = NoCall
    BY <1>1 DEF QuestionsInv, KeptUnderItsId, PromptedAsked
  <1>6. RepliedAsked'
    BY <1>1, <1>2, <1>3 DEF QuestionsInv, RepliedAsked
  <1>7. AcceptanceWasGiven'
    <2>1. ASSUME NEW b \in ToolCalls, question'[b].is = "accept"
          PROVE  /\ decider'[b] \in ToolCalls /\ reply'[decider'[b]] = "accept"
                 /\ decider'[b] = b \/ (OnBoard(b)' /\ OnBoard(decider[b])')
      <3>1. b # c /\ question'[b] = question[b]
        BY <1>2, <1>3, <2>1
      <3>2. \A e \in ToolCalls : reply[e] # "none" => question'[e] = question[e]
        BY <1>1, <1>3
      <3> QED
        BY <2>1, <3>1, <3>2, AcceptedStays
    <2> QED
      BY <2>1 DEF AcceptanceWasGiven
  <1> QED
    BY <1>2, <1>3, <1>4, <1>5, <1>6, <1>7

LEMMA ElicitDeclinedInv ==
  ASSUME QuestionsInv, NEW c \in ToolCalls, NEW m \in Modes,
         ElicitDeclined(c, m)
  PROVE  QuestionsInv'
  <1>1. /\ Asks(c) /\ Put(c, m, "decline") /\ port \in Ports
        /\ UNCHANGED <<prompt, pending, reply, decider>>
    BY DEF ElicitDeclined, Ports
  <1>2. KeptUnderItsId'
    BY <1>1, PutFacts DEF QuestionsInv, KeptUnderItsId
  <1>3. PromptedAsked'
    BY <1>1, PutFacts DEF QuestionsInv, PromptedAsked
  <1> QED
    BY <1>1, <1>2, <1>3, PutFacts DEF QuestionsInv

LEMMA ElicitReadlineInv ==
  ASSUME QuestionsInv, NEW c \in ToolCalls, NEW m \in Modes,
         ElicitReadline(c, m)
  PROVE  QuestionsInv'
  <1>1. /\ Asks(c) /\ port \in Ports /\ port = "readline"
        /\ \/ Put(c, m, "open") /\ prompt' = c
           \/ Put(c, m, "decline") /\ prompt' = prompt
        /\ UNCHANGED <<pending, reply, decider>>
    BY DEF ElicitReadline, Ports
  <1>2. /\ question' \in [ToolCalls -> Question]
        /\ question'[c] \in Question
        /\ question'[c].is # "none" /\ question'[c].via = "readline"
        /\ \A b \in ToolCalls \ {c} : question'[b] = question[b]
        /\ \A k \in DOMAIN pending : pending[k] # c
        /\ prompt # c \/ prompt = NoCall
        /\ RepliedAsked' /\ AcceptanceWasGiven'
    <2>1. PICK d \in {"open", "decline"} : Put(c, m, d)
      BY <1>1
    <2>2. question'[c] = [via |-> port, mode |-> m, is |-> d]
      BY <1>1, <2>1, PutFacts
    <2>3. question'[c].is # "none" /\ question'[c].via = "readline"
      BY <1>1, <2>1, <2>2
    <2>4. question' \in [ToolCalls -> Question]
      BY <1>1, <2>1, PutFacts
    <2> QED
      BY <1>1, <2>1, <2>3, <2>4, PutFacts
  <1>3. KeptUnderItsId'
    BY <1>1, <1>2 DEF QuestionsInv, KeptUnderItsId
  <1>4. reply[c] = "none"
    BY <1>1 DEF Asks, QuestionsInv, RepliedAsked
  <1>5. PromptedAsked'
    BY <1>1, <1>2, <1>4 DEF QuestionsInv, PromptedAsked
  <1> QED
    BY <1>1, <1>2, <1>3, <1>5 DEF QuestionsInv

LEMMA ElicitHermesInv ==
  ASSUME QuestionsInv, NEW c \in ToolCalls, NEW m \in Modes,
         ElicitHermes(c, m)
  PROVE  QuestionsInv'
  <1>1. /\ Asks(c) /\ port \in Ports /\ port = "hermes"
        /\ Put(c, m, "open") \/ Put(c, m, "decline")
        /\ pending' = Filed(Key(c, m), c)
        /\ UNCHANGED <<prompt, reply, decider>>
    BY DEF ElicitHermes, Ports
  <1>2. /\ question' \in [ToolCalls -> Question]
        /\ question'[c].is # "none" /\ question'[c].mode = m
        /\ question'[c].via = "hermes"
        /\ \A b \in ToolCalls \ {c} : question'[b] = question[b]
        /\ \A k \in DOMAIN pending : pending[k] # c
        /\ prompt # c \/ prompt = NoCall
        /\ RepliedAsked' /\ AcceptanceWasGiven'
    <2>1. PICK d \in {"open", "decline"} : Put(c, m, d)
      BY <1>1
    <2>2. question'[c] = [via |-> port, mode |-> m, is |-> d]
      BY <1>1, <2>1, PutFacts
    <2>3. /\ question'[c].is # "none" /\ question'[c].mode = m
          /\ question'[c].via = "hermes"
      BY <1>1, <2>1, <2>2
    <2>4. question' \in [ToolCalls -> Question]
      BY <1>1, <2>1, PutFacts
    <2> QED
      BY <1>1, <2>1, <2>3, <2>4, PutFacts
  <1>3. KeptUnderItsId'
    <2>1. m \in Modes /\ question'[c].via = "hermes"
      BY <1>1, <1>2
    <2> QED
      BY <1>1, <1>2, <2>1 DEF QuestionsInv, KeptUnderItsId, Filed
  <1>4. PromptedAsked'
    BY <1>1, <1>2 DEF QuestionsInv, PromptedAsked
  <1> QED
    BY <1>1, <1>2, <1>3, <1>4 DEF QuestionsInv

LEMMA UserTypesInv ==
  ASSUME QuestionsInv, NEW d \in Decisions, UserTypes(d)
  PROVE  QuestionsInv'
  <1>1. /\ prompt # NoCall /\ prompt' = NoCall
        /\ reply' = [reply EXCEPT ![prompt] = d]
        /\ UNCHANGED <<question, pending, decider>>
    BY DEF UserTypes
  <1>2. /\ prompt \in ToolCalls /\ reply[prompt] = "none"
        /\ question[prompt].is # "none"
    BY <1>1 DEF QuestionsInv, PromptedAsked
  <1>3. reply' \in [ToolCalls -> Decisions \cup {"none"}]
    BY <1>1 DEF QuestionsInv
  <1>4. KeptUnderItsId' /\ PromptedAsked'
    BY <1>1 DEF QuestionsInv, KeptUnderItsId, PromptedAsked
  <1>5. \A b \in ToolCalls \ {prompt} : reply'[b] = reply[b]
    BY <1>1 DEF QuestionsInv
  <1>6. RepliedAsked' /\ AcceptanceWasGiven'
    <2>1. RepliedAsked'
      BY <1>1, <1>2, <1>5 DEF QuestionsInv, RepliedAsked
    <2>2. ASSUME NEW b \in ToolCalls, question'[b].is = "accept"
          PROVE  /\ decider'[b] \in ToolCalls /\ reply'[decider'[b]] = "accept"
                 /\ decider'[b] = b \/ (OnBoard(b)' /\ OnBoard(decider[b])')
      <3>1. \A e \in ToolCalls : reply[e] # "none" => reply'[e] = reply[e]
        BY <1>2, <1>5
      <3> QED
        BY <1>1, <2>2, <3>1, AcceptedStays
    <2> QED
      BY <1>1, <2>1, <2>2 DEF AcceptanceWasGiven
  <1> QED
    BY <1>1, <1>3, <1>4, <1>6 DEF QuestionsInv

\* A decision does not touch where a question was put and how it is kept.
LEMMA DecidedFacts ==
  ASSUME QuestionsInv, NEW c \in ToolCalls, NEW d \in Decisions
  PROVE  /\ Decided(c, d) \in [ToolCalls -> Question]
         /\ \A b \in ToolCalls : /\ Decided(c, d)[b].via = question[b].via
                                 /\ Decided(c, d)[b].mode = question[b].mode
                                 /\ Decided(c, d)[b].is = "none"
                                      <=> question[b].is = "none"
         /\ \A b \in ToolCalls \ {c} : Decided(c, d)[b] = question[b]
         /\ Decided(c, d)[c].is \in {d, question[c].is}
         /\ question[c].is # "open" => Decided(c, d) = question
  <1> DEFINE q == [question EXCEPT ![c].is = d]
  <1>1. CASE question[c].is = "open"
    <2>1. q \in [ToolCalls -> Question]
      BY DEF QuestionsInv, Question
    <2>2. /\ q[c].via = question[c].via /\ q[c].mode = question[c].mode
          /\ q[c].is = d
          /\ \A b \in ToolCalls \ {c} : q[b] = question[b]
      BY DEF QuestionsInv, Question
    <2>3. Decided(c, d) = q
      BY <1>1 DEF Decided
    <2> HIDE DEF q
    <2> QED
      BY <1>1, <2>1, <2>2, <2>3 DEF Decisions
  <1>2. CASE question[c].is # "open"
    BY <1>2 DEF Decided, QuestionsInv
  <1> QED
    BY <1>1, <1>2

\* Only questions without an id of their own are kept under the same one.
LEMMA SameId ==
  ASSUME QuestionsInv, NEW a \in ToolCalls, NEW c \in ToolCalls,
         Key(a, question[a].mode) = Key(c, question[c].mode)
  PROVE  \/ a = c
         \/ question[a].mode = "form" /\ question[c].mode = "form"
  <1>1. question[a].mode \in Modes /\ question[c].mode \in Modes
    BY DEF QuestionsInv, Question
  <1> QED
    BY <1>1, ElicitationAssumption DEF Key, Modes

\* An answer goes to the question kept under the id it came with: to the very
\* question it was meant for, or to another without an id of its own.
LEMMA ResolveRequestInv ==
  ASSUME QuestionsInv, NEW c \in ToolCalls, NEW d \in Decisions,
         ResolveRequest(c, d)
  PROVE  QuestionsInv'
  <1> DEFINE key == Key(c, question[c].mode)
             a == pending[key]
  <1>1. /\ question[c].via = "hermes" /\ question[c].is # "none"
        /\ reply[c] = "none" /\ reply' = [reply EXCEPT ![c] = d]
        /\ prompt' = prompt
    BY DEF ResolveRequest
  <1>2. /\ reply' \in [ToolCalls -> Decisions \cup {"none"}]
        /\ reply'[c] = d
        /\ \A b \in ToolCalls \ {c} : reply'[b] = reply[b]
    BY <1>1 DEF QuestionsInv
  <1>3. prompt # c \/ prompt = NoCall
    BY <1>1 DEF QuestionsInv, PromptedAsked
  <1>4. CASE key \in DOMAIN pending
    <2>1. /\ question' = Decided(a, d)
          /\ pending' = [k \in DOMAIN pending \ {key} |-> pending[k]]
          /\ decider' = IF question[a].is = "open" THEN [decider EXCEPT ![a] = c]
                      ELSE decider
      BY <1>4 DEF ResolveRequest
    <2>2. /\ a \in ToolCalls /\ key = Key(a, question[a].mode)
          /\ question[a].via = "hermes"
      BY <1>4 DEF QuestionsInv, KeptUnderItsId
    <2>3. \/ a = c
          \/ question[a].mode = "form" /\ question[c].mode = "form"
      <3> HIDE DEF a
      <3> QED
        BY <2>2, SameId
    <2> HIDE DEF key, a
    <2>4. /\ question' \in [ToolCalls -> Question]
          /\ \A b \in ToolCalls : /\ question'[b].via = question[b].via
                                  /\ question'[b].mode = question[b].mode
                                  /\ question'[b].is = "none"
                                       <=> question[b].is = "none"
          /\ \A b \in ToolCalls \ {a} : question'[b] = question[b]
          /\ question'[a].is \in {d, question[a].is}
          /\ question[a].is # "open" => question' = question
      BY <2>1, <2>2, DecidedFacts
    <2>9. decider' \in [ToolCalls -> ToolCalls \cup {NoCall}]
      BY <2>1, <2>2 DEF QuestionsInv
    <2>5. KeptUnderItsId'
      BY <2>1, <2>4 DEF QuestionsInv, KeptUnderItsId
    <2>6. PromptedAsked'
      BY <1>1, <1>2, <1>3, <2>4 DEF QuestionsInv, PromptedAsked
    <2>7. RepliedAsked'
      BY <1>1, <1>2, <2>4 DEF QuestionsInv, RepliedAsked
    <2>8. AcceptanceWasGiven'
      <3>1. ASSUME NEW b \in ToolCalls, question'[b].is = "accept"
            PROVE  /\ decider'[b] \in ToolCalls /\ reply'[decider'[b]] = "accept"
                   /\ decider'[b] = b \/ (OnBoard(b)' /\ OnBoard(decider[b])')
        <4>1. CASE question[b].is = "accept"
          <5>1. decider'[b] = decider[b]
            BY <2>1, <2>2, <4>1 DEF QuestionsInv
          <5>2. \A e \in ToolCalls : reply[e] # "none" => reply'[e] = reply[e]
            BY <1>1, <1>2
          <5> QED
            BY <2>4, <3>1, <4>1, <5>1, <5>2, AcceptedStays
        <4>2. CASE question[b].is # "accept"
          <5>1. b = a /\ d = "accept" /\ question[a].is = "open"
            BY <2>4, <3>1, <4>2
          <5>2. decider'[b] = c
            BY <2>1, <2>2, <5>1 DEF QuestionsInv
          <5>3. b = c \/ (OnBoard(b)' /\ OnBoard(c)')
            BY <1>1, <2>2, <2>3, <2>4, <5>1 DEF OnBoard
          <5> QED
            BY <1>2, <5>1, <5>2, <5>3 DEF OnBoard
        <4> QED
          BY <4>1, <4>2
      <3> QED
        BY <3>1 DEF AcceptanceWasGiven
    <2> QED
      BY <1>2, <2>4, <2>5, <2>6, <2>7, <2>8, <2>9 DEF QuestionsInv
  <1>5. CASE key \notin DOMAIN pending
    <2>1. UNCHANGED <<question, pending, decider>>
      BY <1>5 DEF ResolveRequest
    <2> HIDE DEF key, a
    <2>2. KeptUnderItsId' /\ PromptedAsked'
      BY <1>1, <1>2, <1>3, <2>1 DEF QuestionsInv, KeptUnderItsId, PromptedAsked
    <2>3. RepliedAsked'
      BY <1>1, <1>2, <2>1 DEF QuestionsInv, RepliedAsked
    <2>4. ASSUME NEW b \in ToolCalls, question'[b].is = "accept"
          PROVE  /\ decider'[b] \in ToolCalls /\ reply'[decider'[b]] = "accept"
                 /\ decider'[b] = b \/ (OnBoard(b)' /\ OnBoard(decider[b])')
      <3>1. \A e \in ToolCalls : reply[e] # "none" => reply'[e] = reply[e]
        BY <1>1, <1>2
      <3> QED
        BY <2>1, <2>4, <3>1, AcceptedStays
    <2>5. AcceptanceWasGiven'
      BY <2>1, <2>4 DEF AcceptanceWasGiven
    <2> QED
      BY <1>2, <2>1, <2>2, <2>3, <2>5 DEF QuestionsInv
  <1> QED
    BY <1>4, <1>5

LEMMA TimeoutInv ==
  ASSUME QuestionsInv, NEW c \in ToolCalls, Timeout(c)
  PROVE  QuestionsInv'
  <1> DEFINE key == Key(c, question[c].mode)
  <1>1. /\ question' = Decided(c, "decline") /\ reply' = reply /\ decider' = decider
        /\ \/ prompt' = prompt
           \/ prompt' = NoCall
        /\ \/ pending' = [k \in DOMAIN pending \ {key} |-> pending[k]]
           \/ pending' = pending
    BY DEF Timeout
  <1> HIDE DEF key
  <1>2. /\ question' \in [ToolCalls -> Question]
        /\ \A b \in ToolCalls : /\ question'[b].via = question[b].via
                                /\ question'[b].mode = question[b].mode
                                /\ question'[b].is = "none"
                                     <=> question[b].is = "none"
        /\ \A b \in ToolCalls \ {c} : question'[b] = question[b]
        /\ question'[c].is \in {"decline", question[c].is}
    BY <1>1, DecidedFacts DEF Decisions
  <1>3. KeptUnderItsId'
    BY <1>1, <1>2 DEF QuestionsInv, KeptUnderItsId
  <1>4. PromptedAsked' /\ RepliedAsked'
    BY <1>1, <1>2 DEF QuestionsInv, PromptedAsked, RepliedAsked
  <1>5. AcceptanceWasGiven'
    <2>1. ASSUME NEW b \in ToolCalls, question'[b].is = "accept"
          PROVE  /\ decider'[b] \in ToolCalls /\ reply'[decider'[b]] = "accept"
                 /\ decider'[b] = b \/ (OnBoard(b)' /\ OnBoard(decider[b])')
      <3>1. question[b].is = "accept"
        BY <1>2, <2>1
      <3> QED
        BY <1>1, <1>2, <2>1, <3>1, AcceptedStays
    <2> QED
      BY <1>1, <2>1 DEF AcceptanceWasGiven
  <1> QED
    BY <1>1, <1>2, <1>3, <1>4, <1>5 DEF QuestionsInv

(***************************************************************************)
(* However tool calls, prompts, posts, answers and timeouts interleave and *)
(* whatever port is set meanwhile, the tool server is told "accept" only   *)
(* for an answer by which the user accepted, given to this very question   *)
(* or, where both are forms on the Hermes board, which have no id to tell  *)
(* them by, to another form that is open or over.                          *)
(***************************************************************************)
THEOREM AcceptanceIsTheUsers == RuntimeSpec => []AcceptanceWasGiven
  <1>1. RuntimeInit => QuestionsInv
    BY QuestionsInit DEF RuntimeInit
  <1>2. QuestionsInv /\ [RuntimeNext]_<<exercised, pluginVars, realtimeVars,
                        paymentVars, ballot, specialistVars, elicitationVars,
                        bridgeVars>> => QuestionsInv'
    <2> SUFFICES ASSUME QuestionsInv,
                        ElicitationNext \/ UNCHANGED elicitationVars
                 PROVE  QuestionsInv'
      BY DEF RuntimeNext
    <2>1. CASE UNCHANGED elicitationVars
      BY <2>1, QuestionsRest DEF elicitationVars
    <2>2. CASE \/ TransportCloses
               \/ \E p \in Ports : SetElicitationPort(p)
               \/ \E c \in ToolCalls : \/ CallTool(c) \/ Connected(c)
                                       \/ ConnectFails(c) \/ CallEnds(c)
      <3>1. UNCHANGED <<question, prompt, pending, reply, decider>>
        BY <2>2 DEF TransportCloses, SetElicitationPort, CallTool, Connected,
                    ConnectFails, CallEnds, portVars
      <3> QED
        BY <3>1, QuestionsRest
    <2>3. ASSUME NEW c \in ToolCalls, NEW m \in Modes,
                 ElicitDeclined(c, m) \/ ElicitReadline(c, m) \/ ElicitHermes(c, m)
          PROVE  QuestionsInv'
      BY <2>3, ElicitDeclinedInv, ElicitReadlineInv, ElicitHermesInv
    <2> QED
      BY <2>1, <2>2, <2>3, UserTypesInv, ResolveRequestInv, TimeoutInv
      DEF ElicitationNext
  <1>3. QuestionsInv => AcceptanceWasGiven
    BY DEF QuestionsInv
  <1> QED
    BY <1>1, <1>2, <1>3, PTL DEF RuntimeSpec

-----------------------------------------------------------------------------
(* The editor's sessions.  What is in a history was answered, so that the  *)
(* session a request is filed under no longer changes.                     *)

Entries == [role : {"user", "agent"}, of : Lines]

\* An even number of entries, each of the editor's followed by its answer.
WholeExchanges(h) ==
  /\ Len(h) % 2 = 0
  /\ \A i \in 1..Len(h) : /\ i % 2 = 1 => h[i].role = "user"
                          /\ i % 2 = 0 => h[i] = Entry("agent", h[i - 1].of)

FiledUnder(h, s, lines) ==
  \A i \in 1..Len(h) : /\ lines[h[i].of].phase = "answered"
                       /\ lines[h[i].of].filed = s

Line == [phase : {"idle", "sent", "forwarded", "answered", "refused",
                  "unanswered"},
         named : Sessions \cup {NoSession}, filed : Sessions \cup {NoSession}]

SessionsInv ==
  /\ line \in [Lines -> Line] /\ DOMAIN session \subseteq Sessions
  /\ current \in Sessions \cup {NoSession}
  /\ session \in [DOMAIN session -> Seq(Entries)]
  /\ \A s \in DOMAIN session : /\ WholeExchanges(session[s])
                               /\ FiledUnder(session[s], s, line)

LEMMA SessionsInit ==
  ASSUME BridgeInit
  PROVE  SessionsInv
  BY DEF BridgeInit, SessionsInv, Line

LEMMA EvenSum ==
  ASSUME NEW n \in Nat, n % 2 = 0
  PROVE  (n + 1) % 2 = 1 /\ (n + 2) % 2 = 0
  OBVIOUS

\* An exchange at the end of a history.
Exchanged(h, l) == Append(Append(h, Entry("user", l)), Entry("agent", l))

LEMMA ExchangeAdded ==
  ASSUME NEW h \in Seq(Entries), WholeExchanges(h), NEW l \in Lines
  PROVE  /\ Exchanged(h, l) \in Seq(Entries) /\ WholeExchanges(Exchanged(h, l))
         /\ Len(Exchanged(h, l)) = Len(h) + 2
         /\ \A i \in 1..Len(h) : Exchanged(h, l)[i] = h[i]
         /\ Exchanged(h, l)[Len(h) + 1].of = l
         /\ Exchanged(h, l)[Len(h) + 2].of = l
  <1> DEFINE n == Len(h)
             g == Exchanged(h, l)
             u == Entry("user", l)
             a == Entry("agent", l)
             f == Append(h, u)
  <1>1. /\ u \in Entries /\ a \in Entries
        /\ u.of = l /\ a.of = l /\ u.role = "user"
    BY DEF Entry, Entries
  <1> HIDE DEF u, a
  <1>2. /\ f \in Seq(Entries) /\ Len(f) = n + 1 /\ n \in Nat
        /\ f[n + 1] = u /\ \A i \in 1..n : f[i] = h[i]
    BY <1>1
  <1>3. g = Append(f, a)
    BY DEF u, a, Exchanged
  <1> HIDE DEF f, g
  <1>4. /\ g \in Seq(Entries) /\ Len(g) = n + 2
        /\ g[n + 2] = a /\ g[n + 1] = u /\ \A i \in 1..n : g[i] = h[i]
    BY <1>1, <1>2, <1>3
  <1>5. n % 2 = 0 /\ (n + 1) % 2 = 1 /\ (n + 2) % 2 = 0
    BY <1>2, EvenSum DEF WholeExchanges
  <1>6. ASSUME NEW i \in 1..(n + 2)
        PROVE  /\ i % 2 = 1 => g[i].role = "user"
               /\ i % 2 = 0 => g[i] = Entry("agent", g[i - 1].of)
    <2>1. CASE i \in 1..n
      <3>1. i = 1 \/ i - 1 \in 1..n
        BY <1>2, <2>1
      <3>2. 1 % 2 = 1
        OBVIOUS
      <3>3. g[i] = h[i] /\ (i % 2 = 0 => g[i - 1] = h[i - 1])
        BY <1>4, <2>1, <3>1, <3>2
      <3>4. /\ i % 2 = 1 => h[i].role = "user"
            /\ i % 2 = 0 => h[i] = Entry("agent", h[i - 1].of)
        BY <2>1 DEF WholeExchanges
      <3> QED
        BY <3>3, <3>4
    <2>2. CASE i = n + 1
      BY <1>1, <1>4, <1>5, <2>2
    <2>3. CASE i = n + 2
      <3>1. g[i - 1] = u
        BY <1>2, <1>4, <2>3
      <3> QED
        BY <1>1, <1>4, <1>5, <2>3, <3>1 DEF a
    <2> QED
      BY <1>2, <2>1, <2>2, <2>3
  <1>7. WholeExchanges(g)
    BY <1>4, <1>5, <1>6 DEF WholeExchanges
  <1>8. \A i \in 1..n : g[i] = h[i]
    BY <1>4
  <1> QED
    BY <1>1, <1>4, <1>7, <1>8 DEF g

\* What is filed stays filed while the line of another request changes.
LEMMA FiledRests ==
  ASSUME NEW f \in Seq(Entries), NEW t, NEW l \in Lines, NEW old, NEW new,
         FiledUnder(f, t, old), old[l].phase # "answered",
         \A k \in Lines \ {l} : new[k] = old[k]
  PROVE  FiledUnder(f, t, new)
  <1>1. ASSUME NEW i \in 1..Len(f) PROVE new[f[i].of] = old[f[i].of]
    <2>1. f[i] \in Entries
      OBVIOUS
    <2>2. f[i].of \in Lines
      BY <2>1 DEF Entries
    <2> QED
      BY <2>2 DEF FiledUnder
  <1> QED
    BY <1>1 DEF FiledUnder

\* A step that only handles a line that is not answered yet.
LEMMA LineMoves ==
  ASSUME SessionsInv, NEW l \in Lines, line[l].phase # "answered",
         line' \in [Lines -> Line], \A k \in Lines \ {l} : line'[k] = line[k],
         UNCHANGED <<session, current>>
  PROVE  SessionsInv'
  <1>1. \A s \in DOMAIN session : FiledUnder(session[s], s, line')
    BY FiledRests DEF SessionsInv
  <1> QED
    BY <1>1 DEF SessionsInv

LEMMA MessageAnsweredInv ==
  ASSUME SessionsInv, NEW l \in Lines, MessageAnswered(l)
  PROVE  SessionsInv'
  <1>1. PICK s \in Sessions :
          /\ session' = Responses(l, s) /\ current' = s
          /\ line' = [line EXCEPT ![l].phase = "answered", ![l].filed = s]
    <2>1. GoesTo(line[l].named) \subseteq Sessions
      <3>1. line[l] \in Line
        BY DEF SessionsInv
      <3> QED
        BY <3>1 DEF GoesTo, Or, SessionsInv, Line
    <2> QED
      BY <2>1 DEF MessageAnswered
  <1>2. line[l].phase = "sent"
    BY DEF MessageAnswered
  <1>3. /\ line'[l].phase = "answered" /\ line'[l].filed = s
        /\ \A k \in Lines \ {l} : line'[k] = line[k]
        /\ line' \in [Lines -> Line]
    BY <1>1 DEF SessionsInv, Line
  <1> DEFINE h == IF s \in DOMAIN session THEN session[s] ELSE << >>
             g == Exchanged(h, l)
             once == Record(session, s, Entry("user", l))
  <1>4. h \in Seq(Entries) /\ WholeExchanges(h) /\ FiledUnder(h, s, line)
    <2>1. << >> \in Seq(Entries) /\ WholeExchanges(<< >>)
      BY DEF WholeExchanges
    <2>2. FiledUnder(<< >>, s, line)
      BY DEF FiledUnder
    <2> QED
      BY <2>1, <2>2 DEF SessionsInv
  <1>5. session' = [t \in DOMAIN session \cup {s} |->
                      IF t = s THEN g ELSE session[t]]
    <2>1. once = [t \in DOMAIN session \cup {s} |->
                    IF t = s THEN Append(h, Entry("user", l)) ELSE session[t]]
      BY DEF Record
    <2>2. /\ DOMAIN once = DOMAIN session \cup {s}
          /\ once[s] = Append(h, Entry("user", l))
          /\ \A t \in DOMAIN session \ {s} : once[t] = session[t]
      BY <2>1
    <2>3. session' = Record(once, s, Entry("agent", l))
      BY <1>1 DEF Responses
    <2> HIDE DEF once, h
    <2> QED
      BY <2>2, <2>3 DEF Record, Exchanged
  <1> HIDE DEF h, once
  <1>6. /\ g \in Seq(Entries) /\ WholeExchanges(g) /\ Len(g) = Len(h) + 2
        /\ \A i \in 1..Len(h) : g[i] = h[i]
        /\ g[Len(h) + 1].of = l /\ g[Len(h) + 2].of = l
    BY <1>4, ExchangeAdded
  <1> HIDE DEF g
  <1>7. FiledUnder(g, s, line')
    <2>1. FiledUnder(h, s, line')
      BY <1>2, <1>3, <1>4, FiledRests
    <2>2. Len(h) \in Nat
      BY <1>4
    <2>3. ASSUME NEW i \in 1..Len(g)
          PROVE  i \in 1..Len(h) \/ i = Len(h) + 1 \/ i = Len(h) + 2
      BY <1>6, <2>2
    <2> QED
      BY <1>3, <1>6, <2>1, <2>3 DEF FiledUnder
  <1>8. \A t \in DOMAIN session \ {s} :
           /\ session[t] \in Seq(Entries) /\ WholeExchanges(session[t])
           /\ FiledUnder(session[t], t, line')
    BY <1>2, <1>3, FiledRests DEF SessionsInv
  <1>9. \A t \in DOMAIN session' : /\ session'[t] \in Seq(Entries)
                                    /\ WholeExchanges(session'[t])
                                    /\ FiledUnder(session'[t], t, line')
    BY <1>5, <1>6, <1>7, <1>8
  <1>10. session' \in [DOMAIN session' -> Seq(Entries)]
    BY <1>5, <1>9
  <1>11. DOMAIN session' \subseteq Sessions /\ current' \in Sessions
    BY <1>1, <1>5 DEF SessionsInv
  <1> QED
    BY <1>3, <1>9, <1>10, <1>11 DEF SessionsInv

LEMMA SessionsStep ==
  ASSUME SessionsInv, BridgeNext
  PROVE  SessionsInv'
  <1>1. ASSUME NEW l \in Lines,
               \/ \E s \in Sessions \cup {NoSession} : Message(l, s)
               \/ BadLine(l) \/ MessageFails(l)
        PROVE  SessionsInv'
    <2>1. /\ line[l].phase # "answered"
          /\ \E s \in Sessions \cup {NoSession} :
               \/ line' = [line EXCEPT ![l].phase = "sent", ![l].named = s]
               \/ line' = [line EXCEPT ![l].phase = "refused"]
          /\ UNCHANGED <<session, current>>
      BY <1>1 DEF Message, BadLine, MessageFails
    <2>2. /\ line' \in [Lines -> Line]
          /\ \A k \in Lines \ {l} : line'[k] = line[k]
      BY <2>1 DEF SessionsInv, Line
    <2> QED
      BY <2>1, <2>2, LineMoves
  <1>2. ASSUME NEW l \in Lines,
               DiffApplied(l) \/ DiffForwarded(l) \/ DiffAnswered(l)
        PROVE  SessionsInv'
    <2>1. /\ line[l].phase # "answered"
          /\ \E p \in {"unanswered", "answered", "forwarded"} :
               line' = [line EXCEPT ![l].phase = p]
          /\ UNCHANGED <<session, current>>
      BY <1>2 DEF DiffApplied, DiffForwarded, DiffAnswered
    <2>2. /\ line' \in [Lines -> Line]
          /\ \A k \in Lines \ {l} : line'[k] = line[k]
      BY <2>1 DEF SessionsInv, Line
    <2> QED
      BY <2>1, <2>2, LineMoves
  <1>3. ASSUME NEW s \in Sessions, SessionDelete(s)
        PROVE  SessionsInv'
    <2>1. /\ session' = [t \in DOMAIN session \ {s} |-> session[t]]
          /\ current' \in {NoSession, current} /\ line' = line
      BY <1>3 DEF SessionDelete
    <2>2. DOMAIN session' = DOMAIN session \ {s}
      BY <2>1
    <2>3. session' \in [DOMAIN session' -> Seq(Entries)]
      BY <2>1, <2>2 DEF SessionsInv
    <2>4. \A t \in DOMAIN session' : session'[t] = session[t]
      BY <2>1
    <2> QED
      BY <2>1, <2>2, <2>3, <2>4 DEF SessionsInv
  <1>4. ASSUME NEW s \in Sessions, SessionResume(s)
        PROVE  SessionsInv'
    BY <1>4 DEF SessionResume, SessionsInv
  <1> QED
    BY <1>1, <1>2, <1>3, <1>4, MessageAnsweredInv DEF BridgeNext

LEMMA HistoriesWhole ==
  ASSUME SessionsInv
  PROVE  SessionsHoldExchanges
  <1>1. ASSUME NEW s \in DOMAIN session, NEW i \in DOMAIN session[s]
        PROVE  /\ IF i % 2 = 1
                  THEN session[s][i].role = "user" /\ i + 1 \in DOMAIN session[s]
                  ELSE session[s][i] = Entry("agent", session[s][i - 1].of)
               /\ line[session[s][i].of].filed = s
    <2> DEFINE h == session[s]
    <2>1. /\ h \in Seq(Entries) /\ WholeExchanges(h) /\ FiledUnder(h, s, line)
          /\ i \in DOMAIN h
      BY <1>1 DEF SessionsInv
    <2> HIDE DEF h
    <2>2. i \in 1..Len(h) /\ Len(h) \in Nat /\ DOMAIN h = 1..Len(h)
      BY <2>1
    <2>3. i % 2 = 1 \/ i % 2 = 0
      BY <2>2
    <2>4. i % 2 = 1 => i + 1 \in 1..Len(h)
      <3>1. Len(h) % 2 = 0
        BY <2>1 DEF WholeExchanges
      <3>2. i % 2 = 1 => i # Len(h)
        BY <3>1
      <3> QED
        BY <2>2, <3>2
    <2>5. /\ IF i % 2 = 1
             THEN h[i].role = "user" /\ i + 1 \in DOMAIN h
             ELSE h[i] = Entry("agent", h[i - 1].of)
          /\ line[h[i].of].filed = s
      BY <2>1, <2>2, <2>3, <2>4 DEF WholeExchanges, FiledUnder
    <2> QED
      BY <2>5 DEF h
  <1> QED
    BY <1>1 DEF SessionsHoldExchanges

(***************************************************************************)
(* However the editor's requests overlap, sessions are deleted and others  *)
(* resumed: a history holds whole exchanges, and an answered message is in *)
(* the session its answer named.                                           *)
(***************************************************************************)
THEOREM HistoriesHoldExchanges == RuntimeSpec => []SessionsHoldExchanges
  <1>1. RuntimeInit => SessionsInv
    BY SessionsInit DEF RuntimeInit
  <1>2. SessionsInv /\ [RuntimeNext]_<<exercised, pluginVars, realtimeVars,
                        paymentVars, ballot, specialistVars, elicitationVars,
                        bridgeVars>> => SessionsInv'
    <2> SUFFICES ASSUME SessionsInv, BridgeNext \/ UNCHANGED bridgeVars
                 PROVE  SessionsInv'
      BY DEF RuntimeNext
    <2>1. CASE UNCHANGED bridgeVars
      BY <2>1 DEF bridgeVars, SessionsInv
    <2> QED
      BY <2>1, SessionsStep
  <1> QED
    BY <1>1, <1>2, HistoriesWhole, PTL DEF RuntimeSpec

=============================================================================
