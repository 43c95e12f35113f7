------------------------------- MODULE Tokens -------------------------------
(***************************************************************************)
(* The properties of the token layer and what their owners and issuers do  *)
(* with them (tokencore/tx.cpp, sp.cpp, sto.cpp), next to the exchange of  *)
(* tokens for tokens (MetaDEx): fixed, managed and crowdsale issuance,     *)
(* sends of every kind, change of issuer and the freezing of addresses.    *)
(*                                                                         *)
(* An action is a transaction as interpretPacket applies it, the end of a  *)
(* block or the begin of the next.  `sending' holds the outputs of a send  *)
(* to many that are still to be moved.  The time of a block is its number  *)
(* and a week is one block, so that the early-bird bonus of a crowdsale    *)
(* changes from block to block; the time that counts for property 1 is any *)
(* time.  Amounts are whole units: the code's scaling by 10^8 and 10^12    *)
(* cancels.                                                                *)
(***************************************************************************)
EXTENDS MetaDEx, Sequences

CONSTANTS
    Amounts,                    \* the amounts that transactions name
    Scenarios,                  \* what was issued before: states to start from
    InitFeatureBlock,
    Receivers,                  \* the addresses that transactions send to
    Splits,                     \* the outputs of sends to many: <<address, amount>>...
    Deadlines, EarlyBirds, Percentages,
    FreezeWait,                 \* TOKEN_FREEZE_WAIT_PERIOD
    Exodus,                     \* exodus_address
    Vested,                     \* block -> how much of property 1 its time may call for
    MaxTokens,                  \* MAX_INT_8_BYTES
    RatioUnit                   \* 10^20, the precision of the last share

ASSUME RatioIsFine == MaxTokens \in Nat /\ RatioUnit \in Nat /\ RatioUnit > MaxTokens
ASSUME InputsType ==
    /\ Amounts \subseteq 0 .. MaxTokens /\ Receivers \subseteq Address
    /\ Deadlines \subseteq Nat /\ EarlyBirds \subseteq Nat /\ Percentages \subseteq Nat
    /\ FreezeWait \in Nat
    /\ Exodus \in Address /\ Vested \in [0 .. MaxBlock -> SUBSET (0 .. MaxTokens)]
    /\ Splits \subseteq Seq(Address \X (0 .. 2 * MaxTokens + 1))
ASSUME FeaturesType ==
    /\ InitFeatureBlock \in [DOMAIN InitFeatureBlock -> Int]
    /\ Toggled \cup {"metadex", "allpairs"} \subseteq DOMAIN InitFeatureBlock

VARIABLES
    my_crowds,                  \* issuer -> CMPCrowd
    setFreezingEnabledProperties,
    sending,                    \* the send to many that is being applied
    blockEnded                  \* the block has ended, the next has not begun

issueVars == <<my_crowds, setFreezingEnabledProperties>>
loopVars == <<sending, blockEnded>>
vars == <<mdexVars, issueVars, loopVars>>

\* RPD as the property that a crowdsale desires, and amounts as the words of a
\* transaction, of which the upper half are negative for the tallies.
RPD == 0
Word == 2 * (MaxTokens + 1)
Signed(x) == IF x <= MaxTokens THEN x ELSE x - Word

\* What the database records of a property: `created' and `revoked' are the
\* sums of its historicalData.  Property 1 is implied: its entry, the same at
\* all times, is neither fixed nor managed and has no number of tokens; here
\* `num' is what exodus_prev says block ends have issued of it.
SPEntry == [kind : {"implied", "fixed", "managed", "variable"}, issuer : Address, num : Nat,
            desired : Property \cup {RPD}, deadline : Nat, earlybird : Nat, percentage : Nat,
            created : Nat, revoked : Nat, missed : Nat]
CMPCrowd == [prop : Property, desired : Property \cup {RPD}, deadline : Nat, user : Nat, issuer : Nat]
NoSend == << >>

exodus_prev == sp[MSC].num

NewSP(kind, who, num) ==
    [kind |-> kind, issuer |-> who, num |-> num, desired |-> MSC, deadline |-> 0, earlybird |-> 0,
     percentage |-> 0, created |-> 0, revoked |-> 0, missed |-> 0]

\* The supply that the records of a property account for: what was issued at
\* once or by block ends, granted and not revoked, or created by a crowdsale.
Recorded(entry, crowds, p) ==
    LET open == {a \in DOMAIN crowds : crowds[a].prop = p}
    IN  CASE entry[p].kind \in {"implied", "fixed"} -> entry[p].num
          [] entry[p].kind = "managed" -> entry[p].created - entry[p].revoked
          [] open # {} -> SumOver(open, LAMBDA a : crowds[a].user + crowds[a].issuer)
          [] OTHER -> entry[p].created + entry[p].missed

\* What was issued before is consistent: property 1, implied, has owners (the
\* first block of the token layer has ended), a crowdsale is of a property of
\* its own, the balances are what the records say.
ConsistentRecords(entry, crowds) ==
    /\ DOMAIN entry \subseteq Property /\ entry \in [DOMAIN entry -> SPEntry]
    /\ DOMAIN crowds \subseteq Address /\ crowds \in [DOMAIN crowds -> CMPCrowd]
    /\ MSC \in DOMAIN entry /\ entry[MSC].kind = "implied" /\ entry[MSC].num > 0
    /\ \A a \in DOMAIN crowds : /\ crowds[a].prop \in DOMAIN entry
                                /\ entry[crowds[a].prop].kind = "variable"
                                /\ entry[crowds[a].prop].missed = 0
    /\ \A a, b \in DOMAIN crowds : crowds[a].prop = crowds[b].prop => a = b

ASSUME ScenariosAssumption ==
    \A start \in Scenarios :
        /\ start.idx \in Nat
        /\ start.balance \in [Slot -> Nat]
        /\ start.freezing \subseteq Property \X Nat
        /\ ConsistentRecords(start.sp, start.crowds)
        /\ \A p \in Property :
              SumOver(Address, LAMBDA a : start.balance[<<a, p>>]) =
                  IF p \in DOMAIN start.sp THEN Recorded(start.sp, start.crowds, p) ELSE 0
        /\ \A p \in DOMAIN start.sp : Recorded(start.sp, start.crowds, p) <= MaxTokens

Init ==
    /\ \E start \in Scenarios :
        /\ idx = start.idx
        /\ balance = start.balance
        /\ sp = start.sp
        /\ my_crowds = start.crowds
        /\ setFreezingEnabledProperties = start.freezing
    /\ metadexReserve = [s \in Slot |-> 0]
    /\ metadex = {} /\ taking = NoOrder /\ returning = {}
    /\ feeCache = [p \in Property |-> 0]
    /\ distributionThresholds =
          [p \in Property |->
              Max2(1, SumOver(Address, LAMBDA a : balance[<<a, p>>]) \div FeeThreshold)]
    /\ featureBlock = InitFeatureBlock
    /\ setFrozenAddresses = {}
    /\ block = 1 /\ halted = FALSE
    /\ sending = NoSend /\ blockEnded = FALSE

\* The state that the rest of a handler sees: balances, fees, thresholds.
Now == [bal |-> balance, fees |-> feeCache, thr |-> distributionThresholds]
Becomes(L) == balance' = L.bal /\ feeCache' = L.fees /\ distributionThresholds' = L.thr

TallyTotal(bal, p) == SumOver(Address, LAMBDA a : Holding(bal, metadexReserve, a, p))
getTotalTokens(L, p) ==
    IF sp[p].kind = "fixed" THEN sp[p].num ELSE TallyTotal(L.bal, p) + L.fees[p]

\* NotifyTotalTokensChanged, with the new total.
Notified(L, p, total) ==
    LET thr == [L.thr EXCEPT ![p] = Max2(1, total \div FeeThreshold)]
    IN  IF Distributes(L.fees, thr, p)
        THEN [bal |-> WithFees(L.bal, metadexReserve, p, L.fees[p]),
              fees |-> [L.fees EXCEPT ![p] = 0], thr |-> thr]
        ELSE [L EXCEPT !.thr = thr]
-----------------------------------------------------------------------------
\* calculateFundraiser: the tokens for the buyer and the bonus of the issuer.
\* When they would exceed the maximum, what can still be created is split in
\* proportion and the crowdsale closes.
BuyerTokens(e, n) == (n * e.num * (100 + Max2(0, e.deadline - block) * e.earlybird)) \div 100
IssuerBonus(e, n) == (n * e.percentage) \div 100

calculateFundraiser(e, n, total) ==
    LET user == BuyerTokens(e, n)
        issuer == IssuerBonus(e, user)
        creatable == MaxTokens - total
        ratio == ((user + issuer) * RatioUnit) \div creatable
        capped == (issuer * RatioUnit) \div ratio
    IN  IF total + user + issuer <= MaxTokens
        THEN [user |-> user, issuer |-> issuer, close |-> FALSE]
        ELSE [user |-> creatable - capped, issuer |-> capped, close |-> TRUE]

Participates(to, p) == to \in DOMAIN my_crowds /\ my_crowds[to].desired = p

\* With nothing left to create, calculateFundraiser divides by zero: the
\* exception leaves the handler with the tokens sent and no part taken.
FundraiserThrows(L, to, n) ==
    LET c == my_crowds[to]
        user == BuyerTokens(sp[c.prop], n)
    IN  /\ getTotalTokens(L, c.prop) = MaxTokens
        /\ user + IssuerBonus(sp[c.prop], user) > 0

\* logicHelper_CrowdsaleParticipation of a send of n of the desired property
\* to the issuer, with eraseMaxedCrowdsale.
CrowdsaleParticipation(L, who, to, n) ==
    LET c == my_crowds[to]
        t == calculateFundraiser(sp[c.prop], n, getTotalTokens(L, c.prop))
        user == c.user + t.user
        issuer == c.issuer + t.issuer
        bal == Credit(Credit(L.bal, who, c.prop, t.user), to, c.prop, t.issuer)
        credited == [L EXCEPT !.bal = bal]
    IN  /\ Becomes(Notified(credited, c.prop, getTotalTokens(credited, c.prop)))
        /\ IF t.close
           THEN /\ sp' = [sp EXCEPT ![c.prop].created = user + issuer]
                /\ my_crowds' = Without(my_crowds, {to})
           ELSE /\ my_crowds' = [my_crowds EXCEPT ![to].user = user, ![to].issuer = issuer]
                /\ UNCHANGED sp

\* The tokens moved (L) may buy into a crowdsale of the receiver.
MovedTo(L, who, to, p, n) ==
    IF ~Participates(to, p) THEN Becomes(L) /\ UNCHANGED <<sp, my_crowds, halted>>
    ELSE IF FundraiserThrows(L, to, n) THEN Becomes(L) /\ halted' = TRUE /\ UNCHANGED <<sp, my_crowds>>
    ELSE CrowdsaleParticipation(L, who, to, n) /\ UNCHANGED halted

\* Rounding each purchase may have cost the issuer some of the bonus.
GetMissedIssuerBonus(p, c) ==
    LET exact == (c.user * sp[p].percentage) \div 100
    IN  IF exact < c.issuer THEN 0
        ELSE Min2(exact - c.issuer, MaxTokens - (c.user + c.issuer))

Closed(p, c) == [sp[p] EXCEPT !.created = c.user + c.issuer, !.missed = GetMissedIssuerBonus(p, c)]
-----------------------------------------------------------------------------
Tx == idx' = idx + 1

SimpleSend(who, to, p, n) ==
    /\ Permitted(who, p) /\ IsPropertyIdValid(p)
    /\ n > 0 /\ balance[<<who, p>>] >= n
    /\ MovedTo([Now EXCEPT !.bal = Credit(Debit(balance, who, p, n), to, p, n)], who, to, p, n)
    /\ Tx
    /\ UNCHANGED <<bookVars, featureBlock, setFrozenAddresses, block, setFreezingEnabledProperties>>

\* A payment of n RPD to the issuer of a crowdsale for RPD, which the payment
\* names; no tokens move but those that it creates.
RapidsPayment(who, to, n) ==
    /\ Ready
    /\ n > 0
    /\ Participates(to, RPD)
    /\ MovedTo(Now, who, to, RPD, n)
    /\ Tx
    /\ UNCHANGED <<bookVars, featureBlock, setFrozenAddresses, block, setFreezingEnabledProperties>>

\* logicMath_SendToMany checks the sum of the outputs, as a word, and then
\* moves them one after the other.
SendToMany(who, p, outs) ==
    LET total == SumOver(DOMAIN outs, LAMBDA i : outs[i][2]) % Word
    IN  /\ Permitted(who, p) /\ IsPropertyIdValid(p)
        /\ total > 0 /\ total <= MaxTokens
        /\ balance[<<who, p>>] >= total
        /\ sending' = [from |-> who, prop |-> p, left |-> outs]
        /\ Tx
        /\ UNCHANGED <<balance, bookVars, feeVars, ruleVars, issueVars, blockEnded>>

\* What update_tally_map accepts: an amount other than zero, a result within
\* the range, and no debit of a frozen address.
TallyAccepts(bal, a, p, n) ==
    /\ n # 0
    /\ bal[<<a, p>>] + n \in 0 .. MaxTokens
    /\ n < 0 => <<a, p>> \notin setFrozenAddresses

\* The next output, from the sender to its receiver, each in an assert.
SendOutput ==
    LET from == sending.from
        p == sending.prop
        to == Head(sending.left)[1]
        word == Head(sending.left)[2]
        taken == Signed((Word - word) % Word)
        bal == Credit(balance, from, p, taken)
    IN  /\ sending # NoSend /\ ~halted
        /\ IF TallyAccepts(balance, from, p, taken) /\ TallyAccepts(bal, to, p, Signed(word))
           THEN balance' = Credit(bal, to, p, Signed(word)) /\ UNCHANGED halted
           ELSE halted' = TRUE /\ UNCHANGED balance
        /\ sending' = IF Len(sending.left) = 1 THEN NoSend ELSE [sending EXCEPT !.left = Tail(@)]
        /\ UNCHANGED <<bookVars, feeVars, featureBlock, setFrozenAddresses, block, sp, idx, issueVars, blockEnded>>

\* What the owners of q get is moved to them: all of n, as the last assert of
\* logicMath_SendToOwners says.
Distributed(who, p, q, n) ==
    LET share == STO_GetReceivers(balance, metadexReserve, {who}, q, n)
    IN  [s \in Slot |-> IF s[2] # p THEN balance[s]
           ELSE IF s[1] = who THEN balance[s] - SumOver(DOMAIN share, LAMBDA a : share[a])
           ELSE IF s[1] \in DOMAIN share THEN balance[s] + share[s[1]]
           ELSE balance[s]]

\* Version 0, to the owners of the same property; version 1 (FEATURE_STOV1),
\* to those of another one.
SendToOwners(who, p, q, n, version) ==
    LET moved == [Now EXCEPT !.bal = Distributed(who, p, q, n)]
    IN  /\ Permitted(who, p) /\ IsPropertyIdValid(p)
        /\ n > 0 /\ balance[<<who, p>>] >= n
        /\ DOMAIN STO_GetReceivers(balance, metadexReserve, {who}, q, n) # {}
        /\ \/ /\ version = 0 /\ q = p
              /\ Becomes(Notified(moved, MSC, getTotalTokens(moved, MSC)))
           \/ /\ version = 1 /\ IsFeatureActivated("stov1") /\ IsPropertyIdValid(q)
              /\ Becomes(moved)
        /\ Tx
        /\ UNCHANGED <<bookVars, ruleVars, issueVars>>

SendableAll(who) == {p \in Property : balance[<<who, p>>] > 0}

\* A send of everything names no property; it leaves out frozen ones.
Sendable(who) == {p \in Property : balance[<<who, p>>] > 0 /\ <<who, p>> \notin setFrozenAddresses}

SendAll(who, to) ==
    /\ Ready
    /\ Sendable(who) # {}
    /\ balance' = [s \in Slot |-> IF s[2] \notin Sendable(who) THEN balance[s]
                    ELSE balance[s] - (IF s[1] = who THEN balance[s] ELSE 0)
                                    + (IF s[1] = to THEN balance[<<who, s[2]>>] ELSE 0)]
    /\ Tx
    /\ UNCHANGED <<bookVars, feeVars, ruleVars, issueVars>>
-----------------------------------------------------------------------------
\* Properties get the next free identifier.
NextSPID == Property \ DOMAIN sp
IsNextSPID(p) == p \in NextSPID /\ \A q \in NextSPID : p <= q

CreatePropertyFixed(who, p, n) ==
    /\ Ready /\ IsNextSPID(p)
    /\ n > 0
    /\ sp' = Put(sp, p, NewSP("fixed", who, n))
    /\ Becomes(Notified([Now EXCEPT !.bal = Credit(balance, who, p, n)], p, n))
    /\ Tx
    /\ UNCHANGED <<bookVars, modeVars, my_crowds, setFreezingEnabledProperties>>

CreatePropertyManaged(who, p) ==
    /\ Ready /\ IsNextSPID(p)
    /\ sp' = Put(sp, p, NewSP("managed", who, 0))
    /\ Tx
    /\ UNCHANGED <<balance, bookVars, feeVars, modeVars, my_crowds, setFreezingEnabledProperties>>

\* A crowdsale: n tokens for each unit of the desired property, which from
\* version 2 on need not exist (yet), and may be RPD.
CreatePropertyVariable(who, p, desired, n, deadline, earlybird, percentage) ==
    /\ Permitted(who, desired) /\ IsNextSPID(p)
    /\ n > 0
    /\ deadline >= block
    /\ who \notin DOMAIN my_crowds
    /\ sp' = Put(sp, p, [NewSP("variable", who, n) EXCEPT !.desired = desired, !.deadline = deadline,
                            !.earlybird = earlybird, !.percentage = percentage])
    /\ my_crowds' = Put(my_crowds, who, [prop |-> p, desired |-> desired, deadline |-> deadline,
                                         user |-> 0, issuer |-> 0])
    /\ Tx
    /\ UNCHANGED <<balance, bookVars, feeVars, modeVars, setFreezingEnabledProperties>>

CloseCrowdsale(who, p) ==
    /\ Permitted(who, p) /\ IsPropertyIdValid(p)
    /\ who \in DOMAIN my_crowds
    /\ my_crowds[who].prop = p
    /\ sp' = [sp EXCEPT ![p] = Closed(p, my_crowds[who])]
    /\ balance' = Credit(balance, sp[p].issuer, p, GetMissedIssuerBonus(p, my_crowds[who]))
    /\ my_crowds' = Without(my_crowds, {who})
    /\ Tx
    /\ UNCHANGED <<bookVars, feeVars, modeVars, setFreezingEnabledProperties>>

\* mastercore_handler_block_end: calculate_and_update_devmsc gives the exodus
\* address what has vested of property 1 since the last time; nothing, when
\* the time of the block is before that of an earlier one.
BlockEnd(devmsc) ==
    LET minted == [Now EXCEPT !.bal = Credit(balance, Exodus, MSC, devmsc - exodus_prev)]
    IN  /\ Idle /\ sending = NoSend /\ ~blockEnded
        /\ block < MaxBlock
        /\ IF devmsc < exodus_prev THEN UNCHANGED <<balance, feeVars, sp>>
           ELSE /\ sp' = [sp EXCEPT ![MSC].num = devmsc]
                /\ Becomes(Notified(minted, MSC, getTotalTokens(minted, MSC)))
        /\ blockEnded' = TRUE
        /\ UNCHANGED <<bookVars, modeVars, idx, issueVars, sending>>

\* mastercore_handler_block_begin: the crowdsales past their deadline are
\* closed (eraseExpiredCrowdsale).
BlockBegin ==
    LET expired == {a \in DOMAIN my_crowds : block + 1 > my_crowds[a].deadline}
        ended == {my_crowds[a].prop : a \in expired}
        crowd(p) == my_crowds[CHOOSE a \in expired : my_crowds[a].prop = p]
    IN  /\ blockEnded
        /\ block' = block + 1
        /\ sp' = [p \in DOMAIN sp |-> IF p \in ended THEN Closed(p, crowd(p)) ELSE sp[p]]
        /\ balance' = [s \in Slot |-> IF s[2] \in ended /\ s[1] = sp[s[2]].issuer
                                      THEN balance[s] + GetMissedIssuerBonus(s[2], crowd(s[2]))
                                      ELSE balance[s]]
        /\ my_crowds' = Without(my_crowds, expired)
        /\ blockEnded' = FALSE
        /\ UNCHANGED <<bookVars, feeVars, featureBlock, setFrozenAddresses, halted, idx,
                       setFreezingEnabledProperties, sending>>
-----------------------------------------------------------------------------
IsManagedBy(who, p) == IsPropertyIdValid(p) /\ sp[p].kind = "managed" /\ sp[p].issuer = who

\* FEATURE_GRANTEFFECTS, active from block 0, keeps grants out of crowdsales.
GrantTokens(who, to, p, n) ==
    LET granted == [Now EXCEPT !.bal = Credit(balance, to, p, n)]
    IN  /\ Permitted(who, p)
        /\ IsManagedBy(who, p)
        /\ n > 0
        /\ n <= MaxTokens - getTotalTokens(Now, p)
        /\ sp' = [sp EXCEPT ![p].created = @ + n]
        /\ Becomes(Notified(granted, p, getTotalTokens(granted, p)))
        /\ Tx
        /\ UNCHANGED <<bookVars, modeVars, my_crowds, setFreezingEnabledProperties>>

\* Any owner may revoke tokens.
RevokeTokens(who, p, n) ==
    LET revoked == [Now EXCEPT !.bal = Debit(balance, who, p, n)]
    IN  /\ Permitted(who, p)
        /\ IsPropertyIdValid(p) /\ sp[p].kind = "managed"
        /\ n > 0 /\ balance[<<who, p>>] >= n
        /\ sp' = [sp EXCEPT ![p].revoked = @ + n]
        /\ Becomes(Notified(revoked, p, getTotalTokens(revoked, p)))
        /\ Tx
        /\ UNCHANGED <<bookVars, modeVars, my_crowds, setFreezingEnabledProperties>>

\* updateSP refuses to change property 1, and the assert around it fails.
ChangeIssuer(who, to, p) ==
    /\ Permitted(who, p) /\ IsPropertyIdValid(p)
    /\ sp[p].issuer = who
    /\ who \notin DOMAIN my_crowds
    /\ to \notin DOMAIN my_crowds
    /\ IF p = MSC THEN halted' = TRUE /\ UNCHANGED sp
       ELSE sp' = [sp EXCEPT ![p].issuer = to] /\ UNCHANGED halted
    /\ Tx
    /\ UNCHANGED <<balance, bookVars, feeVars, featureBlock, setFrozenAddresses, block, issueVars>>
-----------------------------------------------------------------------------
isFreezingEnabled(p) == \E e \in setFreezingEnabledProperties : e[1] = p /\ block >= e[2]

EnableFreezing(who, p) ==
    /\ Permitted(who, p) /\ IsManagedBy(who, p)
    /\ ~isFreezingEnabled(p)
    /\ setFreezingEnabledProperties' = setFreezingEnabledProperties \cup
          {<<p, IF IsFeatureActivated("freezenotice") THEN block + FreezeWait ELSE block>>}
    /\ Tx
    /\ UNCHANGED <<balance, bookVars, feeVars, ruleVars, my_crowds>>

\* The entries of p in setFrozenAddresses and, after the first of them in the
\* order of the set, what the iterator may come to.
FrozenOf(p) == {s \in setFrozenAddresses : s[2] = p}
FollowsIn(s, t) == s[1] > t[1] \/ (s[1] = t[1] /\ s[2] > t[2])
HasSuccessor(p) ==
    \E s \in setFrozenAddresses : \E t \in FrozenOf(p) :
        FollowsIn(s, t) /\ \A u \in FrozenOf(p) \ {t} : FollowsIn(u, t)

DisableFreezingUnfreezesNone(who, p) ==
    /\ Permitted(who, p) /\ IsManagedBy(who, p)
    /\ isFreezingEnabled(p)
    /\ setFreezingEnabledProperties' = {e \in setFreezingEnabledProperties : e[1] # p}
    /\ Tx
    /\ UNCHANGED <<balance, bookVars, feeVars, ruleVars, my_crowds>>

\* disableFreezing takes out the last entry of the property and all frozen
\* addresses.  It asserts after each that the entry which then follows is not
\* frozen, which no entry of the set satisfies, and reads past the end when
\* none follows; and at the end that no other entry of the property is left.
DisableFreezing(who, p) ==
    /\ Permitted(who, p) /\ IsManagedBy(who, p)
    /\ isFreezingEnabled(p)
    /\ setFreezingEnabledProperties' =
          {e \in setFreezingEnabledProperties :
              e[1] = p => \E f \in setFreezingEnabledProperties : f[1] = p /\ f[2] > e[2]}
    /\ setFrozenAddresses' = setFrozenAddresses \ FrozenOf(p)
    /\ \/ ~HasSuccessor(p) /\ ~(\E e \in setFreezingEnabledProperties' : e[1] = p) /\ UNCHANGED halted
       \/ FrozenOf(p) # {} /\ halted' = TRUE
       \/ (\E e \in setFreezingEnabledProperties' : e[1] = p) /\ halted' = TRUE
    /\ Tx
    /\ UNCHANGED <<balance, bookVars, feeVars, featureBlock, block, sp, my_crowds>>

FreezeTokens(who, to, p) ==
    /\ Permitted(who, p) /\ IsManagedBy(who, p)
    /\ isFreezingEnabled(p)
    /\ <<to, p>> \notin setFrozenAddresses
    /\ setFrozenAddresses' = setFrozenAddresses \cup {<<to, p>>}
    /\ Tx
    /\ UNCHANGED <<balance, bookVars, feeVars, featureBlock, block, halted, sp, issueVars>>

UnfreezeTokens(who, to, p) ==
    /\ Permitted(who, p) /\ IsManagedBy(who, p)
    /\ isFreezingEnabled(p)
    /\ <<to, p>> \in setFrozenAddresses
    /\ setFrozenAddresses' = setFrozenAddresses \ {<<to, p>>}
    /\ Tx
    /\ UNCHANGED <<balance, bookVars, feeVars, featureBlock, block, halted, sp, issueVars>>

Transaction ==
    \/ \E who \in Address, p \in Property :
        \/ \E n \in Amounts :
            \/ \E to \in Receivers : SimpleSend(who, to, p, n) \/ GrantTokens(who, to, p, n)
            \/ \E q \in Property, version \in {0, 1} : SendToOwners(who, p, q, n, version)
            \/ RevokeTokens(who, p, n)
            \/ CreatePropertyFixed(who, p, n)
            \/ \E q \in Property \cup {RPD}, d \in Deadlines, e \in EarlyBirds, i \in Percentages :
                  CreatePropertyVariable(who, p, q, n, d, e, i)
        \/ CreatePropertyManaged(who, p)
        \/ CloseCrowdsale(who, p)
        \/ EnableFreezing(who, p)
        \/ DisableFreezing(who, p)
        \/ \E to \in Receivers : \/ ChangeIssuer(who, to, p)
                                \/ FreezeTokens(who, to, p)
                                \/ UnfreezeTokens(who, to, p)
    \/ \E who \in Address, to \in Receivers : SendAll(who, to) \/ \E n \in Amounts : RapidsPayment(who, to, n)

\* Between transactions of a block.
BlockIsOpen == Ready /\ sending = NoSend /\ ~blockEnded

Next ==
    \/ BlockIsOpen /\ Transaction /\ UNCHANGED loopVars
    \/ BlockIsOpen /\ MetaDExTransaction /\ UNCHANGED <<issueVars, loopVars>>
    \/ BlockIsOpen /\ \E who \in Address, p \in Property, outs \in Splits : SendToMany(who, p, outs)
    \/ SendOutput
    \/ MetaDExStep /\ UNCHANGED <<issueVars, loopVars>>
    \/ \E devmsc \in Vested[block] : BlockEnd(devmsc)
    \/ BlockBegin

Spec == Init /\ [][Next]_vars
-----------------------------------------------------------------------------
\* Type invariant; that of the book is BookTypeOK.
TypeOK ==
    /\ DOMAIN sp \subseteq Property /\ sp \in [DOMAIN sp -> SPEntry]
    /\ DOMAIN my_crowds \subseteq Address /\ my_crowds \in [DOMAIN my_crowds -> CMPCrowd]

RecordedSupply(p) == Recorded(sp, my_crowds, p)

\* Every token in a balance, reserved by an order or held as a fee is one that
\* the records of its property account for, and the other way round, through
\* sends, distributions to owners, trades with fees and crowdsales.  For an
\* open crowdsale this is the consistency check of GetMissedIssuerBonus.  No
\* property exceeds the largest number of tokens, however its crowdsale ends:
\* with a capped purchase, the missed bonus or neither.
SupplyIsRecorded ==
    /\ TypeOK
    /\ \A p \in DOMAIN sp : /\ TallyTotal(balance, p) + feeCache[p] = RecordedSupply(p)
                            /\ RecordedSupply(p) <= MaxTokens

\* An address is frozen only while its property can be frozen, so that its
\* issuer can unfreeze it again: disableFreezing leaves no address behind.
FrozenNeedsEnabled ==
    ~halted => \A s \in setFrozenAddresses : isFreezingEnabled(s[2])
=============================================================================
