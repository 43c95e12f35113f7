---------------------------- MODULE TokensProofs -----------------------------
(****************************************************************************)
(* Proofs about the transactions on properties, for all scenarios, amounts, *)
(* addresses and properties.  With the steps of the exchange, which         *)
(* MetaDExProofs has, they make TInv inductive, so that                     *)
(*                                                                          *)
(*   - the reserve is the sum of what the orders have left;                 *)
(*   - the supply of every property is what the records say, and within     *)
(*     the largest number of tokens;                                        *)
(*   - no frozen balance is debited.                                        *)
(****************************************************************************)
EXTENDS MetaDExProofs, TLAPS

(* The records of the properties. *)

\* RecordedSupply, case by case.
LEMMA RecordedIs ==
  ASSUME NEW s, NEW c, ConsistentRecords(s, c), NEW p \in DOMAIN s
  PROVE  /\ ~OpenFor(c, p) => Recorded(s, c, p) = Recd(s[p])
         /\ \A a \in DOMAIN c : c[a].prop = p => Recorded(s, c, p) = c[a].user + c[a].issuer
<1> DEFINE open == {a \in DOMAIN c : c[a].prop = p}
           total == SumOver(open, LAMBDA a : c[a].user + c[a].issuer)
<1>1. Recorded(s, c, p) = CASE s[p].kind \in {"implied", "fixed"} -> s[p].num
                            [] s[p].kind = "managed" -> s[p].created - s[p].revoked
                            [] open # {} -> total
                            [] OTHER -> s[p].created + s[p].missed
  BY Zenon DEF Recorded
<1>2. ASSUME ~OpenFor(c, p) PROVE Recorded(s, c, p) = Recd(s[p])
  <2>1. open = {}
    BY <1>2, Zenon DEF OpenFor
  <2> HIDE DEF open, total
  <2> QED
    BY <1>1, <2>1 DEF Recd
<1>3. ASSUME NEW a \in DOMAIN c, c[a].prop = p PROVE Recorded(s, c, p) = c[a].user + c[a].issuer
  <2>1. s[p].kind = "variable" /\ c[a] \in CMPCrowd
    BY <1>3, Zenon DEF ConsistentRecords
  <2>2. open = {a}
    BY <1>3, Zenon DEF ConsistentRecords
  <2> DEFINE f == [b \in open |-> c[b].user + c[b].issuer]
  <2>3. total = Sum(f, open)
    BY ZenonT(30) DEF SumOver, MapThenSumSet, MapThenFoldSet, Sum, Solves, SumStep
  <2>4. f[a] = c[a].user + c[a].issuer
    BY <2>2, Zenon
  <2>5. c[a].user + c[a].issuer \in Int
    BY <2>1 DEF CMPCrowd
  <2> HIDE DEF f, open, total
  <2>6. Sum(f, open) = f[a]
    BY <2>2, <2>4, <2>5, SumOne, Zenon
  <2>7. Recorded(s, c, p) = total
    BY <1>1, <2>1, <2>2
  <2> QED
    BY <2>3, <2>4, <2>6, <2>7, Zenon
<1> QED
  BY <1>2, <1>3, Zenon

\* The records change, but not what they say of q.
RecordsKept(s, c, s2, c2, q) ==
    /\ q \in DOMAIN s2 <=> q \in DOMAIN s
    /\ q \in DOMAIN s => Recd(s2[q]) = Recd(s[q])
    /\ OpenFor(c, q) => OpenFor(c2, q)
    /\ \A a \in DOMAIN c2 : c2[a].prop = q => a \in DOMAIN c /\ c2[a] = c[a]

\* What the records still say of q accounts for as many tokens as before.
LEMMA AccountedKept ==
  ASSUME NEW s, NEW c, NEW s2, NEW c2, NEW q, NEW n, RecordsKept(s, c, s2, c2, q),
         Accounted(s, c, n, q)
  PROVE  Accounted(s2, c2, n, q)
  BY Zenon DEF RecordsKept, Accounted, OpenFor

\* Entries and crowdsales are added or closed, and change in their amounts.
EntriesFollow(s, s2) ==
    /\ DOMAIN s2 \subseteq Property /\ s2 \in [DOMAIN s2 -> SPEntry] /\ DOMAIN s \subseteq DOMAIN s2
    /\ \A p \in DOMAIN s : s2[p].kind = s[p].kind /\ s2[p].num = s[p].num

CrowdsFollow(c, c2) ==
    /\ DOMAIN c2 \subseteq DOMAIN c /\ c2 \in [DOMAIN c2 -> CMPCrowd]
    /\ \A a \in DOMAIN c2 : c2[a].prop = c[a].prop

\* Such a change keeps the records consistent.
LEMMA RecordsFollow ==
  ASSUME NEW s, NEW c, NEW s2, NEW c2, ConsistentRecords(s, c), EntriesFollow(s, s2), CrowdsFollow(c, c2),
         \A a \in DOMAIN c2 : s2[c[a].prop].missed = 0
  PROVE  ConsistentRecords(s2, c2)
<1>1. DOMAIN s2 \subseteq Property /\ s2 \in [DOMAIN s2 -> SPEntry]
  BY Zenon DEF EntriesFollow
<1>2. DOMAIN c2 \subseteq Address /\ c2 \in [DOMAIN c2 -> CMPCrowd]
  BY Zenon DEF CrowdsFollow, ConsistentRecords
<1>3. MSC \in DOMAIN s2 /\ s2[MSC].kind = "implied" /\ s2[MSC].num > 0
  BY Zenon DEF EntriesFollow, ConsistentRecords
<1>4. ASSUME NEW a \in DOMAIN c2
      PROVE  /\ c2[a].prop \in DOMAIN s2
             /\ s2[c2[a].prop].kind = "variable"
             /\ s2[c2[a].prop].missed = 0
  <2>1. a \in DOMAIN c /\ c2[a].prop = c[a].prop
    BY Zenon DEF CrowdsFollow
  <2>2. c[a].prop \in DOMAIN s /\ s[c[a].prop].kind = "variable"
    BY <2>1, Zenon DEF ConsistentRecords
  <2> QED
    BY <2>1, <2>2, Zenon DEF EntriesFollow
<1>5. \A a, b \in DOMAIN c2 : c2[a].prop = c2[b].prop => a = b
  BY Zenon DEF CrowdsFollow, ConsistentRecords
<1> QED
  BY <1>1, <1>2, <1>3, <1>4, <1>5, Zenon DEF ConsistentRecords

\* A new entry.
LEMMA PutEntry ==
  ASSUME NEW s, NEW c, ConsistentRecords(s, c), NEW p \in Property, p \notin DOMAIN s,
         NEW e \in SPEntry, NEW s2, s2 = Put(s, p, e)
  PROVE  /\ ConsistentRecords(s2, c)
         /\ DOMAIN s2 = DOMAIN s \cup {p} /\ s2[p] = e
         /\ \A q \in DOMAIN s : s2[q] = s[q]
         /\ \A q \in Property \ {p} : RecordsKept(s, c, s2, c, q)
         /\ ~OpenFor(c, p)
<1>1. DOMAIN s2 = DOMAIN s \cup {p} /\ s2[p] = e
  BY Zenon DEF Put
<1>2. \A q \in DOMAIN s : s2[q] = s[q]
  BY Zenon DEF Put
<1>3. DOMAIN s \subseteq Property /\ \A q \in DOMAIN s : s[q] \in SPEntry
  BY Zenon DEF ConsistentRecords
<1>4. s2 \in [DOMAIN s2 -> SPEntry]
  <2>1. s2 = [x \in DOMAIN s \cup {p} |-> IF x = p THEN e ELSE s[x]]
    BY Zenon DEF Put
  <2>2. \A x \in DOMAIN s \cup {p} : (IF x = p THEN e ELSE s[x]) \in SPEntry
    BY <1>3, Zenon
  <2> QED
    BY <1>1, <2>1, <2>2, Zenon
<1>5. EntriesFollow(s, s2)
  BY <1>1, <1>2, <1>3, <1>4, Zenon DEF EntriesFollow
<1>6. CrowdsFollow(c, c)
  BY Zenon DEF CrowdsFollow, ConsistentRecords
<1>7. \A a \in DOMAIN c : c[a].prop \in DOMAIN s /\ s2[c[a].prop].missed = 0
  BY <1>2, Zenon DEF ConsistentRecords
<1>8. ConsistentRecords(s2, c)
  BY <1>5, <1>6, <1>7, RecordsFollow
<1>9. \A q \in Property \ {p} : RecordsKept(s, c, s2, c, q)
  BY <1>1, <1>2, Zenon DEF RecordsKept
<1>10. ~OpenFor(c, p)
  BY <1>7, Zenon DEF OpenFor
<1> QED
  BY <1>1, <1>2, <1>8, <1>9, <1>10, Zenon

\* An entry changes.
LEMMA SetEntry ==
  ASSUME NEW s, NEW c, ConsistentRecords(s, c), NEW p \in DOMAIN s,
         NEW e \in SPEntry, e.kind = s[p].kind, e.num = s[p].num, e.missed = s[p].missed,
         NEW s2, s2 = [s EXCEPT ![p] = e]
  PROVE  /\ ConsistentRecords(s2, c)
         /\ DOMAIN s2 = DOMAIN s /\ s2[p] = e
         /\ \A q \in Property \ {p} : RecordsKept(s, c, s2, c, q)
<1>1. DOMAIN s \subseteq Property /\ s \in [DOMAIN s -> SPEntry]
  BY Zenon DEF ConsistentRecords
<1>2. DOMAIN s2 = DOMAIN s /\ s2[p] = e /\ (\A q \in DOMAIN s \ {p} : s2[q] = s[q])
  BY <1>1, Zenon
<1>3. s2 \in [DOMAIN s2 -> SPEntry]
  BY <1>1, Zenon
<1>4. \A q \in DOMAIN s : s2[q].kind = s[q].kind /\ s2[q].num = s[q].num /\ s2[q].missed = s[q].missed
  BY <1>2, Zenon
<1>5. EntriesFollow(s, s2)
  BY <1>1, <1>2, <1>3, <1>4, Zenon DEF EntriesFollow
<1>6. CrowdsFollow(c, c)
  BY Zenon DEF CrowdsFollow, ConsistentRecords
<1>7. \A a \in DOMAIN c : s2[c[a].prop].missed = 0
  BY <1>4, Zenon DEF ConsistentRecords
<1>8. ConsistentRecords(s2, c)
  BY <1>5, <1>6, <1>7, RecordsFollow, Zenon
<1>9. \A q \in Property \ {p} : RecordsKept(s, c, s2, c, q)
  BY <1>2, Zenon DEF RecordsKept
<1> QED
  BY <1>2, <1>8, <1>9, Zenon

\* The crowdsales of the issuers in K close; the entries of their properties
\* change.
LEMMA CrowdsClosed ==
  ASSUME NEW s, NEW c, ConsistentRecords(s, c), NEW K, K \subseteq DOMAIN c,
         NEW s2, DOMAIN s2 = DOMAIN s, s2 \in [DOMAIN s2 -> SPEntry],
         \A q \in DOMAIN s : s2[q].kind = s[q].kind /\ s2[q].num = s[q].num,
         \A q \in DOMAIN s : (\A a \in K : c[a].prop # q) => s2[q] = s[q],
         NEW c2, c2 = Without(c, K)
  PROVE  /\ ConsistentRecords(s2, c2)
         /\ \A q \in Property : (\A a \in K : c[a].prop # q) => RecordsKept(s, c, s2, c2, q)
         /\ \A a \in K : ~OpenFor(c2, c[a].prop)
<1>1. DOMAIN c2 = DOMAIN c \ K /\ \A a \in DOMAIN c2 : c2[a] = c[a]
  BY Zenon DEF Without
<1>2. \A a, b \in DOMAIN c : c[a].prop = c[b].prop => a = b
  BY Zenon DEF ConsistentRecords
<1>3. DOMAIN s \subseteq Property /\ \A a \in DOMAIN c : c[a] \in CMPCrowd /\ c[a].prop \in DOMAIN s /\ s[c[a].prop].missed = 0
  BY Zenon DEF ConsistentRecords
<1>4. CrowdsFollow(c, c2)
  <2>1. c2 \in [DOMAIN c2 -> CMPCrowd]
    <3>1. c2 = [x \in DOMAIN c \ K |-> c[x]]
      BY Zenon DEF Without
    <3> QED
      BY <1>1, <1>3, <3>1, Zenon
  <2> QED
    BY <1>1, <2>1, Zenon DEF CrowdsFollow
<1>5. EntriesFollow(s, s2)
  BY <1>3, Zenon DEF EntriesFollow
<1>6. ASSUME NEW a \in DOMAIN c2 PROVE s2[c[a].prop].missed = 0
  <2>1. a \in DOMAIN c /\ a \notin K
    BY <1>1, Zenon
  <2>2. \A b \in K : c[b].prop # c[a].prop
    BY <1>2, <2>1, Zenon
  <2> QED
    BY <1>3, <2>1, <2>2, Zenon
<1>7. ConsistentRecords(s2, c2)
  BY <1>4, <1>5, <1>6, RecordsFollow
<1>8. ASSUME NEW q \in Property, \A a \in K : c[a].prop # q PROVE RecordsKept(s, c, s2, c2, q)
  BY <1>1, <1>8, Zenon DEF RecordsKept, OpenFor
<1>9. \A a \in K : ~OpenFor(c2, c[a].prop)
  BY <1>1, <1>2, Zenon DEF OpenFor
<1> QED
  BY <1>7, <1>8, <1>9, Zenon

\* The records of every other property are kept; a crowdsale is the only one
\* of its property.
KeptBut(s, c, s2, c2, p) == \A q \in Property \ {p} : RecordsKept(s, c, s2, c2, q)

OnlyCrowd(c, p, to, d) == OpenFor(c, p) /\ \A a \in DOMAIN c : c[a].prop = p => a = to /\ c[a] = d

-----------------------------------------------------------------------------
(* The transactions of owners and issuers. *)

\* Tokens of one property are created or destroyed and its record follows.
LEMMA SoundAdded ==
  ASSUME NEW bal, NEW res, NEW fees, NEW s, NEW c, Sound(bal, res, fees, s, c),
         NEW bal2 \in NatTally, NEW p \in Property, NEW n \in Int,
         Adds(bal, res, bal2, res, p, n),
         NEW s2, NEW c2, ConsistentRecords(s2, c2),
         \A q \in Property \ {p} : RecordsKept(s, c, s2, c2, q),
         Accounted(s2, c2, Held(bal, res, fees, p) + n, p)
  PROVE  Sound(bal2, res, fees, s2, c2)
<1>1. bal \in NatTally /\ res \in NatTally /\ fees \in FeeTally /\ fees[MSC] = 0
      /\ \A q \in Property : Accounted(s, c, Held(bal, res, fees, q), q)
  BY Zenon DEF Sound
<1>2. ASSUME NEW q \in Property PROVE Accounted(s2, c2, Held(bal2, res, fees, q), q)
  <2>1. CASE q # p
    <3>1. RecordsKept(s, c, s2, c2, q) /\ Accounted(s, c, Held(bal, res, fees, q), q)
      BY <1>1, <2>1, Zenon
    <3>2. Held(bal2, res, fees, q) = Held(bal, res, fees, q)
      BY <2>1, Zenon DEF Adds, Held
    <3>3. Accounted(s2, c2, Held(bal, res, fees, q), q)
      BY <3>1, AccountedKept
    <3> QED
      BY <3>2, <3>3, Zenon
  <2>2. CASE q = p
    <3>1. Tot(bal, res, p) \in Int
      <4>1. bal \in Tally /\ res \in Tally
        BY <1>1 DEF Tally, NatTally
      <4> QED
        BY <4>1, TotType, Zenon
    <3>2. fees[p] \in Int
      BY <1>1 DEF FeeTally
    <3>3. Tot(bal2, res, p) = Tot(bal, res, p) + n
      BY Zenon DEF Adds
    <3>4. Held(bal2, res, fees, p) = Held(bal, res, fees, p) + n
      BY <3>1, <3>2, <3>3 DEF Held
    <3> QED
      BY <2>2, <3>4, Zenon
  <2> QED
    BY <2>1, <2>2, Zenon
<1> QED
  BY <1>1, <1>2, Zenon DEF Sound

\* NotifyTotalTokensChanged only hands out fees.
LEMMA NotifiedSound ==
  \A bal, fees, s, c, thr : \A p \in Property : \A total, N :
      /\ Sound(bal, metadexReserve, fees, s, c)
      /\ N = Notified([bal |-> bal, fees |-> fees, thr |-> thr], p, total)
      => Sound(N.bal, metadexReserve, N.fees, s, c) /\ Grows(bal, N.bal)
\* The fees of p are given away.
<1>Distributed.
    ASSUME NEW bal \in NatTally, NEW res \in NatTally, NEW fees \in FeeTally,
           NEW p \in Property, MSC \in Property, Tot(bal, res, MSC) > 0,
           NEW b, b = WithFees(bal, res, p, fees[p]),
           NEW f, f = [fees EXCEPT ![p] = 0]
    PROVE  b \in NatTally /\ f \in FeeTally /\ Grows(bal, b) /\ SameHeld(bal, res, fees, b, res, f)
  <2> USE <1>Distributed
  <2>1. fees[p] \in Nat
    BY Zenon DEF FeeTally
  <2>2. b \in NatTally /\ Grows(bal, b) /\ Adds(bal, res, b, res, p, fees[p])
    <3> DEFINE n == fees[p]
    <3> HIDE DEF n
    <3>1. n \in Nat /\ b = WithFees(bal, res, p, n)
      BY <2>1, Zenon DEF n
    <3>2. b \in NatTally /\ Grows(bal, b) /\ Adds(bal, res, b, res, p, n)
      BY <3>1, WithFeesAdds, Zenon
    <3> QED
      BY <3>2, Zenon DEF n
  <2>3. f \in FeeTally /\ f[p] = 0 /\ \A q \in Property \ {p} : f[q] = fees[q]
    BY Zenon DEF FeeTally
  <2>4. bal \in Tally /\ res \in Tally /\ Tot(bal, res, p) \in Int
    <3>1. bal \in Tally /\ res \in Tally
      BY DEF Tally, NatTally
    <3> QED
      BY <3>1, TotType, Zenon
  <2>5. Held(b, res, f, p) = Held(bal, res, fees, p)
    <3>1. (Tot(bal, res, p) + fees[p]) + 0 = Tot(bal, res, p) + fees[p]
      BY <2>1, <2>4
    <3> QED
      BY <2>2, <2>3, <3>1, Zenon DEF Held, Adds
  <2>6. \A q \in Property \ {p} : Held(b, res, f, q) = Held(bal, res, fees, q)
    BY <2>2, <2>3, Zenon DEF Held, Adds
  <2> QED
    BY <2>2, <2>3, <2>5, <2>6, Zenon DEF SameHeld
\* NotifyTotalTokensChanged changes no total, and takes from no balance.
<1>NotifiedKeeps.
    ASSUME NEW bal \in NatTally, metadexReserve \in NatTally, NEW fees \in FeeTally, NEW thr,
           NEW p \in Property, NEW total, MSC \in Property, Tot(bal, metadexReserve, MSC) > 0,
           fees[MSC] = 0,
           NEW N, N = Notified([bal |-> bal, fees |-> fees, thr |-> thr], p, total)
    PROVE  /\ N.bal \in NatTally /\ N.fees \in FeeTally /\ N.fees[MSC] = 0
           /\ Grows(bal, N.bal)
           /\ SameHeld(bal, metadexReserve, fees, N.bal, metadexReserve, N.fees)
  <2> USE <1>NotifiedKeeps
  <2> DEFINE L == [bal |-> bal, fees |-> fees, thr |-> thr]
             t == [L.thr EXCEPT ![p] = Max2(1, total \div FeeThreshold)]
  <2>1. L.bal = bal /\ L.fees = fees /\ [L EXCEPT !.thr = t].bal = bal /\ [L EXCEPT !.thr = t].fees = fees
    <3> HIDE DEF t
    <3> QED
      BY Zenon
  <2>2. CASE Distributes(fees, t, p)
    <3>1. N.bal = WithFees(bal, metadexReserve, p, fees[p]) /\ N.fees = [fees EXCEPT ![p] = 0]
      <4> DEFINE W == WithFees(bal, metadexReserve, p, fees[p])
                 F == [fees EXCEPT ![p] = 0]
      <4>1. N = [bal |-> W, fees |-> F, thr |-> t]
        <5>1. N = IF Distributes(L.fees, t, p)
                  THEN [bal |-> WithFees(L.bal, metadexReserve, p, L.fees[p]),
                        fees |-> [L.fees EXCEPT ![p] = 0], thr |-> t]
                  ELSE [L EXCEPT !.thr = t]
          BY Zenon DEF Notified
        <5> HIDE DEF L, t
        <5> QED
          BY <2>1, <2>2, <5>1, Zenon
      <4> HIDE DEF W, F, t
      <4>2. N.bal = W /\ N.fees = F
        BY <4>1
      <4> QED
        BY <4>2, Zenon DEF W, F
    <3>2. /\ N.bal \in NatTally /\ N.fees \in FeeTally /\ Grows(bal, N.bal)
          /\ SameHeld(bal, metadexReserve, fees, N.bal, metadexReserve, N.fees)
      <4> DEFINE b == N.bal
                 f == N.fees
      <4>1. b = WithFees(bal, metadexReserve, p, fees[p]) /\ f = [fees EXCEPT ![p] = 0]
        BY <3>1, Zenon
      <4> HIDE DEF L, t, b, f
      <4>2. /\ b \in NatTally /\ f \in FeeTally /\ Grows(bal, b)
            /\ SameHeld(bal, metadexReserve, fees, b, metadexReserve, f)
        BY <4>1, <1>Distributed, Zenon
      <4> QED
        BY <4>2, Zenon DEF b, f
    <3>3. N.fees[MSC] = 0
      BY <3>1, Zenon DEF FeeTally
    <3> QED
      BY <3>2, <3>3, Zenon
  <2>3. CASE ~Distributes(fees, t, p)
    <3>1. N = [L EXCEPT !.thr = t]
      BY <2>1, <2>3, Zenon DEF Notified
    <3>2. N.bal = bal /\ N.fees = fees
      BY <2>1, <3>1, Zenon
    <3>3. Grows(bal, bal)
      BY DEF NatTally, Grows
    <3> QED
      BY <3>2, <3>3, Zenon DEF SameHeld
  <2> QED
    BY <2>2, <2>3, Zenon
<1> SUFFICES ASSUME NEW bal, NEW fees, NEW s, NEW c, Sound(bal, metadexReserve, fees, s, c), NEW thr,
                    NEW p \in Property, NEW total,
                    NEW N, N = Notified([bal |-> bal, fees |-> fees, thr |-> thr], p, total)
             PROVE  Sound(N.bal, metadexReserve, N.fees, s, c) /\ Grows(bal, N.bal)
  BY Zenon
<1>1. bal \in NatTally /\ metadexReserve \in NatTally /\ fees \in FeeTally /\ fees[MSC] = 0
  BY Zenon DEF Sound
<1>2. MSC \in Property /\ Tot(bal, metadexReserve, MSC) > 0
  BY MSCOwned, Zenon
<1>3. /\ N.bal \in NatTally /\ N.fees \in FeeTally /\ N.fees[MSC] = 0
      /\ Grows(bal, N.bal)
      /\ SameHeld(bal, metadexReserve, fees, N.bal, metadexReserve, N.fees)
  BY <1>1, <1>2, <1>NotifiedKeeps
<1> DEFINE b == N.bal
           f == N.fees
<1>4. /\ b \in NatTally /\ f \in FeeTally /\ f[MSC] = 0
      /\ SameHeld(bal, metadexReserve, fees, b, metadexReserve, f)
  BY <1>3, Zenon
<1> HIDE DEF b, f
<1>5. Sound(b, metadexReserve, f, s, c)
  BY <1>1, <1>4, SoundMoved
<1> QED
  BY <1>3, <1>5, Zenon DEF b, f

\* getTotalTokens is what is held of the property, a fixed one included.
LEMMA TallyTotalIs ==
  ASSUME NEW bal \in NatTally, metadexReserve \in NatTally, NEW p \in Property
  PROVE  TallyTotal(bal, p) = Tot(bal, metadexReserve, p)
<1>1. TallyTotal(bal, p) = Sum([a \in Address |-> Holding(bal, metadexReserve, a, p)], Address)
  BY ZenonT(30) DEF TallyTotal, SumOver, MapThenSumSet, MapThenFoldSet, Sum, Solves, SumStep
<1> QED
  BY <1>1, Zenon DEF Tot, Hold

\* getTotalTokens is what is held of the property, at most MaxTokens.
LEMMA TotalIsHeld ==
  ASSUME NEW bal, NEW fees, NEW c, Sound(bal, metadexReserve, fees, sp, c),
         NEW p \in DOMAIN sp, NEW thr
  PROVE  /\ getTotalTokens([bal |-> bal, fees |-> fees, thr |-> thr], p) = Held(bal, metadexReserve, fees, p)
         /\ Held(bal, metadexReserve, fees, p) \in Nat /\ Held(bal, metadexReserve, fees, p) <= MaxTokens
         /\ p \in Property
<1> DEFINE L == [bal |-> bal, fees |-> fees, thr |-> thr]
<1>1. bal \in NatTally /\ metadexReserve \in NatTally /\ fees \in FeeTally
  BY Zenon DEF Sound
<1>2. p \in Property /\ ConsistentRecords(sp, c)
  BY Zenon DEF Sound, ConsistentRecords
<1>3. Accounted(sp, c, Held(bal, metadexReserve, fees, p), p)
  BY <1>2, Zenon DEF Sound
<1>4. L.bal = bal /\ L.fees = fees
  BY Zenon
<1> HIDE DEF L
<1>5. ASSUME sp[p].kind = "fixed" PROVE getTotalTokens(L, p) = Held(bal, metadexReserve, fees, p)
  <2>1. ~OpenFor(c, p)
    BY <1>2, <1>5 DEF OpenFor, ConsistentRecords
  <2>2. Recd(sp[p]) = sp[p].num
    BY <1>5, Zenon DEF Recd
  <2>3. Held(bal, metadexReserve, fees, p) = Recd(sp[p])
    BY <1>3, <2>1, Zenon DEF Accounted
  <2> QED
    BY <1>5, <2>2, <2>3, Zenon DEF getTotalTokens
<1>6. ASSUME sp[p].kind # "fixed" PROVE getTotalTokens(L, p) = Held(bal, metadexReserve, fees, p)
  <2>1. TallyTotal(bal, p) = Tot(bal, metadexReserve, p)
    BY <1>1, <1>2, TallyTotalIs
  <2> QED
    BY <1>4, <1>6, <2>1, Zenon DEF getTotalTokens, Held
<1>7. getTotalTokens(L, p) = Held(bal, metadexReserve, fees, p)
  BY <1>5, <1>6, Zenon
<1>8. Held(bal, metadexReserve, fees, p) \in Nat
  <2>1. bal \in Tally /\ metadexReserve \in Tally
    BY <1>1 DEF Tally, NatTally
  <2>2. Tot(bal, metadexReserve, p) \in Int /\ Tot(bal, metadexReserve, p) >= 0
    BY <1>1, <1>2, <2>1, TotType
  <2>3. fees[p] \in Nat
    BY <1>1, <1>2 DEF FeeTally
  <2> QED
    BY <2>2, <2>3 DEF Held
<1>9. Held(bal, metadexReserve, fees, p) <= MaxTokens
  BY <1>3, Zenon DEF Accounted
<1> QED
  BY <1>2, <1>7, <1>8, <1>9, Zenon DEF L

\* A transaction that names amounts names natural numbers.
LEMMA AmountsNat ==
  ASSUME NEW n \in Amounts
  PROVE  n \in Nat /\ n <= MaxTokens
BY InputsType, RatioIsFine

\* What becomes of the records when the issuer `to' sells u tokens with a
\* bonus of i: the crowdsale closes with the purchase, or goes on.
ClosedWith(s, c, to, u, i, s2, c2) ==
    /\ s2 = [s EXCEPT ![c[to].prop].created = (c[to].user + u) + (c[to].issuer + i)]
    /\ c2 = Without(c, {to})

GoesOnWith(s, c, to, u, i, s2, c2) ==
    /\ c2 = [c EXCEPT ![to].user = c[to].user + u, ![to].issuer = c[to].issuer + i]
    /\ s2 = s

\* The end of a send or a payment, whether or not it buys into a crowdsale of
\* the receiver.
LEMMA MovedToSound ==
  \A u, L, p : \A who \in Address, to \in Address, n \in Nat :
      /\ FInv
      /\ Sound(u, metadexReserve, feeCache, sp, my_crowds)
      /\ L = [bal |-> u, fees |-> feeCache, thr |-> distributionThresholds]
      /\ MovedTo(L, who, to, p, n)
      /\ metadexReserve' = metadexReserve
      => SoundNow' /\ Grows(u, balance')
\* logicHelper_CrowdsaleParticipation.
<1>ParticipationSound.
    \A bal, fees, thr, L : \A who \in Address, to \in DOMAIN my_crowds, n \in Nat :
        /\ block \in Nat
        /\ Sound(bal, metadexReserve, fees, sp, my_crowds)
        /\ L = [bal |-> bal, fees |-> fees, thr |-> thr]
        /\ ~FundraiserThrows(L, to, n)
        /\ CrowdsaleParticipation(L, who, to, n)
        /\ metadexReserve' = metadexReserve
        => SoundNow' /\ Grows(bal, balance')
  \* A purchase: the crowd of an issuer counts more tokens.
  <2>CrowdPaid.
      ASSUME NEW s, NEW c, ConsistentRecords(s, c), NEW to \in DOMAIN c, NEW p, p = c[to].prop,
             NEW d \in CMPCrowd, d.prop = p,
             NEW c2, c2 = [c EXCEPT ![to] = d]
      PROVE  /\ ConsistentRecords(s, c2)
             /\ KeptBut(s, c, s, c2, p) /\ OnlyCrowd(c2, p, to, d)
    <3> USE <2>CrowdPaid
    <3>1. c \in [DOMAIN c -> CMPCrowd] /\ (\A a, b \in DOMAIN c : c[a].prop = c[b].prop => a = b)
      BY Zenon DEF ConsistentRecords
    <3>2. DOMAIN c2 = DOMAIN c /\ c2[to] = d /\ (\A a \in DOMAIN c \ {to} : c2[a] = c[a])
      BY <3>1, Zenon
    <3>3. c2 \in [DOMAIN c2 -> CMPCrowd]
      BY <3>1, Zenon
    <3>4. \A a \in DOMAIN c2 : c2[a].prop = c[a].prop
      BY <3>2, Zenon
    <3>5. CrowdsFollow(c, c2)
      BY <3>2, <3>3, <3>4, Zenon DEF CrowdsFollow
    <3>6. EntriesFollow(s, s) /\ \A a \in DOMAIN c2 : s[c[a].prop].missed = 0
      BY <3>2, Zenon DEF EntriesFollow, ConsistentRecords
    <3>7. ConsistentRecords(s, c2)
      BY <3>5, <3>6, RecordsFollow, Zenon
    <3>8. \A q \in Property \ {p} : RecordsKept(s, c, s, c2, q)
      BY <3>2, <3>4, Zenon DEF RecordsKept, OpenFor
    <3>9. \A a \in DOMAIN c2 : c2[a].prop = p => a = to /\ c2[a] = d
      BY <3>1, <3>2, <3>4, Zenon
    <3>10. OpenFor(c2, p)
      BY <3>2, <3>4, Zenon DEF OpenFor
    <3> QED
      BY <3>7, <3>8, <3>9, <3>10, Zenon DEF KeptBut, OnlyCrowd
  \* A purchase never creates more than the largest number of tokens.
  <2>FundraiserBounds.
      \A e \in SPEntry, n \in Nat, total \in Nat : \A t :
          /\ block \in Nat
          /\ total <= MaxTokens
          /\ ~(total = MaxTokens /\ BuyerTokens(e, n) + IssuerBonus(e, BuyerTokens(e, n)) > 0)
          /\ t = calculateFundraiser(e, n, total)
          => t.user \in Nat /\ t.issuer \in Nat /\ total + (t.user + t.issuer) <= MaxTokens
    \* What a purchase would bring, before it is capped.
    <3>PurchaseType.
        ASSUME NEW e \in SPEntry, NEW n \in Nat, block \in Nat
        PROVE  BuyerTokens(e, n) \in Nat /\ IssuerBonus(e, n) \in Nat
      <4> USE <3>PurchaseType
      <4>1. /\ e.num \in Nat /\ e.deadline \in Nat /\ e.earlybird \in Nat /\ e.percentage \in Nat
        BY Zenon DEF SPEntry
      <4>2. Max2(0, e.deadline - block) \in Nat
        BY <4>1 DEF Max2
      <4>3. \A x, y \in Nat : x * y \in Nat /\ 100 + x \in Nat /\ x \div 100 \in Nat
        <5>1. \A x, y \in Nat : x * y \in Nat
          OBVIOUS
        <5>2. \A x \in Nat : 100 + x \in Nat
          OBVIOUS
        <5>3. \A x \in Nat : x \div 100 \in Nat
          BY Division
        <5> QED
          BY <5>1, <5>2, <5>3, Zenon
      <4> QED
        BY <4>1, <4>2, <4>3, Zenon DEF BuyerTokens, IssuerBonus
    \* What is left to create is split so that neither part is negative: the
    \* precision of the ratio suffices.
    <3>CappedSplit.
        ASSUME NEW u \in Nat, NEW i \in Nat, NEW left \in Nat \ {0}, left <= MaxTokens, u + i > left,
               NEW ratio, ratio = ((u + i) * RatioUnit) \div left,
               NEW capped, capped = (i * RatioUnit) \div ratio
        PROVE  capped \in Nat /\ capped <= left
      <4> USE <3>CappedSplit
      <4>1. MaxTokens \in Nat /\ RatioUnit \in Nat /\ RatioUnit > MaxTokens
        BY RatioIsFine, Zenon
      <4> DEFINE U == RatioUnit
                 w == (u + i) * U
                 v == i * U
      <4>2. U \in Nat /\ U > left
        BY <4>1
      <4> HIDE DEF U
      <4>3. w \in Nat /\ v \in Nat /\ v <= w
        <5>1. w = u * U + i * U
          BY <4>2
        <5>2. u * U \in Nat /\ i * U \in Nat
          BY <4>2
        <5> QED
          BY <5>1, <5>2
      <4>4. U * left <= w
        <5>1. left * U <= (u + i) * U
          BY <4>2
        <5> QED
          BY <4>2, <5>1
      <4>5. ratio = w \div left /\ capped = v \div ratio
        BY Zenon DEF U
      <4> HIDE DEF w, v
      <4>6. ratio \in Nat /\ ratio * left <= w /\ w < ratio * left + left
        BY <4>3, <4>5, Division, Zenon
      <4>7. ratio > left
        <5> SUFFICES ASSUME ratio <= left PROVE FALSE
          BY <4>6
        <5>1. (ratio + 1) * left <= U * left
          BY <4>2, <4>6
        <5>2. (ratio + 1) * left = ratio * left + left
          BY <4>6
        <5>3. ratio * left \in Nat /\ U * left \in Nat
          BY <4>2, <4>6
        <5> QED
          BY <4>3, <4>4, <4>6, <5>1, <5>2, <5>3
      <4>8. capped \in Nat /\ capped * ratio <= v
        <5>1. ratio \in Nat \ {0}
          BY <4>6, <4>7
        <5> QED
          BY <4>3, <4>5, <5>1, Division
      <4>9. capped * ratio < (left + 1) * ratio
        <5>1. (left + 1) * ratio = ratio * left + ratio
          BY <4>6
        <5>2. capped * ratio \in Nat /\ ratio * left \in Nat
          BY <4>6, <4>8
        <5> QED
          BY <4>3, <4>6, <4>7, <4>8, <5>1, <5>2
      <4>10. capped < left + 1
        <5>1. ratio \in Nat \ {0}
          BY <4>6, <4>7
        <5>2. left + 1 \in Int /\ capped \in Int
          BY <4>8
        <5> QED
          BY <4>9, <5>1, <5>2, SmallerFactor
      <4> QED
        BY <4>8, <4>10
    <3> SUFFICES ASSUME NEW e \in SPEntry, NEW n \in Nat, block \in Nat, NEW total \in Nat, total <= MaxTokens,
                        ~(total = MaxTokens /\ BuyerTokens(e, n) + IssuerBonus(e, BuyerTokens(e, n)) > 0),
                        NEW t, t = calculateFundraiser(e, n, total)
                 PROVE  t.user \in Nat /\ t.issuer \in Nat /\ total + (t.user + t.issuer) <= MaxTokens
      BY Zenon
    <3> DEFINE u == BuyerTokens(e, n)
               i == IssuerBonus(e, u)
               left == MaxTokens - total
               ratio == ((u + i) * RatioUnit) \div left
               capped == (i * RatioUnit) \div ratio
    <3>0. MaxTokens \in Nat
      BY RatioIsFine, Zenon
    <3>1. u \in Nat /\ i \in Nat
      <4>1. u \in Nat
        BY <3>PurchaseType, Zenon
      <4> HIDE DEF u
      <4> QED
        BY <4>1, <3>PurchaseType, Zenon
    <3>2. t = IF total + u + i <= MaxTokens
              THEN [user |-> u, issuer |-> i, close |-> FALSE]
              ELSE [user |-> left - capped, issuer |-> capped, close |-> TRUE]
      BY Zenon DEF calculateFundraiser
    <3>3. ~(total = MaxTokens /\ u + i > 0)
      BY Zenon
    <3> HIDE DEF u, i
    <3>4. CASE total + u + i <= MaxTokens
      <4>1. t.user = u /\ t.issuer = i
        <5> HIDE DEF left, ratio, capped
        <5> QED
          BY <3>2, <3>4
      <4> QED
        BY <3>1, <3>4, <4>1
    <3>5. CASE ~(total + u + i <= MaxTokens)
      <4>1. left \in Nat \ {0} /\ left <= MaxTokens /\ u + i > left
        BY <3>0, <3>1, <3>3, <3>5
      <4> HIDE DEF left
      <4>2. capped \in Nat /\ capped <= left
        <5> HIDE DEF capped, ratio
        <5>1. ratio = ((u + i) * RatioUnit) \div left /\ capped = (i * RatioUnit) \div ratio
          BY Zenon DEF capped, ratio
        <5> QED
          BY <3>1, <4>1, <5>1, <3>CappedSplit, Zenon
      <4> HIDE DEF capped, ratio
      <4>3. t.user = left - capped /\ t.issuer = capped
        BY <3>2, <3>5
      <4>4. left = MaxTokens - total
        BY Zenon DEF left
      <4> QED
        BY <3>0, <4>1, <4>2, <4>3, <4>4
    <3> QED
      BY <3>4, <3>5, Zenon
  \* What a purchase does: the tokens created are those that the crowdsale, or
  \* the property when the crowdsale closes with it, records.
  <2>PurchaseSound.
      ASSUME NEW bal, NEW fees, NEW s, NEW c, Sound(bal, metadexReserve, fees, s, c),
             NEW who \in Address, NEW to \in DOMAIN c, NEW p, p = c[to].prop,
             NEW u \in Nat, NEW i \in Nat, Held(bal, metadexReserve, fees, p) + (u + i) <= MaxTokens,
             NEW bal2, bal2 = Credit(Credit(bal, who, p, u), to, p, i),
             NEW s2, NEW c2,
             ClosedWith(s, c, to, u, i, s2, c2) \/ GoesOnWith(s, c, to, u, i, s2, c2)
      PROVE  Sound(bal2, metadexReserve, fees, s2, c2) /\ Grows(bal, bal2)
    <3> USE <2>PurchaseSound
    <3>1. bal \in NatTally /\ metadexReserve \in NatTally /\ fees \in FeeTally /\ ConsistentRecords(s, c)
      BY Zenon DEF Sound
    <3>2. /\ to \in Address /\ c[to] \in CMPCrowd /\ p \in DOMAIN s /\ p \in Property
          /\ s[p].kind = "variable" /\ s[p].missed = 0 /\ s[p] \in SPEntry
      BY <3>1, Zenon DEF ConsistentRecords
    <3>3. c[to].user \in Nat /\ c[to].issuer \in Nat
      BY <3>2, Zenon DEF CMPCrowd
    <3> DEFINE h == Held(bal, metadexReserve, fees, p)
               b1 == Credit(bal, who, p, u)
    <3>4. h = c[to].user + c[to].issuer
      <4>1. Accounted(s, c, h, p)
        BY <3>2, Zenon DEF Sound
      <4> QED
        BY <4>1, Zenon DEF Accounted
    <3>5. h + (u + i) = (c[to].user + u) + (c[to].issuer + i) /\ h + (u + i) \in Nat
      BY <3>3, <3>4
    <3>6. b1 \in NatTally /\ Grows(bal, b1)
      BY <3>1, <3>2, CreditNat, Zenon
    <3>7. bal2 \in NatTally /\ Grows(b1, bal2)
      <4> HIDE DEF b1
      <4>1. bal2 = Credit(b1, to, p, i)
        BY Zenon DEF b1
      <4> QED
        BY <3>2, <3>6, <4>1, CreditNat, Zenon
    <3>8. Grows(bal, bal2)
      <4>1. \A x \in Slot : bal[x] \in Int /\ b1[x] \in Int /\ bal2[x] \in Int
        BY <3>1, <3>6, <3>7 DEF NatTally
      <4> HIDE DEF b1
      <4> QED
        BY <3>6, <3>7, <4>1 DEF Grows
    <3>9. Adds(bal, metadexReserve, bal2, metadexReserve, p, u + i)
      <4>1. bal \in Tally /\ metadexReserve \in Tally /\ b1 \in Tally /\ u \in Int /\ i \in Int
        BY <3>1, <3>6 DEF Tally, NatTally
      <4>2. Adds(bal, metadexReserve, b1, metadexReserve, p, u)
        BY <3>2, <4>1, CreditAdds
      <4> HIDE DEF b1
      <4>3. Adds(b1, metadexReserve, bal2, metadexReserve, p, i)
        <5>1. Adds(b1, metadexReserve, Credit(b1, to, p, i), metadexReserve, p, i)
          BY <3>2, <4>1, CreditAdds
        <5> QED
          BY <5>1, Zenon DEF b1
      <4> QED
        BY <3>2, <4>1, <4>2, <4>3, AddsTwice
    <3>10. ASSUME ClosedWith(s, c, to, u, i, s2, c2)
           PROVE  Sound(bal2, metadexReserve, fees, s2, c2)
      <4> DEFINE K == {to}
                 m == (c[to].user + u) + (c[to].issuer + i)
                 e == [s[p] EXCEPT !.created = m]
      <4>1. s2 = [s EXCEPT ![p] = e]
        BY <3>2, <3>10 DEF ClosedWith
      <4>2. e \in SPEntry /\ e.kind = s[p].kind /\ e.num = s[p].num /\ e.created = m /\ e.missed = 0
        <5>1. m \in Nat
          BY <3>3
        <5> HIDE DEF m
        <5> QED
          BY <3>2, <5>1 DEF SPEntry
      <4>3. K \subseteq DOMAIN c /\ c2 = Without(c, K) /\ to \in K /\ \A a \in K : a = to
        BY <3>10, Zenon DEF ClosedWith
      <4> HIDE DEF K, e, m
      <4>4. DOMAIN s2 = DOMAIN s /\ s2[p] = e /\ \A q \in DOMAIN s : q # p => s2[q] = s[q]
        BY <3>1, <3>2, <4>1 DEF ConsistentRecords
      <4>5. s2 \in [DOMAIN s2 -> SPEntry]
        BY <3>1, <3>2, <4>1, <4>2 DEF ConsistentRecords
      <4>6. \A q \in DOMAIN s : s2[q].kind = s[q].kind /\ s2[q].num = s[q].num
        BY <4>2, <4>4, Zenon
      <4>7. \A q \in DOMAIN s : (\A a \in K : c[a].prop # q) => s2[q] = s[q]
        BY <4>3, <4>4, Zenon
      <4>8. /\ ConsistentRecords(s2, c2)
            /\ \A q \in Property : (\A a \in K : c[a].prop # q) => RecordsKept(s, c, s2, c2, q)
            /\ \A a \in K : ~OpenFor(c2, c[a].prop)
        BY <3>1, <4>3, <4>4, <4>5, <4>6, <4>7, CrowdsClosed
      <4>9. \A q \in Property \ {p} : RecordsKept(s, c, s2, c2, q)
        BY <4>3, <4>8, Zenon
      <4>10. ~OpenFor(c2, p)
        BY <4>3, <4>8, Zenon
      <4>11. Recd(s2[p]) = m
        <5>1. m \in Nat
          BY <3>3 DEF m
        <5>2. s2[p].kind = "variable" /\ s2[p].created = m /\ s2[p].missed = 0
          BY <3>2, <4>2, <4>4, Zenon
        <5> QED
          BY <5>1, <5>2 DEF Recd
      <4>12. Accounted(s2, c2, h + (u + i), p)
        <5>1. h + (u + i) = m
          BY <3>5, Zenon DEF m
        <5>2. \A a \in DOMAIN c2 : c2[a].prop # p
          BY <4>10, Zenon DEF OpenFor
        <5>3. p \in DOMAIN s2
          BY <3>2, <4>4, Zenon
        <5> HIDE DEF h
        <5>4. m <= MaxTokens
          BY <5>1, Zenon DEF h
        <5> QED
          BY <4>11, <5>1, <5>2, <5>3, <5>4, Zenon DEF Accounted
      <4>13. u + i \in Int
        OBVIOUS
      <4> QED
        BY <3>2, <3>7, <3>9, <4>8, <4>9, <4>12, <4>13, SoundAdded
    <3>11. ASSUME GoesOnWith(s, c, to, u, i, s2, c2)
           PROVE  Sound(bal2, metadexReserve, fees, s2, c2)
      <4> DEFINE d == [c[to] EXCEPT !.user = c[to].user + u, !.issuer = c[to].issuer + i]
      <4>1. c2 = [c EXCEPT ![to] = d] /\ s2 = s
        BY <3>11, Zenon DEF GoesOnWith
      <4>2. d \in CMPCrowd /\ d.prop = p /\ d.user = c[to].user + u /\ d.issuer = c[to].issuer + i
        <5>1. c[to].user + u \in Nat /\ c[to].issuer + i \in Nat
          BY <3>3
        <5> QED
          BY <3>2, <5>1, Zenon DEF CMPCrowd
      <4> HIDE DEF d
      <4>7. ConsistentRecords(s, c2) /\ KeptBut(s, c, s, c2, p) /\ OnlyCrowd(c2, p, to, d)
        BY <3>1, <4>1, <4>2, <2>CrowdPaid, Zenon
      <4>3. /\ ConsistentRecords(s, c2)
            /\ \A q \in Property \ {p} : RecordsKept(s, c, s, c2, q)
            /\ OpenFor(c2, p)
            /\ \A a \in DOMAIN c2 : c2[a].prop = p => a = to /\ c2[a] = d
        BY <4>7, Zenon DEF KeptBut, OnlyCrowd
      <4>4. Accounted(s2, c2, h + (u + i), p)
        <5>1. h + (u + i) = d.user + d.issuer
          BY <3>5, <4>2, Zenon
        <5> HIDE DEF h
        <5>2. h + (u + i) <= MaxTokens
          BY Zenon DEF h
        <5> QED
          BY <3>2, <4>1, <4>3, <5>1, <5>2, Zenon DEF Accounted
      <4>5. ConsistentRecords(s2, c2) /\ \A q \in Property \ {p} : RecordsKept(s, c, s2, c2, q)
        BY <4>1, <4>3, Zenon
      <4>6. u + i \in Int
        OBVIOUS
      <4> QED
        BY <3>2, <3>7, <3>9, <4>4, <4>5, <4>6, SoundAdded
    <3> QED
      BY <3>8, <3>10, <3>11, Zenon
  <2> SUFFICES ASSUME block \in Nat, NEW bal, NEW fees, NEW thr, Sound(bal, metadexReserve, fees, sp, my_crowds),
                      NEW L, L = [bal |-> bal, fees |-> fees, thr |-> thr],
                      NEW who \in Address, NEW to \in DOMAIN my_crowds, NEW n \in Nat,
                      ~FundraiserThrows(L, to, n), CrowdsaleParticipation(L, who, to, n),
                      metadexReserve' = metadexReserve
               PROVE  SoundNow' /\ Grows(bal, balance')
    BY Zenon
  <2> DEFINE c == my_crowds[to]
             p == c.prop
             total == getTotalTokens(L, p)
             t == calculateFundraiser(sp[p], n, total)
             b == Credit(Credit(bal, who, p, t.user), to, p, t.issuer)
             M == [bal |-> b, fees |-> fees, thr |-> thr]
             N == Notified(M, p, getTotalTokens(M, p))
  <2>1. /\ Becomes(N)
        /\ \/ ClosedWith(sp, my_crowds, to, t.user, t.issuer, sp', my_crowds')
           \/ GoesOnWith(sp, my_crowds, to, t.user, t.issuer, sp', my_crowds')
    <3>1. L.bal = bal
      BY Zenon
    <3>2. [L EXCEPT !.bal = b] = M
      <4> HIDE DEF b
      <4> QED
        OBVIOUS
    <3>3. CrowdsaleParticipation(L, who, to, n) <=>
             /\ Becomes(Notified([L EXCEPT !.bal = b], p, getTotalTokens([L EXCEPT !.bal = b], p)))
             /\ IF t.close
                THEN /\ sp' = [sp EXCEPT ![p].created = (c.user + t.user) + (c.issuer + t.issuer)]
                     /\ my_crowds' = Without(my_crowds, {to})
                ELSE /\ my_crowds' = [my_crowds EXCEPT ![to].user = c.user + t.user,
                                                       ![to].issuer = c.issuer + t.issuer]
                     /\ UNCHANGED sp
      BY <3>1, Zenon DEF CrowdsaleParticipation
    <3> HIDE DEF M, t, b
    <3> QED
      BY <3>2, <3>3, Zenon DEF ClosedWith, GoesOnWith
  <2>2. p \in DOMAIN sp /\ p \in Property /\ sp[p] \in SPEntry
    BY Zenon DEF Sound, ConsistentRecords
  <2>3. /\ total = Held(bal, metadexReserve, fees, p)
        /\ Held(bal, metadexReserve, fees, p) \in Nat /\ Held(bal, metadexReserve, fees, p) <= MaxTokens
    <3> HIDE DEF p
    <3>1. /\ getTotalTokens([bal |-> bal, fees |-> fees, thr |-> thr], p) = Held(bal, metadexReserve, fees, p)
          /\ Held(bal, metadexReserve, fees, p) \in Nat /\ Held(bal, metadexReserve, fees, p) <= MaxTokens
          /\ p \in Property
      BY <2>2, TotalIsHeld
    <3> QED
      BY <3>1, Zenon
  <2>4. ~(total = MaxTokens /\ BuyerTokens(sp[p], n) + IssuerBonus(sp[p], BuyerTokens(sp[p], n)) > 0)
    BY Zenon DEF FundraiserThrows
  <2> HIDE DEF total
  <2>5. t.user \in Nat /\ t.issuer \in Nat /\ total + (t.user + t.issuer) <= MaxTokens
    <3> DEFINE e == sp[p]
    <3>1. e \in SPEntry /\ t = calculateFundraiser(e, n, total) /\ total \in Nat /\ total <= MaxTokens
          /\ ~(total = MaxTokens /\ BuyerTokens(e, n) + IssuerBonus(e, BuyerTokens(e, n)) > 0)
      BY <2>2, <2>3, <2>4, Zenon
    <3> HIDE DEF e, t
    <3> QED
      BY <3>1, <2>FundraiserBounds
  <2> DEFINE u == t.user
             i == t.issuer
             s2 == sp'
             c2 == my_crowds'
  <2>6. /\ u \in Nat /\ i \in Nat /\ Held(bal, metadexReserve, fees, p) + (u + i) <= MaxTokens
        /\ p = my_crowds[to].prop /\ b = Credit(Credit(bal, who, p, u), to, p, i)
    BY <2>3, <2>5, Zenon
  <2>7. ClosedWith(sp, my_crowds, to, u, i, s2, c2) \/ GoesOnWith(sp, my_crowds, to, u, i, s2, c2)
    BY <2>1, Zenon
  <2> HIDE DEF t, b, p, c, u, i, s2, c2
  <2>8. Sound(b, metadexReserve, fees, s2, c2) /\ Grows(bal, b)
    BY <2>6, <2>7, <2>PurchaseSound
  <2> DEFINE g == getTotalTokens(M, p)
  <2>9. N = Notified([bal |-> b, fees |-> fees, thr |-> thr], p, g)
    BY Zenon
  <2> HIDE DEF N, M, g
  <2>10. Sound(N.bal, metadexReserve, N.fees, s2, c2) /\ Grows(b, N.bal)
    BY <2>2, <2>8, <2>9, NotifiedSound
  <2>11. balance' = N.bal /\ feeCache' = N.fees
    BY <2>1, Zenon DEF Becomes
  <2>12. SoundNow'
    BY <2>10, <2>11, Zenon DEF SoundNow, s2, c2
  <2>13. Grows(bal, balance')
    <3>1. bal \in NatTally /\ b \in NatTally /\ balance' \in NatTally
      BY <2>8, <2>10, <2>11, Zenon DEF Sound
    <3>2. \A x \in Slot : bal[x] \in Int /\ b[x] \in Int /\ balance'[x] \in Int
      BY <3>1 DEF NatTally
    <3> QED
      BY <2>8, <2>10, <2>11, <3>2 DEF Grows
  <2> QED
    BY <2>12, <2>13, Zenon
<1> SUFFICES ASSUME FInv, NEW u, NEW L, NEW p, NEW who \in Address, NEW to \in Address, NEW n \in Nat,
                    Sound(u, metadexReserve, feeCache, sp, my_crowds),
                    L = [bal |-> u, fees |-> feeCache, thr |-> distributionThresholds],
                    MovedTo(L, who, to, p, n), metadexReserve' = metadexReserve
             PROVE  SoundNow' /\ Grows(u, balance')
  BY Zenon
<1>1. ASSUME Becomes(L), sp' = sp, my_crowds' = my_crowds PROVE SoundNow' /\ Grows(u, balance')
  <2>1. balance' = u /\ feeCache' = feeCache
    BY <1>1, Zenon DEF Becomes
  <2>2. \A s \in Slot : u[s] \in Int /\ u[s] >= u[s]
    BY DEF NatTally, Sound
  <2> QED
    BY <1>1, <2>1, <2>2, Zenon DEF SoundNow, Grows
<1>2. CASE ~Participates(to, p) \/ FundraiserThrows(L, to, n)
  <2>1. Becomes(L) /\ sp' = sp /\ my_crowds' = my_crowds
    BY <1>2 DEF MovedTo
  <2> QED
    BY <1>1, <2>1, Zenon
<1>3. CASE Participates(to, p) /\ ~FundraiserThrows(L, to, n)
  <2>1. to \in DOMAIN my_crowds /\ CrowdsaleParticipation(L, who, to, n) /\ ~FundraiserThrows(L, to, n)
    BY <1>3, Zenon DEF MovedTo, Participates
  <2>2. block \in Nat
    BY Zenon DEF FInv
  <2> QED
    BY <2>1, <2>2, <1>ParticipationSound
<1> QED
  BY <1>2, <1>3, Zenon

\* SimpleSend: the tokens go to the receiver, and may buy others.
LEMMA SimpleSendSound ==
  ASSUME FInv, SoundNow, NEW who \in Address, NEW to \in Address, NEW p \in Property, NEW n \in Amounts,
         SimpleSend(who, to, p, n)
  PROVE  SoundNow' /\ KeepsFrozen
<1> DEFINE u == Credit(Debit(balance, who, p, n), to, p, n)
           L == [bal |-> u, fees |-> feeCache, thr |-> distributionThresholds]
<1>1. n \in Nat
  BY AmountsNat, Zenon
<1>2. balance \in NatTally /\ metadexReserve \in NatTally /\ feeCache \in FeeTally /\ feeCache[MSC] = 0
  BY Zenon DEF SoundNow, Sound
<1>3. balance[<<who, p>>] >= n /\ <<who, p>> \notin setFrozenAddresses /\ metadexReserve' = metadexReserve
  BY Zenon DEF SimpleSend, Permitted, bookVars
<1>4. MovedTo(L, who, to, p, n)
  <2>1. [Now EXCEPT !.bal = u] = L
    <3> HIDE DEF u
    <3> QED
      BY DEF Now
  <2> HIDE DEF L
  <2> QED
    BY <2>1, Zenon DEF SimpleSend
<1>5. u = Credit(Debit(balance, who, p, n), to, p, n)
  BY Zenon
<1> HIDE DEF u
<1>6. /\ u \in NatTally /\ SameHeld(balance, metadexReserve, feeCache, u, metadexReserve, feeCache)
      /\ GrowsBut(balance, u, <<who, p>>)
  BY <1>1, <1>2, <1>3, <1>5, Sent
<1>7. Sound(u, metadexReserve, feeCache, sp, my_crowds)
  BY <1>2, <1>6, SoundMoved, Zenon DEF SoundNow
<1>8. SoundNow' /\ Grows(u, balance')
  BY <1>1, <1>3, <1>4, <1>7, MovedToSound, Zenon
<1>9. KeepsFrozen
  <2>1. balance' \in NatTally
    BY <1>8, Zenon DEF SoundNow, Sound
  <2>2. \A s \in Slot : balance[s] \in Int /\ u[s] \in Int /\ balance'[s] \in Int
    BY <1>2, <1>6, <2>1 DEF NatTally
  <2>3. \A s \in setFrozenAddresses : s \in Slot /\ s # <<who, p>>
    BY <1>3, Zenon DEF FInv
  <2> QED
    BY <1>6, <1>8, <2>2, <2>3 DEF KeepsFrozen, Grows, GrowsBut
<1> QED
  BY <1>8, <1>9, Zenon

\* RapidsPayment: no tokens move but those that it creates.
LEMMA PaymentSound ==
  ASSUME FInv, SoundNow, NEW who \in Address, NEW to \in Address, NEW n \in Amounts,
         RapidsPayment(who, to, n)
  PROVE  SoundNow' /\ KeepsFrozen
<1>1. n \in Nat
  BY AmountsNat, Zenon
<1>2. Now = [bal |-> balance, fees |-> feeCache, thr |-> distributionThresholds]
  BY Zenon DEF Now
<1>3. MovedTo(Now, who, to, RPD, n) /\ metadexReserve' = metadexReserve
  BY Zenon DEF RapidsPayment, bookVars
<1>4. SoundNow' /\ Grows(balance, balance')
  BY <1>1, <1>2, <1>3, MovedToSound, Zenon DEF SoundNow
<1> QED
  BY <1>4, Zenon DEF KeepsFrozen, Grows, FInv

\* The end of a handler that changed the number of tokens.
LEMMA NotifiedNow ==
  ASSUME NEW bal, NEW p \in Property, NEW total,
         Sound(bal, metadexReserve, feeCache, sp', my_crowds'),
         Becomes(Notified([Now EXCEPT !.bal = bal], p, total)),
         metadexReserve' = metadexReserve
  PROVE  SoundNow' /\ Grows(bal, balance')
<1> DEFINE L == [bal |-> bal, fees |-> feeCache, thr |-> distributionThresholds]
           N == Notified(L, p, total)
           s2 == sp'
           c2 == my_crowds'
<1>1. [Now EXCEPT !.bal = bal] = L
  BY DEF Now
<1>2. N = Notified([bal |-> bal, fees |-> feeCache, thr |-> distributionThresholds], p, total)
  BY Zenon
<1>3. Sound(bal, metadexReserve, feeCache, s2, c2)
  BY Zenon
<1> HIDE DEF L, N, s2, c2
<1>4. Sound(N.bal, metadexReserve, N.fees, s2, c2) /\ Grows(bal, N.bal)
  BY <1>2, <1>3, NotifiedSound
<1>5. balance' = N.bal /\ feeCache' = N.fees
  BY <1>1, Zenon DEF Becomes, N
<1> QED
  BY <1>4, <1>5, Zenon DEF SoundNow, s2, c2

\* Balances that grow twice have grown: nothing frozen was debited.
LEMMA GrowthKeepsFrozen ==
  ASSUME FInv, balance \in NatTally, NEW bal \in NatTally, balance' \in NatTally,
         NEW x, x \notin setFrozenAddresses, \A s \in Slot : s # x => bal[s] >= balance[s],
         Grows(bal, balance')
  PROVE  KeepsFrozen
<1>1. \A s \in Slot : balance[s] \in Int /\ bal[s] \in Int /\ balance'[s] \in Int
  BY DEF NatTally
<1>2. \A s \in setFrozenAddresses : s \in Slot /\ s # x
  BY Zenon DEF FInv
<1> QED
  BY <1>1, <1>2 DEF KeepsFrozen, Grows

\* SendToOwners: the sender pays what the owners get.
LEMMA SendToOwnersSound ==
  ASSUME FInv, SoundNow, NEW who \in Address, NEW p \in Property, NEW q \in Property, NEW n \in Nat, NEW version,
         SendToOwners(who, p, q, n, version)
  PROVE  SoundNow' /\ KeepsFrozen
<1> DEFINE w == Distributed(who, p, q, n)
<1>1. /\ w \in NatTally /\ SameHeld(balance, metadexReserve, feeCache, w, metadexReserve, feeCache)
      /\ \A s \in Slot : s # <<who, p>> => w[s] >= balance[s]
      /\ <<who, p>> \notin setFrozenAddresses
      /\ UNCHANGED <<metadexReserve, sp, my_crowds>>
      /\ \/ Becomes([Now EXCEPT !.bal = w])
         \/ \E total : Becomes(Notified([Now EXCEPT !.bal = w], MSC, total))
  BY SendToOwnersMoves, Zenon
<1> HIDE DEF w
<1>2. metadexReserve' = metadexReserve /\ sp' = sp /\ my_crowds' = my_crowds
  BY <1>1, Zenon
<1>3. /\ balance \in NatTally /\ metadexReserve \in NatTally /\ feeCache \in FeeTally /\ feeCache[MSC] = 0
      /\ MSC \in Property
  BY MSCOwned, Zenon DEF SoundNow, Sound
<1>4. Sound(w, metadexReserve, feeCache, sp, my_crowds)
  BY <1>1, <1>3, SoundMoved, Zenon DEF SoundNow
<1>5. ASSUME Becomes([Now EXCEPT !.bal = w]) PROVE SoundNow' /\ Grows(w, balance')
  <2>1. balance' = w /\ feeCache' = feeCache
    BY <1>5 DEF Becomes, Now
  <2>2. \A s \in Slot : w[s] >= w[s]
    BY <1>1 DEF NatTally
  <2> QED
    BY <1>2, <1>4, <2>1, <2>2, Zenon DEF SoundNow, Grows
<1>6. ASSUME NEW total, Becomes(Notified([Now EXCEPT !.bal = w], MSC, total))
      PROVE  SoundNow' /\ Grows(w, balance')
  <2>1. Sound(w, metadexReserve, feeCache, sp', my_crowds')
    BY <1>2, <1>4, Zenon
  <2> QED
    BY <1>2, <1>3, <1>6, <2>1, NotifiedNow
<1>7. SoundNow' /\ Grows(w, balance')
  BY <1>1, <1>5, <1>6, Zenon
<1>8. balance' \in NatTally
  BY <1>7, Zenon DEF SoundNow, Sound
<1>9. KeepsFrozen
  BY <1>1, <1>3, <1>7, <1>8, GrowthKeepsFrozen
<1> QED
  BY <1>7, <1>9, Zenon

\* An amount that update_tally_map accepts.
LEMMA Accepted ==
  ASSUME FInv, NEW t \in NatTally, metadexReserve \in NatTally, NEW a \in Address, NEW p \in Property,
         NEW n \in Int, TallyAccepts(t, a, p, n), NEW u, u = Credit(t, a, p, n)
  PROVE  /\ u \in NatTally /\ Adds(t, metadexReserve, u, metadexReserve, p, n)
         /\ \A s \in setFrozenAddresses : u[s] >= t[s]
<1>1. t \in Tally /\ metadexReserve \in Tally /\ <<a, p>> \in Slot /\ \A s \in Slot : t[s] \in Int /\ t[s] >= 0
  BY TallyAt DEF Tally, NatTally
<1>2. /\ u \in Tally /\ u[<<a, p>>] = t[<<a, p>>] + n
      /\ \A s \in Slot : s # <<a, p>> => u[s] = t[s]
  BY <1>1, Credited, Zenon
<1>3. MaxTokens \in Nat
  BY RatioIsFine, Zenon
<1>4. u[<<a, p>>] >= 0 /\ (n < 0 => <<a, p>> \notin setFrozenAddresses)
  BY <1>2, <1>3 DEF TallyAccepts
<1>5. \A s \in Slot : u[s] \in Nat
  BY <1>1, <1>2, <1>4 DEF Tally
<1>6. u \in NatTally
  BY <1>2, <1>5 DEF Tally, NatTally
<1>7. Adds(t, metadexReserve, u, metadexReserve, p, n)
  BY <1>1, CreditAdds
<1>8. ASSUME NEW s \in setFrozenAddresses PROVE u[s] >= t[s]
  <2>1. s \in Slot
    BY Zenon DEF FInv
  <2>2. CASE s = <<a, p>>
    <3>1. ~(n < 0)
      BY <1>4, <2>2, Zenon
    <3> QED
      BY <1>1, <1>2, <2>2, <3>1
  <2>3. CASE s # <<a, p>>
    BY <1>1, <1>2, <2>1, <2>3
  <2> QED
    BY <2>2, <2>3, Zenon
<1> QED
  BY <1>6, <1>7, <1>8, Zenon

\* What the sender loses by a word, the receiver gets, as the tallies see it,
\* unless the word is the one that is its own negative.
LEMMA Words ==
  ASSUME NEW w \in 0 .. 2 * MaxTokens + 1
  PROVE  /\ Signed(w) \in Int /\ Signed((Word - w) % Word) \in Int
         /\ w # MaxTokens + 1 => Signed((Word - w) % Word) + Signed(w) = 0
         /\ w = MaxTokens + 1 => Signed((Word - w) % Word) = -(MaxTokens + 1)
<1> DEFINE v == (Word - w) % Word
<1>1. MaxTokens \in Nat
  BY RatioIsFine, Zenon
<1>2. Word \in Nat \ {0} /\ Word = MaxTokens + MaxTokens + 2 /\ w \in Nat /\ w < Word
  BY <1>1 DEF Word
<1>3. v = IF w = 0 THEN 0 ELSE Word - w
  <2>1. \A a, b \in Nat : b > 0 /\ a < b => a % b = a
    OBVIOUS
  <2>2. \A b \in Nat : b > 0 => b % b = 0
    OBVIOUS
  <2>3. CASE w = 0
    BY <1>2, <2>2, <2>3
  <2>4. CASE w # 0
    <3>1. Word - w \in Nat /\ Word - w < Word
      BY <1>2, <2>4
    <3> QED
      BY <1>2, <2>1, <2>4, <3>1
  <2> QED
    BY <2>3, <2>4, Zenon
<1> HIDE DEF v
<1>4. Signed(w) \in Int /\ Signed(v) \in Int
  BY <1>1, <1>2, <1>3 DEF Signed
<1>5. w # MaxTokens + 1 => Signed(v) + Signed(w) = 0
  BY <1>1, <1>2, <1>3 DEF Signed
<1>6. w = MaxTokens + 1 => Signed(v) = -(MaxTokens + 1)
  BY <1>1, <1>2, <1>3 DEF Signed
<1> QED
  BY <1>4, <1>5, <1>6, Zenon DEF v

\* A property that does not exist yet is held by no one.
LEMMA NoneHeld ==
  ASSUME SoundNow, NEW p \in Property, p \notin DOMAIN sp
  PROVE  Held(balance, metadexReserve, feeCache, p) = 0
<1>1. Accounted(sp, my_crowds, Held(balance, metadexReserve, feeCache, p), p)
  BY Zenon DEF SoundNow, Sound
<1> QED
  BY <1>1, Zenon DEF Accounted

\* The entry of a new property.
LEMMA NewSPType ==
  ASSUME NEW kind \in {"fixed", "managed", "variable"}, NEW who \in Address, NEW n \in Nat, MSC \in Property
  PROVE  /\ NewSP(kind, who, n) \in SPEntry
         /\ NewSP(kind, who, n).kind = kind /\ NewSP(kind, who, n).num = n
         /\ NewSP(kind, who, n).created = 0 /\ NewSP(kind, who, n).revoked = 0
         /\ NewSP(kind, who, n).missed = 0
BY Zenon DEF NewSP, SPEntry

\* A new property without a crowdsale.
LEMMA NewPropertySound ==
  ASSUME SoundNow, NEW p \in Property, p \notin DOMAIN sp,
         NEW e \in SPEntry, NEW n \in Nat, n <= MaxTokens, Recd(e) = n,
         NEW s2, s2 = Put(sp, p, e),
         NEW who \in Address, NEW bal, bal = Credit(balance, who, p, n)
  PROVE  Sound(bal, metadexReserve, feeCache, s2, my_crowds) /\ bal \in NatTally /\ Grows(balance, bal)
<1>1. balance \in NatTally /\ metadexReserve \in NatTally /\ ConsistentRecords(sp, my_crowds)
  BY Zenon DEF SoundNow, Sound
<1>2. bal \in NatTally /\ Grows(balance, bal)
  BY <1>1, CreditNat, Zenon
<1>3. Adds(balance, metadexReserve, bal, metadexReserve, p, n) /\ n \in Int
  <2>1. balance \in Tally /\ metadexReserve \in Tally /\ n \in Int
    BY <1>1 DEF Tally, NatTally
  <2> QED
    BY <2>1, CreditAdds
<1>4. /\ ConsistentRecords(s2, my_crowds)
      /\ DOMAIN s2 = DOMAIN sp \cup {p} /\ s2[p] = e
      /\ \A q \in DOMAIN sp : s2[q] = sp[q]
      /\ \A q \in Property \ {p} : RecordsKept(sp, my_crowds, s2, my_crowds, q)
      /\ ~OpenFor(my_crowds, p)
  BY <1>1, PutEntry
<1>5. Held(balance, metadexReserve, feeCache, p) + n = n
  BY NoneHeld
<1>6. Accounted(s2, my_crowds, Held(balance, metadexReserve, feeCache, p) + n, p)
  <2>1. p \in DOMAIN s2 /\ \A a \in DOMAIN my_crowds : my_crowds[a].prop # p
    BY <1>4, Zenon DEF OpenFor
  <2>2. Accounted(s2, my_crowds, n, p)
    BY <1>4, <2>1, Zenon DEF Accounted
  <2> QED
    BY <1>5, <2>2, Zenon
<1>7. Sound(bal, metadexReserve, feeCache, s2, my_crowds)
  BY <1>2, <1>3, <1>4, <1>6, SoundAdded DEF SoundNow
<1> QED
  BY <1>2, <1>7, Zenon

\* CreatePropertyFixed: the tokens issued are those recorded.
LEMMA CreateFixedSound ==
  ASSUME FInv, SoundNow, NEW who \in Address, NEW p \in Property, NEW n \in Amounts,
         CreatePropertyFixed(who, p, n)
  PROVE  SoundNow' /\ KeepsFrozen
<1> DEFINE e == NewSP("fixed", who, n)
           bal == Credit(balance, who, p, n)
           s2 == sp'
<1>1. n \in Nat /\ n <= MaxTokens
  BY AmountsNat, Zenon
<1>2. /\ p \notin DOMAIN sp /\ s2 = Put(sp, p, e) /\ metadexReserve' = metadexReserve
      /\ my_crowds' = my_crowds /\ Becomes(Notified([Now EXCEPT !.bal = bal], p, n))
  <2>1. p \notin DOMAIN sp /\ s2 = Put(sp, p, e) /\ Becomes(Notified([Now EXCEPT !.bal = bal], p, n))
    BY Zenon DEF CreatePropertyFixed, IsNextSPID, NextSPID
  <2>2. metadexReserve' = metadexReserve /\ my_crowds' = my_crowds
    BY Zenon DEF CreatePropertyFixed, bookVars
  <2> QED
    BY <2>1, <2>2, Zenon
<1>3. MSC \in Property
  BY MSCOwned, Zenon DEF SoundNow
<1>4. e \in SPEntry /\ Recd(e) = n
  BY <1>1, <1>3, NewSPType DEF Recd
<1>5. bal = Credit(balance, who, p, n)
  BY Zenon
<1> HIDE DEF e, bal, s2
<1>6. Sound(bal, metadexReserve, feeCache, s2, my_crowds) /\ bal \in NatTally /\ Grows(balance, bal)
  BY <1>1, <1>2, <1>4, <1>5, NewPropertySound, Zenon
<1>7. Sound(bal, metadexReserve, feeCache, sp', my_crowds')
  BY <1>2, <1>6, Zenon DEF s2
<1>8. SoundNow' /\ Grows(bal, balance')
  BY <1>2, <1>7, NotifiedNow
<1>9. balance \in NatTally /\ balance' \in NatTally
  BY <1>8, Zenon DEF SoundNow, Sound
<1>10. <<0, 0, 0>> \notin setFrozenAddresses
  BY DEF FInv, Slot
<1>11. KeepsFrozen
  <2>1. \A s \in Slot : s # <<0, 0, 0>> => bal[s] >= balance[s]
    BY <1>6, Zenon DEF Grows
  <2> QED
    BY <1>6, <1>8, <1>9, <1>10, <2>1, GrowthKeepsFrozen
<1> QED
  BY <1>8, <1>11, Zenon

\* CreatePropertyManaged: nothing is issued yet.
LEMMA CreateManagedSound ==
  ASSUME FInv, SoundNow, NEW who \in Address, NEW p \in Property, CreatePropertyManaged(who, p)
  PROVE  SoundNow' /\ KeepsFrozen
<1> DEFINE e == NewSP("managed", who, 0)
           bal == Credit(balance, who, p, 0)
           s2 == sp'
<1>1. p \notin DOMAIN sp /\ s2 = Put(sp, p, e)
  BY Zenon DEF CreatePropertyManaged, IsNextSPID, NextSPID
<1>2. metadexReserve' = metadexReserve /\ my_crowds' = my_crowds /\ balance' = balance /\ feeCache' = feeCache
  BY Zenon DEF CreatePropertyManaged, bookVars, feeVars
<1>3. MSC \in Property
  BY MSCOwned, Zenon DEF SoundNow
<1>4. e \in SPEntry /\ Recd(e) = 0 /\ 0 \in Nat /\ 0 <= MaxTokens
  BY <1>3, NewSPType, RatioIsFine DEF Recd
<1>5. balance \in NatTally
  BY Zenon DEF SoundNow, Sound
<1>6. bal = balance
  BY <1>5 DEF Credit, NatTally, Slot
<1>7. bal = Credit(balance, who, p, 0)
  BY Zenon
<1> HIDE DEF e, s2, bal
<1>8. Sound(bal, metadexReserve, feeCache, s2, my_crowds)
  BY <1>1, <1>4, <1>7, NewPropertySound
<1>9. SoundNow'
  BY <1>2, <1>6, <1>8, Zenon DEF SoundNow, s2
<1>10. KeepsFrozen
  BY <1>2, <1>5, SameKeepsFrozen
<1> QED
  BY <1>9, <1>10, Zenon

\* A crowdsale begins: a new entry and a crowd of its own, with nothing sold.
LEMMA CrowdOpened ==
  ASSUME NEW s, NEW c, ConsistentRecords(s, c), NEW p \in Property, p \notin DOMAIN s,
         NEW e \in SPEntry, e.kind = "variable", e.missed = 0,
         NEW s2, s2 = Put(s, p, e),
         NEW who \in Address, who \notin DOMAIN c,
         NEW d \in CMPCrowd, d.prop = p,
         NEW c2, c2 = Put(c, who, d)
  PROVE  /\ ConsistentRecords(s2, c2)
         /\ \A q \in Property \ {p} : RecordsKept(s, c, s2, c2, q)
         /\ p \in DOMAIN s2 /\ OpenFor(c2, p)
         /\ \A a \in DOMAIN c2 : c2[a].prop = p => a = who /\ c2[a] = d
<1>1. /\ ConsistentRecords(s2, c)
      /\ DOMAIN s2 = DOMAIN s \cup {p} /\ s2[p] = e
      /\ \A q \in DOMAIN s : s2[q] = s[q]
      /\ \A q \in Property \ {p} : RecordsKept(s, c, s2, c, q)
      /\ ~OpenFor(c, p)
  BY PutEntry
<1>2. DOMAIN c2 = DOMAIN c \cup {who} /\ c2[who] = d /\ \A a \in DOMAIN c : c2[a] = c[a]
  BY Zenon DEF Put
<1>3. \A a \in DOMAIN c : c[a] \in CMPCrowd /\ c[a].prop \in DOMAIN s2 /\ c[a].prop # p
  BY <1>1, Zenon DEF ConsistentRecords, OpenFor
<1>4. c2 \in [DOMAIN c2 -> CMPCrowd]
  <2>1. c2 = [x \in DOMAIN c \cup {who} |-> IF x = who THEN d ELSE c[x]]
    BY Zenon DEF Put
  <2>2. \A x \in DOMAIN c \cup {who} : (IF x = who THEN d ELSE c[x]) \in CMPCrowd
    BY <1>3, Zenon
  <2> QED
    BY <1>2, <2>1, <2>2, Zenon
<1>5. DOMAIN c2 \subseteq Address
  BY <1>2, Zenon DEF ConsistentRecords
<1>6. \A a \in DOMAIN c2 : /\ c2[a].prop \in DOMAIN s2
                           /\ s2[c2[a].prop].kind = "variable"
                           /\ s2[c2[a].prop].missed = 0
  <2>1. \A a \in DOMAIN c : /\ c[a].prop \in DOMAIN s2
                            /\ s2[c[a].prop].kind = "variable"
                            /\ s2[c[a].prop].missed = 0
    BY <1>1, Zenon DEF ConsistentRecords
  <2> QED
    BY <1>1, <1>2, <2>1, Zenon
<1>7. \A a, b \in DOMAIN c2 : c2[a].prop = c2[b].prop => a = b
  <2>1. \A a, b \in DOMAIN c : c[a].prop = c[b].prop => a = b
    BY Zenon DEF ConsistentRecords
  <2>2. \A a \in DOMAIN c : c2[a].prop # d.prop
    BY <1>2, <1>3, Zenon
  <2> SUFFICES ASSUME NEW a \in DOMAIN c2, NEW b \in DOMAIN c2, c2[a].prop = c2[b].prop PROVE a = b
    BY Zenon
  <2>3. CASE a \in DOMAIN c /\ b \in DOMAIN c
    BY <1>2, <2>1, <2>3, Zenon
  <2>4. CASE a = who
    BY <1>2, <2>2, <2>4, Zenon
  <2>5. CASE b = who
    BY <1>2, <2>2, <2>5, Zenon
  <2> QED
    BY <1>2, <2>3, <2>4, <2>5, Zenon
<1>8. ConsistentRecords(s2, c2)
  <2>1. /\ DOMAIN s2 \subseteq Property /\ s2 \in [DOMAIN s2 -> SPEntry]
        /\ MSC \in DOMAIN s2 /\ s2[MSC].kind = "implied" /\ s2[MSC].num > 0
    BY <1>1, Zenon DEF ConsistentRecords
  <2> QED
    BY <1>4, <1>5, <1>6, <1>7, <2>1, Zenon DEF ConsistentRecords
<1>9. ASSUME NEW q \in Property \ {p} PROVE RecordsKept(s, c, s2, c2, q)
  <2>1. q \in DOMAIN s2 <=> q \in DOMAIN s
    BY <1>1, Zenon
  <2>2. q \in DOMAIN s => Recd(s2[q]) = Recd(s[q])
    BY <1>1, Zenon
  <2>3. OpenFor(c, q) => OpenFor(c2, q)
    BY <1>2, Zenon DEF OpenFor
  <2>4. \A a \in DOMAIN c2 : c2[a].prop = q => a \in DOMAIN c /\ c2[a] = c[a]
    BY <1>2, Zenon
  <2> QED
    BY <2>1, <2>2, <2>3, <2>4, Zenon DEF RecordsKept
<1>10. OpenFor(c2, p) /\ \A a \in DOMAIN c2 : c2[a].prop = p => a = who /\ c2[a] = d
  BY <1>2, <1>3, Zenon DEF OpenFor
<1> QED
  BY <1>1, <1>8, <1>9, <1>10, Zenon

\* CreatePropertyVariable: a crowdsale opens with nothing sold.
LEMMA CreateVariableSound ==
  \A who \in Address, p \in Property, q \in Property \cup {RPD}, n \in Amounts, d \in Deadlines,
     b \in EarlyBirds, i \in Percentages :
      /\ FInv
      /\ SoundNow
      /\ CreatePropertyVariable(who, p, q, n, d, b, i)
      => SoundNow' /\ KeepsFrozen
<1> SUFFICES ASSUME FInv, SoundNow, NEW who \in Address, NEW p \in Property,
                    NEW q \in Property \cup {RPD}, NEW n \in Amounts,
                    NEW d \in Deadlines, NEW b \in EarlyBirds, NEW i \in Percentages,
                    CreatePropertyVariable(who, p, q, n, d, b, i)
             PROVE  SoundNow' /\ KeepsFrozen
  BY Zenon
<1> DEFINE e == [NewSP("variable", who, n) EXCEPT !.desired = q, !.deadline = d,
                                                  !.earlybird = b, !.percentage = i]
           crowd == [prop |-> p, desired |-> q, deadline |-> d, user |-> 0, issuer |-> 0]
           s2 == sp'
           c2 == my_crowds'
<1>1. p \notin DOMAIN sp /\ who \notin DOMAIN my_crowds /\ s2 = Put(sp, p, e) /\ c2 = Put(my_crowds, who, crowd)
  BY Zenon DEF CreatePropertyVariable, IsNextSPID, NextSPID
<1>2. metadexReserve' = metadexReserve /\ balance' = balance /\ feeCache' = feeCache
  BY Zenon DEF CreatePropertyVariable, bookVars, feeVars
<1>3. MSC \in Property /\ n \in Nat
  BY MSCOwned, AmountsNat DEF SoundNow
<1>4. d \in Nat /\ b \in Nat /\ i \in Nat
  BY InputsType, Zenon
<1>5. e \in SPEntry /\ e.kind = "variable" /\ e.missed = 0
  BY <1>3, <1>4, Zenon DEF NewSP, SPEntry
<1>6. crowd \in CMPCrowd /\ crowd.prop = p /\ crowd.user = 0 /\ crowd.issuer = 0
  BY <1>4, Zenon DEF CMPCrowd
<1>7. balance \in NatTally /\ metadexReserve \in NatTally /\ ConsistentRecords(sp, my_crowds)
  BY Zenon DEF SoundNow, Sound
<1> HIDE DEF e, s2, c2, crowd
<1>8. /\ ConsistentRecords(s2, c2)
      /\ \A r \in Property \ {p} : RecordsKept(sp, my_crowds, s2, c2, r)
      /\ p \in DOMAIN s2 /\ OpenFor(c2, p)
      /\ \A a \in DOMAIN c2 : c2[a].prop = p => a = who /\ c2[a] = crowd
  BY <1>1, <1>5, <1>6, <1>7, CrowdOpened
<1>9. Held(balance, metadexReserve, feeCache, p) + 0 = 0
  BY <1>1, NoneHeld
<1>10. Accounted(s2, c2, Held(balance, metadexReserve, feeCache, p) + 0, p)
  <2>1. 0 <= MaxTokens /\ 0 + 0 = 0
    BY RatioIsFine
  <2>2. Accounted(s2, c2, 0, p)
    BY <1>6, <1>8, <2>1, Zenon DEF Accounted
  <2> QED
    BY <1>9, <2>2, Zenon
<1>11. Adds(balance, metadexReserve, balance, metadexReserve, p, 0) /\ 0 \in Int
  <2>1. balance \in Tally /\ metadexReserve \in Tally
    BY <1>7 DEF Tally, NatTally
  <2>2. Tot(balance, metadexReserve, p) \in Int
    BY <2>1, TotType, Zenon
  <2> QED
    BY <2>2 DEF Adds
<1>12. Sound(balance, metadexReserve, feeCache, s2, c2)
  BY <1>7, <1>8, <1>10, <1>11, SoundAdded DEF SoundNow
<1>13. SoundNow'
  BY <1>2, <1>12, Zenon DEF SoundNow, s2, c2
<1>14. KeepsFrozen
  BY <1>2, <1>7, SameKeepsFrozen
<1> QED
  BY <1>13, <1>14, Zenon

\* The tokens of a managed property and its record change by the same amount.
LEMMA ManagedSound ==
  ASSUME SoundNow, NEW p \in DOMAIN sp, sp[p].kind = "managed",
         NEW e \in SPEntry, e.kind = sp[p].kind, e.num = sp[p].num, e.missed = sp[p].missed,
         NEW s2, s2 = [sp EXCEPT ![p] = e],
         NEW n \in Int, Recd(e) = Recd(sp[p]) + n,
         Held(balance, metadexReserve, feeCache, p) + n <= MaxTokens,
         NEW bal \in NatTally, Adds(balance, metadexReserve, bal, metadexReserve, p, n)
  PROVE  Sound(bal, metadexReserve, feeCache, s2, my_crowds)
<1>1. ConsistentRecords(sp, my_crowds) /\ p \in Property
  BY Zenon DEF SoundNow, Sound, ConsistentRecords
<1>2. ~OpenFor(my_crowds, p)
  BY <1>1, Zenon DEF OpenFor, ConsistentRecords
<1>3. Held(balance, metadexReserve, feeCache, p) = Recd(sp[p])
  <2>1. Accounted(sp, my_crowds, Held(balance, metadexReserve, feeCache, p), p)
    BY <1>1, Zenon DEF SoundNow, Sound
  <2> QED
    BY <1>2, <2>1, Zenon DEF Accounted
<1>4. /\ ConsistentRecords(s2, my_crowds)
      /\ DOMAIN s2 = DOMAIN sp /\ s2[p] = e
      /\ \A q \in Property \ {p} : RecordsKept(sp, my_crowds, s2, my_crowds, q)
  BY <1>1, SetEntry, Zenon
<1>5. Accounted(s2, my_crowds, Held(balance, metadexReserve, feeCache, p) + n, p)
  <2>1. p \in DOMAIN s2 /\ \A a \in DOMAIN my_crowds : my_crowds[a].prop # p
    BY <1>2, <1>4, Zenon DEF OpenFor
  <2>2. Held(balance, metadexReserve, feeCache, p) + n = Recd(s2[p])
    BY <1>3, <1>4, Zenon
  <2> QED
    BY <2>1, <2>2, Zenon DEF Accounted
<1> QED
  BY <1>1, <1>4, <1>5, SoundAdded, Zenon DEF SoundNow

\* GrantTokens: what is granted is recorded and within the maximum.
LEMMA GrantSound ==
  ASSUME FInv, SoundNow, NEW who \in Address, NEW to \in Address, NEW p \in Property, NEW n \in Amounts,
         GrantTokens(who, to, p, n)
  PROVE  SoundNow' /\ KeepsFrozen
<1> DEFINE bal == Credit(balance, to, p, n)
           L == [Now EXCEPT !.bal = bal]
           total == getTotalTokens(L, p)
           e == [sp[p] EXCEPT !.created = sp[p].created + n]
           s2 == sp'
<1>1. n \in Nat
  BY AmountsNat, Zenon
<1>2. /\ p \in DOMAIN sp /\ sp[p].kind = "managed" /\ n <= MaxTokens - getTotalTokens(Now, p)
      /\ Becomes(Notified([Now EXCEPT !.bal = bal], p, total))
  BY Zenon DEF GrantTokens, IsManagedBy, IsPropertyIdValid
<1>3. metadexReserve' = metadexReserve /\ my_crowds' = my_crowds
  BY Zenon DEF GrantTokens, bookVars
<1>4. balance \in NatTally /\ metadexReserve \in NatTally /\ sp[p] \in SPEntry
  BY <1>2, Zenon DEF SoundNow, Sound, ConsistentRecords
<1>5. s2 = [sp EXCEPT ![p] = e]
  BY <1>2, Zenon DEF GrantTokens
<1>6. /\ e \in SPEntry /\ e.kind = sp[p].kind /\ e.num = sp[p].num /\ e.missed = sp[p].missed
      /\ e.created = sp[p].created + n /\ e.revoked = sp[p].revoked
      /\ sp[p].created \in Nat /\ sp[p].revoked \in Nat
  BY <1>1, <1>4 DEF SPEntry
<1> HIDE DEF e, s2, total
<1>7. Recd(e) = Recd(sp[p]) + n /\ n \in Int
  <2>1. Recd(e) = e.created - e.revoked /\ Recd(sp[p]) = sp[p].created - sp[p].revoked
    BY <1>2, <1>6, Zenon DEF Recd
  <2> QED
    BY <1>1, <1>6, <2>1
<1>8. Held(balance, metadexReserve, feeCache, p) + n <= MaxTokens
  <2>1. Now = [bal |-> balance, fees |-> feeCache, thr |-> distributionThresholds]
    BY Zenon DEF Now
  <2>2. /\ getTotalTokens(Now, p) = Held(balance, metadexReserve, feeCache, p)
        /\ Held(balance, metadexReserve, feeCache, p) \in Nat
    BY <1>2, <2>1, TotalIsHeld DEF SoundNow
  <2> QED
    BY <1>1, <1>2, <2>2, RatioIsFine
<1>9. bal \in NatTally /\ Grows(balance, bal)
  BY <1>1, <1>4, CreditNat, Zenon
<1>10. Adds(balance, metadexReserve, bal, metadexReserve, p, n)
  <2>1. balance \in Tally /\ metadexReserve \in Tally
    BY <1>4 DEF Tally, NatTally
  <2> QED
    BY <1>7, <2>1, CreditAdds
<1> HIDE DEF bal
<1>11. Sound(bal, metadexReserve, feeCache, s2, my_crowds)
  BY <1>2, <1>5, <1>6, <1>7, <1>8, <1>9, <1>10, ManagedSound, Zenon
<1>12. Sound(bal, metadexReserve, feeCache, sp', my_crowds')
  BY <1>3, <1>11, Zenon DEF s2
<1>13. SoundNow' /\ Grows(bal, balance')
  BY <1>2, <1>3, <1>12, NotifiedNow, ZenonT(30)
<1>14. balance' \in NatTally
  BY <1>13, Zenon DEF SoundNow, Sound
<1>15. <<0, 0, 0>> \notin setFrozenAddresses
  BY DEF FInv, Slot
<1>16. KeepsFrozen
  <2>1. \A s \in Slot : s # <<0, 0, 0>> => bal[s] >= balance[s]
    BY <1>9, Zenon DEF Grows
  <2> QED
    BY <1>4, <1>9, <1>13, <1>14, <1>15, <2>1, GrowthKeepsFrozen
<1> QED
  BY <1>13, <1>16, Zenon

\* RevokeTokens: what is revoked is recorded and was there.
LEMMA RevokeSound ==
  ASSUME FInv, SoundNow, NEW who \in Address, NEW p \in Property, NEW n \in Amounts,
         RevokeTokens(who, p, n)
  PROVE  SoundNow' /\ KeepsFrozen
<1> DEFINE bal == Debit(balance, who, p, n)
           L == [Now EXCEPT !.bal = bal]
           total == getTotalTokens(L, p)
           e == [sp[p] EXCEPT !.revoked = sp[p].revoked + n]
           s2 == sp'
           m == -n
<1>1. n \in Nat
  BY AmountsNat
<1>2. /\ p \in DOMAIN sp /\ sp[p].kind = "managed" /\ balance[<<who, p>>] >= n
      /\ <<who, p>> \notin setFrozenAddresses
      /\ Becomes(Notified([Now EXCEPT !.bal = bal], p, total))
  BY Zenon DEF RevokeTokens, Permitted, IsPropertyIdValid
<1>3. metadexReserve' = metadexReserve /\ my_crowds' = my_crowds
  BY Zenon DEF RevokeTokens, bookVars
<1>4. balance \in NatTally /\ metadexReserve \in NatTally /\ sp[p] \in SPEntry
  BY <1>2, Zenon DEF SoundNow, Sound, ConsistentRecords
<1>5. s2 = [sp EXCEPT ![p] = e]
  BY <1>2, Zenon DEF RevokeTokens
<1>6. /\ e \in SPEntry /\ e.kind = sp[p].kind /\ e.num = sp[p].num /\ e.missed = sp[p].missed
      /\ e.created = sp[p].created /\ e.revoked = sp[p].revoked + n
      /\ sp[p].created \in Nat /\ sp[p].revoked \in Nat
  BY <1>1, <1>4 DEF SPEntry
<1> HIDE DEF e, s2, total
<1>7. Recd(e) = Recd(sp[p]) + m /\ m \in Int /\ n \in Int
  <2>1. Recd(e) = e.created - e.revoked /\ Recd(sp[p]) = sp[p].created - sp[p].revoked
    BY <1>2, <1>6, Zenon DEF Recd
  <2> QED
    BY <1>1, <1>6, <2>1
<1>8. Held(balance, metadexReserve, feeCache, p) + m <= MaxTokens
  <2>1. /\ Held(balance, metadexReserve, feeCache, p) \in Nat
        /\ Held(balance, metadexReserve, feeCache, p) <= MaxTokens
    BY <1>2, TotalIsHeld, Zenon DEF SoundNow
  <2> QED
    BY <1>1, <2>1, RatioIsFine
<1>9. bal \in NatTally /\ \A s \in Slot : s # <<who, p>> => bal[s] = balance[s]
  BY <1>1, <1>2, <1>4, DebitNat
<1>10. Adds(balance, metadexReserve, bal, metadexReserve, p, m)
  <2>1. balance \in Tally /\ metadexReserve \in Tally
    BY <1>4 DEF Tally, NatTally
  <2> QED
    BY <1>7, <2>1, DebitAdds, Zenon
<1> HIDE DEF bal, m
<1>11. Sound(bal, metadexReserve, feeCache, s2, my_crowds)
  BY <1>2, <1>5, <1>6, <1>7, <1>8, <1>9, <1>10, ManagedSound, Zenon
<1>12. Sound(bal, metadexReserve, feeCache, sp', my_crowds')
  BY <1>3, <1>11, Zenon DEF s2
<1>13. SoundNow' /\ Grows(bal, balance')
  BY <1>2, <1>3, <1>12, NotifiedNow
<1>14. balance' \in NatTally
  BY <1>13, Zenon DEF SoundNow, Sound
<1>15. KeepsFrozen
  <2>1. \A s \in Slot : balance[s] \in Int
    BY <1>4 DEF NatTally
  <2>2. \A s \in Slot : s # <<who, p>> => bal[s] >= balance[s]
    BY <1>9, <2>1
  <2> QED
    BY <1>2, <1>4, <1>9, <1>13, <1>14, <2>2, GrowthKeepsFrozen
<1> QED
  BY <1>13, <1>15, Zenon

\* ChangeIssuer: no token moves; that of MSC changes nothing.
LEMMA ChangeIssuerSound ==
  ASSUME FInv, SoundNow, NEW who \in Address, NEW to \in Address, NEW p \in Property,
         ChangeIssuer(who, to, p)
  PROVE  SoundNow' /\ KeepsFrozen
<1>0. CASE p = MSC
  <2>1. /\ balance' = balance /\ metadexReserve' = metadexReserve /\ feeCache' = feeCache
        /\ sp' = sp /\ my_crowds' = my_crowds
    BY <1>0, Zenon DEF ChangeIssuer, bookVars, feeVars, issueVars
  <2>2. balance \in NatTally
    BY Zenon DEF SoundNow, Sound
  <2> QED
    BY <2>1, <2>2, SameKeepsFrozen DEF SoundNow
<1> SUFFICES ASSUME p # MSC PROVE SoundNow' /\ KeepsFrozen
  BY <1>0, Zenon
<1> DEFINE e == [sp[p] EXCEPT !.issuer = to]
           s2 == sp'
<1>1. metadexReserve' = metadexReserve /\ my_crowds' = my_crowds /\ balance' = balance /\ feeCache' = feeCache
  BY Zenon DEF ChangeIssuer, bookVars, feeVars, issueVars
<1>2. p \in DOMAIN sp
  BY Zenon DEF ChangeIssuer, IsPropertyIdValid
<1>3. /\ balance \in NatTally /\ metadexReserve \in NatTally /\ feeCache \in FeeTally /\ feeCache[MSC] = 0
      /\ sp[p] \in SPEntry /\ ConsistentRecords(sp, my_crowds)
  BY <1>2, Zenon DEF SoundNow, Sound, ConsistentRecords
<1>4. s2 = [sp EXCEPT ![p] = e]
  BY <1>2, Zenon DEF ChangeIssuer
<1>5. /\ e \in SPEntry /\ e.kind = sp[p].kind /\ e.num = sp[p].num /\ e.missed = sp[p].missed
      /\ e.created = sp[p].created /\ e.revoked = sp[p].revoked
  BY <1>3, Zenon DEF SPEntry
<1> HIDE DEF e, s2
<1>6. /\ ConsistentRecords(s2, my_crowds)
      /\ DOMAIN s2 = DOMAIN sp /\ s2[p] = e
      /\ \A q \in Property \ {p} : RecordsKept(sp, my_crowds, s2, my_crowds, q)
  BY <1>2, <1>3, <1>4, <1>5, SetEntry, Zenon
<1>7. RecordsKept(sp, my_crowds, s2, my_crowds, p)
  <2>1. Recd(s2[p]) = Recd(sp[p])
    BY <1>5, <1>6, Zenon DEF Recd
  <2> QED
    BY <1>6, <2>1, Zenon DEF RecordsKept
<1>8. ASSUME NEW q \in Property
      PROVE  Accounted(s2, my_crowds, Held(balance, metadexReserve, feeCache, q), q)
  <2>1. RecordsKept(sp, my_crowds, s2, my_crowds, q)
    BY <1>6, <1>7, Zenon
  <2>2. Accounted(sp, my_crowds, Held(balance, metadexReserve, feeCache, q), q)
    BY Zenon DEF SoundNow, Sound
  <2> QED
    BY <2>1, <2>2, AccountedKept
<1>9. SoundNow'
  BY <1>1, <1>3, <1>6, <1>8, Zenon DEF SoundNow, Sound, s2
<1>10. KeepsFrozen
  BY <1>1, <1>3, SameKeepsFrozen
<1> QED
  BY <1>9, <1>10, Zenon

-----------------------------------------------------------------------------
(* Crowdsales end. *)

\* The crowdsales of the issuers in K end: their properties are closed and
\* the issuers get the bonus that they missed.
InEnded(K, q) == \E a \in K : my_crowds[a].prop = q

EndsIn(K, s2) ==
    /\ s2 = [q \in DOMAIN sp |-> s2[q]]
    /\ \A a \in K : s2[my_crowds[a].prop] = Closed(my_crowds[a].prop, my_crowds[a])
    /\ \A q \in DOMAIN sp : ~InEnded(K, q) => s2[q] = sp[q]

MissedPaid(K, b2) ==
    /\ b2 = [s \in Slot |-> b2[s]]
    /\ \A a \in K, b \in Address :
          LET q == my_crowds[a].prop
          IN  b2[<<b, q>>] = balance[<<b, q>>] +
                             (IF b = sp[q].issuer THEN GetMissedIssuerBonus(q, my_crowds[a]) ELSE 0)
    /\ \A q \in Property, b \in Address : ~InEnded(K, q) => b2[<<b, q>>] = balance[<<b, q>>]

\* The bonus missed in the crowdsale of an issuer.
LEMMA MissedOf ==
  \A a \in DOMAIN my_crowds : \A q, m :
      /\ SoundNow
      /\ q = my_crowds[a].prop
      /\ m = GetMissedIssuerBonus(q, my_crowds[a])
      => /\ q \in DOMAIN sp /\ q \in Property /\ sp[q].issuer \in Address
         /\ m \in Nat
         /\ Held(balance, metadexReserve, feeCache, q) = my_crowds[a].user + my_crowds[a].issuer
         /\ Held(balance, metadexReserve, feeCache, q) + m <= MaxTokens
         /\ Closed(q, my_crowds[a]) \in SPEntry
         /\ Closed(q, my_crowds[a]).kind = sp[q].kind
         /\ Closed(q, my_crowds[a]).num = sp[q].num
         /\ Recd(Closed(q, my_crowds[a])) = Held(balance, metadexReserve, feeCache, q) + m
\* The missed bonus of the issuer is no more than can still be created.
<1>MissedBounds.
    ASSUME NEW e \in SPEntry, NEW d \in CMPCrowd, d.user + d.issuer <= MaxTokens,
           NEW m, m = (LET exact == (d.user * e.percentage) \div 100
                       IN  IF exact < d.issuer THEN 0
                           ELSE Min2(exact - d.issuer, MaxTokens - (d.user + d.issuer)))
    PROVE  m \in Nat /\ (d.user + d.issuer) + m <= MaxTokens
  <2> USE <1>MissedBounds
  <2> DEFINE exact == (d.user * e.percentage) \div 100
  <2>1. d.user \in Nat /\ d.issuer \in Nat /\ e.percentage \in Nat /\ MaxTokens \in Nat
    BY RatioIsFine, Zenon DEF SPEntry, CMPCrowd
  <2>2. d.user * e.percentage \in Nat
    BY <2>1
  <2>3. exact \in Nat
    BY <2>2, Division
  <2>4. m = IF exact < d.issuer THEN 0 ELSE Min2(exact - d.issuer, MaxTokens - (d.user + d.issuer))
    BY Zenon
  <2> HIDE DEF exact
  <2> QED
    BY <2>1, <2>3, <2>4 DEF Min2
<1> SUFFICES ASSUME SoundNow, NEW a \in DOMAIN my_crowds, NEW q, q = my_crowds[a].prop,
                    NEW m, m = GetMissedIssuerBonus(q, my_crowds[a])
             PROVE  /\ q \in DOMAIN sp /\ q \in Property /\ sp[q].issuer \in Address
                    /\ m \in Nat
                    /\ Held(balance, metadexReserve, feeCache, q) = my_crowds[a].user + my_crowds[a].issuer
                    /\ Held(balance, metadexReserve, feeCache, q) + m <= MaxTokens
                    /\ Closed(q, my_crowds[a]) \in SPEntry
                    /\ Closed(q, my_crowds[a]).kind = sp[q].kind
                    /\ Closed(q, my_crowds[a]).num = sp[q].num
                    /\ Recd(Closed(q, my_crowds[a])) = Held(balance, metadexReserve, feeCache, q) + m
  BY Zenon
<1> DEFINE d == my_crowds[a]
           e == sp[q]
           h == Held(balance, metadexReserve, feeCache, q)
           cl == Closed(q, d)
<1>1. ConsistentRecords(sp, my_crowds)
  BY Zenon DEF SoundNow, Sound
<1>2. q \in DOMAIN sp /\ q \in Property /\ e \in SPEntry /\ d \in CMPCrowd /\ e.kind = "variable"
  BY <1>1, Zenon DEF ConsistentRecords
<1>3. h = d.user + d.issuer /\ h <= MaxTokens
  <2>1. Accounted(sp, my_crowds, h, q)
    BY <1>2, Zenon DEF SoundNow, Sound
  <2> QED
    BY <1>2, <2>1, Zenon DEF Accounted
<1>4. m = (LET exact == (d.user * e.percentage) \div 100
           IN  IF exact < d.issuer THEN 0
               ELSE Min2(exact - d.issuer, MaxTokens - (d.user + d.issuer)))
  BY Zenon DEF GetMissedIssuerBonus
<1>5. cl = [e EXCEPT !.created = d.user + d.issuer, !.missed = m]
  BY Zenon DEF Closed
<1>6. e.issuer \in Address /\ d.user \in Nat /\ d.issuer \in Nat
  BY <1>2, Zenon DEF SPEntry, CMPCrowd
<1> HIDE DEF d, e, h, cl
<1>7. m \in Nat /\ (d.user + d.issuer) + m <= MaxTokens
  <2>1. d.user + d.issuer <= MaxTokens
    BY <1>3, Zenon
  <2> QED
    BY <1>2, <1>4, <2>1, <1>MissedBounds
<1>8. /\ cl \in SPEntry /\ cl.kind = e.kind /\ cl.num = e.num
      /\ cl.created = d.user + d.issuer /\ cl.missed = m
  <2> DEFINE x == d.user + d.issuer
  <2>1. x \in Nat
    BY <1>6
  <2>2. cl = [e EXCEPT !.created = x, !.missed = m]
    BY <1>5, Zenon
  <2> HIDE DEF x
  <2>3. cl \in SPEntry /\ cl.kind = e.kind /\ cl.num = e.num /\ cl.created = x /\ cl.missed = m
    BY <1>2, <1>7, <2>1, <2>2, Zenon DEF SPEntry
  <2> QED
    BY <2>3, Zenon DEF x
<1>9. Recd(cl) = h + m
  <2>1. Recd(cl) = cl.created + cl.missed
    BY <1>2, <1>8 DEF Recd
  <2> QED
    BY <1>3, <1>8, <2>1, Zenon
<1>10. h + m <= MaxTokens
  BY <1>3, <1>7, Zenon
<1> QED
  BY <1>2, <1>3, <1>6, <1>7, <1>8, <1>9, <1>10, Zenon DEF d, e, h, cl

\* Crowdsales end: what they created and the bonus missed are recorded.
LEMMA CrowdsEndSound ==
  ASSUME SoundNow, NEW K, K \subseteq DOMAIN my_crowds,
         NEW s2, EndsIn(K, s2), NEW b2, MissedPaid(K, b2),
         NEW c2, c2 = Without(my_crowds, K)
  PROVE  Sound(b2, metadexReserve, feeCache, s2, c2) /\ Grows(balance, b2)
<1>1. /\ balance \in NatTally /\ metadexReserve \in NatTally /\ feeCache \in FeeTally /\ feeCache[MSC] = 0
      /\ ConsistentRecords(sp, my_crowds)
  BY Zenon DEF SoundNow, Sound
<1>2. DOMAIN s2 = DOMAIN sp
  BY Zenon DEF EndsIn
<1>3. ASSUME NEW q \in DOMAIN sp
      PROVE  s2[q] \in SPEntry /\ s2[q].kind = sp[q].kind /\ s2[q].num = sp[q].num
  <2>1. CASE InEnded(K, q)
    <3>1. PICK a \in K : my_crowds[a].prop = q
      BY <2>1, Zenon DEF InEnded
    <3>2. s2[q] = Closed(q, my_crowds[a]) /\ a \in DOMAIN my_crowds
      BY <3>1, Zenon DEF EndsIn
    <3>3. Closed(q, my_crowds[a]) \in SPEntry /\ Closed(q, my_crowds[a]).kind = sp[q].kind
          /\ Closed(q, my_crowds[a]).num = sp[q].num
      BY <3>1, <3>2, MissedOf
    <3> QED
      BY <3>2, <3>3, Zenon
  <2>2. CASE ~InEnded(K, q)
    <3>1. s2[q] = sp[q]
      BY <2>2, Zenon DEF EndsIn
    <3>2. sp[q] \in SPEntry
      BY <1>1, Zenon DEF ConsistentRecords
    <3> QED
      BY <3>1, <3>2, Zenon
  <2> QED
    BY <2>1, <2>2, Zenon
<1>4. s2 \in [DOMAIN s2 -> SPEntry]
  BY <1>2, <1>3, Zenon DEF EndsIn
<1>5. \A q \in DOMAIN sp : (\A a \in K : my_crowds[a].prop # q) => s2[q] = sp[q]
  BY Zenon DEF EndsIn, InEnded
<1>6. /\ ConsistentRecords(s2, c2)
      /\ \A q \in Property : (\A a \in K : my_crowds[a].prop # q) => RecordsKept(sp, my_crowds, s2, c2, q)
      /\ \A a \in K : ~OpenFor(c2, my_crowds[a].prop)
  BY <1>1, <1>2, <1>3, <1>4, <1>5, CrowdsClosed
<1>7. ASSUME NEW s \in Slot PROVE b2[s] \in Nat /\ b2[s] >= balance[s]
  <2> DEFINE b == s[1]
             q == s[2]
  <2>1. s = <<b, q>> /\ b \in Address /\ q \in Property /\ balance[s] \in Nat
    BY <1>1 DEF NatTally, Slot
  <2> HIDE DEF b, q
  <2>2. CASE InEnded(K, q)
    <3>1. PICK a \in K : my_crowds[a].prop = q
      BY <2>2, Zenon DEF InEnded
    <3> DEFINE m == GetMissedIssuerBonus(q, my_crowds[a])
    <3>2. m \in Nat
      BY <3>1, MissedOf
    <3>3. b2[<<b, q>>] = balance[<<b, q>>] + (IF b = sp[q].issuer THEN m ELSE 0)
      BY <2>1, <3>1, Zenon DEF MissedPaid
    <3> HIDE DEF m
    <3> QED
      BY <2>1, <3>2, <3>3
  <2>3. CASE ~InEnded(K, q)
    <3>1. b2[<<b, q>>] = balance[<<b, q>>]
      BY <2>1, <2>3, Zenon DEF MissedPaid
    <3> QED
      BY <2>1, <3>1
  <2> QED
    BY <2>2, <2>3, Zenon
<1>8. b2 \in NatTally /\ Grows(balance, b2)
  BY <1>7, Zenon DEF NatTally, Grows, MissedPaid
<1>9. balance \in Tally /\ metadexReserve \in Tally /\ b2 \in Tally
  BY <1>1, <1>8 DEF Tally, NatTally
<1>10. ASSUME NEW q \in Property PROVE Accounted(s2, c2, Held(b2, metadexReserve, feeCache, q), q)
  <2>1. CASE InEnded(K, q)
    <3>1. PICK a \in K : my_crowds[a].prop = q
      BY <2>1, Zenon DEF InEnded
    <3> DEFINE m == GetMissedIssuerBonus(q, my_crowds[a])
               i == sp[q].issuer
               g == One(i, m)
               h == Held(balance, metadexReserve, feeCache, q)
    <3>2. /\ q \in DOMAIN sp /\ i \in Address /\ m \in Nat
          /\ h + m <= MaxTokens
          /\ Recd(Closed(q, my_crowds[a])) = h + m
      BY <3>1, MissedOf
    <3>3. \A b \in Address : b2[<<b, q>>] = balance[<<b, q>>] + (IF b = i THEN m ELSE 0)
      BY <3>1, Zenon DEF MissedPaid
    <3>4. \A b \in Address : g[b] = IF b = i THEN m ELSE 0
      BY Zenon DEF One
    <3> HIDE DEF m, i, h
    <3>5. Sum(g, Address) = m /\ \A b \in Address : g[b] \in Int
      <4>1. m \in Int
        BY <3>2
      <4> QED
        BY <3>2, <4>1, OneSum
    <3> HIDE DEF g
    <3>6. \A b \in Address : b2[<<b, q>>] + metadexReserve[<<b, q>>] =
                                (balance[<<b, q>>] + metadexReserve[<<b, q>>]) + g[b]
      <4>1. ASSUME NEW b \in Address
            PROVE  balance[<<b, q>>] \in Int /\ metadexReserve[<<b, q>>] \in Int
        BY <1>9, TallyAt
      <4>3. \A b \in Address : b2[<<b, q>>] = balance[<<b, q>>] + g[b]
        BY <3>3, <3>4, Zenon
      <4>4. ASSUME NEW b \in Address
            PROVE  b2[<<b, q>>] + metadexReserve[<<b, q>>] =
                      (balance[<<b, q>>] + metadexReserve[<<b, q>>]) + g[b]
        <5>1. g[b] \in Int /\ b2[<<b, q>>] = balance[<<b, q>>] + g[b]
          BY <3>5, <4>3, Zenon
        <5> QED
          BY <4>1, <5>1
      <4> QED
        BY <4>4, Zenon
    <3>7. Tot(b2, metadexReserve, q) = Tot(balance, metadexReserve, q) + Sum(g, Address)
      BY <1>9, <3>5, <3>6, TotMoved
    <3>8. Held(b2, metadexReserve, feeCache, q) = h + m
      <4>1. Tot(balance, metadexReserve, q) \in Int
        BY <1>9, TotType
      <4>2. feeCache[q] \in Int /\ m \in Int
        BY <1>1, <3>2 DEF FeeTally
      <4> QED
        BY <3>5, <3>7, <4>1, <4>2 DEF Held, h
    <3>9. ~OpenFor(c2, q) /\ s2[q] = Closed(q, my_crowds[a])
      BY <1>6, <3>1, Zenon DEF EndsIn
    <3> QED
      BY <1>2, <3>2, <3>8, <3>9, Zenon DEF Accounted, OpenFor
  <2>2. CASE ~InEnded(K, q)
    <3>1. \A b \in Address : b2[<<b, q>>] + metadexReserve[<<b, q>>] =
                                balance[<<b, q>>] + metadexReserve[<<b, q>>]
      BY <2>2, Zenon DEF MissedPaid
    <3>2. Tot(b2, metadexReserve, q) = Tot(balance, metadexReserve, q)
      BY <1>9, <3>1, TotSame
    <3>3. RecordsKept(sp, my_crowds, s2, c2, q)
      BY <1>6, <2>2, Zenon DEF InEnded
    <3>4. Accounted(sp, my_crowds, Held(balance, metadexReserve, feeCache, q), q)
      BY Zenon DEF SoundNow, Sound
    <3>5. Accounted(s2, c2, Held(balance, metadexReserve, feeCache, q), q)
      BY <3>3, <3>4, AccountedKept
    <3> QED
      BY <3>2, <3>5, Zenon DEF Held
  <2> QED
    BY <2>1, <2>2, Zenon
<1> QED
  BY <1>1, <1>6, <1>8, <1>10, Zenon DEF Sound

\* CloseCrowdsale ends the crowdsale of its sender.
LEMMA CloseSound ==
  ASSUME FInv, SoundNow, NEW who \in Address, NEW p \in Property, CloseCrowdsale(who, p)
  PROVE  SoundNow' /\ KeepsFrozen
<1> DEFINE K == {who}
           s2 == sp'
           b2 == balance'
           c2 == my_crowds'
           m == GetMissedIssuerBonus(p, my_crowds[who])
<1>1. /\ who \in DOMAIN my_crowds /\ my_crowds[who].prop = p
      /\ sp' = [sp EXCEPT ![p] = Closed(p, my_crowds[who])]
      /\ balance' = Credit(balance, sp[p].issuer, p, m)
      /\ my_crowds' = Without(my_crowds, {who})
  BY Zenon DEF CloseCrowdsale
<1>2. metadexReserve' = metadexReserve /\ feeCache' = feeCache
  BY Zenon DEF CloseCrowdsale, bookVars, feeVars
<1>3. balance \in NatTally /\ sp = [q \in DOMAIN sp |-> sp[q]]
  BY Zenon DEF SoundNow, Sound, ConsistentRecords
<1>4. p \in DOMAIN sp /\ sp[p].issuer \in Address /\ m \in Nat
  BY <1>1, MissedOf
<1>5. \A q : InEnded(K, q) <=> q = p
  BY <1>1, Zenon DEF InEnded
<1> HIDE DEF m
<1>6. EndsIn(K, s2)
  <2>1. s2 = [q \in DOMAIN sp |-> s2[q]] /\ s2[p] = Closed(p, my_crowds[who])
    BY <1>1, <1>3, <1>4, ZenonT(30)
  <2>2. \A q \in DOMAIN sp : q # p => s2[q] = sp[q]
    BY <1>1, <1>3, <1>4
  <2> QED
    BY <1>1, <1>5, <2>1, <2>2, Zenon DEF EndsIn
<1>7. MissedPaid(K, b2)
  <2> DEFINE i == sp[p].issuer
  <2>1. b2 = [s \in Slot |-> b2[s]]
    BY <1>1, <1>3, Zenon DEF Credit, NatTally
  <2>2. \A b \in Address : b2[<<b, p>>] = balance[<<b, p>>] + (IF b = i THEN m ELSE 0)
    <3> HIDE DEF i
    <3>1. ASSUME NEW b \in Address PROVE balance[<<b, p>>] \in Int /\ <<b, p>> \in Slot
      BY <1>3, TallyAt
    <3>2. b2 = [balance EXCEPT ![<<i, p>>] = balance[<<i, p>>] + m]
      BY <1>1, Zenon DEF Credit, i
    <3> HIDE DEF b2
    <3> QED
      BY <1>3, <1>4, <3>1, <3>2 DEF NatTally
  <2>3. \A q \in Property, b \in Address : q # p => b2[<<b, q>>] = balance[<<b, q>>]
    <3> HIDE DEF i
    <3>1. ASSUME NEW b \in Address, NEW q \in Property PROVE <<b, q>> \in Slot
      BY TallyAt, Zenon
    <3>2. b2 = [balance EXCEPT ![<<i, p>>] = balance[<<i, p>>] + m]
      BY <1>1, Zenon DEF Credit, i
    <3> HIDE DEF b2
    <3> QED
      BY <1>3, <3>1, <3>2 DEF NatTally
  <2> HIDE DEF b2
  <2> QED
    BY <1>1, <1>5, <2>1, <2>2, <2>3, Zenon DEF MissedPaid, m
<1>8. K \subseteq DOMAIN my_crowds /\ c2 = Without(my_crowds, K)
  BY <1>1, Zenon
<1> HIDE DEF K, s2, b2, c2
<1>9. Sound(b2, metadexReserve, feeCache, s2, c2) /\ Grows(balance, b2)
  BY <1>6, <1>7, <1>8, CrowdsEndSound
<1> QED
  BY <1>2, <1>9, Zenon DEF SoundNow, s2, b2, c2, KeepsFrozen, Grows, FInv

\* A new block ends the crowdsales past their deadline, all at once.
LEMMA BlockBeginSound ==
  ASSUME FInv, SoundNow, BlockBegin
  PROVE  SoundNow' /\ KeepsFrozen
<1> DEFINE K == {a \in DOMAIN my_crowds : block + 1 > my_crowds[a].deadline}
           ended == {my_crowds[a].prop : a \in K}
           crowd(p) == my_crowds[CHOOSE a \in K : my_crowds[a].prop = p]
           s2 == sp'
           b2 == balance'
           c2 == my_crowds'
<1>1. /\ s2 = [p \in DOMAIN sp |-> IF p \in ended THEN Closed(p, crowd(p)) ELSE sp[p]]
      /\ b2 = [s \in Slot |-> IF s[2] \in ended /\ s[1] = sp[s[2]].issuer
                              THEN balance[s] + GetMissedIssuerBonus(s[2], crowd(s[2]))
                              ELSE balance[s]]
      /\ c2 = Without(my_crowds, K)
  BY Zenon DEF BlockBegin
<1>2. metadexReserve' = metadexReserve /\ feeCache' = feeCache
  BY Zenon DEF BlockBegin, bookVars, feeVars
<1>3. balance \in NatTally /\ ConsistentRecords(sp, my_crowds)
  BY Zenon DEF SoundNow, Sound
<1>4. K \subseteq DOMAIN my_crowds
  BY Zenon
<1> HIDE DEF K
<1>5. \A q : q \in ended <=> InEnded(K, q)
  BY Zenon DEF InEnded
<1>6. ASSUME NEW a \in K
      PROVE  my_crowds[a].prop \in ended /\ crowd(my_crowds[a].prop) = my_crowds[a]
             /\ my_crowds[a].prop \in DOMAIN sp /\ my_crowds[a].prop \in Property
  <2> DEFINE q == my_crowds[a].prop
             b == CHOOSE x \in K : my_crowds[x].prop = q
  <2>1. b \in K /\ my_crowds[b].prop = q
    BY Zenon
  <2>2. a \in DOMAIN my_crowds /\ b \in DOMAIN my_crowds
    BY <1>4, <2>1, Zenon
  <2> HIDE DEF b
  <2>3. b = a
    BY <1>3, <2>1, <2>2, Zenon DEF ConsistentRecords
  <2>4. q \in DOMAIN sp /\ q \in Property
    BY <1>3, <2>2, Zenon DEF ConsistentRecords
  <2> QED
    BY <2>3, <2>4, Zenon DEF b
<1> HIDE DEF ended, crowd, s2, b2, c2
<1>7. EndsIn(K, s2)
  <2>1. DOMAIN s2 = DOMAIN sp /\ \A p \in DOMAIN sp : s2[p] = IF p \in ended THEN Closed(p, crowd(p)) ELSE sp[p]
    BY <1>1, Zenon
  <2>2. s2 = [p \in DOMAIN sp |-> s2[p]]
    BY <1>1, Zenon
  <2>3. \A a \in K : s2[my_crowds[a].prop] = Closed(my_crowds[a].prop, my_crowds[a])
    BY <1>6, <2>1, Zenon
  <2>4. \A q \in DOMAIN sp : ~InEnded(K, q) => s2[q] = sp[q]
    BY <1>5, <2>1, Zenon
  <2> QED
    BY <2>2, <2>3, <2>4, Zenon DEF EndsIn
<1>8. MissedPaid(K, b2)
  <2>1. b2 = [s \in Slot |-> b2[s]]
    <3> DEFINE g(s) == IF s[2] \in ended /\ s[1] = sp[s[2]].issuer
                       THEN balance[s] + GetMissedIssuerBonus(s[2], crowd(s[2]))
                       ELSE balance[s]
    <3>1. b2 = [s \in Slot |-> g(s)]
      BY <1>1, Zenon
    <3> HIDE DEF g
    <3> QED
      BY <3>1, Zenon
  <2>2. ASSUME NEW q \in Property, NEW b \in Address
        PROVE  b2[<<b, q>>] = IF q \in ended /\ b = sp[q].issuer
                              THEN balance[<<b, q>>] + GetMissedIssuerBonus(q, crowd(q))
                              ELSE balance[<<b, q>>]
    <3>1. <<b, q>> \in Slot /\ <<b, q>>[1] = b /\ <<b, q>>[2] = q
      BY TallyAt, Zenon
    <3> QED
      BY <1>1, <3>1, Zenon
  <2>3. ASSUME NEW a \in K, NEW b \in Address
        PROVE  b2[<<b, my_crowds[a].prop>>] = balance[<<b, my_crowds[a].prop>>] +
                   (IF b = sp[my_crowds[a].prop].issuer
                    THEN GetMissedIssuerBonus(my_crowds[a].prop, my_crowds[a]) ELSE 0)
    <3> DEFINE q == my_crowds[a].prop
               m == GetMissedIssuerBonus(q, my_crowds[a])
    <3>1. q \in ended /\ GetMissedIssuerBonus(q, crowd(q)) = m /\ q \in Property
      BY <1>6, Zenon
    <3> HIDE DEF q, m
    <3>2. balance[<<b, q>>] \in Int
      BY <1>3, <3>1, TallyAt
    <3>3. balance[<<b, q>>] + 0 = balance[<<b, q>>]
      BY <3>2
    <3>4. b2[<<b, q>>] = balance[<<b, q>>] + (IF b = sp[q].issuer THEN m ELSE 0)
      BY <2>2, <3>1, <3>3, Zenon
    <3> QED
      BY <3>4, Zenon DEF q, m
  <2>4. \A q \in Property, b \in Address : ~InEnded(K, q) => b2[<<b, q>>] = balance[<<b, q>>]
    BY <1>5, <2>2, Zenon
  <2> QED
    BY <2>1, <2>3, <2>4, Zenon DEF MissedPaid
<1>9. Sound(b2, metadexReserve, feeCache, s2, c2) /\ Grows(balance, b2)
  BY <1>1, <1>4, <1>7, <1>8, CrowdsEndSound
<1> QED
  BY <1>2, <1>9, Zenon DEF SoundNow, s2, b2, c2, KeepsFrozen, Grows, FInv

-----------------------------------------------------------------------------
(* The loop of a send to many, and the end of a block. *)

\* Only between transactions does a send to many begin or a block end; what is
\* left of a send is outputs of a property that exists.
SendState == [from : Address, prop : Property, left : Seq(Address \X (0 .. 2 * MaxTokens + 1))]

SInv ==
    /\ sending # NoSend => /\ sending \in SendState /\ sending.prop \in DOMAIN sp
                           /\ sending.left # << >> /\ ~blockEnded
    /\ sending # NoSend \/ blockEnded => taking = NoOrder /\ returning = {}

\* A send to many names at least one output, of an existing property.
LEMMA SendBegins ==
  ASSUME SoundNow, NEW who \in Address, NEW p \in Property, NEW outs \in Splits, SendToMany(who, p, outs)
  PROVE  /\ sending' \in SendState /\ sending'.prop \in DOMAIN sp /\ sending'.left # << >>
         /\ UNCHANGED <<balance, metadexReserve, feeCache, sp, my_crowds>>
<1> DEFINE S == DOMAIN outs
           f == [i \in S |-> outs[i][2]]
           total == SumOver(S, LAMBDA i : outs[i][2])
<1>1. /\ p \in DOMAIN sp /\ total % Word > 0
      /\ sending' = [from |-> who, prop |-> p, left |-> outs]
      /\ UNCHANGED <<balance, metadexReserve, feeCache, sp, my_crowds>>
  BY Zenon DEF SendToMany, IsPropertyIdValid, bookVars, feeVars, ruleVars, issueVars
<1>2. outs \in Seq(Address \X (0 .. 2 * MaxTokens + 1))
  BY InputsType, Zenon
<1>3. total = Sum(f, S)
  BY ZenonT(30) DEF SumOver, MapThenSumSet, MapThenFoldSet, Sum, Solves, SumStep
<1> HIDE DEF f, total
<1>4. outs # << >>
  <2> SUFFICES ASSUME outs = << >> PROVE FALSE
    BY Zenon
  <2>1. S = {}
    OBVIOUS
  <2>2. Sum(f, S) = 0
    BY <2>1, FS_EmptySet, SumAtChoice, Zenon
  <2>3. Word \in Nat \ {0} /\ \A w \in Nat \ {0} : ~(0 % w > 0)
    <3>1. \A w \in Nat \ {0} : 0 % w = 0
      OBVIOUS
    <3> QED
      BY <3>1, RatioIsFine DEF Word
  <2> QED
    BY <1>1, <1>3, <2>2, <2>3, Zenon
<1>5. sending' \in SendState /\ sending'.prop = p /\ sending'.left = outs
  BY <1>1, <1>2, Zenon DEF SendState
<1> QED
  BY <1>1, <1>4, <1>5, Zenon

\* An output moves tokens, or nothing happens to them.
LEMMA SendOutputSound ==
  ASSUME FInv, SoundNow, SInv, SendOutput
  PROVE  SoundNow' /\ KeepsFrozen
<1> DEFINE from == sending.from
           p == sending.prop
           to == Head(sending.left)[1]
           word == Head(sending.left)[2]
           taken == Signed((Word - word) % Word)
           given == Signed(word)
           bal == Credit(balance, from, p, taken)
           b2 == Credit(bal, to, p, given)
<1>1. /\ UNCHANGED <<metadexReserve, feeCache, sp, my_crowds>>
      /\ \/ balance' = balance
         \/ TallyAccepts(balance, from, p, taken) /\ TallyAccepts(bal, to, p, given) /\ balance' = b2
  BY Zenon DEF SendOutput, bookVars, feeVars, issueVars
<1>2. sending \in SendState /\ sending.left # << >> /\ p \in DOMAIN sp
  BY Zenon DEF SInv, SendOutput
<1>3. from \in Address /\ p \in Property
  BY <1>2, Zenon DEF SendState
<1>4. to \in Address /\ word \in 0 .. 2 * MaxTokens + 1
  <2>1. sending.left \in Seq(Address \X (0 .. 2 * MaxTokens + 1))
    BY <1>2, Zenon DEF SendState
  <2>2. Head(sending.left) \in Address \X (0 .. 2 * MaxTokens + 1)
    BY <1>2, <2>1
  <2> QED
    BY <2>2, Zenon
<1>5. /\ given \in Int /\ taken \in Int
      /\ word # MaxTokens + 1 => taken + given = 0
      /\ word = MaxTokens + 1 => taken = -(MaxTokens + 1)
  BY <1>4, Words, Zenon
<1>6. /\ balance \in NatTally /\ metadexReserve \in NatTally
      /\ metadexReserve' = metadexReserve /\ feeCache' = feeCache /\ sp' = sp /\ my_crowds' = my_crowds
  BY <1>1, Zenon DEF SoundNow, Sound
<1>7. ASSUME balance' = balance PROVE SoundNow' /\ KeepsFrozen
  BY <1>6, <1>7, SameKeepsFrozen DEF SoundNow
<1>8. bal = Credit(balance, from, p, taken) /\ b2 = Credit(bal, to, p, given)
  BY Zenon
<1> HIDE DEF from, p, to, word, taken, given, bal, b2
<1>9. ASSUME TallyAccepts(balance, from, p, taken), TallyAccepts(bal, to, p, given), balance' = b2
      PROVE  SoundNow' /\ KeepsFrozen
  <2>1. /\ bal \in NatTally /\ Adds(balance, metadexReserve, bal, metadexReserve, p, taken)
        /\ \A s \in setFrozenAddresses : bal[s] >= balance[s]
    BY <1>3, <1>5, <1>6, <1>8, <1>9, Accepted
  <2>2. /\ b2 \in NatTally /\ Adds(bal, metadexReserve, b2, metadexReserve, p, given)
        /\ \A s \in setFrozenAddresses : b2[s] >= bal[s]
    BY <1>3, <1>4, <1>5, <1>6, <1>8, <1>9, <2>1, Accepted
  <2>3. balance \in Tally /\ bal \in Tally /\ metadexReserve \in Tally
    BY <1>6, <2>1 DEF Tally, NatTally
  <2>4. word # MaxTokens + 1
    <3> SUFFICES ASSUME word = MaxTokens + 1 PROVE FALSE
      BY Zenon
    <3>1. Tot(balance, metadexReserve, p) \in Int /\ Tot(bal, metadexReserve, p) \in Int
          /\ Tot(bal, metadexReserve, p) >= 0
      BY <1>3, <1>6, <2>1, <2>3, TotType
    <3>2. Tot(bal, metadexReserve, p) = Tot(balance, metadexReserve, p) + taken
      BY <2>1, Zenon DEF Adds
    <3>3. /\ Held(balance, metadexReserve, feeCache, p) <= MaxTokens
          /\ Held(balance, metadexReserve, feeCache, p) = Tot(balance, metadexReserve, p) + feeCache[p]
      <4>1. Accounted(sp, my_crowds, Held(balance, metadexReserve, feeCache, p), p)
        BY <1>3, Zenon DEF SoundNow, Sound
      <4> QED
        BY <1>2, <4>1, Zenon DEF Accounted, Held, p
    <3>4. feeCache[p] \in Nat /\ MaxTokens \in Nat
      BY <1>3, RatioIsFine DEF SoundNow, Sound, FeeTally
    <3> QED
      BY <1>5, <3>1, <3>2, <3>3, <3>4
  <2>5. Adds(balance, metadexReserve, b2, metadexReserve, p, taken + given)
    BY <1>3, <1>5, <2>1, <2>2, <2>3, AddsTwice
  <2>6. taken + given \in Int /\ taken + given = 0
    BY <1>5, <2>4
  <2>7. SameHeld(balance, metadexReserve, feeCache, b2, metadexReserve, feeCache)
    BY <1>3, <2>3, <2>5, <2>6, AddsNothing
  <2>8. SoundNow'
    BY <1>6, <1>9, <2>2, <2>7, MovesOnlySound
  <2>9. KeepsFrozen
    <3>1. \A s \in setFrozenAddresses : s \in Slot
      BY Zenon DEF FInv
    <3>2. \A s \in Slot : balance[s] \in Int /\ bal[s] \in Int /\ b2[s] \in Int
      BY <1>6, <2>1, <2>2 DEF NatTally
    <3> QED
      BY <1>9, <2>1, <2>2, <3>1, <3>2 DEF KeepsFrozen
  <2> QED
    BY <2>8, <2>9, Zenon
<1> QED
  BY <1>1, <1>7, <1>9, Zenon DEF from, p, to, word, taken, given, bal, b2

\* The end of a block: what is created of MSC is what exodus_prev counts.
LEMMA BlockEndSound ==
  ASSUME FInv, SoundNow, NEW devmsc \in Vested[block], BlockEnd(devmsc)
  PROVE  SoundNow' /\ KeepsFrozen
<1> DEFINE e == [sp[MSC] EXCEPT !.num = devmsc]
           n == devmsc - exodus_prev
           bal == Credit(balance, Exodus, MSC, n)
           s2 == sp'
           total == getTotalTokens([Now EXCEPT !.bal = bal], MSC)
<1>1. devmsc \in Nat /\ devmsc <= MaxTokens /\ Exodus \in Address
  <2>1. block \in 0 .. MaxBlock
    BY BlocksAssumption DEF FInv, BlockEnd
  <2>2. Vested[block] \subseteq 0 .. MaxTokens /\ Exodus \in Address
    BY <2>1, InputsType, Zenon
  <2>3. MaxTokens \in Nat
    BY RatioIsFine, Zenon
  <2> QED
    BY <2>2, <2>3
<1>2. metadexReserve' = metadexReserve /\ my_crowds' = my_crowds
  BY Zenon DEF BlockEnd, bookVars, issueVars
<1>3. /\ balance \in NatTally /\ metadexReserve \in NatTally /\ ConsistentRecords(sp, my_crowds)
      /\ MSC \in DOMAIN sp /\ MSC \in Property /\ sp[MSC] \in SPEntry
      /\ sp[MSC].kind = "implied" /\ sp[MSC].num > 0
  BY Zenon DEF SoundNow, Sound, ConsistentRecords
<1>4. exodus_prev \in Nat /\ exodus_prev = sp[MSC].num
  BY <1>3, Zenon DEF exodus_prev, SPEntry
<1>5. CASE devmsc < exodus_prev
  <2>1. balance' = balance /\ feeCache' = feeCache /\ sp' = sp
    BY <1>5, Zenon DEF BlockEnd, feeVars
  <2> QED
    BY <1>2, <1>3, <2>1, SameKeepsFrozen DEF SoundNow
<1>6. CASE ~(devmsc < exodus_prev)
  <2>1. s2 = [sp EXCEPT ![MSC] = e] /\ Becomes(Notified([Now EXCEPT !.bal = bal], MSC, total))
    BY <1>3, <1>6, Zenon DEF BlockEnd
  <2>2. n \in Nat /\ n \in Int /\ devmsc > 0
    BY <1>1, <1>3, <1>4, <1>6
  <2>3. e \in SPEntry /\ e.kind = "implied" /\ e.num = devmsc /\ e.missed = sp[MSC].missed
    BY <1>1, <1>3, Zenon DEF SPEntry
  <2> HIDE DEF e, n, s2, total
  <2>4. /\ DOMAIN s2 = DOMAIN sp /\ s2[MSC] = e /\ \A q \in DOMAIN sp : q # MSC => s2[q] = sp[q]
        /\ s2 \in [DOMAIN s2 -> SPEntry]
    <3>1. sp \in [DOMAIN sp -> SPEntry]
      BY <1>3, Zenon DEF ConsistentRecords
    <3> QED
      BY <1>3, <2>1, <2>3, <3>1, Zenon
  <2>5. ConsistentRecords(s2, my_crowds)
    <3>1. \A a \in DOMAIN my_crowds : my_crowds[a].prop # MSC
      BY <1>3, Zenon DEF ConsistentRecords
    <3>2. \A a \in DOMAIN my_crowds : /\ my_crowds[a].prop \in DOMAIN s2
                                      /\ s2[my_crowds[a].prop].kind = "variable"
                                      /\ s2[my_crowds[a].prop].missed = 0
      BY <1>3, <2>4, <3>1, Zenon DEF ConsistentRecords
    <3> QED
      BY <1>3, <2>2, <2>3, <2>4, <3>2, Zenon DEF ConsistentRecords
  <2>6. \A q \in Property \ {MSC} : RecordsKept(sp, my_crowds, s2, my_crowds, q)
    BY <2>4, Zenon DEF RecordsKept
  <2>7. ~OpenFor(my_crowds, MSC)
    BY <1>3, Zenon DEF OpenFor, ConsistentRecords
  <2>8. Held(balance, metadexReserve, feeCache, MSC) + n = devmsc
    <3>1. Accounted(sp, my_crowds, Held(balance, metadexReserve, feeCache, MSC), MSC)
      BY <1>3, Zenon DEF SoundNow, Sound
    <3>2. Held(balance, metadexReserve, feeCache, MSC) = exodus_prev
      BY <1>3, <1>4, <2>7, <3>1, Zenon DEF Accounted, Recd
    <3> QED
      BY <1>1, <1>4, <3>2 DEF n
  <2>9. Accounted(s2, my_crowds, Held(balance, metadexReserve, feeCache, MSC) + n, MSC)
    <3>1. Recd(s2[MSC]) = devmsc
      BY <2>3, <2>4, Zenon DEF Recd
    <3>2. \A a \in DOMAIN my_crowds : my_crowds[a].prop # MSC
      BY <2>7, Zenon DEF OpenFor
    <3> QED
      BY <1>1, <1>3, <2>4, <2>8, <3>1, <3>2, Zenon DEF Accounted
  <2>10. bal \in NatTally /\ Grows(balance, bal)
    BY <1>1, <1>3, <2>2, CreditNat, Zenon
  <2>11. Adds(balance, metadexReserve, bal, metadexReserve, MSC, n)
    <3>1. balance \in Tally /\ metadexReserve \in Tally
      BY <1>3 DEF Tally, NatTally
    <3> QED
      BY <1>1, <1>3, <2>2, <3>1, CreditAdds
  <2> HIDE DEF bal
  <2>12. Sound(bal, metadexReserve, feeCache, s2, my_crowds)
    BY <1>3, <2>2, <2>5, <2>6, <2>9, <2>10, <2>11, SoundAdded DEF SoundNow
  <2>13. Sound(bal, metadexReserve, feeCache, sp', my_crowds')
    BY <1>2, <2>12, Zenon DEF s2
  <2>14. SoundNow' /\ Grows(bal, balance')
    BY <1>2, <1>3, <2>1, <2>13, NotifiedNow, Zenon
  <2>15. balance' \in NatTally
    BY <2>14, Zenon DEF SoundNow, Sound
  <2>16. <<0, 0, 0>> \notin setFrozenAddresses /\ \A s \in Slot : s # <<0, 0, 0>> => bal[s] >= balance[s]
    BY <2>10 DEF FInv, Slot, Grows
  <2>17. KeepsFrozen
    BY <1>3, <2>10, <2>14, <2>15, <2>16, GrowthKeepsFrozen
  <2> QED
    BY <2>14, <2>17, Zenon
<1> QED
  BY <1>5, <1>6, Zenon

-----------------------------------------------------------------------------
(* Every step. *)

\* Hence they keep the state of the tokens sound.
LEMMA FreezingSound ==
  \A who, to, p :
      /\ FInv
      /\ SoundNow
      /\ \/ EnableFreezing(who, p) \/ DisableFreezing(who, p) \/ FreezeTokens(who, to, p) \/ UnfreezeTokens(who, to, p)
      => SoundNow' /\ KeepsFrozen
\* The transactions that freeze leave every token where it is.
<1>FreezingMovesNothing.
    ASSUME NEW who, NEW to, NEW p,
           \/ EnableFreezing(who, p) \/ DisableFreezing(who, p)
           \/ FreezeTokens(who, to, p) \/ UnfreezeTokens(who, to, p)
    PROVE  UNCHANGED tokenVars
  <2> USE <1>FreezingMovesNothing
  <2>1. ASSUME EnableFreezing(who, p) PROVE UNCHANGED tokenVars
    BY <2>1 DEF EnableFreezing, tokenVars, bookVars, feeVars, ruleVars
  <2>2. ASSUME DisableFreezing(who, p) PROVE UNCHANGED tokenVars
    BY <2>2 DEF DisableFreezing, tokenVars, bookVars, feeVars
  <2>3. ASSUME FreezeTokens(who, to, p) PROVE UNCHANGED tokenVars
    BY <2>3 DEF FreezeTokens, tokenVars, bookVars, feeVars, issueVars
  <2>4. ASSUME UnfreezeTokens(who, to, p) PROVE UNCHANGED tokenVars
    BY <2>4, Zenon DEF UnfreezeTokens, tokenVars, bookVars, feeVars, issueVars
  <2> QED
    BY <2>1, <2>2, <2>3, <2>4, Zenon
<1> SUFFICES ASSUME FInv, SoundNow, NEW who, NEW to, NEW p,
                    \/ EnableFreezing(who, p) \/ DisableFreezing(who, p)
                    \/ FreezeTokens(who, to, p) \/ UnfreezeTokens(who, to, p)
             PROVE  SoundNow' /\ KeepsFrozen
  BY Zenon
<1>1. UNCHANGED tokenVars
  BY <1>FreezingMovesNothing
<1>2. /\ balance' = balance /\ metadexReserve' = metadexReserve
      /\ feeCache' = feeCache /\ sp' = sp /\ my_crowds' = my_crowds
  BY <1>1 DEF tokenVars
<1>3. balance \in NatTally
  BY Zenon DEF SoundNow, Sound
<1>4. SoundNow'
  BY <1>2, Zenon DEF SoundNow
<1> QED
  BY <1>2, <1>3, <1>4, SameKeepsFrozen

\* Every transaction of owners and issuers keeps the state of the tokens sound.
LEMMA TransactionSound ==
  ASSUME FInv, SoundNow, Transaction
  PROVE  SoundNow' /\ KeepsFrozen
<1>1. Receivers \subseteq Address
  BY InputsType, Zenon
<1>2. \A n \in Amounts : n \in Nat
  BY AmountsNat, Zenon
<1>3. ASSUME NEW who \in Address, NEW p \in Property, NEW n \in Amounts,
             \/ \E to \in Receivers : SimpleSend(who, to, p, n) \/ GrantTokens(who, to, p, n)
             \/ \E q \in Property, version \in {0, 1} : SendToOwners(who, p, q, n, version)
             \/ RevokeTokens(who, p, n)
             \/ CreatePropertyFixed(who, p, n)
             \/ \E q \in Property \cup {RPD}, d \in Deadlines, e \in EarlyBirds, i \in Percentages :
                   CreatePropertyVariable(who, p, q, n, d, e, i)
      PROVE  SoundNow' /\ KeepsFrozen
  <2>1. ASSUME NEW to \in Receivers, SimpleSend(who, to, p, n) PROVE SoundNow' /\ KeepsFrozen
    <3>1. to \in Address
      BY <1>1, Zenon
    <3> QED
      BY <2>1, <3>1, SimpleSendSound
  <2>2. ASSUME NEW to \in Receivers, GrantTokens(who, to, p, n) PROVE SoundNow' /\ KeepsFrozen
    <3>1. to \in Address
      BY <1>1, Zenon
    <3> QED
      BY <2>2, <3>1, GrantSound
  <2>3. ASSUME NEW q \in Property, NEW version, SendToOwners(who, p, q, n, version)
        PROVE  SoundNow' /\ KeepsFrozen
    BY <1>2, <2>3, SendToOwnersSound
  <2>4. ASSUME RevokeTokens(who, p, n) PROVE SoundNow' /\ KeepsFrozen
    BY <2>4, RevokeSound
  <2>5. ASSUME CreatePropertyFixed(who, p, n) PROVE SoundNow' /\ KeepsFrozen
    BY <2>5, CreateFixedSound
  <2>6. ASSUME NEW q \in Property \cup {RPD}, NEW d \in Deadlines, NEW e \in EarlyBirds, NEW i \in Percentages,
               CreatePropertyVariable(who, p, q, n, d, e, i)
        PROVE  SoundNow' /\ KeepsFrozen
    BY <2>6, CreateVariableSound
  <2> QED
    BY <1>3, <2>1, <2>2, <2>3, <2>4, <2>5, <2>6, Zenon
<1>4. ASSUME NEW who \in Address, NEW p \in Property,
             \/ CreatePropertyManaged(who, p)
             \/ CloseCrowdsale(who, p)
             \/ EnableFreezing(who, p)
             \/ DisableFreezing(who, p)
             \/ \E to \in Receivers : \/ ChangeIssuer(who, to, p)
                                     \/ FreezeTokens(who, to, p)
                                     \/ UnfreezeTokens(who, to, p)
      PROVE  SoundNow' /\ KeepsFrozen
  <2>2. ASSUME CreatePropertyManaged(who, p) PROVE SoundNow' /\ KeepsFrozen
    BY <2>2, CreateManagedSound
  <2>3. ASSUME CloseCrowdsale(who, p) PROVE SoundNow' /\ KeepsFrozen
    BY <2>3, CloseSound
  <2>4. ASSUME EnableFreezing(who, p) \/ DisableFreezing(who, p) PROVE SoundNow' /\ KeepsFrozen
    BY <2>4, FreezingSound
  <2>5. ASSUME NEW to \in Receivers, ChangeIssuer(who, to, p) PROVE SoundNow' /\ KeepsFrozen
    <3>1. to \in Address
      BY <1>1, Zenon
    <3> QED
      BY <2>5, <3>1, ChangeIssuerSound
  <2>6. ASSUME NEW to, FreezeTokens(who, to, p) \/ UnfreezeTokens(who, to, p)
        PROVE SoundNow' /\ KeepsFrozen
    BY <2>6, FreezingSound
  <2> QED
    BY <1>4, <2>2, <2>3, <2>4, <2>5, <2>6, Zenon
<1>5. ASSUME NEW who \in Address, NEW to \in Receivers, SendAll(who, to) PROVE SoundNow' /\ KeepsFrozen
  <2>1. to \in Address
    BY <1>1, Zenon
  <2> QED
    BY <1>5, <2>1, SendAllSound
<1>6. ASSUME NEW who \in Address, NEW to \in Receivers, NEW n \in Amounts, RapidsPayment(who, to, n)
      PROVE  SoundNow' /\ KeepsFrozen
  <2>1. to \in Address
    BY <1>1, Zenon
  <2> QED
    BY <1>6, <2>1, PaymentSound
<1> QED
  BY <1>3, <1>4, <1>5, <1>6, Zenon DEF Transaction

\* Every step keeps the invariant of the loops.
LEMMA StepKeepsSInv ==
  ASSUME IInv, TInv, SInv, [Next]_vars
  PROVE  SInv'
<1>1. ASSUME sending = NoSend, ~blockEnded, UNCHANGED loopVars PROVE SInv'
  BY <1>1, Zenon DEF SInv, loopVars
<1>2. CASE BlockIsOpen /\ UNCHANGED loopVars
  BY <1>1, <1>2, Zenon DEF BlockIsOpen
<1>3. ASSUME BlockIsOpen, NEW who \in Address, NEW p \in Property, NEW outs \in Splits, SendToMany(who, p, outs)
      PROVE  SInv'
  <2>1. /\ sending' \in SendState /\ sending'.prop \in DOMAIN sp /\ sending'.left # << >>
        /\ sp' = sp
    BY <1>3, SendBegins, Zenon DEF TInv
  <2>2. taking' = NoOrder /\ returning' = {} /\ blockEnded' = blockEnded /\ ~blockEnded
    BY <1>3, Zenon DEF SendToMany, BlockIsOpen, Ready, Idle, bookVars
  <2> QED
    BY <2>1, <2>2, Zenon DEF SInv
<1>4. CASE SendOutput
  <2>1. /\ sending # NoSend /\ sp' = sp /\ taking' = taking /\ returning' = returning /\ blockEnded' = blockEnded
        /\ sending' = IF Len(sending.left) = 1 THEN NoSend ELSE [sending EXCEPT !.left = Tail(@)]
    BY <1>4, Zenon DEF SendOutput, bookVars
  <2>2. /\ sending \in SendState /\ sending.prop \in DOMAIN sp /\ sending.left # << >> /\ ~blockEnded
        /\ taking = NoOrder /\ returning = {}
    BY <2>1, Zenon DEF SInv
  <2>3. CASE Len(sending.left) = 1
    BY <2>1, <2>2, <2>3, Zenon DEF SInv
  <2>4. CASE Len(sending.left) # 1
    <3> DEFINE left == sending.left
               rest == Tail(left)
    <3>1. left \in Seq(Address \X (0 .. 2 * MaxTokens + 1)) /\ left # << >> /\ Len(left) # 1
      BY <2>2, <2>4, Zenon DEF SendState
    <3>2. sending' = [sending EXCEPT !.left = rest]
      BY <2>1, <2>4, Zenon
    <3> HIDE DEF left
    <3>3. rest \in Seq(Address \X (0 .. 2 * MaxTokens + 1)) /\ rest # << >>
      <4>1. \A D : \A s \in Seq(D) : s # << >> /\ Len(s) # 1 => Tail(s) \in Seq(D) /\ Len(Tail(s)) # 0
        OBVIOUS
      <4>2. Len(<< >>) = 0
        OBVIOUS
      <4> QED
        BY <3>1, <4>1, <4>2, Zenon
    <3> HIDE DEF rest
    <3>4. sending' \in SendState /\ sending'.prop = sending.prop /\ sending'.left = rest
      BY <2>2, <3>2, <3>3, Zenon DEF SendState
    <3> QED
      BY <2>1, <2>2, <3>3, <3>4, Zenon DEF SInv
  <2> QED
    BY <2>3, <2>4, Zenon
<1>5. CASE MetaDExStep /\ UNCHANGED loopVars
  <2>1. taking # NoOrder \/ returning # {}
    BY <1>5, Zenon DEF MetaDExStep, x_Skip, x_Trade, MetaDEx_INSERT
  <2> QED
    BY <1>1, <1>5, <2>1, Zenon DEF SInv
<1>6. ASSUME NEW devmsc, BlockEnd(devmsc) PROVE SInv'
  BY <1>6, Zenon DEF BlockEnd, Idle, bookVars, SInv
<1>7. CASE BlockBegin
  BY <1>7, Zenon DEF BlockBegin, SInv
<1>8. CASE UNCHANGED vars
  BY <1>8, Zenon DEF vars, loopVars, mdexVars, bookVars, ruleVars, SInv
<1> QED
  BY <1>2, <1>3, <1>4, <1>5, <1>6, <1>7, <1>8, Zenon DEF Next, loopVars

\* Every step keeps the invariant of the tokens and the frozen balances.
LEMMA StepKeepsTInv ==
  ASSUME IInv, FInv, SInv, TInv, [Next]_vars
  PROVE  TInv' /\ KeepsFrozen
<1>1. SoundNow
  BY Zenon DEF TInv
<1>2. ASSUME UNCHANGED bookVars, taking = NoOrder, SoundNow' PROVE TInv'
  <2>1. metadexReserve' = metadexReserve /\ metadex' = metadex /\ taking' = taking
    BY <1>2, Zenon DEF bookVars
  <2>2. Funded(balance)'
    BY <1>2, <2>1, Zenon DEF Funded
  <2> QED
    BY <1>2, <2>1, <2>2, Zenon DEF TInv
<1>3. CASE Ready /\ Transaction
  <2>1. UNCHANGED bookVars /\ taking = NoOrder
    BY <1>3, TransactionsKeepBook, Zenon DEF Ready, Idle
  <2> QED
    BY <1>1, <1>2, <1>3, <2>1, TransactionSound, Zenon
<1>4. CASE Ready /\ MetaDExTransaction /\ UNCHANGED issueVars
  BY <1>4, ExchangeKeepsTInv, Zenon
<1>5. CASE MetaDExStep /\ UNCHANGED issueVars
  <2>1. ASSUME NEW o \in metadex, x_Skip(o) PROVE TInv' /\ KeepsFrozen
    BY <1>5, <2>1, SkipKeepsTInv, Zenon
  <2>2. ASSUME NEW o \in metadex, x_Trade(o) PROVE TInv' /\ KeepsFrozen
    BY <1>5, <2>2, TradeKeepsTInv, Zenon
  <2>3. ASSUME MetaDEx_INSERT PROVE TInv' /\ KeepsFrozen
    BY <1>5, <2>3, InsertKeepsTInv, Zenon
  <2>4. ASSUME NEW o \in returning, ReturnOrder(o) PROVE TInv' /\ KeepsFrozen
    BY <1>5, <2>4, ReturnKeepsTInv, Zenon
  <2> QED
    BY <1>5, <2>1, <2>2, <2>3, <2>4, Zenon DEF MetaDExStep
<1>8. ASSUME Ready, NEW who \in Address, NEW p \in Property, NEW outs \in Splits, SendToMany(who, p, outs)
      PROVE  TInv' /\ KeepsFrozen
  <2>1. UNCHANGED bookVars /\ taking = NoOrder
    BY <1>8, Zenon DEF SendToMany, Ready, Idle
  <2>2. /\ balance' = balance /\ metadexReserve' = metadexReserve /\ feeCache' = feeCache
        /\ sp' = sp /\ my_crowds' = my_crowds
    BY <1>1, <1>8, SendBegins, Zenon
  <2>3. SoundNow' /\ balance \in NatTally
    BY <1>1, <2>2, Zenon DEF SoundNow, Sound
  <2> QED
    BY <1>2, <2>1, <2>2, <2>3, SameKeepsFrozen, Zenon
<1>9. CASE SendOutput
  <2>1. UNCHANGED bookVars /\ taking = NoOrder
    BY <1>9, Zenon DEF SendOutput, SInv
  <2> QED
    BY <1>1, <1>2, <1>9, <2>1, SendOutputSound, Zenon
<1>10. ASSUME NEW devmsc \in Vested[block], BlockEnd(devmsc) PROVE TInv' /\ KeepsFrozen
  <2>1. UNCHANGED bookVars /\ taking = NoOrder
    BY <1>10, Zenon DEF BlockEnd, Idle
  <2> QED
    BY <1>1, <1>2, <1>10, <2>1, BlockEndSound, Zenon
<1>6. CASE BlockBegin
  <2>1. UNCHANGED bookVars /\ taking = NoOrder
    BY <1>6, Zenon DEF BlockBegin, SInv
  <2> QED
    BY <1>1, <1>2, <1>6, <2>1, BlockBeginSound, Zenon
<1>7. CASE UNCHANGED vars
  <2>1. UNCHANGED tokenVars /\ taking' = taking /\ setFrozenAddresses' = setFrozenAddresses /\ balance' = balance
    BY <1>7, Zenon DEF vars, mdexVars, bookVars, feeVars, ruleVars, modeVars, issueVars, tokenVars
  <2>2. Funded(balance)'
    BY <2>1, Zenon DEF TInv, Funded
  <2> QED
    BY <2>1, <2>2, TokensUnchanged
<1> QED
  BY <1>3, <1>4, <1>5, <1>6, <1>7, <1>8, <1>9, <1>10, Zenon DEF Next, BlockIsOpen

-----------------------------------------------------------------------------
(* The theorems. *)

\* What was issued of a property before.
Start(bal, p) == Sum([a \in Address |-> bal[<<a, p>>]], Address)

\* The states to start from satisfy the invariant.
LEMMA InitTInv == Init => TInv
<1> SUFFICES ASSUME Init PROVE TInv
  BY Zenon
<1> DEFINE zero == [s \in Slot |-> 0]
           none == [p \in Property |-> 0]
<1>1. /\ metadexReserve = zero /\ feeCache = none /\ metadex = {} /\ taking = NoOrder
  BY Zenon DEF Init
<1>2. /\ balance \in NatTally /\ ConsistentRecords(sp, my_crowds)
      /\ \A p \in Property : Start(balance, p) =
                                 IF p \in DOMAIN sp THEN Recorded(sp, my_crowds, p) ELSE 0
      /\ \A p \in DOMAIN sp : Recorded(sp, my_crowds, p) <= MaxTokens
  <2>1. PICK start \in Scenarios : balance = start.balance /\ sp = start.sp /\ my_crowds = start.crowds
    BY Zenon DEF Init
  <2>2. /\ start.balance \in [Slot -> Nat] /\ ConsistentRecords(start.sp, start.crowds)
        /\ \A p \in Property :
              SumOver(Address, LAMBDA a : start.balance[<<a, p>>]) =
                  IF p \in DOMAIN start.sp THEN Recorded(start.sp, start.crowds, p) ELSE 0
        /\ \A p \in DOMAIN start.sp : Recorded(start.sp, start.crowds, p) <= MaxTokens
    BY ScenariosAssumption, Zenon
  <2>3. ASSUME NEW p
        PROVE  SumOver(Address, LAMBDA a : start.balance[<<a, p>>]) = Start(start.balance, p)
    BY ZenonT(30) DEF SumOver, MapThenSumSet, MapThenFoldSet, Sum, Solves, SumStep, Start
  <2>4. \A p \in Property : Start(start.balance, p) =
                 IF p \in DOMAIN start.sp THEN Recorded(start.sp, start.crowds, p) ELSE 0
    BY <2>2, <2>3, Zenon
  <2> QED
    BY <2>1, <2>2, <2>4, Zenon DEF NatTally
<1>3. MSC \in Property /\ DOMAIN sp \subseteq Property
  BY <1>2, Zenon DEF ConsistentRecords
<1>4. /\ zero \in NatTally /\ none \in FeeTally /\ none[MSC] = 0
      /\ \A s \in Slot : zero[s] = 0
  BY <1>3, Zenon DEF NatTally, FeeTally
<1> HIDE DEF zero, none
<1>5. ASSUME NEW p \in Property
      PROVE  Accounted(sp, my_crowds, Held(balance, metadexReserve, feeCache, p), p)
  <2> DEFINE n == Held(balance, metadexReserve, feeCache, p)
             f == [a \in Address |-> balance[<<a, p>>]]
             g == Hold(balance, metadexReserve, p)
  <2>1. Start(balance, p) = Sum(f, Address)
    BY Zenon DEF Start
  <2>2. \A a \in Address : f[a] \in Int /\ g[a] = f[a]
    <3> SUFFICES ASSUME NEW a \in Address PROVE f[a] \in Int /\ g[a] = f[a]
      BY Zenon
    <3>1. <<a, p>> \in Slot /\ balance[<<a, p>>] \in Nat
      BY <1>2, TallyAt
    <3>2. metadexReserve[<<a, p>>] = 0
      BY <1>1, <1>4, <3>1, Zenon
    <3> QED
      BY <3>1, <3>2 DEF Hold, Holding
  <2> HIDE DEF f, g
  <2>3. Sum(g, Address) = Sum(f, Address) /\ Sum(f, Address) \in Int
    BY <2>2, AddressesFinite, SumSame, SumType, Zenon
  <2>4. feeCache[p] = 0
    BY <1>1, Zenon DEF none
  <2>5. n = Sum(g, Address) + feeCache[p]
    BY Zenon DEF Held, Tot, g
  <2>6. n = IF p \in DOMAIN sp THEN Recorded(sp, my_crowds, p) ELSE 0
    <3>1. n = Sum(f, Address)
      BY <2>3, <2>4, <2>5
    <3> QED
      BY <1>2, <2>1, <3>1, Zenon
  <2> HIDE DEF n
  <2>7. ASSUME p \in DOMAIN sp
        PROVE  /\ n = Recorded(sp, my_crowds, p) /\ n <= MaxTokens
               /\ ~OpenFor(my_crowds, p) => n = Recd(sp[p])
               /\ \A a \in DOMAIN my_crowds : my_crowds[a].prop = p => n = my_crowds[a].user + my_crowds[a].issuer
    <3>1. n = Recorded(sp, my_crowds, p)
      BY <2>6, <2>7, Zenon
    <3> QED
      BY <1>2, <2>7, <3>1, RecordedIs, Zenon
  <2>8. \A a \in DOMAIN my_crowds : my_crowds[a].prop \in DOMAIN sp
    BY <1>2, Zenon DEF ConsistentRecords
  <2>9. p \notin DOMAIN sp => n = 0
    BY <2>6, Zenon
  <2>10. Accounted(sp, my_crowds, n, p)
    BY <2>7, <2>8, <2>9, Zenon DEF Accounted
  <2> QED
    BY <2>10, Zenon DEF n
<1>6. SoundNow
  BY <1>1, <1>2, <1>4, <1>5, Zenon DEF SoundNow, Sound
<1>7. BookMatches(metadexReserve, metadex) /\ IsFiniteSet(metadex)
  <2>1. IsFiniteSet({})
    BY FS_EmptySet, Zenon
  <2>2. ASSUME NEW s \in Slot PROVE Res({}, s) = 0
    <3>1. OrdersAt({}, s) = {}
      BY Zenon DEF OrdersAt
    <3> QED
      BY <2>1, <3>1, SumAtChoice, Zenon DEF Res
  <2> QED
    BY <1>1, <1>4, <2>1, <2>2, Zenon DEF BookMatches
<1> QED
  BY <1>1, <1>6, <1>7, Zenon DEF TInv, Funded

\* The invariants of the loops and of the tokens hold throughout.
LEMMA TokenInvariance == Spec => [](SInv /\ TInv)
<1>1. Init => SInv /\ TInv
  BY InitTInv, Zenon DEF Init, SInv
<1>2. IInv /\ FInv /\ (SInv /\ TInv) /\ [Next]_vars => (SInv /\ TInv)'
  BY StepKeepsTInv, StepKeepsSInv, Zenon
<1> QED
  BY <1>1, <1>2, BookInvariance, FrozenInvariance, PTL DEF Spec

\* The invariants together say that the reserve is exact.
LEMMA InvariantsImplyReserve == IInv /\ FInv /\ MInv /\ TInv => MetaDExReserveIsExact
<1> SUFFICES ASSUME IInv, FInv, MInv, TInv PROVE MetaDExReserveIsExact
  BY Zenon
<1>1. BookTypeOK
  <2>1. balance \in [Slot -> Nat] /\ metadexReserve \in [Slot -> Nat] /\ feeCache \in [Property -> Nat]
    BY Zenon DEF TInv, SoundNow, Sound, NatTally, FeeTally
  <2>2. taking # NoOrder => TakingRest \in Order
    <3> SUFFICES ASSUME taking # NoOrder PROVE TakingRest \in Order
      BY Zenon
    <3>1. taking \in Taker
      BY Zenon DEF IInv
    <3> QED
      BY <3>1, Zenon DEF Taker, TakingRest, Order
  <2> QED
    BY <2>1, <2>2, Zenon DEF BookTypeOK, IInv, FInv
<1>2. ASSUME NEW s \in Slot
      PROVE  metadexReserve[s] = SumOver({o \in metadex : <<o.addr, o.prop>> = s}, LAMBDA o : o.remaining)
  <2> DEFINE S == {o \in metadex : <<o.addr, o.prop>> = s}
             f == [o \in S |-> o.remaining]
  <2>1. SumOver(S, LAMBDA o : o.remaining) = Sum(f, S)
    BY ZenonT(30) DEF SumOver, MapThenSumSet, MapThenFoldSet, Sum, Solves, SumStep
  <2>2. S = OrdersAt(metadex, s)
    BY Zenon DEF OrdersAt
  <2>3. \A o \in S : o \in Order
    BY Zenon DEF IInv
  <2>4. \A o \in S : f[o] = Rem[o]
    BY <2>3, Zenon DEF Rem
  <2>5. IsFiniteSet(S)
    BY FS_Subset, Zenon DEF TInv
  <2> HIDE DEF S, f
  <2>6. Sum(f, S) = Sum(Rem, S)
    BY <2>4, <2>5, SumSame, Zenon
  <2>7. metadexReserve[s] = Sum(Rem, S)
    BY <2>2, Zenon DEF TInv, BookMatches, Res
  <2>8. SumOver(S, LAMBDA o : o.remaining) = metadexReserve[s]
    BY <2>1, <2>6, <2>7, Zenon
  <2> QED
    BY <2>8, Zenon DEF S
<1>3. ASSUME Idle
      PROVE  /\ ~IsFeatureActivated("metadex") => metadex = {}
             /\ ~IsFeatureActivated("allpairs") => \A o \in metadex : MSC \in {o.prop, o.desprop}
  <2>1. ~halted /\ returning = {} /\ metadex \ returning = metadex
    BY <1>3, Zenon DEF Idle
  <2> QED
    BY <2>1, Zenon DEF MInv
<1> QED
  BY <1>1, <1>2, <1>3, Zenon DEF MetaDExReserveIsExact

\* The invariant says that the supply is recorded.
LEMMA InvariantsImplySupply == TInv => SupplyIsRecorded
<1> SUFFICES ASSUME TInv PROVE SupplyIsRecorded
  BY Zenon
<1>1. /\ balance \in NatTally /\ metadexReserve \in NatTally
      /\ ConsistentRecords(sp, my_crowds)
      /\ \A p \in Property : Accounted(sp, my_crowds, Held(balance, metadexReserve, feeCache, p), p)
  BY Zenon DEF TInv, SoundNow, Sound
<1>2. TypeOK /\ DOMAIN sp \subseteq Property
  BY <1>1, Zenon DEF TypeOK, ConsistentRecords
<1>3. ASSUME NEW p \in DOMAIN sp
      PROVE  /\ TallyTotal(balance, p) + feeCache[p] = RecordedSupply(p)
             /\ RecordedSupply(p) <= MaxTokens
  <2> DEFINE n == Held(balance, metadexReserve, feeCache, p)
  <2>1. p \in Property
    BY <1>2, Zenon
  <2>2. TallyTotal(balance, p) + feeCache[p] = n
    BY <1>1, <2>1, TallyTotalIs, Zenon DEF Held
  <2>3. Accounted(sp, my_crowds, n, p)
    BY <1>1, <2>1, Zenon
  <2> HIDE DEF n
  <2>4. /\ ~OpenFor(my_crowds, p) => Recorded(sp, my_crowds, p) = Recd(sp[p])
        /\ \A a \in DOMAIN my_crowds :
              my_crowds[a].prop = p => Recorded(sp, my_crowds, p) = my_crowds[a].user + my_crowds[a].issuer
    BY <1>1, RecordedIs, Zenon
  <2>5. n = Recorded(sp, my_crowds, p) /\ n <= MaxTokens
    BY <2>3, <2>4, Zenon DEF Accounted, OpenFor
  <2> QED
    BY <2>2, <2>5, Zenon DEF RecordedSupply
<1> QED
  BY <1>2, <1>3, Zenon DEF SupplyIsRecorded

\* METADEX_RESERVE is, for every address and property, the sum of what their
\* orders on the book have left, through matches with fees, cancellations and
\* the shutdown of the exchange; no amount is ever negative; and in a block in
\* which the exchange is not active nothing is on its book.
THEOREM ReserveIsExact == Spec => []MetaDExReserveIsExact
<1>1. IInv /\ FInv /\ MInv /\ TInv => MetaDExReserveIsExact
  BY InvariantsImplyReserve, Zenon
<1> QED
  BY <1>1, BookInvariance, FrozenInvariance, ModeInvariance, TokenInvariance, PTL

\* Of every property there are as many tokens, in balances, reserves and fees,
\* as the database records, and never more than the maximum, whatever is sent,
\* traded, granted, revoked, distributed to owners or sold in a crowdsale; and
\* of property 1 as many as the block ends have issued.
THEOREM SupplyIsAccountedFor == Spec => []SupplyIsRecorded
<1>1. TInv => SupplyIsRecorded
  BY InvariantsImplySupply, Zenon
<1> QED
  BY <1>1, TokenInvariance, PTL

\* No step of any kind debits the balance of a frozen address, not even an
\* output of a send to many whose word is negative for the tallies.
THEOREM FrozenStaysFrozen == Spec => FrozenBalanceKept
<1>1. IInv /\ FInv /\ SInv /\ TInv /\ [Next]_vars => [\A s \in setFrozenAddresses : balance'[s] >= balance[s]]_mdexVars
  BY StepKeepsTInv, Zenon DEF KeepsFrozen
<1> QED
  BY <1>1, BookInvariance, FrozenInvariance, TokenInvariance, PTL DEF Spec, FrozenBalanceKept

=============================================================================
