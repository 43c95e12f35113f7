-------------------------- MODULE ValidationProofs --------------------------
(***************************************************************************)
(* Proofs about what connects a block: CheckQueue, for any set of workers, *)
(* any set of checks and any batch size, and Coins, for any set of         *)
(* outpoints, coins and blocks.                                            *)
(*                                                                         *)
(* The inductive invariant of CheckQueue has three parts, each an operator *)
(* of the state so that it can also be stated for the middle of a critical *)
(* section, where a thread t has put down its batch and not yet returned,  *)
(* waited or taken another one (X = {t}):                                  *)
(*   Shape   a thread has a batch exactly while it executes or has just    *)
(*           executed it; no check is in two places;                       *)
(*   Counts  nTodo, nIdle and nTotal are the sizes they stand for;         *)
(*   Truth   the partial verdicts speak about the checks finished so far.  *)
(* The one of Coins, CoinsInv, says what the two flags of an entry promise *)
(* together.                                                               *)
(***************************************************************************)
EXTENDS CheckQueue, Coins, FiniteSetTheorems, TLAPS

Places == {"outside", "adding", "first", "waiting", "woken", "exec", "ran",
           "returned", "stopped"}
IdlePlaces == {"waiting", "woken", "stopped"}
BusyPlaces == {"exec", "ran"}

IdleIn(p) == {t \in Threads : p[t] \in IdlePlaces}
CountedIn(p) == {t \in Threads : p[t] \in IdlePlaces \cup BusyPlaces}
Out(q, b) == q \cup UNION {b[t] : t \in Threads}

Shape(q, p, b, X) ==
    /\ q \in SUBSET Checks
    /\ p \in [Threads -> Places]
    /\ b \in [Threads -> SUBSET Checks]
    /\ p[Master] # "stopped"
    /\ \A w \in Workers : p[w] \notin {"outside", "adding", "returned"}
    /\ \A u \in Threads \ X : b[u] # {} <=> p[u] \in BusyPlaces
    /\ \A u \in Threads : b[u] \cap q = {}
    /\ \A u, v \in Threads : u # v => b[u] \cap b[v] = {}

Counts(q, p, b, idle, total, todo) ==
    /\ todo = Cardinality(Out(q, b))
    /\ idle = Cardinality(IdleIn(p)) + nLeaked
    /\ total = Cardinality(CountedIn(p)) + nLeaked

Truth(q, p, b, f, ok, X) ==
    /\ ok \in BOOLEAN
    /\ f \in [Threads -> BOOLEAN]
    /\ Out(q, b) \subseteq added
    /\ p[Master] \in {"outside", "returned"} => ok = TRUE /\ Out(q, b) = {}
    /\ p[Master] \notin {"outside", "returned"} =>
          /\ ok = TRUE => added \ Out(q, b) \subseteq Good
          /\ ok = FALSE => ~(added \subseteq Good)
          /\ \A u \in Threads \ X :
                /\ p[u] \in BusyPlaces /\ f[u] = FALSE => ~(added \subseteq Good)
                /\ p[u] = "ran" /\ f[u] = TRUE => b[u] \subseteq Good

Rest ==
    /\ verdict \in BOOLEAN /\ fUnwinding \in BOOLEAN /\ alive \in BOOLEAN
    /\ added \in SUBSET Checks
    /\ interrupted \in SUBSET Threads
    /\ nLeaked \in Nat

IInv ==
    /\ Shape(queue, pc, batch, {})
    /\ Counts(queue, pc, batch, nIdle, nTotal, nTodo)
    /\ Truth(queue, pc, batch, fOk, fAllOk, {})
    /\ Rest
    /\ VerdictIsExact
-----------------------------------------------------------------------------
\* Moving one thread changes the two head counts by at most one.
LEMMA OneMoves ==
    ASSUME NEW p \in [Threads -> Places], NEW r \in [Threads -> Places], NEW t \in Threads,
           \A u \in Threads : u # t => r[u] = p[u]
    PROVE  /\ Cardinality(IdleIn(p)) \in Nat
           /\ Cardinality(CountedIn(p)) \in Nat
           /\ Cardinality(IdleIn(r)) =
                Cardinality(IdleIn(p)) + (IF r[t] \in IdlePlaces THEN 1 ELSE 0)
                                       - (IF p[t] \in IdlePlaces THEN 1 ELSE 0)
           /\ Cardinality(CountedIn(r)) =
                Cardinality(CountedIn(p))
                  + (IF r[t] \in IdlePlaces \cup BusyPlaces THEN 1 ELSE 0)
                  - (IF p[t] \in IdlePlaces \cup BusyPlaces THEN 1 ELSE 0)
<1>0. IsFiniteSet(Threads)
  BY FiniteThreads, FS_AddElement, Zenon DEF Threads
<1>1. /\ IsFiniteSet(IdleIn(p)) /\ IsFiniteSet(CountedIn(p))
  <2>1. IdleIn(p) \in SUBSET Threads /\ CountedIn(p) \in SUBSET Threads
    BY Zenon DEF IdleIn, CountedIn
  <2> QED BY <2>1, <1>0, FS_Subset, Zenon
<1>2. Cardinality(IdleIn(p)) \in Nat /\ Cardinality(CountedIn(p)) \in Nat
  BY <1>1, FS_CardinalityType, Zenon
<1>4. IdleIn(r) = IF r[t] \in IdlePlaces THEN IdleIn(p) \cup {t} ELSE IdleIn(p) \ {t}
  BY Zenon DEF IdleIn
<1>5. CountedIn(r) = IF r[t] \in IdlePlaces \cup BusyPlaces
                     THEN CountedIn(p) \cup {t} ELSE CountedIn(p) \ {t}
  BY Zenon DEF CountedIn
<1>6. t \in IdleIn(p) <=> p[t] \in IdlePlaces
  BY Zenon DEF IdleIn
<1>7. t \in CountedIn(p) <=> p[t] \in IdlePlaces \cup BusyPlaces
  BY Zenon DEF CountedIn
<1>8. /\ Cardinality(IdleIn(p) \cup {t}) =
           IF t \in IdleIn(p) THEN Cardinality(IdleIn(p)) ELSE Cardinality(IdleIn(p)) + 1
      /\ Cardinality(IdleIn(p) \ {t}) =
           IF t \in IdleIn(p) THEN Cardinality(IdleIn(p)) - 1 ELSE Cardinality(IdleIn(p))
  BY <1>1, FS_AddElement, FS_RemoveElement, Zenon
<1>9. /\ Cardinality(CountedIn(p) \cup {t}) =
           IF t \in CountedIn(p) THEN Cardinality(CountedIn(p)) ELSE Cardinality(CountedIn(p)) + 1
      /\ Cardinality(CountedIn(p) \ {t}) =
           IF t \in CountedIn(p) THEN Cardinality(CountedIn(p)) - 1 ELSE Cardinality(CountedIn(p))
  BY <1>1, FS_AddElement, FS_RemoveElement, Zenon
<1>10. Cardinality(IdleIn(r)) =
         Cardinality(IdleIn(p)) + (IF r[t] \in IdlePlaces THEN 1 ELSE 0)
                                - (IF p[t] \in IdlePlaces THEN 1 ELSE 0)
  BY <1>2, <1>4, <1>6, <1>8
<1>11. Cardinality(CountedIn(r)) =
         Cardinality(CountedIn(p))
           + (IF r[t] \in IdlePlaces \cup BusyPlaces THEN 1 ELSE 0)
           - (IF p[t] \in IdlePlaces \cup BusyPlaces THEN 1 ELSE 0)
  BY <1>2, <1>5, <1>7, <1>9
<1> QED BY <1>2, <1>10, <1>11, Zenon

\* Outstanding checks are finitely many, and none are left when nTodo is 0.
LEMMA OutFinite ==
    ASSUME NEW q \in SUBSET Checks, NEW b \in [Threads -> SUBSET Checks]
    PROVE  /\ Out(q, b) \in SUBSET Checks
           /\ IsFiniteSet(Out(q, b))
           /\ Cardinality(Out(q, b)) \in Nat
           /\ Cardinality(Out(q, b)) = 0 <=> Out(q, b) = {}
           /\ Out(q, b) = {} => q = {} /\ \A u \in Threads : b[u] = {}
<1>1. Out(q, b) \in SUBSET Checks
  BY Zenon DEF Out
<1>2. IsFiniteSet(Out(q, b))
  BY <1>1, FiniteChecks, FS_Subset, Zenon
<1>3. Cardinality(Out(q, b)) \in Nat
  BY <1>2, FS_CardinalityType, Zenon
<1>4. Cardinality(Out(q, b)) = 0 <=> Out(q, b) = {}
  BY <1>2, FS_EmptySet, Zenon
<1>5. Out(q, b) = {} => q = {} /\ \A u \in Threads : b[u] = {}
  BY DEF Out
<1> QED BY <1>1, <1>2, <1>3, <1>4, <1>5, Zenon

\* What the provers need about Threads, in one place.
LEMMA MasterFacts ==
    /\ Master \in Threads
    /\ \A w \in Threads : w # Master => w \in Workers
    /\ \A w \in Workers : w \in Threads
BY Zenon DEF Threads

\* A critical section after the clean-up or the wake-up: t has no batch.
Putdown(t, p, idle, total, todo, ok) ==
    /\ t \in Threads /\ p \in [Threads -> Places]
    /\ idle \in Nat /\ total \in Nat /\ todo \in Nat /\ ok \in BOOLEAN
    /\ Shape(queue, [p EXCEPT ![t] = "ran"], [batch EXCEPT ![t] = {}], {t})
    /\ Counts(queue, [p EXCEPT ![t] = "ran"], [batch EXCEPT ![t] = {}], idle, total, todo)
    /\ Truth(queue, [p EXCEPT ![t] = "ran"], [batch EXCEPT ![t] = {}], fOk, ok, {t})
    /\ Rest /\ batch \in [Threads -> SUBSET Checks]
    /\ VerdictIsExact /\ (p[Master] = "returned" => pc[Master] = "returned")
    /\ Continue(t, p, idle, total, todo, ok)
    /\ UNCHANGED <<fUnwinding, added, alive, interrupted, nLeaked>>

\* The rest of a critical section: whatever Loop does once its batch is put
\* down (return, wait or take a batch) restores the invariant.
LEMMA ContinueStep ==
    ASSUME NEW t, NEW p, NEW idle, NEW total, NEW todo, NEW ok,
           Putdown(t, p, idle, total, todo, ok)
    PROVE  IInv'
<1> USE DEF Putdown
<1> DEFINE m == [p EXCEPT ![t] = "ran"]
           c == [batch EXCEPT ![t] = {}]
<1>0. /\ m \in [Threads -> Places] /\ m[t] = "ran" /\ \A u \in Threads : u # t => m[u] = p[u]
      /\ c \in [Threads -> SUBSET Checks] /\ c[t] = {} /\ \A u \in Threads : u # t => c[u] = batch[u]
  BY Zenon DEF Places
<1>1. Shape(queue, m, c, {t}) /\ Counts(queue, m, c, idle, total, todo) /\ Truth(queue, m, c, fOk, ok, {t})
  BY Zenon
<1>2. \A x \in Places : [p EXCEPT ![t] = x] = [m EXCEPT ![t] = x]
  BY Zenon
<1>3. Rest'
  BY Zenon DEF Rest, Continue, Return, Wait, Take
<1>3a. /\ t \in Threads /\ idle \in Nat /\ total \in Nat /\ todo \in Nat /\ ok \in BOOLEAN
       /\ UNCHANGED <<fUnwinding, added, alive, interrupted, nLeaked>>
       /\ nLeaked \in Nat /\ VerdictIsExact /\ (p[Master] = "returned" => pc[Master] = "returned")
       /\ batch \in [Threads -> SUBSET Checks]
  BY Zenon DEF Rest
<1>3b. Continue(t, p, idle, total, todo, ok)
  BY Zenon
<1> USE <1>3a
<1> HIDE DEF m, c, Putdown
<1>4. CASE Return(t, p, idle, total, todo, ok) /\ batch' = c
  <2>1. /\ queue = {} /\ t = Master /\ todo = 0 /\ nTotal' = total - 1 /\ verdict' = ok
        /\ fAllOk' = TRUE /\ pc' = [m EXCEPT ![t] = "returned"] /\ nIdle' = idle /\ nTodo' = todo
        /\ queue' = queue /\ fOk' = fOk
    BY <1>4, <1>2, Zenon DEF Return, Returns, Places
  <2>2. Out(queue, c) = {} /\ \A u \in Threads : c[u] = {}
    <3>1. queue \in SUBSET Checks /\ Cardinality(Out(queue, c)) = 0
      BY <1>1, <2>1, Zenon DEF Shape, Counts
    <3> QED BY <3>1, <1>0, OutFinite
  <2>3. pc' \in [Threads -> Places] /\ pc'[t] = "returned" /\ \A u \in Threads : u # t => pc'[u] = m[u]
    BY <2>1, <1>0, Zenon DEF Places
  <2>4. Shape(queue, pc, batch, {})'
    BY <1>0, <1>1, <2>1, <2>2, <2>3, <1>4, MasterFacts, MasterIsNoWorker DEF Shape, BusyPlaces
  <2>5. Counts(queue, pc, batch, nIdle, nTotal, nTodo)'
    <3>1. /\ Cardinality(IdleIn(pc')) = Cardinality(IdleIn(m))
          /\ Cardinality(CountedIn(pc')) = Cardinality(CountedIn(m)) - 1
          /\ Cardinality(IdleIn(m)) \in Nat /\ Cardinality(CountedIn(m)) \in Nat
      <4>1. /\ Cardinality(IdleIn(m)) \in Nat
            /\ Cardinality(CountedIn(m)) \in Nat
            /\ Cardinality(IdleIn(pc')) =
                 Cardinality(IdleIn(m)) + (IF pc'[t] \in IdlePlaces THEN 1 ELSE 0)
                                        - (IF m[t] \in IdlePlaces THEN 1 ELSE 0)
            /\ Cardinality(CountedIn(pc')) =
                 Cardinality(CountedIn(m))
                   + (IF pc'[t] \in IdlePlaces \cup BusyPlaces THEN 1 ELSE 0)
                   - (IF m[t] \in IdlePlaces \cup BusyPlaces THEN 1 ELSE 0)
        BY <1>0, <2>3, OneMoves, Zenon
      <4> QED BY <4>1, <1>0, <2>3 DEF IdlePlaces, BusyPlaces
    <3>2. IdleIn(pc)' = IdleIn(pc') /\ CountedIn(pc)' = CountedIn(pc')
      BY Zenon DEF IdleIn, CountedIn
    <3>3. Out(queue, batch)' = Out(queue, c)
      BY <1>4, <2>1, Zenon DEF Out
    <3> QED BY <1>1, <2>1, <3>1, <3>2, <3>3 DEF Counts, Rest
  <2>6. Truth(queue, pc, batch, fOk, fAllOk, {})'
    BY <1>1, <2>1, <2>2, <2>3, <1>4 DEF Truth, Out
  <2>7. VerdictIsExact'
    <3>1. ok = (added \subseteq Good)
      BY <1>0, <1>1, <2>1, <2>2, Zenon DEF Truth
    <3> QED BY <3>1, <2>1, Zenon DEF VerdictIsExact
  <2> QED BY <1>3, <2>4, <2>5, <2>6, <2>7, Zenon DEF IInv
<1>5. CASE Wait(t, p, idle, total, todo, ok) /\ batch' = c
  <2>1. /\ queue = {} /\ nTotal' = total /\ verdict' = verdict
        /\ fAllOk' = ok /\ pc' = [m EXCEPT ![t] = "waiting"] /\ nIdle' = idle + 1 /\ nTodo' = todo
        /\ queue' = queue /\ fOk' = fOk
    BY <1>5, <1>2, Zenon DEF Wait, Places
  <2>3. pc' \in [Threads -> Places] /\ pc'[t] = "waiting" /\ \A u \in Threads : u # t => pc'[u] = m[u]
    BY <2>1, <1>0, Zenon DEF Places
  <2>4. Shape(queue, pc, batch, {})'
    BY <1>0, <1>1, <2>1, <2>3, <1>5, MasterFacts, MasterIsNoWorker, Zenon DEF Shape, BusyPlaces
  <2>5. Counts(queue, pc, batch, nIdle, nTotal, nTodo)'
    <3>1. /\ Cardinality(IdleIn(pc')) = Cardinality(IdleIn(m)) + 1
          /\ Cardinality(CountedIn(pc')) = Cardinality(CountedIn(m))
          /\ Cardinality(IdleIn(m)) \in Nat /\ Cardinality(CountedIn(m)) \in Nat
      <4>1. /\ Cardinality(IdleIn(m)) \in Nat
            /\ Cardinality(CountedIn(m)) \in Nat
            /\ Cardinality(IdleIn(pc')) =
                 Cardinality(IdleIn(m)) + (IF pc'[t] \in IdlePlaces THEN 1 ELSE 0)
                                        - (IF m[t] \in IdlePlaces THEN 1 ELSE 0)
            /\ Cardinality(CountedIn(pc')) =
                 Cardinality(CountedIn(m))
                   + (IF pc'[t] \in IdlePlaces \cup BusyPlaces THEN 1 ELSE 0)
                   - (IF m[t] \in IdlePlaces \cup BusyPlaces THEN 1 ELSE 0)
        BY <1>0, <2>3, OneMoves, Zenon
      <4> QED BY <4>1, <1>0, <2>3 DEF IdlePlaces, BusyPlaces
    <3>2. IdleIn(pc)' = IdleIn(pc') /\ CountedIn(pc)' = CountedIn(pc')
      BY Zenon DEF IdleIn, CountedIn
    <3>3. Out(queue, batch)' = Out(queue, c)
      BY <1>5, <2>1, Zenon DEF Out
    <3>4. nLeaked \in Nat /\ nLeaked' = nLeaked
      BY Zenon DEF Rest
    <3>5. idle = Cardinality(IdleIn(m)) + nLeaked /\ total = Cardinality(CountedIn(m)) + nLeaked
          /\ todo = Cardinality(Out(queue, c))
      BY <1>1, Zenon DEF Counts
    <3>6. /\ nIdle' = Cardinality(IdleIn(pc')) + nLeaked'
          /\ nTotal' = Cardinality(CountedIn(pc')) + nLeaked'
      BY <2>1, <3>1, <3>4, <3>5
    <3> QED BY <2>1, <3>2, <3>3, <3>5, <3>6, Zenon DEF Counts
  <2>6. Truth(queue, pc, batch, fOk, fAllOk, {})'
    BY <1>0, <1>1, <2>1, <2>3, <1>5, MasterFacts DEF Truth, Out, BusyPlaces
  <2>7. VerdictIsExact'
    BY <1>0, <2>1, <2>3, MasterFacts, Zenon DEF VerdictIsExact
  <2> QED BY <1>3, <2>4, <2>5, <2>6, <2>7, Zenon DEF IInv
<1>6. CASE Take(t, p, idle, total, todo, ok)
  <2>1. /\ nTotal' = total /\ verdict' = verdict
        /\ fAllOk' = ok /\ pc' = [m EXCEPT ![t] = "exec"] /\ nIdle' = idle /\ nTodo' = todo
        /\ fOk' = [fOk EXCEPT ![t] = ok]
    BY <1>6, <1>2, Zenon DEF Take, Places
  <2>2. PICK S \in SUBSET queue :
          /\ Cardinality(S) = BatchFor(Cardinality(queue), total, idle)
          /\ queue' = queue \ S
          /\ batch' = [batch EXCEPT ![t] = S]
    BY <1>6, Zenon DEF Take
  <2>3. pc' \in [Threads -> Places] /\ pc'[t] = "exec" /\ \A u \in Threads : u # t => pc'[u] = m[u]
    BY <2>1, <1>0, Zenon DEF Places
  <2>4. S # {}
    <3>1. IsFiniteSet(queue) /\ Cardinality(queue) \in Nat
      BY <1>1, FiniteChecks, FS_Subset, FS_CardinalityType, Zenon DEF Shape
    <3>2. BatchFor(Cardinality(queue), total, idle) > 0
      BY <3>1, BatchSizePositive DEF BatchFor
    <3> QED BY <3>2, <2>2, FS_EmptySet
  <2>5. /\ batch' \in [Threads -> SUBSET Checks] /\ batch'[t] = S
        /\ \A u \in Threads : u # t => batch'[u] = c[u]
    BY <1>0, <1>1, <2>2, Zenon DEF Shape
  <2>6. Out(queue, batch)' = Out(queue, c)
    BY <1>0, <2>2, <2>5 DEF Out
  <2>7. Shape(queue, pc, batch, {})'
    BY <1>0, <1>1, <2>1, <2>2, <2>3, <2>4, <2>5, MasterFacts, MasterIsNoWorker DEF Shape, BusyPlaces
  <2>8. Counts(queue, pc, batch, nIdle, nTotal, nTodo)'
    <3>1. /\ Cardinality(IdleIn(pc')) = Cardinality(IdleIn(m))
          /\ Cardinality(CountedIn(pc')) = Cardinality(CountedIn(m))
          /\ Cardinality(IdleIn(m)) \in Nat /\ Cardinality(CountedIn(m)) \in Nat
      <4>1. /\ Cardinality(IdleIn(m)) \in Nat
            /\ Cardinality(CountedIn(m)) \in Nat
            /\ Cardinality(IdleIn(pc')) =
                 Cardinality(IdleIn(m)) + (IF pc'[t] \in IdlePlaces THEN 1 ELSE 0)
                                        - (IF m[t] \in IdlePlaces THEN 1 ELSE 0)
            /\ Cardinality(CountedIn(pc')) =
                 Cardinality(CountedIn(m))
                   + (IF pc'[t] \in IdlePlaces \cup BusyPlaces THEN 1 ELSE 0)
                   - (IF m[t] \in IdlePlaces \cup BusyPlaces THEN 1 ELSE 0)
        BY <1>0, <2>3, OneMoves, Zenon
      <4> QED BY <4>1, <1>0, <2>3 DEF IdlePlaces, BusyPlaces
    <3>2. IdleIn(pc)' = IdleIn(pc') /\ CountedIn(pc)' = CountedIn(pc')
      BY Zenon DEF IdleIn, CountedIn
    <3> QED BY <1>1, <2>1, <2>6, <3>1, <3>2, Zenon DEF Counts, Rest
  <2>9. Truth(queue, pc, batch, fOk, fAllOk, {})'
    BY <1>0, <1>1, <2>1, <2>3, <2>5, <2>6, MasterFacts DEF Truth, BusyPlaces
  <2>10. VerdictIsExact'
    BY <1>0, <2>1, <2>3, MasterFacts, Zenon DEF VerdictIsExact
  <2> QED BY <1>3, <2>7, <2>8, <2>9, <2>10, Zenon DEF IInv
<1> QED BY <1>3b, <1>4, <1>5, <1>6, Zenon DEF Continue, c

LEMMA InitIInv == Init => IInv
<1> SUFFICES ASSUME Init PROVE IInv
  BY Zenon
<1>1. /\ pc \in [Threads -> Places] /\ pc[Master] = "outside" /\ \A w \in Workers : pc[w] = "first"
      /\ batch \in [Threads -> SUBSET Checks] /\ \A u \in Threads : batch[u] = {} /\ pc[u] \in {"outside", "first"}
  BY MasterFacts, MasterIsNoWorker, Zenon DEF Init, Places, Threads
<1>2. Out(queue, batch) = {} /\ IdleIn(pc) = {} /\ CountedIn(pc) = {}
  BY <1>1, Zenon DEF Init, Out, IdleIn, CountedIn, IdlePlaces, BusyPlaces
<1>3. Shape(queue, pc, batch, {})
  BY <1>1, Zenon DEF Init, Shape, BusyPlaces
<1>4. Counts(queue, pc, batch, nIdle, nTotal, nTodo)
  BY <1>2, FS_EmptySet DEF Init, Counts
<1>5. Truth(queue, pc, batch, fOk, fAllOk, {})
  BY <1>1, <1>2, Zenon DEF Init, Truth
<1>6. Rest /\ VerdictIsExact
  BY <1>1, Zenon DEF Init, Rest, VerdictIsExact
<1> QED BY <1>3, <1>4, <1>5, <1>6, Zenon DEF IInv

\* A thread that enters Loop.
LEMMA EnterLoopStep ==
    ASSUME IInv, NEW t \in Threads, EnterLoop(t)
    PROVE  IInv'
<1> DEFINE m == [pc EXCEPT ![t] = "ran"]
           c == [batch EXCEPT ![t] = {}]
<1>1. /\ pc \in [Threads -> Places] /\ batch \in [Threads -> SUBSET Checks] /\ pc[t] = "first"
      /\ batch[t] = {}
  BY Zenon DEF IInv, Shape, EnterLoop, BusyPlaces
<1>2. /\ m \in [Threads -> Places] /\ m[t] = "ran" /\ \A u \in Threads : u # t => m[u] = pc[u]
      /\ c = batch
  BY <1>1, Zenon DEF Places
<1>3. Shape(queue, m, c, {t})
  <2> HIDE DEF m, c
  <2> QED BY <1>1, <1>2, MasterFacts, Zenon DEF IInv, Shape
<1>4. /\ Cardinality(IdleIn(pc)) \in Nat /\ Cardinality(CountedIn(pc)) \in Nat
      /\ Cardinality(IdleIn(m)) = Cardinality(IdleIn(pc))
      /\ Cardinality(CountedIn(m)) = Cardinality(CountedIn(pc)) + 1
  <2> HIDE DEF m
  <2>1. /\ Cardinality(IdleIn(pc)) \in Nat
        /\ Cardinality(CountedIn(pc)) \in Nat
        /\ Cardinality(IdleIn(m)) =
             Cardinality(IdleIn(pc)) + (IF m[t] \in IdlePlaces THEN 1 ELSE 0)
                                     - (IF pc[t] \in IdlePlaces THEN 1 ELSE 0)
        /\ Cardinality(CountedIn(m)) =
             Cardinality(CountedIn(pc))
               + (IF m[t] \in IdlePlaces \cup BusyPlaces THEN 1 ELSE 0)
               - (IF pc[t] \in IdlePlaces \cup BusyPlaces THEN 1 ELSE 0)
    BY <1>1, <1>2, OneMoves, Zenon
  <2> QED BY <2>1, <1>1, <1>2 DEF IdlePlaces, BusyPlaces
<1>5. /\ nLeaked \in Nat
      /\ nTodo = Cardinality(Out(queue, batch))
      /\ nIdle = Cardinality(IdleIn(pc)) + nLeaked
      /\ nTotal = Cardinality(CountedIn(pc)) + nLeaked
  BY Zenon DEF IInv, Rest, Counts
<1>6. Cardinality(Out(queue, batch)) \in Nat
  BY <1>1, OutFinite, Zenon DEF IInv, Shape
<1>7. /\ nIdle \in Nat /\ nTotal + 1 \in Nat /\ nTodo \in Nat
      /\ Counts(queue, m, c, nIdle, nTotal + 1, nTodo)
  <2> HIDE DEF m, c
  <2> QED BY <1>2, <1>4, <1>5, <1>6 DEF Counts
<1>8. Truth(queue, m, c, fOk, fAllOk, {t}) /\ fAllOk \in BOOLEAN
  <2> HIDE DEF m, c
  <2> QED BY <1>1, <1>2, MasterFacts, Zenon DEF IInv, Truth
<1>9. /\ Continue(t, pc, nIdle, nTotal + 1, nTodo, fAllOk) /\ Rest /\ VerdictIsExact
      /\ UNCHANGED <<fUnwinding, added, alive, interrupted, nLeaked>>
  BY Zenon DEF EnterLoop, IInv
<1>10. Putdown(t, pc, nIdle, nTotal + 1, nTodo, fAllOk)
  BY <1>1, <1>3, <1>7, <1>8, <1>9, Zenon DEF Putdown
<1> QED BY <1>10, ContinueStep, Zenon

\* A waiter that has the mutex again.
LEMMA ResumeStep ==
    ASSUME IInv, NEW t \in Threads, Resume(t)
    PROVE  IInv'
<1> DEFINE m == [pc EXCEPT ![t] = "ran"]
           c == [batch EXCEPT ![t] = {}]
<1>1. /\ pc \in [Threads -> Places] /\ batch \in [Threads -> SUBSET Checks] /\ pc[t] = "woken"
      /\ batch[t] = {}
  BY Zenon DEF IInv, Shape, Resume, BusyPlaces
<1>2. /\ m \in [Threads -> Places] /\ m[t] = "ran" /\ \A u \in Threads : u # t => m[u] = pc[u]
      /\ c = batch
  BY <1>1, Zenon DEF Places
<1>3. Shape(queue, m, c, {t})
  <2> HIDE DEF m, c
  <2> QED BY <1>1, <1>2, MasterFacts, Zenon DEF IInv, Shape
<1>4. /\ Cardinality(IdleIn(m)) \in Nat /\ Cardinality(CountedIn(m)) \in Nat
      /\ Cardinality(IdleIn(pc)) = Cardinality(IdleIn(m)) + 1
      /\ Cardinality(CountedIn(pc)) = Cardinality(CountedIn(m))
  <2> HIDE DEF m
  <2>1. /\ Cardinality(IdleIn(m)) \in Nat
        /\ Cardinality(CountedIn(m)) \in Nat
        /\ Cardinality(IdleIn(pc)) =
             Cardinality(IdleIn(m)) + (IF pc[t] \in IdlePlaces THEN 1 ELSE 0)
                                    - (IF m[t] \in IdlePlaces THEN 1 ELSE 0)
        /\ Cardinality(CountedIn(pc)) =
             Cardinality(CountedIn(m))
               + (IF pc[t] \in IdlePlaces \cup BusyPlaces THEN 1 ELSE 0)
               - (IF m[t] \in IdlePlaces \cup BusyPlaces THEN 1 ELSE 0)
    BY <1>1, <1>2, OneMoves
  <2> QED BY <2>1, <1>1, <1>2 DEF IdlePlaces, BusyPlaces
<1>5. /\ nLeaked \in Nat
      /\ nTodo = Cardinality(Out(queue, batch))
      /\ nIdle = Cardinality(IdleIn(pc)) + nLeaked
      /\ nTotal = Cardinality(CountedIn(pc)) + nLeaked
  BY Zenon DEF IInv, Rest, Counts
<1>6. Cardinality(Out(queue, batch)) \in Nat
  BY <1>1, OutFinite, Zenon DEF IInv, Shape
<1>7. /\ nIdle - 1 \in Nat /\ nTotal \in Nat /\ nTodo \in Nat
      /\ Counts(queue, m, c, nIdle - 1, nTotal, nTodo)
  <2> HIDE DEF m, c
  <2> QED BY <1>2, <1>4, <1>5, <1>6 DEF Counts
<1>8. Truth(queue, m, c, fOk, fAllOk, {t}) /\ fAllOk \in BOOLEAN
  <2> HIDE DEF m, c
  <2> QED BY <1>1, <1>2, MasterFacts, Zenon DEF IInv, Truth
<1>9. /\ Continue(t, pc, nIdle - 1, nTotal, nTodo, fAllOk) /\ Rest /\ VerdictIsExact
      /\ UNCHANGED <<fUnwinding, added, alive, interrupted, nLeaked>>
  BY Zenon DEF Resume, IInv
<1>10. Putdown(t, pc, nIdle - 1, nTotal, nTodo, fAllOk)
  BY <1>1, <1>3, <1>7, <1>8, <1>9, Zenon DEF Putdown
<1> QED BY <1>10, ContinueStep, Zenon

\* A thread that accounts for the batch it has run.
LEMMA CleanUpStep ==
    ASSUME IInv, NEW t \in Threads, CleanUp(t)
    PROVE  IInv'
<1> DEFINE todo == nTodo - Cardinality(batch[t])
           p == IF todo = 0 /\ t # Master THEN NotifyMaster(pc) ELSE pc
           ok == fAllOk /\ fOk[t]
           m == [p EXCEPT ![t] = "ran"]
           c == [batch EXCEPT ![t] = {}]
<1>1. /\ pc \in [Threads -> Places] /\ batch \in [Threads -> SUBSET Checks] /\ pc[t] = "ran"
      /\ batch[t] # {} /\ queue \in SUBSET Checks
  BY Zenon DEF IInv, Shape, CleanUp, BusyPlaces
<1>2. /\ p \in [Threads -> Places] /\ p[t] = "ran"
      /\ \A u \in Threads : p[u] = pc[u] \/ (u = Master /\ pc[u] = "waiting" /\ p[u] = "woken")
  <2>1. CASE todo = 0 /\ t # Master /\ pc[Master] = "waiting"
    BY <1>1, <2>1, MasterFacts, Zenon DEF NotifyMaster, Places
  <2>2. CASE ~(todo = 0 /\ t # Master /\ pc[Master] = "waiting")
    BY <1>1, <2>2, Zenon DEF NotifyMaster
  <2> QED BY <2>1, <2>2, Zenon
<1>3. /\ m = p
      /\ c \in [Threads -> SUBSET Checks] /\ c[t] = {} /\ \A u \in Threads : u # t => c[u] = batch[u]
  <2> HIDE DEF p
  <2> QED BY <1>1, <1>2, Zenon
<1>4. /\ nLeaked \in Nat
      /\ nTodo = Cardinality(Out(queue, batch))
      /\ nIdle = Cardinality(IdleIn(pc)) + nLeaked
      /\ nTotal = Cardinality(CountedIn(pc)) + nLeaked
  BY Zenon DEF IInv, Rest, Counts
<1>5. /\ Out(queue, batch) = Out(queue, c) \cup batch[t]
      /\ Out(queue, c) \cap batch[t] = {}
  <2> HIDE DEF c
  <2>1. \A u \in Threads : batch[u] \cap queue = {} /\ (u # t => batch[u] \cap batch[t] = {})
    BY Zenon DEF IInv, Shape
  <2>2. Out(queue, batch) = Out(queue, c) \cup batch[t]
    BY <1>3 DEF Out
  <2>3. Out(queue, c) \cap batch[t] = {}
    BY <1>3, <2>1 DEF Out
  <2> QED BY <2>2, <2>3, Zenon
<1>6. /\ todo \in Nat
      /\ todo = Cardinality(Out(queue, c))
  <2> HIDE DEF c
  <2>1. IsFiniteSet(Out(queue, c)) /\ Cardinality(Out(queue, c)) \in Nat
    BY <1>1, <1>3, OutFinite, Zenon
  <2>2. IsFiniteSet(batch[t]) /\ Cardinality(batch[t]) \in Nat
    BY <1>1, FiniteChecks, FS_Subset, FS_CardinalityType, Zenon
  <2>3. Cardinality(Out(queue, batch)) = Cardinality(Out(queue, c)) + Cardinality(batch[t])
    BY <1>5, <2>1, <2>2, FS_Union, FS_EmptySet
  <2> QED BY <1>4, <2>1, <2>2, <2>3
<1>7. Shape(queue, m, c, {t})
  <2> HIDE DEF p, m, c
  <2>1. Shape(queue, pc, batch, {})
    BY Zenon DEF IInv
  <2>2. /\ m \in [Threads -> Places] /\ m[Master] # "stopped"
        /\ \A w \in Workers : m[w] \notin {"outside", "adding", "returned"}
        /\ \A u \in Threads \ {t} : c[u] # {} <=> m[u] \in BusyPlaces
    BY <1>1, <1>2, <1>3, <2>1, MasterFacts DEF Shape, BusyPlaces
  <2>3. /\ \A u \in Threads : c[u] \cap queue = {}
        /\ \A u, v \in Threads : u # v => c[u] \cap c[v] = {}
    BY <1>3, <2>1, Zenon DEF Shape
  <2> QED BY <1>1, <1>3, <2>1, <2>2, <2>3, Zenon DEF Shape
<1>8. IdleIn(m) = IdleIn(pc) /\ CountedIn(m) = CountedIn(pc)
  <2> HIDE DEF p, m, c
  <2> QED BY <1>2, <1>3, Zenon DEF IdleIn, CountedIn, IdlePlaces
<1>9. nIdle \in Nat /\ nTotal \in Nat
  BY <1>1, <1>4, OneMoves
<1>10. Counts(queue, m, c, nIdle, nTotal, todo)
  <2> HIDE DEF p, m, c, todo
  <2> QED BY <1>4, <1>6, <1>8, Zenon DEF Counts
<1>11. Truth(queue, m, c, fOk, ok, {t}) /\ ok \in BOOLEAN
  <2>1. /\ fAllOk \in BOOLEAN /\ fOk \in [Threads -> BOOLEAN]
        /\ Out(queue, batch) \subseteq added
        /\ pc[Master] \notin {"outside", "returned"}
    BY <1>1, <1>5, Zenon DEF IInv, Truth
  <2>2. ok \in BOOLEAN /\ (ok = TRUE => fAllOk = TRUE /\ fOk[t] = TRUE)
                       /\ (ok = FALSE => fAllOk = FALSE \/ fOk[t] = FALSE)
    BY <2>1, Zenon
  <2>3. p[Master] \notin {"outside", "returned"}
    <3> HIDE DEF p
    <3> QED BY <2>1, <1>2, MasterFacts, Zenon
  <2>4. Out(queue, c) \subseteq added
    BY <1>5, <2>1, Zenon
  <2>5. /\ fAllOk = TRUE => added \ Out(queue, batch) \subseteq Good
        /\ fAllOk = FALSE => ~(added \subseteq Good)
        /\ \A u \in Threads :
              /\ pc[u] \in BusyPlaces /\ fOk[u] = FALSE => ~(added \subseteq Good)
              /\ pc[u] = "ran" /\ fOk[u] = TRUE => batch[u] \subseteq Good
    BY <2>1, Zenon DEF IInv, Truth
  <2>6. ok = TRUE => added \ Out(queue, c) \subseteq Good
    <3> HIDE DEF c, ok
    <3> QED BY <1>1, <1>5, <2>2, <2>5, Zenon
  <2>7. ok = FALSE => ~(added \subseteq Good)
    <3> HIDE DEF c, ok
    <3> QED BY <1>1, <2>2, <2>5, Zenon DEF BusyPlaces
  <2>8. \A u \in Threads \ {t} :
              /\ m[u] \in BusyPlaces /\ fOk[u] = FALSE => ~(added \subseteq Good)
              /\ m[u] = "ran" /\ fOk[u] = TRUE => c[u] \subseteq Good
    <3> HIDE DEF c, m, p
    <3> QED BY <1>2, <1>3, <2>5, Zenon DEF BusyPlaces
  <2> HIDE DEF c, m, ok, p
  <2> QED BY <1>3, <2>1, <2>2, <2>3, <2>4, <2>6, <2>7, <2>8, Zenon DEF Truth
<1>12. /\ Continue(t, p, nIdle, nTotal, todo, ok) /\ Rest /\ VerdictIsExact
       /\ UNCHANGED <<fUnwinding, added, alive, interrupted, nLeaked>>
  BY Zenon DEF CleanUp, IInv
<1>13. p[Master] = "returned" => pc[Master] = "returned"
  <2> HIDE DEF p
  <2> QED BY <1>2, MasterFacts, Zenon
<1>14. Putdown(t, p, nIdle, nTotal, todo, ok)
  <2> HIDE DEF p, todo, ok
  <2> QED BY <1>1, <1>2, <1>6, <1>7, <1>9, <1>10, <1>11, <1>12, <1>13, Zenon DEF Putdown
<1> HIDE DEF p, todo, ok
<1> QED BY <1>14, ContinueStep, Zenon

\* A step that leaves the counters, the queue, the batches and the checks of
\* the block alone and moves threads without changing who is idle or busy.
LEMMA MoveStep ==
    ASSUME IInv, pc' \in [Threads -> Places],
           UNCHANGED <<queueVars, batch, fOk, verdict, added, nLeaked>>,
           fUnwinding' \in BOOLEAN, alive' \in BOOLEAN, interrupted' \in SUBSET Threads,
           \A u \in Threads :
              /\ pc'[u] \in IdlePlaces <=> pc[u] \in IdlePlaces
              /\ pc'[u] \in BusyPlaces <=> pc[u] \in BusyPlaces
              /\ pc'[u] = "ran" => pc[u] = "ran",
           pc'[Master] # "stopped",
           \A w \in Workers : pc'[w] \notin {"outside", "adding", "returned"},
           pc'[Master] \in {"outside", "returned"} <=> pc[Master] \in {"outside", "returned"},
           pc'[Master] = "returned" => pc[Master] = "returned"
    PROVE  IInv'
<1> USE DEF queueVars
<1>1. Shape(queue, pc, batch, {})'
  BY Zenon DEF IInv, Shape
<1>2. IdleIn(pc)' = IdleIn(pc) /\ CountedIn(pc)' = CountedIn(pc) /\ Out(queue, batch)' = Out(queue, batch)
  BY Zenon DEF IdleIn, CountedIn, Out
<1>3. Counts(queue, pc, batch, nIdle, nTotal, nTodo)'
  BY <1>2, Zenon DEF IInv, Counts
<1>4. Truth(queue, pc, batch, fOk, fAllOk, {})'
  BY <1>2, Zenon DEF IInv, Truth
<1>5. Rest' /\ VerdictIsExact'
  BY Zenon DEF IInv, Rest, VerdictIsExact
<1> QED BY <1>1, <1>3, <1>4, <1>5, Zenon DEF IInv

LEMMA RunStep ==
    ASSUME IInv, NEW t \in Threads, Run(t)
    PROVE  IInv'
<1> USE DEF queueVars, blockVars
<1>1. /\ pc \in [Threads -> Places] /\ pc[t] = "exec" /\ pc' = [pc EXCEPT ![t] = "ran"]
      /\ fOk' = [fOk EXCEPT ![t] = fOk[t] /\ batch[t] \subseteq Good]
      /\ fOk \in [Threads -> BOOLEAN]
      /\ UNCHANGED <<queueVars, batch, blockVars, interrupted, nLeaked>>
  BY Zenon DEF IInv, Shape, Truth, Run
<1>2. /\ pc' \in [Threads -> Places] /\ pc'[t] = "ran" /\ \A u \in Threads : u # t => pc'[u] = pc[u]
      /\ fOk' \in [Threads -> BOOLEAN] /\ \A u \in Threads : u # t => fOk'[u] = fOk[u]
  BY <1>1, Zenon DEF Places
<1>3. Shape(queue, pc, batch, {})'
  BY <1>1, <1>2, MasterFacts DEF IInv, Shape, BusyPlaces
<1>4. IdleIn(pc)' = IdleIn(pc) /\ CountedIn(pc)' = CountedIn(pc) /\ Out(queue, batch)' = Out(queue, batch)
  BY <1>1, <1>2 DEF IdleIn, CountedIn, Out, IdlePlaces, BusyPlaces
<1>5. Counts(queue, pc, batch, nIdle, nTotal, nTodo)'
  BY <1>1, <1>4, Zenon DEF IInv, Counts
<1>6. Truth(queue, pc, batch, fOk, fAllOk, {})'
  <2>1. /\ fOk'[t] = TRUE => batch[t] \subseteq Good
        /\ fOk'[t] = FALSE => fOk[t] = FALSE \/ ~(batch[t] \subseteq Good)
    BY <1>1, <1>2, Zenon
  <2>2. batch[t] \subseteq added
    BY Zenon DEF IInv, Truth, Out
  <2>3. pc[Master] \notin {"outside", "returned"} /\ pc'[Master] \notin {"outside", "returned"}
    <3>1. batch[t] # {} /\ batch[t] \subseteq Out(queue, batch)
      BY <1>1, Zenon DEF IInv, Shape, BusyPlaces, Out
    <3> QED BY <3>1, <1>1, <1>2, MasterFacts, Zenon DEF IInv, Truth
  <2>4. fOk'[t] = FALSE => ~(added \subseteq Good)
    BY <1>1, <2>1, <2>2, <2>3, Zenon DEF IInv, Truth, BusyPlaces
  <2> QED BY <1>1, <1>2, <1>4, <2>1, <2>3, <2>4, Zenon DEF IInv, Truth, BusyPlaces
<1>7. Rest' /\ VerdictIsExact'
  BY <1>1, <1>2, MasterFacts, Zenon DEF IInv, Rest, VerdictIsExact
<1> QED BY <1>3, <1>5, <1>6, <1>7, Zenon DEF IInv

LEMMA SpuriousWakeStep ==
    ASSUME IInv, NEW t \in Threads, SpuriousWake(t)
    PROVE  IInv'
<1>1. /\ pc' \in [Threads -> Places] /\ pc[t] = "waiting" /\ pc'[t] = "woken"
      /\ \A u \in Threads : u # t => pc'[u] = pc[u]
      /\ UNCHANGED <<queueVars, batch, fOk, verdict, fUnwinding, added, alive, interrupted, nLeaked>>
  BY Zenon DEF IInv, Shape, SpuriousWake, Places, blockVars
<1> QED BY <1>1, MoveStep, MasterFacts, Zenon DEF IInv, Shape, Rest, IdlePlaces, BusyPlaces

LEMMA CallWaitStep ==
    ASSUME IInv, CallWait
    PROVE  IInv'
<1>1. /\ pc' \in [Threads -> Places] /\ pc[Master] = "adding" /\ pc'[Master] = "first"
      /\ \A u \in Threads : u # Master => pc'[u] = pc[u]
      /\ UNCHANGED <<queueVars, batch, fOk, verdict, added, alive, interrupted, nLeaked>>
      /\ fUnwinding' = FALSE
  BY MasterFacts, Zenon DEF IInv, Shape, CallWait, Places
<1> QED BY <1>1, MoveStep, MasterFacts, MasterIsNoWorker, Zenon DEF IInv, Shape, Rest, IdlePlaces, BusyPlaces

LEMMA FailBlockStep ==
    ASSUME IInv, FailBlock
    PROVE  IInv'
<1>1. /\ pc' \in [Threads -> Places] /\ pc[Master] = "adding" /\ pc'[Master] = "first"
      /\ \A u \in Threads : u # Master => pc'[u] = pc[u]
      /\ UNCHANGED <<queueVars, batch, fOk, verdict, added, interrupted, nLeaked>>
      /\ fUnwinding' = TRUE /\ alive' = FALSE
  BY MasterFacts, Zenon DEF IInv, Shape, FailBlock, Places
<1> QED BY <1>1, MoveStep, MasterFacts, MasterIsNoWorker, Zenon DEF IInv, Shape, Rest, IdlePlaces, BusyPlaces

LEMMA EndBlockStep ==
    ASSUME IInv, EndBlock
    PROVE  IInv'
<1>1. /\ pc' \in [Threads -> Places] /\ pc[Master] = "returned" /\ pc'[Master] = "outside"
      /\ \A u \in Threads : u # Master => pc'[u] = pc[u]
      /\ UNCHANGED <<queueVars, batch, fOk, verdict, added, interrupted, nLeaked>>
      /\ fUnwinding' = FALSE /\ alive' = FALSE
  BY MasterFacts, Zenon DEF IInv, Shape, EndBlock, Places
<1> QED BY <1>1, MoveStep, MasterFacts, MasterIsNoWorker, Zenon DEF IInv, Shape, Rest, IdlePlaces, BusyPlaces

LEMMA InterruptWorkerStep ==
    ASSUME IInv, NEW w \in Workers, InterruptWorker(w)
    PROVE  IInv'
<1>1. /\ pc' \in [Threads -> Places] /\ pc[w] \in {"waiting", "woken"} /\ pc'[w] = "stopped"
      /\ \A u \in Threads : u # w => pc'[u] = pc[u]
      /\ UNCHANGED <<queueVars, batch, fOk, verdict, fUnwinding, added, alive, nLeaked>>
      /\ interrupted' \in SUBSET Threads
  BY MasterFacts, Zenon DEF IInv, Shape, Rest, InterruptWorker, Places, blockVars
<1> QED BY <1>1, MoveStep, MasterFacts, MasterIsNoWorker, Zenon DEF IInv, Shape, Rest, IdlePlaces, BusyPlaces

LEMMA BeginBlockStep ==
    ASSUME IInv, BeginBlock
    PROVE  IInv'
<1> USE DEF queueVars
<1>1. /\ pc' \in [Threads -> Places] /\ pc[Master] = "outside" /\ pc'[Master] = "adding"
      /\ \A u \in Threads : u # Master => pc'[u] = pc[u]
      /\ UNCHANGED <<queueVars, batch, fOk, verdict, fUnwinding, interrupted, nLeaked>>
      /\ added' = {} /\ alive' = TRUE
  BY MasterFacts, Zenon DEF IInv, Shape, BeginBlock, Places
<1>2. Shape(queue, pc, batch, {})'
  BY <1>1, MasterFacts, MasterIsNoWorker, Zenon DEF IInv, Shape, BusyPlaces
<1>3. IdleIn(pc)' = IdleIn(pc) /\ CountedIn(pc)' = CountedIn(pc) /\ Out(queue, batch)' = Out(queue, batch)
  BY <1>1, Zenon DEF IdleIn, CountedIn, Out, IdlePlaces, BusyPlaces
<1>4. Counts(queue, pc, batch, nIdle, nTotal, nTodo)'
  BY <1>1, <1>3, Zenon DEF IInv, Counts
<1>5. fAllOk = TRUE /\ Out(queue, batch) = {}
  BY <1>1, Zenon DEF IInv, Truth
<1>6. \A u \in Threads : pc'[u] \notin BusyPlaces
  <2>1. \A u \in Threads : batch[u] = {}
    BY <1>5, Zenon DEF Out
  <2> QED BY <2>1, <1>1, Zenon DEF IInv, Shape, BusyPlaces
<1>7. Truth(queue, pc, batch, fOk, fAllOk, {})'
  BY <1>1, <1>3, <1>5, <1>6, Zenon DEF IInv, Truth, BusyPlaces
<1>8. Rest' /\ VerdictIsExact'
  BY <1>1, Zenon DEF IInv, Rest, VerdictIsExact
<1> QED BY <1>2, <1>4, <1>7, <1>8, Zenon DEF IInv

LEMMA NotifiedSleep ==
    ASSUME NEW n \in Nat, NEW W \in Notified(n)
    PROVE  W \subseteq {w \in Workers : pc[w] = "waiting"}
<1> DEFINE asleep == {w \in Workers : pc[w] = "waiting"}
<1>1. CASE n = 0 \/ asleep = {}
  <2>1. Notified(n) = {{}}
    BY <1>1 DEF Notified
  <2> QED BY <2>1, Zenon
<1>2. CASE n = 1 /\ asleep # {}
  <2>1. Notified(n) = {{w} : w \in asleep}
    BY <1>2 DEF Notified
  <2> QED BY <2>1, Zenon
<1>3. CASE n > 1 /\ asleep # {}
  <2>1. Notified(n) = {asleep}
    BY <1>3 DEF Notified
  <2> QED BY <2>1, Zenon
<1> QED BY <1>1, <1>2, <1>3

LEMMA AddStep ==
    ASSUME IInv, NEW S \in SUBSET Checks, Add(S)
    PROVE  IInv'
<1>1. IsFiniteSet(S) /\ Cardinality(S) \in Nat
  BY FiniteChecks, FS_Subset, FS_CardinalityType, Zenon
<1>2. PICK W \in Notified(Cardinality(S)) :
          pc' = [t \in Threads |-> IF t \in W THEN "woken" ELSE pc[t]]
  BY Zenon DEF Add
<1>3. W \subseteq {w \in Workers : pc[w] = "waiting"}
  BY <1>1, NotifiedSleep, Zenon
<1>4. /\ pc \in [Threads -> Places] /\ batch \in [Threads -> SUBSET Checks] /\ queue \in SUBSET Checks
      /\ Out(queue, batch) \subseteq added
  BY Zenon DEF IInv, Shape, Truth
<1>5. /\ pc' \in [Threads -> Places] /\ pc'[Master] = "adding" /\ pc[Master] = "adding"
      /\ \A u \in Threads : pc'[u] = pc[u] \/ (u \in Workers /\ pc[u] = "waiting" /\ pc'[u] = "woken")
  BY <1>2, <1>3, <1>4, MasterFacts, MasterIsNoWorker, Zenon DEF Add, Places
<1>6. /\ S \cap added = {} /\ queue' = queue \cup S /\ added' = added \cup S
      /\ nTodo' = nTodo + Cardinality(S)
      /\ UNCHANGED <<nIdle, nTotal, fAllOk, batch, fOk, verdict, fUnwinding, alive, interrupted, nLeaked>>
  BY Zenon DEF Add
<1>7. Out(queue, batch)' = Out(queue, batch) \cup S
  BY <1>6, Zenon DEF Out
<1>8. \A u \in Threads : batch[u] \cap S = {}
  BY <1>4, <1>6 DEF Out
<1>9. Shape(queue, pc, batch, {})'
  BY <1>5, <1>6, <1>8, MasterFacts, Zenon DEF IInv, Shape, BusyPlaces
<1>10. IdleIn(pc)' = IdleIn(pc) /\ CountedIn(pc)' = CountedIn(pc)
  BY <1>5, Zenon DEF IdleIn, CountedIn, IdlePlaces
<1>11. Counts(queue, pc, batch, nIdle, nTotal, nTodo)'
  <2>1. IsFiniteSet(Out(queue, batch)) /\ Cardinality(Out(queue, batch)) \in Nat
    BY <1>4, OutFinite, Zenon
  <2>2. Out(queue, batch) \cap S = {}
    BY <1>4, <1>6, Zenon
  <2>3. Cardinality(Out(queue, batch) \cup S) = Cardinality(Out(queue, batch)) + Cardinality(S)
    BY <1>1, <2>1, <2>2, FS_Union, FS_EmptySet
  <2> QED BY <1>6, <1>7, <1>10, <2>3, Zenon DEF IInv, Counts
<1>12. Truth(queue, pc, batch, fOk, fAllOk, {})'
  BY <1>5, <1>6, <1>7, MasterFacts, Zenon DEF IInv, Truth, BusyPlaces
<1>13. Rest' /\ VerdictIsExact'
  BY <1>5, <1>6, Zenon DEF IInv, Rest, VerdictIsExact
<1> QED BY <1>9, <1>11, <1>12, <1>13, Zenon DEF IInv

LEMMA InterruptMasterStep ==
    ASSUME IInv, InterruptMaster
    PROVE  IInv'
<1> USE DEF queueVars
<1>1. /\ pc \in [Threads -> Places] /\ pc' \in [Threads -> Places]
      /\ pc[Master] \in {"waiting", "woken"} /\ pc'[Master] = "first"
      /\ \A u \in Threads : u # Master => pc'[u] = pc[u]
      /\ UNCHANGED <<queueVars, batch, fOk, verdict, added>>
      /\ fUnwinding' = TRUE /\ alive' = FALSE /\ nLeaked' = nLeaked + 1
      /\ interrupted' = interrupted \cup {Master}
  BY MasterFacts, Zenon DEF IInv, Shape, InterruptMaster, Places
<1>2. Shape(queue, pc, batch, {})'
  BY <1>1, MasterFacts, MasterIsNoWorker, Zenon DEF IInv, Shape, BusyPlaces
<1>3. /\ Cardinality(IdleIn(pc')) \in Nat /\ Cardinality(CountedIn(pc')) \in Nat
      /\ Cardinality(IdleIn(pc)) = Cardinality(IdleIn(pc')) + 1
      /\ Cardinality(CountedIn(pc)) = Cardinality(CountedIn(pc')) + 1
  <2>1. /\ Cardinality(IdleIn(pc')) \in Nat
        /\ Cardinality(CountedIn(pc')) \in Nat
        /\ Cardinality(IdleIn(pc)) =
             Cardinality(IdleIn(pc')) + (IF pc[Master] \in IdlePlaces THEN 1 ELSE 0)
                                      - (IF pc'[Master] \in IdlePlaces THEN 1 ELSE 0)
        /\ Cardinality(CountedIn(pc)) =
             Cardinality(CountedIn(pc'))
               + (IF pc[Master] \in IdlePlaces \cup BusyPlaces THEN 1 ELSE 0)
               - (IF pc'[Master] \in IdlePlaces \cup BusyPlaces THEN 1 ELSE 0)
    BY <1>1, OneMoves, MasterFacts, Zenon
  <2> QED BY <2>1, <1>1 DEF IdlePlaces, BusyPlaces
<1>4. Out(queue, batch)' = Out(queue, batch) /\ IdleIn(pc)' = IdleIn(pc') /\ CountedIn(pc)' = CountedIn(pc')
  BY <1>1, Zenon DEF Out, IdleIn, CountedIn
<1>5. Counts(queue, pc, batch, nIdle, nTotal, nTodo)'
  <2>1. /\ nLeaked \in Nat
        /\ nTodo = Cardinality(Out(queue, batch))
        /\ nIdle = Cardinality(IdleIn(pc)) + nLeaked
        /\ nTotal = Cardinality(CountedIn(pc)) + nLeaked
    BY Zenon DEF IInv, Rest, Counts
  <2>2. nIdle = Cardinality(IdleIn(pc')) + nLeaked' /\ nTotal = Cardinality(CountedIn(pc')) + nLeaked'
    BY <1>1, <1>3, <2>1
  <2> QED BY <1>1, <1>4, <2>1, <2>2, Zenon DEF Counts
<1>6. Truth(queue, pc, batch, fOk, fAllOk, {})'
  BY <1>1, <1>4, MasterFacts, Zenon DEF IInv, Truth, BusyPlaces
<1>7. VerdictIsExact'
  BY <1>1, Zenon DEF VerdictIsExact
<1>8. Rest'
  <2>1. Rest
    BY Zenon DEF IInv
  <2>2. nLeaked' \in Nat /\ interrupted' \in SUBSET Threads
    BY <1>1, <2>1, MasterFacts DEF Rest
  <2> QED BY <1>1, <2>1, <2>2, Zenon DEF Rest
<1> QED BY <1>2, <1>5, <1>6, <1>7, <1>8, Zenon DEF IInv
-----------------------------------------------------------------------------
LEMMA Invariance == Spec => []IInv
<1>1. Init => IInv
  BY InitIInv, Zenon
<1>2. IInv /\ [Next]_vars => IInv'
  <2> SUFFICES ASSUME IInv, [Next]_vars PROVE IInv'
    BY Zenon
  <2>1. ASSUME NEW t \in Threads, LoopStep(t) PROVE IInv'
    BY <2>1, EnterLoopStep, ResumeStep, CleanUpStep, RunStep, Zenon DEF LoopStep
  <2>2. ASSUME NEW t \in Threads, SpuriousWake(t) PROVE IInv'
    BY <2>2, SpuriousWakeStep, Zenon
  <2>3. ASSUME NEW S \in SUBSET Checks, Add(S) PROVE IInv'
    BY <2>3, AddStep, Zenon
  <2>4. ASSUME NEW w \in Workers, InterruptWorker(w) PROVE IInv'
    BY <2>4, InterruptWorkerStep, Zenon
  <2>5. CASE UNCHANGED vars
    <3>1. /\ UNCHANGED <<queueVars, batch, fOk, verdict, added, nLeaked>>
          /\ pc' = pc /\ fUnwinding' = fUnwinding /\ alive' = alive /\ interrupted' = interrupted
      BY <2>5, Zenon DEF vars, blockVars
    <3> QED BY <3>1, MoveStep, Zenon DEF IInv, Shape, Rest
  <2> QED BY <2>1, <2>2, <2>3, <2>4, <2>5, BeginBlockStep, CallWaitStep, FailBlockStep,
             EndBlockStep, InterruptMasterStep, Zenon DEF Next
<1> QED BY <1>1, <1>2, PTL DEF Spec

\* The variables of the queue keep their types; in particular the unsigned
\* nTodo and the head counts nIdle and nTotal never go below zero.
THEOREM TypeCorrect == Spec => []TypeOK
<1>1. IInv => TypeOK
  <2> SUFFICES ASSUME IInv PROVE TypeOK
    BY Zenon
  <2>1. /\ Cardinality(Out(queue, batch)) \in Nat
        /\ Cardinality(IdleIn(pc)) \in Nat /\ Cardinality(CountedIn(pc)) \in Nat
    BY OutFinite, OneMoves, MasterFacts, Zenon DEF IInv, Shape
  <2>2. nTodo \in Nat /\ nIdle \in Nat /\ nTotal \in Nat
    BY <2>1 DEF IInv, Counts, Rest
  <2> QED BY <2>2, Zenon DEF IInv, Shape, Truth, Rest, TypeOK, Places
<1> QED BY <1>1, Invariance, PTL

\* The assertion in CCheckQueueControl's constructor never fails.
THEOREM AssertIsIdleHolds == Spec => []ControlFindsQueueIdle
<1>1. IInv => ControlFindsQueueIdle
  <2> SUFFICES ASSUME IInv, pc[Master] = "outside" PROVE IsIdle
    BY Zenon DEF ControlFindsQueueIdle
  <2>1. fAllOk = TRUE /\ Out(queue, batch) = {}
    BY Zenon DEF IInv, Truth
  <2>2. nTodo = 0
    BY <2>1, FS_EmptySet, Zenon DEF IInv, Counts
  <2>3. \A u \in Threads : pc[u] \notin BusyPlaces
    <3>1. \A u \in Threads : batch[u] = {}
      BY <2>1, Zenon DEF Out
    <3> QED BY <3>1, Zenon DEF IInv, Shape
  <2>4. CountedIn(pc) = IdleIn(pc)
    BY <2>3, Zenon DEF CountedIn, IdleIn
  <2>5. nTotal = nIdle
    BY <2>4, Zenon DEF IInv, Counts
  <2> QED BY <2>1, <2>2, <2>5, Zenon DEF IsIdle
<1> QED BY <1>1, Invariance, PTL

\* The verdict of a block is the truth about the checks of that block.
THEOREM VerdictCorrect == Spec => []VerdictIsExact
BY Invariance, PTL DEF IInv

\* Wait and the destructor return only when no check of the block is left.
THEOREM QueueDrained == Spec => []NothingLeftBehind
<1>1. IInv => NothingLeftBehind
  <2> SUFFICES ASSUME IInv, pc[Master] \in {"returned", "outside"}
               PROVE  queue = {} /\ \A t \in Threads : batch[t] = {}
    BY Zenon DEF NothingLeftBehind
  <2>1. Out(queue, batch) = {}
    BY Zenon DEF IInv, Truth
  <2> QED BY <2>1, Zenon DEF Out
<1> QED BY <1>1, Invariance, PTL

\* nTodo is the number of checks queued or in some thread's batch.
THEOREM TodoCorrect == Spec => []TodoIsExact
<1>1. IInv => TodoIsExact
  <2> SUFFICES ASSUME IInv PROVE TodoIsExact
    BY Zenon
  <2>1. /\ queue \in SUBSET Checks /\ InHand \in SUBSET Checks /\ queue \cap InHand = {}
        /\ Out(queue, batch) = queue \cup InHand
    BY DEF IInv, Shape, InHand, Out
  <2>2. /\ IsFiniteSet(queue) /\ IsFiniteSet(InHand)
        /\ Cardinality(queue) \in Nat /\ Cardinality(InHand) \in Nat
    BY <2>1, FiniteChecks, FS_Subset, FS_CardinalityType, Zenon
  <2>3. Cardinality(queue \cup InHand) = Cardinality(queue) + Cardinality(InHand)
    BY <2>1, <2>2, FS_Union, FS_EmptySet
  <2> QED BY <2>1, <2>3, Zenon DEF IInv, Counts, TodoIsExact
<1> QED BY <1>1, Invariance, PTL

Before == {"outside", "adding"}

\* While a block is at work and ConnectBlock is not left early, its data is there.
DataInv ==
    /\ pc[Master] # "outside" /\ ~fUnwinding => alive
    /\ pc[Master] \in Before => ~fUnwinding

LEMMA DataStep ==
    ASSUME IInv, DataInv, [Next]_vars
    PROVE  DataInv'
<1>1. ASSUME UNCHANGED <<alive, fUnwinding>>,
             pc[Master] \in Before \/ pc'[Master] \in Before => pc'[Master] = pc[Master]
      PROVE  DataInv'
  BY <1>1, Zenon DEF DataInv, Before
<1>2. pc \in [Threads -> Places] /\ Master \in Threads
  BY MasterFacts, Zenon DEF IInv, Shape
<1>3. ASSUME NEW t \in Threads, LoopStep(t)
      PROVE  DataInv'
  <2>1. UNCHANGED <<alive, fUnwinding>>
    BY <1>3, Zenon DEF LoopStep, EnterLoop, Resume, CleanUp, Run, blockVars
  <2>2. pc[t] \notin Before
    BY <1>3, Zenon DEF LoopStep, EnterLoop, Resume, CleanUp, Run, Before
  <2>3. \E x \in Places \ Before, p \in {pc, NotifyMaster(pc)} : pc' = [p EXCEPT ![t] = x]
    BY <1>3, Zenon DEF LoopStep, EnterLoop, Resume, CleanUp, Run, Continue, Return, Wait, Take, Places, Before
  <2>4. pc[Master] \in Before \/ pc'[Master] \in Before => pc'[Master] = pc[Master]
    BY <1>2, <2>2, <2>3, Zenon DEF NotifyMaster, Before, Places
  <2> QED BY <1>1, <2>1, <2>4, Zenon
<1>4. ASSUME NEW t \in Threads, SpuriousWake(t)
      PROVE  DataInv'
  BY <1>1, <1>2, <1>4, Zenon DEF SpuriousWake, blockVars, Before
<1>5. ASSUME NEW S \in SUBSET Checks, Add(S)
      PROVE  DataInv'
  <2>1. \E W \in Notified(Cardinality(S)) :
          pc' = [t \in Threads |-> IF t \in W THEN "woken" ELSE pc[t]]
    BY <1>5, Zenon DEF Add
  <2>2. \A W \in Notified(Cardinality(S)) : Master \notin W
    <3>1. Cardinality(S) \in Nat
      BY FiniteChecks, FS_Subset, FS_CardinalityType, Zenon
    <3> QED BY <3>1, MasterIsNoWorker DEF Notified
  <2>3. UNCHANGED <<alive, fUnwinding>> /\ pc'[Master] = pc[Master]
    BY <1>2, <1>5, <2>1, <2>2, Zenon DEF Add
  <2> QED BY <1>1, <2>3, Zenon
<1>6. ASSUME NEW w \in Workers, InterruptWorker(w)
      PROVE  DataInv'
  BY <1>1, <1>2, <1>6, MasterIsNoWorker, Zenon DEF InterruptWorker, blockVars
<1>7. CASE BeginBlock \/ FailBlock \/ InterruptMaster \/ EndBlock
  BY <1>2, <1>7 DEF BeginBlock, FailBlock, InterruptMaster, EndBlock, DataInv, Before
<1>8. CASE CallWait
  BY <1>2, <1>8, Zenon DEF CallWait, DataInv, Before
<1>9. CASE UNCHANGED vars
  BY <1>1, <1>9, Zenon DEF vars, blockVars
<1> QED BY <1>3, <1>4, <1>5, <1>6, <1>7, <1>8, <1>9, Zenon DEF Next

\* The precomputed data of a block is there as long as its checks run, for any
\* number of workers and checks, unless ConnectBlock is left early.
THEOREM DataOutlivesChecks == Spec => []ChecksHaveTheirData
<1>1. Init => DataInv
  BY MasterFacts, Zenon DEF Init, DataInv
<1>2. IInv /\ DataInv => ChecksHaveTheirData
  <2> SUFFICES ASSUME IInv, DataInv, NEW t \in Threads, pc[t] = "exec", batch[t] # {}
               PROVE  alive \/ fUnwinding
    BY Zenon DEF ChecksHaveTheirData
  <2>1. Out(queue, batch) # {}
    BY Zenon DEF Out
  <2>2. pc[Master] # "outside"
    BY <2>1, Zenon DEF IInv, Truth
  <2> QED BY <2>2, Zenon DEF DataInv, IInv, Rest
<1>3. IInv /\ DataInv /\ [Next]_vars => DataInv'
  BY DataStep, Zenon
<1> QED BY <1>1, <1>2, <1>3, Invariance, PTL DEF Spec

-----------------------------------------------------------------------------
(* The coin caches never lose, invent or resurrect a coin of an outpoint   *)
(* that was not created over an unspent coin.                              *)

\* An empty slot carries nothing, and no scratch view is left over between
\* blocks.
SlotsInv ==
    /\ \A o \in Outpoints :
          /\ ~tip[o].have => tip[o] = NoEntry
          /\ ~view[o].have => view[o] = NoEntry
    /\ ~open => view = EmptyCache /\ viewBest = NoBlock

\* The inductive invariant: neither flag can be trusted without the other.
CoinsInv == CoinsTypeOK /\ SlotsInv /\ FreshIsSound /\ CleanIsCopy

\* Every slot operation returns a slot.
LEMMA SlotTypes ==
    ASSUME NEW e \in Entry, NEW p \in Entry, NEW b \in BOOLEAN, NEW k \in Coins,
           NEW c \in SpendableCoins
    PROVE  /\ NoEntry \in Entry
           /\ Fetched(e, b, k) \in Entry
           /\ Added(e, c) \in Entry
           /\ SpentEntry(e) \in Entry
           /\ BatchWritten(e, p) \in Entry
           /\ DbWritten(e, k) \in Coins
           /\ Uncached(e) \in Entry
<1>1. NoEntry \in Entry BY Zenon DEF NoEntry, Entry, Coins
<1>2. Fetched(e, b, k) \in Entry BY Zenon DEF Fetched, Entry, Coins
<1>3. Added(e, c) \in Entry BY Zenon DEF Added, Entry, Coins
<1>4. SpentEntry(e) \in Entry BY <1>1, Zenon DEF SpentEntry, Entry, Coins
<1>5. BatchWritten(e, p) \in Entry BY <1>1, Zenon DEF BatchWritten, Entry, Coins
<1>6. DbWritten(e, k) \in Coins BY Zenon DEF DbWritten, Entry
<1>7. Uncached(e) \in Entry BY <1>1, Zenon DEF Uncached
<1> QED BY <1>1, <1>2, <1>3, <1>4, <1>5, <1>6, <1>7, Zenon

\* Looking a coin up through the scratch view leaves slots that satisfy the
\* invariant and changes no answer of either cache.
LEMMA FetchIsInvisible ==
    ASSUME CoinsInv, NEW o \in Outpoints
    PROVE  /\ TipFetched(o) \in Entry
           /\ ViewFetched(o) \in Entry
           /\ TipFetched(o).have => TipFetched(o).coin = TipCoin(o)
           /\ ~TipFetched(o).have => TipFetched(o) = NoEntry /\ TipCoin(o) = Spent /\ db[o] = Spent
           /\ ViewFetched(o).have => ViewFetched(o).coin = ViewCoin(o)
           /\ ~ViewFetched(o).have => ViewFetched(o) = NoEntry /\ ViewCoin(o) = Spent /\ TipCoin(o) = Spent
           /\ o \notin overwritten /\ TipFetched(o).fresh => db[o] = Spent
           /\ TipFetched(o).have /\ ~TipFetched(o).dirty => TipFetched(o).coin = db[o]
           /\ o \notin overwritten /\ ViewFetched(o).fresh => TipCoin(o) = Spent
           /\ ViewFetched(o).have /\ ~ViewFetched(o).dirty => ViewFetched(o).coin = TipCoin(o)
<1>1. tip[o] \in Entry /\ view[o] \in Entry /\ db[o] \in Coins
  BY Zenon DEF CoinsInv, CoinsTypeOK
<1>2. TipFetched(o) \in Entry
  BY <1>1, SlotTypes DEF TipFetched, Fetched, Entry, Coins
<1>3. ViewFetched(o) \in Entry
  BY <1>1, <1>2, SlotTypes DEF ViewFetched, Fetched, Entry, Coins
<1>4. /\ TipFetched(o).have => TipFetched(o).coin = TipCoin(o)
      /\ ~TipFetched(o).have => TipFetched(o) = NoEntry /\ TipCoin(o) = Spent /\ db[o] = Spent
      /\ o \notin overwritten /\ TipFetched(o).fresh => db[o] = Spent
      /\ TipFetched(o).have /\ ~TipFetched(o).dirty => TipFetched(o).coin = db[o]
  BY <1>1, Zenon DEF CoinsInv, SlotsInv, FreshIsSound, CleanIsCopy, TipFetched, Fetched, TipCoin, Entry, NoEntry
<1>5. /\ ViewFetched(o).have => ViewFetched(o).coin = ViewCoin(o)
      /\ ~ViewFetched(o).have => ViewFetched(o) = NoEntry /\ ViewCoin(o) = Spent /\ TipCoin(o) = Spent
      /\ o \notin overwritten /\ ViewFetched(o).fresh => TipCoin(o) = Spent
      /\ ViewFetched(o).have /\ ~ViewFetched(o).dirty => ViewFetched(o).coin = TipCoin(o)
  BY <1>1, <1>2, <1>4, Zenon DEF CoinsInv, SlotsInv, FreshIsSound, CleanIsCopy, ViewFetched, Fetched, ViewCoin, Entry, NoEntry
<1> QED BY <1>2, <1>3, <1>4, <1>5, Zenon

LEMMA CoinsInitInv == CoinsInit => CoinsInv
<1> SUFFICES ASSUME CoinsInit PROVE CoinsInv BY Zenon
<1>1. NoEntry \in Entry BY Zenon DEF NoEntry, Entry, Coins
<1>2. \A o \in Outpoints : tip[o] = NoEntry /\ view[o] = NoEntry /\ db[o] = Spent
  BY Zenon DEF CoinsInit, EmptyCache
<1>3. CoinsTypeOK BY <1>1, Zenon DEF CoinsInit, CoinsTypeOK, EmptyCache, Coins
<1>4. SlotsInv BY <1>2, Zenon DEF CoinsInit, SlotsInv
<1>5. FreshIsSound /\ CleanIsCopy
  BY <1>2 DEF FreshIsSound, CleanIsCopy, NoEntry
<1> QED BY <1>3, <1>4, <1>5, Zenon DEF CoinsInv

\* A step that changes one slot of the scratch view, and pcoinsTip only by
\* the look-up, keeps the invariant if the new slot does.
LEMMA OneViewSlot ==
    ASSUME CoinsInv, NEW o \in Outpoints, NEW e \in Entry,
           PulledThroughTip(o),
           view' = [view EXCEPT ![o] = e],
           UNCHANGED <<db, dbBest, tipBest, open, viewBest, overwritten>>,
           open,
           ~e.have => e = NoEntry,
           o \notin overwritten /\ e.fresh => TipCoin(o) = Spent,
           e.have /\ ~e.dirty => e.coin = TipCoin(o)
    PROVE  /\ CoinsInv'
           /\ \A p \in Outpoints : TipCoin(p)' = TipCoin(p)
<1>1. /\ tip \in [Outpoints -> Entry] /\ view \in [Outpoints -> Entry]
      /\ db \in [Outpoints -> Coins]
  BY Zenon DEF CoinsInv, CoinsTypeOK
<1>2. TipFetched(o) \in Entry
  BY FetchIsInvisible, Zenon
<1>3. tip' \in [Outpoints -> Entry] /\ view' \in [Outpoints -> Entry]
  BY <1>1, <1>2, Zenon DEF PulledThroughTip
<1>4. \A p \in Outpoints : tip'[p] = IF p = o /\ ~view[o].have THEN TipFetched(o) ELSE tip[p]
  BY <1>1, Zenon DEF PulledThroughTip
<1>5. \A p \in Outpoints : view'[p] = IF p = o THEN e ELSE view[p]
  BY <1>1, Zenon
<1>6. \A p \in Outpoints : TipCoin(p)' = TipCoin(p)
  BY <1>4, FetchIsInvisible DEF TipCoin, NoEntry
<1>7. CoinsTypeOK'
  BY <1>3, Zenon DEF CoinsInv, CoinsTypeOK
<1>8. SlotsInv'
  BY <1>4, <1>5, FetchIsInvisible DEF CoinsInv, SlotsInv
<1>9. FreshIsSound'
  BY <1>4, <1>5, <1>6, FetchIsInvisible DEF CoinsInv, FreshIsSound
<1>10. CleanIsCopy'
  BY <1>4, <1>5, <1>6, FetchIsInvisible DEF CoinsInv, CleanIsCopy
<1> QED BY <1>6, <1>7, <1>8, <1>9, <1>10, Zenon DEF CoinsInv

\* Dropping the scratch view keeps the invariant.
LEMMA DroppedView ==
    ASSUME CoinsInv,
           (\E o \in Outpoints : PulledThroughTip(o)) \/ UNCHANGED tip,
           Thrown, UNCHANGED <<db, dbBest, tipBest, overwritten>>
    PROVE  /\ CoinsInv'
           /\ \A p \in Outpoints : TipCoin(p)' = TipCoin(p)
<1>1. /\ tip \in [Outpoints -> Entry] /\ db \in [Outpoints -> Coins]
  BY Zenon DEF CoinsInv, CoinsTypeOK
<1>2. (\A o \in Outpoints : TipFetched(o) \in Entry) /\ NoEntry \in Entry
  BY FetchIsInvisible, Zenon DEF NoEntry, Entry, Coins
<1>3. tip' \in [Outpoints -> Entry] /\ view' \in [Outpoints -> Entry]
  BY <1>1, <1>2, Zenon DEF PulledThroughTip, Thrown, EmptyCache
<1>4. \A p \in Outpoints : tip'[p] = tip[p] \/ tip'[p] = TipFetched(p)
  BY <1>1, Zenon DEF PulledThroughTip
<1>5. \A p \in Outpoints : view'[p] = NoEntry
  BY Zenon DEF Thrown, EmptyCache
<1>6. \A p \in Outpoints : TipCoin(p)' = TipCoin(p)
  BY <1>4, FetchIsInvisible DEF TipCoin, NoEntry
<1>7. CoinsTypeOK'
  BY <1>3, Zenon DEF CoinsInv, CoinsTypeOK, Thrown
<1>8. SlotsInv'
  BY <1>4, <1>5, FetchIsInvisible, Zenon DEF CoinsInv, SlotsInv, Thrown
<1>9. FreshIsSound'
  BY <1>4, <1>5, <1>6, FetchIsInvisible DEF CoinsInv, FreshIsSound, NoEntry
<1>10. CleanIsCopy'
  BY <1>4, <1>5, <1>6, FetchIsInvisible DEF CoinsInv, CleanIsCopy, NoEntry
<1> QED BY <1>6, <1>7, <1>8, <1>9, <1>10, Zenon DEF CoinsInv

\* Writing the scratch view into pcoinsTip makes every answer of pcoinsTip
\* the answer the view gave, with flags that can be trusted again.
LEMMA BatchWriteSlot ==
    ASSUME CoinsInv, NEW o \in Outpoints
    PROVE  LET r == BatchWritten(view[o], tip[o])
           IN  /\ r \in Entry
               /\ ~r.have => r = NoEntry
               /\ o \notin overwritten =>
                     /\ (IF r.have THEN r.coin ELSE db[o]) = ViewCoin(o)
                     /\ r.fresh => db[o] = Spent
               /\ r.have /\ ~r.dirty => r.coin = db[o]
<1>1. tip[o] \in Entry /\ view[o] \in Entry /\ db[o] \in Coins
  BY Zenon DEF CoinsInv, CoinsTypeOK
<1>2. /\ ~tip[o].have => tip[o] = NoEntry
      /\ ~view[o].have => view[o] = NoEntry
      /\ o \notin overwritten =>
            /\ tip[o].fresh => db[o] = Spent
            /\ view[o].fresh => TipCoin(o) = Spent
      /\ tip[o].have /\ ~tip[o].dirty => tip[o].coin = db[o]
      /\ view[o].have /\ ~view[o].dirty => view[o].coin = TipCoin(o)
  BY Zenon DEF CoinsInv, SlotsInv, FreshIsSound, CleanIsCopy
<1> DEFINE r == BatchWritten(view[o], tip[o])
<1>3. CASE ~view[o].dirty
  <2>1. r = tip[o] BY <1>3, Zenon DEF BatchWritten
  <2> QED BY <1>1, <1>2, <1>3, <2>1, Zenon DEF ViewCoin, TipCoin
<1>4. CASE view[o].dirty /\ ~tip[o].have /\ view[o].fresh /\ view[o].coin = Spent
  <2>1. r = tip[o] BY <1>4, Zenon DEF BatchWritten
  <2> QED BY <1>1, <1>2, <1>4, <2>1, Zenon DEF ViewCoin, TipCoin, NoEntry
<1>5. CASE view[o].dirty /\ ~tip[o].have /\ ~(view[o].fresh /\ view[o].coin = Spent)
  <2>1. r = [have |-> TRUE, coin |-> view[o].coin, dirty |-> TRUE, fresh |-> view[o].fresh]
    BY <1>5, Zenon DEF BatchWritten
  <2>2. r \in Entry BY <1>1, <2>1 DEF Entry
  <2>3. r.have /\ r.coin = view[o].coin /\ r.dirty /\ r.fresh = view[o].fresh BY <2>1
  <2>4. view[o].have BY <1>2, <1>5 DEF NoEntry
  <2> QED BY <1>2, <1>5, <2>2, <2>3, <2>4, Zenon DEF ViewCoin, TipCoin
<1>6. CASE view[o].dirty /\ tip[o].have /\ tip[o].fresh /\ view[o].coin = Spent
  <2>1. r = NoEntry BY <1>6, Zenon DEF BatchWritten
  <2>2. view[o].have BY <1>2, <1>6 DEF NoEntry
  <2> QED BY <1>1, <1>2, <1>6, <2>1, <2>2 DEF ViewCoin, TipCoin, NoEntry, Entry, Coins
<1>7. CASE view[o].dirty /\ tip[o].have /\ ~(tip[o].fresh /\ view[o].coin = Spent)
  <2>1. r = [tip[o] EXCEPT !.coin = view[o].coin, !.dirty = TRUE]
    BY <1>7, Zenon DEF BatchWritten
  <2>2. r \in Entry /\ r.have /\ r.coin = view[o].coin /\ r.dirty /\ r.fresh = tip[o].fresh
    BY <1>1, <1>7, <2>1, Zenon DEF Entry
  <2>3. view[o].have BY <1>2, <1>7 DEF NoEntry
  <2> QED BY <1>2, <1>7, <2>2, <2>3, Zenon DEF ViewCoin, TipCoin
<1> QED BY <1>1, <1>3, <1>4, <1>5, <1>6, <1>7, Zenon DEF Entry
-----------------------------------------------------------------------------
(* One lemma per operation: it keeps the invariant and is a step of the    *)
(* plain coin set, or no step at all.                                      *)

\* A step is invisible when it changes no answer of any view.
LEMMA Invisible ==
    ASSUME UNCHANGED <<db, dbBest, open, overwritten>>,
           TipBestBlock' = TipBestBlock, ViewBestBlock' = ViewBestBlock,
           \A p \in Outpoints \ overwritten : TipCoin(p)' = TipCoin(p) /\ ViewCoin(p)' = ViewCoin(p)
    PROVE  UNCHANGED Set!vars
BY Zenon DEF Set!vars

LEMMA OpenViewStep ==
    ASSUME CoinsInv, OpenView
    PROVE  CoinsInv' /\ Set!Begin
<1>1. NoEntry \in Entry BY Zenon DEF NoEntry, Entry, Coins
<1>2. \A p \in Outpoints : view'[p] = NoEntry BY Zenon DEF OpenView, EmptyCache
<1>3. \A p \in Outpoints : TipCoin(p)' = TipCoin(p) /\ ViewCoin(p)' = TipCoin(p)
  BY <1>2 DEF OpenView, TipCoin, ViewCoin, NoEntry
<1>4. CoinsTypeOK' BY <1>1, Zenon DEF CoinsInv, CoinsTypeOK, OpenView, EmptyCache
<1>5. SlotsInv' BY <1>2, Zenon DEF CoinsInv, SlotsInv, OpenView
<1>6. FreshIsSound' /\ CleanIsCopy'
  BY <1>2, <1>3 DEF CoinsInv, FreshIsSound, CleanIsCopy, OpenView, NoEntry
<1>7. Set!Begin
  BY <1>3, Zenon DEF Set!Begin, OpenView, TipBestBlock, ViewBestBlock
<1> QED BY <1>4, <1>5, <1>6, <1>7, Zenon DEF CoinsInv

LEMMA GetBestBlockStep ==
    ASSUME CoinsInv, GetBestBlock
    PROVE  CoinsInv' /\ UNCHANGED Set!vars
<1>1. CoinsInv'
  BY Zenon DEF CoinsInv, CoinsTypeOK, SlotsInv, FreshIsSound, CleanIsCopy, GetBestBlock, TipCoin,
         TipBestBlock, ViewBestBlock
<1>2. TipBestBlock' = TipBestBlock /\ ViewBestBlock' = ViewBestBlock
  BY Zenon DEF GetBestBlock, TipBestBlock, ViewBestBlock
<1>3. \A p \in Outpoints : TipCoin(p)' = TipCoin(p) /\ ViewCoin(p)' = ViewCoin(p)
  BY Zenon DEF GetBestBlock, TipCoin, ViewCoin
<1> QED BY <1>1, <1>2, <1>3, Invisible, Zenon DEF GetBestBlock

LEMMA ViewFetchStep ==
    ASSUME CoinsInv, NEW o \in Outpoints, ViewFetch(o)
    PROVE  CoinsInv' /\ UNCHANGED Set!vars
<1> DEFINE e == ViewFetched(o)
<1>1. e \in Entry /\ (~e.have => e = NoEntry) BY FetchIsInvisible, Zenon
<1>2. o \notin overwritten /\ e.fresh => TipCoin(o) = Spent BY FetchIsInvisible, Zenon
<1>3. e.have /\ ~e.dirty => e.coin = TipCoin(o) BY FetchIsInvisible, Zenon
<1>4. CoinsInv' /\ \A p \in Outpoints : TipCoin(p)' = TipCoin(p)
  BY <1>1, <1>2, <1>3, OneViewSlot, Zenon DEF ViewFetch
<1>5. view \in [Outpoints -> Entry] BY Zenon DEF CoinsInv, CoinsTypeOK
<1>6. \A p \in Outpoints : ViewCoin(p)' = ViewCoin(p)
  BY <1>4, <1>5, FetchIsInvisible, Zenon DEF ViewFetch, ViewCoin
<1>7. TipBestBlock' = TipBestBlock /\ ViewBestBlock' = ViewBestBlock
  BY Zenon DEF ViewFetch, TipBestBlock, ViewBestBlock
<1> QED BY <1>4, <1>6, <1>7, Invisible, Zenon DEF ViewFetch

LEMMA SpendCoinStep ==
    ASSUME CoinsInv, NEW o \in Outpoints, SpendCoin(o)
    PROVE  CoinsInv' /\ ((o \notin overwritten /\ Set!Spend(o)) \/ UNCHANGED Set!vars)
<1> DEFINE f == ViewFetched(o)
           e == SpentEntry(f)
<1>1. f \in Entry BY FetchIsInvisible, Zenon
<1>2. e \in Entry /\ (~e.have => e = NoEntry)
  BY <1>1, SlotTypes, Zenon DEF SpentEntry, NoEntry, Entry, Coins
<1>3. /\ o \notin overwritten /\ e.fresh => TipCoin(o) = Spent
      /\ e.have /\ ~e.dirty => e.coin = TipCoin(o)
      /\ e.have => e.coin = Spent
      /\ o \notin overwritten /\ ~e.have => TipCoin(o) = Spent
  BY <1>1, FetchIsInvisible, Zenon DEF SpentEntry, NoEntry, Entry
<1>4. CoinsInv' /\ \A p \in Outpoints : TipCoin(p)' = TipCoin(p)
  BY <1>2, <1>3, OneViewSlot, Zenon DEF SpendCoin
<1>5. view \in [Outpoints -> Entry] BY Zenon DEF CoinsInv, CoinsTypeOK
<1>6. \A p \in Outpoints \ overwritten : ViewCoin(p)' = IF p = o THEN Spent ELSE ViewCoin(p)
  BY <1>3, <1>4, <1>5, Zenon DEF SpendCoin, ViewCoin
<1>7. CASE o \notin overwritten
  <2>1. Set!Spend(o)
    BY <1>4, <1>6, <1>7, Zenon DEF Set!Spend, Set!Change, SpendCoin, TipBestBlock, ViewBestBlock
  <2> QED BY <1>4, <1>7, <2>1, Zenon
<1>8. CASE o \in overwritten
  <2>1. \A p \in Outpoints \ overwritten : TipCoin(p)' = TipCoin(p) /\ ViewCoin(p)' = ViewCoin(p)
    BY <1>4, <1>6, <1>8, Zenon
  <2>2. UNCHANGED Set!vars
    BY <2>1, Invisible, Zenon DEF SpendCoin, TipBestBlock, ViewBestBlock
  <2> QED BY <1>4, <2>2, Zenon
<1> QED BY <1>7, <1>8, Zenon

\* Adding a coin to a slot whose parent answers k.
LEMMA AddedSlot ==
    ASSUME NEW e \in Entry, NEW c \in SpendableCoins, NEW k \in Coins, NEW kept \in BOOLEAN,
           kept /\ e.fresh => k = Spent,
           kept /\ ~e.dirty => k = Spent
    PROVE  LET r == Added(e, c)
           IN  r \in Entry /\ r.have /\ r.dirty /\ r.coin = c /\ (kept /\ r.fresh => k = Spent)
BY Zenon DEF Added, Entry, Coins

\* The abstract step of dropping the view.
LEMMA DroppedIsAbort ==
    ASSUME open, Thrown, UNCHANGED <<db, dbBest, tipBest, overwritten>>,
           \A p \in Outpoints : TipCoin(p)' = TipCoin(p)
    PROVE  Set!Abort
<1>1. \A p \in Outpoints : view'[p] = NoEntry BY Zenon DEF Thrown, EmptyCache
<1>2. \A p \in Outpoints : ViewCoin(p)' = TipCoin(p) BY <1>1 DEF ViewCoin, NoEntry
<1> QED BY <1>2, Zenon DEF Set!Abort, Thrown, TipBestBlock, ViewBestBlock

\* AddCoin keeps a coin that is not there, and gives one up that is.
LEMMA AddCoinStep ==
    ASSUME CoinsInv, NEW o \in Outpoints,
           NEW c \in SpendableCoins \cup UnspendableCoins, AddCoin(o, c)
    PROVE  CoinsInv' /\ [Set!Next]_(Set!vars)
<1>1. view \in [Outpoints -> Entry] /\ view[o] \in Entry /\ TipCoin(o) \in Coins
  BY Zenon DEF CoinsInv, CoinsTypeOK, TipCoin, Entry
<1>2. CASE IsUnspendable(c)
  <2>1. UNCHANGED coinsVars BY <1>2, Zenon DEF AddCoin, coinsVars
  <2>2. CoinsInv'
    BY <2>1, Zenon DEF CoinsInv, CoinsTypeOK, SlotsInv, FreshIsSound, CleanIsCopy, coinsVars, TipCoin
  <2>3. UNCHANGED Set!vars
    BY <2>1, Zenon DEF coinsVars, Set!vars, TipCoin, ViewCoin, TipBestBlock, ViewBestBlock
  <2> QED BY <2>2, <2>3, Zenon
<1>3. CASE ~IsUnspendable(c) /\ view[o].coin # Spent
  <2>1. open /\ Thrown /\ UNCHANGED <<db, dbBest, tip, tipBest, overwritten>>
    BY <1>3, Zenon DEF AddCoin
  <2>2. CoinsInv' /\ \A p \in Outpoints : TipCoin(p)' = TipCoin(p)
    BY <2>1, DroppedView, Zenon
  <2> QED BY <2>1, <2>2, DroppedIsAbort, Zenon DEF Set!Next
<1>4. CASE ~IsUnspendable(c) /\ view[o].coin = Spent
  <2>1. c \in SpendableCoins BY <1>4, Zenon DEF IsUnspendable
  <2>2. /\ open
        /\ view' = [view EXCEPT ![o] = Added(view[o], c)]
        /\ UNCHANGED <<db, dbBest, tip, tipBest, open, viewBest>>
        /\ overwritten' = IF ViewCoin(o) = Spent THEN overwritten ELSE overwritten \cup {o}
    BY <1>4, Zenon DEF AddCoin
  <2> DEFINE kept == o \notin overwritten'
  <2>3. /\ kept => o \notin overwritten /\ ViewCoin(o) = Spent
        /\ \A p \in Outpoints : p \notin overwritten' => p \notin overwritten
        /\ \A p \in Outpoints : p # o => (p \in overwritten' <=> p \in overwritten)
        /\ overwritten' \subseteq Outpoints
    BY <2>2, Zenon DEF CoinsInv, CoinsTypeOK
  <2>4. kept /\ view[o].fresh => TipCoin(o) = Spent
    BY <2>3, Zenon DEF CoinsInv, FreshIsSound
  <2>5. kept /\ ~view[o].dirty => TipCoin(o) = Spent
    BY <2>3, Zenon DEF CoinsInv, CleanIsCopy, ViewCoin
  <2> DEFINE e == Added(view[o], c)
  <2>6. kept \in BOOLEAN BY Zenon
  <2> HIDE DEF kept
  <2>7. e \in Entry /\ e.have /\ e.dirty /\ e.coin = c /\ (kept /\ e.fresh => TipCoin(o) = Spent)
    BY <1>1, <2>1, <2>4, <2>5, <2>6, AddedSlot, Zenon
  <2> HIDE DEF e
  <2>8. \A p \in Outpoints : view'[p] = IF p = o THEN e ELSE view[p]
    BY <1>1, <2>2, Zenon DEF e
  <2>9. view' \in [Outpoints -> Entry] BY <1>1, <2>2, <2>7, Zenon DEF e
  <2>10. \A p \in Outpoints : TipCoin(p)' = TipCoin(p) BY <2>2, Zenon DEF TipCoin
  <2>11. \A p \in Outpoints : ViewCoin(p)' = IF p = o THEN c ELSE ViewCoin(p)
    BY <2>7, <2>8, <2>10, Zenon DEF ViewCoin
  <2>12. CoinsTypeOK' BY <2>2, <2>3, <2>9, Zenon DEF CoinsInv, CoinsTypeOK
  <2>13. SlotsInv' BY <2>2, <2>7, <2>8, Zenon DEF CoinsInv, SlotsInv
  <2>14. FreshIsSound'
    <3> SUFFICES ASSUME NEW p \in Outpoints, p \notin overwritten'
                 PROVE  /\ tip[p].fresh => db[p] = Spent
                        /\ view'[p].fresh => TipCoin(p) = Spent
      BY <2>2, <2>10, Zenon DEF FreshIsSound
    <3>1. CASE p = o BY <3>1, <2>3, <2>7, <2>8, Zenon DEF CoinsInv, FreshIsSound, kept
    <3>2. CASE p # o BY <3>2, <2>3, <2>8, Zenon DEF CoinsInv, FreshIsSound
    <3> QED BY <3>1, <3>2, Zenon
  <2>15. CleanIsCopy'
    <3> SUFFICES ASSUME NEW p \in Outpoints
                 PROVE  /\ tip[p].have /\ ~tip[p].dirty => tip[p].coin = db[p]
                        /\ view'[p].have /\ ~view'[p].dirty => view'[p].coin = TipCoin(p)
      BY <2>2, <2>10, Zenon DEF CleanIsCopy
    <3>1. CASE p = o BY <3>1, <2>7, <2>8, Zenon DEF CoinsInv, CleanIsCopy
    <3>2. CASE p # o BY <3>2, <2>8, Zenon DEF CoinsInv, CleanIsCopy
    <3> QED BY <3>1, <3>2, Zenon
  <2>16. CASE o \notin overwritten /\ ViewCoin(o) = Spent
    <3>1. Set!Add(o, c)
      BY <2>2, <2>10, <2>11, <2>16, Zenon
         DEF Set!Add, Set!Change, TipBestBlock, ViewBestBlock
    <3>2. o \in DOMAIN [p \in Outpoints \ overwritten |-> ViewCoin(p)] BY <2>16, Zenon
    <3> QED BY <2>1, <2>12, <2>13, <2>14, <2>15, <3>1, <3>2, Zenon DEF CoinsInv, Set!Next
  <2>17. CASE o \notin overwritten /\ ViewCoin(o) # Spent
    <3>1. overwritten' = overwritten \cup {o} BY <2>2, <2>17, Zenon
    <3>2. Outpoints \ overwritten' = (Outpoints \ overwritten) \ {o} BY <3>1, Zenon
    <3>3. Set!Overwrite(o)
      BY <2>2, <2>10, <2>11, <2>17, <3>2, Zenon
         DEF Set!Overwrite, Set!Without, TipBestBlock, ViewBestBlock
    <3>4. o \in DOMAIN [p \in Outpoints \ overwritten |-> ViewCoin(p)] BY <2>17, Zenon
    <3> QED BY <2>12, <2>13, <2>14, <2>15, <3>3, <3>4, Zenon DEF CoinsInv, Set!Next
  <2>18. CASE o \in overwritten
    <3>1. overwritten' = overwritten BY <2>2, <2>18, Zenon
    <3>2. \A p \in Outpoints \ overwritten : TipCoin(p)' = TipCoin(p) /\ ViewCoin(p)' = ViewCoin(p)
      BY <2>10, <2>11, <2>18, Zenon
    <3>3. UNCHANGED Set!vars
      BY <2>2, <3>1, <3>2, Invisible, Zenon DEF TipBestBlock, ViewBestBlock
    <3> QED BY <2>12, <2>13, <2>14, <2>15, <3>3, Zenon DEF CoinsInv
  <2> QED BY <2>16, <2>17, <2>18, Zenon
<1> QED BY <1>2, <1>3, <1>4, Zenon

\* ApplyTxInUndo looks up first, and so never gives a coin up.
LEMMA ApplyTxInUndoStep ==
    ASSUME CoinsInv, NEW o \in Outpoints, NEW c \in SpendableCoins, ApplyTxInUndo(o, c)
    PROVE  /\ CoinsInv'
           /\ \/ o \notin overwritten /\ Set!Add(o, c)
              \/ Set!Abort
              \/ UNCHANGED Set!vars
<1> DEFINE f == ViewFetched(o)
           kept == o \notin overwritten
<1>1. f \in Entry /\ TipCoin(o) \in Coins
  BY FetchIsInvisible, Zenon DEF CoinsInv, CoinsTypeOK, TipCoin, Entry
<1>2. CASE f.coin # Spent
  <2>1. Thrown BY <1>2, Zenon DEF ApplyTxInUndo
  <2>2. CoinsInv' /\ \A p \in Outpoints : TipCoin(p)' = TipCoin(p)
    BY <2>1, DroppedView, Zenon DEF ApplyTxInUndo
  <2> QED BY <2>1, <2>2, DroppedIsAbort, Zenon DEF ApplyTxInUndo
<1>3. CASE f.coin = Spent
  <2>1. ViewCoin(o) = Spent BY <1>3, FetchIsInvisible, Zenon
  <2>2. (kept /\ f.fresh => TipCoin(o) = Spent) /\ (kept /\ ~f.dirty => TipCoin(o) = Spent)
    BY <1>3, FetchIsInvisible, Zenon
  <2> DEFINE e == Added(f, c)
  <2>3. e \in Entry /\ e.have /\ e.dirty /\ e.coin = c /\ (kept /\ e.fresh => TipCoin(o) = Spent)
    BY <1>1, <2>2, AddedSlot, Zenon
  <2>4. view' = [view EXCEPT ![o] = e] /\ UNCHANGED <<open, viewBest>>
    BY <1>3, Zenon DEF ApplyTxInUndo
  <2> HIDE DEF e
  <2>5. CoinsInv' /\ \A p \in Outpoints : TipCoin(p)' = TipCoin(p)
    BY <2>3, <2>4, OneViewSlot, Zenon DEF ApplyTxInUndo
  <2>6. view \in [Outpoints -> Entry] BY Zenon DEF CoinsInv, CoinsTypeOK
  <2>7. \A p \in Outpoints : ViewCoin(p)' = IF p = o THEN c ELSE ViewCoin(p)
    BY <2>3, <2>4, <2>5, <2>6, Zenon DEF ViewCoin
  <2>8. CASE kept
    <3>1. Set!Add(o, c)
      BY <2>1, <2>4, <2>5, <2>7, <2>8, Zenon
         DEF Set!Add, Set!Change, ApplyTxInUndo, TipBestBlock, ViewBestBlock
    <3> QED BY <2>5, <2>8, <3>1, Zenon
  <2>9. CASE ~kept
    <3>1. \A p \in Outpoints \ overwritten : TipCoin(p)' = TipCoin(p) /\ ViewCoin(p)' = ViewCoin(p)
      BY <2>5, <2>7, <2>9, Zenon
    <3>2. UNCHANGED Set!vars
      BY <2>4, <3>1, Invisible, Zenon DEF ApplyTxInUndo, TipBestBlock, ViewBestBlock
    <3> QED BY <2>5, <3>2, Zenon
  <2> QED BY <2>8, <2>9, Zenon
<1> QED BY <1>2, <1>3, Zenon

LEMMA SetBestBlockStep ==
    ASSUME CoinsInv, NEW b \in Blocks, SetBestBlock(b)
    PROVE  CoinsInv' /\ Set!SetBest(b)
<1>1. CoinsInv'
  BY Zenon DEF CoinsInv, CoinsTypeOK, SlotsInv, FreshIsSound, CleanIsCopy, SetBestBlock, TipCoin
<1>2. \A p \in Outpoints : TipCoin(p)' = TipCoin(p) /\ ViewCoin(p)' = ViewCoin(p)
  BY Zenon DEF SetBestBlock, TipCoin, ViewCoin
<1>3. TipBestBlock' = TipBestBlock /\ ViewBestBlock' = b
  BY NoBlockIsNoBlock, Zenon DEF SetBestBlock, TipBestBlock, ViewBestBlock
<1> QED BY <1>1, <1>2, <1>3, Zenon DEF Set!SetBest, SetBestBlock

LEMMA FlushViewStep ==
    ASSUME CoinsInv, FlushView
    PROVE  CoinsInv' /\ Set!Commit
<1>1. NoEntry \in Entry BY Zenon DEF NoEntry, Entry, Coins
<1>2. \A p \in Outpoints : tip'[p] = BatchWritten(view[p], tip[p]) /\ view'[p] = NoEntry
  BY Zenon DEF FlushView, EmptyCache
<1>3. \A p \in Outpoints \ overwritten : TipCoin(p)' = ViewCoin(p)
  BY <1>2, BatchWriteSlot, Zenon DEF TipCoin, FlushView
<1>4. \A p \in Outpoints : ViewCoin(p)' = TipCoin(p)'
  BY <1>2 DEF ViewCoin, NoEntry
<1>5. CoinsTypeOK'
  BY <1>1, BatchWriteSlot, Zenon DEF CoinsInv, CoinsTypeOK, FlushView, EmptyCache
<1>6. SlotsInv'
  BY <1>2, BatchWriteSlot, Zenon DEF SlotsInv, FlushView
<1>7. FreshIsSound' /\ CleanIsCopy'
  BY <1>2, BatchWriteSlot DEF FreshIsSound, CleanIsCopy, NoEntry, FlushView
<1>8. TipBestBlock' = ViewBestBlock /\ ViewBestBlock' = ViewBestBlock
  BY Zenon DEF FlushView, TipBestBlock, ViewBestBlock
<1>9. Set!Commit
  BY <1>3, <1>4, <1>8, Zenon DEF Set!Commit, FlushView
<1> QED BY <1>5, <1>6, <1>7, <1>9, Zenon DEF CoinsInv

LEMMA DropViewStep ==
    ASSUME CoinsInv, DropView
    PROVE  CoinsInv' /\ Set!Abort
<1>1. CoinsInv' /\ \A p \in Outpoints : TipCoin(p)' = TipCoin(p)
  BY DroppedView, Zenon DEF DropView
<1> QED BY <1>1, DroppedIsAbort, Zenon DEF DropView

\* A step that changes one slot of pcoinsTip between blocks and no answer of it.
LEMMA OneTipSlot ==
    ASSUME CoinsInv, NEW o \in Outpoints, NEW e \in Entry, ~open,
           tip' = [tip EXCEPT ![o] = e],
           UNCHANGED <<db, dbBest, tipBest, open, view, viewBest, overwritten>>,
           ~e.have => e = NoEntry,
           o \notin overwritten /\ e.fresh => db[o] = Spent,
           e.have /\ ~e.dirty => e.coin = db[o],
           (IF e.have THEN e.coin ELSE db[o]) = TipCoin(o)
    PROVE  CoinsInv' /\ UNCHANGED Set!vars
<1>1. tip \in [Outpoints -> Entry] BY Zenon DEF CoinsInv, CoinsTypeOK
<1>2. \A p \in Outpoints : tip'[p] = IF p = o THEN e ELSE tip[p] BY <1>1, Zenon
<1>3. \A p \in Outpoints : TipCoin(p)' = TipCoin(p) BY <1>2 DEF TipCoin
<1>4. \A p \in Outpoints : ViewCoin(p)' = ViewCoin(p) BY <1>3, Zenon DEF ViewCoin
<1>5. CoinsTypeOK' BY <1>1, Zenon DEF CoinsInv, CoinsTypeOK
<1>6. SlotsInv' BY <1>2 DEF CoinsInv, SlotsInv
<1>7. FreshIsSound' /\ CleanIsCopy'
  BY <1>2, <1>3 DEF CoinsInv, FreshIsSound, CleanIsCopy
<1>8. TipBestBlock' = TipBestBlock /\ ViewBestBlock' = ViewBestBlock
  BY Zenon DEF TipBestBlock, ViewBestBlock
<1> QED BY <1>3, <1>4, <1>5, <1>6, <1>7, <1>8, Invisible, Zenon DEF CoinsInv

LEMMA TipFetchStep ==
    ASSUME CoinsInv, NEW o \in Outpoints, TipFetch(o)
    PROVE  CoinsInv' /\ UNCHANGED Set!vars
<1> DEFINE e == TipFetched(o)
<1>1. /\ e \in Entry /\ (~e.have => e = NoEntry)
      /\ o \notin overwritten /\ e.fresh => db[o] = Spent
      /\ e.have /\ ~e.dirty => e.coin = db[o]
      /\ (IF e.have THEN e.coin ELSE db[o]) = TipCoin(o)
  BY FetchIsInvisible, Zenon
<1>2. tip' = [tip EXCEPT ![o] = e] BY Zenon DEF TipFetch
<1> HIDE DEF e
<1> QED BY <1>1, <1>2, OneTipSlot, Zenon DEF TipFetch

LEMMA UncacheStep ==
    ASSUME CoinsInv, NEW o \in Outpoints, Uncache(o)
    PROVE  CoinsInv' /\ UNCHANGED Set!vars
<1> DEFINE e == Uncached(tip[o])
<1>1. tip[o] \in Entry BY Zenon DEF CoinsInv, CoinsTypeOK
<1>2. e \in Entry BY <1>1, Zenon DEF Uncached, NoEntry, Entry, Coins
<1>3. /\ ~e.have => e = NoEntry
      /\ o \notin overwritten /\ e.fresh => db[o] = Spent
      /\ e.have /\ ~e.dirty => e.coin = db[o]
      /\ (IF e.have THEN e.coin ELSE db[o]) = TipCoin(o)
  BY <1>1, Zenon DEF CoinsInv, SlotsInv, FreshIsSound, CleanIsCopy, Uncached, NoEntry, TipCoin
<1>4. tip' = [tip EXCEPT ![o] = e] BY Zenon DEF Uncache
<1> HIDE DEF e
<1> QED BY <1>2, <1>3, <1>4, OneTipSlot, Zenon DEF Uncache

LEMMA FlushTipStep ==
    ASSUME CoinsInv, FlushTip
    PROVE  CoinsInv' /\ Set!Sync
<1>1. NoEntry \in Entry BY Zenon DEF NoEntry, Entry, Coins
<1>2. \A p \in Outpoints : tip[p] \in Entry /\ db[p] \in Coins BY Zenon DEF CoinsInv, CoinsTypeOK
<1>3. \A p \in Outpoints : view[p] = NoEntry BY Zenon DEF CoinsInv, SlotsInv, FlushTip, EmptyCache
<1>4. \A p \in Outpoints : DbWritten(tip[p], db[p]) = TipCoin(p)
  <2> SUFFICES ASSUME NEW p \in Outpoints PROVE DbWritten(tip[p], db[p]) = TipCoin(p)
    BY Zenon
  <2>1. ~tip[p].have => ~tip[p].dirty BY DEF CoinsInv, SlotsInv, NoEntry
  <2>2. tip[p].have /\ ~tip[p].dirty => tip[p].coin = db[p] BY Zenon DEF CoinsInv, CleanIsCopy
  <2> QED BY <1>2, <2>1, <2>2, Zenon DEF DbWritten, TipCoin, Entry
<1>5. \A p \in Outpoints : db'[p] = TipCoin(p) /\ tip'[p] = NoEntry
  BY <1>4, Zenon DEF FlushTip, EmptyCache
<1>6. \A p \in Outpoints : TipCoin(p)' = TipCoin(p) /\ ViewCoin(p)' = ViewCoin(p)
  BY <1>3, <1>5 DEF TipCoin, ViewCoin, NoEntry, FlushTip
<1>7. \A p \in Outpoints : TipCoin(p) \in Coins BY <1>2, Zenon DEF TipCoin, Entry
<1>8. CoinsTypeOK'
  BY <1>1, <1>4, <1>7, Zenon DEF CoinsInv, CoinsTypeOK, FlushTip, EmptyCache
<1>9. SlotsInv' BY <1>5, Zenon DEF CoinsInv, SlotsInv, FlushTip
<1>10. FreshIsSound' /\ CleanIsCopy'
  BY <1>3, <1>5 DEF FreshIsSound, CleanIsCopy, NoEntry, FlushTip
<1>11. [p \in Outpoints \ overwritten |-> db'[p]] = [p \in Outpoints \ overwritten |-> TipCoin(p)]
  BY <1>5, Zenon
<1>12. dbBest' = TipBestBlock /\ TipBestBlock' = TipBestBlock /\ ViewBestBlock' = ViewBestBlock
  BY Zenon DEF FlushTip, TipBestBlock, ViewBestBlock
<1>13. Set!Sync BY <1>6, <1>11, <1>12, Zenon DEF Set!Sync, FlushTip
<1> QED BY <1>8, <1>9, <1>10, <1>13, Zenon DEF CoinsInv

LEMMA CrashStep ==
    ASSUME CoinsInv, Crash
    PROVE  CoinsInv' /\ Set!Crash
<1>1. NoEntry \in Entry BY Zenon DEF NoEntry, Entry, Coins
<1>2. \A p \in Outpoints : tip'[p] = NoEntry /\ view'[p] = NoEntry /\ db'[p] = db[p]
  BY Zenon DEF Crash, Thrown, EmptyCache
<1>3. \A p \in Outpoints : TipCoin(p)' = db[p] /\ ViewCoin(p)' = db[p]
  BY <1>2 DEF TipCoin, ViewCoin, NoEntry
<1>4. CoinsTypeOK' BY <1>1, Zenon DEF CoinsInv, CoinsTypeOK, Crash, Thrown, EmptyCache
<1>5. SlotsInv' BY <1>2, Zenon DEF SlotsInv, Crash, Thrown
<1>6. FreshIsSound' /\ CleanIsCopy' BY <1>2 DEF FreshIsSound, CleanIsCopy, NoEntry
<1>7. Set!Crash
  BY <1>2, <1>3, Zenon DEF Set!Crash, Crash, Thrown, TipBestBlock, ViewBestBlock
<1> QED BY <1>4, <1>5, <1>6, <1>7, Zenon DEF CoinsInv
-----------------------------------------------------------------------------
LEMMA CoinsStep ==
    ASSUME CoinsInv, [CoinsNext]_coinsVars
    PROVE  CoinsInv' /\ [Set!Next]_(Set!vars)
<1>1. CASE UNCHANGED coinsVars
  <2>1. CoinsInv'
    BY <1>1, Zenon DEF CoinsInv, CoinsTypeOK, SlotsInv, FreshIsSound, CleanIsCopy, coinsVars, TipCoin
  <2>2. UNCHANGED Set!vars
    BY <1>1, Zenon DEF coinsVars, Set!vars, TipCoin, ViewCoin, TipBestBlock, ViewBestBlock
  <2> QED BY <2>1, <2>2, Zenon
<1>2. CASE OpenView BY <1>2, OpenViewStep, Zenon DEF Set!Next
<1>3. CASE GetBestBlock BY <1>3, GetBestBlockStep, Zenon
<1>4. ASSUME NEW o \in Outpoints, ViewFetch(o) PROVE CoinsInv' /\ [Set!Next]_(Set!vars)
  BY <1>4, ViewFetchStep, Zenon
<1>5. ASSUME NEW o \in Outpoints, SpendCoin(o) PROVE CoinsInv' /\ [Set!Next]_(Set!vars)
  BY <1>5, SpendCoinStep, Zenon DEF Set!Next
<1>6. ASSUME NEW o \in Outpoints, NEW c \in SpendableCoins \cup UnspendableCoins, AddCoin(o, c)
      PROVE  CoinsInv' /\ [Set!Next]_(Set!vars)
  BY <1>6, AddCoinStep, Zenon
<1>7. ASSUME NEW o \in Outpoints, NEW c \in SpendableCoins, ApplyTxInUndo(o, c)
      PROVE  CoinsInv' /\ [Set!Next]_(Set!vars)
  BY <1>7, ApplyTxInUndoStep, Zenon DEF Set!Next
<1>8. ASSUME NEW b \in Blocks, SetBestBlock(b) PROVE CoinsInv' /\ [Set!Next]_(Set!vars)
  BY <1>8, SetBestBlockStep, Zenon DEF Set!Next
<1>9. CASE FlushView BY <1>9, FlushViewStep, Zenon DEF Set!Next
<1>10. CASE DropView BY <1>10, DropViewStep, Zenon DEF Set!Next
<1>11. ASSUME NEW o \in Outpoints, TipFetch(o) PROVE CoinsInv' /\ [Set!Next]_(Set!vars)
  BY <1>11, TipFetchStep, Zenon
<1>12. ASSUME NEW o \in Outpoints, Uncache(o) PROVE CoinsInv' /\ [Set!Next]_(Set!vars)
  BY <1>12, UncacheStep, Zenon
<1>13. CASE FlushTip BY <1>13, FlushTipStep, Zenon DEF Set!Next
<1>14. CASE Crash BY <1>14, CrashStep, Zenon DEF Set!Next
<1> QED
  BY <1>1, <1>2, <1>3, <1>4, <1>5, <1>6, <1>7, <1>8, <1>9, <1>10, <1>11, <1>12, <1>13, <1>14
     DEF CoinsNext

LEMMA CoinsInvariance == CoinsSpec => []CoinsInv
<1>1. CoinsInit => CoinsInv BY CoinsInitInv, Zenon
<1>2. CoinsInv /\ [CoinsNext]_coinsVars => CoinsInv' BY CoinsStep, Zenon
<1> QED BY <1>1, <1>2, PTL DEF CoinsSpec

\* Type correctness of the three views, whatever the operations.
THEOREM CoinsTypeCorrect == CoinsSpec => []CoinsTypeOK
BY CoinsInvariance, PTL DEF CoinsInv

\* BatchWrite may trust FRESH of every outpoint that was not created over an
\* unspent coin: the check the code has commented out can fire for no other.
THEOREM FreshNeverMisapplied == CoinsSpec => []FreshIsSound
BY CoinsInvariance, PTL DEF CoinsInv

\* BatchWrite may skip and Uncache may drop an entry that is not DIRTY, of an
\* overwritten outpoint too.
THEOREM CleanEntriesAreCopies == CoinsSpec => []CleanIsCopy
BY CoinsInvariance, PTL DEF CoinsInv

\* The cache stack of coins.cpp implements the plain coin set of CoinSet, which
\* gives up an outpoint only when an output is created over an unspent one.
THEOREM CoinsImplementCoinSet == CoinsSpec => ImplementsCoinSet
<1>1. CoinsInit => Set!Init
  <2> SUFFICES ASSUME CoinsInit PROVE Set!Init BY Zenon
  <2>1. \A p \in Outpoints : TipCoin(p) = Spent /\ ViewCoin(p) = Spent
    BY Zenon DEF CoinsInit, EmptyCache, NoEntry, TipCoin, ViewCoin
  <2> QED
    BY <2>1, Zenon DEF CoinsInit, Set!Init, Set!Empty, TipBestBlock, ViewBestBlock
<1>2. CoinsInv /\ [CoinsNext]_coinsVars => [Set!Next]_(Set!vars) BY CoinsStep, Zenon
<1> QED BY <1>1, <1>2, CoinsInvariance, PTL DEF CoinsSpec, ImplementsCoinSet, Set!Spec
=============================================================================
