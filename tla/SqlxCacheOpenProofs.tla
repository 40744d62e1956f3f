------------------------- MODULE SqlxCacheOpenProofs -------------------------
(****************************************************************************)
(* Proofs about the cache of bases, first part: what its lists and its      *)
(* conditions do, and the steps of sqlx_cache_open_and_lock_base() preserve *)
(* the inductive invariant IInv of SqlxCache.                               *)
(****************************************************************************)
EXTENDS SqlxCache, TLAPS

(****************************************************************************)
(* The lists of slots.                                                      *)
(****************************************************************************)
\* SQLX_UNSHIFT adds a slot to a list that did not hold it.
LEMMA UnshiftAdds ==
  ASSUME NEW S, NEW list \in Seq(S), NEW T, NEW b \in S,
         Enumerates(list, T), b \notin T
  PROVE  /\ Unshift(list, b) \in Seq(S)
         /\ Enumerates(Unshift(list, b), T \union {b})
<1> DEFINE r == Unshift(list, b)
<1>1. /\ r \in Seq(S)
      /\ Len(r) = Len(list) + 1
      /\ r[1] = b
      /\ \A i \in 2..Len(r) : r[i] = list[i - 1]
  BY DEF Unshift
<1> HIDE DEF r
<1>2. \A x \in T \union {b} : \E i \in 1..Len(r) : r[i] = x
  <2> SUFFICES ASSUME NEW x \in T PROVE \E i \in 1..Len(r) : r[i] = x
    BY <1>1
  <2>1. PICK j \in 1..Len(list) : list[j] = x
    BY DEF Enumerates
  <2>2. j + 1 \in 2..Len(r) /\ r[j + 1] = x
    BY <1>1, <2>1
  <2> QED BY <2>2
<1>3. \A i \in 1..Len(r) : r[i] \in T \union {b}
  BY <1>1 DEF Enumerates
<1>4. \A i, j \in 1..Len(r) : r[i] = r[j] => i = j
  <2> SUFFICES ASSUME NEW i \in 1..Len(r), NEW j \in 1..Len(r), r[i] = r[j], i # j PROVE FALSE
    OBVIOUS
  <2>1. CASE i = 1
    BY <1>1, <2>1 DEF Enumerates
  <2>2. CASE j = 1
    BY <1>1, <2>2 DEF Enumerates
  <2>3. CASE i # 1 /\ j # 1
    <3>1. i - 1 \in 1..Len(list) /\ j - 1 \in 1..Len(list) /\ list[i - 1] = list[j - 1]
      BY <1>1, <2>3
    <3> QED BY <3>1 DEF Enumerates
  <2> QED BY <2>1, <2>2, <2>3
<1>5. T \union {b} = {r[i] : i \in 1..Len(r)}
  BY <1>2, <1>3
<1> QED BY <1>1, <1>4, <1>5, Zenon DEF Enumerates, r

\* SQLX_REMOVE takes a slot away from the list that holds it, wherever it is.
LEMMA UnlinkRemoves ==
  ASSUME NEW S, NEW list \in Seq(S), NEW T, NEW b \in T, Enumerates(list, T)
  PROVE  /\ Unlink(list, b) \in Seq(S)
         /\ Enumerates(Unlink(list, b), T \ {b})
<1> DEFINE k == Position(list, b)
           r == Unlink(list, b)
<1>1. k \in 1..Len(list) /\ list[k] = b
  BY DEF Position, Enumerates
<1>2. /\ SubSeq(list, 1, k - 1) \in Seq(S)
      /\ Len(SubSeq(list, 1, k - 1)) = k - 1
      /\ \A i \in 1..(k - 1) : SubSeq(list, 1, k - 1)[i] = list[i]
      /\ SubSeq(list, k + 1, Len(list)) \in Seq(S)
      /\ Len(SubSeq(list, k + 1, Len(list))) = Len(list) - k
      /\ \A i \in 1..(Len(list) - k) : SubSeq(list, k + 1, Len(list))[i] = list[k + i]
  BY <1>1
<1>3. /\ r \in Seq(S)
      /\ Len(r) = Len(list) - 1
      /\ \A i \in 1..Len(r) : r[i] = IF i < k THEN list[i] ELSE list[i + 1]
  <2> HIDE DEF k
  <2>1. r = SubSeq(list, 1, k - 1) \o SubSeq(list, k + 1, Len(list))
    BY DEF Unlink, k
  <2> DEFINE p == SubSeq(list, 1, k - 1)
             q == SubSeq(list, k + 1, Len(list))
  <2>2. /\ p \in Seq(S) /\ Len(p) = k - 1 /\ \A i \in 1..(k - 1) : p[i] = list[i]
        /\ q \in Seq(S) /\ Len(q) = Len(list) - k /\ \A i \in 1..(Len(list) - k) : q[i] = list[k + i]
    BY <1>2
  <2> HIDE DEF p, q
  <2>3. /\ r = p \o q
        /\ r \in Seq(S)
        /\ Len(r) = Len(p) + Len(q)
        /\ \A i \in 1..Len(r) : r[i] = IF i <= Len(p) THEN p[i] ELSE q[i - Len(p)]
    BY <2>1, <2>2 DEF p, q
  <2>4. Len(r) = Len(list) - 1
    BY <1>1, <2>2, <2>3
  <2>5. ASSUME NEW i \in 1..Len(r) PROVE r[i] = IF i < k THEN list[i] ELSE list[i + 1]
    <3>1. CASE i < k
      BY <1>1, <2>2, <2>3, <3>1
    <3>2. CASE ~(i < k)
      <4>1. i - (k - 1) \in 1..(Len(list) - k) /\ k + (i - (k - 1)) = i + 1
        BY <1>1, <2>4, <3>2
      <4> QED BY <1>1, <2>2, <2>3, <3>2, <4>1
    <3> QED BY <3>1, <3>2
  <2> QED BY <2>3, <2>4, <2>5
<1> HIDE DEF k, r
<1>4. \A x \in T \ {b} : \E i \in 1..Len(r) : r[i] = x
  <2> SUFFICES ASSUME NEW x \in T \ {b} PROVE \E i \in 1..Len(r) : r[i] = x
    OBVIOUS
  <2>1. PICK j \in 1..Len(list) : list[j] = x
    BY DEF Enumerates
  <2>2. CASE j < k
    BY <1>1, <1>3, <2>1, <2>2
  <2>3. CASE j > k
    <3>1. j - 1 \in 1..Len(r) /\ r[j - 1] = x
      BY <1>1, <1>3, <2>1, <2>3
    <3> QED BY <3>1
  <2>4. j # k
    BY <1>1, <2>1
  <2> QED BY <1>1, <2>1, <2>2, <2>3, <2>4
<1>5. \A i \in 1..Len(r) : r[i] \in T \ {b}
  <2> SUFFICES ASSUME NEW i \in 1..Len(r) PROVE r[i] \in T \ {b}
    OBVIOUS
  <2>1. CASE i < k
    BY <1>1, <1>3, <2>1 DEF Enumerates
  <2>2. CASE ~(i < k)
    BY <1>1, <1>3, <2>2 DEF Enumerates
  <2> QED BY <2>1, <2>2
<1>6. \A i, j \in 1..Len(r) : r[i] = r[j] => i = j
  <2> SUFFICES ASSUME NEW i \in 1..Len(r), NEW j \in 1..Len(r), r[i] = r[j] PROVE i = j
    OBVIOUS
  <2> DEFINE up(x) == IF x < k THEN x ELSE x + 1
  <2>1. up(i) \in 1..Len(list) /\ up(j) \in 1..Len(list) /\ list[up(i)] = list[up(j)]
    BY <1>1, <1>3
  <2>2. up(i) = up(j)
    BY <2>1 DEF Enumerates
  <2> QED BY <1>1, <2>2
<1>7. T \ {b} = {r[i] : i \in 1..Len(r)}
  BY <1>4, <1>5
<1> QED BY <1>3, <1>6, <1>7, Zenon DEF Enumerates, r

\* The first and the last slot of a list, and the list without its first slot.
LEMMA ListEnds ==
  ASSUME NEW S, NEW list \in Seq(S), NEW T, Enumerates(list, T), list # <<>>
  PROVE  /\ Head(list) \in T
         /\ Oldest(list) \in T
         /\ Tail(list) \in Seq(S)
         /\ Enumerates(Tail(list), T \ {Head(list)})
<1>1. /\ Len(list) \in Nat \ {0}
      /\ Head(list) = list[1]
      /\ Tail(list) \in Seq(S)
      /\ Len(Tail(list)) = Len(list) - 1
      /\ \A i \in 1..Len(Tail(list)) : Tail(list)[i] = list[i + 1]
  OBVIOUS
<1>2. Head(list) \in T /\ Oldest(list) \in T
  BY <1>1 DEF Enumerates, Oldest
<1> DEFINE r == Tail(list)
<1> HIDE DEF r
<1>3. \A x \in T \ {list[1]} : \E i \in 1..Len(r) : r[i] = x
  <2> SUFFICES ASSUME NEW x \in T \ {list[1]} PROVE \E i \in 1..Len(r) : r[i] = x
    OBVIOUS
  <2>1. PICK j \in 1..Len(list) : list[j] = x
    BY DEF Enumerates
  <2>2. j - 1 \in 1..Len(r) /\ r[j - 1] = x
    BY <1>1, <2>1 DEF r
  <2> QED BY <2>2
<1>4. \A i \in 1..Len(r) : r[i] \in T \ {list[1]}
  BY <1>1 DEF Enumerates, r
<1>5. \A i, j \in 1..Len(r) : r[i] = r[j] => i = j
  <2> SUFFICES ASSUME NEW i \in 1..Len(r), NEW j \in 1..Len(r), r[i] = r[j] PROVE i = j
    OBVIOUS
  <2>1. i + 1 \in 1..Len(list) /\ j + 1 \in 1..Len(list) /\ list[i + 1] = list[j + 1]
    BY <1>1 DEF r
  <2> QED BY <2>1 DEF Enumerates
<1>6. T \ {list[1]} = {r[i] : i \in 1..Len(r)}
  BY <1>3, <1>4
<1> QED BY <1>1, <1>2, <1>5, <1>6 DEF Enumerates, r

(****************************************************************************)
(* g_cond_signal() moves at most waiting threads, and only to "woken" or    *)
(* "retry": it concerns neither the closers nor the names being opened.     *)
(****************************************************************************)
LEMMA SignalWakesWaiters ==
  ASSUME NEW p \in [Thread -> Pcs], NEW b, NEW q \in Signal(p, b)
  PROVE  /\ q \in [Thread -> Pcs]
         /\ \A u \in Thread : \/ q[u] = p[u]
                              \/ p[u] = "wait_used" /\ q[u] = "woken"
                              \/ p[u] = "wait_closing" /\ q[u] = "retry"
<1>1. CASE Waiters(p, Cond(b)) = {}
  BY <1>1 DEF Signal
<1>2. CASE Waiters(p, Cond(b)) # {}
  <2>1. PICK w \in Waiters(p, Cond(b)) : q = Wake(p, w)
    BY <1>2 DEF Signal
  <2>2. w \in Thread /\ p[w] \in {"wait_used", "wait_closing"}
    BY <2>1 DEF Waiters
  <2> QED BY <2>1, <2>2 DEF Wake, Pcs
<1> QED BY <1>1, <1>2

\* What a step may do to the threads without touching the slots and the lists:
\* the closers stay where they are and the others may not become closers.
ThreadsMove(p, q) ==
  /\ q \in [Thread -> Pcs]
  /\ \A u \in Thread : p[u] \in Hooks <=> q[u] \in Hooks
  /\ \A u \in Thread : p[u] \in Hooks => p[u] = q[u]

\* The closers and the slots they close stay as they are.
LEMMA ClosersStay ==
  ASSUME TypeOK, ClosedByOwner, ThreadsMove(pc, pc'),
         \A u \in Thread : pc[u] \in Hooks => at'[u] = at[u],
         \A x \in Bases : \/ status'[x] = status[x] /\ owner'[x] = owner[x]
                          \/ status[x] # "CLOSING" /\ status'[x] # "CLOSING"
  PROVE  ClosedByOwner'
<1>1. \A u \in Thread : pc'[u] \in Hooks <=> pc[u] \in Hooks
  BY DEF ThreadsMove
<1>2. \A x \in Bases : status'[x] = "CLOSING" =>
        owner'[x] \in Thread /\ pc'[owner'[x]] \in Hooks /\ at'[owner'[x]] = x
  BY <1>1 DEF ClosedByOwner
<1>3. \A u \in Thread : pc'[u] \in Hooks =>
        at'[u] \in Bases /\ status'[at'[u]] = "CLOSING" /\ owner'[at'[u]] = u
  BY <1>1 DEF ClosedByOwner
<1> QED BY <1>2, <1>3 DEF ClosedByOwner

\* A step that moves threads that are not closing and leaves the slots and the
\* lists alone preserves the invariant.
LEMMA QuietStep ==
  ASSUME IInv,
         UNCHANGED <<status, name, owner, handle, count_open, lists, held, files>>,
         count_waiting' \in [Bases -> Int],
         lock' \in Thread \union {NoThread},
         arg' \in [Thread -> Name \union {NoName}],
         at' \in [Thread -> Bases \union {NoBase}],
         expired' \in [Thread -> BOOLEAN],
         ThreadsMove(pc, pc'),
         \A u \in Thread : pc[u] \in Hooks => at'[u] = at[u],
         \A u \in Thread : pc'[u] \in Opening => arg'[u] \in Name
  PROVE  IInv'
<1>1. TypeOK'
  BY DEF IInv, TypeOK, lists, ThreadsMove
<1>2. SlotsConsistent' /\ HeldMatchesOwner' /\ TreeMatchesSlots' /\ FilesMatchHandles'
  BY DEF IInv, SlotsConsistent, HeldMatchesOwner, TreeMatchesSlots, FilesMatchHandles, lists
<1>3. ListsMatchStatus'
  BY DEF IInv, ListsMatchStatus, Enumerates, lists
<1>4. ClosedByOwner'
  BY ClosersStay DEF IInv
<1>5. OpeningNamed'
  BY DEF OpeningNamed
<1> QED BY <1>1, <1>2, <1>3, <1>4, <1>5 DEF IInv

\* count_waiting keeps its type when a thread is back from its wait.
LEMMA WaitedType ==
  ASSUME TypeOK, NEW t \in Thread PROVE Waited(t) \in [Bases -> Int]
<1>1. CASE at[t] \in Bases
  BY <1>1 DEF TypeOK, Waited
<1>2. CASE at[t] \notin Bases
  <2> DEFINE f == [count_waiting EXCEPT ![at[t]] = @ - 1]
  <2>1. count_waiting \in [Bases -> Int] /\ DOMAIN f = Bases /\ \A b \in Bases : f[b] = count_waiting[b]
    BY <1>2 DEF TypeOK
  <2>2. f = count_waiting
    BY <2>1
  <2> QED BY <2>1, <2>2, Zenon DEF Waited
<1> QED BY <1>1, <1>2

\* Initially the slots are free, in the order of their numbers.
LEMMA InitIInv == Init => IInv
<1> SUFFICES ASSUME Init PROVE IInv
  OBVIOUS
<1> USE CacheAssumption
<1>1. free \in Seq(Bases) /\ Len(free) = bases_count - 1 /\ \A i \in Bases : free[i] = i
  <2>1. bases_count - 1 \in Nat /\ Bases = 1..(bases_count - 1)
    BY DEF Bases
  <2> QED BY <2>1 DEF Init
<1>2. TypeOK
  BY <1>1 DEF Init, TypeOK, Pcs
<1>3. SlotsConsistent /\ HeldMatchesOwner /\ FilesMatchHandles /\ OpeningNamed
  BY DEF Init, SlotsConsistent, HeldMatchesOwner, FilesMatchHandles, OpeningNamed, Opening
<1>4. TreeMatchesSlots
  BY DEF Init, TreeMatchesSlots, Bases
<1>5. ClosedByOwner
  BY DEF Init, ClosedByOwner, Hooks
<1>6. ListsMatchStatus
  <2>1. Enumerates(free, Bases)
    BY <1>1 DEF Enumerates, Bases
  <2>2. Enumerates(idle, {})
    BY DEF Enumerates, Init
  <2>3. {b \in Bases : status[b] = "FREE"} = Bases /\ {b \in Bases : status[b] = "IDLE"} = {}
    BY DEF Init
  <2> QED BY <2>1, <2>2, <2>3 DEF ListsMatchStatus
<1> QED BY <1>2, <1>3, <1>4, <1>5, <1>6 DEF IInv

\* A thread t goes to x and a condition is signalled.
LEMMA MoveAndSignal ==
  ASSUME TypeOK, NEW t \in Thread, NEW x \in Pcs, NEW b,
         pc' \in Signal([pc EXCEPT ![t] = x], b)
  PROVE  /\ pc' \in [Thread -> Pcs]
         /\ x \notin {"wait_used", "wait_closing"} => pc'[t] = x
         /\ \A u \in Thread \ {t} : \/ pc'[u] = pc[u]
                                    \/ pc[u] = "wait_used" /\ pc'[u] = "woken"
                                    \/ pc[u] = "wait_closing" /\ pc'[u] = "retry"
<1> DEFINE p == [pc EXCEPT ![t] = x]
<1>1. p \in [Thread -> Pcs] /\ p[t] = x /\ \A u \in Thread \ {t} : p[u] = pc[u]
  BY DEF TypeOK
<1> HIDE DEF p
<1>2. pc' \in Signal(p, b)
  BY DEF p
<1>3. /\ pc' \in [Thread -> Pcs]
      /\ \A u \in Thread : \/ pc'[u] = p[u]
                           \/ p[u] = "wait_used" /\ pc'[u] = "woken"
                           \/ p[u] = "wait_closing" /\ pc'[u] = "retry"
  BY <1>1, <1>2, SignalWakesWaiters
<1> QED BY <1>1, <1>3

\* A thread that is not closing a base leaves the cache, after a signal.
LEMMA ReturnMoves ==
  ASSUME IInv, NEW t \in Thread, NEW b, Return(t, b), pc[t] \notin Hooks
  PROVE  /\ ThreadsMove(pc, pc')
         /\ pc'[t] = "out"
         /\ lock' \in Thread \union {NoThread}
         /\ arg' \in [Thread -> Name \union {NoName}]
         /\ at' \in [Thread -> Bases \union {NoBase}]
         /\ expired' \in [Thread -> BOOLEAN]
         /\ \A u \in Thread : pc[u] \in Hooks => at'[u] = at[u]
         /\ \A u \in Thread : pc'[u] \in Opening => arg'[u] \in Name
<1>1. /\ pc' \in [Thread -> Pcs]
      /\ pc'[t] = "out"
      /\ \A u \in Thread \ {t} : \/ pc'[u] = pc[u]
                                 \/ pc[u] = "wait_used" /\ pc'[u] = "woken"
                                 \/ pc[u] = "wait_closing" /\ pc'[u] = "retry"
  BY MoveAndSignal DEF Return, IInv, Pcs
<1>2. TypeOK /\ OpeningNamed
  BY DEF IInv
<1>3. ThreadsMove(pc, pc')
  BY <1>1 DEF ThreadsMove, Hooks
<1>4. \A u \in Thread : pc'[u] \in Opening => arg'[u] \in Name
  BY <1>1, <1>2 DEF Return, Leave, Opening, OpeningNamed, TypeOK
<1> QED BY <1>1, <1>2, <1>3, <1>4 DEF Return, Leave, TypeOK

\* The steps that touch neither the slots nor the lists.
LEMMA QuietActions ==
  ASSUME IInv, NEW t \in Thread,
         \/ \E n \in Name : OpenCall(t, n)
         \/ OpenSpin(t) \/ OpenRefused(t) \/ OpenWaitUsed(t) \/ OpenWaitClosing(t)
         \/ Deadline(t) \/ OpenLate(t) \/ SpuriousWakeup(t) \/ ExpireReturn(t)
         \/ \E how \in {"expire", "expire_all"} : ExpireCall(t, how)
  PROVE  IInv'
<1>1. TypeOK /\ OpeningNamed /\ Waited(t) \in [Bases -> Int]
  BY WaitedType DEF IInv
<1>2. ASSUME NEW n \in Name, OpenCall(t, n) PROVE IInv'
  <2>1. ThreadsMove(pc, pc') /\ \A u \in Thread : pc'[u] \in Opening => arg'[u] \in Name
    BY <1>1, <1>2 DEF OpenCall, ThreadsMove, TypeOK, Pcs, Hooks, OpeningNamed, Opening
  <2> QED BY <1>1, <1>2, <2>1, QuietStep DEF OpenCall, TypeOK, slots
<1>3. ASSUME OpenSpin(t) PROVE IInv'
  <2>1. ThreadsMove(pc, pc') /\ \A u \in Thread : pc'[u] \in Opening => arg'[u] \in Name
    BY <1>1, <1>3, SMTT(20) DEF OpenSpin, AtRetry, ThreadsMove, TypeOK, Pcs, Hooks, OpeningNamed, Opening
  <2> QED BY <1>1, <1>3, <2>1, QuietStep DEF OpenSpin, TypeOK
<1>4. ASSUME OpenRefused(t) PROVE IInv'
  <2>1. pc[t] \notin Hooks /\ Return(t, bases_by_name[arg[t]])
    BY <1>4 DEF OpenRefused, AtRetry, Hooks
  <2> QED BY <1>1, <1>4, <2>1, ReturnMoves, QuietStep, SMTT(20) DEF OpenRefused
<1>5. ASSUME OpenWaitUsed(t) PROVE IInv'
  <2> DEFINE b == bases_by_name[arg[t]]
  <2>1. b \in Bases
    BY <1>1, <1>5 DEF OpenWaitUsed, AtRetry, InUse, TypeOK, OpeningNamed, Opening
  <2>2. ThreadsMove(pc, pc') /\ \A u \in Thread : pc'[u] \in Opening => arg'[u] \in Name
    BY <1>1, <1>5 DEF OpenWaitUsed, WaitOn, AtRetry, ThreadsMove, TypeOK, Pcs, Hooks, OpeningNamed, Opening
  <2>3. count_waiting' \in [Bases -> Int]
    <3>1. count_waiting' = [Waited(t) EXCEPT ![b] = Waited(t)[b] + 1]
      BY <1>5 DEF OpenWaitUsed
    <3> HIDE DEF b
    <3> QED BY <1>1, <2>1, <3>1, SMTT(20)
  <2> QED BY <1>1, <1>5, <2>1, <2>2, <2>3, QuietStep DEF OpenWaitUsed, WaitOn, AtRetry, TypeOK, Hooks
<1>6. ASSUME OpenWaitClosing(t) PROVE IInv'
  <2> DEFINE b == bases_by_name[arg[t]]
  <2>1. b \in Bases
    BY <1>1, <1>6 DEF OpenWaitClosing, AtRetry, TypeOK, OpeningNamed, Opening
  <2>2. ThreadsMove(pc, pc') /\ \A u \in Thread : pc'[u] \in Opening => arg'[u] \in Name
    BY <1>1, <1>6 DEF OpenWaitClosing, WaitOn, AtRetry, ThreadsMove, TypeOK, Pcs, Hooks, OpeningNamed, Opening
  <2> QED BY <1>1, <1>6, <2>1, <2>2, QuietStep DEF OpenWaitClosing, WaitOn, AtRetry, TypeOK, Hooks
<1>7. ASSUME Deadline(t) PROVE IInv'
  <2>1. ThreadsMove(pc, pc') /\ \A u \in Thread : pc'[u] \in Opening => arg'[u] \in Name
    BY <1>1, <1>7 DEF Deadline, ThreadsMove, TypeOK, Pcs, Hooks, OpeningNamed, Opening
  <2> QED BY <1>1, <1>7, <2>1, QuietStep DEF Deadline, TypeOK, slots
<1>8. ASSUME OpenLate(t) PROVE IInv'
  <2>1. pc[t] \notin Hooks /\ Return(t, at[t])
    BY <1>8, Zenon DEF OpenLate, Hooks
  <2>2. count_waiting' \in [Bases -> Int]
    <3> DEFINE f == [count_waiting EXCEPT ![at[t]] = @ - 1]
    <3>1. f \in [Bases -> Int]
      <4>1. CASE at[t] \in Bases
        BY <1>1, <4>1 DEF TypeOK
      <4>2. CASE at[t] \notin Bases
        <5>1. count_waiting \in [Bases -> Int] /\ DOMAIN f = Bases /\ \A b \in Bases : f[b] = count_waiting[b]
          BY <1>1, <4>2 DEF TypeOK
        <5> QED BY <5>1, Zenon
      <4> QED BY <4>1, <4>2
    <3> QED BY <1>1, <1>8, <3>1 DEF OpenLate, TypeOK
  <2> QED BY <1>1, <1>8, <2>1, <2>2, ReturnMoves, QuietStep, Zenon DEF OpenLate
<1>9. ASSUME SpuriousWakeup(t) PROVE IInv'
  <2>1. ThreadsMove(pc, pc') /\ \A u \in Thread : pc'[u] \in Opening => arg'[u] \in Name
    BY <1>1, <1>9 DEF SpuriousWakeup, Wake, ThreadsMove, TypeOK, Pcs, Hooks, OpeningNamed, Opening
  <2> QED BY <1>1, <1>9, <2>1, QuietStep DEF SpuriousWakeup, TypeOK, slots
<1>10. ASSUME ExpireReturn(t) PROVE IInv'
  <2>1. ThreadsMove(pc, pc') /\ \A u \in Thread : pc'[u] \in Opening => arg'[u] \in Name
    BY <1>1, <1>10 DEF ExpireReturn, Leave, ThreadsMove, TypeOK, Pcs, Hooks, OpeningNamed, Opening
  <2> QED BY <1>1, <1>10, <2>1, QuietStep DEF ExpireReturn, Leave, TypeOK, slots, Hooks
<1>11. ASSUME NEW how \in {"expire", "expire_all"}, ExpireCall(t, how) PROVE IInv'
  <2>1. ThreadsMove(pc, pc') /\ \A u \in Thread : pc'[u] \in Opening => arg'[u] \in Name
    BY <1>1, <1>11 DEF ExpireCall, ThreadsMove, TypeOK, Pcs, Hooks, OpeningNamed, Opening
  <2> QED BY <1>1, <1>11, <2>1, QuietStep DEF ExpireCall, TypeOK, slots
<1> QED BY <1>2, <1>3, <1>4, <1>5, <1>6, <1>7, <1>8, <1>9, <1>10, <1>11

\* One thread opens or closes one slot once more.
LEMMA HeldUpdated ==
  ASSUME TypeOK, NEW t \in Thread, NEW b \in Bases, NEW k \in Nat,
         held' = [held EXCEPT ![t][b] = k]
  PROVE  /\ held' \in [Thread -> [Bases -> Nat]]
         /\ held'[t][b] = k
         /\ \A u \in Thread, x \in Bases : u # t \/ x # b => held'[u][x] = held[u][x]
<1>1. held \in [Thread -> [Bases -> Nat]]
  BY DEF TypeOK
<1>2. [held[t] EXCEPT ![b] = k] \in [Bases -> Nat]
  BY <1>1
<1>3. held' = [held EXCEPT ![t] = [held[t] EXCEPT ![b] = k]]
  BY <1>1
<1> QED BY <1>1, <1>2, <1>3

\* sqlx_base_reserve(): the first free slot becomes USED under a new name.
LEMMA ReserveStep ==
  ASSUME IInv, NEW t \in Thread, OpenReserve(t) PROVE IInv'
<1> DEFINE b == Head(free)
<1>1. /\ TypeOK /\ SlotsConsistent /\ HeldMatchesOwner /\ TreeMatchesSlots
      /\ ListsMatchStatus /\ ClosedByOwner /\ OpeningNamed /\ FilesMatchHandles
      /\ Waited(t) \in [Bases -> Int]
  BY WaitedType DEF IInv
<1>2. /\ b \in Bases /\ status[b] = "FREE"
      /\ free' \in Seq(Bases)
      /\ Enumerates(free', {x \in Bases : status[x] = "FREE"} \ {b})
  <2>1. free \in Seq(Bases) /\ free # <<>> /\ Enumerates(free, {x \in Bases : status[x] = "FREE"})
    BY <1>1 DEF OpenReserve, ListsMatchStatus, TypeOK
  <2>2. /\ Head(free) \in {x \in Bases : status[x] = "FREE"}
        /\ Tail(free) \in Seq(Bases)
        /\ Enumerates(Tail(free), {x \in Bases : status[x] = "FREE"} \ {Head(free)})
    BY <2>1, ListEnds, Zenon
  <2> QED BY <2>2 DEF OpenReserve
<1>3. arg[t] \in Name /\ bases_by_name[arg[t]] = NoBase /\ pc[t] \notin Hooks
  BY <1>1 DEF OpenReserve, AtRetry, OpeningNamed, Opening, Hooks
<1> HIDE DEF b
<1>4. /\ status' = [status EXCEPT ![b] = "USED"]
      /\ name' = [name EXCEPT ![b] = arg[t]]
      /\ owner' = [owner EXCEPT ![b] = t]
      /\ handle' = [handle EXCEPT ![b] = NoName]
      /\ count_open' = [count_open EXCEPT ![b] = 1]
      /\ bases_by_name' = [bases_by_name EXCEPT ![arg[t]] = b]
      /\ held' = [held EXCEPT ![t][b] = @ + 1]
      /\ Return(t, b)
      /\ count_waiting' = Waited(t)
      /\ idle' = idle /\ files' = files
  BY DEF OpenReserve, b
<1>5. /\ ThreadsMove(pc, pc')
      /\ lock' \in Thread \union {NoThread}
      /\ arg' \in [Thread -> Name \union {NoName}]
      /\ at' \in [Thread -> Bases \union {NoBase}]
      /\ expired' \in [Thread -> BOOLEAN]
      /\ \A u \in Thread : pc[u] \in Hooks => at'[u] = at[u]
      /\ \A u \in Thread : pc'[u] \in Opening => arg'[u] \in Name
  BY <1>3, <1>4, ReturnMoves
<1>6. TypeOK'
  <2>1. held' \in [Thread -> [Bases -> Nat]]
    <3>1. held[t][b] + 1 \in Nat
      BY <1>1, <1>2 DEF TypeOK
    <3>2. held' = [held EXCEPT ![t][b] = held[t][b] + 1]
      BY <1>4
    <3> QED BY <1>1, <1>2, <3>1, <3>2, HeldUpdated, Zenon
  <2> QED BY <1>1, <1>2, <1>3, <1>4, <1>5, <2>1 DEF TypeOK, ThreadsMove
<1>7. SlotsConsistent'
  BY <1>1, <1>2, <1>3, <1>4, SMTT(20) DEF TypeOK, SlotsConsistent
<1>8. HeldMatchesOwner'
  BY <1>1, <1>2, <1>3, <1>4, CacheAssumption DEF TypeOK, HeldMatchesOwner
<1>9. TreeMatchesSlots'
  <2>1. \A x \in Bases : name[x] # arg[t] /\ x # NoBase
    BY <1>1, <1>3, CacheAssumption, SMTT(20) DEF TreeMatchesSlots, Bases
  <2>2. \A n \in Name : bases_by_name[n] # b
    BY <1>1, <1>2, CacheAssumption DEF TreeMatchesSlots, SlotsConsistent
  <2> SUFFICES ASSUME NEW n \in Name, NEW x \in Bases PROVE bases_by_name'[n] = x <=> name'[x] = n
    BY DEF TreeMatchesSlots
  <2>3. CASE x = b
    BY <1>1, <1>2, <1>3, <1>4, <2>1, <2>2, <2>3 DEF TypeOK
  <2>4. CASE x # b
    BY <1>1, <1>2, <1>3, <1>4, <2>1, <2>2, <2>4 DEF TypeOK, TreeMatchesSlots
  <2> QED BY <2>3, <2>4
<1>10. ListsMatchStatus'
  <2>1. {x \in Bases : status'[x] = "FREE"} = {x \in Bases : status[x] = "FREE"} \ {b}
    BY <1>1, <1>2, <1>4 DEF TypeOK
  <2>2. {x \in Bases : status'[x] = "IDLE"} = {x \in Bases : status[x] = "IDLE"}
    BY <1>1, <1>2, <1>4, SMTT(20) DEF TypeOK
  <2> QED BY <1>1, <1>2, <1>4, <2>1, <2>2, Zenon DEF ListsMatchStatus
<1>11. ClosedByOwner'
  <2>1. \A x \in Bases \ {b} : status'[x] = status[x] /\ owner'[x] = owner[x]
    BY <1>1, <1>2, <1>4 DEF TypeOK
  <2>2. status[b] # "CLOSING" /\ status'[b] # "CLOSING"
    BY <1>1, <1>2, <1>4 DEF TypeOK
  <2>3. \A x \in Bases : \/ status'[x] = status[x] /\ owner'[x] = owner[x]
                         \/ status[x] # "CLOSING" /\ status'[x] # "CLOSING"
    BY <2>1, <2>2, SMTT(20)
  <2> QED BY <1>1, <1>5, <2>3, ClosersStay
<1>12. OpeningNamed'
  BY <1>5, SMTT(20) DEF OpeningNamed
<1>13. FilesMatchHandles'
  BY <1>1, <1>2, <1>3, <1>4, CacheAssumption DEF TypeOK, FilesMatchHandles, SlotsConsistent
<1> QED BY <1>6, <1>7, <1>8, <1>9, <1>10, <1>11, <1>12, <1>13 DEF IInv

\* An IDLE base becomes USED again.
LEMMA OpenIdleStep ==
  ASSUME IInv, NEW t \in Thread, OpenIdle(t) PROVE IInv'
<1> DEFINE b == bases_by_name[arg[t]]
<1>1. /\ TypeOK /\ SlotsConsistent /\ HeldMatchesOwner /\ TreeMatchesSlots
      /\ ListsMatchStatus /\ ClosedByOwner /\ OpeningNamed /\ FilesMatchHandles
      /\ Waited(t) \in [Bases -> Int]
  BY WaitedType DEF IInv
<1>2. b \in Bases /\ status[b] = "IDLE" /\ pc[t] \notin Hooks
  BY <1>1 DEF OpenIdle, AtRetry, TypeOK, OpeningNamed, Opening, Hooks
<1> HIDE DEF b
<1>3. /\ status' = [status EXCEPT ![b] = "USED"]
      /\ idle' = Unlink(idle, b)
      /\ owner' = [owner EXCEPT ![b] = t]
      /\ count_open' = [count_open EXCEPT ![b] = @ + 1]
      /\ held' = [held EXCEPT ![t][b] = @ + 1]
      /\ Return(t, b)
      /\ count_waiting' = Waited(t)
      /\ UNCHANGED <<name, handle, free, bases_by_name, files>>
  BY DEF OpenIdle, b
<1>4. /\ ThreadsMove(pc, pc')
      /\ lock' \in Thread \union {NoThread}
      /\ arg' \in [Thread -> Name \union {NoName}]
      /\ at' \in [Thread -> Bases \union {NoBase}]
      /\ expired' \in [Thread -> BOOLEAN]
      /\ \A u \in Thread : pc[u] \in Hooks => at'[u] = at[u]
      /\ \A u \in Thread : pc'[u] \in Opening => arg'[u] \in Name
  BY <1>2, <1>3, ReturnMoves
<1>5. /\ idle' \in Seq(Bases)
      /\ Enumerates(idle', {x \in Bases : status[x] = "IDLE"} \ {b})
  BY <1>1, <1>2, <1>3, UnlinkRemoves, Zenon DEF ListsMatchStatus, TypeOK
<1>6. TypeOK'
  <2>1. held' \in [Thread -> [Bases -> Nat]]
    <3>1. held[t][b] + 1 \in Nat
      BY <1>1, <1>2 DEF TypeOK
    <3>2. held' = [held EXCEPT ![t][b] = held[t][b] + 1]
      BY <1>3
    <3> QED BY <1>1, <1>2, <3>1, <3>2, HeldUpdated, Zenon
  <2>2. count_open' \in [Bases -> Nat]
    BY <1>1, <1>2, <1>3 DEF TypeOK
  <2> QED BY <1>1, <1>2, <1>3, <1>4, <1>5, <2>1, <2>2, Zenon DEF TypeOK, ThreadsMove
<1>7. SlotsConsistent'
  BY <1>1, <1>2, <1>3, SMTT(20) DEF TypeOK, SlotsConsistent
<1>8. HeldMatchesOwner'
  BY <1>1, <1>2, <1>3, CacheAssumption DEF TypeOK, HeldMatchesOwner, SlotsConsistent
<1>9. TreeMatchesSlots' /\ FilesMatchHandles'
  BY <1>1, <1>3 DEF TreeMatchesSlots, FilesMatchHandles
<1>10. ListsMatchStatus'
  <2>1. {x \in Bases : status'[x] = "FREE"} = {x \in Bases : status[x] = "FREE"}
    BY <1>1, <1>2, <1>3 DEF TypeOK
  <2>2. {x \in Bases : status'[x] = "IDLE"} = {x \in Bases : status[x] = "IDLE"} \ {b}
    BY <1>1, <1>2, <1>3 DEF TypeOK
  <2> QED BY <1>1, <1>3, <1>5, <2>1, <2>2, Zenon DEF ListsMatchStatus
<1>11. ClosedByOwner'
  <2>1. \A x \in Bases \ {b} : status'[x] = status[x] /\ owner'[x] = owner[x]
    BY <1>1, <1>2, <1>3 DEF TypeOK
  <2>2. status[b] # "CLOSING" /\ status'[b] # "CLOSING"
    BY <1>1, <1>2, <1>3 DEF TypeOK
  <2>3. \A x \in Bases : \/ status'[x] = status[x] /\ owner'[x] = owner[x]
                         \/ status[x] # "CLOSING" /\ status'[x] # "CLOSING"
    BY <2>1, <2>2
  <2> QED BY <1>1, <1>4, <2>3, ClosersStay
<1>12. OpeningNamed'
  BY <1>4 DEF OpeningNamed
<1> QED BY <1>6, <1>7, <1>8, <1>9, <1>10, <1>11, <1>12 DEF IInv

\* The thread that locked a base opens it again.
LEMMA OpenAgainStep ==
  ASSUME IInv, NEW t \in Thread, OpenAgain(t) PROVE IInv'
<1> DEFINE b == bases_by_name[arg[t]]
<1>1. /\ TypeOK /\ SlotsConsistent /\ HeldMatchesOwner /\ TreeMatchesSlots
      /\ ListsMatchStatus /\ ClosedByOwner /\ OpeningNamed /\ FilesMatchHandles
      /\ Waited(t) \in [Bases -> Int]
  BY WaitedType DEF IInv
<1>2. b \in Bases /\ status[b] = "USED" /\ owner[b] = t /\ pc[t] \notin Hooks
  BY <1>1 DEF OpenAgain, AtRetry, TypeOK, OpeningNamed, Opening, Hooks
<1> HIDE DEF b
<1>3. /\ count_open' = [count_open EXCEPT ![b] = @ + 1]
      /\ held' = [held EXCEPT ![t][b] = @ + 1]
      /\ Return(t, b)
      /\ count_waiting' = Waited(t)
      /\ UNCHANGED <<status, name, owner, handle, lists, files>>
  BY DEF OpenAgain, b
<1>4. /\ ThreadsMove(pc, pc')
      /\ lock' \in Thread \union {NoThread}
      /\ arg' \in [Thread -> Name \union {NoName}]
      /\ at' \in [Thread -> Bases \union {NoBase}]
      /\ expired' \in [Thread -> BOOLEAN]
      /\ \A u \in Thread : pc[u] \in Hooks => at'[u] = at[u]
      /\ \A u \in Thread : pc'[u] \in Opening => arg'[u] \in Name
  BY <1>2, <1>3, ReturnMoves
<1>5. TypeOK'
  <2>1. held' \in [Thread -> [Bases -> Nat]]
    <3>1. held[t][b] + 1 \in Nat
      BY <1>1, <1>2 DEF TypeOK
    <3>2. held' = [held EXCEPT ![t][b] = held[t][b] + 1]
      BY <1>3
    <3> QED BY <1>1, <1>2, <3>1, <3>2, HeldUpdated, Zenon
  <2>2. count_open' \in [Bases -> Nat]
    BY <1>1, <1>2, <1>3 DEF TypeOK
  <2> QED BY <1>1, <1>2, <1>3, <1>4, <2>1, <2>2, Zenon DEF TypeOK, ThreadsMove, lists
<1>6. SlotsConsistent'
  <2>1. count_open'[b] > 0 /\ \A x \in Bases \ {b} : count_open'[x] = count_open[x]
    BY <1>1, <1>2, <1>3 DEF TypeOK
  <2> QED BY <1>1, <1>2, <1>3, <2>1 DEF SlotsConsistent
<1>7. HeldMatchesOwner'
  BY <1>1, <1>2, <1>3 DEF TypeOK, HeldMatchesOwner
<1>8. TreeMatchesSlots' /\ FilesMatchHandles' /\ ListsMatchStatus'
  BY <1>1, <1>3 DEF TreeMatchesSlots, FilesMatchHandles, ListsMatchStatus, Enumerates, lists
<1>9. ClosedByOwner'
  <2>1. \A x \in Bases \ {b} : status'[x] = status[x] /\ owner'[x] = owner[x]
    BY <1>1, <1>2, <1>3 DEF TypeOK
  <2>2. status[b] # "CLOSING" /\ status'[b] # "CLOSING"
    BY <1>1, <1>2, <1>3 DEF TypeOK
  <2>3. \A x \in Bases : \/ status'[x] = status[x] /\ owner'[x] = owner[x]
                         \/ status[x] # "CLOSING" /\ status'[x] # "CLOSING"
    BY <2>1, <2>2
  <2> QED BY <1>1, <1>4, <2>3, ClosersStay
<1>10. OpeningNamed'
  BY <1>4 DEF OpeningNamed
<1> QED BY <1>5, <1>6, <1>7, <1>8, <1>9, <1>10 DEF IInv
=============================================================================
