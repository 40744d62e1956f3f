--------------------------- MODULE SqlxCacheProofs ---------------------------
(****************************************************************************)
(* Proofs about the cache of bases, for any number of threads, names and    *)
(* slots.  IInv is inductive: the opening steps preserve it by              *)
(* SqlxCacheOpenProofs, the closing and expiring ones by the lemmas below;  *)
(* the invariants of SqlxCache follow from it.                              *)
(****************************************************************************)
EXTENDS SqlxCacheOpenProofs

\* A stuttering step.
LEMMA StutterStep == ASSUME IInv, UNCHANGED vars PROVE IInv'
<1>1. TypeOK /\ OpeningNamed
  BY DEF IInv
<1>2. UNCHANGED <<status, name, owner, handle, count_open, count_waiting, lists, lock,
                  pc, arg, at, expired, held, files>>
  BY DEF vars, slots, threads
<1>3. ThreadsMove(pc, pc')
  BY <1>1, <1>2 DEF ThreadsMove, TypeOK
<1> QED BY <1>1, <1>2, <1>3, QuietStep DEF TypeOK, OpeningNamed

\* The oldest idle base becomes CLOSING and the thread enters its close hook.
LEMMA ExpireStep ==
  ASSUME IInv, NEW t \in Thread, OpenExpire(t) \/ ExpireNext(t) PROVE IInv'
<1> DEFINE b == Oldest(idle)
<1>1. /\ TypeOK /\ SlotsConsistent /\ HeldMatchesOwner /\ TreeMatchesSlots
      /\ ListsMatchStatus /\ ClosedByOwner /\ OpeningNamed /\ FilesMatchHandles
      /\ Waited(t) \in [Bases -> Int]
  BY WaitedType DEF IInv
<1>2. PICK hook \in Hooks : ExpireOldest(t, hook) /\ (hook = "hook_open" => arg[t] \in Name)
  BY <1>1 DEF OpenExpire, ExpireNext, Hooks, AtRetry, OpeningNamed, Opening
<1>3. /\ pc[t] \notin Hooks
      /\ count_waiting' \in [Bases -> Int]
      /\ UNCHANGED <<name, handle, count_open, free, bases_by_name, arg, expired, held, files>>
  BY <1>1 DEF OpenExpire, ExpireNext, Hooks, AtRetry, TypeOK
<1>4. b \in Bases /\ status[b] = "IDLE"
  <2>1. idle \in Seq(Bases) /\ idle # <<>> /\ Enumerates(idle, {x \in Bases : status[x] = "IDLE"})
    BY <1>1, <1>2 DEF ExpireOldest, ListsMatchStatus, TypeOK
  <2>2. Oldest(idle) \in {x \in Bases : status[x] = "IDLE"}
    BY <2>1, ListEnds, Zenon
  <2> QED BY <2>2
<1> HIDE DEF b
<1>5. /\ status' = [status EXCEPT ![b] = "CLOSING"]
      /\ owner' = [owner EXCEPT ![b] = t]
      /\ idle' = Unlink(idle, b)
      /\ at' = [at EXCEPT ![t] = b]
      /\ pc' \in Signal([pc EXCEPT ![t] = hook], b)
      /\ lock' = NoThread
  BY <1>2 DEF ExpireOldest, b
<1>6. /\ pc' \in [Thread -> Pcs]
      /\ pc'[t] = hook
      /\ \A u \in Thread \ {t} : \/ pc'[u] = pc[u]
                                 \/ pc[u] = "wait_used" /\ pc'[u] = "woken"
                                 \/ pc[u] = "wait_closing" /\ pc'[u] = "retry"
  <2>1. hook \in Pcs /\ hook \notin {"wait_used", "wait_closing"}
    BY <1>2 DEF Pcs, Hooks
  <2> QED BY <1>1, <1>5, <2>1, MoveAndSignal
<1>7. /\ idle' \in Seq(Bases)
      /\ Enumerates(idle', {x \in Bases : status[x] = "IDLE"} \ {b})
  BY <1>1, <1>4, <1>5, UnlinkRemoves, Zenon DEF ListsMatchStatus, TypeOK
<1>8. TypeOK'
  BY <1>1, <1>3, <1>4, <1>5, <1>6, <1>7, Zenon DEF TypeOK
<1>9. SlotsConsistent'
  BY <1>1, <1>3, <1>4, <1>5 DEF TypeOK, SlotsConsistent
<1>10. HeldMatchesOwner'
  BY <1>1, <1>3, <1>4, <1>5 DEF TypeOK, HeldMatchesOwner
<1>11. TreeMatchesSlots' /\ FilesMatchHandles'
  BY <1>1, <1>3, Zenon DEF TreeMatchesSlots, FilesMatchHandles
<1>12. ListsMatchStatus'
  <2>1. {x \in Bases : status'[x] = "FREE"} = {x \in Bases : status[x] = "FREE"}
    BY <1>1, <1>4, <1>5 DEF TypeOK
  <2>2. {x \in Bases : status'[x] = "IDLE"} = {x \in Bases : status[x] = "IDLE"} \ {b}
    BY <1>1, <1>4, <1>5 DEF TypeOK
  <2>3. Enumerates(free', {x \in Bases : status'[x] = "FREE"})
    BY <1>1, <1>3, <2>1, Zenon DEF ListsMatchStatus
  <2> QED BY <1>7, <2>2, <2>3, Zenon DEF ListsMatchStatus
<1>13. ClosedByOwner'
  <2>1. \A u \in Thread \ {t} : pc'[u] \in Hooks <=> pc[u] \in Hooks
    BY <1>6 DEF Hooks
  <2>2. ASSUME NEW x \in Bases, status'[x] = "CLOSING"
        PROVE  owner'[x] \in Thread /\ pc'[owner'[x]] \in Hooks /\ at'[owner'[x]] = x
    <3>1. CASE x = b
      BY <1>1, <1>2, <1>4, <1>5, <1>6, <3>1 DEF TypeOK
    <3>2. CASE x # b
      BY <1>1, <1>3, <1>4, <1>5, <2>1, <2>2, <3>2 DEF TypeOK, ClosedByOwner
    <3> QED BY <3>1, <3>2
  <2>3. ASSUME NEW u \in Thread, pc'[u] \in Hooks
        PROVE  at'[u] \in Bases /\ status'[at'[u]] = "CLOSING" /\ owner'[at'[u]] = u
    <3>1. CASE u = t
      BY <1>1, <1>4, <1>5, <3>1 DEF TypeOK
    <3>2. CASE u # t
      BY <1>1, <1>4, <1>5, <2>1, <2>3, <3>2 DEF TypeOK, ClosedByOwner
    <3> QED BY <3>1, <3>2
  <2> QED BY <2>2, <2>3 DEF ClosedByOwner
<1>14. OpeningNamed'
  BY <1>1, <1>2, <1>3, <1>6 DEF OpeningNamed, Opening, Hooks
<1> QED BY <1>8, <1>9, <1>10, <1>11, <1>12, <1>13, <1>14 DEF IInv

\* The close hook has returned: the slot is FREE and its name leaves the tree.
LEMMA HookDoneStep ==
  ASSUME IInv, NEW t \in Thread, HookDone(t) PROVE IInv'
<1> DEFINE b == at[t]
<1>1. /\ TypeOK /\ SlotsConsistent /\ HeldMatchesOwner /\ TreeMatchesSlots
      /\ ListsMatchStatus /\ ClosedByOwner /\ OpeningNamed /\ FilesMatchHandles
  BY DEF IInv
<1>2. b \in Bases /\ status[b] = "CLOSING" /\ owner[b] = t /\ name[b] \in Name /\ pc[t] \in Hooks
  BY <1>1 DEF HookDone, ClosedByOwner, SlotsConsistent
<1> HIDE DEF b
<1>3. /\ handle' = [handle EXCEPT ![b] = NoName]
      /\ owner' = [owner EXCEPT ![b] = NoThread]
      /\ name' = [name EXCEPT ![b] = NoName]
      /\ count_open' = [count_open EXCEPT ![b] = 0]
      /\ status' = [status EXCEPT ![b] = "FREE"]
      /\ free' = Unshift(free, b)
      /\ bases_by_name' = [bases_by_name EXCEPT ![name[b]] = NoBase]
      /\ files' = IF handle[b] = NoName THEN files ELSE [files EXCEPT ![handle[b]] = @ - 1]
      /\ pc' \in Signal([pc EXCEPT ![t] = AfterHook(pc[t])], b)
      /\ lock' \in Thread \union {NoThread}
      /\ at' = [at EXCEPT ![t] = NoBase]
      /\ UNCHANGED <<count_waiting, idle, arg, expired, held>>
  BY DEF HookDone, b
<1>4. /\ AfterHook(pc[t]) \in {"retry", "out", "expire", "expire_all"}
      /\ AfterHook(pc[t]) = "retry" => pc[t] = "hook_open"
  BY <1>2 DEF AfterHook, Hooks
<1>5. /\ pc' \in [Thread -> Pcs]
      /\ pc'[t] = AfterHook(pc[t])
      /\ \A u \in Thread \ {t} : \/ pc'[u] = pc[u]
                                 \/ pc[u] = "wait_used" /\ pc'[u] = "woken"
                                 \/ pc[u] = "wait_closing" /\ pc'[u] = "retry"
  <2>1. AfterHook(pc[t]) \in Pcs /\ AfterHook(pc[t]) \notin {"wait_used", "wait_closing"}
    BY <1>4 DEF Pcs
  <2> QED BY <1>1, <1>3, <2>1, MoveAndSignal
<1>6. /\ free' \in Seq(Bases)
      /\ Enumerates(free', {x \in Bases : status[x] = "FREE"} \union {b})
  BY <1>1, <1>2, <1>3, UnshiftAdds, Zenon DEF ListsMatchStatus, TypeOK
<1>7. TypeOK'
  <2>1. files' \in [Name -> Int]
    BY <1>1, <1>2, <1>3 DEF TypeOK
  <2>2. bases_by_name' \in [Name -> Bases \union {NoBase}] /\ at' \in [Thread -> Bases \union {NoBase}]
    BY <1>1, <1>2, <1>3 DEF TypeOK
  <2>3. /\ status' \in [Bases -> {"FREE", "IDLE", "USED", "CLOSING"}]
        /\ name' \in [Bases -> Name \union {NoName}]
        /\ owner' \in [Bases -> Thread \union {NoThread}]
        /\ handle' \in [Bases -> Name \union {NoName}]
        /\ count_open' \in [Bases -> Nat]
    BY <1>1, <1>2, <1>3 DEF TypeOK
  <2> QED BY <1>1, <1>3, <1>5, <1>6, <2>1, <2>2, <2>3 DEF TypeOK
<1>8. SlotsConsistent'
  BY <1>1, <1>2, <1>3 DEF TypeOK, SlotsConsistent
<1>9. HeldMatchesOwner'
  BY <1>1, <1>2, <1>3 DEF TypeOK, HeldMatchesOwner
<1>10. TreeMatchesSlots'
  <2>1. bases_by_name[name[b]] = b
    BY <1>1, <1>2 DEF TreeMatchesSlots
  <2> SUFFICES ASSUME NEW n \in Name, NEW x \in Bases PROVE bases_by_name'[n] = x <=> name'[x] = n
    BY DEF TreeMatchesSlots
  <2>2. CASE n = name[b]
    <3>1. bases_by_name'[n] = NoBase /\ NoBase # x
      BY <1>1, <1>2, <1>3, <2>2, CacheAssumption DEF TypeOK, Bases
    <3>2. name'[x] # n
      BY <1>1, <1>2, <1>3, <2>1, <2>2, CacheAssumption DEF TypeOK, TreeMatchesSlots
    <3> QED BY <3>1, <3>2
  <2>3. CASE n # name[b]
    BY <1>1, <1>2, <1>3, <2>1, <2>3, CacheAssumption DEF TypeOK, TreeMatchesSlots
  <2> QED BY <2>2, <2>3
<1>11. ListsMatchStatus'
  <2>1. {x \in Bases : status'[x] = "FREE"} = {x \in Bases : status[x] = "FREE"} \union {b}
    BY <1>1, <1>2, <1>3 DEF TypeOK
  <2>2. {x \in Bases : status'[x] = "IDLE"} = {x \in Bases : status[x] = "IDLE"}
    BY <1>1, <1>2, <1>3 DEF TypeOK
  <2> QED BY <1>1, <1>3, <1>6, <2>1, <2>2, Zenon DEF ListsMatchStatus
<1>12. ClosedByOwner'
  <2>1. pc'[t] \notin Hooks /\ \A u \in Thread \ {t} : pc'[u] \in Hooks <=> pc[u] \in Hooks
    BY <1>4, <1>5 DEF Hooks
  <2>2. ASSUME NEW x \in Bases, status'[x] = "CLOSING"
        PROVE  owner'[x] \in Thread /\ pc'[owner'[x]] \in Hooks /\ at'[owner'[x]] = x
    <3>1. x # b /\ status[x] = "CLOSING" /\ owner'[x] = owner[x]
      BY <1>1, <1>2, <1>3, <2>2 DEF TypeOK
    <3>2. owner[x] \in Thread /\ owner[x] # t /\ pc[owner[x]] \in Hooks /\ at[owner[x]] = x
      BY <1>1, <3>1 DEF ClosedByOwner, b
    <3> QED BY <1>1, <1>3, <2>1, <3>1, <3>2 DEF TypeOK
  <2>3. ASSUME NEW u \in Thread, pc'[u] \in Hooks
        PROVE  at'[u] \in Bases /\ status'[at'[u]] = "CLOSING" /\ owner'[at'[u]] = u
    <3>1. u # t /\ at'[u] = at[u] /\ at[u] \in Bases /\ status[at[u]] = "CLOSING" /\ owner[at[u]] = u
      BY <1>1, <1>3, <2>1, <2>3 DEF TypeOK, ClosedByOwner
    <3>2. at[u] # b
      BY <1>2, <3>1
    <3> QED BY <1>1, <1>2, <1>3, <3>1, <3>2 DEF TypeOK
  <2> QED BY <2>2, <2>3 DEF ClosedByOwner
<1>13. OpeningNamed'
  BY <1>1, <1>3, <1>4, <1>5 DEF OpeningNamed, Opening
<1>14. FilesMatchHandles'
  <2>1. \A x \in Bases : handle'[x] \in {NoName, name'[x]}
    BY <1>1, <1>2, <1>3 DEF TypeOK, FilesMatchHandles
  <2>2. ASSUME NEW n \in Name
        PROVE  files'[n] = IF \E x \in Bases : handle'[x] = n THEN 1 ELSE 0
    <3>1. CASE handle[b] = NoName
      BY <1>1, <1>2, <1>3, <3>1, CacheAssumption DEF TypeOK, FilesMatchHandles
    <3>2. CASE handle[b] # NoName
      <4>1. handle[b] = name[b]
        BY <1>1, <1>2, <3>2 DEF FilesMatchHandles
      <4>2. CASE n = name[b]
        <5>1. \A x \in Bases \ {b} : handle[x] # n
          BY <1>1, <1>2, <4>2, CacheAssumption DEF FilesMatchHandles, TreeMatchesSlots
        <5>2. files[n] = 1
          BY <1>1, <1>2, <4>1, <4>2 DEF FilesMatchHandles
        <5>3. files'[n] = 0
          BY <1>1, <1>2, <1>3, <3>2, <4>1, <4>2, <5>2 DEF TypeOK
        <5> QED BY <1>1, <1>2, <1>3, <5>1, <5>3, CacheAssumption DEF TypeOK
      <4>3. CASE n # name[b]
        BY <1>1, <1>2, <1>3, <3>2, <4>1, <4>3, CacheAssumption DEF TypeOK, FilesMatchHandles
      <4> QED BY <4>2, <4>3
    <3> QED BY <3>1, <3>2
  <2> QED BY <2>1, <2>2 DEF FilesMatchHandles
<1> QED BY <1>7, <1>8, <1>9, <1>10, <1>11, <1>12, <1>13, <1>14 DEF IInv

\* What any close of a base finds and does: the base is locked by the thread.
LEMMA ClosingFacts ==
  ASSUME IInv, NEW t \in Thread, NEW b \in Bases, Closing(t, b)
  PROVE  /\ status[b] = "USED" /\ owner[b] = t /\ held[t][b] = count_open[b]
         /\ count_open[b] \in Nat \ {0}
         /\ pc[t] = "out"
         /\ count_open' = [count_open EXCEPT ![b] = @ - 1]
         /\ count_open' \in [Bases -> Nat]
         /\ held' \in [Thread -> [Bases -> Nat]]
         /\ held'[t][b] = count_open[b] - 1
         /\ \A u \in Thread, x \in Bases : u # t \/ x # b => held'[u][x] = held[u][x]
<1>1. TypeOK /\ HeldMatchesOwner
  BY DEF IInv
<1>2. /\ status[b] = "USED" /\ owner[b] = t /\ held[t][b] = count_open[b]
      /\ count_open[b] \in Nat \ {0}
  BY <1>1 DEF Closing, HeldMatchesOwner, TypeOK
<1> DEFINE k == held[t][b] - 1
<1>3. k \in Nat /\ held' = [held EXCEPT ![t][b] = k]
  BY <1>2 DEF Closing
<1> HIDE DEF k
<1>4. /\ held' \in [Thread -> [Bases -> Nat]]
      /\ held'[t][b] = k
      /\ \A u \in Thread, x \in Bases : u # t \/ x # b => held'[u][x] = held[u][x]
  BY <1>1, <1>3, HeldUpdated, Zenon
<1>5. count_open' = [count_open EXCEPT ![b] = @ - 1] /\ count_open' \in [Bases -> Nat]
  BY <1>1, <1>2 DEF Closing, TypeOK
<1> QED BY <1>2, <1>4, <1>5 DEF Closing, k

\* The base is still open after this close.
LEMMA CloseNestedStep ==
  ASSUME IInv, NEW t \in Thread, NEW b \in Bases, CloseNested(t, b) PROVE IInv'
<1>1. /\ TypeOK /\ SlotsConsistent /\ HeldMatchesOwner /\ TreeMatchesSlots
      /\ ListsMatchStatus /\ ClosedByOwner /\ OpeningNamed /\ FilesMatchHandles
  BY DEF IInv
<1>2. /\ status[b] = "USED" /\ owner[b] = t /\ held[t][b] = count_open[b]
      /\ count_open[b] \in Nat \ {0} /\ pc[t] = "out"
      /\ count_open' = [count_open EXCEPT ![b] = @ - 1]
      /\ count_open' \in [Bases -> Nat]
      /\ held' \in [Thread -> [Bases -> Nat]]
      /\ held'[t][b] = count_open[b] - 1
      /\ \A u \in Thread, x \in Bases : u # t \/ x # b => held'[u][x] = held[u][x]
  BY ClosingFacts DEF CloseNested
<1>3. /\ count_open[b] # 1
      /\ Return(t, b)
      /\ UNCHANGED <<status, name, owner, handle, count_waiting, lists, files>>
  BY DEF CloseNested
<1>4. /\ ThreadsMove(pc, pc')
      /\ lock' \in Thread \union {NoThread}
      /\ arg' \in [Thread -> Name \union {NoName}]
      /\ at' \in [Thread -> Bases \union {NoBase}]
      /\ expired' \in [Thread -> BOOLEAN]
      /\ \A u \in Thread : pc[u] \in Hooks => at'[u] = at[u]
      /\ \A u \in Thread : pc'[u] \in Opening => arg'[u] \in Name
  BY <1>2, <1>3, ReturnMoves, SMTT(20) DEF Hooks
<1>5. count_open'[b] = count_open[b] - 1 /\ \A x \in Bases \ {b} : count_open'[x] = count_open[x]
  BY <1>1, <1>2 DEF TypeOK
<1>6. TypeOK'
  BY <1>1, <1>2, <1>3, <1>4, SMTT(20) DEF TypeOK, ThreadsMove, lists
<1>7. SlotsConsistent'
  BY <1>1, <1>2, <1>3, <1>5 DEF SlotsConsistent
<1>8. HeldMatchesOwner'
  BY <1>1, <1>2, <1>3, <1>5, SMTT(20) DEF HeldMatchesOwner
<1>9. TreeMatchesSlots' /\ FilesMatchHandles' /\ ListsMatchStatus'
  BY <1>1, <1>3 DEF TreeMatchesSlots, FilesMatchHandles, ListsMatchStatus, Enumerates, lists
<1>10. ClosedByOwner'
  BY <1>1, <1>3, <1>4, ClosersStay
<1>11. OpeningNamed'
  BY <1>4 DEF OpeningNamed
<1> QED BY <1>6, <1>7, <1>8, <1>9, <1>10, <1>11 DEF IInv

\* The last close leaves the base open and IDLE.
LEMMA CloseLastStep ==
  ASSUME IInv, NEW t \in Thread, NEW b \in Bases, CloseLast(t, b) PROVE IInv'
<1>1. /\ TypeOK /\ SlotsConsistent /\ HeldMatchesOwner /\ TreeMatchesSlots
      /\ ListsMatchStatus /\ ClosedByOwner /\ OpeningNamed /\ FilesMatchHandles
  BY DEF IInv
<1>2. /\ status[b] = "USED" /\ owner[b] = t /\ held[t][b] = count_open[b]
      /\ count_open[b] \in Nat \ {0} /\ pc[t] = "out"
      /\ count_open' = [count_open EXCEPT ![b] = @ - 1]
      /\ count_open' \in [Bases -> Nat]
      /\ held' \in [Thread -> [Bases -> Nat]]
      /\ held'[t][b] = count_open[b] - 1
      /\ \A u \in Thread, x \in Bases : u # t \/ x # b => held'[u][x] = held[u][x]
  BY ClosingFacts DEF CloseLast
<1>3. /\ count_open[b] = 1
      /\ owner' = [owner EXCEPT ![b] = NoThread]
      /\ status' = [status EXCEPT ![b] = "IDLE"]
      /\ idle' = Unshift(idle, b)
      /\ Return(t, b)
      /\ UNCHANGED <<name, handle, count_waiting, free, bases_by_name, files>>
  BY DEF CloseLast
<1>4. /\ ThreadsMove(pc, pc')
      /\ lock' \in Thread \union {NoThread}
      /\ arg' \in [Thread -> Name \union {NoName}]
      /\ at' \in [Thread -> Bases \union {NoBase}]
      /\ expired' \in [Thread -> BOOLEAN]
      /\ \A u \in Thread : pc[u] \in Hooks => at'[u] = at[u]
      /\ \A u \in Thread : pc'[u] \in Opening => arg'[u] \in Name
  BY <1>2, <1>3, ReturnMoves DEF Hooks
<1>5. count_open'[b] = 0 /\ \A x \in Bases \ {b} : count_open'[x] = count_open[x]
  BY <1>1, <1>2, <1>3 DEF TypeOK
<1>6. /\ idle' \in Seq(Bases)
      /\ Enumerates(idle', {x \in Bases : status[x] = "IDLE"} \union {b})
  BY <1>1, <1>2, <1>3, UnshiftAdds, Zenon DEF ListsMatchStatus, TypeOK
<1>7. TypeOK'
  BY <1>1, <1>2, <1>3, <1>4, <1>6 DEF TypeOK, ThreadsMove
<1>8. SlotsConsistent'
  BY <1>1, <1>2, <1>3, <1>5 DEF TypeOK, SlotsConsistent
<1>9. HeldMatchesOwner'
  BY <1>1, <1>2, <1>3, <1>5, SMTT(20) DEF TypeOK, HeldMatchesOwner
<1>10. TreeMatchesSlots' /\ FilesMatchHandles'
  BY <1>1, <1>3, Zenon DEF TreeMatchesSlots, FilesMatchHandles
<1>11. ListsMatchStatus'
  <2>1. {x \in Bases : status'[x] = "FREE"} = {x \in Bases : status[x] = "FREE"}
    BY <1>1, <1>2, <1>3 DEF TypeOK
  <2>2. {x \in Bases : status'[x] = "IDLE"} = {x \in Bases : status[x] = "IDLE"} \union {b}
    BY <1>1, <1>2, <1>3 DEF TypeOK
  <2>3. Enumerates(free', {x \in Bases : status'[x] = "FREE"})
    BY <1>1, <1>3, <2>1, Zenon DEF ListsMatchStatus
  <2> QED BY <1>6, <2>2, <2>3, Zenon DEF ListsMatchStatus
<1>12. ClosedByOwner'
  <2>1. \A x \in Bases \ {b} : status'[x] = status[x] /\ owner'[x] = owner[x]
    BY <1>1, <1>2, <1>3 DEF TypeOK
  <2>2. status[b] # "CLOSING" /\ status'[b] # "CLOSING"
    BY <1>1, <1>2, <1>3 DEF TypeOK
  <2>3. \A x \in Bases : \/ status'[x] = status[x] /\ owner'[x] = owner[x]
                         \/ status[x] # "CLOSING" /\ status'[x] # "CLOSING"
    BY <2>1, <2>2
  <2> QED BY <1>1, <1>4, <2>3, ClosersStay
<1>13. OpeningNamed'
  BY <1>4 DEF OpeningNamed
<1> QED BY <1>7, <1>8, <1>9, <1>10, <1>11, <1>12, <1>13 DEF IInv

\* The last close, forced: the base is CLOSING and its closer is in the hook.
LEMMA CloseForceStep ==
  ASSUME IInv, NEW t \in Thread, NEW b \in Bases, CloseForce(t, b) PROVE IInv'
<1>1. /\ TypeOK /\ SlotsConsistent /\ HeldMatchesOwner /\ TreeMatchesSlots
      /\ ListsMatchStatus /\ ClosedByOwner /\ OpeningNamed /\ FilesMatchHandles
  BY DEF IInv
<1>2. /\ status[b] = "USED" /\ owner[b] = t /\ held[t][b] = count_open[b]
      /\ count_open[b] \in Nat \ {0} /\ pc[t] = "out"
      /\ count_open' = [count_open EXCEPT ![b] = @ - 1]
      /\ count_open' \in [Bases -> Nat]
      /\ held' \in [Thread -> [Bases -> Nat]]
      /\ held'[t][b] = count_open[b] - 1
      /\ \A u \in Thread, x \in Bases : u # t \/ x # b => held'[u][x] = held[u][x]
  BY ClosingFacts DEF CloseForce
<1>3. /\ count_open[b] = 1
      /\ status' = [status EXCEPT ![b] = "CLOSING"]
      /\ at' = [at EXCEPT ![t] = b]
      /\ pc' \in Signal([pc EXCEPT ![t] = "hook_close"], b)
      /\ lock' = NoThread
      /\ UNCHANGED <<name, owner, handle, count_waiting, lists, arg, expired, files>>
  BY DEF CloseForce
<1>4. /\ pc' \in [Thread -> Pcs]
      /\ pc'[t] = "hook_close"
      /\ \A u \in Thread \ {t} : \/ pc'[u] = pc[u]
                                 \/ pc[u] = "wait_used" /\ pc'[u] = "woken"
                                 \/ pc[u] = "wait_closing" /\ pc'[u] = "retry"
  <2>1. "hook_close" \in Pcs /\ "hook_close" \notin {"wait_used", "wait_closing"}
    BY DEF Pcs, Hooks
  <2> QED BY <1>1, <1>3, <2>1, MoveAndSignal
<1>5. count_open'[b] = 0 /\ \A x \in Bases \ {b} : count_open'[x] = count_open[x]
  BY <1>1, <1>2, <1>3 DEF TypeOK
<1>6. TypeOK'
  BY <1>1, <1>2, <1>3, <1>4, Zenon DEF TypeOK, lists
<1>7. SlotsConsistent'
  BY <1>1, <1>2, <1>3, <1>5 DEF TypeOK, SlotsConsistent
<1>8. HeldMatchesOwner'
  BY <1>1, <1>2, <1>3, <1>5 DEF TypeOK, HeldMatchesOwner
<1>9. TreeMatchesSlots' /\ FilesMatchHandles'
  BY <1>1, <1>3, Zenon DEF TreeMatchesSlots, FilesMatchHandles, lists
<1>10. ListsMatchStatus'
  <2>1. {x \in Bases : status'[x] = "FREE"} = {x \in Bases : status[x] = "FREE"}
    BY <1>1, <1>2, <1>3 DEF TypeOK
  <2>2. {x \in Bases : status'[x] = "IDLE"} = {x \in Bases : status[x] = "IDLE"}
    BY <1>1, <1>2, <1>3 DEF TypeOK
  <2> QED BY <1>1, <1>3, <2>1, <2>2, Zenon DEF ListsMatchStatus, lists
<1>11. ClosedByOwner'
  <2>1. \A u \in Thread \ {t} : pc'[u] \in Hooks <=> pc[u] \in Hooks
    BY <1>4 DEF Hooks
  <2>2. pc[t] \notin Hooks /\ pc'[t] \in Hooks
    BY <1>2, <1>4 DEF Hooks
  <2>3. ASSUME NEW x \in Bases, status'[x] = "CLOSING"
        PROVE  owner'[x] \in Thread /\ pc'[owner'[x]] \in Hooks /\ at'[owner'[x]] = x
    <3>1. CASE x = b
      BY <1>1, <1>2, <1>3, <2>2, <3>1, SMTT(20) DEF TypeOK
    <3>2. CASE x # b
      BY <1>1, <1>3, <2>1, <2>2, <2>3, <3>2 DEF TypeOK, ClosedByOwner
    <3> QED BY <3>1, <3>2
  <2>4. ASSUME NEW u \in Thread, pc'[u] \in Hooks
        PROVE  at'[u] \in Bases /\ status'[at'[u]] = "CLOSING" /\ owner'[at'[u]] = u
    <3>1. CASE u = t
      BY <1>1, <1>2, <1>3, <3>1, SMTT(20) DEF TypeOK
    <3>2. CASE u # t
      BY <1>1, <1>2, <1>3, <2>1, <2>4, <3>2 DEF TypeOK, ClosedByOwner
    <3> QED BY <3>1, <3>2
  <2> QED BY <2>3, <2>4 DEF ClosedByOwner
<1>12. OpeningNamed'
  BY <1>1, <1>3, <1>4 DEF OpeningNamed, Opening
<1> QED BY <1>6, <1>7, <1>8, <1>9, <1>10, <1>11, <1>12 DEF IInv

\* The owner attaches the handle it opened; no other slot has this database.
LEMMA SetHandleStep ==
  ASSUME IInv, NEW t \in Thread, NEW b \in Bases, SetHandle(t, b) PROVE IInv'
<1>1. /\ TypeOK /\ SlotsConsistent /\ HeldMatchesOwner /\ TreeMatchesSlots
      /\ ListsMatchStatus /\ ClosedByOwner /\ OpeningNamed /\ FilesMatchHandles
  BY DEF IInv
<1>2. status[b] = "USED" /\ name[b] \in Name /\ handle[b] = NoName
  BY <1>1 DEF SetHandle, HeldMatchesOwner, SlotsConsistent, TypeOK
<1>3. /\ handle' = [handle EXCEPT ![b] = name[b]]
      /\ files' = [files EXCEPT ![name[b]] = @ + 1]
      /\ UNCHANGED <<status, name, owner, count_open, count_waiting, lists, lock, threads>>
  BY DEF SetHandle
<1>4. TypeOK'
  BY <1>1, <1>2, <1>3 DEF TypeOK, lists, threads
<1>5. SlotsConsistent'
  BY <1>1, <1>2, <1>3, SMTT(20) DEF TypeOK, SlotsConsistent
<1>6. HeldMatchesOwner' /\ TreeMatchesSlots' /\ ClosedByOwner' /\ OpeningNamed'
  BY <1>1, <1>3 DEF HeldMatchesOwner, TreeMatchesSlots, ClosedByOwner, OpeningNamed, lists, threads
<1>7. ListsMatchStatus'
  BY <1>1, <1>3, Zenon DEF ListsMatchStatus, lists
<1>8. FilesMatchHandles'
  <2>1. \A x \in Bases \ {b} : name[x] # name[b]
    BY <1>1, <1>2 DEF TreeMatchesSlots
  <2>2. \A x \in Bases : handle[x] # name[b]
    BY <1>1, <1>2, <2>1, CacheAssumption DEF FilesMatchHandles
  <2>3. files[name[b]] = 0
    BY <1>1, <1>2, <2>2 DEF FilesMatchHandles
  <2>4. ASSUME NEW n \in Name
        PROVE  files'[n] = IF \E x \in Bases : handle'[x] = n THEN 1 ELSE 0
    <3>1. CASE n = name[b]
      BY <1>1, <1>2, <1>3, <2>3, <3>1 DEF TypeOK
    <3>2. CASE n # name[b]
      BY <1>1, <1>2, <1>3, <3>2, CacheAssumption DEF TypeOK, FilesMatchHandles
    <3> QED BY <3>1, <3>2
  <2>5. \A x \in Bases : handle'[x] \in {NoName, name'[x]}
    BY <1>1, <1>2, <1>3 DEF TypeOK, FilesMatchHandles
  <2> QED BY <2>4, <2>5 DEF FilesMatchHandles
<1> QED BY <1>4, <1>5, <1>6, <1>7, <1>8 DEF IInv

\* Every step of the cache preserves the invariant.
LEMMA IInvStep == IInv /\ [Next]_vars => IInv'
<1> SUFFICES ASSUME IInv, [Next]_vars PROVE IInv'
  OBVIOUS
<1>1. CASE UNCHANGED vars
  BY <1>1, StutterStep
<1>2. CASE Next
  <2>1. PICK t \in Thread :
          \/ \E n \in Name : OpenCall(t, n)
          \/ Inside(t)
          \/ Deadline(t)
          \/ SpuriousWakeup(t)
          \/ \E b \in Bases : CloseNested(t, b) \/ CloseLast(t, b) \/ CloseForce(t, b) \/ SetHandle(t, b)
          \/ t \in Janitor /\ \E how \in {"expire", "expire_all"} : ExpireCall(t, how)
    BY <1>2 DEF Next
  <2>2. CASE \/ \E n \in Name : OpenCall(t, n)
             \/ OpenSpin(t) \/ OpenRefused(t) \/ OpenWaitUsed(t) \/ OpenWaitClosing(t)
             \/ Deadline(t) \/ OpenLate(t) \/ SpuriousWakeup(t) \/ ExpireReturn(t)
             \/ \E how \in {"expire", "expire_all"} : ExpireCall(t, how)
    BY <2>2, QuietActions
  <2>3. CASE OpenReserve(t)
    BY <2>3, ReserveStep
  <2>4. CASE OpenExpire(t) \/ ExpireNext(t)
    BY <2>4, ExpireStep
  <2>5. CASE OpenIdle(t)
    BY <2>5, OpenIdleStep
  <2>6. CASE OpenAgain(t)
    BY <2>6, OpenAgainStep
  <2>7. CASE HookDone(t)
    BY <2>7, HookDoneStep
  <2>8. ASSUME NEW b \in Bases, CloseNested(t, b) \/ CloseLast(t, b) \/ CloseForce(t, b) \/ SetHandle(t, b)
        PROVE  IInv'
    BY <2>8, CloseNestedStep, CloseLastStep, CloseForceStep, SetHandleStep
  <2> QED BY <2>1, <2>2, <2>3, <2>4, <2>5, <2>6, <2>7, <2>8 DEF Inside
<1> QED BY <1>1, <1>2

\* The invariant holds in every state the cache reaches, for any number of
\* threads, names, slots and conditions.
THEOREM CacheInvariant == Spec => []IInv
<1>1. Init => IInv
  BY InitIInv
<1>2. IInv /\ [Next]_vars => IInv'
  BY IInvStep
<1> QED BY <1>1, <1>2, PTL DEF Spec

\* A base opened by a thread is USED, locked by this thread and no other, and
\* counts exactly its opens: two threads never work on one base, and no close
\* reaches an assertion (sqlx_cache_unlock_and_close_base()).
THEOREM CacheMutualExclusion == Spec => []MutualExclusion
<1>1. IInv => MutualExclusion
  BY DEF IInv, TypeOK, HeldMatchesOwner, MutualExclusion
<1> QED BY <1>1, CacheInvariant, PTL

\* No database is ever open through two handles, the close hook that runs
\* without the mutex included (_expire_base()).
THEOREM CacheOneHandlePerBase == Spec => []OneHandlePerBase
<1>1. IInv => OneHandlePerBase
  BY DEF IInv, FilesMatchHandles, OneHandlePerBase
<1> QED BY <1>1, CacheInvariant, PTL
=============================================================================
