------------------------------ MODULE SqlxCache ------------------------------
(****************************************************************************)
(* The cache of open sqlite bases (sqliterepo/cache.c).                     *)
(*                                                                          *)
(* A fixed array of slots ("bases") holds the open databases of a service.  *)
(* Worker threads open a base by name, which locks it for the thread, and   *)
(* close it later; an unused base stays open (IDLE) until it is opened      *)
(* again or expired.  All the state is protected by one mutex, released     *)
(* while a thread waits on the condition of a slot and while the close hook *)
(* of a base runs.  An action below is one stretch of code executed under   *)
(* the mutex; 'lock' names the thread that keeps the mutex across actions.  *)
(*                                                                          *)
(* Left out: the IDLE_HOT list (a base enters it when its 'heat' reaches    *)
(* heat_threshold, and no line of the code ever raises 'heat'), the USED    *)
(* list (only counted), and the clock: a deadline may pass at any time.     *)
(****************************************************************************)
EXTENDS Integers, Sequences, FiniteSets

CONSTANTS
  Thread,        \* the worker threads (g_thread_self())
  Name,          \* the names of the bases
  bases_count,   \* number of slots allocated; slot 0 is never handed out
  cond_count,    \* number of conditions shared by the slots
  max_waiting,   \* max. threads waiting for one slot; none if <= 0
  TimedOpen,     \* TRUE iff open_timeout >= 0 (a wait has a deadline)
  Janitor,       \* the threads that run the periodic expiration
  MaxHeld,       \* bound: bases a thread may hold at once
  MaxDepth,      \* bound: times a thread may open a base it already holds
  NoThread, NoName, NoBase

ASSUME CacheAssumption ==
  /\ bases_count \in Nat /\ bases_count >= 2
  /\ cond_count \in Nat \ {0}
  /\ max_waiting \in Int
  /\ TimedOpen \in BOOLEAN
  /\ Janitor \subseteq Thread
  /\ MaxHeld \in Nat
  /\ MaxDepth \in Nat
  /\ NoThread \notin Thread
  /\ NoName \notin Name
  /\ NoBase \notin Nat

\* sqlx_cache_reset_bases() loops while i # 0: slot 0 enters no list.
Bases == 1..(bases_count - 1)

VARIABLES
  status,         \* per slot: FREE, IDLE, USED or CLOSING
  name,           \* per slot: the name registered, or NoName
  owner,          \* per slot: the thread that locked it, or NoThread
  handle,         \* per slot: the name of the database its sqlite handle is open on, or NoName
  count_open,     \* per slot: how many times it has been opened by its owner
  count_waiting,  \* per slot: threads waiting for the slot to be released
  free,           \* beacon_free, first slot first
  idle,           \* beacon_idle, most recently used first
  bases_by_name,  \* the tree: name -> slot, or NoBase
  lock,           \* the cache-wide mutex, when it is kept between two actions
  pc,             \* per thread: where it is in the code
  arg,            \* per thread: the name it is opening
  at,             \* per thread: the slot it waits on, or whose handle it closes
  expired,        \* per thread: the deadline of its open has passed
  held,           \* per thread: opens not closed yet, by slot
  files           \* per name: live sqlite handles on this database

slots == <<status, name, owner, handle, count_open, count_waiting>>
lists == <<free, idle, bases_by_name>>
threads == <<pc, arg, at, expired, held>>
vars == <<slots, lists, lock, threads, files>>

(****************************************************************************)
(* Conditions.  Slot i uses cond_array[i % cond_count].                     *)
(****************************************************************************)
Cond(b) == b % cond_count

Waiters(p, c) ==
  {t \in Thread : p[t] \in {"wait_used", "wait_closing"} /\ Cond(at[t]) = c}

\* g_cond_timed_wait() returns TRUE: a waiter for a USED slot still has to
\* decrement count_waiting, both go back to 'retry'.
Wake(p, t) ==
  [p EXCEPT ![t] = IF p[t] = "wait_used" THEN "woken" ELSE "retry"]

\* g_cond_signal() wakes one of the waiters, whichever slot it waits for.
Signal(p, b) ==
  IF Waiters(p, Cond(b)) = {} THEN {p}
  ELSE {Wake(p, t) : t \in Waiters(p, Cond(b))}

MutexFree(t) == lock \in {NoThread, t}

(****************************************************************************)
(* Lists: SQLX_UNSHIFT puts a slot first, SQLX_REMOVE takes it anywhere.    *)
(****************************************************************************)
Unshift(list, b) == <<b>> \o list

Position(list, b) == CHOOSE i \in 1..Len(list) : list[i] = b

Unlink(list, b) ==
  LET i == Position(list, b)
  IN  SubSeq(list, 1, i - 1) \o SubSeq(list, i + 1, Len(list))

Oldest(list) == list[Len(list)]

Init ==
  /\ status = [b \in Bases |-> "FREE"]
  /\ name = [b \in Bases |-> NoName]
  /\ owner = [b \in Bases |-> NoThread]
  /\ handle = [b \in Bases |-> NoName]
  /\ count_open = [b \in Bases |-> 0]
  /\ count_waiting = [b \in Bases |-> 0]
  /\ free = [b \in Bases |-> b]
  /\ idle = <<>>
  /\ bases_by_name = [n \in Name |-> NoBase]
  /\ lock = NoThread
  /\ pc = [t \in Thread |-> "out"]
  /\ arg = [t \in Thread |-> NoName]
  /\ at = [t \in Thread |-> NoBase]
  /\ expired = [t \in Thread |-> FALSE]
  /\ held = [t \in Thread |-> [b \in Bases |-> 0]]
  /\ files = [n \in Name |-> 0]

(****************************************************************************)
(* sqlx_cache_open_and_lock_base().  OpenCall computes the deadline and     *)
(* queues on the mutex.  The actions that follow run from the label 'retry' *)
(* to the next point where the mutex is released.                           *)
(****************************************************************************)
HeldBy(t) == {b \in Bases : held[t][b] > 0}

OpenCall(t, n) ==
  /\ pc[t] = "out"
  /\ IF \E b \in HeldBy(t) : name[b] = n
     THEN \A b \in HeldBy(t) : name[b] = n => held[t][b] < MaxDepth
     ELSE Cardinality(HeldBy(t)) < MaxHeld
  /\ pc' = [pc EXCEPT ![t] = "retry"]
  /\ arg' = [arg EXCEPT ![t] = n]
  /\ UNCHANGED <<slots, lists, lock, at, expired, held, files>>

AtRetry(t) == pc[t] \in {"retry", "woken"} /\ MutexFree(t)

\* Mutant: the decrement is forgotten.
WaitedUncounted(t) == count_waiting

\* count_waiting once t, back from its wait, has decremented it.
Waited(t) ==
  IF pc[t] = "woken" THEN [count_waiting EXCEPT ![at[t]] = @ - 1]
  ELSE count_waiting

\* Leave the function: the mutex is released, the locals die.
Leave(t) ==
  /\ lock' = NoThread
  /\ arg' = [arg EXCEPT ![t] = NoName]
  /\ at' = [at EXCEPT ![t] = NoBase]
  /\ expired' = [expired EXCEPT ![t] = FALSE]

\* Leave the function once the condition of slot b has been signalled.
Return(t, b) ==
  /\ pc' \in Signal([pc EXCEPT ![t] = "out"], b)
  /\ Leave(t)

\* The name is unknown and a slot is free: sqlx_base_reserve().
OpenReserve(t) ==
  /\ AtRetry(t)
  /\ bases_by_name[arg[t]] = NoBase
  /\ free # <<>>
  /\ LET b == Head(free) IN
     /\ status' = [status EXCEPT ![b] = "USED"]
     /\ name' = [name EXCEPT ![b] = arg[t]]
     /\ owner' = [owner EXCEPT ![b] = t]
     /\ handle' = [handle EXCEPT ![b] = NoName]
     /\ count_open' = [count_open EXCEPT ![b] = 1]
     /\ bases_by_name' = [bases_by_name EXCEPT ![arg[t]] = b]
     /\ held' = [held EXCEPT ![t][b] = @ + 1]
     /\ Return(t, b)
  /\ free' = Tail(free)
  /\ count_waiting' = Waited(t)
  /\ UNCHANGED <<idle, files>>

\* _expire_specific_base() on the oldest idle slot, up to the close hook:
\* the slot is CLOSING, one waiter is signalled, the mutex is released.
ExpireOldest(t, hook) ==
  /\ idle # <<>>
  /\ LET b == Oldest(idle) IN
     /\ status' = [status EXCEPT ![b] = "CLOSING"]
     /\ owner' = [owner EXCEPT ![b] = t]
     /\ idle' = Unlink(idle, b)
     /\ at' = [at EXCEPT ![t] = b]
     /\ pc' \in Signal([pc EXCEPT ![t] = hook], b)
  /\ lock' = NoThread

\* No slot is free: close the oldest idle base, then retry.
OpenExpire(t) ==
  /\ AtRetry(t)
  /\ bases_by_name[arg[t]] = NoBase
  /\ free = <<>>
  /\ ExpireOldest(t, "hook_open")
  /\ count_waiting' = Waited(t)
  /\ UNCHANGED <<name, handle, count_open, free, bases_by_name, arg, expired, held, files>>

\* No slot is free and none is idle: sqlx_expire_first_idle_base() returns 0,
\* the test ">= 0" passes and the thread retries without leaving the mutex.
OpenSpin(t) ==
  /\ AtRetry(t)
  /\ bases_by_name[arg[t]] = NoBase
  /\ free = <<>> /\ idle = <<>>
  /\ lock' = t
  /\ pc' = [pc EXCEPT ![t] = "retry"]
  /\ count_waiting' = Waited(t)
  /\ UNCHANGED <<status, name, owner, handle, count_open, lists, arg, at, expired, held, files>>

\* Mutant: the slot is not removed from the list of the idle ones.
OpenIdleLeaked(t) ==
  /\ AtRetry(t)
  /\ LET b == bases_by_name[arg[t]] IN
     /\ b # NoBase
     /\ status[b] = "IDLE"
     /\ status' = [status EXCEPT ![b] = "USED"]
     /\ count_open' = [count_open EXCEPT ![b] = @ + 1]
     /\ owner' = [owner EXCEPT ![b] = t]
     /\ held' = [held EXCEPT ![t][b] = @ + 1]
     /\ Return(t, b)
  /\ count_waiting' = Waited(t)
  /\ UNCHANGED <<name, handle, lists, files>>

\* The base is known and IDLE.
OpenIdle(t) ==
  /\ AtRetry(t)
  /\ LET b == bases_by_name[arg[t]] IN
     /\ b # NoBase
     /\ status[b] = "IDLE"
     /\ status' = [status EXCEPT ![b] = "USED"]
     /\ idle' = Unlink(idle, b)
     /\ count_open' = [count_open EXCEPT ![b] = @ + 1]
     /\ owner' = [owner EXCEPT ![b] = t]
     /\ held' = [held EXCEPT ![t][b] = @ + 1]
     /\ Return(t, b)
  /\ count_waiting' = Waited(t)
  /\ UNCHANGED <<name, handle, free, bases_by_name, files>>

\* Mutant: the owner is not compared with the calling thread.
OpenAgainUnowned(t) ==
  /\ AtRetry(t)
  /\ LET b == bases_by_name[arg[t]] IN
     /\ b # NoBase
     /\ status[b] = "USED"
     /\ owner' = [owner EXCEPT ![b] = t]
     /\ count_open' = [count_open EXCEPT ![b] = @ + 1]
     /\ held' = [held EXCEPT ![t][b] = @ + 1]
     /\ Return(t, b)
  /\ count_waiting' = Waited(t)
  /\ UNCHANGED <<status, name, handle, lists, files>>

\* The base is USED by the calling thread itself.
OpenAgain(t) ==
  /\ AtRetry(t)
  /\ LET b == bases_by_name[arg[t]] IN
     /\ b # NoBase
     /\ status[b] = "USED" /\ owner[b] = t
     /\ count_open' = [count_open EXCEPT ![b] = @ + 1]
     /\ held' = [held EXCEPT ![t][b] = @ + 1]
     /\ Return(t, b)
  /\ count_waiting' = Waited(t)
  /\ UNCHANGED <<status, name, owner, handle, lists, files>>

InUse(t, b) == b # NoBase /\ status[b] = "USED" /\ owner[b] # t

TooManyWaiting(t, b) == max_waiting > 0 /\ Waited(t)[b] >= max_waiting

\* The base is USED by another thread and too many threads wait for it:
\* CODE_UNAVAILABLE.
OpenRefused(t) ==
  /\ AtRetry(t)
  /\ LET b == bases_by_name[arg[t]] IN
     /\ InUse(t, b)
     /\ TooManyWaiting(t, b)
     /\ Return(t, b)
  /\ count_waiting' = Waited(t)
  /\ UNCHANGED <<status, name, owner, handle, count_open, lists, held, files>>

\* Mutant: g_cond_wait() in place of g_cond_timed_wait().
WaitOnForever(t, b, wait, late) ==
  /\ at' = [at EXCEPT ![t] = b]
  /\ pc' = [pc EXCEPT ![t] = wait]
  /\ lock' = NoThread

\* g_cond_timed_wait() on slot b: it fails at once when the deadline is past.
WaitOn(t, b, wait, late) ==
  /\ at' = [at EXCEPT ![t] = b]
  /\ pc' = [pc EXCEPT ![t] = IF expired[t] THEN late ELSE wait]
  /\ lock' = NoThread

OpenWaitUsed(t) ==
  /\ AtRetry(t)
  /\ LET b == bases_by_name[arg[t]] IN
     /\ InUse(t, b)
     /\ ~TooManyWaiting(t, b)
     /\ count_waiting' = [Waited(t) EXCEPT ![b] = @ + 1]
     /\ WaitOn(t, b, "wait_used", "late_used")
  /\ UNCHANGED <<status, name, owner, handle, count_open, lists, arg, expired, held, files>>

OpenWaitClosing(t) ==
  /\ AtRetry(t)
  /\ LET b == bases_by_name[arg[t]] IN
     /\ b # NoBase
     /\ status[b] = "CLOSING"
     /\ WaitOn(t, b, "wait_closing", "late_closing")
  /\ count_waiting' = Waited(t)
  /\ UNCHANGED <<status, name, owner, handle, count_open, lists, arg, expired, held, files>>

\* The deadline of an open passes; a thread that waits stops waiting.
Deadline(t) ==
  /\ TimedOpen
  /\ pc[t] \in {"retry", "woken", "wait_used", "wait_closing", "hook_open"}
  /\ ~expired[t]
  /\ expired' = [expired EXCEPT ![t] = TRUE]
  /\ pc' = [pc EXCEPT ![t] = CASE @ = "wait_used" -> "late_used"
                                [] @ = "wait_closing" -> "late_closing"
                                [] OTHER -> @]
  /\ UNCHANGED <<slots, lists, lock, arg, at, held, files>>

\* The wait failed: give up with CODE_UNAVAILABLE.
OpenLate(t) ==
  /\ pc[t] \in {"late_used", "late_closing"}
  /\ MutexFree(t)
  /\ count_waiting' = IF pc[t] = "late_used"
                      THEN [count_waiting EXCEPT ![at[t]] = @ - 1]
                      ELSE count_waiting
  /\ Return(t, at[t])
  /\ UNCHANGED <<status, name, owner, handle, count_open, lists, held, files>>

\* A wait on a condition may return without any signal.
SpuriousWakeup(t) ==
  /\ pc[t] \in {"wait_used", "wait_closing"}
  /\ pc' = Wake(pc, t)
  /\ UNCHANGED <<slots, lists, lock, arg, at, expired, held, files>>

(****************************************************************************)
(* The close hook has returned: end of _expire_base(), and the signal its   *)
(* callers send.  The mutex is kept by the callers that loop.               *)
(****************************************************************************)
Hooks == {"hook_open", "hook_close", "hook_expire", "hook_expire_all"}

AfterHook(p) ==
  CASE p = "hook_open" -> "retry"
    [] p = "hook_close" -> "out"
    [] p = "hook_expire" -> "expire"
    [] p = "hook_expire_all" -> "expire_all"

HookDone(t) ==
  /\ pc[t] \in Hooks
  /\ MutexFree(t)
  /\ LET b == at[t] IN
     /\ handle' = [handle EXCEPT ![b] = NoName]
     /\ owner' = [owner EXCEPT ![b] = NoThread]
     /\ name' = [name EXCEPT ![b] = NoName]
     /\ count_open' = [count_open EXCEPT ![b] = 0]
     /\ status' = [status EXCEPT ![b] = "FREE"]
     /\ free' = Unshift(free, b)
     /\ bases_by_name' = [bases_by_name EXCEPT ![name[b]] = NoBase]
     /\ files' = IF handle[b] = NoName THEN files
                 ELSE [files EXCEPT ![handle[b]] = @ - 1]
     /\ pc' \in Signal([pc EXCEPT ![t] = AfterHook(@)], b)
  /\ lock' = IF pc[t] = "hook_close" THEN NoThread ELSE t
  /\ at' = [at EXCEPT ![t] = NoBase]
  /\ UNCHANGED <<count_waiting, idle, arg, expired, held>>

(****************************************************************************)
(* sqlx_cache_unlock_and_close_base(), called by a thread for a base it     *)
(* opened: nested, last, and last with 'force'.                             *)
(****************************************************************************)
Closing(t, b) ==
  /\ pc[t] = "out" /\ held[t][b] > 0
  /\ lock = NoThread
  /\ status[b] = "USED"
  /\ count_open' = [count_open EXCEPT ![b] = @ - 1]
  /\ held' = [held EXCEPT ![t][b] = @ - 1]

CloseNested(t, b) ==
  /\ Closing(t, b)
  /\ count_open[b] # 1
  /\ Return(t, b)
  /\ UNCHANGED <<status, name, owner, handle, count_waiting, lists, files>>

CloseLast(t, b) ==
  /\ Closing(t, b)
  /\ count_open[b] = 1
  /\ owner' = [owner EXCEPT ![b] = NoThread]
  /\ status' = [status EXCEPT ![b] = "IDLE"]
  /\ idle' = Unshift(idle, b)
  /\ Return(t, b)
  /\ UNCHANGED <<name, handle, count_waiting, free, bases_by_name, files>>

\* Mutant: the name leaves the tree before the hook, not after.
CloseForceEarly(t, b) ==
  /\ Closing(t, b)
  /\ count_open[b] = 1
  /\ status' = [status EXCEPT ![b] = "CLOSING"]
  /\ at' = [at EXCEPT ![t] = b]
  /\ bases_by_name' = [bases_by_name EXCEPT ![name[b]] = NoBase]
  /\ pc' \in Signal([pc EXCEPT ![t] = "hook_close"], b)
  /\ lock' = NoThread
  /\ UNCHANGED <<name, owner, handle, count_waiting, free, idle, arg, expired, files>>

CloseForce(t, b) ==
  /\ Closing(t, b)
  /\ count_open[b] = 1
  /\ status' = [status EXCEPT ![b] = "CLOSING"]
  /\ at' = [at EXCEPT ![t] = b]
  /\ pc' \in Signal([pc EXCEPT ![t] = "hook_close"], b)
  /\ lock' = NoThread
  /\ UNCHANGED <<name, owner, handle, count_waiting, lists, arg, expired, files>>

\* sqlx_cache_set_handle(): the owner attaches the sqlite handle it opened.
SetHandle(t, b) ==
  /\ pc[t] = "out" /\ held[t][b] > 0
  /\ handle[b] = NoName
  /\ handle' = [handle EXCEPT ![b] = name[b]]
  /\ files' = [files EXCEPT ![name[b]] = @ + 1]
  /\ UNCHANGED <<status, name, owner, count_open, count_waiting, lists, lock, threads>>

(****************************************************************************)
(* sqlx_cache_expire() and sqlx_cache_expire_all().  The former also stops  *)
(* at its limit, at its deadline or at a base still in its grace delay.     *)
(* They are called from the periodic tasks, outside of any request.         *)
(****************************************************************************)
ExpireCall(t, how) ==
  /\ pc[t] = "out" /\ HeldBy(t) = {}
  /\ pc' = [pc EXCEPT ![t] = how]
  /\ UNCHANGED <<slots, lists, lock, arg, at, expired, held, files>>

ExpireNext(t) ==
  /\ pc[t] \in {"expire", "expire_all"}
  /\ MutexFree(t)
  /\ ExpireOldest(t, IF pc[t] = "expire" THEN "hook_expire" ELSE "hook_expire_all")
  /\ UNCHANGED <<name, handle, count_open, count_waiting, free, bases_by_name, arg, expired, held, files>>

ExpireReturn(t) ==
  /\ pc[t] = "expire" \/ (pc[t] = "expire_all" /\ idle = <<>>)
  /\ MutexFree(t)
  /\ pc' = [pc EXCEPT ![t] = "out"]
  /\ Leave(t)
  /\ UNCHANGED <<slots, lists, held, files>>

\* The steps a thread takes once it is inside the cache's code.
Inside(t) ==
  \/ OpenReserve(t) \/ OpenExpire(t) \/ OpenSpin(t) \/ OpenIdle(t) \/ OpenAgain(t)
  \/ OpenRefused(t) \/ OpenWaitUsed(t) \/ OpenWaitClosing(t) \/ OpenLate(t)
  \/ HookDone(t) \/ ExpireNext(t) \/ ExpireReturn(t)

Next ==
  \E t \in Thread :
    \/ \E n \in Name : OpenCall(t, n)
    \/ Inside(t)
    \/ Deadline(t)
    \/ SpuriousWakeup(t)
    \/ \E b \in Bases : CloseNested(t, b) \/ CloseLast(t, b) \/ CloseForce(t, b) \/ SetHandle(t, b)
    \/ t \in Janitor /\ \E how \in {"expire", "expire_all"} : ExpireCall(t, how)

Spec == Init /\ [][Next]_vars

(****************************************************************************)
(* Fairness: a thread that runs inside the cache keeps running (its close   *)
(* hook returns, it gets the mutex in the end), and time passes.  Nothing   *)
(* obliges a caller to open, or to close what it opened.                    *)
(****************************************************************************)
Fairness == \A t \in Thread : SF_vars(Inside(t)) /\ WF_vars(Deadline(t))

FairSpec == Spec /\ Fairness

-----------------------------------------------------------------------------
Pcs == {"out", "retry", "woken", "wait_used", "wait_closing", "late_used",
        "late_closing", "expire", "expire_all"} \union Hooks

TypeOK ==
  /\ status \in [Bases -> {"FREE", "IDLE", "USED", "CLOSING"}]
  /\ name \in [Bases -> Name \union {NoName}]
  /\ owner \in [Bases -> Thread \union {NoThread}]
  /\ handle \in [Bases -> Name \union {NoName}]
  /\ count_open \in [Bases -> Nat]
  /\ count_waiting \in [Bases -> Int]
  /\ free \in Seq(Bases)
  /\ idle \in Seq(Bases)
  /\ bases_by_name \in [Name -> Bases \union {NoBase}]
  /\ lock \in Thread \union {NoThread}
  /\ pc \in [Thread -> Pcs]
  /\ arg \in [Thread -> Name \union {NoName}]
  /\ at \in [Thread -> Bases \union {NoBase}]
  /\ expired \in [Thread -> BOOLEAN]
  /\ held \in [Thread -> [Bases -> Nat]]
  /\ files \in [Name -> Int]

\* A base that some thread opened and did not close yet is USED, locked by this
\* thread and by no other, and its count of opens is exactly the opens of the
\* thread: no close can hit the g_assert_not_reached() branches, and two threads
\* never work on one base, whatever closings and expirations overlap.
MutualExclusion ==
  \A t \in Thread, b \in Bases :
    held[t][b] > 0 => /\ status[b] = "USED"
                      /\ owner[b] = t
                      /\ count_open[b] = held[t][b]
                      /\ \A u \in Thread \ {t} : held[u][b] = 0

\* A database file is never open through two sqlite handles, even while the
\* close hook of its former slot runs without the mutex: the name leaves the
\* tree only after the hook.
OneHandlePerBase == \A n \in Name : files[n] \in {0, 1}

\* The tree and the slots agree: a name leads to the one slot that carries it,
\* so that "free base referenced" is never reached.
TreeMatchesSlots ==
  \A n \in Name, b \in Bases : bases_by_name[n] = b <=> name[b] = n

\* A list holds exactly the slots of a set, each once.
Enumerates(list, S) ==
  /\ S = {list[i] : i \in 1..Len(list)}
  /\ \A i, j \in 1..Len(list) : list[i] = list[j] => i = j

\* Each slot is in the list of its status and only there, once: none is leaked
\* by the removals from the middle of a list.
ListsMatchStatus ==
  /\ Enumerates(free, {b \in Bases : status[b] = "FREE"})
  /\ Enumerates(idle, {b \in Bases : status[b] = "IDLE"})

\* A slot that is CLOSING is being closed by exactly one thread, its owner, that
\* is inside the close hook for it: no base stays CLOSING without a closer, and
\* none is closed twice.
ClosedByOwner ==
  /\ \A b \in Bases : status[b] = "CLOSING" =>
       /\ owner[b] \in Thread
       /\ pc[owner[b]] \in Hooks
       /\ at[owner[b]] = b
  /\ \A t \in Thread : pc[t] \in Hooks =>
       /\ at[t] \in Bases
       /\ status[at[t]] = "CLOSING"
       /\ owner[at[t]] = t

\* count_waiting is the number of threads that wait, or are back from a wait,
\* for the slot; it never exceeds max_waiting.
WaitingCounted ==
  \A b \in Bases :
    /\ count_waiting[b] = Cardinality({t \in Thread :
         pc[t] \in {"wait_used", "woken", "late_used"} /\ at[t] = b})
    /\ max_waiting > 0 => count_waiting[b] <= max_waiting

(****************************************************************************)
(* The rest of the inductive invariant that SqlxCacheProofs establishes.    *)
(****************************************************************************)
\* What the EXTRA_ASSERTs of the code say of a slot in each status.
SlotsConsistent ==
  \A b \in Bases :
    /\ status[b] = "FREE" => name[b] = NoName /\ owner[b] = NoThread
                             /\ handle[b] = NoName /\ count_open[b] = 0
    /\ status[b] = "IDLE" => name[b] \in Name /\ owner[b] = NoThread /\ count_open[b] = 0
    /\ status[b] = "USED" => name[b] \in Name /\ owner[b] \in Thread /\ count_open[b] > 0
    /\ status[b] = "CLOSING" => name[b] \in Name /\ owner[b] \in Thread /\ count_open[b] = 0

HeldMatchesOwner ==
  \A t \in Thread, b \in Bases :
    held[t][b] = IF status[b] = "USED" /\ owner[b] = t THEN count_open[b] ELSE 0

Opening == {"retry", "woken", "wait_used", "wait_closing", "late_used",
            "late_closing", "hook_open"}

OpeningNamed == \A t \in Thread : pc[t] \in Opening => arg[t] \in Name

FilesMatchHandles ==
  /\ \A b \in Bases : handle[b] \in {NoName, name[b]}
  /\ \A n \in Name : files[n] = IF \E b \in Bases : handle[b] = n THEN 1 ELSE 0

IInv ==
  /\ TypeOK
  /\ SlotsConsistent
  /\ HeldMatchesOwner
  /\ TreeMatchesSlots
  /\ ListsMatchStatus
  /\ ClosedByOwner
  /\ OpeningNamed
  /\ FilesMatchHandles

\* Every open returns: a base, or CODE_UNAVAILABLE once the deadline is past.
OpenReturns == \A t \in Thread : pc[t] = "retry" ~> pc[t] = "out"

\* A thread waits for a base only while another thread still works with the
\* cache: "If someone is waiting on the base while it is being closed [...] we
\* must notify him so it can retry (and open it in another file descriptor)".
NobodyForgotten ==
  (\E t \in Thread : pc[t] \in {"wait_used", "wait_closing"})
    => \E u \in Thread : \/ pc[u] \notin {"out", "wait_used", "wait_closing"}
                         \/ HeldBy(u) # {}
=============================================================================
