------------------------------- MODULE Election -------------------------------
(****************************************************************************)
(* The election of a master among the services that replicate one base      *)
(* (sqliterepo/election.c, with the connection of sqliterepo/synchro.c).    *)
(*                                                                          *)
(* Each service has a "member" for the base.  A member enters the election  *)
(* by creating an ephemeral sequential znode, lists the znodes of the base, *)
(* and compares its version of the base with its peers' (GETVERS) before it *)
(* becomes LEADER, when its own znode comes first, or LOST.  An action is   *)
(* one callback or call of the code, executed under the manager's lock: it  *)
(* applies transition() to the member.                                      *)
(*                                                                          *)
(* ZooKeeper is external: it serves the requests of one connection in the   *)
(* order they were sent, answers in that order, and triggers each watch     *)
(* once, before the answer to any later request of the same connection.     *)
(*                                                                          *)
(* Left out: the reference counts, the log and the conditions signalled,    *)
(* the clock (a delay may pass at any time, but see Stale), and the USE     *)
(* requests, whose only effect is an EVT_NONE at a peer: any member may     *)
(* receive EVT_NONE at any time.                                            *)
(****************************************************************************)
EXTENDS Integers, Sequences, FiniteSets, Functions

CONSTANTS
  Node,          \* the services of the group
  Answers,       \* what a GETVERS may tell: a subset of Verdicts
  ZkErrors,      \* TRUE iff ZooKeeper may answer with an API error
  StartErrors,   \* TRUE iff sending a request to ZooKeeper may fail
  PeersErrors,   \* TRUE iff resolving the peers of a base may fail
  MaxId,         \* bound: znodes ever created
  Budget,        \* bound: how many times each kind of incident happens
  NoNode

Verdicts == {"GETVERS_OK", "GETVERS_OUTDATED", "GETVERS_CONCURRENT", "GETVERS_ERROR"}
Incidents == {"exit", "exit_all", "resync", "crash", "disconnect", "lose"}

ASSUME ElectionAssumption ==
  /\ IsFiniteSet(Node) /\ Cardinality(Node) >= 2
  /\ NoNode \notin Node
  /\ Answers \subseteq Verdicts
  /\ ZkErrors \in BOOLEAN /\ StartErrors \in BOOLEAN /\ PeersErrors \in BOOLEAN
  /\ MaxId \in Nat
  /\ Budget \in [Incidents -> Nat]

Steps == {"NONE", "CANDREQ", "CANDOK", "LEAVING", "PRELOST", "PRELEAD",
          "LOST", "LEADER", "FAILED"}
Ids == 0..MaxId
NoId == -1
Peers == Cardinality(Node) - 1

VARIABLES
  member,    \* per node: its struct election_member_s, and what it has sent
  exiting,   \* per node: manager->exiting
  znode,     \* the znodes of the base: id -> its data and whether its session is open
  seq,       \* the next id ZooKeeper gives
  watch,     \* per node: its watches, [id, kind]
  ans,       \* per node: the events its ZooKeeper thread has still to deliver
  left       \* the incidents that may still happen

vars == <<member, exiting, znode, seq, watch, ans, left>>

-----------------------------------------------------------------------------
(* The member and the helpers that change it.  Each returns the member, or  *)
(* the set of the members it may become where a call of it may fail.        *)

\* 'live' counts the answers on their way that carry the current reqid_GETVERS,
\* 'pipes' the PIPEFROM requests whose end is still to be notified, and 'req' is
\* what the connection to ZooKeeper has still to serve.
NewMember ==
  [step |-> "NONE", myid |-> NoId, master_id |-> NoId, master_url |-> NoNode,
   pending_GETVERS |-> 0, live |-> 0, errors_GETVERS |-> 0, concurrent_GETVERS |-> 0,
   requested_PIPEFROM |-> FALSE, pending_PIPEFROM |-> FALSE, pipes |-> 0,
   requested_USE |-> FALSE, req |-> <<>>]

member_reset_master(m) == [m EXCEPT !.master_id = NoId, !.master_url = NoNode]

\* Mutant: the reqid of the round is kept, so that its answers still count.
ResetKeepsRound(m) ==
  [m EXCEPT !.pending_GETVERS = 0, !.errors_GETVERS = 0,
            !.concurrent_GETVERS = 0, !.pending_PIPEFROM = FALSE]

member_reset_pending(m) ==
  [m EXCEPT !.pending_GETVERS = 0, !.live = 0, !.errors_GETVERS = 0,
            !.concurrent_GETVERS = 0, !.pending_PIPEFROM = FALSE]

member_reset(m) == [member_reset_pending(member_reset_master(m)) EXCEPT !.myid = NoId]

member_set_status(m, s) == [m EXCEPT !.step = s]

member_set_master_id(m, id) ==
  [m EXCEPT !.master_id = id, !.master_url = IF id = m.master_id THEN @ ELSE NoNode]

member_has_action(m) ==
  m.requested_PIPEFROM \/ m.pending_PIPEFROM \/ m.pending_GETVERS > 0

member_RESYNC_if_not_pending(m) ==
  [m EXCEPT !.requested_PIPEFROM = @ \/ ~m.pending_PIPEFROM]

\* The step_*_start() functions: a request to ZooKeeper, about znode 'id'.
step_start(m, op, id) == [m EXCEPT !.req = Append(@, [op |-> op, id |-> id])]

OrFailed(m, started) ==
  {started} \cup (IF StartErrors THEN {member_set_status(m, "FAILED")} ELSE {})

become_leaver(m) ==
  LET l == member_set_status(member_reset_pending(member_reset_master(m)), "LEAVING")
  IN  OrFailed(l, step_start(l, "delete", l.myid))

become_candidate(m) ==
  LET c == member_set_status(member_reset_master(m), "CANDOK")
  IN  OrFailed(c, step_start(c, "list", NoId))

restart_election(m, x) ==
  IF m.myid > 0 THEN become_leaver(m)
  ELSE IF x THEN {member_set_status(member_reset(m), "NONE")}
  ELSE LET c == [member_reset(m) EXCEPT !.requested_USE = FALSE, !.step = "CANDREQ"]
       IN  OrFailed(c, step_start(c, "create", NoId))
             \cup (IF PeersErrors THEN {member_set_status(c, "FAILED")} ELSE {})

\* A new round of GETVERS; the answers to the former one are no longer current.
defer_GETVERS(m) ==
  {[m EXCEPT !.pending_GETVERS = Peers, !.live = Peers]}
    \cup (IF PeersErrors THEN {m} ELSE {})

defer_PIPEFROM(m) ==
  IF m.pending_PIPEFROM THEN m
  ELSE [m EXCEPT !.requested_PIPEFROM = FALSE, !.pending_PIPEFROM = TRUE, !.pipes = @ + 1]

\* Sends USE to the peers, which has no effect here, unless they are unknown.
member_ping(m) == {m} \cup (IF PeersErrors THEN become_leaver(m) ELSE {})

\* Mutant: the list is sorted the other way round.
LastOfList(ids) == CHOOSE i \in ids : \A j \in ids : j <= i

First(ids) == CHOOSE i \in ids : \A j \in ids : i <= j

manage_list(m, ids, x) ==
  IF m.myid \notin ids THEN restart_election(m, x)
  ELSE IF m.myid = First(ids)
  THEN defer_GETVERS(member_set_status(member_set_master_id(m, m.myid), "PRELEAD"))
  ELSE LET l == member_set_status(member_set_master_id(m, First(ids)), "PRELOST")
       IN  defer_GETVERS(step_start(l, "get", l.master_id))
             \cup (IF StartErrors THEN become_leaver(l) ELSE {})

\* member_concerned_by_GETVERS() for an answer with the current reqid_GETVERS.
Concerned(m) == [m EXCEPT !.pending_GETVERS = @ - 1]

\* The counters of answers are only compared to 1: more than 2 is counted as 2.
OneMore(count) == IF count > 1 THEN count ELSE count + 1

\* Both finish functions take the counters and clear them.
Taken(m) == [m EXCEPT !.errors_GETVERS = 0, !.concurrent_GETVERS = 0]

member_finish_PRELOST(m) ==
  IF member_has_action(m) THEN {m}
  ELSE IF m.errors_GETVERS > 1 THEN become_leaver(Taken(m))
  ELSE IF m.concurrent_GETVERS > 1 THEN {member_RESYNC_if_not_pending(Taken(m))}
  ELSE {[Taken(m) EXCEPT !.step = IF m.master_url # NoNode THEN "LOST" ELSE @]}

member_finish_PRELEAD(m) ==
  IF member_has_action(m) THEN {m}
  ELSE IF m.errors_GETVERS > 1 \/ m.concurrent_GETVERS > 1 THEN become_leaver(Taken(m))
  ELSE {member_set_status(Taken(m), "LEADER")}

\* member_pending_for_too_long(): delay_max_idle (30s) is longer than the 5s a
\* GETVERS may last, so the answers still current have come or will never come.
Stale(m) == m.live = 0

-----------------------------------------------------------------------------
(* _transition(), one operator per step; e is the event, with its argument  *)
(* where it has one, and x tells if the manager is exiting.                 *)

in_NONE(m, e, x) ==
  IF e.evt \in {"NONE", "RESYNC_REQ"} THEN restart_election(m, x) ELSE {m}

in_CANDREQ(m, e) ==
  CASE e.evt = "RESYNC_REQ" -> {member_RESYNC_if_not_pending(m)}
    [] e.evt = "EXITING" -> become_leaver(m)
    [] e.evt = "CREATE_OK" ->
         LET c == [m EXCEPT !.myid = e.arg]
         IN  become_candidate(step_start(c, "exists", c.myid))
               \cup (IF StartErrors THEN {member_set_status(c, "FAILED")} ELSE {})
    [] e.evt = "CREATE_KO" -> {member_set_status(m, "FAILED")}
    [] OTHER -> {m}

in_CANDOK(m, e, x) ==
  CASE e.evt = "NONE" -> member_ping(m)
    [] e.evt = "RESYNC_REQ" -> {member_RESYNC_if_not_pending(m)}
    [] e.evt = "EXITING" -> become_leaver(m)
    [] e.evt = "LIST_OK" -> manage_list(m, e.arg, x)
    [] e.evt \in {"LIST_KO", "NODE_LEFT"} -> become_candidate(m)
    [] OTHER -> {m}

\* Mutant: a change of the master is ignored until the status is final.
PrelostDeaf(m, e) ==
  CASE e.evt = "NONE" -> (IF Stale(m) THEN defer_GETVERS(m) ELSE {}) \cup member_ping(m)
    [] e.evt = "EXITING" -> become_leaver(m)
    [] e.evt = "MASTER_OK" -> member_finish_PRELOST([m EXCEPT !.master_url = e.arg])
    [] e.evt = "GETVERS_OK" -> member_finish_PRELOST(Concerned(m))
    [] e.evt \in {"MASTER_CHANGE"} -> {m}
    [] OTHER -> become_candidate(m)

in_PRELOST(m, e) ==
  CASE e.evt = "NONE" -> (IF Stale(m) THEN defer_GETVERS(m) ELSE {}) \cup member_ping(m)
    [] e.evt = "RESYNC_REQ" -> {member_RESYNC_if_not_pending(m)}
    [] e.evt = "EXITING" -> become_leaver(m)
    [] e.evt = "MASTER_OK" -> member_finish_PRELOST([m EXCEPT !.master_url = e.arg])
    [] e.evt = "GETVERS_OK" -> member_finish_PRELOST(Concerned(m))
    [] e.evt = "GETVERS_OUTDATED" -> {member_RESYNC_if_not_pending(Concerned(m))}
    [] e.evt = "GETVERS_CONCURRENT" ->
         member_finish_PRELOST([Concerned(m) EXCEPT !.concurrent_GETVERS = OneMore(@)])
    [] e.evt = "GETVERS_ERROR" ->
         member_finish_PRELOST([Concerned(m) EXCEPT !.errors_GETVERS = OneMore(@)])
    [] e.evt = "RESYNC_DONE" ->
         {IF ~member_has_action(m) /\ m.master_url # NoNode
          THEN member_set_status(m, "LOST") ELSE m}
    [] OTHER -> become_candidate(m)

\* Mutant: GETVERS is never sent again (as before TO-HONEYCOMB-757).
PreleadPatient(m, e) ==
  CASE e.evt = "NONE" -> member_ping(m)
    [] e.evt \in {"RESYNC_REQ", "EXITING"} -> become_leaver(m)
    [] e.evt = "GETVERS_OK" -> member_finish_PRELEAD(Concerned(m))
    [] OTHER -> become_candidate(m)

in_PRELEAD(m, e) ==
  CASE e.evt = "NONE" -> (IF Stale(m) THEN defer_GETVERS(m) ELSE {}) \cup member_ping(m)
    [] e.evt \in {"RESYNC_REQ", "EXITING"} -> become_leaver(m)
    [] e.evt = "GETVERS_OK" -> member_finish_PRELEAD(Concerned(m))
    [] e.evt = "GETVERS_OUTDATED" -> become_leaver(Concerned(m))
    [] e.evt = "GETVERS_CONCURRENT" ->
         member_finish_PRELEAD([Concerned(m) EXCEPT !.concurrent_GETVERS = OneMore(@)])
    [] e.evt = "GETVERS_ERROR" ->
         member_finish_PRELEAD([Concerned(m) EXCEPT !.errors_GETVERS = OneMore(@)])
    [] OTHER -> become_candidate(m)

in_LEAVING(m, e, x) ==
  CASE e.evt = "NONE" -> {[m EXCEPT !.requested_USE = @ \/ ~x]}
    [] e.evt = "RESYNC_REQ" -> {member_RESYNC_if_not_pending(m)}
    [] e.evt = "LEAVE_OK" -> {member_set_status(member_reset(m), "NONE")}
    [] e.evt = "LEAVE_KO" -> become_leaver(m)
    [] OTHER -> {m}

\* Mutant: the change of the master does not restart the candidacy.
LostDeaf(m, e) ==
  CASE e.evt \in {"EXITING", "NODE_LEFT"} -> become_leaver(m)
    [] e.evt = "RESYNC_REQ" -> {[m EXCEPT !.requested_PIPEFROM = TRUE, !.step = "PRELOST"]}
    [] OTHER -> {m}

in_LOST(m, e) ==
  CASE e.evt = "NONE" -> member_ping(m)
    [] e.evt \in {"EXITING", "NODE_LEFT"} -> become_leaver(m)
    [] e.evt \in {"MASTER_KO", "MASTER_CHANGE"} -> become_candidate(m)
    [] e.evt = "RESYNC_REQ" -> {[m EXCEPT !.requested_PIPEFROM = TRUE, !.step = "PRELOST"]}
    [] OTHER -> {m}

\* Mutant: the leader goes on leading while it leaves.
LeaderLingers(m, e) ==
  IF e.evt \in {"RESYNC_REQ", "EXITING", "NODE_LEFT"}
  THEN {step_start(m, "delete", m.myid)} ELSE {m}

in_LEADER(m, e) ==
  CASE e.evt = "NONE" -> member_ping(m)
    [] e.evt \in {"RESYNC_REQ", "EXITING", "NODE_LEFT"} -> become_leaver(m)
    [] OTHER -> {m}

in_FAILED(m, e, x) ==
  CASE e.evt = "NONE" -> restart_election(m, x) \cup member_ping(m)
    [] e.evt = "RESYNC_REQ" -> restart_election(member_RESYNC_if_not_pending(m), x)
    [] e.evt \in {"CREATE_KO", "NODE_LEFT"} -> {member_reset(m)}
    [] OTHER -> {m}

\* Mutant: the member is reset but its step is kept.
DisconnectedPending(m) == {member_reset(m)}

on_DISCONNECTED(m) == {member_set_status(member_reset(m), "FAILED")}

_transition(m, e, x) ==
  CASE e.evt = "DISCONNECTED" -> on_DISCONNECTED(m)
    [] OTHER ->
  LET n == IF e.evt = "RESYNC_DONE" THEN [m EXCEPT !.pending_PIPEFROM = FALSE] ELSE m
  IN  CASE n.step = "NONE"    -> in_NONE(n, e, x)
        [] n.step = "CANDREQ" -> in_CANDREQ(n, e)
        [] n.step = "CANDOK"  -> in_CANDOK(n, e, x)
        [] n.step = "PRELOST" -> in_PRELOST(n, e)
        [] n.step = "PRELEAD" -> in_PRELEAD(n, e)
        [] n.step = "LEAVING" -> in_LEAVING(n, e, x)
        [] n.step = "LOST"    -> in_LOST(n, e)
        [] n.step = "LEADER"  -> in_LEADER(n, e)
        [] n.step = "FAILED"  -> in_FAILED(n, e, x)

\* The end of transition(): what was requested meanwhile starts if it can.
Requested(m, x) ==
  LET p == IF m.requested_PIPEFROM /\ m.master_url # NoNode THEN defer_PIPEFROM(m) ELSE m
  IN  IF p.requested_USE /\ p.step = "NONE" THEN restart_election(p, x) ELSE {p}

transition(m, e, x) == UNION {Requested(t, x) : t \in _transition(m, e, x)}

-----------------------------------------------------------------------------
(* ZooKeeper.                                                               *)

Event(evt, arg) == [evt |-> evt, arg |-> arg]

\* The callbacks of the watches of node n on a znode that disappears.
Triggered(n, id) ==
  (IF [id |-> id, kind |-> "node"] \in watch[n]
   THEN <<Event("WatchNode_change", NoId)>> ELSE <<>>) \o
  (IF [id |-> id, kind |-> "master"] \in watch[n]
   THEN <<Event("WatchMaster_change", NoId)>> ELSE <<>>)

Without(id) == [i \in DOMAIN znode \ {id} |-> znode[i]]
Unwatched(id) == [n \in Node |-> {w \in watch[n] : w.id # id}]

\* The oldest request of n is taken, and e (if any) is answered.
Answer(n, events) ==
  /\ member' = [member EXCEPT ![n].req = Tail(@)]
  /\ ans' = [ans EXCEPT ![n] = @ \o events]

Asked(n, op) == member[n].req # <<>> /\ Head(member[n].req).op = op
Target(n) == Head(member[n].req).id

\* An ephemeral znode whose data is the URL of the service.
ServeCreate(n) ==
  /\ Asked(n, "create") /\ seq <= MaxId
  /\ znode' = [i \in DOMAIN znode \cup {seq} |->
                 IF i = seq THEN [url |-> n, open |-> TRUE] ELSE znode[i]]
  /\ seq' = seq + 1
  /\ Answer(n, <<Event("CREATE_OK", seq)>>)
  /\ UNCHANGED <<exiting, watch, left>>

\* step_WatchNode: nothing is done when the znode exists.
ServeExists(n) ==
  /\ Asked(n, "exists")
  /\ IF Target(n) \in DOMAIN znode
     THEN /\ Answer(n, <<>>)
          /\ watch' = [watch EXCEPT ![n] = @ \cup {[id |-> Target(n), kind |-> "node"]}]
     ELSE Answer(n, <<Event("NODE_LEFT", NoId)>>) /\ UNCHANGED watch
  /\ UNCHANGED <<exiting, znode, seq, left>>

ServeList(n) ==
  /\ Asked(n, "list")
  /\ Answer(n, <<Event("LIST_OK", DOMAIN znode)>>)
  /\ UNCHANGED <<exiting, znode, seq, watch, left>>

ServeGet(n) ==
  /\ Asked(n, "get")
  /\ IF Target(n) \in DOMAIN znode
     THEN /\ Answer(n, <<Event("MASTER_OK", znode[Target(n)].url)>>)
          /\ watch' = [watch EXCEPT ![n] = @ \cup {[id |-> Target(n), kind |-> "master"]}]
     ELSE Answer(n, <<Event("MASTER_KO", NoId)>>) /\ UNCHANGED watch
  /\ UNCHANGED <<exiting, znode, seq, left>>

\* A znode that does not exist (ZNONODE) has been left as well.
ServeDelete(n) ==
  LET id == Target(n) IN
  /\ Asked(n, "delete")
  /\ znode' = Without(id)
  /\ watch' = Unwatched(id)
  /\ member' = [member EXCEPT ![n].req = Tail(@)]
  /\ ans' = [k \in Node |-> ans[k] \o Triggered(k, id)
                              \o (IF k = n THEN <<Event("LEAVE_OK", NoId)>> ELSE <<>>)]
  /\ UNCHANGED <<exiting, seq, left>>

\* transition_error() of an API error: the request had no effect.
KO == [create |-> "CREATE_KO", exists |-> "NONE", list |-> "LIST_KO",
       get |-> "MASTER_KO", delete |-> "LEAVE_KO"]

ServeError(n) ==
  /\ ZkErrors /\ member[n].req # <<>>
  /\ Answer(n, <<Event(KO[Head(member[n].req).op], NoId)>>)
  /\ UNCHANGED <<exiting, znode, seq, watch, left>>

Serve(n) ==
  \/ ServeCreate(n) \/ ServeExists(n) \/ ServeList(n)
  \/ ServeGet(n) \/ ServeDelete(n) \/ ServeError(n)

-----------------------------------------------------------------------------
(* The events of a member.                                                  *)

Transition(n, m, e) ==
  \E t \in transition(m, e, exiting[n]) : member' = [member EXCEPT ![n] = t]

\* step_*_completion(), step_WatchNode_change() and step_WatchMaster_change(),
\* run one at a time by the ZooKeeper thread; a watch is ignored when exiting.
Deliver(n) ==
  /\ ans[n] # <<>>
  /\ LET e == Head(ans[n]) IN
       CASE e.evt \in {"WatchNode_change", "WatchMaster_change"} /\ exiting[n] ->
              UNCHANGED member
         [] e.evt = "WatchNode_change" /\ ~exiting[n] ->
              Transition(n, member[n], Event("NODE_LEFT", NoId))
         [] e.evt = "WatchMaster_change" /\ ~exiting[n] ->
              Transition(n, member[n], Event("MASTER_CHANGE", NoId))
         [] OTHER -> Transition(n, member[n], e)
  /\ ans' = [ans EXCEPT ![n] = Tail(@)]
  /\ UNCHANGED <<exiting, znode, seq, watch, left>>

\* on_end_GETVERS(): an answer with the current reqid_GETVERS.
on_end_GETVERS(n, verdict) ==
  /\ member[n].live > 0
  /\ Transition(n, [member[n] EXCEPT !.live = @ - 1], Event(verdict, NoId))
  /\ UNCHANGED <<exiting, znode, seq, watch, ans, left>>

\* on_end_PIPEFROM() hands transition() the reqid of the member itself: the end of
\* any PIPEFROM counts as the end of the current one.
on_end_PIPEFROM(n) ==
  /\ member[n].pipes > 0
  /\ Transition(n, [member[n] EXCEPT !.pipes = @ - 1], Event("RESYNC_DONE", NoId))
  /\ UNCHANGED <<exiting, znode, seq, watch, ans, left>>

\* EVT_NONE: election_start(), election_get_status(), a USE from a peer, or
\* retry_elections() for a pending member.
Kick(n) ==
  /\ Transition(n, member[n], Event("NONE", NoId))
  /\ UNCHANGED <<exiting, znode, seq, watch, ans, left>>

Spend(kind) == left[kind] > 0 /\ left' = [left EXCEPT ![kind] = @ - 1]

\* election_trigger_RESYNC()
Resync(n) ==
  /\ Spend("resync")
  /\ Transition(n, member[n], Event("RESYNC_REQ", NoId))
  /\ UNCHANGED <<exiting, znode, seq, watch, ans>>

\* election_exit()
Exit(n) ==
  /\ Spend("exit")
  /\ Transition(n, member[n], Event("EXITING", NoId))
  /\ UNCHANGED <<exiting, znode, seq, watch, ans>>

\* exit_all(): the order to leave, then the end of the wait for the members.
ExitAll(n) ==
  /\ Spend("exit_all")
  /\ exiting' = [exiting EXCEPT ![n] = TRUE]
  /\ IF member[n].step = "NONE" THEN UNCHANGED member
     ELSE Transition(n, member[n], Event("EXITING", NoId))
  /\ UNCHANGED <<znode, seq, watch, ans>>

ExitAllDone(n) ==
  /\ exiting[n] /\ member[n].step \in {"NONE", "FAILED"}
  /\ exiting' = [exiting EXCEPT ![n] = FALSE]
  /\ UNCHANGED <<member, znode, seq, watch, ans, left>>

-----------------------------------------------------------------------------
(* Incidents.                                                               *)

\* An answer to GETVERS that never arrives (TO-HONEYCOMB-757).
GetversLost(n) ==
  /\ Spend("lose")
  /\ member[n].live > 0
  /\ member' = [member EXCEPT ![n].live = @ - 1]
  /\ UNCHANGED <<exiting, znode, seq, watch, ans>>

\* The connection of n is cut: its znodes stay until its session expires, and one
\* of its unanswered requests may have been executed.  'mine' is what n still has
\* to deliver.
Sever(n, mine) ==
  LET closed == [i \in DOMAIN znode |->
                   IF znode[i].url = n THEN [znode[i] EXCEPT !.open = FALSE] ELSE znode[i]]
      outstanding == {member[n].req[i] : i \in 1..Len(member[n].req)}
  IN  \/ /\ znode' = closed
         /\ watch' = [watch EXCEPT ![n] = {}]
         /\ ans' = [ans EXCEPT ![n] = mine]
         /\ UNCHANGED seq
      \/ /\ \E r \in outstanding : r.op = "create"
         /\ seq <= MaxId
         /\ znode' = [i \in DOMAIN znode \cup {seq} |->
                        IF i = seq THEN [url |-> n, open |-> FALSE] ELSE closed[i]]
         /\ seq' = seq + 1
         /\ watch' = [watch EXCEPT ![n] = {}]
         /\ ans' = [ans EXCEPT ![n] = mine]
      \/ \E r \in outstanding :
         /\ r.op = "delete" /\ r.id \in DOMAIN znode
         /\ znode' = [i \in DOMAIN znode \ {r.id} |-> closed[i]]
         /\ watch' = [Unwatched(r.id) EXCEPT ![n] = {}]
         /\ ans' = [k \in Node |-> IF k = n THEN mine ELSE ans[k] \o Triggered(k, r.id)]
         /\ UNCHANGED seq

\* The process dies and starts again.
Crash(n) ==
  /\ Spend("crash")
  /\ Sever(n, <<>>)
  /\ member' = [member EXCEPT ![n] = NewMember]
  /\ exiting' = [exiting EXCEPT ![n] = FALSE]

Callback(w) ==
  Event(IF w.kind = "node" THEN "WatchNode_change" ELSE "WatchMaster_change", NoId)

\* zk_main_watch() on the loss of the connection: the callback of every watch is
\* called, the requests end with ZCONNECTIONLOSS, and a new session is started.
Disconnect(n) ==
  /\ Spend("disconnect")
  /\ \E ws \in Injection(1..Cardinality(watch[n]), watch[n]) :
       Sever(n, ans[n] \o [i \in DOMAIN ws |-> Callback(ws[i])]
                  \o [i \in DOMAIN member[n].req |-> Event("DISCONNECTED", NoId)])
  /\ member' = [member EXCEPT ![n].req = <<>>]
  /\ UNCHANGED exiting

\* ZooKeeper removes a znode whose session is over; the client, which notices the
\* loss of the connection first, has run the callbacks this caused.
Expire(id) ==
  /\ id \in DOMAIN znode /\ ~znode[id].open
  /\ ans[znode[id].url] = <<>>
  /\ znode' = Without(id)
  /\ watch' = Unwatched(id)
  /\ ans' = [k \in Node |-> ans[k] \o Triggered(k, id)]
  /\ UNCHANGED <<member, exiting, seq, left>>

-----------------------------------------------------------------------------
Init ==
  /\ member = [n \in Node |-> NewMember]
  /\ exiting = [n \in Node |-> FALSE]
  /\ znode = [id \in {} |-> NewMember]
  /\ seq = 0
  /\ watch = [n \in Node |-> {}]
  /\ ans = [n \in Node |-> <<>>]
  /\ left = Budget

Next ==
  \/ \E n \in Node :
       \/ Serve(n) \/ Deliver(n) \/ on_end_PIPEFROM(n) \/ Kick(n)
       \/ \E v \in Answers : on_end_GETVERS(n, v)
       \/ Resync(n) \/ Exit(n) \/ ExitAll(n) \/ ExitAllDone(n)
       \/ GetversLost(n) \/ Crash(n) \/ Disconnect(n)
  \/ \E id \in Ids : Expire(id)

Spec == Init /\ [][Next]_vars

Fairness ==
  /\ \A n \in Node :
       /\ WF_vars(Serve(n)) /\ WF_vars(Deliver(n)) /\ WF_vars(Kick(n))
       /\ WF_vars(\E v \in Answers : on_end_GETVERS(n, v))
       /\ WF_vars(on_end_PIPEFROM(n)) /\ WF_vars(ExitAllDone(n))
  /\ \A id \in Ids : WF_vars(Expire(id))

FairSpec == Spec /\ Fairness

-----------------------------------------------------------------------------
(* Properties.                                                              *)

Pending == 0..Peers
Counts == 0..2
Requests == [op : {"create", "exists", "list", "get", "delete"}, id : Ids \cup {NoId}]
Queues == Seq(Requests)

Members ==
  [step : Steps, myid : Ids \cup {NoId}, master_id : Ids \cup {NoId},
   master_url : Node \cup {NoNode}, pending_GETVERS : Pending, live : Pending,
   errors_GETVERS : Counts, concurrent_GETVERS : Counts,
   requested_PIPEFROM : BOOLEAN, pending_PIPEFROM : BOOLEAN, pipes : Nat,
   requested_USE : BOOLEAN, req : Queues]

Events ==
  [evt : {"CREATE_OK"}, arg : Ids] \cup [evt : {"LIST_OK"}, arg : SUBSET Ids] \cup
  [evt : {"MASTER_OK"}, arg : Node] \cup
  [evt : {"CREATE_KO", "NONE", "LIST_KO", "MASTER_KO", "LEAVE_KO", "LEAVE_OK", "NODE_LEFT",
          "WatchNode_change", "WatchMaster_change", "DISCONNECTED"}, arg : {NoId}]

\* Types, and the answers still accepted by member_concerned_by_GETVERS() are among
\* those pending_GETVERS waits for: the counter never goes below what will come.
TypeOK ==
  /\ member \in [Node -> Members]
  /\ exiting \in [Node -> BOOLEAN]
  /\ DOMAIN znode \subseteq Ids
  /\ \A id \in DOMAIN znode : znode[id] \in [url : Node, open : BOOLEAN]
  /\ seq \in 0..(MaxId + 1)
  /\ watch \in [Node -> SUBSET [id : Ids, kind : {"node", "master"}]]
  /\ ans \in [Node -> Seq(Events)]
  /\ left \in [Incidents -> Nat]
  /\ \A n \in Node : member[n].live <= member[n].pending_GETVERS

\* Two services never hold the STEP_LEADER of the same base at the same time, so
\* only one of them accepts the writes (as long as no connection is lost).
AtMostOneLeader ==
  \A n, k \in Node : member[n].step = "LEADER" /\ member[k].step = "LEADER" => n = k

\* The master is the "first node of the children sequence" (struct
\* election_member_s), or the LEADER has still to handle the event that says no.
LeaderIsFirst ==
  \A n \in Node : member[n].step = "LEADER" /\ ans[n] = <<>> =>
    member[n].myid \in DOMAIN znode /\ member[n].myid = First(DOMAIN znode)

\* A LOST member redirects to the service whose znode comes first, unless the event
\* that tells it of the change has still to be handled: no slave is left behind.
SlaveFollowsFirst ==
  \A n \in Node : member[n].step = "LOST" /\ ans[n] = <<>> =>
    /\ member[n].master_id \in DOMAIN znode /\ member[n].master_id = First(DOMAIN znode)
    /\ member[n].master_url = znode[member[n].master_id].url

\* What LEADER rests on: an inductive invariant while no connection is lost.

Candidate == {"CANDOK", "PRELOST", "PRELEAD", "LOST", "LEADER"}
Ahead == {"PRELEAD", "LEADER"}

\* The znodes the requests of a member will delete.
Deleted(m) == {m.req[i].id : i \in {j \in 1..Len(m.req) : m.req[j].op = "delete"}}

\* The znode is there, created by n in its current session.
Owned(n, id) == id \in DOMAIN znode /\ znode[id].url = n /\ znode[id].open

\* ZooKeeper gives each id once, and a member only knows and deletes its own.
IdsGiven ==
  /\ \A id \in DOMAIN znode : id < seq
  /\ \A n \in Node : \A id \in Deleted(member[n]) \cup {member[n].myid} :
       id < seq /\ (id \in DOMAIN znode => znode[id].url = n)

\* The znode a candidate relies on exists and is not about to be deleted.
CandidateOwns ==
  \A n \in Node : member[n].step \in Candidate =>
    Owned(n, member[n].myid) /\ member[n].myid \notin Deleted(member[n])

\* A member never gets ahead of a znode older than its own.
AheadIsFirst ==
  \A n \in Node : member[n].step \in Ahead =>
    \A id \in DOMAIN znode : member[n].myid <= id

\* An id on its way to the member is new to it and belongs to it.
CreatedOwned ==
  \A n \in Node : \A i \in 1..Len(ans[n]) : ans[n][i].evt = "CREATE_OK" =>
    /\ Owned(n, ans[n][i].arg)
    /\ ans[n][i].arg \notin Deleted(member[n]) \cup {member[n].myid}
    /\ \A j \in 1..Len(ans[n]) :
         ans[n][j].evt = "CREATE_OK" /\ ans[n][j].arg = ans[n][i].arg => i = j

\* A list names ids already given, and misses only znodes younger than them.
ListsOlder ==
  \A n \in Node : \A i \in 1..Len(ans[n]) : ans[n][i].evt = "LIST_OK" =>
    \A k \in ans[n][i].arg : k < seq /\ \A id \in DOMAIN znode \ ans[n][i].arg : k < id

\* While no connection is lost, these facts are preserved by every step and imply
\* that at most one member is LEADER.
IInv ==
  /\ TypeOK /\ left["disconnect"] = 0
  /\ IdsGiven /\ CandidateOwns /\ AheadIsFirst /\ CreatedOwned /\ ListsOlder

\* A member that is used never stays for ever in a pending step: the wait of
\* wait_for_final_status() always ends.
FinalStatus == \A n \in Node : []<>(member[n].step \in {"LEADER", "LOST", "FAILED"})

\* The group always ends with a master, whatever happened to the former one.
MasterFound == []<>(\E n \in Node : member[n].step = "LEADER")
=============================================================================
