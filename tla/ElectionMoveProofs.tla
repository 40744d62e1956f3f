------------------------- MODULE ElectionMoveProofs -------------------------
(****************************************************************************)
(* What one event can change in a member of an election (Moves): the lemmas  *)
(* about transition() and the functions of the member it calls.              *)
(****************************************************************************)
EXTENDS Election, TLAPS, FiniteSetTheorems, WellFoundedInduction

LEMMA PeersType == Peers \in Nat
BY ElectionAssumption, FS_CardinalityType DEF Peers

LEMMA Zeros == 0 \in Pending /\ 0 \in Counts /\ Peers \in Pending
BY PeersType DEF Pending, Counts

\* A member of its type, whose current answers are all waited for.
Good(m) == m \in Members /\ m.live <= m.pending_GETVERS

\* t differs from m neither in its step, nor in what AtMostOneLeader rests on.
Still(m, t) == Good(t) /\ t.step = m.step /\ t.myid = m.myid /\ Deleted(t) = Deleted(m)

-----------------------------------------------------------------------------
(* What the helpers of the member change.                                   *)

\* member_reset_master() only touches the master.
LEMMA ResetMasterStill ==
  ASSUME NEW m, Good(m) PROVE Still(m, member_reset_master(m))
BY Zenon DEF member_reset_master, Good, Still, Deleted, Members

\* member_reset_pending() only touches the requests pending.
LEMMA ResetPendingStill ==
  ASSUME NEW m, Good(m) PROVE Still(m, member_reset_pending(m))
<1> DEFINE t == member_reset_pending(m)
<1>1. t \in Members /\ t.step = m.step /\ t.myid = m.myid /\ t.req = m.req
  BY Zeros, Zenon DEF member_reset_pending, Good, Members
<1>2. t.live = 0 /\ t.pending_GETVERS = 0
  BY DEF member_reset_pending, Good, Members
<1> QED BY <1>1, <1>2 DEF Good, Still, Deleted

\* member_reset() also forgets the id.
LEMMA ResetForgets ==
  ASSUME NEW m, Good(m)
  PROVE  /\ Good(member_reset(m))
         /\ member_reset(m).step = m.step
         /\ member_reset(m).myid = NoId
         /\ Deleted(member_reset(m)) = Deleted(m)
<1> DEFINE r == member_reset_pending(member_reset_master(m))
<1>1. Still(m, r) BY ResetMasterStill, ResetPendingStill DEF Still
<1> HIDE DEF r
<1>2. member_reset(m) = [r EXCEPT !.myid = NoId] BY DEF member_reset, r
<1> QED BY <1>1, <1>2 DEF Good, Still, Deleted, Members

\* member_set_status() only sets the step.
LEMMA SetStatus ==
  ASSUME NEW m, Good(m), NEW s \in Steps
  PROVE  /\ Good(member_set_status(m, s))
         /\ member_set_status(m, s).step = s
         /\ member_set_status(m, s).myid = m.myid
         /\ member_set_status(m, s).master_id = m.master_id
         /\ Deleted(member_set_status(m, s)) = Deleted(m)
BY DEF member_set_status, Good, Deleted, Members

\* member_set_master_id() only sets the master.
LEMMA SetMasterStill ==
  ASSUME NEW m, Good(m), NEW id \in Ids
  PROVE  Still(m, member_set_master_id(m, id)) /\ member_set_master_id(m, id).master_id = id
BY Zenon DEF member_set_master_id, Good, Still, Deleted, Members

\* A resync requested is only noted.
LEMMA ResyncStill ==
  ASSUME NEW m, Good(m) PROVE Still(m, member_RESYNC_if_not_pending(m))
BY Zenon DEF member_RESYNC_if_not_pending, Good, Still, Deleted, Members

\* A request sent deletes its target, or nothing.
LEMMA Start ==
  ASSUME NEW m, Good(m), NEW id \in Ids \cup {NoId},
         NEW op \in {"create", "exists", "list", "get", "delete"}
  PROVE  /\ Good(step_start(m, op, id))
         /\ step_start(m, op, id).step = m.step
         /\ step_start(m, op, id).myid = m.myid
         /\ \A d \in Deleted(step_start(m, op, id)) : d \in Deleted(m) \/ d = id
         /\ op # "delete" => Deleted(step_start(m, op, id)) = Deleted(m)
<1> DEFINE r == [op |-> op, id |-> id]
           q == Append(m.req, r)
           t == step_start(m, op, id)
<1>0. q \in Queues /\ m.req \in Queues
  BY DEF Good, Members, Queues, Requests
<1>1. Good(t) /\ t.step = m.step /\ t.myid = m.myid /\ t.req = q
  BY <1>0, Zenon DEF step_start, Good, Members
<1>2. /\ Len(q) = Len(m.req) + 1 /\ Len(m.req) \in Nat
      /\ \A i \in 1..Len(m.req) : q[i] = m.req[i]
      /\ q[Len(m.req) + 1] = r
  BY <1>0 DEF Queues
<1> HIDE DEF q, t
<1>3. /\ \A d \in Deleted(t) : d \in Deleted(m) \/ d = id
      /\ op # "delete" => Deleted(t) = Deleted(m)
  <2>1. ASSUME NEW d \in Deleted(t) PROVE d \in Deleted(m) \/ (op = "delete" /\ d = id)
    <3>1. PICK i \in 1..Len(q) : q[i].op = "delete" /\ d = q[i].id
      BY <1>1, <2>1 DEF Deleted
    <3>2. CASE i \in 1..Len(m.req) BY <3>1, <3>2, <1>2 DEF Deleted
    <3>3. CASE i = Len(m.req) + 1 BY <3>1, <3>3, <1>2
    <3> QED BY <3>2, <3>3, <1>2
  <2>2. ASSUME NEW d \in Deleted(m) PROVE d \in Deleted(t)
    <3>1. PICK i \in 1..Len(m.req) : m.req[i].op = "delete" /\ d = m.req[i].id
      BY <2>2 DEF Deleted
    <3>2. i \in 1..Len(q) /\ q[i].op = "delete" /\ d = q[i].id BY <3>1, <1>2
    <3> QED BY <3>2, <1>1 DEF Deleted
  <2> QED BY <2>1, <2>2, Zenon
<1> QED BY <1>1, <1>3 DEF t

-----------------------------------------------------------------------------
(* The moves of a member.                                                   *)

\* Out of the election, or leaving it: at most its own znode is deleted.
Withdraws(m, t) ==
  /\ Good(t) /\ t.step \in Steps \ Candidate
  /\ t.myid \in {m.myid, NoId}
  /\ Deleted(t) \subseteq Deleted(m) \cup {m.myid}

\* Its znode kept and nothing deleted, but not ahead.
Stands(m, t) ==
  /\ Good(t) /\ t.step \in {"CANDOK", "PRELOST", "LOST", "FAILED"}
  /\ t.myid = m.myid /\ Deleted(t) = Deleted(m)

\* become_leaver() leaves, whether its request could be sent or not.
LEMMA LeaverWithdraws ==
  ASSUME NEW m, Good(m), NEW t \in become_leaver(m)
  PROVE  Withdraws(m, t) /\ t.step \in {"LEAVING", "FAILED"} /\ t.myid = m.myid
<1> DEFINE r == member_reset_pending(member_reset_master(m))
           l == member_set_status(r, "LEAVING")
           s == step_start(l, "delete", l.myid)
           f == member_set_status(l, "FAILED")
<1>1. Still(m, r) BY ResetMasterStill, ResetPendingStill DEF Still
<1> HIDE DEF r
<1>2. /\ Good(l) /\ l.step = "LEAVING" /\ l.myid = m.myid /\ Deleted(l) = Deleted(m)
      /\ l.myid \in Ids \cup {NoId}
  BY <1>1, SetStatus DEF Still, Steps, Good, Members
<1>3. t = s \/ t = f BY DEF become_leaver, OrFailed, l, r
<1> HIDE DEF l
<1>4. Good(s) /\ s.step = "LEAVING" /\ s.myid = m.myid /\ Deleted(s) \subseteq Deleted(m) \cup {m.myid}
  <2>1. Good(s) /\ s.step = l.step /\ s.myid = l.myid BY <1>2, Start, Zenon
  <2>2. \A d \in Deleted(s) : d \in Deleted(l) \/ d = l.myid BY <1>2, Start
  <2> HIDE DEF s
  <2> QED BY <1>2, <2>1, <2>2
<1>5. Good(f) /\ f.step = "FAILED" /\ f.myid = m.myid /\ Deleted(f) = Deleted(m)
  BY <1>2, SetStatus DEF Steps
<1> HIDE DEF s, f
<1> QED BY <1>3, <1>4, <1>5 DEF Withdraws, Steps, Candidate

\* become_candidate() keeps its znode, or fails.
LEMMA CandidateStands ==
  ASSUME NEW m, Good(m), NEW t \in become_candidate(m)
  PROVE  Stands(m, t)
<1> DEFINE r == member_reset_master(m)
           c == member_set_status(r, "CANDOK")
           s == step_start(c, "list", NoId)
           f == member_set_status(c, "FAILED")
<1>1. Still(m, r) BY ResetMasterStill DEF Still
<1> HIDE DEF r
<1>2. Good(c) /\ c.step = "CANDOK" /\ c.myid = m.myid /\ Deleted(c) = Deleted(m)
  BY <1>1, SetStatus DEF Still, Steps
<1>3. t = s \/ t = f BY DEF become_candidate, OrFailed, c, r
<1> HIDE DEF c
<1>4. Good(s) /\ s.step = "CANDOK" /\ s.myid = m.myid /\ Deleted(s) = Deleted(m)
  BY <1>2, Start
<1>5. Good(f) /\ f.step = "FAILED" /\ f.myid = m.myid /\ Deleted(f) = Deleted(m)
  BY <1>2, SetStatus DEF Steps
<1> HIDE DEF s, f
<1> QED BY <1>3, <1>4, <1>5 DEF Stands

\* restart_election() leaves first, stops, or asks for a new znode.
LEMMA RestartWithdraws ==
  ASSUME NEW m, Good(m), NEW x \in BOOLEAN, NEW t \in restart_election(m, x)
  PROVE  Withdraws(m, t)
<1> DEFINE r == member_reset(m)
           c == [r EXCEPT !.requested_USE = FALSE, !.step = "CANDREQ"]
           s == step_start(c, "create", NoId)
           f == member_set_status(c, "FAILED")
           o == member_set_status(r, "NONE")
<1>1. Good(r) /\ r.myid = NoId /\ Deleted(r) = Deleted(m) BY ResetForgets
<1>2. t \in become_leaver(m) \/ t = s \/ t = f \/ t = o
  BY DEF restart_election, OrFailed
<1> HIDE DEF r
<1>3. Good(o) /\ o.step = "NONE" /\ o.myid = NoId /\ Deleted(o) = Deleted(m)
  BY <1>1, SetStatus DEF Steps
<1>4. Good(c) /\ c.step = "CANDREQ" /\ c.myid = NoId /\ Deleted(c) = Deleted(m)
  <2>1. "CANDREQ" \in Steps BY DEF Steps
  <2>2. c \in Members /\ c.step = "CANDREQ" /\ c.myid = r.myid /\ c.req = r.req
    BY <1>1, <2>1, Zenon DEF Good, Members
  <2>3. c.live = r.live /\ c.pending_GETVERS = r.pending_GETVERS
    BY <1>1 DEF Good, Members
  <2> QED BY <1>1, <2>2, <2>3, Zenon DEF Good, Deleted
<1> HIDE DEF c, o
<1>5. Good(s) /\ s.step = "CANDREQ" /\ s.myid = NoId /\ Deleted(s) = Deleted(m)
  BY <1>4, Start
<1>6. Good(f) /\ f.step = "FAILED" /\ f.myid = NoId /\ Deleted(f) = Deleted(m)
  BY <1>4, SetStatus DEF Steps
<1> HIDE DEF s, f
<1> QED BY <1>2, <1>3, <1>5, <1>6, LeaverWithdraws DEF Withdraws, Steps, Candidate

\* defer_GETVERS() changes the round only.
LEMMA GetversStill ==
  ASSUME NEW m, Good(m), NEW t \in defer_GETVERS(m)
  PROVE  Still(m, t)
<1> DEFINE g == [m EXCEPT !.pending_GETVERS = Peers, !.live = Peers]
<1>1. g \in Members /\ g.step = m.step /\ g.myid = m.myid /\ g.req = m.req
  BY Zeros, Zenon DEF Good, Members
<1>2. g.live = Peers /\ g.pending_GETVERS = Peers
  BY DEF Good, Members
<1>3. t = g \/ t = m BY DEF defer_GETVERS
<1> HIDE DEF g
<1>4. g.live <= g.pending_GETVERS BY <1>2, PeersType
<1>5. Still(m, g) BY <1>1, <1>4 DEF Good, Still, Deleted
<1>6. Still(m, m) BY DEF Still
<1> QED BY <1>3, <1>5, <1>6

\* defer_PIPEFROM() changes the state of the resync only.
LEMMA PipefromStill ==
  ASSUME NEW m, Good(m) PROVE Still(m, defer_PIPEFROM(m))
<1> DEFINE t == [m EXCEPT !.requested_PIPEFROM = FALSE, !.pending_PIPEFROM = TRUE, !.pipes = @ + 1]
<1>1. m \in Members /\ m.pipes + 1 \in Nat BY DEF Good, Members
<1>2. t \in Members /\ t.step = m.step /\ t.myid = m.myid /\ t.req = m.req
  BY <1>1, Zenon DEF Members
<1>3. t.live = m.live /\ t.pending_GETVERS = m.pending_GETVERS BY <1>1 DEF Members
<1>4. Still(m, t) BY <1>2, <1>3 DEF Good, Still, Deleted
<1>5. Still(m, m) BY DEF Still
<1> QED BY <1>4, <1>5 DEF defer_PIPEFROM

\* member_ping() changes nothing, or leaves.
LEMMA PingMoves ==
  ASSUME NEW m, Good(m), NEW t \in member_ping(m)
  PROVE  t = m \/ Withdraws(m, t)
BY LeaverWithdraws DEF member_ping

-----------------------------------------------------------------------------
(* What transition() may do to a member.                                    *)

\* t is what an event e may make of m: it becomes a candidate only by the answer to
\* its creation, and gets ahead only by a list that it heads.
Moves(m, t, e) ==
  /\ Good(t)
  /\ t.myid \in {m.myid, NoId} \/ (e.evt = "CREATE_OK" /\ t.myid = e.arg)
  /\ \A d \in Deleted(t) :
       d \in Deleted(m) \/ (d \in {m.myid, NoId} /\ t.step \notin Candidate)
  /\ t.step = "NONE" => t.myid \in {m.myid, NoId}
  /\ t.step \in Candidate =>
       \/ m.step \in Candidate /\ t.myid = m.myid
       \/ e.evt = "CREATE_OK" /\ t.myid = e.arg
  /\ t.step \in Ahead =>
       /\ t.myid = m.myid /\ m.step \in Candidate
       /\ \/ m.step \in Ahead
          \/ e.evt = "LIST_OK" /\ m.myid \in e.arg /\ m.myid = First(e.arg)

\* An event with an argument of its type; a verdict is still waited for.
Suits(e, m) ==
  /\ e.evt = "CREATE_OK" => e.arg \in Ids
  /\ e.evt = "LIST_OK" => e.arg \subseteq Ids
  /\ e.evt = "MASTER_OK" => e.arg \in Node
  /\ e.evt \in Verdicts => m.live < m.pending_GETVERS

LEMMA StillMoves ==
  ASSUME NEW m, Good(m), NEW t, Still(m, t), NEW e PROVE Moves(m, t, e)
BY DEF Still, Moves, Ahead, Candidate

LEMMA WithdrawsMoves ==
  ASSUME NEW m, Good(m), NEW t, Withdraws(m, t), NEW e PROVE Moves(m, t, e)
BY DEF Withdraws, Moves, Ahead, Candidate

LEMMA StandsMoves ==
  ASSUME NEW m, Good(m), m.step \in Candidate, NEW t, Stands(m, t), NEW e
  PROVE  Moves(m, t, e)
BY DEF Stands, Moves, Ahead, Candidate

LEMMA SameStill == ASSUME NEW m, Good(m) PROVE Still(m, m)
BY DEF Still

\* Still, Withdraws and Stands compose.
LEMMA StillThen ==
  ASSUME NEW m, NEW n, Still(m, n), NEW t
  PROVE  /\ Still(n, t) => Still(m, t)
         /\ Withdraws(n, t) => Withdraws(m, t)
         /\ Stands(n, t) => Stands(m, t)
BY DEF Still, Withdraws, Stands

\* First() is the least id of a list that names any.
LEMMA FirstIsLeast ==
  ASSUME NEW S, S \subseteq Nat, S # {}
  PROVE  First(S) \in S /\ \A j \in S : First(S) <= j
<1>1. \E x \in S : \A y \in S : ~(<<y, x>> \in OpToRel(<, Nat))
  BY NatLessThanWellFounded, WFMin, Zenon
<1>2. \E x \in S : \A y \in S : x <= y
  <2>1. PICK x \in S : \A y \in S : ~(<<y, x>> \in OpToRel(<, Nat)) BY <1>1, Zenon
  <2>2. \A y \in S : ~(y < x) BY <2>1, Zenon DEF OpToRel
  <2> QED BY <2>2
<1> QED BY <1>2, Zenon DEF First

\* The counters of a round: an answer waited for is counted once.
LEMMA ConcernedStill ==
  ASSUME NEW m, Good(m), m.live < m.pending_GETVERS PROVE Still(m, Concerned(m))
<1> DEFINE t == Concerned(m)
<1>1. m \in Members /\ m.pending_GETVERS \in Pending /\ m.live \in Pending
  BY DEF Good, Members
<1>2. m.pending_GETVERS - 1 \in Pending /\ m.live <= m.pending_GETVERS - 1
  BY <1>1, PeersType DEF Pending
<1>3. t \in Members /\ t.step = m.step /\ t.myid = m.myid /\ t.req = m.req
  BY <1>1, <1>2 DEF Concerned, Members
<1>4. t.live = m.live /\ t.pending_GETVERS = m.pending_GETVERS - 1
  BY <1>1 DEF Concerned, Members
<1> QED BY <1>2, <1>3, <1>4 DEF Good, Still, Deleted

LEMMA CountStill ==
  ASSUME NEW m, Good(m)
  PROVE  /\ Still(m, [m EXCEPT !.errors_GETVERS = OneMore(@)])
         /\ Still(m, [m EXCEPT !.concurrent_GETVERS = OneMore(@)])
<1>1. m \in Members /\ m.errors_GETVERS \in Counts /\ m.concurrent_GETVERS \in Counts
  BY DEF Good, Members
<1>2. OneMore(m.errors_GETVERS) \in Counts /\ OneMore(m.concurrent_GETVERS) \in Counts
  BY <1>1 DEF Counts, OneMore
<1>3. Still(m, [m EXCEPT !.errors_GETVERS = OneMore(@)])
  BY <1>1, <1>2 DEF Good, Still, Deleted, Members
<1>4. Still(m, [m EXCEPT !.concurrent_GETVERS = OneMore(@)])
  BY <1>1, <1>2 DEF Good, Still, Deleted, Members
<1> QED BY <1>3, <1>4

LEMMA TakenStill == ASSUME NEW m, Good(m) PROVE Still(m, Taken(m))
BY Zeros, Zenon DEF Taken, Good, Still, Deleted, Members

LEMMA MasterUrlStill ==
  ASSUME NEW m, Good(m), NEW u \in Node PROVE Still(m, [m EXCEPT !.master_url = u])
BY DEF Good, Still, Deleted, Members

\* member_finish_PRELOST() waits, leaves, asks for a resync, or becomes LOST.
LEMMA FinishPrelost ==
  ASSUME NEW m, Good(m), m.step = "PRELOST", NEW t \in member_finish_PRELOST(m)
  PROVE  Still(m, t) \/ Withdraws(m, t) \/ Stands(m, t)
<1> DEFINE k == Taken(m)
           l == [k EXCEPT !.step = IF m.master_url # NoNode THEN "LOST" ELSE @]
<1>1. Still(m, k) /\ Good(k) BY TakenStill DEF Still
<1>2. t = m \/ t \in become_leaver(k) \/ t = member_RESYNC_if_not_pending(k) \/ t = l
  BY DEF member_finish_PRELOST
<1> HIDE DEF k
<1>3. Stands(k, l)
  <2>1. "LOST" \in Steps /\ k.step = "PRELOST" /\ k \in Members
    BY <1>1 DEF Steps, Still, Good
  <2>2. l \in Members /\ l.myid = k.myid /\ l.req = k.req /\ l.step \in {"LOST", "PRELOST"}
    BY <2>1 DEF Members
  <2>3. l.live = k.live /\ l.pending_GETVERS = k.pending_GETVERS
    BY <2>1 DEF Members
  <2> QED BY <2>2, <2>3, <1>1 DEF Stands, Good, Deleted
<1>4. CASE t = m BY <1>4, SameStill
<1>5. CASE t \in become_leaver(k) BY <1>1, <1>5, LeaverWithdraws, StillThen
<1>6. CASE t = member_RESYNC_if_not_pending(k) BY <1>1, <1>6, ResyncStill, StillThen
<1>7. CASE t = l BY <1>1, <1>3, <1>7, StillThen
<1> QED BY <1>2, <1>4, <1>5, <1>6, <1>7

\* member_finish_PRELEAD() waits, leaves, or becomes LEADER.
LEMMA FinishPrelead ==
  ASSUME NEW m, Good(m), m.step = "PRELEAD", NEW t \in member_finish_PRELEAD(m), NEW e
  PROVE  Moves(m, t, e)
<1> DEFINE k == Taken(m)
           l == member_set_status(k, "LEADER")
<1>1. Still(m, k) /\ Good(k) BY TakenStill DEF Still
<1>2. t = m \/ t \in become_leaver(k) \/ t = l BY DEF member_finish_PRELEAD
<1> HIDE DEF k
<1>3. Good(l) /\ l.step = "LEADER" /\ l.myid = k.myid /\ Deleted(l) = Deleted(k)
  BY <1>1, SetStatus DEF Steps
<1> HIDE DEF l
<1>4. Moves(m, l, e) BY <1>1, <1>3 DEF Moves, Still, Ahead, Candidate
<1>5. CASE t = m BY <1>5, SameStill, StillMoves
<1>6. CASE t \in become_leaver(k)
  BY <1>1, <1>6, LeaverWithdraws, StillThen, WithdrawsMoves
<1> QED BY <1>2, <1>4, <1>5, <1>6

\* manage_list(): ahead when the list starts with the member.
LEMMA ManageList ==
  ASSUME NEW m, Good(m), m.step = "CANDOK", NEW x \in BOOLEAN,
         NEW e, e.evt = "LIST_OK", e.arg \subseteq Ids,
         NEW t \in manage_list(m, e.arg, x)
  PROVE  Moves(m, t, e)
<1>1. CASE m.myid \notin e.arg
  <2>1. t \in restart_election(m, x) BY <1>1 DEF manage_list
  <2> QED BY <2>1, RestartWithdraws, WithdrawsMoves
<1>2. CASE m.myid \in e.arg /\ m.myid = First(e.arg)
  <2> DEFINE k == member_set_master_id(m, m.myid)
             l == member_set_status(k, "PRELEAD")
  <2>1. t \in defer_GETVERS(l) BY <1>2 DEF manage_list
  <2>2. Still(m, k) BY <1>2, SetMasterStill
  <2> HIDE DEF k
  <2>3. Good(l) /\ l.step = "PRELEAD" /\ l.myid = m.myid /\ Deleted(l) = Deleted(m)
    BY <2>2, SetStatus DEF Still, Steps
  <2> HIDE DEF l
  <2>4. Still(l, t) BY <2>1, <2>3, GetversStill
  <2> QED BY <1>2, <2>3, <2>4 DEF Still, Moves, Ahead, Candidate
<1>3. CASE m.myid \in e.arg /\ m.myid # First(e.arg)
  <2> DEFINE f == First(e.arg)
             k == member_set_master_id(m, f)
             l == member_set_status(k, "PRELOST")
             g == step_start(l, "get", l.master_id)
  <2>1. t \in defer_GETVERS(g) \/ t \in become_leaver(l) BY <1>3 DEF manage_list
  <2>2. f \in Ids BY <1>3, FirstIsLeast DEF Ids
  <2> HIDE DEF f
  <2>3. Still(m, k) /\ k.master_id = f BY <2>2, SetMasterStill
  <2> HIDE DEF k
  <2>4. /\ Good(l) /\ l.step = "PRELOST" /\ l.myid = m.myid /\ Deleted(l) = Deleted(m)
        /\ l.master_id = f
    BY <2>3, SetStatus DEF Still, Steps
  <2> HIDE DEF l
  <2>5. Good(g) /\ g.step = "PRELOST" /\ g.myid = m.myid /\ Deleted(g) = Deleted(m)
    <3>1. l.master_id \in Ids \cup {NoId} BY <2>2, <2>4
    <3>2. /\ Good(g) /\ g.step = l.step /\ g.myid = l.myid
          /\ "get" # "delete" => Deleted(g) = Deleted(l)
      BY <2>4, <3>1, Start, Zenon
    <3> QED BY <2>4, <3>2
  <2> HIDE DEF g
  <2>6. CASE t \in defer_GETVERS(g)
    <3>1. Still(g, t) BY <2>5, <2>6, GetversStill
    <3>2. Stands(m, t) BY <2>5, <3>1 DEF Stands, Still
    <3> QED BY <3>2, StandsMoves DEF Candidate
  <2>7. CASE t \in become_leaver(l)
    <3>1. Withdraws(l, t) BY <2>4, <2>7, LeaverWithdraws
    <3>2. Withdraws(m, t) BY <2>4, <3>1 DEF Withdraws
    <3> QED BY <3>2, WithdrawsMoves
  <2> QED BY <2>1, <2>6, <2>7
<1> QED BY <1>1, <1>2, <1>3

LEMMA InNone ==
  ASSUME NEW m, Good(m), NEW x \in BOOLEAN, NEW e, NEW t \in in_NONE(m, e, x)
  PROVE  Moves(m, t, e)
BY SameStill, StillMoves, RestartWithdraws, WithdrawsMoves DEF in_NONE

LEMMA InCandreq ==
  ASSUME NEW m, Good(m), NEW e, Suits(e, m), NEW t \in in_CANDREQ(m, e)
  PROVE  Moves(m, t, e)
<1>1. CASE e.evt = "RESYNC_REQ"
  BY <1>1, ResyncStill, StillMoves DEF in_CANDREQ
<1>2. CASE e.evt = "EXITING"
  BY <1>2, LeaverWithdraws, WithdrawsMoves DEF in_CANDREQ
<1>3. CASE e.evt = "CREATE_OK"
  <2> DEFINE c == [m EXCEPT !.myid = e.arg]
             w == step_start(c, "exists", c.myid)
             f == member_set_status(c, "FAILED")
  <2>1. t \in become_candidate(w) \/ t = f BY <1>3 DEF in_CANDREQ
  <2>2. e.arg \in Ids BY <1>3 DEF Suits
  <2>3. Good(c) /\ c.myid = e.arg /\ Deleted(c) = Deleted(m)
    BY <2>2 DEF Good, Members, Deleted
  <2> HIDE DEF c
  <2>4. Good(w) /\ w.myid = e.arg /\ Deleted(w) = Deleted(m)
    BY <2>2, <2>3, Start
  <2>5. Good(f) /\ f.step = "FAILED" /\ f.myid = e.arg /\ Deleted(f) = Deleted(m)
    BY <2>3, SetStatus DEF Steps
  <2> HIDE DEF w, f
  <2>6. CASE t \in become_candidate(w)
    <3>1. Stands(w, t) BY <2>4, <2>6, CandidateStands
    <3> QED BY <1>3, <2>4, <3>1 DEF Stands, Moves, Ahead, Candidate
  <2>7. CASE t = f BY <1>3, <2>5, <2>7 DEF Moves, Ahead, Candidate
  <2> QED BY <2>1, <2>6, <2>7
<1>4. CASE e.evt = "CREATE_KO"
  <2>1. t = member_set_status(m, "FAILED") BY <1>4 DEF in_CANDREQ
  <2>2. Withdraws(m, t) BY <2>1, SetStatus DEF Withdraws, Steps, Candidate
  <2> QED BY <2>2, WithdrawsMoves
<1>5. CASE e.evt \notin {"RESYNC_REQ", "EXITING", "CREATE_OK", "CREATE_KO"}
  <2>1. t = m BY <1>5 DEF in_CANDREQ
  <2> QED BY <2>1, SameStill, StillMoves
<1> QED BY <1>1, <1>2, <1>3, <1>4, <1>5

LEMMA InCandok ==
  ASSUME NEW m, Good(m), m.step = "CANDOK", NEW x \in BOOLEAN, NEW e, Suits(e, m),
         NEW t \in in_CANDOK(m, e, x)
  PROVE  Moves(m, t, e)
<1>0. m.step \in Candidate BY DEF Candidate
<1>1. CASE e.evt = "NONE"
  <2>1. t \in member_ping(m) BY <1>1 DEF in_CANDOK
  <2> QED BY <2>1, PingMoves, SameStill, StillMoves, WithdrawsMoves
<1>2. CASE e.evt = "RESYNC_REQ"
  BY <1>2, ResyncStill, StillMoves DEF in_CANDOK
<1>3. CASE e.evt = "EXITING"
  BY <1>3, LeaverWithdraws, WithdrawsMoves DEF in_CANDOK
<1>4. CASE e.evt = "LIST_OK"
  <2>1. t \in manage_list(m, e.arg, x) BY <1>4 DEF in_CANDOK
  <2> QED BY <1>4, <2>1, ManageList DEF Suits
<1>5. CASE e.evt \in {"LIST_KO", "NODE_LEFT"}
  <2>1. t \in become_candidate(m) BY <1>5 DEF in_CANDOK
  <2> QED BY <1>0, <2>1, CandidateStands, StandsMoves
<1>6. CASE e.evt \notin {"NONE", "RESYNC_REQ", "EXITING", "LIST_OK", "LIST_KO", "NODE_LEFT"}
  <2>1. t = m BY <1>6 DEF in_CANDOK
  <2> QED BY <2>1, SameStill, StillMoves
<1> QED BY <1>1, <1>2, <1>3, <1>4, <1>5, <1>6

\* A GETVERS answered, then the counters raised.
LEMMA ConcernedCount ==
  ASSUME NEW m, Good(m), m.live < m.pending_GETVERS
  PROVE  /\ Still(m, Concerned(m))
         /\ Still(m, [Concerned(m) EXCEPT !.errors_GETVERS = OneMore(@)])
         /\ Still(m, [Concerned(m) EXCEPT !.concurrent_GETVERS = OneMore(@)])
<1> DEFINE c == Concerned(m)
<1>1. Still(m, c) /\ Good(c) BY ConcernedStill DEF Still
<1> HIDE DEF c
<1>2. /\ Still(c, [c EXCEPT !.errors_GETVERS = OneMore(@)])
      /\ Still(c, [c EXCEPT !.concurrent_GETVERS = OneMore(@)])
  BY <1>1, CountStill
<1>3. /\ Still(m, [c EXCEPT !.errors_GETVERS = OneMore(@)])
      /\ Still(m, [c EXCEPT !.concurrent_GETVERS = OneMore(@)])
  BY <1>1, <1>2, StillThen
<1> QED BY <1>1, <1>3 DEF c

\* member_finish_PRELOST() after an answer.
LEMMA FinishAfter ==
  ASSUME NEW m, Good(m), m.step = "PRELOST", NEW n, Still(m, n),
         NEW t \in member_finish_PRELOST(n), NEW e
  PROVE  Moves(m, t, e)
<1>1. Good(n) /\ n.step = "PRELOST" BY DEF Still
<1>2. Still(n, t) \/ Withdraws(n, t) \/ Stands(n, t) BY <1>1, FinishPrelost
<1>3. Still(m, t) \/ Withdraws(m, t) \/ Stands(m, t) BY <1>2, StillThen
<1> QED BY <1>3, StillMoves, WithdrawsMoves, StandsMoves DEF Candidate

LEMMA InPrelost ==
  ASSUME NEW m, Good(m), m.step = "PRELOST", NEW e, Suits(e, m), NEW t \in in_PRELOST(m, e)
  PROVE  Moves(m, t, e)
<1>0. m.step \in Candidate BY DEF Candidate
<1>1. CASE e.evt = "NONE"
  <2>1. t \in defer_GETVERS(m) \/ t \in member_ping(m) BY <1>1 DEF in_PRELOST
  <2> QED BY <2>1, GetversStill, PingMoves, SameStill, StillMoves, WithdrawsMoves
<1>2. CASE e.evt = "RESYNC_REQ"
  BY <1>2, ResyncStill, StillMoves DEF in_PRELOST
<1>3. CASE e.evt = "EXITING"
  BY <1>3, LeaverWithdraws, WithdrawsMoves DEF in_PRELOST
<1>4. CASE e.evt = "MASTER_OK"
  <2>1. t \in member_finish_PRELOST([m EXCEPT !.master_url = e.arg])
    BY <1>4 DEF in_PRELOST
  <2>2. Still(m, [m EXCEPT !.master_url = e.arg]) BY <1>4, MasterUrlStill DEF Suits
  <2> QED BY <2>1, <2>2, FinishAfter
<1>5. CASE e.evt \in Verdicts
  <2>0. m.live < m.pending_GETVERS BY <1>5 DEF Suits
  <2>1. CASE e.evt = "GETVERS_OK"
    BY <2>0, <2>1, ConcernedCount, FinishAfter, Zenon DEF in_PRELOST
  <2>2. CASE e.evt = "GETVERS_OUTDATED"
    <3>1. t = member_RESYNC_if_not_pending(Concerned(m)) BY <2>2 DEF in_PRELOST
    <3>2. Still(m, t)
      BY <2>0, <3>1, ConcernedCount, ResyncStill, StillThen, Zenon DEF Still
    <3> QED BY <3>2, StillMoves
  <2>3. CASE e.evt = "GETVERS_CONCURRENT"
    <3>1. t \in member_finish_PRELOST([Concerned(m) EXCEPT !.concurrent_GETVERS = OneMore(@)])
      BY <2>3 DEF in_PRELOST
    <3> QED BY <2>0, <3>1, ConcernedCount, FinishAfter, Zenon
  <2>4. CASE e.evt = "GETVERS_ERROR"
    <3>1. t \in member_finish_PRELOST([Concerned(m) EXCEPT !.errors_GETVERS = OneMore(@)])
      BY <2>4 DEF in_PRELOST
    <3> QED BY <2>0, <3>1, ConcernedCount, FinishAfter, Zenon
  <2> QED BY <1>5, <2>1, <2>2, <2>3, <2>4 DEF Verdicts
<1>6. CASE e.evt = "RESYNC_DONE"
  <2>1. t = m \/ t = member_set_status(m, "LOST") BY <1>6 DEF in_PRELOST
  <2>2. Stands(m, member_set_status(m, "LOST")) BY SetStatus DEF Stands, Steps
  <2> QED BY <1>0, <2>1, <2>2, SameStill, StillMoves, StandsMoves
<1>7. CASE e.evt \notin {"NONE", "RESYNC_REQ", "EXITING", "MASTER_OK", "RESYNC_DONE"} \cup Verdicts
  <2>1. t \in become_candidate(m) BY <1>7 DEF in_PRELOST, Verdicts
  <2> QED BY <1>0, <2>1, CandidateStands, StandsMoves
<1> QED BY <1>1, <1>2, <1>3, <1>4, <1>5, <1>6, <1>7

LEMMA StillThenMoves ==
  ASSUME NEW m, NEW n, Still(m, n), NEW t, NEW e, Moves(n, t, e) PROVE Moves(m, t, e)
BY DEF Still, Moves

LEMMA InPrelead ==
  ASSUME NEW m, Good(m), m.step = "PRELEAD", NEW e, Suits(e, m), NEW t \in in_PRELEAD(m, e)
  PROVE  Moves(m, t, e)
<1>0. m.step \in Candidate BY DEF Candidate
<1>1. CASE e.evt = "NONE"
  <2>1. t \in defer_GETVERS(m) \/ t \in member_ping(m) BY <1>1 DEF in_PRELEAD
  <2> QED BY <2>1, GetversStill, PingMoves, SameStill, StillMoves, WithdrawsMoves
<1>2. CASE e.evt \in {"RESYNC_REQ", "EXITING"}
  BY <1>2, LeaverWithdraws, WithdrawsMoves DEF in_PRELEAD
<1>3. CASE e.evt \in Verdicts
  <2>0. m.live < m.pending_GETVERS BY <1>3 DEF Suits
  <2> DEFINE c == Concerned(m)
             r == [c EXCEPT !.errors_GETVERS = OneMore(@)]
             d == [c EXCEPT !.concurrent_GETVERS = OneMore(@)]
  <2>1. Still(m, c) /\ Still(m, r) /\ Still(m, d) BY <2>0, ConcernedCount
  <2>2. \/ t \in member_finish_PRELEAD(c) \/ t \in become_leaver(c)
        \/ t \in member_finish_PRELEAD(d) \/ t \in member_finish_PRELEAD(r)
    BY <1>3 DEF in_PRELEAD, Verdicts
  <2> HIDE DEF c, r, d
  <2>3. ASSUME NEW n, Still(m, n), t \in member_finish_PRELEAD(n) PROVE Moves(m, t, e)
    <3>1. Good(n) /\ n.step = "PRELEAD" BY <2>3 DEF Still
    <3>2. Moves(n, t, e) BY <2>3, <3>1, FinishPrelead
    <3> QED BY <2>3, <3>2, StillThenMoves
  <2>4. ASSUME t \in become_leaver(c) PROVE Moves(m, t, e)
    <3>1. Withdraws(c, t) BY <2>1, <2>4, LeaverWithdraws DEF Still
    <3> QED BY <2>1, <3>1, StillThen, WithdrawsMoves
  <2> QED BY <2>1, <2>2, <2>3, <2>4
<1>4. CASE e.evt \notin {"NONE", "RESYNC_REQ", "EXITING"} \cup Verdicts
  <2>1. t \in become_candidate(m) BY <1>4 DEF in_PRELEAD, Verdicts
  <2> QED BY <1>0, <2>1, CandidateStands, StandsMoves
<1> QED BY <1>1, <1>2, <1>3, <1>4

LEMMA InLeaving ==
  ASSUME NEW m, Good(m), NEW x \in BOOLEAN, NEW e, NEW t \in in_LEAVING(m, e, x)
  PROVE  Moves(m, t, e)
<1>1. CASE e.evt = "NONE"
  <2>1. t = [m EXCEPT !.requested_USE = @ \/ ~x] BY <1>1 DEF in_LEAVING
  <2>2. Still(m, t)
    <3>1. (m.requested_USE \/ ~x) \in BOOLEAN BY DEF Good, Members
    <3>2. t \in Members /\ t.step = m.step /\ t.myid = m.myid /\ t.req = m.req
      BY <2>1, <3>1, Zenon DEF Good, Members
    <3>3. t.live = m.live /\ t.pending_GETVERS = m.pending_GETVERS
      BY <2>1 DEF Good, Members
    <3> QED BY <3>2, <3>3 DEF Good, Still, Deleted
  <2> QED BY <2>2, StillMoves
<1>2. CASE e.evt = "RESYNC_REQ"
  BY <1>2, ResyncStill, StillMoves DEF in_LEAVING
<1>3. CASE e.evt = "LEAVE_OK"
  <2>1. t = member_set_status(member_reset(m), "NONE") BY <1>3 DEF in_LEAVING
  <2>2. Withdraws(m, t)
    BY <2>1, ResetForgets, SetStatus DEF Withdraws, Steps, Candidate
  <2> QED BY <2>2, WithdrawsMoves
<1>4. CASE e.evt = "LEAVE_KO"
  BY <1>4, LeaverWithdraws, WithdrawsMoves DEF in_LEAVING
<1>5. CASE e.evt \notin {"NONE", "RESYNC_REQ", "LEAVE_OK", "LEAVE_KO"}
  <2>1. t = m BY <1>5 DEF in_LEAVING
  <2> QED BY <2>1, SameStill, StillMoves
<1> QED BY <1>1, <1>2, <1>3, <1>4, <1>5

LEMMA InLost ==
  ASSUME NEW m, Good(m), m.step = "LOST", NEW e, NEW t \in in_LOST(m, e)
  PROVE  Moves(m, t, e)
<1>0. m.step \in Candidate BY DEF Candidate
<1>1. CASE e.evt = "NONE"
  <2>1. t \in member_ping(m) BY <1>1 DEF in_LOST
  <2> QED BY <2>1, PingMoves, SameStill, StillMoves, WithdrawsMoves
<1>2. CASE e.evt \in {"EXITING", "NODE_LEFT"}
  BY <1>2, LeaverWithdraws, WithdrawsMoves DEF in_LOST
<1>3. CASE e.evt \in {"MASTER_KO", "MASTER_CHANGE"}
  <2>1. t \in become_candidate(m) BY <1>3 DEF in_LOST
  <2> QED BY <1>0, <2>1, CandidateStands, StandsMoves
<1>4. CASE e.evt = "RESYNC_REQ"
  <2>1. t = [m EXCEPT !.requested_PIPEFROM = TRUE, !.step = "PRELOST"]
    BY <1>4 DEF in_LOST
  <2>2. "PRELOST" \in Steps BY DEF Steps
  <2>3. t \in Members /\ t.step = "PRELOST" /\ t.myid = m.myid /\ t.req = m.req
    BY <2>1, <2>2, Zenon DEF Good, Members
  <2>4. t.live = m.live /\ t.pending_GETVERS = m.pending_GETVERS
    BY <2>1 DEF Good, Members
  <2>5. Stands(m, t) BY <2>3, <2>4 DEF Stands, Good, Deleted
  <2> QED BY <1>0, <2>5, StandsMoves
<1>5. CASE e.evt \notin {"NONE", "EXITING", "NODE_LEFT", "MASTER_KO", "MASTER_CHANGE", "RESYNC_REQ"}
  <2>1. t = m BY <1>5 DEF in_LOST
  <2> QED BY <2>1, SameStill, StillMoves
<1> QED BY <1>1, <1>2, <1>3, <1>4, <1>5

LEMMA InLeader ==
  ASSUME NEW m, Good(m), NEW e, NEW t \in in_LEADER(m, e) PROVE Moves(m, t, e)
<1>1. t \in member_ping(m) \/ t \in become_leaver(m) \/ t = m
  BY DEF in_LEADER
<1> QED BY <1>1, PingMoves, LeaverWithdraws, SameStill, StillMoves, WithdrawsMoves

LEMMA InFailed ==
  ASSUME NEW m, Good(m), m.step = "FAILED", NEW x \in BOOLEAN, NEW e,
         NEW t \in in_FAILED(m, e, x)
  PROVE  Moves(m, t, e)
<1> DEFINE r == member_RESYNC_if_not_pending(m)
<1>1. \/ t \in restart_election(m, x) \/ t \in member_ping(m)
      \/ t \in restart_election(r, x) \/ t = member_reset(m) \/ t = m
  BY DEF in_FAILED
<1>2. Still(m, r) BY ResyncStill
<1> HIDE DEF r
<1>3. CASE t \in restart_election(m, x) BY <1>3, RestartWithdraws, WithdrawsMoves
<1>4. CASE t \in member_ping(m)
  BY <1>4, PingMoves, SameStill, StillMoves, WithdrawsMoves
<1>5. CASE t \in restart_election(r, x)
  <2>1. Withdraws(r, t) BY <1>2, <1>5, RestartWithdraws DEF Still
  <2> QED BY <1>2, <2>1, StillThen, WithdrawsMoves
<1>6. CASE t = member_reset(m)
  <2>1. Withdraws(m, t) BY <1>6, ResetForgets DEF Withdraws, Steps, Candidate
  <2> QED BY <2>1, WithdrawsMoves
<1>7. CASE t = m BY <1>7, SameStill, StillMoves
<1> QED BY <1>1, <1>3, <1>4, <1>5, <1>6, <1>7

\* The whole of _transition().
LEMMA StepMoves ==
  ASSUME NEW m, Good(m), NEW x \in BOOLEAN, NEW e, Suits(e, m),
         NEW t \in _transition(m, e, x)
  PROVE  Moves(m, t, e)
<1>1. CASE e.evt = "DISCONNECTED"
  <2>1. t = member_set_status(member_reset(m), "FAILED")
    BY <1>1 DEF _transition, on_DISCONNECTED
  <2>2. Withdraws(m, t)
    BY <2>1, ResetForgets, SetStatus DEF Withdraws, Steps, Candidate
  <2> QED BY <2>2, WithdrawsMoves
<1>2. CASE e.evt # "DISCONNECTED"
  <2> DEFINE n == IF e.evt = "RESYNC_DONE" THEN [m EXCEPT !.pending_PIPEFROM = FALSE] ELSE m
  <2>1. Still(m, n) /\ Good(n) BY Zenon DEF Good, Still, Deleted, Members
  <2>2. Suits(e, n) BY DEF Suits, Verdicts
  <2>3. /\ n.step = "NONE"    => t \in in_NONE(n, e, x)
        /\ n.step = "CANDREQ" => t \in in_CANDREQ(n, e)
        /\ n.step = "CANDOK"  => t \in in_CANDOK(n, e, x)
        /\ n.step = "PRELOST" => t \in in_PRELOST(n, e)
        /\ n.step = "PRELEAD" => t \in in_PRELEAD(n, e)
        /\ n.step = "LEAVING" => t \in in_LEAVING(n, e, x)
        /\ n.step = "LOST"    => t \in in_LOST(n, e)
        /\ n.step = "LEADER"  => t \in in_LEADER(n, e)
        /\ n.step = "FAILED"  => t \in in_FAILED(n, e, x)
    BY <1>2 DEF _transition
  <2> HIDE DEF n
  <2>4. n.step \in Steps BY <2>1 DEF Good, Members
  <2>5. Moves(n, t, e)
    BY <2>1, <2>2, <2>3, <2>4, InNone, InCandreq, InCandok, InPrelost, InPrelead,
       InLeaving, InLost, InLeader, InFailed DEF Steps
  <2> QED BY <2>1, <2>5, StillThenMoves
<1> QED BY <1>1, <1>2

\* The end of transition() starts what was requested.
LEMMA RequestedMoves ==
  ASSUME NEW m, Good(m), NEW x \in BOOLEAN, NEW t \in Requested(m, x)
  PROVE  Still(m, t) \/ (m.step = "NONE" /\ Withdraws(m, t))
<1> DEFINE p == IF m.requested_PIPEFROM /\ m.master_url # NoNode THEN defer_PIPEFROM(m) ELSE m
<1>1. Still(m, p) /\ Good(p) BY PipefromStill, SameStill DEF Still
<1>2. t = p \/ (p.step = "NONE" /\ t \in restart_election(p, x)) BY DEF Requested
<1> HIDE DEF p
<1>3. CASE t = p BY <1>1, <1>3
<1>4. CASE p.step = "NONE" /\ t \in restart_election(p, x)
  <2>1. Withdraws(p, t) BY <1>1, <1>4, RestartWithdraws
  <2>2. Withdraws(m, t) BY <1>1, <2>1, StillThen
  <2> QED BY <1>1, <1>4, <2>2 DEF Still
<1> QED BY <1>2, <1>3, <1>4

\* What an event can change in a member: a candidate was one before or has just
\* been given its znode, the step is ahead of a list only when the list says so, and
\* only the znode of the member is deleted, by a member that is no candidate any more.
LEMMA TransitionMoves ==
  ASSUME NEW m, Good(m), NEW x \in BOOLEAN, NEW e, Suits(e, m),
         NEW t \in transition(m, e, x)
  PROVE  Moves(m, t, e)
<1>1. PICK s \in _transition(m, e, x) : t \in Requested(s, x) BY DEF transition
<1>2. Moves(m, s, e) BY StepMoves
<1>3. Good(s) BY <1>2 DEF Moves
<1>4. CASE Still(s, t) BY <1>2, <1>4 DEF Still, Moves
<1>5. CASE s.step = "NONE" /\ Withdraws(s, t)
  BY <1>2, <1>5 DEF Withdraws, Moves, Ahead, Candidate
<1> QED BY <1>1, <1>3, <1>4, <1>5, RequestedMoves

=============================================================================
