--------------------------- MODULE ElectionProofs ---------------------------
(****************************************************************************)
(* Proofs about the election: while no connection to ZooKeeper is lost, IInv *)
(* is an invariant and at most one service of the group is LEADER.           *)
(****************************************************************************)
EXTENDS ElectionServeProofs

-----------------------------------------------------------------------------
(* The events of a member.                                                  *)

\* An event that gives no rank, handled by a member that may have been touched
\* meanwhile in what the invariant does not look at.
LEMMA TransitionInv ==
  ASSUME IInv, NEW n \in Node, NEW m, Still(member[n], m), NEW e, Suits(e, m),
         e.evt \notin Ranking, Transition(n, m, e),
         UNCHANGED <<znode, seq, watch>>, exiting' \in [Node -> BOOLEAN],
         left' \in [Incidents -> Nat], left'["disconnect"] = 0,
         ans' \in [Node -> Seq(Events)], \A k \in Node : Embeds(ans'[k], ans[k])
  PROVE  IInv'
<1>1. TypeOK /\ exiting[n] \in BOOLEAN BY DEF IInv, TypeOK
<1>2. PICK t \in transition(m, e, exiting[n]) : member' = [member EXCEPT ![n] = t]
  BY Zenon DEF Transition
<1>3. Moves(m, t, e) BY <1>1, TransitionMoves DEF Still
<1>4. Moves(member[n], t, e) BY <1>3, StillThenMoves
<1>5. Good(t) /\ Follows(member[n], t) BY <1>4, MovesFollows DEF Moves
<1>6. /\ member' \in [Node -> Members]
      /\ \A k \in Node : Follows(member[k], member'[k])
      /\ \A k \in Node : member'[k].live <= member'[k].pending_GETVERS
  BY <1>1, <1>2, <1>5, OneFollows, Zenon
<1>7. TypeOK' BY <1>1, <1>6 DEF TypeOK
<1>8. Znodes /\ Kept BY SameZnodes
<1> QED BY <1>6, <1>7, <1>8, InvariantKept

\* The id of the znode created, or the list of the znodes, reaches its member.
LEMMA RankedInv ==
  ASSUME IInv, NEW n \in Node, ans[n] # <<>>, Head(ans[n]).evt \in Ranking,
         Transition(n, member[n], Head(ans[n])), ans' = [ans EXCEPT ![n] = Tail(@)],
         UNCHANGED <<exiting, znode, seq, watch, left>>
  PROVE  IInv'
<1> DEFINE e == Head(ans[n])
<1>1. TypeOK /\ exiting[n] \in BOOLEAN /\ Good(member[n]) /\ member \in [Node -> Members]
  BY TypeFacts DEF IInv, TypeOK
<1>2. /\ ans[n] \in Seq(Events) /\ Len(ans[n]) > 0 /\ e = ans[n][1] /\ e \in Events
      /\ e.evt \in Ranking
  BY <1>1, TypeFacts
<1>3. PICK t \in transition(member[n], e, exiting[n]) : member' = [member EXCEPT ![n] = t]
  BY Zenon DEF Transition
<1> HIDE DEF e
<1>4. /\ e.evt = "CREATE_OK" => e.arg \in Ids
      /\ e.evt = "LIST_OK" => e.arg \subseteq Ids
      /\ Suits(e, member[n])
  BY <1>2 DEF Events, Suits, Verdicts
<1>5. e.evt = "CREATE_OK" =>
        /\ Owned(n, e.arg) /\ e.arg \notin Deleted(member[n]) \cup {member[n].myid}
        /\ \A j \in 1..Len(ans[n]) :
             ans[n][j].evt = "CREATE_OK" /\ ans[n][j].arg = e.arg => 1 = j
  BY <1>2 DEF IInv, CreatedOwned
<1>6. Moves(member[n], t, e) BY <1>1, <1>3, <1>4, TransitionMoves
<1>7. /\ Good(t)
      /\ t.myid \in {member[n].myid, NoId} \/ (e.evt = "CREATE_OK" /\ t.myid = e.arg)
      /\ \A d \in Deleted(t) : d \in Deleted(member[n]) \cup {member[n].myid, NoId}
      /\ t.step \in Candidate =>
           /\ \/ e.evt = "CREATE_OK" /\ t.myid = e.arg
              \/ t.myid = member[n].myid /\ member[n].step \in Candidate
           /\ \A d \in Deleted(t) : d \in Deleted(member[n])
      /\ t.step \in Ahead =>
           /\ t.myid = member[n].myid
           /\ \/ member[n].step \in Ahead
              \/ e.evt = "LIST_OK" /\ member[n].myid \in e.arg /\ member[n].myid = First(e.arg)
  <2>1. Good(t) /\ (t.myid \in {member[n].myid, NoId} \/ (e.evt = "CREATE_OK" /\ t.myid = e.arg))
    BY <1>6 DEF Moves
  <2>2. \A d \in Deleted(t) :
          d \in Deleted(member[n]) \/ (d \in {member[n].myid, NoId} /\ t.step \notin Candidate)
    BY <1>6 DEF Moves
  <2>3. t.step \in Candidate => \/ e.evt = "CREATE_OK" /\ t.myid = e.arg
                                \/ t.myid = member[n].myid /\ member[n].step \in Candidate
    BY <1>6 DEF Moves
  <2>4. t.step \in Ahead =>
          /\ t.myid = member[n].myid
          /\ \/ member[n].step \in Ahead
             \/ e.evt = "LIST_OK" /\ member[n].myid \in e.arg /\ member[n].myid = First(e.arg)
    BY <1>6 DEF Moves
  <2> QED BY <2>1, <2>2, <2>3, <2>4, Zenon
<1>8. \A k \in Node : member'[k] = IF k = n THEN t ELSE member[k] BY <1>1, <1>3
<1>9. /\ ans' \in [Node -> Seq(Events)]
      /\ \A k \in Node : k # n => ans'[k] = ans[k]
      /\ \A i \in 1..Len(ans'[n]) : i + 1 \in 1..Len(ans[n]) /\ ans'[n][i] = ans[n][i + 1]
  <2>1. ans \in [Node -> Seq(Events)] BY <1>1 DEF TypeOK
  <2>2. ans'[n] = Tail(ans[n]) /\ \A k \in Node : k # n => ans'[k] = ans[k] BY <2>1
  <2>3. Tail(ans[n]) \in Seq(Events) BY <1>2
  <2>4. \A i \in 1..Len(Tail(ans[n])) : i + 1 \in 1..Len(ans[n]) /\ Tail(ans[n])[i] = ans[n][i + 1]
    BY <1>2
  <2> QED BY <2>1, <2>2, <2>3, <2>4
<1>10. TypeOK'
  <2>1. member' \in [Node -> Members] BY <1>1, <1>3, <1>7 DEF Good
  <2>2. \A k \in Node : member'[k].live <= member'[k].pending_GETVERS
    BY <1>1, <1>7, <1>8, Zenon DEF TypeOK, Good
  <2> QED BY <1>1, <1>9, <2>1, <2>2 DEF TypeOK
<1>11. IdsGiven'
  <2>1. ASSUME NEW k \in Node, NEW id \in Deleted(member'[k]) \cup {member'[k].myid}
        PROVE  id < seq /\ (id \in DOMAIN znode => znode[id].url = k)
    <3>1. CASE k # n BY <1>8, <2>1, <3>1 DEF IInv, IdsGiven
    <3>2. CASE k = n
      <4>1. \/ id \in Deleted(member[n]) \cup {member[n].myid} \/ id = NoId
            \/ e.evt = "CREATE_OK" /\ id = e.arg
        BY <1>7, <1>8, <2>1, <3>2
      <4>2. CASE id = NoId BY <1>1, <4>2, TypeFacts, IdsFacts
      <4>3. CASE e.evt = "CREATE_OK" /\ id = e.arg
        BY <1>5, <3>2, <4>3 DEF Owned, IInv, IdsGiven
      <4>4. CASE id \in Deleted(member[n]) \cup {member[n].myid}
        BY <3>2, <4>4 DEF IInv, IdsGiven
      <4> QED BY <4>1, <4>2, <4>3, <4>4
    <3> QED BY <3>1, <3>2
  <2> QED BY <2>1 DEF IInv, IdsGiven, Deleted
<1>12. CandidateOwns'
  <2>1. ASSUME NEW k \in Node, member'[k].step \in Candidate
        PROVE  Owned(k, member'[k].myid) /\ member'[k].myid \notin Deleted(member'[k])
    BY <1>5, <1>7, <1>8, <2>1 DEF IInv, CandidateOwns
  <2> QED BY <2>1 DEF CandidateOwns, Owned, Deleted
<1>13. AheadIsFirst'
  <2> SUFFICES ASSUME NEW k \in Node, member'[k].step \in Ahead, NEW id \in DOMAIN znode
               PROVE  member'[k].myid <= id
    BY DEF AheadIsFirst
  <2>1. CASE member[k].step \in Ahead BY <1>7, <1>8, <2>1 DEF IInv, AheadIsFirst
  <2>2. CASE k = n /\ e.evt = "LIST_OK" /\ t.myid \in e.arg /\ t.myid = First(e.arg)
    <3>1. e.arg \subseteq Nat /\ e.arg # {} BY <1>4, <2>2 DEF Ids
    <3>2. \A j \in e.arg : t.myid <= j BY <2>2, <3>1, FirstIsLeast
    <3>3. \A j \in DOMAIN znode \ e.arg : t.myid < j BY <1>2, <2>2 DEF IInv, ListsOlder
    <3>4. t.myid \in Int BY <2>2, <3>1
    <3>5. id \in Int BY <1>1, TypeFacts, IdsFacts, Zenon
    <3> QED BY <1>8, <2>2, <3>2, <3>3, <3>4, <3>5
  <2> QED BY <1>7, <1>8, <2>1, <2>2
<1>14. CreatedOwned'
  <2> SUFFICES ASSUME NEW k \in Node, NEW i \in 1..Len(ans'[k]), ans'[k][i].evt = "CREATE_OK"
               PROVE  /\ NowOwned(k, ans'[k][i].arg)
                      /\ ans'[k][i].arg \notin Deleted(member'[k]) \cup {member'[k].myid}
                      /\ \A j \in 1..Len(ans'[k]) :
                           ans'[k][j].evt = "CREATE_OK" /\ ans'[k][j].arg = ans'[k][i].arg => i = j
    BY Zenon DEF CreatedOwned, Deleted, Owned, NowOwned
  <2>0. \A id : Owned(k, id) => NowOwned(k, id) BY DEF Owned, NowOwned
  <2>1. CASE k # n BY <1>8, <1>9, <2>0, <2>1 DEF IInv, CreatedOwned
  <2>2. CASE k = n
    <3>1. i + 1 \in 1..Len(ans[n]) /\ ans'[n][i] = ans[n][i + 1] /\ i + 1 # 1
      BY <1>9, <2>2
    <3>2. /\ Owned(n, ans'[n][i].arg)
          /\ ans'[n][i].arg \notin Deleted(member[n]) \cup {member[n].myid}
          /\ \A j \in 1..Len(ans[n]) :
               ans[n][j].evt = "CREATE_OK" /\ ans[n][j].arg = ans'[n][i].arg => i + 1 = j
      BY <2>2, <3>1 DEF IInv, CreatedOwned
    <3>3. e.evt = "CREATE_OK" => ans'[n][i].arg # e.arg BY <1>5, <2>2, <3>1
    <3>4. ans'[n][i].arg # NoId BY <1>1, <3>2, TypeFacts, IdsFacts, Zenon DEF Owned
    <3>5. ASSUME NEW j \in 1..Len(ans'[n]), ans'[n][j].evt = "CREATE_OK",
                 ans'[n][j].arg = ans'[n][i].arg
          PROVE  i = j
      <4>1. j + 1 \in 1..Len(ans[n]) /\ ans'[n][j] = ans[n][j + 1] BY <1>9
      <4>2. i + 1 = j + 1 BY <3>2, <3>5, <4>1, Zenon
      <4>3. i \in Int /\ j \in Int OBVIOUS
      <4> QED BY <4>2, <4>3
    <3> QED BY <1>7, <1>8, <2>0, <2>2, <3>2, <3>3, <3>4, <3>5
  <2> QED BY <2>1, <2>2, Zenon
<1>15. ListsOlder'
  <2> SUFFICES ASSUME NEW k \in Node, NEW i \in 1..Len(ans'[k]), ans'[k][i].evt = "LIST_OK",
                      NEW h \in ans'[k][i].arg
               PROVE  h < seq /\ \A id \in DOMAIN znode \ ans'[k][i].arg : h < id
    BY Zenon DEF ListsOlder
  <2>1. \E j \in 1..Len(ans[k]) : ans'[k][i] = ans[k][j] BY <1>9
  <2> QED BY <2>1 DEF IInv, ListsOlder
<1> QED BY <1>10, <1>11, <1>12, <1>13, <1>14, <1>15 DEF IInv

LEMMA SameQueues ==
  ASSUME TypeOK, UNCHANGED ans
  PROVE  ans' \in [Node -> Seq(Events)] /\ \A k \in Node : Embeds(ans'[k], ans[k])
BY TypeFacts, EmbedsSame DEF TypeOK

LEMMA TailQueues ==
  ASSUME TypeOK, NEW n \in Node, ans[n] # <<>>, ans' = [ans EXCEPT ![n] = Tail(@)]
  PROVE  ans' \in [Node -> Seq(Events)] /\ \A k \in Node : Embeds(ans'[k], ans[k])
<1>1. ans \in [Node -> Seq(Events)] BY DEF TypeOK
<1>2. \A k \in Node : ans'[k] = IF k = n THEN Tail(ans[n]) ELSE ans[k] BY <1>1
<1>3. Tail(ans[n]) \in Seq(Events) /\ Embeds(Tail(ans[n]), ans[n]) BY <1>1, EmbedsTail
<1>4. ans' \in [Node -> Seq(Events)] BY <1>1, <1>3
<1> QED BY <1>1, <1>2, <1>3, <1>4, EmbedsSame

LEMMA DeliverInv == ASSUME IInv, NEW n \in Node, Deliver(n) PROVE IInv'
<1> DEFINE e == Head(ans[n])
<1>1. /\ TypeOK /\ left["disconnect"] = 0 /\ ans[n] # <<>>
      /\ UNCHANGED <<exiting, znode, seq, watch, left>>
      /\ ans' = [ans EXCEPT ![n] = Tail(@)]
  BY DEF IInv, Deliver
<1>2. ans' \in [Node -> Seq(Events)] /\ \A k \in Node : Embeds(ans'[k], ans[k])
  BY <1>1, TailQueues, Zenon
<1>3. Good(member[n]) /\ Still(member[n], member[n]) BY <1>1, TypeFacts, SameStill
<1>4. e \in Events /\ Suits(e, member[n])
  <2>1. ans[n] \in Seq(Events) BY <1>1, TypeFacts
  <2>2. e \in Events BY <1>1, <2>1
  <2> QED BY <2>2 DEF Events, Suits, Verdicts
<1>5. exiting' \in [Node -> BOOLEAN] /\ left' \in [Incidents -> Nat] /\ left'["disconnect"] = 0
  BY <1>1 DEF TypeOK
<1>6. CASE UNCHANGED member
  <2>1. \A k \in Node : Follows(member[k], member'[k]) BY <1>6, SameFollows
  <2>2. TypeOK' BY <1>1, <1>2, <1>6 DEF TypeOK
  <2> QED BY <1>1, <1>2, <1>5, <2>1, <2>2, SameZnodes, InvariantKept
<1>7. ASSUME NEW v \in {"NODE_LEFT", "MASTER_CHANGE"}, Transition(n, member[n], Event(v, NoId))
      PROVE  IInv'
  <2>1. Event(v, NoId).evt \notin Ranking /\ Suits(Event(v, NoId), member[n])
    BY DEF Event, Ranking, Suits, Verdicts
  <2> QED BY <1>1, <1>2, <1>3, <1>5, <1>7, <2>1, TransitionInv
<1>8. CASE Transition(n, member[n], e) /\ e.evt \in Ranking BY <1>1, <1>8, RankedInv, Zenon
<1>9. CASE Transition(n, member[n], e) /\ e.evt \notin Ranking
  BY <1>1, <1>2, <1>3, <1>4, <1>5, <1>9, TransitionInv
<1>10. \/ UNCHANGED member \/ Transition(n, member[n], e)
       \/ Transition(n, member[n], Event("NODE_LEFT", NoId))
       \/ Transition(n, member[n], Event("MASTER_CHANGE", NoId))
  <2>1. exiting[n] \in BOOLEAN BY <1>1 DEF TypeOK
  <2> QED BY <2>1 DEF Deliver
<1> QED BY <1>6, <1>7, <1>8, <1>9, <1>10

LEMMA EndGetversInv ==
  ASSUME IInv, NEW n \in Node, NEW v \in Answers, on_end_GETVERS(n, v) PROVE IInv'
<1> DEFINE m == [member[n] EXCEPT !.live = @ - 1]
<1>1. /\ TypeOK /\ left["disconnect"] = 0 /\ member[n].live > 0
      /\ UNCHANGED <<exiting, znode, seq, watch, ans, left>>
      /\ Transition(n, m, Event(v, NoId))
  BY DEF IInv, on_end_GETVERS
<1>2. Still(member[n], m) /\ m.live < m.pending_GETVERS
  <2>1. Good(member[n]) /\ member[n] \in Members BY <1>1, TypeFacts DEF Good
  <2>2. member[n].live \in Pending /\ member[n].pending_GETVERS \in Pending
    BY <2>1 DEF Members
  <2>3. /\ member[n].live - 1 \in Pending
        /\ member[n].live - 1 < member[n].pending_GETVERS
        /\ member[n].live - 1 <= member[n].pending_GETVERS
    BY <1>1, <2>1, <2>2, PeersType DEF Good, Pending
  <2>4. m \in Members /\ m.step = member[n].step /\ m.myid = member[n].myid /\ m.req = member[n].req
    BY <2>1, <2>3, Zenon DEF Members
  <2>5. m.live = member[n].live - 1 /\ m.pending_GETVERS = member[n].pending_GETVERS
    BY <2>1 DEF Members
  <2> QED BY <2>3, <2>4, <2>5 DEF Still, Good, Deleted
<1> HIDE DEF m
<1>3. Event(v, NoId).evt \notin Ranking /\ Suits(Event(v, NoId), m)
  <2>1. v \in Verdicts BY ElectionAssumption
  <2> QED BY <1>2, <2>1 DEF Event, Ranking, Suits, Verdicts
<1>4. exiting' \in [Node -> BOOLEAN] /\ left' \in [Incidents -> Nat] /\ left'["disconnect"] = 0
  BY <1>1 DEF TypeOK
<1> QED BY <1>1, <1>2, <1>3, <1>4, SameQueues, TransitionInv

LEMMA EndPipefromInv == ASSUME IInv, NEW n \in Node, on_end_PIPEFROM(n) PROVE IInv'
<1> DEFINE m == [member[n] EXCEPT !.pipes = @ - 1]
<1>1. /\ TypeOK /\ left["disconnect"] = 0 /\ member[n].pipes > 0
      /\ UNCHANGED <<exiting, znode, seq, watch, ans, left>>
      /\ Transition(n, m, Event("RESYNC_DONE", NoId))
  BY DEF IInv, on_end_PIPEFROM
<1>2. Still(member[n], m)
  <2>1. Good(member[n]) /\ member[n] \in Members BY <1>1, TypeFacts DEF Good
  <2>2. member[n].pipes \in Nat BY <2>1 DEF Members
  <2>3. member[n].pipes - 1 \in Nat BY <1>1, <2>2
  <2>4. m \in Members /\ m.step = member[n].step /\ m.myid = member[n].myid /\ m.req = member[n].req
    BY <2>1, <2>3, Zenon DEF Members
  <2>5. m.live = member[n].live /\ m.pending_GETVERS = member[n].pending_GETVERS
    BY <2>1 DEF Members
  <2> QED BY <2>1, <2>4, <2>5 DEF Still, Good, Deleted
<1> HIDE DEF m
<1>3. Event("RESYNC_DONE", NoId).evt \notin Ranking /\ Suits(Event("RESYNC_DONE", NoId), m)
  BY DEF Event, Ranking, Suits, Verdicts
<1>4. exiting' \in [Node -> BOOLEAN] /\ left' \in [Incidents -> Nat] /\ left'["disconnect"] = 0
  BY <1>1 DEF TypeOK
<1> QED BY <1>1, <1>2, <1>3, <1>4, SameQueues, TransitionInv

\* The events without argument that come from the service itself.
LEMMA OrderInv ==
  ASSUME IInv, NEW n \in Node, NEW v \in {"NONE", "RESYNC_REQ", "EXITING"},
         Transition(n, member[n], Event(v, NoId)), UNCHANGED <<znode, seq, watch, ans>>,
         exiting' \in [Node -> BOOLEAN], left' \in [Incidents -> Nat], left'["disconnect"] = 0
  PROVE  IInv'
<1>1. TypeOK /\ Still(member[n], member[n]) BY TypeFacts, SameStill DEF IInv
<1>2. Event(v, NoId).evt \notin Ranking /\ Suits(Event(v, NoId), member[n])
  BY DEF Event, Ranking, Suits, Verdicts
<1> QED BY <1>1, <1>2, SameQueues, TransitionInv

LEMMA SpendType ==
  ASSUME TypeOK, left["disconnect"] = 0, NEW kind \in Incidents, kind # "disconnect", Spend(kind)
  PROVE  left' \in [Incidents -> Nat] /\ left'["disconnect"] = 0
<1>1. left \in [Incidents -> Nat] BY DEF TypeOK
<1>2. left[kind] - 1 \in Nat BY <1>1 DEF Spend
<1>3. left' = [left EXCEPT ![kind] = left[kind] - 1] BY DEF Spend
<1>4. "disconnect" \in Incidents BY DEF Incidents
<1> QED BY <1>1, <1>2, <1>3, <1>4

-----------------------------------------------------------------------------
(* Crashes.                                                                 *)

LEMMA NewFollows ==
  ASSUME NEW m PROVE Good(NewMember) /\ Follows(m, NewMember) /\ NewMember.step = "NONE"
<1>1. <<>> \in Queues /\ "NONE" \in Steps BY DEF Queues, Steps
<1>2. NewMember \in Members BY <1>1, Zeros, Zenon DEF NewMember, Members
<1>3. /\ NewMember.live = 0 /\ NewMember.pending_GETVERS = 0 /\ NewMember.myid = NoId
      /\ NewMember.step = "NONE" /\ NewMember.req = <<>>
  BY DEF NewMember
<1>4. Deleted(NewMember) = {} BY <1>3 DEF Deleted
<1> QED BY <1>2, <1>3, <1>4 DEF Good, Follows, Candidate, Ahead

\* The znodes of the service that crashed no longer belong to a session.
Closed(n) ==
  [i \in DOMAIN znode |->
     IF znode[i].url = n THEN [znode[i] EXCEPT !.open = FALSE] ELSE znode[i]]

LEMMA ClosedType ==
  ASSUME TypeOK, NEW n \in Node
  PROVE  /\ DOMAIN Closed(n) = DOMAIN znode
         /\ \A i \in DOMAIN znode : /\ Closed(n)[i] \in [url : Node, open : BOOLEAN]
                                    /\ Closed(n)[i].url = znode[i].url
                                    /\ znode[i].url # n => Closed(n)[i] = znode[i]
BY Zenon DEF Closed, TypeOK

LEMMA CrashInv == ASSUME IInv, NEW n \in Node, Crash(n) PROVE IInv'
<1>1. TypeOK /\ left["disconnect"] = 0 BY DEF IInv
<1>2. member' = [member EXCEPT ![n] = NewMember] /\ exiting' = [exiting EXCEPT ![n] = FALSE]
  BY DEF Crash
<1>3. /\ member' \in [Node -> Members]
      /\ \A k \in Node : Follows(member[k], member'[k])
      /\ \A k \in Node : member'[k].live <= member'[k].pending_GETVERS
      /\ member'[n] = NewMember
  BY <1>1, <1>2, NewFollows, OneFollows, Zenon
<1>4. exiting' \in [Node -> BOOLEAN] BY <1>1, <1>2 DEF TypeOK
<1>5. left' \in [Incidents -> Nat] /\ left'["disconnect"] = 0
  BY <1>1, SpendType DEF Crash, Incidents
<1>6. \A r \in {member[n].req[i] : i \in 1..Len(member[n].req)} :
        r.op = "delete" => r.id \in Deleted(member[n])
  BY DEF Deleted
<1>7. \A id \in Deleted(member[n]) : id \in DOMAIN znode => znode[id].url = n
  BY DEF IInv, IdsGiven
<1>8. /\ ans' \in [Node -> Seq(Events)] /\ \A k \in Node : Embeds(ans'[k], ans[k])
      /\ ans'[n] = <<>>
  <2>1. ans \in [Node -> Seq(Events)] /\ <<>> \in Seq(Events) BY <1>1 DEF TypeOK
  <2>2. CASE ans' = [ans EXCEPT ![n] = <<>>]
    <3>1. \A k \in Node : ans'[k] = IF k = n THEN <<>> ELSE ans[k] BY <2>1, <2>2
    <3>2. ans' \in [Node -> Seq(Events)] BY <2>1, <2>2
    <3> QED BY <2>1, <3>1, <3>2, EmbedsSame, EmbedsNone
  <2>3. ASSUME NEW id, ans' = [k \in Node |-> IF k = n THEN <<>> ELSE ans[k] \o Triggered(k, id)]
        PROVE  /\ ans' \in [Node -> Seq(Events)] /\ \A k \in Node : Embeds(ans'[k], ans[k])
               /\ ans'[n] = <<>>
    <3>1. \A k \in Node : ans[k] \o Triggered(k, id) \in Seq(Events)
                          /\ Embeds(ans[k] \o Triggered(k, id), ans[k])
      BY <2>1, TriggeredQuiet, EmbedsQuiet
    <3>2. \A k \in Node : ans'[k] = IF k = n THEN <<>> ELSE ans[k] \o Triggered(k, id)
      BY <2>3
    <3>3. ans' \in [Node -> Seq(Events)] BY <2>1, <2>3, <3>1
    <3> QED BY <3>1, <3>2, <3>3, EmbedsNone, Zenon
  <2> QED BY <2>2, <2>3, Zenon DEF Crash, Sever
<1>9. watch' \in [Node -> SUBSET [id : Ids, kind : {"node", "master"}]]
  <2>1. watch \in [Node -> SUBSET [id : Ids, kind : {"node", "master"}]] BY <1>1 DEF TypeOK
  <2>2. CASE watch' = [watch EXCEPT ![n] = {}] BY <2>1, <2>2
  <2>3. ASSUME NEW id, watch' = [Unwatched(id) EXCEPT ![n] = {}]
        PROVE  watch' \in [Node -> SUBSET [id : Ids, kind : {"node", "master"}]]
    <3>1. Unwatched(id) \in [Node -> SUBSET [id : Ids, kind : {"node", "master"}]]
      BY <2>1 DEF Unwatched
    <3> QED BY <2>3, <3>1
  <2> QED BY <2>2, <2>3, Zenon DEF Crash, Sever
<1>10. /\ seq' \in {seq, seq + 1} /\ seq' \in 0..(MaxId + 1)
       /\ \A i \in DOMAIN znode' :
            \/ i \in DOMAIN znode /\ znode'[i] = Closed(n)[i]
            \/ /\ i = seq /\ seq' = seq + 1 /\ seq \in Ids
               /\ znode'[i] = [url |-> n, open |-> FALSE]
       /\ \A i \in DOMAIN znode : i \in DOMAIN znode' \/ znode[i].url = n
  <2>1. seq \in 0..(MaxId + 1) /\ MaxId \in Nat BY <1>1, ElectionAssumption DEF TypeOK
  <2>2. DOMAIN Closed(n) = DOMAIN znode BY <1>1, ClosedType
  <2>3. \/ znode' = Closed(n) /\ UNCHANGED seq
        \/ /\ seq <= MaxId /\ seq' = seq + 1
           /\ znode' = [i \in DOMAIN znode \cup {seq} |->
                          IF i = seq THEN [url |-> n, open |-> FALSE] ELSE Closed(n)[i]]
        \/ \E id \in Deleted(member[n]) :
             /\ znode' = [i \in DOMAIN znode \ {id} |-> Closed(n)[i]] /\ UNCHANGED seq
    BY <1>6, Zenon DEF Crash, Sever, Closed
  <2>4. CASE znode' = Closed(n) /\ UNCHANGED seq BY <2>1, <2>2, <2>4
  <2>5. CASE /\ seq <= MaxId /\ seq' = seq + 1
             /\ znode' = [i \in DOMAIN znode \cup {seq} |->
                            IF i = seq THEN [url |-> n, open |-> FALSE] ELSE Closed(n)[i]]
    <3>1. seq \in Ids /\ seq' \in 0..(MaxId + 1) BY <2>1, <2>5 DEF Ids
    <3> QED BY <2>5, <3>1
  <2>6. ASSUME NEW id \in Deleted(member[n]),
               znode' = [i \in DOMAIN znode \ {id} |-> Closed(n)[i]], UNCHANGED seq
        PROVE  /\ seq' \in {seq, seq + 1} /\ seq' \in 0..(MaxId + 1)
               /\ \A i \in DOMAIN znode' : i \in DOMAIN znode /\ znode'[i] = Closed(n)[i]
               /\ \A i \in DOMAIN znode : i \in DOMAIN znode' \/ znode[i].url = n
    BY <1>7, <2>1, <2>6
  <2> QED BY <2>3, <2>4, <2>5, <2>6, Zenon
<1>11. \A i \in DOMAIN znode : /\ Closed(n)[i] \in [url : Node, open : BOOLEAN]
                               /\ Closed(n)[i].url = znode[i].url
                               /\ znode[i].url # n => Closed(n)[i] = znode[i]
  BY <1>1, ClosedType
<1>12. TypeOK'
  <2>1. DOMAIN znode' \subseteq Ids BY <1>1, <1>10 DEF TypeOK
  <2>2. [url |-> n, open |-> FALSE] \in [url : Node, open : BOOLEAN] OBVIOUS
  <2>3. \A i \in DOMAIN znode' : znode'[i] \in [url : Node, open : BOOLEAN]
    BY <1>10, <1>11, <2>2, Zenon
  <2> QED BY <1>3, <1>4, <1>5, <1>8, <1>9, <1>10, <2>1, <2>3 DEF TypeOK
<1>13. Znodes BY <1>10, <1>11 DEF Znodes
<1>14. Kept
  <2> SUFFICES ASSUME NEW k \in Node, NEW i \in Ids, Owned(k, i), k # n PROVE NowOwned(k, i)
    BY <1>3, <1>8, NewFollows DEF Kept, Candidate
  <2>1. i \in DOMAIN znode /\ znode[i].url # n BY DEF Owned
  <2>2. i \in DOMAIN znode' /\ i # seq
    <3>1. ~(seq < seq) BY <1>1, TypeFacts
    <3> QED BY <1>10, <2>1, <3>1 DEF IInv, IdsGiven
  <2>3. znode'[i] = znode[i] BY <1>10, <1>11, <2>1, <2>2
  <2> QED BY <2>2, <2>3 DEF Owned, NowOwned
<1> QED BY <1>3, <1>5, <1>8, <1>12, <1>13, <1>14, InvariantKept

-----------------------------------------------------------------------------
(* The invariant.                                                           *)

\* Steps that leave the rank of the members and the znodes alone.
LEMMA IdleInv ==
  ASSUME IInv, member' \in [Node -> Members],
         \A k \in Node : Follows(member[k], member'[k]),
         \A k \in Node : member'[k].live <= member'[k].pending_GETVERS,
         UNCHANGED <<znode, seq, watch, ans>>, exiting' \in [Node -> BOOLEAN],
         left' \in [Incidents -> Nat], left'["disconnect"] = 0
  PROVE  IInv'
<1>1. TypeOK BY DEF IInv
<1>2. ans' \in [Node -> Seq(Events)] /\ \A k \in Node : Embeds(ans'[k], ans[k])
  BY <1>1, SameQueues
<1>3. TypeOK' BY <1>1, <1>2 DEF TypeOK
<1> QED BY <1>2, <1>3, SameZnodes, InvariantKept

LEMMA LostInv == ASSUME IInv, NEW n \in Node, GetversLost(n) PROVE IInv'
<1> DEFINE t == [member[n] EXCEPT !.live = @ - 1]
<1>1. /\ TypeOK /\ left["disconnect"] = 0 /\ member[n].live > 0
      /\ UNCHANGED <<exiting, znode, seq, watch, ans>> /\ Spend("lose")
      /\ member' = [member EXCEPT ![n].live = @ - 1] /\ member \in [Node -> Members]
  BY DEF IInv, GetversLost, TypeOK
<1>2. member' = [member EXCEPT ![n] = t] BY <1>1
<1>3. Good(t) /\ Follows(member[n], t)
  <2>1. Good(member[n]) /\ member[n] \in Members BY <1>1, TypeFacts DEF Good
  <2>2. member[n].live \in Pending /\ member[n].pending_GETVERS \in Pending
    BY <2>1 DEF Members
  <2>3. member[n].live - 1 \in Pending /\ member[n].live - 1 <= member[n].pending_GETVERS
    BY <1>1, <2>1, <2>2, PeersType DEF Good, Pending
  <2>4. t \in Members /\ t.step = member[n].step /\ t.myid = member[n].myid /\ t.req = member[n].req
    BY <2>1, <2>3, Zenon DEF Members
  <2>5. t.live = member[n].live - 1 /\ t.pending_GETVERS = member[n].pending_GETVERS
    BY <2>1 DEF Members
  <2> QED BY <2>3, <2>4, <2>5 DEF Good, Follows, Deleted
<1> HIDE DEF t
<1>4. exiting' \in [Node -> BOOLEAN] /\ left' \in [Incidents -> Nat] /\ left'["disconnect"] = 0
  BY <1>1, SpendType DEF TypeOK, Incidents
<1> QED BY <1>1, <1>2, <1>3, <1>4, OneFollows, IdleInv, Zenon

LEMMA InitInv == ASSUME Budget["disconnect"] = 0, Init PROVE IInv
<1>1. \A n \in Node : member[n] = NewMember BY DEF Init
<1>2. Good(NewMember) /\ NewMember.step = "NONE" BY NewFollows
<1>3. DOMAIN znode = {} /\ seq = 0 /\ left = Budget BY DEF Init
<1>4. \A n \in Node : Deleted(member[n]) = {} /\ member[n].myid = NoId
  BY <1>1 DEF NewMember, Deleted
<1>5. TypeOK
  <2>1. member \in [Node -> Members] BY <1>2 DEF Init, Good
  <2>2. \A n \in Node : member[n].live <= member[n].pending_GETVERS BY <1>1, <1>2 DEF Good
  <2>3. ans \in [Node -> Seq(Events)] BY DEF Init
  <2>4. seq \in 0..(MaxId + 1) BY <1>3, ElectionAssumption
  <2> QED BY <1>3, <2>1, <2>2, <2>3, <2>4, ElectionAssumption DEF Init, TypeOK
<1>6. IdsGiven BY <1>3, <1>4, IdsFacts DEF IdsGiven
<1>7. CandidateOwns /\ AheadIsFirst BY <1>1, <1>2 DEF CandidateOwns, AheadIsFirst, Candidate, Ahead
<1>8. CreatedOwned /\ ListsOlder
  <2>1. \A n \in Node : ans[n] = <<>> BY DEF Init
  <2>2. \A n \in Node : 1..Len(ans[n]) = {} BY <2>1
  <2> QED BY <2>2 DEF CreatedOwned, ListsOlder
<1> QED BY <1>3, <1>5, <1>6, <1>7, <1>8 DEF IInv

LEMMA NextInv == ASSUME IInv, [Next]_vars PROVE IInv'
<1>0. /\ TypeOK /\ left["disconnect"] = 0
      /\ exiting \in [Node -> BOOLEAN] /\ left \in [Incidents -> Nat]
      /\ member \in [Node -> Members]
      /\ \A k \in Node : member[k].live <= member[k].pending_GETVERS
  BY DEF IInv, TypeOK
<1>1. ASSUME NEW n \in Node, Serve(n) PROVE IInv'
  BY <1>1, ServeCreateInv, ServeExistsInv, ServeListInv, ServeGetInv, ServeDeleteInv,
     ServeErrorInv DEF Serve
<1>2. ASSUME NEW n \in Node, Kick(n) PROVE IInv'
  BY <1>0, <1>2, OrderInv DEF Kick
<1>3. ASSUME NEW n \in Node, Resync(n) PROVE IInv'
  <2>1. left' \in [Incidents -> Nat] /\ left'["disconnect"] = 0
    BY <1>0, <1>3, SpendType DEF Resync, Incidents
  <2> QED BY <1>0, <1>3, <2>1, OrderInv DEF Resync
<1>4. ASSUME NEW n \in Node, Exit(n) PROVE IInv'
  <2>1. left' \in [Incidents -> Nat] /\ left'["disconnect"] = 0
    BY <1>0, <1>4, SpendType DEF Exit, Incidents
  <2> QED BY <1>0, <1>4, <2>1, OrderInv DEF Exit
<1>5. ASSUME NEW n \in Node, ExitAll(n) PROVE IInv'
  <2>1. left' \in [Incidents -> Nat] /\ left'["disconnect"] = 0
    BY <1>0, <1>5, SpendType DEF ExitAll, Incidents
  <2>2. exiting' \in [Node -> BOOLEAN] BY <1>0, <1>5 DEF ExitAll
  <2>3. CASE UNCHANGED member
    <3>1. \A k \in Node : Follows(member[k], member'[k]) BY <2>3, SameFollows
    <3> QED BY <1>0, <1>5, <2>1, <2>2, <2>3, <3>1, IdleInv DEF ExitAll
  <2>4. CASE Transition(n, member[n], Event("EXITING", NoId))
    BY <1>5, <2>1, <2>2, <2>4, OrderInv DEF ExitAll
  <2> QED BY <1>5, <2>3, <2>4 DEF ExitAll
<1>6. ASSUME NEW n \in Node, ExitAllDone(n) PROVE IInv'
  <2>1. exiting' \in [Node -> BOOLEAN] BY <1>0, <1>6 DEF ExitAllDone
  <2>2. UNCHANGED <<member, znode, seq, watch, ans, left>> BY <1>6 DEF ExitAllDone
  <2>3. \A k \in Node : Follows(member[k], member'[k]) BY <2>2, SameFollows
  <2> QED BY <1>0, <2>1, <2>2, <2>3, IdleInv
<1>7. ASSUME NEW n \in Node, Disconnect(n) PROVE FALSE
  BY <1>0, <1>7 DEF Disconnect, Spend
<1>8. CASE UNCHANGED vars
  <2>1. UNCHANGED <<member, exiting, znode, seq, watch, ans, left>> BY <1>8 DEF vars
  <2>2. \A k \in Node : Follows(member[k], member'[k]) BY <2>1, SameFollows
  <2> QED BY <1>0, <2>1, <2>2, IdleInv
<1>9. CASE Next
  <2>1. ASSUME NEW id \in Ids, Expire(id) PROVE IInv' BY <2>1, ExpireInv
  <2>2. ASSUME NEW n \in Node,
               \/ Serve(n) \/ Deliver(n) \/ on_end_PIPEFROM(n) \/ Kick(n)
               \/ \E v \in Answers : on_end_GETVERS(n, v)
               \/ Resync(n) \/ Exit(n) \/ ExitAll(n) \/ ExitAllDone(n)
               \/ GetversLost(n) \/ Crash(n) \/ Disconnect(n)
        PROVE  IInv'
    BY <1>1, <1>2, <1>3, <1>4, <1>5, <1>6, <1>7, <2>2, DeliverInv, EndPipefromInv,
       EndGetversInv, LostInv, CrashInv
  <2> QED BY <1>9, <2>1, <2>2 DEF Next
<1> QED BY <1>8, <1>9

\* Of two leaders, each has a znode of its own and none is younger than the other's.
LEMMA LeadersAgree == ASSUME IInv PROVE AtMostOneLeader
<1> SUFFICES ASSUME NEW n \in Node, NEW k \in Node,
                    member[n].step = "LEADER", member[k].step = "LEADER"
             PROVE  n = k
  BY DEF AtMostOneLeader
<1>1. Owned(n, member[n].myid) /\ Owned(k, member[k].myid)
  BY DEF IInv, CandidateOwns, Candidate
<1>2. member[n].myid <= member[k].myid /\ member[k].myid <= member[n].myid
  BY <1>1 DEF IInv, AheadIsFirst, Ahead, Owned
<1>3. member[n].myid = member[k].myid BY <1>2, TypeFacts DEF IInv
<1> QED BY <1>1, <1>3 DEF Owned

\* As long as no connection to ZooKeeper is lost, IInv is an invariant of the election,
\* for any number of services, of znodes created and of the other incidents (crashes,
\* resyncs, exits, answers lost, errors of ZooKeeper).
THEOREM ElectionInvariant == ASSUME Budget["disconnect"] = 0 PROVE Spec => []IInv
<1>1. Init => IInv BY InitInv
<1>2. IInv /\ [Next]_vars => IInv' BY NextInv
<1> QED BY <1>1, <1>2, PTL DEF Spec

\* As long as no connection to ZooKeeper is lost, two services are never LEADER of a base
\* at the same time, however many services, crashes, resyncs and exits there are.
THEOREM ElectionAtMostOneLeader ==
  ASSUME Budget["disconnect"] = 0 PROVE Spec => []AtMostOneLeader
<1>1. IInv => AtMostOneLeader BY LeadersAgree
<1> QED BY <1>1, ElectionInvariant, PTL
=============================================================================
