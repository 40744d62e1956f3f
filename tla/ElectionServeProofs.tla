------------------------ MODULE ElectionServeProofs -------------------------
(****************************************************************************)
(* What ZooKeeper does preserves IInv: the requests served, and the znodes   *)
(* that expire.                                                              *)
(****************************************************************************)
EXTENDS ElectionMoveProofs

\* The events that give a member its rank.
Ranking == {"CREATE_OK", "LIST_OK"}
Quiet == {e \in Events : e.evt \notin Ranking}

\* No event of Ranking in q2 is new: they are those of q, at the same place or
\* just behind the first.
Embeds(q2, q) ==
  \E d \in {0, 1} : \A i \in 1..Len(q2) :
    q2[i].evt \in Ranking => i + d \in 1..Len(q) /\ q2[i] = q[i + d]

\* The member is given no rank.
Follows(m, t) ==
  /\ t.myid \in {m.myid, NoId}
  /\ \A d \in Deleted(t) : d \in Deleted(m) \cup {m.myid, NoId}
  /\ t.step \in Candidate => /\ m.step \in Candidate /\ t.myid = m.myid
                             /\ m.myid \notin Deleted(m) => m.myid \notin Deleted(t)
  /\ t.step \in Ahead => m.step \in Ahead

\* Znodes disappear, and the only new one has the next id.
Znodes ==
  /\ seq' \in {seq, seq + 1}
  /\ \A id \in DOMAIN znode' : \/ id \in DOMAIN znode /\ znode'[id].url = znode[id].url
                               \/ id = seq /\ seq' = seq + 1

NowOwned(k, id) == id \in DOMAIN znode' /\ znode'[id].url = k /\ znode'[id].open

\* The znodes of the candidates and of the members just created are kept.
Kept ==
  \A k \in Node : \A id \in Ids :
    /\ Owned(k, id)
    /\ \/ member'[k].step \in Candidate /\ id = member'[k].myid
       \/ \E i \in 1..Len(ans'[k]) : ans'[k][i].evt = "CREATE_OK" /\ ans'[k][i].arg = id
    => NowOwned(k, id)

-----------------------------------------------------------------------------
(* Queues.                                                                  *)

LEMMA EmbedsSame == ASSUME NEW q \in Seq(Events) PROVE Embeds(q, q)
<1>1. \A i \in 1..Len(q) : i + 0 \in 1..Len(q) /\ q[i] = q[i + 0] OBVIOUS
<1> QED BY <1>1 DEF Embeds

LEMMA EmbedsNone == ASSUME NEW q PROVE Embeds(<<>>, q)
BY DEF Embeds

LEMMA EmbedsTail ==
  ASSUME NEW q \in Seq(Events), q # <<>> PROVE Tail(q) \in Seq(Events) /\ Embeds(Tail(q), q)
<1>1. Tail(q) \in Seq(Events) OBVIOUS
<1>2. \A i \in 1..Len(Tail(q)) : i + 1 \in 1..Len(q) /\ Tail(q)[i] = q[i + 1] OBVIOUS
<1> QED BY <1>1, <1>2 DEF Embeds

LEMMA EmbedsQuiet ==
  ASSUME NEW q \in Seq(Events), NEW r \in Seq(Quiet)
  PROVE  q \o r \in Seq(Events) /\ Embeds(q \o r, q)
<1>1. r \in Seq(Events) BY DEF Quiet
<1>2. q \o r \in Seq(Events) BY <1>1
<1>3. ASSUME NEW i \in 1..Len(q \o r), (q \o r)[i].evt \in Ranking
      PROVE  i + 0 \in 1..Len(q) /\ (q \o r)[i] = q[i + 0]
  <2>1. CASE i <= Len(q) BY <1>1, <2>1
  <2>2. CASE i > Len(q)
    <3>1. i - Len(q) \in 1..Len(r) /\ (q \o r)[i] = r[i - Len(q)] BY <1>1, <2>2
    <3>2. r[i - Len(q)] \in Quiet BY <3>1
    <3> QED BY <1>3, <3>1, <3>2 DEF Quiet
  <2> QED BY <2>1, <2>2
<1> QED BY <1>2, <1>3 DEF Embeds

\* A request served.
LEMMA TailRequest ==
  ASSUME NEW m, Good(m), m.req # <<>>
  PROVE  /\ Good([m EXCEPT !.req = Tail(@)])
         /\ Follows(m, [m EXCEPT !.req = Tail(@)])
         /\ Head(m.req) \in Requests
         /\ Head(m.req).op = "delete" => Head(m.req).id \in Deleted(m)
<1> DEFINE t == [m EXCEPT !.req = Tail(@)]
           q == m.req
<1>1. m \in Members /\ q \in Queues BY DEF Good, Members
<1>2. Tail(q) \in Queues /\ Head(q) \in Requests /\ Len(q) > 0 /\ Head(q) = q[1]
  BY <1>1 DEF Queues
<1>3. /\ t \in Members /\ t.step = m.step /\ t.myid = m.myid /\ t.req = Tail(q)
  BY <1>1, <1>2, Zenon DEF Members
<1>4. t.live = m.live /\ t.pending_GETVERS = m.pending_GETVERS BY <1>1 DEF Members
<1>5. \A i \in 1..Len(Tail(q)) : i + 1 \in 1..Len(q) /\ Tail(q)[i] = q[i + 1]
  BY <1>1, <1>2 DEF Queues
<1>6. \A d \in Deleted(t) : d \in Deleted(m) BY <1>3, <1>5 DEF Deleted
<1>7. Head(q).op = "delete" => Head(q).id \in Deleted(m)
  BY <1>1, <1>2 DEF Deleted, Queues
<1> HIDE DEF t
<1>8. Good(t) BY <1>3, <1>4 DEF Good
<1>9. Follows(m, t) BY <1>3, <1>6 DEF Follows
<1> QED BY <1>2, <1>7, <1>8, <1>9 DEF t

LEMMA MovesFollows ==
  ASSUME NEW m, NEW t, NEW e, Moves(m, t, e), e.evt \notin Ranking PROVE Follows(m, t)
BY DEF Moves, Follows, Ranking, Ahead, Candidate

LEMMA SameFollows == ASSUME NEW m PROVE Follows(m, m)
BY DEF Follows

-----------------------------------------------------------------------------
(* Steps that rank nobody.                                                  *)

LEMMA IdsFacts == Ids \subseteq Int /\ NoId \in Int /\ NoId < 0 /\ NoId \notin Ids
BY ElectionAssumption DEF Ids, NoId

LEMMA TypeFacts ==
  ASSUME TypeOK
  PROVE  /\ \A n \in Node : Good(member[n]) /\ ans[n] \in Seq(Events)
         /\ \A n \in Node : member[n].myid \in Int
         /\ seq \in Int /\ seq >= 0
         /\ \A id \in DOMAIN znode : id \in Ids
<1>1. \A n \in Node : Good(member[n]) /\ ans[n] \in Seq(Events) BY DEF TypeOK, Good
<1>2. \A n \in Node : member[n].myid \in Ids \cup {NoId} BY <1>1 DEF Good, Members
<1>3. seq \in Int /\ seq >= 0 BY ElectionAssumption DEF TypeOK
<1> QED BY <1>1, <1>2, <1>3, IdsFacts, Zenon DEF TypeOK

LEMMA IdsKept ==
  ASSUME IInv, Znodes, \A k \in Node : Follows(member[k], member'[k]) PROVE IdsGiven'
<1>1. seq \in Int /\ seq >= 0 BY TypeFacts DEF IInv
<1>2. seq' \in Int /\ seq <= seq' BY <1>1 DEF Znodes
<1>3. ASSUME NEW id \in DOMAIN znode' PROVE id < seq'
  <2>1. CASE id \in DOMAIN znode
    <3>1. id < seq /\ id \in Int BY <2>1, TypeFacts, IdsFacts DEF IInv, IdsGiven
    <3> QED BY <1>1, <1>2, <3>1
  <2>2. CASE id = seq /\ seq' = seq + 1 BY <1>1, <2>2
  <2> QED BY <1>3, <2>1, <2>2 DEF Znodes
<1>4. ASSUME NEW n \in Node, NEW id \in Deleted(member'[n]) \cup {member'[n].myid}
      PROVE  id < seq' /\ (id \in DOMAIN znode' => znode'[id].url = n)
  <2>1. id \in Deleted(member[n]) \cup {member[n].myid} \cup {NoId} BY <1>4 DEF Follows
  <2>2. CASE id = NoId
    <3>1. id \notin DOMAIN znode' BY <1>1, <2>2, IdsFacts, TypeFacts DEF IInv, Znodes
    <3> QED BY <1>1, <1>2, <2>2, <3>1, IdsFacts
  <2>3. CASE id \in Deleted(member[n]) \cup {member[n].myid}
    <3>1. id < seq /\ (id \in DOMAIN znode => znode[id].url = n)
      BY <2>3 DEF IInv, IdsGiven
    <3>2. id \in Int
      <4>1. member[n] \in Members BY TypeFacts DEF IInv, Good
      <4>2. \A i \in 1..Len(member[n].req) : member[n].req[i].id \in Ids \cup {NoId}
        <5>1. member[n].req \in Queues BY <4>1 DEF Members
        <5>2. \A i \in 1..Len(member[n].req) : member[n].req[i] \in Requests
          BY <5>1 DEF Queues
        <5> QED BY <5>2 DEF Requests
      <4>3. member[n].myid \in Ids \cup {NoId} BY <4>1 DEF Members
      <4> QED BY <2>3, <4>2, <4>3, IdsFacts, Zenon DEF Deleted
    <3> QED BY <1>1, <1>2, <3>1, <3>2 DEF Znodes
  <2> QED BY <2>1, <2>2, <2>3
<1> QED BY <1>3, <1>4 DEF IdsGiven

LEMMA CandidatesKept ==
  ASSUME IInv, Kept, \A k \in Node : Follows(member[k], member'[k]) PROVE CandidateOwns'
<1> SUFFICES ASSUME NEW n \in Node, member'[n].step \in Candidate
             PROVE  NowOwned(n, member'[n].myid) /\ member'[n].myid \notin Deleted(member'[n])
  BY DEF CandidateOwns, Deleted, Owned, NowOwned
<1>1. member[n].step \in Candidate /\ member'[n].myid = member[n].myid BY DEF Follows
<1>2. Owned(n, member[n].myid) /\ member[n].myid \notin Deleted(member[n])
  BY <1>1 DEF IInv, CandidateOwns
<1>3. member[n].myid \in Ids BY <1>2, TypeFacts DEF IInv, Owned
<1>4. NowOwned(n, member[n].myid) BY <1>1, <1>2, <1>3 DEF Kept
<1> QED BY <1>1, <1>2, <1>4 DEF Follows

LEMMA AheadKept ==
  ASSUME IInv, Znodes, \A k \in Node : Follows(member[k], member'[k]) PROVE AheadIsFirst'
<1> SUFFICES ASSUME NEW n \in Node, member'[n].step \in Ahead, NEW id \in DOMAIN znode'
             PROVE  member'[n].myid <= id
  BY DEF AheadIsFirst
<1>1. /\ member[n].step \in Ahead /\ member'[n].myid = member[n].myid
  BY DEF Follows, Ahead, Candidate
<1>2. CASE id \in DOMAIN znode BY <1>1, <1>2 DEF IInv, AheadIsFirst
<1>3. CASE id = seq
  <2>1. member[n].myid < seq BY DEF IInv, IdsGiven
  <2> QED BY <1>1, <1>3, <2>1, TypeFacts DEF IInv
<1> QED BY <1>2, <1>3 DEF Znodes

LEMMA CreatedKept ==
  ASSUME IInv, Kept, TypeOK',
         \A k \in Node : Follows(member[k], member'[k]) /\ Embeds(ans'[k], ans[k])
  PROVE  CreatedOwned'
<1> SUFFICES ASSUME NEW n \in Node, NEW i \in 1..Len(ans'[n]), ans'[n][i].evt = "CREATE_OK"
             PROVE  /\ NowOwned(n, ans'[n][i].arg)
                    /\ ans'[n][i].arg \notin Deleted(member'[n]) \cup {member'[n].myid}
                    /\ \A j \in 1..Len(ans'[n]) :
                         ans'[n][j].evt = "CREATE_OK" /\ ans'[n][j].arg = ans'[n][i].arg => i = j
  BY Zenon DEF CreatedOwned, Deleted, Owned, NowOwned
<1>1. PICK d \in {0, 1} : \A j \in 1..Len(ans'[n]) :
        ans'[n][j].evt \in Ranking => j + d \in 1..Len(ans[n]) /\ ans'[n][j] = ans[n][j + d]
  BY DEF Embeds
<1>2. i + d \in 1..Len(ans[n]) /\ ans'[n][i] = ans[n][i + d] BY <1>1 DEF Ranking
<1>3. /\ Owned(n, ans[n][i + d].arg)
      /\ ans[n][i + d].arg \notin Deleted(member[n]) \cup {member[n].myid}
      /\ \A j \in 1..Len(ans[n]) :
           ans[n][j].evt = "CREATE_OK" /\ ans[n][j].arg = ans[n][i + d].arg => i + d = j
  BY <1>2, SMTT(20) DEF IInv, CreatedOwned
<1>4. ans'[n][i].arg \in Ids BY <1>2, <1>3, TypeFacts DEF IInv, Owned
<1>5. NowOwned(n, ans'[n][i].arg) BY <1>2, <1>3, <1>4 DEF Kept
<1>6. ans'[n][i].arg \notin Deleted(member'[n]) \cup {member'[n].myid}
  BY <1>2, <1>3, <1>4, IdsFacts, Zenon DEF Follows
<1>7. ASSUME NEW j \in 1..Len(ans'[n]), ans'[n][j].evt = "CREATE_OK",
             ans'[n][j].arg = ans'[n][i].arg
      PROVE  i = j
  <2>1. j + d \in 1..Len(ans[n]) /\ ans'[n][j] = ans[n][j + d] BY <1>1, <1>7 DEF Ranking
  <2>2. i + d = j + d BY <1>2, <1>3, <1>7, <2>1
  <2>3. i \in Int /\ j \in Int /\ d \in Int OBVIOUS
  <2> QED BY <2>2, <2>3
<1> QED BY <1>5, <1>6, <1>7

LEMMA ListsKept ==
  ASSUME IInv, Znodes, TypeOK', \A k \in Node : Embeds(ans'[k], ans[k]) PROVE ListsOlder'
<1> SUFFICES ASSUME NEW n \in Node, NEW i \in 1..Len(ans'[n]), ans'[n][i].evt = "LIST_OK",
                    NEW k \in ans'[n][i].arg
             PROVE  k < seq' /\ \A id \in DOMAIN znode' \ ans'[n][i].arg : k < id
  BY DEF ListsOlder
<1>1. PICK d \in {0, 1} : \A j \in 1..Len(ans'[n]) :
        ans'[n][j].evt \in Ranking => j + d \in 1..Len(ans[n]) /\ ans'[n][j] = ans[n][j + d]
  BY DEF Embeds
<1>2. i + d \in 1..Len(ans[n]) /\ ans'[n][i] = ans[n][i + d] BY <1>1 DEF Ranking
<1>3. k < seq /\ \A id \in DOMAIN znode \ ans[n][i + d].arg : k < id
  BY <1>2 DEF IInv, ListsOlder
<1>4. ans'[n][i] \in Events BY TypeFacts DEF TypeOK
<1>5. k \in Ids BY <1>4 DEF Events
<1>6. seq \in Int /\ k \in Int BY <1>5, TypeFacts, IdsFacts DEF IInv
<1> QED BY <1>2, <1>3, <1>6 DEF Znodes

LEMMA InvariantKept ==
  ASSUME IInv, TypeOK', left'["disconnect"] = 0, Znodes, Kept,
         \A k \in Node : Follows(member[k], member'[k]) /\ Embeds(ans'[k], ans[k])
  PROVE  IInv'
<1>1. IdsGiven' BY IdsKept
<1>2. CandidateOwns' BY CandidatesKept
<1>3. AheadIsFirst' BY AheadKept
<1>4. CreatedOwned' BY CreatedKept
<1>5. ListsOlder' BY ListsKept
<1> QED BY <1>1, <1>2, <1>3, <1>4, <1>5 DEF IInv

\* Nothing is created or deleted: all is kept.
LEMMA SameZnodes ==
  ASSUME UNCHANGED <<znode, seq>> PROVE Znodes /\ Kept
BY DEF Znodes, Kept, Owned, NowOwned

\* A member changes and the others do not.
LEMMA OneFollows ==
  ASSUME TypeOK, NEW n \in Node, NEW t, member' = [member EXCEPT ![n] = t],
         Good(t), Follows(member[n], t)
  PROVE  /\ member' \in [Node -> Members]
         /\ \A k \in Node : Follows(member[k], member'[k])
         /\ \A k \in Node : member'[k].live <= member'[k].pending_GETVERS
         /\ member'[n] = t
<1>1. member \in [Node -> Members] BY DEF TypeOK
<1>2. t \in Members /\ t.live <= t.pending_GETVERS BY DEF Good
<1>3. member' \in [Node -> Members] BY <1>1, <1>2
<1>4. \A k \in Node : member'[k] = IF k = n THEN t ELSE member[k] BY <1>1
<1>5. \A k \in Node : Follows(member[k], member'[k]) BY <1>4, SameFollows
<1>6. \A k \in Node : member'[k].live <= member'[k].pending_GETVERS
  BY <1>2, <1>4 DEF TypeOK
<1> QED BY <1>3, <1>4, <1>5, <1>6

\* Served: the oldest request is taken, and quiet events are answered.
LEMMA AnswerKept ==
  ASSUME TypeOK, NEW n \in Node, member[n].req # <<>>,
         member' = [member EXCEPT ![n].req = Tail(@)]
  PROVE  /\ member' \in [Node -> Members]
         /\ \A k \in Node : Follows(member[k], member'[k])
         /\ \A k \in Node : member'[k].live <= member'[k].pending_GETVERS
         /\ Head(member[n].req) \in Requests
         /\ Head(member[n].req).op = "delete" => Head(member[n].req).id \in Deleted(member[n])
         /\ \A k \in Node : member'[k].step = member[k].step /\ member'[k].myid = member[k].myid
<1> DEFINE t == [member[n] EXCEPT !.req = Tail(@)]
<1>1. Good(member[n]) /\ member \in [Node -> Members] BY TypeFacts DEF TypeOK
<1>2. /\ Good(t) /\ Follows(member[n], t) /\ Head(member[n].req) \in Requests
      /\ Head(member[n].req).op = "delete" => Head(member[n].req).id \in Deleted(member[n])
  BY <1>1, TailRequest
<1>3. member' = [member EXCEPT ![n] = t] BY <1>1
<1>4. t.step = member[n].step /\ t.myid = member[n].myid BY <1>1 DEF Good, Members
<1> HIDE DEF t
<1>5. \A k \in Node : member'[k].step = member[k].step /\ member'[k].myid = member[k].myid
  BY <1>1, <1>3, <1>4
<1> QED BY <1>2, <1>3, <1>5, OneFollows, Zenon

\* The events that do not rank.
LEMMA QuietEvents ==
  /\ <<>> \in Seq(Quiet)
  /\ \A v \in {"CREATE_KO", "NONE", "LIST_KO", "MASTER_KO", "LEAVE_KO", "LEAVE_OK", "NODE_LEFT",
               "WatchNode_change", "WatchMaster_change", "DISCONNECTED"} :
       Event(v, NoId) \in Quiet
  /\ \A u \in Node : Event("MASTER_OK", u) \in Quiet
BY DEF Quiet, Event, Events, Ranking

LEMMA OneAnswered ==
  ASSUME TypeOK, NEW n \in Node, NEW r \in Seq(Quiet), ans' = [ans EXCEPT ![n] = @ \o r]
  PROVE  ans' \in [Node -> Seq(Events)] /\ \A k \in Node : Embeds(ans'[k], ans[k])
<1>1. ans \in [Node -> Seq(Events)] BY DEF TypeOK
<1>2. ans[n] \o r \in Seq(Events) /\ Embeds(ans[n] \o r, ans[n]) BY <1>1, EmbedsQuiet
<1>3. \A k \in Node : ans'[k] = IF k = n THEN ans[n] \o r ELSE ans[k] BY <1>1
<1>4. ans' \in [Node -> Seq(Events)] BY <1>1, <1>2
<1> QED BY <1>1, <1>2, <1>3, <1>4, EmbedsSame

LEMMA ServeExistsInv == ASSUME IInv, NEW n \in Node, ServeExists(n) PROVE IInv'
<1>1. TypeOK /\ member[n].req # <<>> /\ left["disconnect"] = 0 BY DEF IInv, ServeExists, Asked
<1>2. PICK r \in Seq(Quiet) : Answer(n, r)
  <2>1. <<Event("NODE_LEFT", NoId)>> \in Seq(Quiet) /\ <<>> \in Seq(Quiet) BY QuietEvents
  <2> QED BY <2>1, Zenon DEF ServeExists
<1>3. ans' \in [Node -> Seq(Events)] /\ \A k \in Node : Embeds(ans'[k], ans[k])
  BY <1>1, <1>2, OneAnswered, Zenon DEF Answer
<1>4. /\ member' \in [Node -> Members]
      /\ \A k \in Node : Follows(member[k], member'[k])
      /\ \A k \in Node : member'[k].live <= member'[k].pending_GETVERS
  BY <1>1, <1>2, AnswerKept, Zenon DEF Answer
<1>5. watch' \in [Node -> SUBSET [id : Ids, kind : {"node", "master"}]]
  <2>1. watch \in [Node -> SUBSET [id : Ids, kind : {"node", "master"}]] BY <1>1 DEF TypeOK
  <2>2. CASE UNCHANGED watch BY <2>1, <2>2
  <2>3. CASE Target(n) \in DOMAIN znode
    <3>1. [id |-> Target(n), kind |-> "node"] \in [id : Ids, kind : {"node", "master"}]
      BY <1>1, <2>3 DEF TypeOK
    <3>2. watch' = [watch EXCEPT ![n] = @ \cup {[id |-> Target(n), kind |-> "node"]}]
      BY <2>3 DEF ServeExists
    <3> QED BY <2>1, <3>1, <3>2
  <2> QED BY <2>2, <2>3 DEF ServeExists
<1>6. TypeOK' /\ left'["disconnect"] = 0 BY <1>1, <1>3, <1>4, <1>5 DEF TypeOK, ServeExists
<1>7. Znodes /\ Kept BY SameZnodes DEF ServeExists
<1> QED BY <1>3, <1>4, <1>6, <1>7, InvariantKept

LEMMA ServeGetInv == ASSUME IInv, NEW n \in Node, ServeGet(n) PROVE IInv'
<1>1. TypeOK /\ member[n].req # <<>> /\ left["disconnect"] = 0 BY DEF IInv, ServeGet, Asked
<1>2. PICK r \in Seq(Quiet) : Answer(n, r)
  <2>1. /\ <<Event("MASTER_KO", NoId)>> \in Seq(Quiet)
        /\ Target(n) \in DOMAIN znode =>
             <<Event("MASTER_OK", znode[Target(n)].url)>> \in Seq(Quiet)
    BY <1>1, QuietEvents DEF TypeOK
  <2> QED BY <2>1, Zenon DEF ServeGet
<1>3. ans' \in [Node -> Seq(Events)] /\ \A k \in Node : Embeds(ans'[k], ans[k])
  BY <1>1, <1>2, OneAnswered, Zenon DEF Answer
<1>4. /\ member' \in [Node -> Members]
      /\ \A k \in Node : Follows(member[k], member'[k])
      /\ \A k \in Node : member'[k].live <= member'[k].pending_GETVERS
  BY <1>1, <1>2, AnswerKept, Zenon DEF Answer
<1>5. watch' \in [Node -> SUBSET [id : Ids, kind : {"node", "master"}]]
  <2>1. watch \in [Node -> SUBSET [id : Ids, kind : {"node", "master"}]] BY <1>1 DEF TypeOK
  <2>2. CASE UNCHANGED watch BY <2>1, <2>2
  <2>3. CASE Target(n) \in DOMAIN znode
    <3>1. [id |-> Target(n), kind |-> "master"] \in [id : Ids, kind : {"node", "master"}]
      BY <1>1, <2>3 DEF TypeOK
    <3>2. watch' = [watch EXCEPT ![n] = @ \cup {[id |-> Target(n), kind |-> "master"]}]
      BY <2>3, SMTT(20) DEF ServeGet
    <3> QED BY <2>1, <3>1, <3>2
  <2> QED BY <2>2, <2>3 DEF ServeGet
<1>6. TypeOK' /\ left'["disconnect"] = 0 BY <1>1, <1>3, <1>4, <1>5 DEF TypeOK, ServeGet
<1>7. Znodes /\ Kept BY SameZnodes DEF ServeGet
<1> QED BY <1>3, <1>4, <1>6, <1>7, InvariantKept

LEMMA ServeErrorInv == ASSUME IInv, NEW n \in Node, ServeError(n) PROVE IInv'
<1>1. TypeOK /\ member[n].req # <<>> /\ left["disconnect"] = 0 BY DEF IInv, ServeError
<1>2. PICK r \in Seq(Quiet) : Answer(n, r)
  <2>1. Head(member[n].req) \in Requests BY <1>1, TypeFacts, TailRequest, Zenon
  <2>2. Head(member[n].req).op \in {"create", "exists", "list", "get", "delete"}
    BY <2>1 DEF Requests
  <2>3. KO[Head(member[n].req).op] \in
          {"CREATE_KO", "NONE", "LIST_KO", "MASTER_KO", "LEAVE_KO"}
    BY <2>2 DEF KO
  <2>4. <<Event(KO[Head(member[n].req).op], NoId)>> \in Seq(Quiet) BY <2>3, QuietEvents
  <2> QED BY <2>4, Zenon DEF ServeError
<1>3. ans' \in [Node -> Seq(Events)] /\ \A k \in Node : Embeds(ans'[k], ans[k])
  BY <1>1, <1>2, OneAnswered, Zenon DEF Answer
<1>4. /\ member' \in [Node -> Members]
      /\ \A k \in Node : Follows(member[k], member'[k])
      /\ \A k \in Node : member'[k].live <= member'[k].pending_GETVERS
  BY <1>1, <1>2, AnswerKept, Zenon DEF Answer
<1>5. TypeOK' /\ left'["disconnect"] = 0 BY <1>1, <1>3, <1>4 DEF TypeOK, ServeError
<1>6. Znodes /\ Kept BY SameZnodes DEF ServeError
<1> QED BY <1>3, <1>4, <1>5, <1>6, InvariantKept

-----------------------------------------------------------------------------
(* Znodes that disappear.                                                   *)

LEMMA TriggeredQuiet ==
  ASSUME NEW k, NEW id PROVE Triggered(k, id) \in Seq(Quiet)
<1>1. /\ <<Event("WatchNode_change", NoId)>> \in Seq(Quiet)
      /\ <<Event("WatchMaster_change", NoId)>> \in Seq(Quiet)
      /\ <<>> \in Seq(Quiet)
  BY QuietEvents
<1> QED BY <1>1 DEF Triggered

LEMMA WithoutType ==
  ASSUME TypeOK, NEW id, znode' = Without(id), watch' = Unwatched(id)
  PROVE  /\ DOMAIN znode' = DOMAIN znode \ {id}
         /\ \A i \in DOMAIN znode' : znode'[i] = znode[i]
         /\ DOMAIN znode' \subseteq Ids
         /\ \A i \in DOMAIN znode' : znode'[i] \in [url : Node, open : BOOLEAN]
         /\ watch' \in [Node -> SUBSET [id : Ids, kind : {"node", "master"}]]
<1>1. DOMAIN znode' = DOMAIN znode \ {id} /\ \A i \in DOMAIN znode' : znode'[i] = znode[i]
  BY DEF Without
<1>2. watch' \in [Node -> SUBSET [id : Ids, kind : {"node", "master"}]]
  BY DEF Unwatched, TypeOK
<1> QED BY <1>1, <1>2 DEF TypeOK

LEMMA ServeDeleteInv == ASSUME IInv, NEW n \in Node, ServeDelete(n) PROVE IInv'
<1> DEFINE id == Target(n)
           more(k) == Triggered(k, id) \o (IF k = n THEN <<Event("LEAVE_OK", NoId)>> ELSE <<>>)
<1>1. TypeOK /\ member[n].req # <<>> /\ left["disconnect"] = 0 BY DEF IInv, ServeDelete, Asked
<1>2. /\ member' \in [Node -> Members]
      /\ \A k \in Node : Follows(member[k], member'[k])
      /\ \A k \in Node : member'[k].live <= member'[k].pending_GETVERS
      /\ \A k \in Node : member'[k].step = member[k].step /\ member'[k].myid = member[k].myid
      /\ id \in Deleted(member[n])
  BY <1>1, AnswerKept, Zenon DEF ServeDelete, Asked, Target
<1>3. \A k \in Node : more(k) \in Seq(Quiet)
  <2>1. <<Event("LEAVE_OK", NoId)>> \in Seq(Quiet) /\ <<>> \in Seq(Quiet) BY QuietEvents
  <2> QED BY <2>1, TriggeredQuiet
<1>4. ans' = [k \in Node |-> ans[k] \o more(k)]
  <2> DEFINE last(k) == IF k = n THEN <<Event("LEAVE_OK", NoId)>> ELSE <<>>
  <2>1. \A r \in Seq(Quiet) : r \in Seq(Events) BY DEF Quiet
  <2>2. \A k \in Node : last(k) \in Seq(Quiet)
    <3>1. <<Event("LEAVE_OK", NoId)>> \in Seq(Quiet) /\ <<>> \in Seq(Quiet) BY QuietEvents
    <3> QED BY <3>1
  <2>3. \A a, b, c \in Seq(Events) : (a \o b) \o c = a \o (b \o c) OBVIOUS
  <2>4. ASSUME NEW k \in Node
        PROVE  (ans[k] \o Triggered(k, id)) \o last(k) = ans[k] \o (Triggered(k, id) \o last(k))
    <3> HIDE DEF last, id
    <3>1. ans[k] \in Seq(Events) BY <1>1, TypeFacts
    <3>2. Triggered(k, id) \in Seq(Events) /\ last(k) \in Seq(Events)
      BY <2>1, <2>2, TriggeredQuiet
    <3> QED BY <2>3, <3>1, <3>2, Zenon
  <2>5. ans' = [k \in Node |-> (ans[k] \o Triggered(k, id)) \o last(k)] BY DEF ServeDelete
  <2> HIDE DEF id, last
  <2>6. ans' = [k \in Node |-> ans[k] \o (Triggered(k, id) \o last(k))] BY <2>4, <2>5, Zenon
  <2> QED BY <2>6 DEF last
<1> HIDE DEF more
<1>5. ans' \in [Node -> Seq(Events)] /\ \A k \in Node : Embeds(ans'[k], ans[k])
  BY <1>1, <1>3, <1>4, TypeFacts, EmbedsQuiet
<1>6. /\ DOMAIN znode' = DOMAIN znode \ {id}
      /\ \A i \in DOMAIN znode' : znode'[i] = znode[i]
      /\ DOMAIN znode' \subseteq Ids
      /\ \A i \in DOMAIN znode' : znode'[i] \in [url : Node, open : BOOLEAN]
      /\ watch' \in [Node -> SUBSET [id : Ids, kind : {"node", "master"}]]
  BY <1>1, WithoutType, Zenon DEF ServeDelete
<1>7. UNCHANGED <<exiting, seq, left>> BY SMTT(20) DEF ServeDelete
<1> HIDE DEF id
<1>8. TypeOK' /\ left'["disconnect"] = 0 BY <1>1, <1>2, <1>5, <1>6, <1>7 DEF TypeOK
<1>9. Znodes BY <1>6, <1>7 DEF Znodes
<1>10. Kept
  <2> SUFFICES ASSUME NEW k \in Node, NEW i \in Ids, Owned(k, i),
                      \/ member'[k].step \in Candidate /\ i = member'[k].myid
                      \/ \E j \in 1..Len(ans'[k]) :
                           ans'[k][j].evt = "CREATE_OK" /\ ans'[k][j].arg = i
               PROVE  NowOwned(k, i)
    BY DEF Kept
  <2>1. i \notin Deleted(member[k])
    <3>1. CASE member'[k].step \in Candidate /\ i = member'[k].myid
      BY <1>2, <3>1 DEF IInv, CandidateOwns
    <3>2. ASSUME NEW j \in 1..Len(ans'[k]), ans'[k][j].evt = "CREATE_OK", ans'[k][j].arg = i
          PROVE  i \notin Deleted(member[k])
      <4>1. \E h \in 1..Len(ans[k]) : ans[k][h] = ans'[k][j]
        BY <1>5, <3>2 DEF Embeds, Ranking
      <4> QED BY <3>2, <4>1 DEF IInv, CreatedOwned
    <3> QED BY <3>1, <3>2, SMTT(20)
  <2>2. i # id
    <3>1. CASE k = n BY <1>2, <2>1, <3>1
    <3>2. CASE k # n
      <4>1. id \in DOMAIN znode => znode[id].url = n BY <1>2 DEF IInv, IdsGiven
      <4> QED BY <3>2, <4>1 DEF Owned
    <3> QED BY <3>1, <3>2
  <2> QED BY <1>6, <2>2 DEF Owned, NowOwned
<1> QED BY <1>2, <1>5, <1>8, <1>9, <1>10, InvariantKept

LEMMA ExpireInv == ASSUME IInv, NEW id, Expire(id) PROVE IInv'
<1>1. TypeOK /\ left["disconnect"] = 0 BY DEF IInv
<1>2. UNCHANGED <<member, exiting, seq, left>> BY DEF Expire
<1>3. \A k \in Node : Follows(member[k], member'[k]) BY <1>2, SameFollows
<1>4. ans' \in [Node -> Seq(Events)] /\ \A k \in Node : Embeds(ans'[k], ans[k])
  BY <1>1, TypeFacts, TriggeredQuiet, EmbedsQuiet DEF Expire
<1>5. /\ DOMAIN znode' = DOMAIN znode \ {id}
      /\ \A i \in DOMAIN znode' : znode'[i] = znode[i]
      /\ DOMAIN znode' \subseteq Ids
      /\ \A i \in DOMAIN znode' : znode'[i] \in [url : Node, open : BOOLEAN]
      /\ watch' \in [Node -> SUBSET [id : Ids, kind : {"node", "master"}]]
  BY <1>1, WithoutType, Zenon DEF Expire
<1>6. TypeOK' /\ left'["disconnect"] = 0 BY <1>1, <1>2, <1>4, <1>5 DEF TypeOK
<1>7. Znodes BY <1>2, <1>5 DEF Znodes
<1>8. Kept
  <2>1. ~znode[id].open BY DEF Expire
  <2> QED BY <1>5, <2>1 DEF Kept, Owned, NowOwned
<1> QED BY <1>3, <1>4, <1>6, <1>7, <1>8, InvariantKept

-----------------------------------------------------------------------------
(* The answers that rank.                                                   *)

LEMMA OneAppended ==
  ASSUME TypeOK, NEW n \in Node, NEW e \in Events, ans' = [ans EXCEPT ![n] = @ \o <<e>>]
  PROVE  /\ ans' \in [Node -> Seq(Events)]
         /\ \A k \in Node : k # n => ans'[k] = ans[k]
         /\ Len(ans'[n]) = Len(ans[n]) + 1 /\ Len(ans[n]) \in Nat
         /\ \A i \in 1..Len(ans'[n]) : \/ i \in 1..Len(ans[n]) /\ ans'[n][i] = ans[n][i]
                                       \/ i = Len(ans[n]) + 1 /\ ans'[n][i] = e
<1>1. ans \in [Node -> Seq(Events)] BY DEF TypeOK
<1>2. ans'[n] = ans[n] \o <<e>> /\ \A k \in Node : k # n => ans'[k] = ans[k] BY <1>1
<1>3. ans[n] \in Seq(Events) /\ <<e>> \in Seq(Events) /\ ans[n] \o <<e>> \in Seq(Events)
  BY <1>1
<1>4. ans' \in [Node -> Seq(Events)] BY <1>1, <1>3
<1>5. Len(ans'[n]) = Len(ans[n]) + 1 /\ Len(ans[n]) \in Nat BY <1>2, <1>3
<1>6. \A i \in 1..Len(ans'[n]) : \/ i \in 1..Len(ans[n]) /\ ans'[n][i] = ans[n][i]
                                 \/ i = Len(ans[n]) + 1 /\ ans'[n][i] = e
  BY <1>2, <1>3, SMTT(20)
<1> QED BY <1>2, <1>4, <1>5, <1>6

LEMMA AppendedLists ==
  ASSUME IInv, TypeOK', Znodes, NEW n \in Node, NEW e \in Events,
         ans' = [ans EXCEPT ![n] = @ \o <<e>>],
         e.evt = "LIST_OK" =>
           \A h \in e.arg : h < seq' /\ \A id \in DOMAIN znode' \ e.arg : h < id
  PROVE  ListsOlder'
<1> SUFFICES ASSUME NEW k \in Node, NEW i \in 1..Len(ans'[k]), ans'[k][i].evt = "LIST_OK",
                    NEW h \in ans'[k][i].arg
             PROVE  h < seq' /\ \A id \in DOMAIN znode' \ ans'[k][i].arg : h < id
  BY SMTT(20) DEF ListsOlder
<1>1. \/ i \in 1..Len(ans[k]) /\ ans'[k][i] = ans[k][i]
      \/ k = n /\ ans'[k][i] = e
  BY OneAppended DEF IInv
<1>2. CASE i \in 1..Len(ans[k]) /\ ans'[k][i] = ans[k][i]
  <2>1. h < seq /\ \A id \in DOMAIN znode \ ans[k][i].arg : h < id
    BY <1>2 DEF IInv, ListsOlder
  <2>2. ans'[k][i] \in Events BY TypeFacts, SMTT(20) DEF TypeOK
  <2>3. h \in Ids BY <2>2 DEF Events
  <2>4. seq \in Int /\ h \in Int BY <2>3, TypeFacts, IdsFacts DEF IInv
  <2> QED BY <1>2, <2>1, <2>4 DEF Znodes
<1>3. CASE k = n /\ ans'[k][i] = e BY <1>3
<1> QED BY <1>1, <1>2, <1>3

LEMMA AppendedCreated ==
  ASSUME IInv, TypeOK', Kept, \A k \in Node : Follows(member[k], member'[k]),
         NEW n \in Node, NEW e \in Events, ans' = [ans EXCEPT ![n] = @ \o <<e>>],
         e.evt = "CREATE_OK" =>
           /\ NowOwned(n, e.arg) /\ e.arg \notin Deleted(member'[n]) \cup {member'[n].myid}
           /\ \A i \in 1..Len(ans[n]) : ans[n][i].evt = "CREATE_OK" => ans[n][i].arg # e.arg
  PROVE  CreatedOwned'
<1> SUFFICES ASSUME NEW k \in Node, NEW i \in 1..Len(ans'[k]), ans'[k][i].evt = "CREATE_OK"
             PROVE  /\ NowOwned(k, ans'[k][i].arg)
                    /\ ans'[k][i].arg \notin Deleted(member'[k]) \cup {member'[k].myid}
                    /\ \A j \in 1..Len(ans'[k]) :
                         ans'[k][j].evt = "CREATE_OK" /\ ans'[k][j].arg = ans'[k][i].arg => i = j
  BY Zenon DEF CreatedOwned, Deleted, Owned, NowOwned
<1>1. \A j \in 1..Len(ans'[k]) : \/ j \in 1..Len(ans[k]) /\ ans'[k][j] = ans[k][j]
                                 \/ k = n /\ j = Len(ans[n]) + 1 /\ ans'[k][j] = e
  BY OneAppended DEF IInv
<1>2. CASE i \in 1..Len(ans[k]) /\ ans'[k][i] = ans[k][i]
  <2>1. /\ Owned(k, ans[k][i].arg)
        /\ ans[k][i].arg \notin Deleted(member[k]) \cup {member[k].myid}
        /\ \A j \in 1..Len(ans[k]) :
             ans[k][j].evt = "CREATE_OK" /\ ans[k][j].arg = ans[k][i].arg => i = j
    BY <1>2, Zenon DEF IInv, CreatedOwned
  <2>2. ans'[k][i].arg \in Ids BY <1>2, <2>1, TypeFacts, Zenon DEF IInv, Owned
  <2>3. NowOwned(k, ans'[k][i].arg) BY <1>2, <2>1, <2>2, Zenon DEF Kept
  <2>4. ans'[k][i].arg \notin Deleted(member'[k]) \cup {member'[k].myid}
    <3>1. ans'[k][i].arg \notin Deleted(member[k]) \cup {member[k].myid} BY <1>2, <2>1, Zenon
    <3>2. ans'[k][i].arg # NoId BY <2>2, IdsFacts, Zenon
    <3>3. Follows(member[k], member'[k]) BY Zenon
    <3> QED BY <3>1, <3>2, <3>3, Zenon DEF Follows
  <2> QED BY <1>1, <1>2, <2>1, <2>3, <2>4, Zenon
<1>3. CASE k = n /\ i = Len(ans[n]) + 1 /\ ans'[k][i] = e BY <1>1, <1>3
<1> QED BY <1>1, <1>2, <1>3, Zenon

LEMMA ServeListInv == ASSUME IInv, NEW n \in Node, ServeList(n) PROVE IInv'
<1> DEFINE e == Event("LIST_OK", DOMAIN znode)
<1>1. TypeOK /\ member[n].req # <<>> /\ left["disconnect"] = 0 BY DEF IInv, ServeList, Asked
<1>2. e \in Events /\ e.evt = "LIST_OK" /\ e.arg = DOMAIN znode
  BY <1>1 DEF Event, Events, TypeOK
<1>3. ans' = [ans EXCEPT ![n] = @ \o <<e>>] BY DEF ServeList, Answer
<1> HIDE DEF e
<1>4. /\ member' \in [Node -> Members]
      /\ \A k \in Node : Follows(member[k], member'[k])
      /\ \A k \in Node : member'[k].live <= member'[k].pending_GETVERS
  BY <1>1, AnswerKept, Zenon DEF ServeList, Answer
<1>5. UNCHANGED <<exiting, znode, seq, watch, left>> BY DEF ServeList
<1>6. ans' \in [Node -> Seq(Events)] BY <1>1, <1>2, <1>3, OneAppended, Zenon
<1>7. TypeOK' /\ left'["disconnect"] = 0 BY <1>1, <1>4, <1>5, <1>6 DEF TypeOK
<1>8. Znodes /\ Kept BY <1>5, SameZnodes
<1>9. ListsOlder'
  <2>1. \A h \in DOMAIN znode : h < seq BY DEF IInv, IdsGiven
  <2>2. \A h \in e.arg : h < seq' /\ \A id \in DOMAIN znode' \ e.arg : h < id
    BY <1>2, <1>5, <2>1
  <2> QED BY <1>2, <1>3, <1>7, <1>8, <2>2, AppendedLists, Zenon
<1>10. CreatedOwned' BY <1>2, <1>3, <1>4, <1>7, <1>8, AppendedCreated, Zenon
<1> QED BY <1>4, <1>7, <1>8, <1>9, <1>10, IdsKept, CandidatesKept, AheadKept DEF IInv

LEMMA ServeCreateInv == ASSUME IInv, NEW n \in Node, ServeCreate(n) PROVE IInv'
<1> DEFINE e == Event("CREATE_OK", seq)
<1>1. TypeOK /\ member[n].req # <<>> /\ left["disconnect"] = 0 BY DEF IInv, ServeCreate, Asked
<1>2. seq \in Ids /\ seq' = seq + 1 /\ seq' \in 0..(MaxId + 1)
  <2>1. seq \in 0..(MaxId + 1) /\ seq <= MaxId /\ seq' = seq + 1 /\ MaxId \in Nat
    BY <1>1, ElectionAssumption DEF ServeCreate, TypeOK
  <2> QED BY <2>1 DEF Ids
<1>3. e \in Events /\ e.evt = "CREATE_OK" /\ e.arg = seq BY <1>2 DEF Event, Events
<1>4. ans' = [ans EXCEPT ![n] = @ \o <<e>>] BY DEF ServeCreate, Answer
<1> HIDE DEF e
<1>5. /\ member' \in [Node -> Members]
      /\ \A k \in Node : Follows(member[k], member'[k])
      /\ \A k \in Node : member'[k].live <= member'[k].pending_GETVERS
  BY <1>1, AnswerKept, Zenon DEF ServeCreate, Answer
<1>6. UNCHANGED <<exiting, watch, left>> BY DEF ServeCreate
<1>7. ans' \in [Node -> Seq(Events)] BY <1>1, <1>3, <1>4, OneAppended, Zenon
<1>8. /\ DOMAIN znode' = DOMAIN znode \cup {seq}
      /\ \A i \in DOMAIN znode' :
           znode'[i] = IF i = seq THEN [url |-> n, open |-> TRUE] ELSE znode[i]
  BY DEF ServeCreate
<1>9. /\ DOMAIN znode' \subseteq Ids
      /\ \A i \in DOMAIN znode' : znode'[i] \in [url : Node, open : BOOLEAN]
  <2>1. [url |-> n, open |-> TRUE] \in [url : Node, open : BOOLEAN] OBVIOUS
  <2>2. \A i \in DOMAIN znode : znode[i] \in [url : Node, open : BOOLEAN] BY <1>1 DEF TypeOK
  <2>3. DOMAIN znode \subseteq Ids BY <1>1, SMTT(20) DEF TypeOK
  <2> QED BY <1>2, <1>8, <2>1, <2>2, <2>3, Zenon
<1>10. TypeOK' /\ left'["disconnect"] = 0 BY <1>1, <1>2, <1>5, <1>6, <1>7, <1>9 DEF TypeOK
<1>11. seq \notin DOMAIN znode BY <1>2, IdsFacts DEF IInv, IdsGiven
<1>12. Znodes BY <1>2, <1>8, <1>11 DEF Znodes
<1>13. Kept BY <1>8, <1>11 DEF Kept, Owned, NowOwned
<1>14. ListsOlder' BY <1>3, <1>4, <1>10, <1>12, AppendedLists, Zenon
<1>15. CreatedOwned'
  <2>1. NowOwned(n, e.arg) BY <1>3, <1>8 DEF NowOwned
  <2>2. e.arg \notin Deleted(member'[n]) \cup {member'[n].myid}
    <3>1. \A d \in Deleted(member[n]) \cup {member[n].myid} : d < seq BY DEF IInv, IdsGiven
    <3>2. ~(seq < seq) /\ seq # NoId BY <1>2, IdsFacts, SMTT(20)
    <3> QED BY <1>3, <1>5, <3>1, <3>2 DEF Follows
  <2>3. \A i \in 1..Len(ans[n]) : ans[n][i].evt = "CREATE_OK" => ans[n][i].arg # e.arg
    BY <1>3, <1>11 DEF IInv, CreatedOwned, Owned
  <2> QED BY <1>3, <1>4, <1>5, <1>10, <1>13, <2>1, <2>2, <2>3, AppendedCreated, Zenon
<1> QED BY <1>5, <1>10, <1>12, <1>13, <1>14, <1>15, IdsKept, CandidatesKept, AheadKept DEF IInv
=============================================================================
