----------------------------- MODULE Replication -----------------------------
(****************************************************************************)
(* The replication of a base by its master (sqliterepo/replication.c), its  *)
(* slaves (sqliterepo/replication_dispatcher.c) and the versions they       *)
(* compare (sqliterepo/version.c).                                          *)
(*                                                                          *)
(* The COMMIT of a transaction on the master first sends the changed rows   *)
(* to the peers (REPLICATE), is aborted without a quorum, and is followed   *)
(* by a dump (RESTORE) to the peers that could not apply the rows.  Each    *)
(* service holds the lock of its base while it serves a request on it: a    *)
(* request waits for that lock in a thread of its own, whatever becomes of  *)
(* the service that sent it.                                                *)
(*                                                                          *)
(* The election is the one of module Election reduced to its outcome: a     *)
(* member becomes the master by the rule of member_finish_PRELEAD().        *)
(*                                                                          *)
(* A base is a function on its tables.  The rows of a table are the         *)
(* sequence of the transactions that changed it: two bases are alike iff    *)
(* the same changes were applied in the same order.                         *)
(*                                                                          *)
(* What goes wrong is counted, and bounded: see Stop(k) and Fault(k).       *)
(****************************************************************************)
EXTENDS Integers, Sequences, FiniteSets

CONSTANTS
  Node,        \* the services of the group
  Admin,       \* the table main.admin
  Table,       \* the tables of the schema
  Created,     \* the tables a transaction may create
  ChangeSets,  \* bound: the sets of tables that a transaction changes
  MaxTnx,      \* bound: transactions
  MaxPipe,     \* bound: PIPEFROM under way in a service
  MaxBad,      \* bound: what goes wrong, services that stop included
  NoNode, NoBase

AllTables == Table \cup Created \cup {Admin}

ASSUME ReplicationAssumption ==
  /\ IsFiniteSet(Node) /\ Node # {} /\ NoNode \notin Node
  /\ Admin \notin Table \cup Created
  /\ ChangeSets \subseteq SUBSET AllTables
  /\ MaxTnx \in Nat /\ MaxPipe \in Nat /\ MaxBad \in Nat

VARIABLES
  mode,      \* the mode of the elections: ELECTION_MODE_QUORUM or ELECTION_MODE_GROUP
  base,      \* per node: the base on its disk
  up,        \* per node: the service runs
  leader,    \* the service elected, or NoNode
  tnx,       \* per node: the transaction that holds its base, as a master
  requests,  \* the requests sent and not served yet
  next,      \* the id of the next transaction
  acked,     \* the transactions whose COMMIT has been answered OK
  stops,     \* how many services have stopped or left
  faults     \* how many other things have gone wrong

vars == <<mode, base, up, leader, tnx, requests, next, acked, stops, faults>>

-----------------------------------------------------------------------------
(* version.c                                                                *)

version_extract_from_admin(b) == [t \in DOMAIN b |-> b[t].version]

\* A table of the changes that is unknown starts at 1.
version_extract_expected(current, changed) ==
  [t \in DOMAIN current \cup (changed \ {Admin}) |->
     (IF t \in DOMAIN current THEN current[t] ELSE 1)
       + (IF t \in changed \ {Admin} THEN 1 ELSE 0)]

\* The differences of the common tables, and what is told of them.
Deltas(current, expected) ==
  {current[t] - expected[t] : t \in DOMAIN current \cap DOMAIN expected}

version_validate_diff(current, expected) ==
  LET deltas == Deltas(current, expected)
      schema_change == DOMAIN current # DOMAIN expected
      behind == {d \in deltas : d < 0}
      beyond == {d \in deltas : d > 0}
  IN  IF behind # {} /\ beyond # {} THEN "CONCURRENT"
      ELSE IF behind # {}
      THEN IF schema_change \/ \E d \in behind : d < -1 THEN "PIPEFROM" ELSE "-1"
      ELSE IF beyond # {}
      THEN IF schema_change \/ \E d \in beyond : d > 1 THEN "PIPETO" ELSE "1"
      ELSE "0"

-----------------------------------------------------------------------------
(* The changes of a transaction.                                            *)

NewTable == [version |-> 1, rows |-> <<>>]

\* The changes the update hook has seen: context_pending_inc_versions() does not
\* count those of the table admin.
Changed(b, S, id) ==
  [t \in DOMAIN b |->
     IF t \in S THEN [version |-> b[t].version + (IF t = Admin THEN 0 ELSE 1),
                      rows |-> Append(b[t].rows, id)]
     ELSE b[t]]

\* Those it has not: sqlx_admin_inc_all_versions(2).  The change takes two places.
Huge(b, T, id) ==
  [t \in DOMAIN b \cup T |->
     LET old == IF t \in DOMAIN b THEN b[t] ELSE NewTable
     IN  [version |-> old.version + 2, rows |-> old.rows \o <<id, 0>>]]

\* Mutant: the slave counts the change, and ignores the versions of the master.
Applied_OwnCount(b, x) ==
  [t \in DOMAIN b |->
     IF t \in x.changed
     THEN [version |-> IF t = Admin THEN b[t].version ELSE b[t].version + 1,
           rows |-> Append(b[t].rows, x.id)]
     ELSE b[t]]

\* The rows a slave replaces: those of the transaction, with the versions of the
\* master in the table admin.  Its own version is never sent.
Applied(b, x) ==
  [t \in DOMAIN b |->
     IF t \in x.changed
     THEN [version |-> IF t = Admin THEN b[t].version ELSE x.new[t].version,
           rows |-> Append(b[t].rows, x.id)]
     ELSE b[t]]

-----------------------------------------------------------------------------
(* The requests.                                                            *)

Idle == [phase |-> "idle", id |-> 0, changed |-> {}, new |-> NoBase, todo |-> {},
         success |-> 0, resync |-> {}]

Peers(n) == Node \ {n}
Free(n) == up[n] /\ tnx[n].phase = "idle"

\* What is not the ordinary work of the services: one stops or leaves, or something
\* else happens, which counts for k.
Stop(k) == stops + faults + k <= MaxBad /\ stops' = stops + k /\ UNCHANGED faults
Fault(k) == stops + faults + k <= MaxBad /\ faults' = faults + k /\ UNCHANGED stops
If(cond) == IF cond THEN 1 ELSE 0

\* The rows of a transaction (REPLICATE) or the dump of a base (RESTORE; DUMP once a
\* PIPEFROM has received it) wait for the lock of the base of `to`, in a thread of that
\* service, whatever becomes of the sender.
Request(kind, from, to, id, changed, new) ==
  [kind |-> kind, from |-> from, to |-> to, id |-> id, changed |-> changed, new |-> new]
Replicates(S, n, id, changed, new) ==
  {Request("REPLICATE", n, s, id, changed, new) : s \in S}
sqlx_synchronous_resync(S, n, id, new) ==
  {Request("RESTORE", n, s, id, DOMAIN new, new) : s \in S}

\* The master that sent the request still waits for its answer.
Waits(r) ==
  /\ r.kind \in {"REPLICATE", "RESTORE"}
  /\ tnx[r.from].phase = r.kind /\ tnx[r.from].id = r.id /\ r.to \in tnx[r.from].todo

\* What the master then does of it: the peer counts as a success, is to be restored.
Heard(r, success, resync) ==
  IF Waits(r)
  THEN [tnx EXCEPT ![r.from].todo = @ \ {r.to}, ![r.from].success = @ + success,
                   ![r.from].resync = @ \cup resync]
  ELSE tnx

group_to_quorum(size) == 1 + (size \div 2)
Needed ==
  IF mode = "GROUP" THEN Cardinality(Node) ELSE group_to_quorum(Cardinality(Node))

-----------------------------------------------------------------------------
(* The master.                                                              *)

\* Mutant: the master is one of its peers.
Commit_ToItself(n, S) ==
  /\ leader = n /\ Free(n) /\ next <= MaxTnx
  /\ LET to == {s \in Node : up[s]}
         new == Changed(base[n], S, next)
     IN  /\ tnx' = [tnx EXCEPT ![n] =
              [phase |-> "REPLICATE", id |-> next, changed |-> S, new |-> new,
               todo |-> to, success |-> 0, resync |-> {}]]
         /\ requests' = requests \cup Replicates(to, n, next, S, new)
  /\ next' = next + 1
  /\ UNCHANGED <<mode, base, up, leader, acked, stops, faults>>

\* sqlx_transaction_end() on the master: the changes are gathered, and hook_commit()
\* sends them to every peer.  Without peers to be found, nothing happens at all.
Commit(n, S) ==
  /\ leader = n /\ Free(n) /\ next <= MaxTnx
  /\ LET to == {s \in Peers(n) : up[s]}
         new == Changed(base[n], S, next)
     IN  /\ tnx' = [tnx EXCEPT ![n] =
              [phase |-> "REPLICATE", id |-> next, changed |-> S, new |-> new,
               todo |-> to, success |-> 0, resync |-> {}]]
         /\ requests' = requests \cup Replicates(to, n, next, S, new)
  /\ next' = next + 1
  /\ UNCHANGED <<mode, base, up, leader, acked, stops, faults>>

\* A change of the schema, or one the update hook has not seen: hook_commit() lets
\* the COMMIT go, and every peer receives a dump.  Without peers to be found
\* (_defer_synchronous_RESYNC()), nobody does, which counts for two faults.
CommitHuge(n, T) ==
  /\ leader = n /\ Free(n) /\ next <= MaxTnx
  /\ \E found \in BOOLEAN :
       LET to == {s \in Peers(n) : found /\ up[s]}
           new == Huge(base[n], T, next)
       IN  /\ Fault(2 * If(~found))
           /\ base' = [base EXCEPT ![n] = new]
           /\ tnx' = [tnx EXCEPT ![n] =
                [phase |-> "RESTORE", id |-> next, changed |-> DOMAIN new, new |-> new,
                 todo |-> to, success |-> 0, resync |-> {}]]
           /\ requests' = requests \cup sqlx_synchronous_resync(to, n, next, new)
  /\ next' = next + 1
  /\ UNCHANGED <<mode, up, leader, acked>>

\* Mutant: the version reached is not checked.
Accepts_Blindly(b, x) == x.changed \subseteq DOMAIN b

\* replicate_body_manage(): the rows are kept if they lead to the version expected.
Accepts(b, x) ==
  /\ x.changed \subseteq DOMAIN b
  /\ version_validate_diff(
       version_extract_from_admin(Applied(b, x)),
       version_extract_expected(version_extract_from_admin(b), x.changed)) = "0"

replicate_body_manage(b, x) == IF Accepts(b, x) THEN Applied(b, x) ELSE b

\* A peer that could not apply the rows counts as a success and is to be restored.
Replicate(r) ==
  /\ r.kind = "REPLICATE" /\ Free(r.to)
  /\ base' = [base EXCEPT ![r.to] = replicate_body_manage(@, r)]
  /\ requests' = requests \ {r}
  /\ tnx' = Heard(r, 1, IF Accepts(base[r.to], r) THEN {} ELSE {r.to})
  /\ UNCHANGED <<mode, up, leader, next, acked, stops, faults>>

\* A dump replaces the base, whatever that base has become.  That of a service which is
\* no more the master may replace the base of the new one: it counts for two faults.
Restore(r) ==
  /\ r.kind \in {"RESTORE", "DUMP"} /\ Free(r.to)
  /\ Fault(2 * If(r.kind = "RESTORE" /\ r.from # leader))
  /\ base' = [base EXCEPT ![r.to] = r.new]
  /\ requests' = requests \ {r}
  /\ tnx' = Heard(r, 0, {})
  /\ UNCHANGED <<mode, up, leader, next, acked>>

\* The request is lost, or is not served; a fault unless the base it is for is held by
\* a transaction.  That a RESTORE failed is only logged.
RequestFailed(r) ==
  /\ Fault(If(Waits(r) /\ Free(r.to)))
  /\ requests' = requests \ {r}
  /\ tnx' = Heard(r, 0, {})
  /\ UNCHANGED <<mode, base, up, leader, next, acked>>

\* The master stops waiting (SQLX_REPLICATION_TIMEOUT); the request may still be served.
Timeout(r) ==
  /\ Waits(r) /\ Fault(If(Free(r.to)))
  /\ tnx' = Heard(r, 0, {})
  /\ UNCHANGED <<mode, base, up, leader, requests, next, acked>>

\* The end of _replicate_on_peers(): the COMMIT goes on, and the peers that could not
\* apply the rows receive a dump, or it is aborted.
EndReplicate(n) ==
  /\ tnx[n].phase = "REPLICATE" /\ tnx[n].todo = {}
  /\ IF tnx[n].success + 1 >= Needed
     THEN LET x == tnx[n]
              to == {s \in x.resync : up[s]}
          IN  /\ base' = [base EXCEPT ![n] = x.new]
              /\ tnx' = [tnx EXCEPT ![n] =
                   [x EXCEPT !.phase = "RESTORE", !.todo = to, !.resync = {}]]
              /\ requests' = requests \cup sqlx_synchronous_resync(to, n, x.id, x.new)
     ELSE /\ tnx' = [tnx EXCEPT ![n] = Idle]
          /\ UNCHANGED <<base, requests>>
  /\ UNCHANGED <<mode, up, leader, next, acked, stops, faults>>

\* The end of sqlx_transaction_end(): the client is told of the success.
Answered(n) ==
  /\ tnx[n].phase = "RESTORE" /\ tnx[n].todo = {}
  /\ acked' = acked \cup {[id |-> tnx[n].id, changed |-> tnx[n].changed]}
  /\ tnx' = [tnx EXCEPT ![n] = Idle]
  /\ UNCHANGED <<mode, base, up, leader, requests, next, stops, faults>>

-----------------------------------------------------------------------------
(* The election, and the members that copy another one.                     *)

\* Mutant: a lag of one version is no error for version_validate_diff(), the worst
\* difference it also returns is forgotten.
Getvers_LagOfOne(n, p) ==
  LET d == version_validate_diff(version_extract_from_admin(base[n]),
                                 version_extract_from_admin(base[p]))
  IN  CASE d = "PIPEFROM" -> "OUTDATED"
        [] d = "CONCURRENT" -> "CONCURRENT"
        [] OTHER -> "OK"

\* on_end_GETVERS(), for a peer that answers.
Getvers(n, p) ==
  LET d == version_validate_diff(version_extract_from_admin(base[n]),
                                 version_extract_from_admin(base[p]))
  IN  CASE d \in {"PIPEFROM", "-1"} -> "OUTDATED"
        [] d = "CONCURRENT" -> "CONCURRENT"
        [] OTHER -> "OK"

\* The PIPEFROM of a service: still to be dumped by its source, then to be restored.
Piping(n) == {r \in requests : r.kind \in {"PIPEFROM", "DUMP"} /\ r.to = n}

\* member_finish_PRELEAD(): one peer at most did not answer, nobody is ahead.  One
\* peer may be CONCURRENT, which is a fault.  So is the silence of a peer whose base is
\* free, and a PIPEFROM of the member itself that it does not wait for: that was
\* forgotten by member_reset_pending(), or by on_end_PIPEFROM() of an older one, or
\* its client has timed out.
Elect(n) ==
  /\ leader = NoNode /\ Free(n)
  /\ \E silent \in SUBSET Peers(n) :
       /\ {p \in Peers(n) : ~Free(p)} \subseteq silent
       /\ Cardinality(silent) <= 1
       /\ \A p \in Peers(n) \ silent : Getvers(n, p) # "OUTDATED"
       /\ LET concurrent == {p \in Peers(n) \ silent : Getvers(n, p) = "CONCURRENT"}
          IN  /\ Cardinality(concurrent) <= 1
              /\ Fault(If(\E p \in silent : Free(p)) + If(Piping(n) # {})
                         + Cardinality(concurrent))
  /\ leader' = n
  /\ UNCHANGED <<mode, base, up, tnx, requests, next, acked>>

\* What makes a member request a PIPEFROM in PRELOST.
Outdated(n) ==
  LET heard == {p \in Peers(n) : Free(p)}
  IN  \/ \E p \in heard : Getvers(n, p) = "OUTDATED"
      \/ Cardinality({p \in heard : Getvers(n, p) = "CONCURRENT"}) > 1

\* defer_PIPEFROM(): the source is master_url, the owner of the first znode when the
\* member asked, be it the master, a candidate still in PRELEAD or a former master.
\* A PIPEFROM counts for a fault.
PipeFrom(n, m) ==
  /\ n \notin {leader, m} /\ up[n] /\ up[m] /\ Outdated(n)
  /\ Cardinality(Piping(n)) < MaxPipe /\ Fault(1)
  /\ requests' = requests \cup {Request("PIPEFROM", m, n, 0, {}, NoBase)}
  /\ UNCHANGED <<mode, base, up, leader, tnx, next, acked>>

\* _pipe_from(): the dump of the source comes first, under its lock; the base of the
\* member is only locked to restore it.
Dump(r) ==
  /\ r.kind = "PIPEFROM" /\ Free(r.from)
  /\ requests' = (requests \ {r}) \cup
                   {Request("DUMP", NoNode, r.to, 0, {}, base[r.from])}
  /\ UNCHANGED <<mode, base, up, leader, tnx, next, acked, stops, faults>>

-----------------------------------------------------------------------------
(* Crashes and departures.                                                  *)

\* The process stops: the transaction it had not committed is rolled back, what it was
\* to serve is lost, and what it had sent may still be served or not.
Crash(n) ==
  /\ up[n]
  /\ \E kept \in SUBSET {r \in requests : r.from = n /\ r.kind # "PIPEFROM"} :
       /\ Stop(1)
       /\ requests' = kept \cup {r \in requests : n \notin {r.from, r.to}}
  /\ up' = [up EXCEPT ![n] = FALSE]
  /\ tnx' = [m \in Node |-> IF m = n THEN Idle ELSE [tnx[m] EXCEPT !.todo = @ \ {n}]]
  /\ leader' = IF leader = n THEN NoNode ELSE leader
  /\ UNCHANGED <<mode, base, next, acked>>

Restart(n) ==
  /\ ~up[n]
  /\ up' = [up EXCEPT ![n] = TRUE]
  /\ UNCHANGED <<mode, base, leader, tnx, requests, next, acked, stops, faults>>

\* The master leaves the election.  Its transaction goes on, beside the next master:
\* that counts for two.
Exit(n) ==
  /\ leader = n /\ Stop(IF Free(n) THEN 1 ELSE 2)
  /\ leader' = NoNode
  /\ UNCHANGED <<mode, base, up, tnx, requests, next, acked>>

-----------------------------------------------------------------------------
Init ==
  /\ mode \in {"QUORUM", "GROUP"}
  /\ base = [n \in Node |-> [t \in Table \cup {Admin} |-> NewTable]]
  /\ up = [n \in Node |-> TRUE]
  /\ leader = NoNode
  /\ tnx = [n \in Node |-> Idle]
  /\ requests = {}
  /\ next = 1
  /\ acked = {}
  /\ stops = 0 /\ faults = 0

Next ==
  \/ \E n \in Node :
       \/ \E S \in ChangeSets : S \subseteq DOMAIN base[n] /\ Commit(n, S)
       \/ \E T \in SUBSET Created : CommitHuge(n, T)
       \/ EndReplicate(n) \/ Answered(n)
       \/ Elect(n) \/ \E m \in Node : PipeFrom(n, m)
       \/ Crash(n) \/ Restart(n) \/ Exit(n)
  \/ \E r \in requests :
       \/ Replicate(r) \/ Restore(r) \/ Dump(r)
       \/ RequestFailed(r) \/ Timeout(r)

Spec == Init /\ [][Next]_vars

-----------------------------------------------------------------------------
(* Properties.                                                              *)

Entry == [version : Nat, rows : Seq(Nat)]
IsBase(b) == DOMAIN b \in SUBSET AllTables /\ b \in [DOMAIN b -> Entry]

\* A transaction never waits for its own service.
IsTnx(n, x) ==
  /\ x \in [phase : {"idle", "REPLICATE", "RESTORE"}, id : Nat,
            changed : SUBSET AllTables, new : {x.new}, todo : SUBSET Peers(n),
            success : Nat, resync : SUBSET Peers(n)]
  /\ x.phase # "idle" => IsBase(x.new) /\ x.changed \subseteq DOMAIN x.new

\* Nobody sends anything to its own service.
IsRequest(r) ==
  /\ r \in [kind : {"REPLICATE", "RESTORE", "PIPEFROM", "DUMP"},
            from : Node \cup {NoNode}, to : Node, id : Nat,
            changed : SUBSET AllTables, new : {r.new}]
  /\ r.from # r.to /\ (r.kind = "DUMP" <=> r.from = NoNode)
  /\ r.kind # "PIPEFROM" => IsBase(r.new) /\ r.changed \subseteq DOMAIN r.new

\* The types, and what the phases of a transaction imply.
TypeOK ==
  /\ mode \in {"QUORUM", "GROUP"}
  /\ base = [n \in Node |-> base[n]] /\ \A n \in Node : IsBase(base[n])
  /\ up \in [Node -> BOOLEAN]
  /\ leader \in Node \cup {NoNode}
  /\ tnx = [n \in Node |-> tnx[n]] /\ \A n \in Node : IsTnx(n, tnx[n])
  /\ \A r \in requests : IsRequest(r)
  /\ next \in Nat
  /\ stops \in Nat /\ faults \in Nat

\* The bases of the services, those their transactions lead to, and the dumps and the
\* targets of the requests under way.
Bases ==
  {base[n] : n \in Node}
    \cup {tnx[n].new : n \in {m \in Node : tnx[m].phase # "idle"}}
    \cup {r.new : r \in {q \in requests : q.kind # "PIPEFROM"}}

\* The version of a table is one more than the number of changes made to it, in every
\* base, dump and transaction: version_validate_diff() compares numbers of changes
\* (not which ones they are), and replicate_body_manage() lets no change be applied
\* over one that is missing without the version telling.
Counted(b) == \A t \in DOMAIN b \ {Admin} : b[t].version = 1 + Len(b[t].rows)
VersionsCount == \A b \in Bases : Counted(b)

\* A transaction has one place in the history of a table, the same in every base, dump
\* and transaction: its rows are applied once at most, and over as many changes as its
\* master had, however late the REPLICATE is served, be it repeated by a dump, be its
\* master dead or replaced (replicate_body_manage()).  0 fills the second place of a
\* huge change.  The table admin is not concerned: its changes are not counted.
Aligned(u, v) == \A i \in 1..Len(u), j \in 1..Len(v) : u[i] = v[j] /\ u[i] # 0 => i = j
SamePlace ==
  \A b, c \in Bases : \A t \in (DOMAIN b \cap DOMAIN c) \ {Admin} :
    Aligned(b[t].rows, c[t].rows)

Changes(b) == UNION {{b[t].rows[i] : i \in 1..Len(b[t].rows)} : t \in DOMAIN b}

\* A transaction whose COMMIT succeeded is in the base of the master, whoever that is,
\* as long as one service at most has crashed (its REPLICATE may still be served) or
\* left at rest, and one fault at most has happened: a request lost or served too
\* late, a peer silent at the election, a PIPEFROM, a CONCURRENT peer tolerated
\* (_replicate_on_peers(), on_end_GETVERS(), member_finish_PRELEAD()).  A change of
\* the table admin alone has no version, and is not covered.
Durable ==
  stops <= 1 /\ faults <= 1 /\ leader # NoNode =>
    \A a \in acked : a.changed # {Admin} => a.id \in Changes(base[leader])
=============================================================================
