-------------------------- MODULE ReplicationProofs --------------------------
(****************************************************************************)
(* The histories of the tables: the proofs of VersionsCount and SamePlace   *)
(* (module Replication), for any group, any schema and any number of        *)
(* transactions and incidents.                                              *)
(*                                                                          *)
(* The inductive invariant adds to the two that the ids of the transactions *)
(* are below the next one, and that the rows of a REPLICATE come last in    *)
(* the base its transaction leads to.                                       *)
(****************************************************************************)
EXTENDS Replication, FiniteSetTheorems, TLAPS

-----------------------------------------------------------------------------
(* Histories.                                                               *)

\* The places of two histories are compared either way.
LEMMA AlignedSymmetric ==
  ASSUME NEW u \in Seq(Nat), NEW v \in Seq(Nat), Aligned(u, v)
  PROVE  Aligned(v, u)
BY DEF Aligned

\* What Append() gives.
LEMMA Appended ==
  ASSUME NEW u \in Seq(Nat), NEW k \in Nat
  PROVE  /\ Append(u, k) \in Seq(Nat) /\ Len(u) \in Nat
         /\ Len(Append(u, k)) = Len(u) + 1
         /\ \A i \in 1..Len(u) : Append(u, k)[i] = u[i]
         /\ Append(u, k)[Len(u) + 1] = k
OBVIOUS

\* A place that is left empty disturbs nothing.
LEMMA AppendNothing ==
  ASSUME NEW u \in Seq(Nat), NEW v \in Seq(Nat), Aligned(u, v)
  PROVE  Aligned(Append(u, 0), v)
<1> DEFINE w == Append(u, 0)
<1>1. w \in Seq(Nat) /\ Len(u) \in Nat /\ Len(w) = Len(u) + 1 /\ w[Len(u) + 1] = 0
      /\ \A i \in 1..Len(u) : w[i] = u[i]
  BY Appended
<1> HIDE DEF w
<1> SUFFICES ASSUME NEW i \in 1..Len(w), NEW j \in 1..Len(v), w[i] = v[j], w[i] # 0
             PROVE  i = j
  BY DEF Aligned, w
<1>2. i \in 1..Len(u)
  BY <1>1
<1> QED BY <1>1, <1>2, Zenon DEF Aligned

\* A new transaction is added to a history; the other one may have it in that place.
LEMMA AppendAligned ==
  ASSUME NEW u \in Seq(Nat), NEW v \in Seq(Nat), NEW k \in Nat, Aligned(u, v),
         \A j \in 1..Len(v) : v[j] = k => j = Len(u) + 1
  PROVE  Aligned(Append(u, k), v)
<1> DEFINE w == Append(u, k)
<1>1. w \in Seq(Nat) /\ Len(u) \in Nat /\ Len(w) = Len(u) + 1 /\ w[Len(u) + 1] = k
      /\ \A i \in 1..Len(u) : w[i] = u[i]
  BY Appended
<1> HIDE DEF w
<1> SUFFICES ASSUME NEW i \in 1..Len(w), NEW j \in 1..Len(v), w[i] = v[j], w[i] # 0
             PROVE  i = j
  BY DEF Aligned, w
<1>2. CASE i \in 1..Len(u)
  BY <1>1, <1>2, Zenon DEF Aligned
<1>3. CASE i = Len(u) + 1
  BY <1>1, <1>3
<1> QED BY <1>1, <1>2, <1>3

\* A history that did not have the transaction is aligned with itself afterwards.
LEMMA AppendSelf ==
  ASSUME NEW u \in Seq(Nat), NEW k \in Nat, Aligned(u, u), \A i \in 1..Len(u) : u[i] # k
  PROVE  Aligned(Append(u, k), Append(u, k))
<1> DEFINE w == Append(u, k)
<1>1. w \in Seq(Nat) /\ Len(u) \in Nat /\ Len(w) = Len(u) + 1 /\ w[Len(u) + 1] = k
      /\ \A i \in 1..Len(u) : w[i] = u[i]
  BY Appended
<1>2. Aligned(w, u)
  BY AppendAligned
<1>3. Aligned(u, w)
  BY <1>1, <1>2, AlignedSymmetric, Zenon
<1>4. \A j \in 1..Len(w) : w[j] = k => j = Len(u) + 1
  <2> HIDE DEF w
  <2> SUFFICES ASSUME NEW j \in 1..Len(w), w[j] = k, j # Len(u) + 1 PROVE FALSE
    OBVIOUS
  <2>1. j \in 1..Len(u)
    BY <1>1
  <2> QED BY <1>1, <2>1, Zenon
<1> QED BY <1>1, <1>3, <1>4, AppendAligned, Zenon

\* A huge change: the transaction, and a place left empty.
LEMMA AppendTwo ==
  ASSUME NEW u \in Seq(Nat), NEW k \in Nat
  PROVE  /\ u \o <<k, 0>> = Append(Append(u, k), 0)
         /\ u \o <<k, 0>> \in Seq(Nat) /\ Len(u \o <<k, 0>>) = Len(u) + 2
<1> DEFINE w == Append(Append(u, k), 0)
           z == u \o <<k, 0>>
<1>1. w \in Seq(Nat) /\ Len(w) = Len(u) + 2 /\ Len(u) \in Nat
  BY Appended
<1>2. z \in Seq(Nat) /\ Len(z) = Len(u) + 2
  OBVIOUS
<1>3. ASSUME NEW i \in 1..(Len(u) + 2) PROVE z[i] = w[i]
  OBVIOUS
<1> HIDE DEF w, z
<1>4. z = w
  BY <1>1, <1>2, <1>3
<1> QED BY <1>2, <1>4 DEF w, z

\* It keeps the histories aligned.
LEMMA TwoAligned ==
  ASSUME NEW u \in Seq(Nat), NEW k \in Nat, Aligned(u, u), \A i \in 1..Len(u) : u[i] # k
  PROVE  /\ Aligned(u \o <<k, 0>>, u \o <<k, 0>>)
         /\ \A v \in Seq(Nat) :
              Aligned(u, v) /\ (\A j \in 1..Len(v) : v[j] # k) => Aligned(u \o <<k, 0>>, v)
<1> DEFINE x == Append(u, k)
           w == Append(x, 0)
<1>1. x \in Seq(Nat) /\ w \in Seq(Nat) /\ u \o <<k, 0>> = w
  BY Appended, AppendTwo
<1>2. Aligned(x, x)
  BY AppendSelf
<1>3. ASSUME NEW v \in Seq(Nat), Aligned(u, v), \A j \in 1..Len(v) : v[j] # k
      PROVE  Aligned(w, v)
  <2>1. Aligned(x, v)
    BY <1>3, AppendAligned, Zenon
  <2> HIDE DEF x
  <2> QED BY <1>1, <2>1, AppendNothing
<1> HIDE DEF x
<1>4. Aligned(x, w)
  BY <1>1, <1>2, AppendNothing, AlignedSymmetric, Zenon
<1>5. Aligned(w, w)
  BY <1>1, <1>4, AppendNothing, Zenon
<1> QED BY <1>1, <1>3, <1>5, Zenon

-----------------------------------------------------------------------------
(* The bases and the versions.                                              *)

\* The bases as a set, and what holds of those of a state: `k` is the next transaction.
AnyBase == UNION {[D -> Entry] : D \in SUBSET AllTables}
Below(b, k) == \A t \in DOMAIN b \ {Admin} : \A i \in 1..Len(b[t].rows) : b[t].rows[i] < k
Sound(b, k) == b \in AnyBase /\ Counted(b) /\ Below(b, k)
AlignedBases(b, c) ==
  \A t \in (DOMAIN b \cap DOMAIN c) \ {Admin} : Aligned(b[t].rows, c[t].rows)

\* A base is a function on some of the tables.
LEMMA BaseFields ==
  ASSUME NEW b \in AnyBase
  PROVE  /\ DOMAIN b \subseteq AllTables
         /\ \A t \in DOMAIN b : b[t] \in Entry
         /\ \A t \in DOMAIN b : b[t].version \in Nat /\ b[t].rows \in Seq(Nat)
<1>1. PICK D \in SUBSET AllTables : b \in [D -> Entry]
  BY DEF AnyBase
<1> QED BY <1>1 DEF Entry

\* The other way round.
LEMMA BaseMade ==
  ASSUME NEW D \in SUBSET AllTables, NEW b \in [D -> Entry]
  PROVE  b \in AnyBase
BY DEF AnyBase

\* Two bases are compared either way.
LEMMA AlignedBasesSymmetric ==
  ASSUME NEW b \in AnyBase, NEW c \in AnyBase, AlignedBases(b, c)
  PROVE  AlignedBases(c, b)
<1> SUFFICES ASSUME NEW t \in (DOMAIN c \cap DOMAIN b) \ {Admin}
             PROVE  Aligned(c[t].rows, b[t].rows)
  BY DEF AlignedBases
<1>1. b[t].rows \in Seq(Nat) /\ c[t].rows \in Seq(Nat)
  BY BaseFields
<1>2. Aligned(b[t].rows, c[t].rows)
  BY DEF AlignedBases
<1> QED BY <1>1, <1>2, AlignedSymmetric

\* The tables of `c` are those of `b`, some with the transaction k added.
Extends(b, c, k) ==
  /\ c \in AnyBase /\ DOMAIN c = DOMAIN b
  /\ \A t \in DOMAIN b \ {Admin} :
       \/ c[t] = b[t]
       \/ /\ c[t].version = b[t].version + 1 /\ c[t].rows = Append(b[t].rows, k)
          /\ \A i \in 1..Len(b[t].rows) : b[t].rows[i] # k

\* A base that has it has it in the same place.
Agrees(b, c, d, k) ==
  \A t \in (DOMAIN b \cap DOMAIN d) \ {Admin} :
    c[t] # b[t] => \A j \in 1..Len(d[t].rows) : d[t].rows[j] = k => j = Len(b[t].rows) + 1

\* One more transaction: what was sound and aligned still is.
LEMMA ExtendsSound ==
  ASSUME NEW m \in Nat, NEW k \in Nat, k < m, NEW b, Sound(b, m), AlignedBases(b, b),
         NEW c, Extends(b, c, k)
  PROVE  Sound(c, m) /\ AlignedBases(c, c)
<1>1. b \in AnyBase /\ c \in AnyBase /\ DOMAIN c = DOMAIN b
  BY DEF Sound, Extends
<1>2. ASSUME NEW t \in DOMAIN b \ {Admin}
      PROVE  /\ c[t].version = 1 + Len(c[t].rows)
             /\ \A i \in 1..Len(c[t].rows) : c[t].rows[i] < m
             /\ Aligned(c[t].rows, c[t].rows)
  <2> DEFINE u == b[t].rows
  <2>1. /\ u \in Seq(Nat) /\ Len(u) \in Nat /\ b[t].version = 1 + Len(u) /\ Aligned(u, u)
        /\ \A i \in 1..Len(u) : u[i] < m
    BY <1>1, BaseFields DEF Sound, Counted, Below, AlignedBases
  <2>2. CASE c[t] = b[t]
    BY <2>1, <2>2
  <2>3. CASE /\ c[t].version = b[t].version + 1 /\ c[t].rows = Append(b[t].rows, k)
             /\ \A i \in 1..Len(b[t].rows) : b[t].rows[i] # k
    <3> DEFINE w == Append(u, k)
    <3>1. /\ Len(w) = Len(u) + 1 /\ w[Len(u) + 1] = k
          /\ \A i \in 1..Len(u) : w[i] = u[i]
      BY <2>1, Appended
    <3>2. Aligned(w, w)
      BY <2>1, <2>3, AppendSelf
    <3>3. c[t].rows = w /\ c[t].version = b[t].version + 1
      BY <2>3
    <3> HIDE DEF w, u
    <3>4. \A i \in 1..Len(w) : w[i] < m
      BY <2>1, <3>1
    <3>5. b[t].version + 1 = 1 + Len(w)
      BY <2>1, <3>1
    <3> QED BY <3>2, <3>3, <3>4, <3>5
  <2>4. \/ c[t] = b[t]
        \/ /\ c[t].version = b[t].version + 1 /\ c[t].rows = Append(b[t].rows, k)
           /\ \A i \in 1..Len(b[t].rows) : b[t].rows[i] # k
    BY DEF Extends
  <2> QED BY <2>2, <2>3, <2>4
<1> QED BY <1>1, <1>2 DEF Sound, Counted, Below, AlignedBases

\* So is any other base with it.
LEMMA ExtendsAligned ==
  ASSUME NEW k \in Nat, NEW b \in AnyBase, NEW c, Extends(b, c, k), NEW d \in AnyBase,
         AlignedBases(b, d), Agrees(b, c, d, k)
  PROVE  AlignedBases(c, d)
<1>1. c \in AnyBase /\ DOMAIN c = DOMAIN b
  BY DEF Extends
<1>2. SUFFICES ASSUME NEW t \in (DOMAIN b \cap DOMAIN d) \ {Admin}
               PROVE  Aligned(c[t].rows, d[t].rows)
  BY <1>1 DEF AlignedBases
<1>3. b[t].rows \in Seq(Nat) /\ d[t].rows \in Seq(Nat) /\ Aligned(b[t].rows, d[t].rows)
  BY BaseFields DEF AlignedBases
<1>4. CASE c[t] = b[t]
  BY <1>3, <1>4
<1>5. CASE c[t] # b[t]
  <2> DEFINE u == b[t].rows
             v == d[t].rows
  <2>1. c[t].rows = Append(u, k)
    BY <1>5 DEF Extends
  <2>2. \A j \in 1..Len(v) : v[j] = k => j = Len(u) + 1
    BY <1>5 DEF Agrees
  <2>3. u \in Seq(Nat) /\ v \in Seq(Nat) /\ Aligned(u, v)
    BY <1>3
  <2> HIDE DEF u, v
  <2>4. Aligned(Append(u, k), v)
    BY <2>2, <2>3, AppendAligned
  <2> QED BY <2>1, <2>4 DEF u, v
<1> QED BY <1>4, <1>5

\* Changed() adds a transaction that no base has.
LEMMA ChangedExtends ==
  ASSUME NEW k \in Nat, NEW b, Sound(b, k), NEW S \in SUBSET DOMAIN b
  PROVE  Extends(b, Changed(b, S, k), k)
<1> DEFINE c == Changed(b, S, k)
<1>1. b \in AnyBase /\ DOMAIN c = DOMAIN b /\ DOMAIN b \in SUBSET AllTables
  BY BaseFields DEF Changed, Sound
<1>2. ASSUME NEW t \in DOMAIN b
      PROVE  /\ c[t] \in Entry
             /\ t # Admin =>
                  \/ c[t] = b[t]
                  \/ /\ c[t].version = b[t].version + 1 /\ c[t].rows = Append(b[t].rows, k)
                     /\ \A i \in 1..Len(b[t].rows) : b[t].rows[i] # k
  <2>1. b[t] \in Entry /\ b[t].version \in Nat /\ b[t].rows \in Seq(Nat)
    BY <1>1, BaseFields
  <2>2. CASE t \in S
    <3>1. c[t] = [version |-> b[t].version + (IF t = Admin THEN 0 ELSE 1),
                  rows |-> Append(b[t].rows, k)]
      BY <2>2 DEF Changed
    <3>2. Append(b[t].rows, k) \in Seq(Nat)
      BY <2>1, Appended
    <3>3. c[t] \in Entry
      BY <2>1, <3>1, <3>2 DEF Entry
    <3>4. t # Admin => \A i \in 1..Len(b[t].rows) : b[t].rows[i] # k
      <4> SUFFICES ASSUME t # Admin, NEW i \in 1..Len(b[t].rows) PROVE b[t].rows[i] # k
        OBVIOUS
      <4>1. b[t].rows[i] < k
        BY DEF Sound, Below
      <4> QED BY <4>1
    <3> QED BY <3>1, <3>3, <3>4
  <2>3. CASE t \notin S
    <3>1. c[t] = b[t]
      BY <2>3 DEF Changed
    <3> QED BY <2>1, <3>1
  <2> QED BY <2>2, <2>3
<1>3. c \in [DOMAIN b -> Entry]
  BY <1>2, Zenon DEF Changed
<1>4. c \in AnyBase
  BY <1>1, <1>3, BaseMade
<1> QED BY <1>1, <1>2, <1>4 DEF Extends

\* Huge() adds it to every table, with a place left empty.
Old(b, t) == IF t \in DOMAIN b THEN b[t] ELSE NewTable
Twice(e, k) == [version |-> e.version + 2, rows |-> e.rows \o <<k, 0>>]
SoundTable(e, k) ==
  /\ e.version = 1 + Len(e.rows)
  /\ \A i \in 1..Len(e.rows) : e.rows[i] < k
  /\ Aligned(e.rows, e.rows)

\* What that makes of a table.
LEMMA TwiceSound ==
  ASSUME NEW k \in Nat, NEW e \in Entry
  PROVE  /\ Twice(e, k) \in Entry
         /\ SoundTable(e, k) =>
              /\ SoundTable(Twice(e, k), k + 1)
              /\ \A v \in Seq(Nat) :
                   Aligned(e.rows, v) /\ (\A j \in 1..Len(v) : v[j] < k)
                     => Aligned(Twice(e, k).rows, v)
<1> DEFINE u == e.rows
           w == u \o <<k, 0>>
           f == Twice(e, k)
<1>1. u \in Seq(Nat) /\ e.version \in Nat
  BY DEF Entry
<1>2. f = [version |-> e.version + 2, rows |-> w]
  BY DEF Twice
<1> HIDE DEF u, f
<1>3. /\ w \in Seq(Nat) /\ Len(w) = Len(u) + 2 /\ Len(u) \in Nat
      /\ \A i \in 1..Len(u) : w[i] = u[i]
      /\ w[Len(u) + 1] = k /\ w[Len(u) + 2] = 0
  BY <1>1
<1>4. ASSUME Aligned(u, u), \A i \in 1..Len(u) : u[i] < k
      PROVE  /\ Aligned(w, w)
             /\ \A v \in Seq(Nat) :
                  Aligned(u, v) /\ (\A j \in 1..Len(v) : v[j] < k) => Aligned(w, v)
  <2>1. ASSUME NEW v \in Seq(Nat), \A j \in 1..Len(v) : v[j] < k
        PROVE  \A j \in 1..Len(v) : v[j] # k
    <3> SUFFICES ASSUME NEW j \in 1..Len(v) PROVE v[j] # k
      OBVIOUS
    <3>1. v[j] < k
      BY <2>1
    <3> QED BY <3>1
  <2>2. \A i \in 1..Len(u) : u[i] # k
    BY <1>1, <1>4, <2>1
  <2> QED BY <1>1, <1>4, <2>1, <2>2, TwoAligned, Zenon
<1> HIDE DEF w
<1>5. f \in Entry /\ f.rows = w /\ f.version = e.version + 2
  BY <1>1, <1>2, <1>3 DEF Entry
<1>6. ASSUME SoundTable(e, k) PROVE SoundTable(f, k + 1)
  <2>1. e.version = 1 + Len(u) /\ Aligned(u, u) /\ \A i \in 1..Len(u) : u[i] < k
    BY <1>6 DEF SoundTable, u
  <2>2. f.version = 1 + Len(w)
    BY <1>3, <1>5, <2>1
  <2>3. ASSUME NEW i \in 1..Len(w) PROVE w[i] < k + 1
    <3>1. CASE i \in 1..Len(u)
      <4>1. w[i] = u[i] /\ u[i] < k /\ u[i] \in Nat
        BY <1>1, <1>3, <2>1, <3>1
      <4> QED BY <4>1
    <3>2. CASE i = Len(u) + 1 \/ i = Len(u) + 2
      BY <1>3, <3>2
    <3> QED BY <1>3, <3>1, <3>2
  <2> QED BY <1>4, <1>5, <2>1, <2>2, <2>3 DEF SoundTable
<1> QED BY <1>4, <1>5, <1>6 DEF SoundTable, f, u

\* The tables of a sound base, and the empty one of a table created.
LEMMA OldSound ==
  ASSUME NEW k \in Nat, NEW b, Sound(b, k), AlignedBases(b, b), NEW t
  PROVE  Old(b, t) \in Entry /\ (t # Admin => SoundTable(Old(b, t), k))
<1>1. CASE t \in DOMAIN b
  <2>1. Old(b, t) = b[t]
    BY <1>1 DEF Old
  <2> QED BY <1>1, <2>1, BaseFields DEF Sound, Counted, Below, AlignedBases, SoundTable
<1>2. CASE t \notin DOMAIN b
  <2>1. Old(b, t) = [version |-> 1, rows |-> <<>>]
    BY <1>2 DEF Old, NewTable
  <2> QED BY <2>1 DEF SoundTable, Entry, Aligned
<1> QED BY <1>1, <1>2

\* What Huge() makes of a base.
LEMMA HugeSound ==
  ASSUME NEW k \in Nat, NEW b, Sound(b, k), AlignedBases(b, b), NEW T \in SUBSET Created
  PROVE  /\ Sound(Huge(b, T, k), k + 1)
         /\ AlignedBases(Huge(b, T, k), Huge(b, T, k))
         /\ \A d : Sound(d, k) /\ AlignedBases(b, d) => AlignedBases(Huge(b, T, k), d)
<1> DEFINE c == Huge(b, T, k)
           D == DOMAIN b \cup T
<1>1. b \in AnyBase /\ D \in SUBSET AllTables
  BY BaseFields DEF AllTables, Sound
<1>2. c = [t \in D |-> Twice(Old(b, t), k)]
  BY DEF Huge, Old, Twice
<1> HIDE DEF c
<1>3. ASSUME NEW t \in D
      PROVE  c[t] \in Entry /\ (t # Admin => SoundTable(c[t], k + 1))
  BY <1>2, OldSound, TwiceSound
<1>4. c \in [D -> Entry]
  BY <1>2, <1>3
<1>5. c \in AnyBase /\ DOMAIN c = D
  BY <1>1, <1>4, BaseMade
<1>6. Sound(c, k + 1) /\ AlignedBases(c, c)
  BY <1>3, <1>5 DEF Sound, Counted, Below, AlignedBases, SoundTable
<1>7. ASSUME NEW d, Sound(d, k), AlignedBases(b, d) PROVE AlignedBases(c, d)
  <2> SUFFICES ASSUME NEW t \in (D \cap DOMAIN d) \ {Admin}
               PROVE  Aligned(c[t].rows, d[t].rows)
    BY <1>5 DEF AlignedBases
  <2> DEFINE v == d[t].rows
             u == Old(b, t).rows
  <2>1. v \in Seq(Nat) /\ \A j \in 1..Len(v) : v[j] < k
    BY <1>7, BaseFields DEF Sound, Below
  <2>2. Aligned(u, v)
    <3>1. CASE t \in DOMAIN b
      BY <1>7, <3>1 DEF AlignedBases, Old
    <3>2. CASE t \notin DOMAIN b
      BY <3>2 DEF Old, NewTable, Aligned
    <3> QED BY <3>1, <3>2
  <2>3. Old(b, t) \in Entry /\ SoundTable(Old(b, t), k)
    BY OldSound
  <2> HIDE DEF v
  <2>4. Aligned(Twice(Old(b, t), k).rows, v)
    BY <2>1, <2>2, <2>3, TwiceSound
  <2> QED BY <1>2, <2>4 DEF v
<1> QED BY <1>6, <1>7 DEF c

\* version_validate_diff() finds no difference: the common versions are equal.
LEMMA ValidDiff ==
  ASSUME NEW C, NEW E, NEW current \in [C -> Int], NEW expected \in [E -> Int],
         version_validate_diff(current, expected) = "0"
  PROVE  \A t \in C \cap E : current[t] = expected[t]
<1> DEFINE deltas == Deltas(current, expected)
<1>1. {d \in deltas : d < 0} = {} /\ {d \in deltas : d > 0} = {}
  BY DEF version_validate_diff
<1>2. SUFFICES ASSUME NEW t \in C \cap E PROVE current[t] = expected[t]
  OBVIOUS
<1>3. current[t] - expected[t] \in deltas /\ current[t] \in Int /\ expected[t] \in Int
  BY <1>2 DEF Deltas
<1>4. ~(current[t] - expected[t] < 0) /\ ~(current[t] - expected[t] > 0)
  BY <1>1, <1>3
<1> HIDE DEF deltas
<1> QED BY <1>3, <1>4

\* What a REPLICATE carries: the transaction comes last in the tables it changed.
Last(x) ==
  /\ x.new \in AnyBase /\ x.changed \subseteq DOMAIN x.new /\ x.id \in Nat \ {0}
  /\ \A t \in x.changed \ {Admin} :
       Len(x.new[t].rows) # 0 /\ x.new[t].rows[Len(x.new[t].rows)] = x.id

\* The rows a slave accepts lead to the version of the master.
LEMMA AppliedVersions ==
  ASSUME NEW b \in AnyBase, NEW x, Last(x), Accepts(b, x)
  PROVE  /\ Applied(b, x) \in AnyBase /\ DOMAIN Applied(b, x) = DOMAIN b
         /\ \A t \in DOMAIN b \ x.changed : Applied(b, x)[t] = b[t]
         /\ \A t \in x.changed \ {Admin} :
              /\ t \in DOMAIN b
              /\ Applied(b, x)[t].rows = Append(b[t].rows, x.id)
              /\ Applied(b, x)[t].version = b[t].version + 1
              /\ x.new[t].version = b[t].version + 1
<1> DEFINE c == Applied(b, x)
           current == version_extract_from_admin(c)
           before == version_extract_from_admin(b)
           expected == version_extract_expected(before, x.changed)
<1>1. DOMAIN c = DOMAIN b /\ DOMAIN b \in SUBSET AllTables /\ x.changed \subseteq DOMAIN b
  BY BaseFields DEF Applied, Accepts
<1>2. ASSUME NEW t \in DOMAIN b
      PROVE  /\ c[t] \in Entry /\ b[t] \in Entry
             /\ t \notin x.changed => c[t] = b[t]
             /\ t \in x.changed \ {Admin} => /\ c[t].rows = Append(b[t].rows, x.id)
                                             /\ c[t].version = x.new[t].version
  <2>1. b[t] \in Entry /\ b[t].rows \in Seq(Nat) /\ b[t].version \in Nat
    BY BaseFields
  <2>2. CASE t \in x.changed
    <3> DEFINE v == IF t = Admin THEN b[t].version ELSE x.new[t].version
               w == Append(b[t].rows, x.id)
    <3>1. c[t] = [version |-> v, rows |-> w]
      BY <2>2 DEF Applied
    <3>2. x.new[t].version \in Nat /\ x.id \in Nat
      BY <2>2, BaseFields DEF Last
    <3>3. w \in Seq(Nat) /\ v \in Nat
      BY <2>1, <3>2, Appended
    <3>4. t # Admin => v = x.new[t].version
      OBVIOUS
    <3> HIDE DEF v, w
    <3>5. c[t] \in Entry /\ c[t].version = v /\ c[t].rows = w
      BY <3>1, <3>3 DEF Entry
    <3> QED BY <2>1, <2>2, <3>4, <3>5 DEF w
  <2>3. CASE t \notin x.changed
    BY <2>1, <2>3 DEF Applied
  <2> QED BY <2>2, <2>3
<1>3. c \in [DOMAIN b -> Entry]
  BY <1>2, Zenon DEF Applied
<1>4. /\ current \in [DOMAIN b -> Int] /\ before \in [DOMAIN b -> Int]
      /\ \A t \in DOMAIN b : current[t] = c[t].version /\ before[t] = b[t].version
  BY <1>1, <1>2 DEF version_extract_from_admin, Entry
<1>5. /\ expected \in [DOMAIN b -> Int]
      /\ \A t \in x.changed \ {Admin} : expected[t] = before[t] + 1
  <2> HIDE DEF before
  <2>1. DOMAIN before = DOMAIN b /\ DOMAIN before \cup (x.changed \ {Admin}) = DOMAIN b
    BY <1>1, <1>4, Zenon
  <2> QED BY <1>1, <1>4, <2>1 DEF version_extract_expected
<1>6. version_validate_diff(current, expected) = "0"
  BY DEF Accepts
<1>7. \A t \in DOMAIN b : current[t] = expected[t]
  <2> HIDE DEF current, expected
  <2> QED BY <1>4, <1>5, <1>6, ValidDiff
<1> HIDE DEF c, current, before, expected
<1>8. ASSUME NEW t \in x.changed \ {Admin}
      PROVE  /\ t \in DOMAIN b /\ c[t].rows = Append(b[t].rows, x.id)
             /\ c[t].version = b[t].version + 1 /\ x.new[t].version = b[t].version + 1
  BY <1>1, <1>2, <1>4, <1>5, <1>7
<1>9. c \in AnyBase
  BY <1>1, <1>3, BaseMade
<1> QED BY <1>1, <1>2, <1>8, <1>9 DEF c

\* They add the transaction in the place it has on the master.
LEMMA AppliedExtends ==
  ASSUME NEW b \in AnyBase, Counted(b), NEW x, Last(x), Counted(x.new),
         AlignedBases(b, x.new), Accepts(b, x)
  PROVE  /\ Extends(b, Applied(b, x), x.id)
         /\ \A d \in AnyBase : AlignedBases(x.new, d) => Agrees(b, Applied(b, x), d, x.id)
<1> DEFINE c == Applied(b, x)
<1>1. /\ c \in AnyBase /\ DOMAIN c = DOMAIN b
      /\ \A t \in DOMAIN b \ x.changed : c[t] = b[t]
      /\ \A t \in x.changed \ {Admin} :
           /\ t \in DOMAIN b /\ c[t].rows = Append(b[t].rows, x.id)
           /\ c[t].version = b[t].version + 1
           /\ x.new[t].version = b[t].version + 1
  BY AppliedVersions
<1> HIDE DEF c
<1>2. ASSUME NEW t \in x.changed \ {Admin}
      PROVE  /\ t \in DOMAIN b /\ t \in DOMAIN x.new
             /\ b[t].rows \in Seq(Nat) /\ x.new[t].rows \in Seq(Nat)
             /\ Len(x.new[t].rows) = Len(b[t].rows) + 1 /\ Len(b[t].rows) \in Nat
             /\ x.new[t].rows[Len(b[t].rows) + 1] = x.id
  <2>1. t \in DOMAIN b /\ t \in DOMAIN x.new /\ x.new \in AnyBase
    BY <1>1 DEF Last
  <2>2. b[t].rows \in Seq(Nat) /\ x.new[t].rows \in Seq(Nat)
    BY <2>1, BaseFields
  <2>3. b[t].version = 1 + Len(b[t].rows) /\ x.new[t].version = 1 + Len(x.new[t].rows)
    BY <2>1 DEF Counted
  <2>4. Len(x.new[t].rows) \in Nat /\ Len(b[t].rows) \in Nat
    BY <2>2
  <2>5. Len(x.new[t].rows) = Len(b[t].rows) + 1
    BY <1>1, <2>3, <2>4
  <2> QED BY <2>1, <2>2, <2>4, <2>5 DEF Last
<1>3. ASSUME NEW t \in x.changed \ {Admin}, NEW v \in Seq(Nat), Aligned(x.new[t].rows, v),
             NEW j \in 1..Len(v), v[j] = x.id
      PROVE  j = Len(b[t].rows) + 1
  <2> DEFINE l == Len(b[t].rows) + 1
             w == x.new[t].rows
  <2>1. w \in Seq(Nat) /\ Len(w) = l /\ l \in 1..Len(w) /\ w[l] = x.id /\ x.id # 0
    BY <1>2 DEF Last
  <2>2. Aligned(w, v)
    BY <1>3
  <2> HIDE DEF l, w
  <2>3. j = l
    BY <1>3, <2>1, <2>2 DEF Aligned
  <2> QED BY <2>3 DEF l
<1>4. ASSUME NEW t \in x.changed \ {Admin}, NEW i \in 1..Len(b[t].rows)
      PROVE  b[t].rows[i] # x.id
  <2>1. t \in (DOMAIN b \cap DOMAIN x.new) \ {Admin}
    BY <1>2
  <2>2. Aligned(b[t].rows, x.new[t].rows)
    BY <2>1 DEF AlignedBases
  <2>3. Aligned(x.new[t].rows, b[t].rows)
    BY <1>2, <2>2, AlignedSymmetric
  <2>4. b[t].rows[i] = x.id => i = Len(b[t].rows) + 1
    BY <1>2, <1>3, <2>3
  <2>5. i # Len(b[t].rows) + 1
    BY <1>2
  <2> QED BY <2>4, <2>5
<1>5. Extends(b, c, x.id)
  BY <1>1, <1>4 DEF Extends
<1>6. ASSUME NEW d \in AnyBase, AlignedBases(x.new, d) PROVE Agrees(b, c, d, x.id)
  <2> SUFFICES ASSUME NEW t \in (DOMAIN b \cap DOMAIN d) \ {Admin}, c[t] # b[t],
                      NEW j \in 1..Len(d[t].rows), d[t].rows[j] = x.id
               PROVE  j = Len(b[t].rows) + 1
    BY DEF Agrees
  <2>1. t \in x.changed \ {Admin}
    BY <1>1
  <2>2. t \in (DOMAIN x.new \cap DOMAIN d) \ {Admin} /\ d[t].rows \in Seq(Nat)
    BY <1>2, <2>1, BaseFields
  <2>3. Aligned(x.new[t].rows, d[t].rows)
    BY <1>6, <2>2 DEF AlignedBases
  <2> QED BY <1>3, <2>1, <2>2, <2>3
<1> QED BY <1>5, <1>6 DEF c

-----------------------------------------------------------------------------
(* The inductive invariant.                                                 *)

Phases == {"idle", "REPLICATE", "RESTORE"}
Kinds == {"REPLICATE", "RESTORE", "PIPEFROM", "DUMP"}

\* The transaction of a service leads to a base that has the tables it changed.
TnxOK(n, x) ==
  /\ x \in [phase : Phases, id : Nat, changed : SUBSET AllTables,
            new : AnyBase \cup {NoBase}, todo : SUBSET Peers(n), success : Nat,
            resync : SUBSET Peers(n)]
  /\ x.phase # "idle" => x.new \in AnyBase /\ x.changed \subseteq DOMAIN x.new

\* So does a request; the rows of a REPLICATE come last in that base.
RequestOK(r) ==
  /\ r \in [kind : Kinds, from : Node \cup {NoNode}, to : Node, id : Nat,
            changed : SUBSET AllTables, new : AnyBase \cup {NoBase}]
  /\ r.from # r.to /\ (r.kind = "DUMP" <=> r.from = NoNode)
  /\ r.kind # "PIPEFROM" => r.new \in AnyBase /\ r.changed \subseteq DOMAIN r.new
  /\ r.kind = "REPLICATE" => Last(r) /\ r.id < next

\* What is true of all the bases of a state when k is the next transaction.
HistoryOf(B, k) ==
  (\A b \in B : Sound(b, k)) /\ (\A b, c \in B : AlignedBases(b, c))

Scalars ==
  /\ mode \in {"QUORUM", "GROUP"} /\ up \in [Node -> BOOLEAN]
  /\ leader \in Node \cup {NoNode} /\ next \in Nat \ {0}
  /\ stops \in Nat /\ faults \in Nat
Services == base \in [Node -> AnyBase]
Transactions == tnx = [n \in Node |-> tnx[n]] /\ \A n \in Node : TnxOK(n, tnx[n])
Requests == \A r \in requests : RequestOK(r)
IInv == Scalars /\ Services /\ Transactions /\ Requests /\ HistoryOf(Bases, next)

\* A base is an IsBase, and the other way round.
LEMMA BaseIs ==
  ASSUME NEW b \in AnyBase
  PROVE  IsBase(b)
<1>1. PICK D \in SUBSET AllTables : b \in [D -> Entry]
  BY DEF AnyBase
<1> QED BY <1>1 DEF IsBase

\* The invariant implies the properties of module Replication.
LEMMA IInvImplies ==
  ASSUME IInv
  PROVE  TypeOK /\ VersionsCount /\ SamePlace
<1>1. VersionsCount /\ SamePlace
  BY DEF IInv, HistoryOf, VersionsCount, SamePlace, Sound, AlignedBases
<1>2. ASSUME NEW n \in Node PROVE IsTnx(n, tnx[n])
  <2>1. TnxOK(n, tnx[n])
    BY DEF IInv, Transactions
  <2> QED BY <2>1, BaseIs DEF TnxOK, IsTnx, Phases
<1>3. ASSUME NEW r \in requests PROVE IsRequest(r)
  <2>1. RequestOK(r)
    BY DEF IInv, Requests
  <2> QED BY <2>1, BaseIs DEF RequestOK, IsRequest, Kinds
<1>4. base = [n \in Node |-> base[n]] /\ \A n \in Node : IsBase(base[n])
  BY BaseIs DEF IInv, Services
<1>5. Scalars /\ tnx = [n \in Node |-> tnx[n]]
  BY DEF IInv, Transactions
<1>6. TypeOK
  BY <1>2, <1>3, <1>4, <1>5 DEF TypeOK, Scalars
<1> QED BY <1>1, <1>6

\* What is true of the bases is true of some of them.
LEMMA HistorySame ==
  ASSUME NEW B, NEW k, HistoryOf(B, k), NEW C, C \subseteq B
  PROVE  HistoryOf(C, k)
BY DEF HistoryOf

\* It is true with one more base, sound and aligned with them all.
LEMMA HistoryAdd ==
  ASSUME NEW B, NEW k \in Nat, HistoryOf(B, k), NEW m \in Nat, k <= m,
         NEW d, Sound(d, m), AlignedBases(d, d), \A b \in B : AlignedBases(d, b),
         NEW C, C \subseteq B \cup {d}
  PROVE  HistoryOf(C, m)
<1>1. ASSUME NEW b \in B PROVE Sound(b, m) /\ b \in AnyBase
  <2>1. b \in AnyBase /\ Counted(b) /\ Below(b, k)
    BY DEF HistoryOf, Sound
  <2>2. ASSUME NEW t \in DOMAIN b \ {Admin}, NEW i \in 1..Len(b[t].rows)
        PROVE  b[t].rows[i] < m
    <3> DEFINE u == b[t].rows
    <3>1. u \in Seq(Nat) /\ u[i] < k /\ i \in 1..Len(u)
      BY <2>1, BaseFields DEF Below
    <3> HIDE DEF u
    <3>2. u[i] \in Nat
      BY <3>1
    <3>3. u[i] < m
      BY <3>1, <3>2
    <3> QED BY <3>3 DEF u
  <2> QED BY <2>1, <2>2 DEF Sound, Below
<1>2. ASSUME NEW b \in B PROVE AlignedBases(b, d)
  BY <1>1, AlignedBasesSymmetric DEF Sound
<1>3. \A b, c \in B : AlignedBases(b, c)
  BY DEF HistoryOf
<1>4. \A b \in C : b \in B \/ b = d
  OBVIOUS
<1>5. ASSUME NEW b \in C PROVE Sound(b, m)
  BY <1>1, <1>4
<1>6. ASSUME NEW b \in C, NEW c \in C PROVE AlignedBases(b, c)
  BY <1>2, <1>3, <1>4
<1> QED BY <1>5, <1>6 DEF HistoryOf

\* What the bases of a state are.
LEMMA BasesAre ==
  /\ \A n \in Node : base[n] \in Bases
  /\ \A n \in Node : tnx[n].phase # "idle" => tnx[n].new \in Bases
  /\ \A r \in requests : r.kind # "PIPEFROM" => r.new \in Bases
BY DEF Bases

\* Where those of the next state are to be found.
LEMMA BasesNext ==
  ASSUME NEW B, \A n \in Node : base'[n] \in B,
         \A n \in Node : tnx'[n].phase # "idle" => tnx'[n].new \in B,
         \A r \in requests' : r.kind # "PIPEFROM" => r.new \in B
  PROVE  Bases' \subseteq B
<1> SUFFICES ASSUME NEW b \in Bases' PROVE b \in B
  OBVIOUS
<1>1. \/ \E n \in Node : b = base'[n]
      \/ \E n \in Node : tnx'[n].phase # "idle" /\ b = tnx'[n].new
      \/ \E r \in requests' : r.kind # "PIPEFROM" /\ b = r.new
  BY DEF Bases
<1> QED BY <1>1

-----------------------------------------------------------------------------
(* The steps.                                                               *)

\* The fields of a transaction and of a request.
LEMMA TnxFields ==
  ASSUME NEW n, NEW x, TnxOK(n, x)
  PROVE  /\ x.phase \in Phases /\ x.id \in Nat /\ x.changed \in SUBSET AllTables
         /\ x.new \in AnyBase \cup {NoBase} /\ x.todo \in SUBSET Peers(n)
         /\ x.success \in Nat /\ x.resync \in SUBSET Peers(n)
         /\ x.phase # "idle" => x.new \in AnyBase /\ x.changed \subseteq DOMAIN x.new
BY DEF TnxOK

\* The same of a request.
LEMMA RequestFields ==
  ASSUME NEW r, RequestOK(r)
  PROVE  /\ r.kind \in Kinds /\ r.from \in Node \cup {NoNode} /\ r.to \in Node
         /\ r.from # r.to /\ (r.kind = "DUMP" <=> r.from = NoNode)
         /\ r.kind # "PIPEFROM" => r.new \in AnyBase /\ r.changed \subseteq DOMAIN r.new
         /\ r.kind = "REPLICATE" => Last(r) /\ r.id < next
BY DEF RequestOK

\* A service without a transaction.
LEMMA IdleOK ==
  ASSUME NEW n
  PROVE  TnxOK(n, Idle) /\ Idle.phase = "idle"
BY DEF TnxOK, Idle, Phases

\* A step that sends sound requests, or none, and makes no base but sound ones.
LEMMA StepInv ==
  ASSUME IInv, Scalars', Services', Transactions', next <= next',
         \A r \in requests' : r \in requests \/ RequestOK(r)',
         HistoryOf(Bases', next')
  PROVE  IInv'
<1>1. next \in Nat /\ next' \in Nat
  BY DEF IInv, Scalars
<1>2. ASSUME NEW r \in requests' PROVE RequestOK(r)'
  <2>1. CASE r \in requests
    <3>1. RequestOK(r)
      BY <2>1 DEF IInv, Requests
    <3>2. r.kind = "REPLICATE" => r.id < next /\ r.id \in Nat
      BY <3>1 DEF RequestOK, Last
    <3>3. r.kind = "REPLICATE" => r.id < next'
      BY <1>1, <3>2
    <3> QED BY <3>1, <3>3 DEF RequestOK
  <2> QED BY <2>1
<1> QED BY <1>2 DEF IInv, Requests

\* A transaction that hears of a peer.
HeardOf(x, p, k, R) == [x EXCEPT !.todo = @ \ {p}, !.success = @ + k, !.resync = @ \cup R]

\* It is still one, with the same changes.
LEMMA TnxHeard ==
  ASSUME NEW n, NEW x, TnxOK(n, x), NEW p \in Peers(n), NEW k \in Nat,
         NEW R \in SUBSET {p}
  PROVE  /\ TnxOK(n, HeardOf(x, p, k, R))
         /\ HeardOf(x, p, k, R).phase = x.phase /\ HeardOf(x, p, k, R).new = x.new
<1> DEFINE todo == x.todo \ {p}
           success == x.success + k
           resync == x.resync \cup R
           y == [x EXCEPT !.todo = todo, !.success = success, !.resync = resync]
<1>1. todo \in SUBSET Peers(n) /\ success \in Nat /\ resync \in SUBSET Peers(n)
  BY TnxFields
<1> HIDE DEF todo, success, resync
<1>2. TnxOK(n, y) /\ y.phase = x.phase /\ y.new = x.new
  BY <1>1, Zenon DEF TnxOK
<1> QED BY <1>2 DEF todo, success, resync, HeardOf

\* What the answer to a request changes of the transactions.
LEMMA HeardStep ==
  ASSUME IInv, NEW r \in requests, NEW success \in Nat, NEW resync \in SUBSET {r.to},
         tnx' = Heard(r, success, resync)
  PROVE  /\ Transactions'
         /\ \A n \in Node : tnx'[n].phase = tnx[n].phase /\ tnx'[n].new = tnx[n].new
<1>1. RequestOK(r) /\ tnx = [n \in Node |-> tnx[n]] /\ \A n \in Node : TnxOK(n, tnx[n])
  BY DEF IInv, Requests, Transactions
<1>2. CASE ~Waits(r)
  <2>1. tnx' = tnx
    BY <1>2 DEF Heard
  <2> QED BY <1>1, <2>1 DEF Transactions
<1>3. CASE Waits(r)
  <2>1. r.from \in Node /\ r.to \in Peers(r.from)
    BY <1>1, <1>3, RequestFields DEF Waits, Peers
  <2> DEFINE x == tnx[r.from]
             y == HeardOf(x, r.to, success, resync)
  <2>2. tnx' = [tnx EXCEPT ![r.from] = y]
    BY <1>3, Zenon DEF Heard, HeardOf
  <2>3. TnxOK(r.from, x)
    BY <1>1, <2>1
  <2> HIDE DEF x
  <2>4. TnxOK(r.from, y) /\ y.phase = x.phase /\ y.new = x.new
    BY <2>1, <2>3, TnxHeard
  <2> HIDE DEF y
  <2>5. tnx' = [n \in Node |-> IF n = r.from THEN y ELSE tnx[n]]
    BY <1>1, <2>2
  <2> QED BY <1>1, <2>4, <2>5 DEF Transactions, x
<1> QED BY <1>2, <1>3

\* One transaction changes.
LEMMA TnxStep ==
  ASSUME Transactions, NEW n \in Node, NEW y, TnxOK(n, y), tnx' = [tnx EXCEPT ![n] = y]
  PROVE  /\ Transactions' /\ tnx'[n] = y
         /\ \A m \in Node : m # n => tnx'[m] = tnx[m]
<1>1. tnx' = [m \in Node |-> IF m = n THEN y ELSE tnx[m]]
  BY DEF Transactions
<1> QED BY <1>1 DEF Transactions

\* One base changes.
LEMMA BaseStep ==
  ASSUME Services, NEW n \in Node, NEW b \in AnyBase, base' = [base EXCEPT ![n] = b]
  PROVE  Services' /\ base'[n] = b /\ \A m \in Node : m # n => base'[m] = base[m]
BY DEF Services

\* What Stop() and Fault() change.
LEMMA CountStep ==
  ASSUME Scalars, NEW k \in Nat
  PROVE  Stop(k) \/ Fault(k) => stops' \in Nat /\ faults' \in Nat
BY DEF Stop, Fault, Scalars

\* The dumps sent are sound requests when the base is.
LEMMA RestoresOK ==
  ASSUME NEW n \in Node, NEW S \in SUBSET Peers(n), NEW id \in Nat, NEW new \in AnyBase,
         NEW r \in sqlx_synchronous_resync(S, n, id, new)
  PROVE  r.new = new /\ RequestOK(r)'
<1>1. PICK s \in S : r = Request("RESTORE", n, s, id, DOMAIN new, new)
  BY DEF sqlx_synchronous_resync
<1>2. DOMAIN new \subseteq AllTables /\ n # NoNode /\ s \in Node /\ s # n
  BY BaseFields, ReplicationAssumption DEF Peers
<1> QED BY <1>1, <1>2 DEF RequestOK, Request, Kinds

\* Changed() adds the transaction at the end.
LEMMA ChangedLast ==
  ASSUME NEW b \in AnyBase, NEW S \in SUBSET DOMAIN b, NEW id \in Nat,
         NEW t \in S \ {Admin}
  PROVE  LET u == Changed(b, S, id)[t].rows IN Len(u) # 0 /\ u[Len(u)] = id
<1> DEFINE v == b[t].rows
           u == Append(v, id)
<1>1. v \in Seq(Nat)
  BY BaseFields
<1>2. Changed(b, S, id)[t].rows = u
  BY DEF Changed
<1> HIDE DEF v
<1>3. Len(v) \in Nat /\ Len(u) = Len(v) + 1 /\ u[Len(v) + 1] = id
  BY <1>1, Appended
<1> HIDE DEF u
<1>4. Len(u) # 0 /\ u[Len(u)] = id
  BY <1>3
<1> QED BY <1>2, <1>4

\* A commit: the base it leads to has a transaction no other has.
LEMMA CommitStep ==
  ASSUME IInv, NEW n \in Node, NEW S \in SUBSET DOMAIN base[n], Commit(n, S)
  PROVE  IInv'
<1> DEFINE b == base[n]
           d == Changed(b, S, next)
           to == {s \in Peers(n) : up[s]}
           y == [phase |-> "REPLICATE", id |-> next, changed |-> S, new |-> d,
                 todo |-> to, success |-> 0, resync |-> {}]
<1>1. /\ Scalars /\ Services /\ Transactions /\ HistoryOf(Bases, next)
      /\ next \in Nat /\ next # 0 /\ b \in Bases /\ Sound(b, next) /\ AlignedBases(b, b)
      /\ b \in AnyBase /\ S \in SUBSET DOMAIN b
  BY BasesAre DEF IInv, Scalars, HistoryOf, Sound
<1>2. /\ tnx' = [tnx EXCEPT ![n] = y]
      /\ requests' = requests \cup Replicates(to, n, next, S, d)
      /\ next' = next + 1
      /\ UNCHANGED <<mode, base, up, leader, acked, stops, faults>>
  BY DEF Commit
<1>3. Extends(b, d, next) /\ d \in AnyBase /\ DOMAIN d = DOMAIN b
  <2>1. Extends(b, d, next)
    BY <1>1, ChangedExtends
  <2> QED BY <2>1 DEF Extends
<1>4. \A t \in S \ {Admin} : Len(d[t].rows) # 0 /\ d[t].rows[Len(d[t].rows)] = next
  BY <1>1, ChangedLast
<1> HIDE DEF b, d, to
<1>5. HistoryOf(Bases, next + 1)
  <2>1. Bases \subseteq Bases \cup {b} /\ \A c \in Bases : AlignedBases(b, c)
    BY <1>1 DEF HistoryOf
  <2>2. Sound(b, next + 1)
    <3>1. ASSUME NEW t \in DOMAIN b \ {Admin}, NEW i \in 1..Len(b[t].rows)
          PROVE  b[t].rows[i] < next + 1
      <4> DEFINE u == b[t].rows
      <4>1. u \in Seq(Nat) /\ i \in 1..Len(u) /\ u[i] < next
        BY <1>1, BaseFields DEF Sound, Below
      <4> HIDE DEF u
      <4>2. u[i] \in Nat
        BY <4>1
      <4>3. u[i] < next + 1
        BY <1>1, <4>1, <4>2
      <4> QED BY <4>3 DEF u
    <3> QED BY <1>1, <3>1 DEF Sound, Below
  <2> QED BY <1>1, <2>1, <2>2, HistoryAdd
<1>6. Sound(d, next + 1) /\ AlignedBases(d, d)
  <2>1. Sound(b, next + 1) /\ next + 1 \in Nat /\ next < next + 1
    BY <1>1, <1>5 DEF HistoryOf
  <2> QED BY <1>1, <1>3, <2>1, ExtendsSound
<1>7. ASSUME NEW c \in Bases PROVE AlignedBases(d, c)
  <2>1. Sound(c, next) /\ c \in AnyBase /\ AlignedBases(b, c)
    BY <1>1 DEF HistoryOf, Sound
  <2>2. Agrees(b, d, c, next)
    <3>1. ASSUME NEW t \in DOMAIN c \ {Admin}, NEW j \in 1..Len(c[t].rows)
          PROVE  c[t].rows[j] # next
      <4>1. c[t].rows[j] < next
        BY <2>1 DEF Sound, Below
      <4> QED BY <1>1, <4>1
    <3> QED BY <3>1 DEF Agrees
  <2> QED BY <1>1, <1>3, <2>1, <2>2, ExtendsAligned
<1>8. TnxOK(n, y)
  <2>1. to \in SUBSET Peers(n) /\ S \in SUBSET AllTables /\ S \subseteq DOMAIN d
    BY <1>1, <1>3, BaseFields DEF to
  <2> QED BY <1>1, <1>3, <2>1 DEF TnxOK, Phases
<1>9. Transactions' /\ tnx'[n] = y /\ \A m \in Node : m # n => tnx'[m] = tnx[m]
  BY <1>1, <1>2, <1>8, TnxStep, Zenon
<1>10. ASSUME NEW r \in requests', r \notin requests
       PROVE  RequestOK(r)' /\ r.new = d
  <2>1. r \in Replicates(to, n, next, S, d) /\ to \in SUBSET Peers(n)
    BY <1>2, <1>10 DEF to
  <2>2. S \in SUBSET DOMAIN d
    BY <1>1, <1>3
  <2>3. /\ r.new = d /\ r.kind = "REPLICATE" /\ r.changed = S /\ r.id = next
        /\ r \in [kind : Kinds, from : Node \cup {NoNode}, to : Node, id : Nat,
                  changed : SUBSET AllTables, new : AnyBase \cup {NoBase}]
        /\ r.from # r.to /\ r.from # NoNode
    <3>1. PICK s \in to : r = Request("REPLICATE", n, s, next, S, d)
      BY <2>1 DEF Replicates
    <3>2. s \in Node /\ s # n /\ n # NoNode /\ S \subseteq AllTables
      BY <1>1, <2>1, BaseFields, ReplicationAssumption DEF Peers
    <3> QED BY <1>1, <1>3, <3>1, <3>2 DEF Request, Kinds
  <2>4. Last(r)
    BY <1>1, <1>3, <1>4, <2>2, <2>3 DEF Last
  <2>5. r.id < next'
    <3>1. r.id = next
      BY <2>3
    <3>2. next' = next + 1
      BY <1>2
    <3>3. next \in Nat
      BY <1>1
    <3> QED BY <3>1, <3>2, <3>3
  <2> QED BY <1>3, <2>2, <2>3, <2>4, <2>5 DEF RequestOK
<1>11. Bases' \subseteq Bases \cup {d}
  <2>1. \A m \in Node : base'[m] \in Bases
    BY <1>2, BasesAre
  <2>2. ASSUME NEW m \in Node, tnx'[m].phase # "idle" PROVE tnx'[m].new \in Bases \cup {d}
    BY <1>9, <2>2, BasesAre
  <2>3. ASSUME NEW r \in requests', r.kind # "PIPEFROM" PROVE r.new \in Bases \cup {d}
    BY <1>10, <2>3, BasesAre
  <2> QED BY <2>1, <2>2, <2>3, BasesNext, Zenon
<1>12. HistoryOf(Bases', next + 1)
  <2>1. next + 1 \in Nat /\ next <= next + 1
    BY <1>1
  <2> QED BY <1>1, <1>6, <1>7, <1>11, <2>1, HistoryAdd
<1>13. Scalars' /\ Services' /\ next <= next'
  BY <1>1, <1>2 DEF Scalars, Services
<1> QED BY <1>2, <1>9, <1>10, <1>12, <1>13, StepInv

\* A huge commit: so has the base of the master, at once.
LEMMA CommitHugeStep ==
  ASSUME IInv, NEW n \in Node, NEW T \in SUBSET Created, CommitHuge(n, T)
  PROVE  IInv'
<1> DEFINE b == base[n]
           d == Huge(b, T, next)
<1>1. /\ Scalars /\ Services /\ Transactions /\ HistoryOf(Bases, next)
      /\ next \in Nat /\ next # 0 /\ b \in Bases /\ Sound(b, next) /\ AlignedBases(b, b)
      /\ b \in AnyBase
  BY BasesAre DEF IInv, Scalars, HistoryOf, Sound
<1>2. PICK found \in BOOLEAN :
        LET to == {s \in Peers(n) : found /\ up[s]}
        IN  /\ Fault(2 * If(~found))
            /\ base' = [base EXCEPT ![n] = d]
            /\ tnx' = [tnx EXCEPT ![n] =
                 [phase |-> "RESTORE", id |-> next, changed |-> DOMAIN d, new |-> d,
                  todo |-> to, success |-> 0, resync |-> {}]]
            /\ requests' = requests \cup sqlx_synchronous_resync(to, n, next, d)
  BY Zenon DEF CommitHuge
<1> DEFINE to == {s \in Peers(n) : found /\ up[s]}
           y == [phase |-> "RESTORE", id |-> next, changed |-> DOMAIN d, new |-> d,
                 todo |-> to, success |-> 0, resync |-> {}]
<1>3. next' = next + 1 /\ UNCHANGED <<mode, up, leader, acked>>
  BY DEF CommitHuge
<1>4. /\ Sound(d, next + 1) /\ AlignedBases(d, d)
      /\ \A c : Sound(c, next) /\ AlignedBases(b, c) => AlignedBases(d, c)
  BY <1>1, HugeSound
<1> HIDE DEF b, d
<1>5. d \in AnyBase /\ \A c \in Bases : AlignedBases(d, c)
  BY <1>1, <1>4 DEF HistoryOf, Sound
<1>6. to \in SUBSET Peers(n)
  OBVIOUS
<1>7. base' = [base EXCEPT ![n] = d] /\ tnx' = [tnx EXCEPT ![n] = y]
      /\ requests' = requests \cup sqlx_synchronous_resync(to, n, next, d)
  BY <1>2, Zenon
<1> HIDE DEF to
<1>8. TnxOK(n, y)
  <2>1. DOMAIN d \in SUBSET AllTables
    BY <1>5, BaseFields
  <2> QED BY <1>1, <1>5, <1>6, <2>1, Zenon DEF TnxOK, Phases
<1>9. Transactions' /\ tnx'[n] = y /\ \A m \in Node : m # n => tnx'[m] = tnx[m]
  BY <1>1, <1>7, <1>8, TnxStep, Zenon
<1>10. Services' /\ base'[n] = d /\ \A m \in Node : m # n => base'[m] = base[m]
  BY <1>1, <1>5, <1>7, BaseStep, Zenon
<1>11. ASSUME NEW r \in requests', r \notin requests
       PROVE  RequestOK(r)' /\ r.new = d
  <2>1. r \in sqlx_synchronous_resync(to, n, next, d)
    BY <1>7, <1>11
  <2> QED BY <1>1, <1>5, <1>6, <2>1, RestoresOK
<1>12. Bases' \subseteq Bases \cup {d}
  <2>1. ASSUME NEW m \in Node PROVE base'[m] \in Bases \cup {d}
    BY <1>10, BasesAre
  <2>2. ASSUME NEW m \in Node, tnx'[m].phase # "idle" PROVE tnx'[m].new \in Bases \cup {d}
    BY <1>9, <2>2, BasesAre
  <2>3. ASSUME NEW r \in requests', r.kind # "PIPEFROM" PROVE r.new \in Bases \cup {d}
    BY <1>11, <2>3, BasesAre
  <2> QED BY <2>1, <2>2, <2>3, BasesNext, Zenon
<1>13. next + 1 \in Nat /\ next <= next + 1
  BY <1>1
<1>14. HistoryOf(Bases', next + 1)
  BY <1>1, <1>4, <1>5, <1>12, <1>13, HistoryAdd
<1>15. Scalars'
  <2>1. Fault(2 * If(~found)) /\ 2 * If(~found) \in Nat
    BY <1>2 DEF If
  <2> QED BY <1>1, <1>3, <2>1, CountStep DEF Scalars
<1> QED BY <1>3, <1>9, <1>10, <1>11, <1>13, <1>14, <1>15, StepInv, Zenon

\* A slave applies the rows, or does not.
LEMMA ReplicateStep ==
  ASSUME IInv, NEW r \in requests, Replicate(r)
  PROVE  IInv'
<1> DEFINE n == r.to
           b == base[n]
           d == replicate_body_manage(b, r)
<1>1. /\ Scalars /\ Services /\ RequestOK(r) /\ HistoryOf(Bases, next) /\ next \in Nat
      /\ \A q \in requests : q.kind # "PIPEFROM" => q.new \in Bases
  BY BasesAre DEF IInv, Scalars, Requests
<1>2. /\ r.kind = "REPLICATE" /\ base' = [base EXCEPT ![n] = d]
      /\ requests' = requests \ {r}
      /\ UNCHANGED <<mode, up, leader, next, acked, stops, faults>>
  BY DEF Replicate
<1>3. n \in Node /\ Last(r) /\ r.id < next /\ r.new \in Bases /\ r.id \in Nat
  BY <1>1, <1>2, RequestFields DEF Last
<1>4. /\ b \in Bases /\ Sound(b, next) /\ AlignedBases(b, b) /\ b \in AnyBase
      /\ Counted(b) /\ Counted(r.new) /\ AlignedBases(b, r.new)
  BY <1>1, <1>3, BasesAre DEF HistoryOf, Sound
<1> HIDE DEF n, b
<1>5. Sound(d, next) /\ AlignedBases(d, d) /\ \A c \in Bases : AlignedBases(d, c)
  <2>1. CASE ~Accepts(b, r)
    <3>1. d = b
      BY <2>1 DEF replicate_body_manage
    <3> QED BY <1>1, <1>4, <3>1 DEF HistoryOf
  <2>2. CASE Accepts(b, r)
    <3>1. d = Applied(b, r)
      BY <2>2 DEF replicate_body_manage
    <3> HIDE DEF d
    <3>2. /\ Extends(b, d, r.id)
          /\ \A c \in AnyBase : AlignedBases(r.new, c) => Agrees(b, d, c, r.id)
      BY <1>3, <1>4, <2>2, <3>1, AppliedExtends
    <3>3. Sound(d, next) /\ AlignedBases(d, d)
      BY <1>1, <1>3, <1>4, <3>2, ExtendsSound
    <3>4. ASSUME NEW c \in Bases PROVE AlignedBases(d, c)
      <4>1. c \in AnyBase /\ AlignedBases(b, c) /\ AlignedBases(r.new, c)
        BY <1>1, <1>3, <1>4 DEF HistoryOf, Sound
      <4>2. Agrees(b, d, c, r.id)
        BY <3>2, <4>1
      <4> QED BY <1>3, <1>4, <3>2, <4>1, <4>2, ExtendsAligned
    <3> QED BY <3>3, <3>4
  <2> QED BY <2>1, <2>2
<1>6. d \in AnyBase
  BY <1>5 DEF Sound
<1> HIDE DEF d
<1>7. Services' /\ base'[n] = d /\ \A m \in Node : m # n => base'[m] = base[m]
  BY <1>1, <1>2, <1>3, <1>6, BaseStep, Zenon
<1>8. /\ Transactions'
      /\ \A m \in Node : tnx'[m].phase = tnx[m].phase /\ tnx'[m].new = tnx[m].new
  <2> DEFINE R == IF Accepts(base[r.to], r) THEN {} ELSE {r.to}
  <2>1. tnx' = Heard(r, 1, R) /\ R \in SUBSET {r.to} /\ 1 \in Nat
    BY DEF Replicate
  <2> HIDE DEF R
  <2> QED BY <2>1, HeardStep
<1>9. Bases' \subseteq Bases \cup {d}
  <2>1. ASSUME NEW m \in Node PROVE base'[m] \in Bases \cup {d}
    BY <1>7, BasesAre
  <2>2. ASSUME NEW m \in Node, tnx'[m].phase # "idle" PROVE tnx'[m].new \in Bases \cup {d}
    BY <1>8, <2>2, BasesAre
  <2>3. ASSUME NEW q \in requests', q.kind # "PIPEFROM" PROVE q.new \in Bases \cup {d}
    BY <1>2, <2>3, BasesAre
  <2> QED BY <2>1, <2>2, <2>3, BasesNext, Zenon
<1>10. HistoryOf(Bases', next)
  <2>1. next <= next
    BY <1>1
  <2> QED BY <1>1, <1>5, <1>9, <2>1, HistoryAdd
<1>11. Scalars' /\ next <= next' /\ \A q \in requests' : q \in requests
  BY <1>1, <1>2 DEF Scalars
<1> QED BY <1>2, <1>7, <1>8, <1>10, <1>11, StepInv

\* A step that makes no base.
LEMMA SameStep ==
  ASSUME IInv, Scalars', Services', Transactions', next' = next,
         \A n \in Node : base'[n] \in Bases,
         \A n \in Node : tnx'[n].phase # "idle" => tnx'[n].new \in Bases,
         \A r \in requests' :
           (r \in requests \/ RequestOK(r)') /\ (r.kind # "PIPEFROM" => r.new \in Bases)
  PROVE  IInv'
<1>1. Bases' \subseteq Bases
  BY BasesNext
<1>2. next \in Nat /\ HistoryOf(Bases, next)
  BY DEF IInv, Scalars
<1>3. HistoryOf(Bases', next') /\ next <= next'
  BY <1>1, <1>2, HistorySame
<1> QED BY <1>3, StepInv

\* A dump replaces a base.
LEMMA RestoreStep ==
  ASSUME IInv, NEW r \in requests, Restore(r)
  PROVE  IInv'
<1>1. Scalars /\ Services /\ RequestOK(r)
  BY DEF IInv, Requests
<1>2. /\ r.kind # "PIPEFROM" /\ base' = [base EXCEPT ![r.to] = r.new]
      /\ requests' = requests \ {r} /\ tnx' = Heard(r, 0, {})
      /\ Fault(2 * If(r.kind = "RESTORE" /\ r.from # leader))
      /\ UNCHANGED <<mode, up, leader, next, acked>>
  BY DEF Restore
<1>3. r.to \in Node /\ r.new \in AnyBase /\ r.new \in Bases
  BY <1>1, <1>2, RequestFields, BasesAre, Zenon
<1>4. Services' /\ base'[r.to] = r.new /\ \A m \in Node : m # r.to => base'[m] = base[m]
  BY <1>1, <1>2, <1>3, BaseStep, Zenon
<1>5. /\ Transactions'
      /\ \A m \in Node : tnx'[m].phase = tnx[m].phase /\ tnx'[m].new = tnx[m].new
  <2>1. 0 \in Nat /\ {} \in SUBSET {r.to}
    OBVIOUS
  <2> QED BY <1>2, <2>1, HeardStep
<1>6. Scalars'
  <2>1. 2 * If(r.kind = "RESTORE" /\ r.from # leader) \in Nat
    BY DEF If
  <2> QED BY <1>1, <1>2, <2>1, CountStep DEF Scalars
<1>7. \A n \in Node : base'[n] \in Bases
  BY <1>3, <1>4, BasesAre
<1>8. \A n \in Node : tnx'[n].phase # "idle" => tnx'[n].new \in Bases
  BY <1>5, BasesAre
<1>9. \A q \in requests' : q \in requests /\ (q.kind # "PIPEFROM" => q.new \in Bases)
  BY <1>2, BasesAre
<1> QED BY <1>2, <1>4, <1>5, <1>6, <1>7, <1>8, <1>9, SameStep

\* A request is lost, or answered too late.
LEMMA LostStep ==
  ASSUME IInv, NEW r \in requests, RequestFailed(r) \/ Timeout(r)
  PROVE  IInv'
<1>1. Scalars /\ Services
  BY DEF IInv
<1>2. /\ Fault(If(Waits(r) /\ Free(r.to))) \/ Fault(If(Free(r.to)))
      /\ requests' \subseteq requests /\ tnx' = Heard(r, 0, {})
      /\ UNCHANGED <<mode, base, up, leader, next, acked>>
  BY DEF RequestFailed, Timeout
<1>3. /\ Transactions'
      /\ \A m \in Node : tnx'[m].phase = tnx[m].phase /\ tnx'[m].new = tnx[m].new
  <2>1. 0 \in Nat /\ {} \in SUBSET {r.to}
    OBVIOUS
  <2> QED BY <1>2, <2>1, HeardStep
<1>4. Scalars'
  <2>1. If(Waits(r) /\ Free(r.to)) \in Nat /\ If(Free(r.to)) \in Nat
    BY DEF If
  <2> QED BY <1>1, <1>2, <2>1, CountStep DEF Scalars
<1>5. Services'
  BY <1>1, <1>2 DEF Services
<1>6. \A n \in Node : base'[n] \in Bases
  BY <1>2, BasesAre
<1>7. \A n \in Node : tnx'[n].phase # "idle" => tnx'[n].new \in Bases
  BY <1>3, BasesAre
<1>8. \A q \in requests' : q \in requests /\ (q.kind # "PIPEFROM" => q.new \in Bases)
  BY <1>2, BasesAre
<1> QED BY <1>2, <1>3, <1>4, <1>5, <1>6, <1>7, <1>8, SameStep

\* The COMMIT of the master goes on, or is aborted.
LEMMA EndReplicateStep ==
  ASSUME IInv, NEW n \in Node, EndReplicate(n)
  PROVE  IInv'
<1> DEFINE x == tnx[n]
           to == {s \in x.resync : up[s]}
           y == [x EXCEPT !.phase = "RESTORE", !.todo = to, !.resync = {}]
<1>1. Scalars /\ Services /\ Transactions /\ TnxOK(n, x)
  BY DEF IInv, Transactions
<1>2. x.phase = "REPLICATE" /\ UNCHANGED <<mode, up, leader, next, acked, stops, faults>>
  BY DEF EndReplicate
<1>3. x.new \in AnyBase /\ x.new \in Bases /\ to \in SUBSET Peers(n) /\ x.id \in Nat
  BY <1>1, <1>2, TnxFields, BasesAre
<1>4. Scalars'
  BY <1>1, <1>2 DEF Scalars
<1>5. CASE /\ base' = [base EXCEPT ![n] = x.new]
           /\ tnx' = [tnx EXCEPT ![n] = y]
           /\ requests' = requests \cup sqlx_synchronous_resync(to, n, x.id, x.new)
  <2> HIDE DEF x, to
  <2>1. TnxOK(n, y) /\ y.new = x.new
    BY <1>1, <1>2, <1>3, Zenon DEF TnxOK, Phases
  <2> HIDE DEF y
  <2>2. Transactions' /\ tnx'[n] = y /\ \A m \in Node : m # n => tnx'[m] = tnx[m]
    BY <1>1, <1>5, <2>1, TnxStep, Zenon
  <2>3. Services' /\ base'[n] = x.new /\ \A m \in Node : m # n => base'[m] = base[m]
    BY <1>1, <1>3, <1>5, BaseStep, Zenon
  <2>4. ASSUME NEW r \in requests'
        PROVE  /\ r \in requests \/ RequestOK(r)'
               /\ r.kind # "PIPEFROM" => r.new \in Bases
    <3>1. CASE r \in requests
      BY <3>1, BasesAre
    <3>2. CASE r \in sqlx_synchronous_resync(to, n, x.id, x.new)
      BY <1>3, <3>2, RestoresOK
    <3> QED BY <1>5, <3>1, <3>2
  <2>5. \A m \in Node : base'[m] \in Bases
    BY <1>3, <2>3, BasesAre
  <2>6. \A m \in Node : tnx'[m].phase # "idle" => tnx'[m].new \in Bases
    BY <1>3, <2>1, <2>2, BasesAre
  <2> QED BY <1>2, <1>4, <2>2, <2>3, <2>4, <2>5, <2>6, SameStep
<1>6. CASE tnx' = [tnx EXCEPT ![n] = Idle] /\ UNCHANGED <<base, requests>>
  <2>1. /\ Transactions' /\ tnx'[n].phase = "idle"
        /\ \A m \in Node : m # n => tnx'[m] = tnx[m]
    BY <1>1, <1>6, IdleOK, TnxStep, Zenon
  <2>2. Services' /\ \A m \in Node : base'[m] \in Bases
    BY <1>1, <1>6, BasesAre DEF Services
  <2>3. \A m \in Node : tnx'[m].phase # "idle" => tnx'[m].new \in Bases
    BY <2>1, BasesAre
  <2>4. \A r \in requests' : r \in requests /\ (r.kind # "PIPEFROM" => r.new \in Bases)
    BY <1>6, BasesAre
  <2> QED BY <1>2, <1>4, <2>1, <2>2, <2>3, <2>4, SameStep
<1>7. \/ /\ base' = [base EXCEPT ![n] = x.new]
         /\ tnx' = [tnx EXCEPT ![n] = y]
         /\ requests' = requests \cup sqlx_synchronous_resync(to, n, x.id, x.new)
      \/ tnx' = [tnx EXCEPT ![n] = Idle] /\ UNCHANGED <<base, requests>>
  BY DEF EndReplicate
<1> QED BY <1>5, <1>6, <1>7

\* The client is answered.
LEMMA AnsweredStep ==
  ASSUME IInv, NEW n \in Node, Answered(n)
  PROVE  IInv'
<1>1. Scalars /\ Services /\ Transactions
  BY DEF IInv
<1>2. /\ tnx' = [tnx EXCEPT ![n] = Idle]
      /\ UNCHANGED <<mode, base, up, leader, requests, next, stops, faults>>
  BY DEF Answered
<1>3. /\ Transactions' /\ tnx'[n].phase = "idle"
      /\ \A m \in Node : m # n => tnx'[m] = tnx[m]
  BY <1>1, <1>2, IdleOK, TnxStep, Zenon
<1>4. Scalars' /\ Services'
  BY <1>1, <1>2 DEF Scalars, Services
<1>5. \A m \in Node : base'[m] \in Bases
  BY <1>2, BasesAre
<1>6. \A m \in Node : tnx'[m].phase # "idle" => tnx'[m].new \in Bases
  BY <1>3, BasesAre
<1>7. \A r \in requests' : r \in requests /\ (r.kind # "PIPEFROM" => r.new \in Bases)
  BY <1>2, BasesAre
<1> QED BY <1>2, <1>3, <1>4, <1>5, <1>6, <1>7, SameStep

\* A step that changes no base and no transaction.
LEMMA QuietStep ==
  ASSUME IInv, Scalars', UNCHANGED <<base, tnx, next>>,
         \A r \in requests' :
           (r \in requests \/ RequestOK(r)') /\ (r.kind # "PIPEFROM" => r.new \in Bases)
  PROVE  IInv'
<1>1. Services' /\ Transactions'
  BY DEF IInv, Services, Transactions
<1>2. \A m \in Node : base'[m] \in Bases
  BY BasesAre
<1>3. \A m \in Node : tnx'[m].phase # "idle" => tnx'[m].new \in Bases
  BY BasesAre
<1> QED BY <1>1, <1>2, <1>3, SameStep

\* A master is elected.
LEMMA ElectStep ==
  ASSUME IInv, NEW n \in Node, Elect(n)
  PROVE  IInv'
<1>1. Scalars
  BY DEF IInv
<1>2. leader' = n /\ UNCHANGED <<mode, base, up, tnx, requests, next, acked>>
  BY DEF Elect
<1>3. PICK silent \in SUBSET Peers(n) :
        LET concurrent == {p \in Peers(n) \ silent : Getvers(n, p) = "CONCURRENT"}
        IN  Fault(If(\E p \in silent : Free(p)) + If(Piping(n) # {})
                    + Cardinality(concurrent))
  BY Zenon DEF Elect
<1> DEFINE concurrent == {p \in Peers(n) \ silent : Getvers(n, p) = "CONCURRENT"}
           k1 == If(\E p \in silent : Free(p))
           k2 == If(Piping(n) # {})
           k3 == Cardinality(concurrent)
           k == k1 + k2 + k3
<1>4. k3 \in Nat
  <2>1. concurrent \subseteq Node /\ IsFiniteSet(Node)
    BY ReplicationAssumption DEF Peers
  <2> HIDE DEF concurrent
  <2> QED BY <2>1, FS_Subset, FS_CardinalityType
<1>5. k1 \in Nat /\ k2 \in Nat
  BY DEF If
<1>6. Fault(k)
  BY <1>3, Zenon
<1> HIDE DEF k1, k2, k3
<1>7. k \in Nat
  BY <1>4, <1>5
<1> HIDE DEF k
<1>8. Scalars'
  BY <1>1, <1>2, <1>6, <1>7, CountStep DEF Scalars
<1>9. \A r \in requests' : r \in requests /\ (r.kind # "PIPEFROM" => r.new \in Bases)
  BY <1>2, BasesAre
<1> QED BY <1>2, <1>8, <1>9, QuietStep

\* A member asks for a dump.
LEMMA PipeFromStep ==
  ASSUME IInv, NEW n \in Node, NEW m \in Node, PipeFrom(n, m)
  PROVE  IInv'
<1> DEFINE q == Request("PIPEFROM", m, n, 0, {}, NoBase)
<1>1. Scalars
  BY DEF IInv
<1>2. /\ n # m /\ Fault(1) /\ requests' = requests \cup {q}
      /\ UNCHANGED <<mode, base, up, leader, tnx, next, acked>>
  BY DEF PipeFrom
<1>3. Scalars'
  BY <1>1, <1>2, CountStep DEF Scalars
<1>4. q.kind = "PIPEFROM" /\ RequestOK(q)'
  BY <1>2, ReplicationAssumption, Zenon DEF RequestOK, Request, Kinds
<1> HIDE DEF q
<1>5. \A r \in requests' :
        (r \in requests \/ RequestOK(r)') /\ (r.kind # "PIPEFROM" => r.new \in Bases)
  BY <1>2, <1>4, BasesAre
<1> QED BY <1>2, <1>3, <1>5, QuietStep

\* A dump that waits to be restored.
LEMMA DumpOK ==
  ASSUME NEW b \in AnyBase, NEW n \in Node, NEW q,
         q = Request("DUMP", NoNode, n, 0, {}, b)
  PROVE  q.new = b /\ RequestOK(q)'
BY ReplicationAssumption DEF RequestOK, Request, Kinds

\* The source makes it.
LEMMA DumpStep ==
  ASSUME IInv, NEW r \in requests, Dump(r)
  PROVE  IInv'
<1>1. Scalars /\ Services /\ RequestOK(r)
  BY DEF IInv, Requests
<1>2. r.from \in Node /\ r.to \in Node
  BY <1>1, RequestFields DEF Dump
<1>3. /\ requests' = (requests \ {r}) \cup
                       {Request("DUMP", NoNode, r.to, 0, {}, base[r.from])}
      /\ UNCHANGED <<mode, base, up, leader, tnx, next, acked, stops, faults>>
  BY DEF Dump
<1>4. base[r.from] \in Bases /\ base[r.from] \in AnyBase
  BY <1>1, <1>2, BasesAre DEF Services
<1>5. Scalars'
  BY <1>1, <1>3 DEF Scalars
<1>6. ASSUME NEW q \in requests'
      PROVE  (q \in requests \/ RequestOK(q)') /\ (q.kind # "PIPEFROM" => q.new \in Bases)
  <2>1. CASE q \in requests
    BY <2>1, BasesAre
  <2>2. CASE q = Request("DUMP", NoNode, r.to, 0, {}, base[r.from])
    <3>1. q.new = base[r.from] /\ RequestOK(q)'
      BY <1>2, <1>4, <2>2, DumpOK
    <3> QED BY <1>4, <3>1
  <2> QED BY <1>3, <2>1, <2>2
<1> QED BY <1>3, <1>5, <1>6, QuietStep

\* A service stops.
LEMMA CrashStep ==
  ASSUME IInv, NEW n \in Node, Crash(n)
  PROVE  IInv'
<1>1. Scalars /\ Services /\ \A m \in Node : TnxOK(m, tnx[m])
  BY DEF IInv, Transactions
<1>2. /\ Stop(1) /\ requests' \subseteq requests /\ up' = [up EXCEPT ![n] = FALSE]
      /\ tnx' = [m \in Node |-> IF m = n THEN Idle ELSE [tnx[m] EXCEPT !.todo = @ \ {n}]]
      /\ leader' \in {NoNode, leader} /\ UNCHANGED <<mode, base, next, acked>>
  BY DEF Crash
<1>3. Scalars'
  BY <1>1, <1>2, CountStep DEF Scalars
<1>4. ASSUME NEW m \in Node
      PROVE  /\ TnxOK(m, tnx'[m])
             /\ tnx'[m].phase # "idle" => tnx'[m].new \in Bases
  <2>1. CASE m = n
    BY <1>2, <2>1, IdleOK
  <2>2. CASE m # n
    <3> DEFINE x == tnx[m]
               todo == x.todo \ {n}
               y == [x EXCEPT !.todo = todo]
    <3>1. tnx'[m] = y
      BY <1>2, <2>2
    <3>2. TnxOK(m, x) /\ todo \in SUBSET Peers(m)
      BY <1>1, TnxFields
    <3>3. x.phase # "idle" => x.new \in Bases
      BY BasesAre
    <3> HIDE DEF x, todo
    <3>4. TnxOK(m, y) /\ y.phase = x.phase /\ y.new = x.new
      BY <3>2 DEF TnxOK
    <3> HIDE DEF y
    <3> QED BY <3>1, <3>3, <3>4
  <2> QED BY <2>1, <2>2
<1>5. tnx' = [m \in Node |-> tnx'[m]]
  BY <1>2
<1>6. Transactions'
  BY <1>4, <1>5 DEF Transactions
<1>7. Services' /\ \A m \in Node : base'[m] \in Bases
  BY <1>1, <1>2, BasesAre DEF Services
<1>8. \A r \in requests' : r \in requests /\ (r.kind # "PIPEFROM" => r.new \in Bases)
  BY <1>2, BasesAre
<1> QED BY <1>2, <1>3, <1>4, <1>6, <1>7, <1>8, SameStep, Zenon

\* A service restarts, or the master leaves, or nothing happens.
LEMMA RestartStep ==
  ASSUME IInv, (\E n \in Node : Restart(n) \/ Exit(n)) \/ UNCHANGED vars
  PROVE  IInv'
<1>1. Scalars
  BY DEF IInv
<1>2. UNCHANGED <<base, tnx, next, requests, mode>>
  BY DEF Restart, Exit, vars
<1>3. up' \in [Node -> BOOLEAN] /\ leader' \in Node \cup {NoNode}
  BY <1>1, Zenon DEF Scalars, Restart, Exit, vars
<1>4. stops' \in Nat /\ faults' \in Nat
  BY <1>1 DEF Scalars, Restart, Exit, Stop, vars
<1>5. Scalars'
  BY <1>1, <1>2, <1>3, <1>4 DEF Scalars
<1>6. \A r \in requests' : r \in requests /\ (r.kind # "PIPEFROM" => r.new \in Bases)
  BY <1>2, BasesAre
<1> QED BY <1>2, <1>5, <1>6, QuietStep

-----------------------------------------------------------------------------
(* The theorems.                                                            *)

\* The bases are all alike to begin with.
LEMMA InitIInv ==
  ASSUME Init
  PROVE  IInv
<1> DEFINE D == Table \cup {Admin}
           b == [t \in D |-> NewTable]
<1>1. NewTable \in Entry /\ NewTable.version = 1 /\ NewTable.rows = <<>>
  BY DEF NewTable, Entry
<1>2. D \in SUBSET AllTables /\ b \in [D -> Entry]
  BY <1>1 DEF AllTables
<1>3. b \in AnyBase /\ DOMAIN b = D /\ \A t \in D : b[t] = NewTable
  BY <1>2, BaseMade
<1>4. base = [n \in Node |-> b] /\ tnx = [n \in Node |-> Idle] /\ requests = {} /\ next = 1
  BY DEF Init
<1> HIDE DEF D, b
<1>5. Sound(b, 1) /\ AlignedBases(b, b)
  BY <1>1, <1>3 DEF Sound, Counted, Below, AlignedBases, Aligned
<1>6. Bases \subseteq {b}
  BY <1>4, IdleOK DEF Bases
<1>7. HistoryOf(Bases, next)
  <2>1. \A c \in Bases : c = b
    BY <1>6
  <2> QED BY <1>4, <1>5, <2>1 DEF HistoryOf
<1>8. Scalars
  BY DEF Scalars, Init
<1>9. Services /\ Requests
  BY <1>3, <1>4 DEF Services, Requests
<1>10. Transactions
  BY <1>4, IdleOK DEF Transactions
<1> QED BY <1>7, <1>8, <1>9, <1>10 DEF IInv

\* Every step keeps the invariant.
LEMMA NextIInv ==
  ASSUME IInv, [Next]_vars
  PROVE  IInv'
<1>1. CASE UNCHANGED vars
  BY <1>1, RestartStep
<1>2. ASSUME NEW n \in Node, NEW S \in ChangeSets, S \subseteq DOMAIN base[n], Commit(n, S)
      PROVE  IInv'
  BY <1>2, CommitStep
<1>3. ASSUME NEW n \in Node, NEW T \in SUBSET Created, CommitHuge(n, T) PROVE IInv'
  BY <1>3, CommitHugeStep
<1>4. ASSUME NEW n \in Node, EndReplicate(n) PROVE IInv'
  BY <1>4, EndReplicateStep
<1>5. ASSUME NEW n \in Node, Answered(n) PROVE IInv'
  BY <1>5, AnsweredStep
<1>6. ASSUME NEW n \in Node, Elect(n) PROVE IInv'
  BY <1>6, ElectStep
<1>7. ASSUME NEW n \in Node, NEW m \in Node, PipeFrom(n, m) PROVE IInv'
  BY <1>7, PipeFromStep
<1>8. ASSUME NEW n \in Node, Crash(n) PROVE IInv'
  BY <1>8, CrashStep
<1>9. ASSUME NEW n \in Node, Restart(n) \/ Exit(n) PROVE IInv'
  BY <1>9, RestartStep
<1>10. ASSUME NEW r \in requests, Replicate(r) PROVE IInv'
  BY <1>10, ReplicateStep
<1>11. ASSUME NEW r \in requests, Restore(r) PROVE IInv'
  BY <1>11, RestoreStep
<1>12. ASSUME NEW r \in requests, Dump(r) PROVE IInv'
  BY <1>12, DumpStep
<1>13. ASSUME NEW r \in requests, RequestFailed(r) \/ Timeout(r) PROVE IInv'
  BY <1>13, LostStep
<1> QED
  BY <1>1, <1>2, <1>3, <1>4, <1>5, <1>6, <1>7, <1>8, <1>9, <1>10, <1>11, <1>12, <1>13
     DEF Next

\* The invariant always holds.
LEMMA AlwaysIInv == Spec => []IInv
<1>1. Init => IInv
  BY InitIInv
<1>2. IInv /\ [Next]_vars => IInv'
  BY NextIInv
<1> QED BY <1>1, <1>2, PTL DEF Spec

\* The types of the replication, for any group and any schema: no service sends a
\* REPLICATE or a dump to itself, or waits for itself (hook_commit()).
THEOREM ReplicationTypeOK == Spec => []TypeOK
<1>1. IInv => TypeOK
  BY IInvImplies
<1> QED BY <1>1, AlwaysIInv, PTL

\* The version of a table counts the changes made to it, in every base, dump and
\* transaction, whatever is lost, late or crashes (context_pending_inc_versions(),
\* replicate_body_manage()).
THEOREM ReplicationVersionsCount == Spec => []VersionsCount
<1>1. IInv => VersionsCount
  BY IInvImplies
<1> QED BY <1>1, AlwaysIInv, PTL

\* A transaction is at the same place of the history of a table wherever it is
\* applied, and is applied there once (replicate_body_manage()).
THEOREM ReplicationSamePlace == Spec => []SamePlace
<1>1. IInv => SamePlace
  BY IInvImplies
<1> QED BY <1>1, AlwaysIInv, PTL
=============================================================================
