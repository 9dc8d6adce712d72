----------------------------- MODULE AuditProofs -----------------------------
(***************************************************************************)
(* Proofs about AuditChain (the hash chain, its purge and its              *)
(* verification) and AuditQuota (the gates every audited write passes).    *)
(* Each module gets one inductive invariant, a lemma that every step keeps *)
(* it, and the theorems that follow from it.                               *)
(***************************************************************************)
EXTENDS AuditChain, AuditQuota, WellFoundedInduction, TLAPS

-----------------------------------------------------------------------------
(* AuditChain: the strengthening of ChainSafe, of the log and of a           *)
(* verification.                                                             *)

\* The states of a writer's transaction and of the retention job.
TxStates == [at : {"open", "locked"}, start : 0 .. MaxTime, prev : 0 .. MaxSeq]
PurgeStates == [at : {"read", "deleted"}, start : 0 .. MaxTime,
                cutoff : 0 .. MaxTime, gap : 0 .. MaxSeq,
                deleted : SUBSET RowType, all : BOOLEAN]

\* The transactions are in one of their states and started in the past; the
\* advisory lock belongs to the writer that read the head.
ChainWorkOK ==
  /\ tx \in [Writers -> TxStates \cup {NoWrite}]
  /\ purge \in PurgeStates \cup {NoWrite}
  /\ \A w \in Writers : tx[w].at = "locked" <=> holder = w
  /\ \A w \in Writers : tx[w] # NoWrite => tx[w].start <= now
  /\ purge # NoWrite => purge.start <= now /\ purge.gap < next

\* chain_seq is a key: no two rows share one, and the sequence is past them all.
SeqIsKey ==
  /\ \A r \in chain : r.seq < next /\ r.created <= newest
  /\ \A r, s \in chain : r.seq = s.seq => r = s

\* A row points at or behind every earlier row that is present: what it was
\* chained onto was the tail.  This holds also when rows are gone.
LinksClimb == \A r, s \in chain : r.seq < s.seq => r.seq <= s.prev

\* A writer that holds the lock has read a hash that no present row is behind.
LockedSeesTail ==
  \A w \in Writers : tx[w].at = "locked" =>
    tx[w].prev < next /\ \A r \in chain : r.seq <= tx[w].prev

\* A lost row's place in the chain is not taken again.
LostStaysLost == \A x \in lost : x < next /\ \A r \in chain : r.seq # x

\* Unless a row was appended out of order, created_at follows chain_seq.
CreatedInOrder == ~inverted => \A r, s \in chain : r.seq < s.seq => r.created <= s.created

\* A hash that verification accepts as a row's predecessor.
Known(hash) == hash = Genesis \/ (\E s \in chain : s.seq = hash) \/ HasAttestedGap(hash)

\* While nothing disturbed the log, every row and every writer about to append
\* points at a row that is present or attested as purged.
LinksKnown ==
  lost = {} /\ ~inverted /\ ~overtaken =>
    /\ \A r \in chain : Known(r.prev)
    /\ \A w \in Writers : tx[w].at = "locked" => Known(tx[w].prev)

\* What the retention job read stays true until it commits: the row whose
\* predecessor it attests is the oldest of the rows it keeps, and once it has
\* deleted, the rows it keeps are the ones after its cutoff.
PurgeKnows ==
  purge # NoWrite =>
    /\ purge.all => purge.gap = Genesis
    /\ purge.at = "deleted" => \A d \in purge.deleted : d.created < purge.cutoff
    /\ lost = {} /\ ~inverted /\ ~purge.all =>
         /\ \E o \in chain :
              /\ o.created >= purge.cutoff /\ o.prev = purge.gap
              /\ \A r \in chain : r.created >= purge.cutoff => o.seq <= r.seq
         /\ purge.at = "deleted" =>
              \A r \in chain : r.created < purge.cutoff => r \in purge.deleted

LogInd ==
  /\ LogTypeOK /\ ChainWorkOK /\ SeqIsKey /\ LinksClimb /\ LockedSeesTail
  /\ LostStaysLost /\ CreatedInOrder /\ LinksKnown /\ PurgeKnows

\* A nonempty set of naturals has a least element.
LEMMA LeastExists ==
  ASSUME NEW T, T \subseteq Nat, T # {}
  PROVE  \E x \in T : \A y \in T : x <= y
<1> DEFINE R == OpToRel(<, Nat)
<1>1. IsWellFoundedOn(R, Nat)
  BY NatLessThanWellFounded
<1> HIDE DEF R
<1>2. PICK x \in T : \A y \in T : ~(<<y, x>> \in R)
  BY <1>1, WFMin
<1>3. ASSUME NEW y \in T PROVE x <= y
  <2>1. <<y, x>> \notin R /\ <<y, x>> \in Nat \X Nat
    BY <1>2
  <2> QED  BY <2>1 DEF R, OpToRel
<1> QED  BY <1>2, <1>3

\* Max returns the greatest element of a nonempty bounded set of naturals.
LEMMA MaxIsGreatest ==
  ASSUME NEW N \in Nat, NEW T, T \subseteq 0 .. N, T # {}
  PROVE  Max(T) \in T /\ \A y \in T : y <= Max(T)
<1> DEFINE U == {N - y : y \in T}
<1>1. PICK u \in U : \A v \in U : u <= v
  <2>1. ASSUME NEW v \in U PROVE v \in Nat
    <3>1. PICK y \in T : v = N - y
      OBVIOUS
    <3>2. y \in 0 .. N
      OBVIOUS
    <3> QED  BY <3>1, <3>2
  <2>2. U # {}
    <3>1. PICK y \in T : TRUE
      OBVIOUS
    <3>2. N - y \in U
      BY <3>1
    <3> QED  BY <3>2
  <2>3. U \subseteq Nat
    BY <2>1
  <2> HIDE DEF U
  <2> QED  BY <2>2, <2>3, LeastExists
<1>2. PICK x \in T : u = N - x
  OBVIOUS
<1>3. ASSUME NEW y \in T PROVE x >= y
  <2>1. N - y \in U
    OBVIOUS
  <2>2. u <= N - y
    BY <1>1, <2>1
  <2>3. x \in 0 .. N /\ y \in 0 .. N
    OBVIOUS
  <2> HIDE DEF U
  <2> QED  BY <1>2, <2>2, <2>3
<1> QED  BY <1>3 DEF Max

\* The larger of two naturals.
LEMMA MaxOfTwo ==
  ASSUME NEW a \in Nat, NEW b \in Nat
  PROVE  /\ Max({a, b}) \in {a, b}
         /\ a <= Max({a, b}) /\ b <= Max({a, b})
<1>1. \E x \in {a, b} : \A y \in {a, b} : x >= y
  <2>1. a >= b \/ b >= a
    OBVIOUS
  <2> QED  BY <2>1
<1> QED  BY <1>1 DEF Max

\* The tail of a set of rows is the sequence number of one of them and the
\* largest; of no rows it is null.
LEMMA TailFacts ==
  ASSUME NEW rows, rows \subseteq RowType
  PROVE  /\ TailOf(rows) \in 0 .. MaxSeq
         /\ rows = {} => TailOf(rows) = Genesis
         /\ rows # {} => \E r \in rows : TailOf(rows) = r.seq
         /\ \A r \in rows : r.seq <= TailOf(rows)
<1>1. CASE rows = {}
  BY <1>1, ChainBounds DEF TailOf, Genesis
<1>2. CASE rows # {}
  <2> DEFINE T == {r.seq : r \in rows}
  <2>1. \A r \in rows : r.seq \in 0 .. MaxSeq
    BY ChainBounds DEF RowType
  <2>2. T \subseteq 0 .. MaxSeq /\ T # {}
    BY <1>2, <2>1
  <2>3. Max(T) \in T /\ \A y \in T : y <= Max(T)
    <3> HIDE DEF T
    <3> QED  BY <2>2, MaxIsGreatest, ChainBounds
  <2>4. TailOf(rows) = Max(T)
    BY <1>2 DEF TailOf
  <2> QED  BY <1>2, <2>1, <2>2, <2>3, <2>4
<1> QED  BY <1>1, <1>2

\* The oldest of a nonempty set of rows.
LEMMA OldestExists ==
  ASSUME NEW rows, rows \subseteq RowType, rows # {}
  PROVE  \E o \in rows : \A r \in rows : o.seq <= r.seq
<1> DEFINE T == {r.seq : r \in rows}
<1>1. \A r \in rows : r.seq \in Nat
  BY DEF RowType
<1>2. T \subseteq Nat /\ T # {}
  BY <1>1
<1>3. PICK x \in T : \A y \in T : x <= y
  <2> HIDE DEF T
  <2> QED  BY <1>2, LeastExists
<1> QED  BY <1>3

\* The states of the transactions have their fields, and an idle one is none of
\* them.
LEMMA TxFields ==
  /\ NoWrite.at = "idle" /\ NoWrite \notin TxStates /\ NoWrite \notin PurgeStates
  /\ \A t \in TxStates :
       /\ t.at \in {"open", "locked"} /\ t.start \in Nat /\ t.start <= MaxTime
       /\ t.prev \in Nat /\ t.prev <= MaxSeq
<1>1. NoWrite.at = "idle" /\ NoWrite \notin TxStates /\ NoWrite \notin PurgeStates
  BY DEF NoWrite, TxStates, PurgeStates
<1>2. \A t \in TxStates :
       /\ t.at \in {"open", "locked"} /\ t.start \in Nat /\ t.start <= MaxTime
       /\ t.prev \in Nat /\ t.prev <= MaxSeq
  BY ChainBounds DEF TxStates
<1> QED  BY <1>1, <1>2

\* Reading the head makes such a state.
LEMMA TxMade ==
  ASSUME NEW t \in TxStates, NEW p \in 0 .. MaxSeq
  PROVE  LET n == [t EXCEPT !.at = "locked", !.prev = p]
         IN  n \in TxStates /\ n.at = "locked" /\ n.start = t.start /\ n.prev = p
BY DEF TxStates

\* The states of the retention job have their fields.
LEMMA PurgeFields ==
  /\ \A p \in PurgeStates :
       /\ p.at \in {"read", "deleted"} /\ p.start \in Nat /\ p.start <= MaxTime
       /\ p.cutoff \in Nat /\ p.gap \in Nat /\ p.gap <= MaxSeq
       /\ p.deleted \subseteq RowType
  /\ \A p \in PurgeStates : p.all \in BOOLEAN
<1>1. \A p \in PurgeStates :
       /\ p.at \in {"read", "deleted"} /\ p.start \in Nat /\ p.start <= MaxTime
       /\ p.cutoff \in Nat /\ p.gap \in Nat /\ p.gap <= MaxSeq
       /\ p.deleted \subseteq RowType
  BY ChainBounds DEF PurgeStates
<1>2. \A p \in PurgeStates : p.all \in BOOLEAN
  BY DEF PurgeStates
<1> QED  BY <1>1, <1>2

\* Deleting makes such a state.
LEMMA PurgeMade ==
  ASSUME NEW p \in PurgeStates, NEW D \in SUBSET RowType
  PROVE  LET n == [p EXCEPT !.at = "deleted", !.deleted = D]
         IN  /\ n \in PurgeStates /\ n.at = "deleted" /\ n.deleted = D
             /\ n.start = p.start /\ n.cutoff = p.cutoff /\ n.gap = p.gap
             /\ n.all = p.all
BY DEF PurgeStates

\* A row that the next append writes.
LEMMA RowFacts ==
  ASSUME LogTypeOK, next <= MaxSeq,
         NEW p \in 0 .. MaxSeq, NEW c \in 0 .. MaxTime, NEW g \in 0 .. MaxSeq
  PROVE  /\ Row(p, c, g) \in RowType
         /\ Row(p, c, g).seq = next /\ Row(p, c, g).prev = p
         /\ Row(p, c, g).created = c /\ Row(p, c, g).gap = g
BY DEF Row, RowType, LogTypeOK

\* Rows have the fields the schema gives them.
LEMMA RowFields ==
  \A r \in RowType : /\ r.seq \in Nat /\ r.prev \in Nat /\ r.gap \in Nat
                     /\ r.created \in Nat /\ 0 < r.seq /\ r.seq <= MaxSeq
                     /\ r.created <= MaxTime /\ r.gap <= MaxSeq /\ r.prev <= MaxSeq
BY ChainBounds DEF RowType

\* An empty log satisfies the invariant.
LEMMA LogInitInd == ChainInit => LogInd
<1> SUFFICES ASSUME ChainInit PROVE LogInd
  OBVIOUS
<1>1. LogTypeOK
  <2>1. inverted \in BOOLEAN /\ overtaken \in BOOLEAN
    BY Zenon DEF ChainInit
  <2> QED  BY <2>1, ChainBounds, TxFields DEF ChainInit, LogTypeOK, Forever
<1>2. ChainWorkOK
  BY ChainBounds, TxFields DEF ChainInit, ChainWorkOK
<1>3. SeqIsKey /\ LinksClimb /\ LockedSeesTail /\ LostStaysLost /\ CreatedInOrder
  BY TxFields DEF ChainInit, SeqIsKey, LinksClimb, LockedSeesTail, LostStaysLost,
     CreatedInOrder
<1>4. LinksKnown /\ PurgeKnows
  BY TxFields DEF ChainInit, LinksKnown, PurgeKnows
<1> QED  BY <1>1, <1>2, <1>3, <1>4 DEF LogInd

\* Every step of the log keeps the invariant.
LEMMA LogPreserved ==
  ASSUME LogInd, [LogNext]_log
  PROVE  LogInd'
<1>1. /\ LogTypeOK /\ ChainWorkOK /\ SeqIsKey /\ LinksClimb
      /\ LockedSeesTail /\ LostStaysLost /\ CreatedInOrder /\ LinksKnown
      /\ PurgeKnows
  BY DEF LogInd
<1>2. ASSUME NEW w \in Writers, Begin(w)
      PROVE  LogInd'
  <2> DEFINE n == [at |-> "open", start |-> now, prev |-> Genesis]
  <2>1. n \in TxStates /\ n.at = "open" /\ n.start = now
    BY <1>1, ChainBounds DEF LogTypeOK, Genesis, TxStates
  <2> HIDE DEF n
  <2>2. /\ tx' \in [Writers -> TxStates \cup {NoWrite}] /\ tx'[w] = n
        /\ \A u \in Writers \ {w} : tx'[u] = tx[u]
    BY <1>1, <1>2, <2>1 DEF Begin, ChainWorkOK, n
  <2>3. next' = next /\ holder' = holder
    BY <1>2 DEF Begin
  <2>4. /\ chain' = chain /\ now' = now /\ retention' = retention
        /\ purge' = purge /\ lost' = lost /\ newest' = newest
        /\ inverted' = inverted /\ overtaken' = overtaken
    BY <1>2 DEF Begin, history
  <2>5. LogTypeOK'
    BY <1>1, <1>2, <2>1, <2>2, <2>3, <2>4, ChainBounds, TxFields, PurgeFields,
       RowFields
       DEF LogTypeOK, ChainWorkOK
  <2>6. ChainWorkOK'
    BY <1>1, <1>2, <2>1, <2>2, <2>3, <2>4, ChainBounds, TxFields, PurgeFields,
       RowFields
       DEF ChainWorkOK, Begin
  <2>7. LockedSeesTail'
    BY <1>1, <1>2, <2>1, <2>2, <2>3, <2>4, ChainBounds, TxFields, PurgeFields,
       RowFields
       DEF LockedSeesTail, ChainWorkOK
  <2>8. LinksKnown'
    BY <1>1, <1>2, <2>1, <2>2, <2>3, <2>4, ChainBounds, TxFields, PurgeFields,
       RowFields
       DEF LinksKnown, ChainWorkOK, Known, HasAttestedGap
  <2>9. /\ SeqIsKey' /\ LinksClimb' /\ LostStaysLost' /\ CreatedInOrder'
        /\ PurgeKnows'
    BY <1>1, <1>2
       DEF Begin, Genesis, history, SeqIsKey, LinksClimb, LostStaysLost,
           CreatedInOrder, PurgeKnows
  <2> QED  BY <2>5, <2>6, <2>7, <2>8, <2>9 DEF LogInd
<1>3. ASSUME NEW w \in Writers, ReadChainHead(w)
      PROVE  LogInd'
  <2> DEFINE n == [tx[w] EXCEPT !.at = "locked", !.prev = TailOf(chain)]
  <2>1. tx[w] \in TxStates
    BY <1>1, <1>3, TxFields DEF ReadChainHead, ChainWorkOK
  <2>2. /\ TailOf(chain) \in 0 .. MaxSeq /\ Known(TailOf(chain))
        /\ TailOf(chain) < next /\ \A r \in chain : r.seq <= TailOf(chain)
    BY <1>1, TailFacts DEF LogTypeOK, SeqIsKey, Known, Genesis
  <2>3. n \in TxStates /\ n.at = "locked" /\ n.start = tx[w].start /\ n.prev = TailOf(chain)
    BY <2>1, <2>2, TxMade
  <2> HIDE DEF n
  <2>4. /\ tx' \in [Writers -> TxStates \cup {NoWrite}] /\ tx'[w] = n
        /\ \A u \in Writers \ {w} : tx'[u] = tx[u]
    BY <1>1, <1>3, <2>3 DEF ReadChainHead, ChainWorkOK, n
  <2>5. next' = next /\ holder' = w /\ holder = "none"
    BY <1>3 DEF ReadChainHead
  <2>6. /\ chain' = chain /\ now' = now /\ retention' = retention
        /\ purge' = purge /\ lost' = lost /\ newest' = newest
        /\ inverted' = inverted /\ overtaken' = overtaken
    BY <1>3 DEF ReadChainHead, history
  <2>7. LogTypeOK'
    BY <1>1, <2>1, <2>2, <2>3, <2>4, <2>5, <2>6, ChainBounds, TxFields,
       PurgeFields, RowFields
       DEF LogTypeOK, ChainWorkOK
  <2>8. ChainWorkOK'
    BY <1>1, <2>1, <2>2, <2>3, <2>4, <2>5, <2>6, ChainBounds, TxFields,
       PurgeFields, RowFields
       DEF ChainWorkOK
  <2>9. LockedSeesTail'
    BY <1>1, <2>1, <2>2, <2>3, <2>4, <2>5, <2>6, ChainBounds, TxFields,
       PurgeFields, RowFields
       DEF LockedSeesTail, ChainWorkOK
  <2>10. LinksKnown'
    BY <1>1, <2>1, <2>2, <2>3, <2>4, <2>5, <2>6, ChainBounds, TxFields,
       PurgeFields, RowFields
       DEF LinksKnown, ChainWorkOK, Known, HasAttestedGap
  <2>11. /\ SeqIsKey' /\ LinksClimb' /\ LostStaysLost' /\ CreatedInOrder'
        /\ PurgeKnows'
    BY <1>1, <1>3
       DEF ReadChainHead, history, SeqIsKey, LinksClimb, LostStaysLost,
           CreatedInOrder, PurgeKnows, Genesis
  <2> QED  BY <2>7, <2>8, <2>9, <2>10, <2>11 DEF LogInd
<1>4. ASSUME NEW w \in Writers, Append(w)
      PROVE  LogInd'
  <2>1. /\ tx[w] \in TxStates /\ tx[w].at = "locked" /\ holder = w
        /\ \A u \in Writers \ {w} : tx[u].at # "locked"
    BY <1>1, <1>4, TxFields DEF Append, ChainWorkOK
  <2>2. /\ tx' \in [Writers -> TxStates \cup {NoWrite}] /\ tx'[w] = NoWrite
        /\ \A u \in Writers \ {w} : tx'[u] = tx[u]
    BY <1>1, <1>4 DEF Append, ChainWorkOK
  <2> DEFINE p == tx[w].prev
             c == tx[w].start
             n == Row(p, c, Genesis)
  <2>3. /\ n \in RowType /\ n.seq = next /\ n.prev = p /\ n.created = c
        /\ n.gap = 0 /\ p \in Nat /\ c \in Nat /\ c <= now /\ p < next
    BY <1>1, <1>4, <2>1, TxFields, RowFacts, ChainBounds
       DEF Append, Genesis, LockedSeesTail, ChainWorkOK
  <2> HIDE DEF n
  <2>4. /\ chain' = chain \cup {n} /\ next' = next + 1 /\ holder' = "none"
        /\ now' = now /\ retention' = retention /\ purge' = purge /\ lost' = lost
        /\ overtaken' = overtaken /\ inverted' = (inverted \/ c < newest)
        /\ newest' = Max({newest, c}) /\ next <= MaxSeq
    BY <1>4, <2>1 DEF Append, Released, n
  <2>5. newest' \in {newest, c} /\ newest <= newest' /\ c <= newest'
    BY <1>1, <2>3, <2>4, MaxOfTwo, ChainBounds DEF LogTypeOK
  <2>6. /\ next \in Nat /\ next' \in Nat /\ newest \in Nat /\ newest' \in Nat /\ next' > next
        /\ \A r \in chain : r \in RowType /\ r.seq < next /\ r.created <= newest /\ r.seq <= p
    BY <1>1, <2>1, <2>3, <2>4, <2>5, ChainBounds DEF LogTypeOK, SeqIsKey, LockedSeesTail
  <2>7. ~inverted' => ~inverted /\ newest <= c
    <3>1. ~inverted' => ~inverted /\ ~(c < newest)
      BY <2>4, Zenon
    <3> QED  BY <2>3, <2>6, <3>1
  <2>8. LogTypeOK'
    <3>1. inverted' \in BOOLEAN
      BY <2>4
    <3>2. newest' \in 0 .. MaxTime
      BY <1>1, <2>3, <2>5, ChainBounds DEF LogTypeOK
    <3>3. next' \in 1 .. MaxSeq + 1
      BY <1>1, <2>4, ChainBounds DEF LogTypeOK
    <3>4. chain' \subseteq RowType /\ \A r \in chain' : r.prev < r.seq /\ r.gap < r.seq
      BY <1>1, <2>3, <2>4, ChainBounds DEF LogTypeOK
    <3> QED  BY <1>1, <2>1, <2>2, <2>4, <3>1, <3>2, <3>3, <3>4, TxFields DEF LogTypeOK
  <2>9. ChainWorkOK'
    BY <1>1, <2>1, <2>2, <2>3, <2>4, <2>5, <2>6, ChainBounds, TxFields,
       PurgeFields, RowFields
       DEF ChainWorkOK, LogTypeOK
  <2>10. SeqIsKey'
    BY <1>1, <2>1, <2>2, <2>3, <2>4, <2>5, <2>6, ChainBounds, TxFields,
       PurgeFields, RowFields
       DEF SeqIsKey
  <2>11. LinksClimb'
    BY <1>1, <2>1, <2>2, <2>3, <2>4, <2>5, <2>6, ChainBounds, TxFields,
       PurgeFields, RowFields
       DEF LinksClimb
  <2>12. LockedSeesTail'
    BY <1>1, <2>1, <2>2, <2>3, <2>4, <2>5, <2>6, ChainBounds, TxFields,
       PurgeFields, RowFields
       DEF LockedSeesTail, ChainWorkOK
  <2>13. LostStaysLost'
    BY <1>1, <2>1, <2>2, <2>3, <2>4, <2>5, <2>6, ChainBounds, TxFields,
       PurgeFields, RowFields
       DEF LostStaysLost, LogTypeOK
  <2>14. CreatedInOrder'
    BY <1>1, <2>3, <2>4, <2>6, <2>7, RowFields DEF CreatedInOrder
  <2>15. LinksKnown'
    <3>1. ASSUME lost' = {}, ~inverted', ~overtaken'
          PROVE  \A r \in chain' : Known(r.prev)'
      <4>1. \A r \in chain : Known(r.prev)
        BY <1>1, <2>4, <3>1 DEF LinksKnown
      <4>2. Known(p)
        BY <1>1, <2>1, <2>4, <3>1 DEF LinksKnown
      <4>3. \A h : Known(h) => Known(h)'
        BY <2>4 DEF Known, HasAttestedGap
      <4> QED  BY <2>3, <2>4, <4>1, <4>2, <4>3
    <3> QED  BY <2>1, <2>2, <3>1, TxFields DEF LinksKnown
  <2>16. PurgeKnows'
    <3> SUFFICES ASSUME purge # NoWrite PROVE PurgeKnows'
      BY <2>4 DEF PurgeKnows
    <3>1. purge \in PurgeStates
      BY <1>1 DEF ChainWorkOK
    <3>2. ASSUME lost = {}, ~inverted', ~purge.all
          PROVE  /\ \E o \in chain' :
                      /\ o.created >= purge.cutoff /\ o.prev = purge.gap
                      /\ \A r \in chain' : r.created >= purge.cutoff => o.seq <= r.seq
                 /\ purge.at = "deleted" =>
                      \A r \in chain' : r.created < purge.cutoff => r \in purge.deleted
      <4>1. ~inverted /\ c >= newest
        BY <2>7, <3>2
      <4>2. PICK o \in chain : /\ o.created >= purge.cutoff /\ o.prev = purge.gap
                                /\ \A r \in chain : r.created >= purge.cutoff => o.seq <= r.seq
        BY <1>1, <3>2, <4>1 DEF PurgeKnows
      <4>3. n.created >= purge.cutoff /\ o.seq <= n.seq
        BY <2>3, <2>6, <3>1, <4>1, <4>2, RowFields, PurgeFields
      <4>4. purge.at = "deleted" => \A r \in chain : r.created < purge.cutoff => r \in purge.deleted
        BY <1>1, <3>2, <4>1 DEF PurgeKnows
      <4>5. purge.cutoff \in Nat /\ n.created \in Nat
        BY <2>3, <3>1, PurgeFields
      <4> QED  BY <2>4, <4>2, <4>3, <4>4, <4>5
    <3> QED  BY <1>1, <2>4, <3>2 DEF PurgeKnows
  <2> QED  BY <2>8, <2>9, <2>10, <2>11, <2>12, <2>13, <2>14, <2>15, <2>16 DEF LogInd
<1>5. ASSUME NEW w \in Writers, Rollback(w)
      PROVE  LogInd'
  <2>1. tx[w] \in TxStates
    BY <1>1, <1>5, TxFields DEF Rollback, ChainWorkOK
  <2>2. /\ tx' \in [Writers -> TxStates \cup {NoWrite}] /\ tx'[w] = NoWrite
        /\ \A u \in Writers \ {w} : tx'[u] = tx[u]
    BY <1>1, <1>5 DEF Rollback, ChainWorkOK
  <2>3. /\ next' \in 1 .. MaxSeq + 1 /\ next <= next'
        /\ holder' = IF holder = w THEN "none" ELSE holder
    BY <1>1, <1>5, ChainBounds DEF Rollback, Released, LogTypeOK
  <2>4. /\ chain' = chain /\ now' = now /\ retention' = retention
        /\ purge' = purge /\ lost' = lost /\ newest' = newest
        /\ inverted' = inverted /\ overtaken' = overtaken
    BY <1>5 DEF Rollback, history
  <2>5. LogTypeOK'
    BY <1>1, <2>1, <2>2, <2>3, <2>4, ChainBounds, TxFields, PurgeFields,
       RowFields
       DEF LogTypeOK, ChainWorkOK
  <2>6. ChainWorkOK'
    BY <1>1, <2>1, <2>2, <2>3, <2>4, ChainBounds, TxFields, PurgeFields,
       RowFields
       DEF ChainWorkOK, LogTypeOK
  <2>7. SeqIsKey'
    BY <1>1, <2>1, <2>2, <2>3, <2>4, ChainBounds, TxFields, PurgeFields,
       RowFields
       DEF SeqIsKey, LogTypeOK
  <2>8. LockedSeesTail'
    BY <1>1, <2>1, <2>2, <2>3, <2>4, ChainBounds, TxFields, PurgeFields,
       RowFields
       DEF LockedSeesTail, ChainWorkOK, LogTypeOK
  <2>9. LostStaysLost'
    BY <1>1, <2>1, <2>2, <2>3, <2>4, ChainBounds, TxFields, PurgeFields,
       RowFields
       DEF LostStaysLost, LogTypeOK
  <2>10. LinksKnown'
    BY <1>1, <2>1, <2>2, <2>3, <2>4, ChainBounds, TxFields, PurgeFields,
       RowFields
       DEF LinksKnown, ChainWorkOK, Known, HasAttestedGap
  <2>11. LinksClimb' /\ CreatedInOrder' /\ PurgeKnows'
    BY <1>1, <1>5
       DEF Rollback, Released, history, LinksClimb, CreatedInOrder,
           PurgeKnows, Genesis
  <2> QED  BY <2>5, <2>6, <2>7, <2>8, <2>9, <2>10, <2>11 DEF LogInd
<1>6. ASSUME NEW d \in Retentions \cup {Forever}, ConfigureRetention(d)
      PROVE  LogInd'
  <2>1. LogTypeOK'
    BY <1>1, <1>6, ChainBounds, TxFields, PurgeFields, RowFields
       DEF ConfigureRetention, history, LogTypeOK, Forever, ChainWorkOK
  <2>2. /\ ChainWorkOK' /\ SeqIsKey' /\ LinksClimb' /\ LockedSeesTail'
        /\ LostStaysLost' /\ CreatedInOrder' /\ LinksKnown' /\ PurgeKnows'
    BY <1>1, <1>6
       DEF ConfigureRetention, history, ChainWorkOK, SeqIsKey, LinksClimb,
           LockedSeesTail, LostStaysLost, CreatedInOrder, LinksKnown, Known,
           Genesis, HasAttestedGap, PurgeKnows
  <2> QED  BY <2>1, <2>2
              DEF LogInd
<1>7. CASE PurgeRead
  <2> DEFINE cutoff == now - retention
             kept == Survivors(chain, cutoff)
  <2>1. /\ purge = NoWrite /\ retention \in Nat /\ now >= retention /\ now \in 0 .. MaxTime
        /\ cutoff \in 0 .. MaxTime
    BY <1>1, <1>7, ChainBounds DEF PurgeRead, LogTypeOK, Forever
  <2>2. kept \subseteq RowType /\ kept \subseteq chain /\ \A r \in chain : r \in kept <=> r.created >= cutoff
    BY <1>1 DEF Survivors, LogTypeOK
  <2>3. kept # {} => \E o \in kept : /\ o.prev = OrphanedBy(cutoff)
                                     /\ \A r \in kept : o.seq <= r.seq
    <3> HIDE DEF cutoff
    <3> QED  BY <2>2, OldestExists DEF OrphanedBy
  <2>4. kept = {} => OrphanedBy(cutoff) = Genesis
    BY DEF OrphanedBy
  <2>5. OrphanedBy(cutoff) \in 0 .. MaxSeq /\ OrphanedBy(cutoff) < next
    <3>1. CASE kept = {}
      BY <1>1, <2>4, <3>1, ChainBounds DEF Genesis, LogTypeOK
    <3>2. CASE kept # {}
      <4>1. PICK o \in kept : o.prev = OrphanedBy(cutoff)
        BY <2>3, <3>2
      <4>2. o \in chain /\ o \in RowType
        BY <2>2
      <4>3. o.prev < o.seq /\ o.seq < next
        BY <1>1, <4>2 DEF LogTypeOK, SeqIsKey
      <4> HIDE DEF kept, cutoff
      <4>4. next \in Nat
        BY <1>1 DEF LogTypeOK
      <4> QED  BY <4>1, <4>2, <4>3, <4>4, RowFields, ChainBounds
    <3> QED  BY <3>1, <3>2
  <2> DEFINE n == [at |-> "read", start |-> now, cutoff |-> cutoff,
                   gap |-> OrphanedBy(cutoff), deleted |-> {}, all |-> kept = {}]
  <2>6. n \in PurgeStates
    <3>1. (kept = {}) \in BOOLEAN /\ {} \in SUBSET RowType
      OBVIOUS
    <3> HIDE DEF kept, cutoff
    <3> QED  BY <2>1, <2>5, <3>1 DEF PurgeStates
  <2>7. /\ n.at = "read" /\ n.start = now /\ n.cutoff = cutoff /\ n.gap = OrphanedBy(cutoff)
        /\ n.all = (kept = {})
    OBVIOUS
  <2>8. purge' = n
    BY <1>7 DEF PurgeRead
  <2> HIDE DEF n, kept, cutoff
  <2>9. /\ chain' = chain /\ next' = next /\ now' = now /\ retention' = retention
        /\ tx' = tx /\ holder' = holder /\ lost' = lost /\ newest' = newest
        /\ inverted' = inverted /\ overtaken' = overtaken
    BY <1>7 DEF PurgeRead, history
  <2>10. LogTypeOK'
    BY <1>1, <2>6, <2>7, <2>8, <2>9 DEF LogTypeOK
  <2>11. ChainWorkOK'
    BY <1>1, <2>1, <2>5, <2>6, <2>7, <2>8, <2>9 DEF ChainWorkOK
  <2>12. PurgeKnows'
    <3>1. kept # {} => \E o \in chain :
            /\ o.created >= cutoff /\ o.prev = OrphanedBy(cutoff)
            /\ \A r \in chain : r.created >= cutoff => o.seq <= r.seq
      BY <2>2, <2>3
    <3> QED  BY <2>4, <2>7, <2>8, <2>9, <3>1 DEF PurgeKnows
  <2>13. /\ SeqIsKey' /\ LinksClimb' /\ LockedSeesTail' /\ LostStaysLost'
        /\ CreatedInOrder' /\ LinksKnown'
    BY <1>1, <1>7
       DEF PurgeRead, Forever, OrphanedBy, Genesis, Survivors, history,
           SeqIsKey, LinksClimb, LockedSeesTail, LostStaysLost,
           CreatedInOrder, LinksKnown, Known, HasAttestedGap
  <2> QED  BY <2>10, <2>11, <2>12, <2>13 DEF LogInd
<1>8. CASE PurgeDelete
  <2> DEFINE D == chain \ Survivors(chain, purge.cutoff)
             n == [purge EXCEPT !.at = "deleted", !.deleted = D]
  <2>1. purge \in PurgeStates
    BY <1>1, <1>8, TxFields DEF PurgeDelete, ChainWorkOK
  <2>2. D \in SUBSET RowType
    BY <1>1 DEF LogTypeOK
  <2>3. purge.cutoff \in Nat /\ \A r \in chain : r.created \in Nat
    BY <1>1, <2>1, PurgeFields, RowFields DEF LogTypeOK
  <2>4. /\ \A d \in D : d.created < purge.cutoff
        /\ \A r \in chain : r.created < purge.cutoff => r \in D
    BY <2>3 DEF Survivors
  <2> HIDE DEF D
  <2>5. /\ n \in PurgeStates /\ n.at = "deleted" /\ n.deleted = D
        /\ n.start = purge.start /\ n.cutoff = purge.cutoff /\ n.gap = purge.gap
        /\ n.all = purge.all
    BY <2>1, <2>2, PurgeMade
  <2>6. purge' = n
    BY <1>8 DEF PurgeDelete, D
  <2> HIDE DEF n
  <2>7. /\ chain' = chain /\ next' = next /\ now' = now /\ retention' = retention
        /\ tx' = tx /\ holder' = holder /\ lost' = lost /\ newest' = newest
        /\ inverted' = inverted /\ overtaken' = overtaken
    BY <1>8 DEF PurgeDelete, history
  <2>8. purge # NoWrite
    BY <2>1, TxFields
  <2>9. LogTypeOK'
    BY <1>1, <2>5, <2>6, <2>7 DEF LogTypeOK
  <2>10. ChainWorkOK'
    BY <1>1, <2>5, <2>6, <2>7, <2>8 DEF ChainWorkOK
  <2>11. PurgeKnows'
    BY <1>1, <2>4, <2>5, <2>6, <2>7, <2>8 DEF PurgeKnows
  <2>12. /\ SeqIsKey' /\ LinksClimb' /\ LockedSeesTail' /\ LostStaysLost'
        /\ CreatedInOrder' /\ LinksKnown'
    BY <1>1, <1>8
       DEF PurgeDelete, Survivors, history, SeqIsKey, LinksClimb,
           LockedSeesTail, LostStaysLost, CreatedInOrder, LinksKnown, Known,
           Genesis, HasAttestedGap
  <2> QED  BY <2>9, <2>10, <2>11, <2>12 DEF LogInd
<1>9. CASE PurgeCommit
  <2> DEFINE kept == chain \ purge.deleted
  <2>1. /\ purge \in PurgeStates /\ purge # NoWrite /\ purge.at = "deleted"
        /\ purge' = NoWrite
    BY <1>1, <1>9, TxFields DEF PurgeCommit, ChainWorkOK
  <2>2. /\ kept \subseteq chain /\ kept \subseteq RowType
        /\ \A r \in chain : r \in kept \/ r \in purge.deleted
    BY <1>1 DEF LogTypeOK
  <2>3. /\ now' = now /\ retention' = retention /\ tx' = tx /\ holder' = holder /\ lost' = lost
    BY <1>9 DEF PurgeCommit
  <2>4. overtaken' \in BOOLEAN /\
        (~overtaken' =>
          /\ ~overtaken
          /\ purge.deleted # {} /\ purge.all =>
               kept = {} /\ \A u \in Writers : tx[u].at # "locked")
    <3>1. overtaken' = (overtaken \/
              /\ purge.deleted # {} /\ purge.all
              /\ kept # {} \/ \E u \in Writers : tx[u].at = "locked")
      BY <1>9 DEF PurgeCommit
    <3> QED  BY <3>1, Zenon
  <2>5. ASSUME NEW h, Known(h), lost = {}, ~inverted, ~overtaken',
               \/ \E r \in kept : h = r.prev
               \/ \E u \in Writers : tx[u].at = "locked" /\ h = tx[u].prev
        PROVE  \/ h = Genesis \/ (\E s \in kept : s.seq = h) \/ (\E s \in kept : s.gap = h)
               \/ h = purge.gap /\ Attests
    <3>1. CASE purge.deleted = {}
      BY <2>5, <3>1 DEF Known, HasAttestedGap
    <3>2. CASE purge.deleted # {} /\ purge.all
      BY <2>4, <2>5, <3>2
    <3>3. CASE purge.deleted # {} /\ ~purge.all
      <4>1. PICK o \in chain : /\ o.created >= purge.cutoff /\ o.prev = purge.gap
                                /\ \A r \in chain : r.created >= purge.cutoff => o.seq <= r.seq
        BY <1>1, <2>1, <2>5, <3>3 DEF PurgeKnows
      <4>2. /\ \A d \in purge.deleted : d.created < purge.cutoff
            /\ \A r \in chain : r.created < purge.cutoff => r \in purge.deleted
        BY <1>1, <2>1, <2>5, <3>3 DEF PurgeKnows
      <4>3. purge.cutoff \in Nat /\ \A r \in chain : r.seq \in Nat /\ r.prev \in Nat
                                   /\ r.gap \in Nat /\ r.created \in Nat
        BY <1>1, <2>1, PurgeFields, RowFields DEF LogTypeOK
      <4>4. \A d \in chain : d.seq >= o.seq => d \in kept
        BY <1>1, <2>5, <4>1, <4>2, <4>3 DEF CreatedInOrder, SeqIsKey
      <4>5. h = o.prev \/ (h \in Nat /\ h >= o.seq)
        <5>1. ASSUME NEW r \in kept, h = r.prev
              PROVE  h = o.prev \/ (h \in Nat /\ h >= o.seq)
          <6>1. r \in chain /\ r \notin purge.deleted
            BY <5>1
          <6>2. r.created >= purge.cutoff
            BY <4>2, <4>3, <6>1
          <6>3. r = o \/ o.seq < r.seq
            BY <1>1, <4>1, <4>3, <6>1, <6>2 DEF SeqIsKey
          <6> QED  BY <1>1, <4>1, <4>3, <5>1, <6>1, <6>3 DEF LinksClimb
        <5>2. ASSUME NEW u \in Writers, tx[u].at = "locked", h = tx[u].prev
              PROVE  h \in Nat /\ h >= o.seq
          BY <1>1, <4>1, <4>3, <5>2, TxFields DEF LockedSeesTail, ChainWorkOK
        <5> QED  BY <2>5, <5>1, <5>2
      <4>6. CASE h = o.prev
        BY <3>3, <4>1, <4>6 DEF Attests
      <4>7. CASE h \in Nat /\ h >= o.seq
        <5>1. \A g \in chain : g.gap = h => g \in kept
          BY <1>1, <4>1, <4>3, <4>4, <4>7 DEF LogTypeOK
        <5> QED  BY <2>5, <4>4, <4>7, <5>1 DEF Known, HasAttestedGap
      <4> QED  BY <4>5, <4>6, <4>7
    <3> QED  BY <3>1, <3>2, <3>3
  <2>6. CASE Attests
    <3> DEFINE p == TailOf(kept)
               c == purge.start
               n == Row(p, c, purge.gap)
    <3>1. /\ holder = "none" /\ next <= MaxSeq /\ chain' = kept \cup {n}
          /\ next' = next + 1 /\ newest' = Max({newest, c})
          /\ inverted' = (inverted \/ c < newest)
      BY <1>9, <2>6 DEF PurgeCommit
    <3>2. /\ p \in 0 .. MaxSeq /\ \A r \in kept : r.seq <= p
          /\ p = Genesis \/ \E r \in kept : p = r.seq
      BY <2>2, TailFacts
    <3>3. c \in 0 .. MaxTime /\ purge.gap \in 0 .. MaxSeq /\ purge.gap < next
      BY <1>1, <2>1, PurgeFields, ChainBounds DEF ChainWorkOK
    <3>4. /\ n \in RowType /\ n.seq = next /\ n.prev = p /\ n.created = c
          /\ n.gap = purge.gap
      BY <1>1, <3>1, <3>2, <3>3, RowFacts
    <3> HIDE DEF n, kept
    <3>5. p < next
      BY <1>1, <2>2, <3>2, ChainBounds DEF SeqIsKey, LogTypeOK, Genesis
    <3> HIDE DEF p
    <3>6. newest' \in {newest, c} /\ newest <= newest' /\ c <= newest'
      BY <1>1, <3>1, <3>3, MaxOfTwo, ChainBounds DEF LogTypeOK
    <3>7. ~inverted' => ~inverted /\ newest <= c
      <4>1. ~inverted' => ~inverted /\ ~(c < newest)
        BY <3>1, Zenon
      <4> QED  BY <1>1, <3>3, <4>1, ChainBounds DEF LogTypeOK
    <3>8. /\ next \in Nat /\ next' \in Nat /\ newest \in Nat /\ newest' \in Nat /\ next' > next
          /\ p \in Nat /\ c \in Nat
          /\ \A r \in kept : r \in chain /\ r \in RowType /\ r.seq < next /\ r.created <= newest
      BY <1>1, <2>2, <3>1, <3>2, <3>3, <3>6, ChainBounds DEF LogTypeOK, SeqIsKey
    <3>9. LogTypeOK'
      <4>1. inverted' \in BOOLEAN
        BY <3>1
      <4>2. newest' \in 0 .. MaxTime
        BY <1>1, <3>3, <3>6 DEF LogTypeOK
      <4>3. next' \in 1 .. MaxSeq + 1
        BY <1>1, <3>1, ChainBounds DEF LogTypeOK
      <4>4. chain' \subseteq RowType /\ \A r \in chain' : r.prev < r.seq /\ r.gap < r.seq
        BY <1>1, <3>1, <3>3, <3>4, <3>5, <3>8 DEF LogTypeOK
      <4> QED  BY <1>1, <2>1, <2>3, <2>4, <4>1, <4>2, <4>3, <4>4, TxFields DEF LogTypeOK
    <3>10. ChainWorkOK'
      BY <1>1, <2>1, <2>3 DEF ChainWorkOK
    <3>11. SeqIsKey'
      BY <1>1, <3>1, <3>4, <3>6, <3>8, RowFields DEF SeqIsKey
    <3>12. LinksClimb'
      BY <1>1, <3>1, <3>2, <3>4, <3>8, RowFields DEF LinksClimb
    <3>13. LockedSeesTail'
      BY <1>1, <2>3, <3>1, ChainBounds DEF LockedSeesTail, ChainWorkOK
    <3>14. LostStaysLost'
      BY <1>1, <2>3, <3>1, <3>4, <3>8 DEF LostStaysLost, LogTypeOK
    <3>15. CreatedInOrder'
      BY <1>1, <3>1, <3>4, <3>7, <3>8, RowFields DEF CreatedInOrder
    <3>16. LinksKnown'
      <4>1. ASSUME lost' = {}, ~inverted', ~overtaken', NEW h, Known(h),
                   \/ \E r \in kept : h = r.prev
                   \/ \E u \in Writers : tx[u].at = "locked" /\ h = tx[u].prev
            PROVE  Known(h)'
        BY <2>3, <2>5, <3>1, <3>4, <3>7, <4>1 DEF Known, HasAttestedGap
      <4>2. \A r : r = n => Known(r.prev)'
        BY <3>1, <3>2, <3>4 DEF Known
      <4>3. lost' = {} /\ ~inverted' /\ ~overtaken' =>
              \A u \in Writers : tx[u].at = "locked" => Known(tx[u].prev)'
        BY <1>1, <2>3, <2>4, <3>7, <4>1 DEF LinksKnown
      <4>4. lost' = {} /\ ~inverted' /\ ~overtaken' => \A r \in chain' : Known(r.prev)'
        BY <1>1, <2>3, <2>4, <3>1, <3>7, <3>8, <4>1, <4>2 DEF LinksKnown
      <4> QED  BY <2>3, <4>3, <4>4 DEF LinksKnown
    <3>17. PurgeKnows'
      BY <2>1 DEF PurgeKnows
    <3> QED  BY <3>9, <3>10, <3>11, <3>12, <3>13, <3>14, <3>15, <3>16, <3>17 DEF LogInd
  <2>7. CASE ~Attests
    <3>1. chain' = kept /\ next' = next /\ newest' = newest /\ inverted' = inverted
      BY <1>9, <2>7 DEF PurgeCommit
    <3> HIDE DEF kept
    <3>2. LogTypeOK'
      BY <1>1, <2>1, <2>2, <2>3, <2>4, <3>1, TxFields DEF LogTypeOK
    <3>3. ChainWorkOK' /\ PurgeKnows'
      BY <1>1, <2>1, <2>3, <3>1 DEF ChainWorkOK, PurgeKnows
    <3>4. SeqIsKey' /\ LinksClimb' /\ LostStaysLost' /\ CreatedInOrder' /\ LockedSeesTail'
      BY <1>1, <2>2, <2>3, <3>1
         DEF SeqIsKey, LinksClimb, LostStaysLost, CreatedInOrder, LockedSeesTail
    <3>5. LinksKnown'
      <4>1. ASSUME lost' = {}, ~inverted', ~overtaken', NEW h, Known(h),
                   \/ \E r \in kept : h = r.prev
                   \/ \E u \in Writers : tx[u].at = "locked" /\ h = tx[u].prev
            PROVE  Known(h)'
        BY <2>3, <2>5, <2>7, <3>1, <4>1 DEF Known, HasAttestedGap
      <4>2. lost' = {} /\ ~inverted' /\ ~overtaken' =>
              \A u \in Writers : tx[u].at = "locked" => Known(tx[u].prev)'
        BY <1>1, <2>3, <2>4, <3>1, <4>1 DEF LinksKnown
      <4>3. lost' = {} /\ ~inverted' /\ ~overtaken' => \A r \in chain' : Known(r.prev)'
        BY <1>1, <2>2, <2>3, <2>4, <3>1, <4>1 DEF LinksKnown
      <4> QED  BY <2>3, <4>2, <4>3 DEF LinksKnown
    <3> QED  BY <3>2, <3>3, <3>4, <3>5 DEF LogInd
  <2> QED  BY <2>6, <2>7
<1>10. CASE PurgeRollback
  <2>1. LogTypeOK'
    BY <1>1, <1>10, ChainBounds, TxFields, PurgeFields, RowFields
       DEF PurgeRollback, history, LogTypeOK, Forever, ChainWorkOK
  <2>2. ChainWorkOK'
    BY <1>1, <1>10, ChainBounds, TxFields, PurgeFields, RowFields
       DEF PurgeRollback, history, ChainWorkOK, LogTypeOK, Forever
  <2>3. PurgeKnows'
    BY <1>1, <1>10, ChainBounds, TxFields, PurgeFields, RowFields
       DEF PurgeRollback, history, PurgeKnows, Genesis, LogTypeOK, Forever,
           ChainWorkOK
  <2>4. /\ SeqIsKey' /\ LinksClimb' /\ LockedSeesTail' /\ LostStaysLost'
        /\ CreatedInOrder' /\ LinksKnown'
    BY <1>1, <1>10
       DEF PurgeRollback, history, SeqIsKey, LinksClimb, LockedSeesTail,
           LostStaysLost, CreatedInOrder, LinksKnown, Known, Genesis,
           HasAttestedGap
  <2> QED  BY <2>1, <2>2, <2>3, <2>4
              DEF LogInd
<1>11. CASE Vanish
  <2>1. PICK r \in chain : chain' = chain \ {r} /\ lost' = lost \cup {r.seq}
    BY <1>11 DEF Vanish
  <2>2. /\ next' = next /\ now' = now /\ retention' = retention /\ tx' = tx /\ holder' = holder
        /\ purge' = purge /\ newest' = newest /\ inverted' = inverted /\ overtaken' = overtaken
    BY <1>11 DEF Vanish
  <2>3. r \in RowType /\ r.seq \in 1 .. MaxSeq /\ r.seq < next /\ lost' # {}
    BY <1>1, <2>1, RowFields, ChainBounds DEF LogTypeOK, SeqIsKey
  <2>4. LogTypeOK'
    BY <1>1, <2>1, <2>2, <2>3, ChainBounds, TxFields, PurgeFields, RowFields
       DEF LogTypeOK
  <2>5. ChainWorkOK'
    BY <1>1, <2>1, <2>2, <2>3, ChainBounds, TxFields, PurgeFields, RowFields
       DEF ChainWorkOK
  <2>6. SeqIsKey'
    BY <1>1, <2>1, <2>2, <2>3, ChainBounds, TxFields, PurgeFields, RowFields
       DEF SeqIsKey
  <2>7. LinksClimb'
    BY <1>1, <2>1, <2>2, <2>3, ChainBounds, TxFields, PurgeFields, RowFields
       DEF LinksClimb
  <2>8. LockedSeesTail'
    BY <1>1, <2>1, <2>2, <2>3, ChainBounds, TxFields, PurgeFields, RowFields
       DEF LockedSeesTail
  <2>9. LostStaysLost'
    BY <1>1, <2>1, <2>2, <2>3, ChainBounds, TxFields, PurgeFields, RowFields
       DEF LostStaysLost, SeqIsKey, LogTypeOK
  <2>10. CreatedInOrder'
    BY <1>1, <2>1, <2>2, <2>3, ChainBounds, TxFields, PurgeFields, RowFields
       DEF CreatedInOrder
  <2>11. LinksKnown'
    BY <1>1, <2>1, <2>2, <2>3, ChainBounds, TxFields, PurgeFields, RowFields
       DEF LinksKnown
  <2>12. PurgeKnows'
    BY <1>1, <2>1, <2>2, <2>3, ChainBounds, TxFields, PurgeFields, RowFields
       DEF PurgeKnows
  <2> QED  BY <2>4, <2>5, <2>6, <2>7, <2>8, <2>9, <2>10, <2>11, <2>12 DEF LogInd
<1>12. CASE Tick
  <2>1. LogTypeOK'
    BY <1>1, <1>12, ChainBounds, TxFields, PurgeFields, RowFields
       DEF Tick, history, LogTypeOK, Forever, ChainWorkOK
  <2>2. ChainWorkOK'
    BY <1>1, <1>12, ChainBounds, TxFields, PurgeFields, RowFields
       DEF Tick, history, ChainWorkOK, LogTypeOK, Forever
  <2>3. /\ SeqIsKey' /\ LinksClimb' /\ LockedSeesTail' /\ LostStaysLost'
        /\ CreatedInOrder' /\ LinksKnown' /\ PurgeKnows'
    BY <1>1, <1>12
       DEF Tick, history, SeqIsKey, LinksClimb, LockedSeesTail,
           LostStaysLost, CreatedInOrder, LinksKnown, Known, Genesis,
           HasAttestedGap, PurgeKnows
  <2> QED  BY <2>1, <2>2, <2>3
              DEF LogInd
<1>13. CASE UNCHANGED log
  BY <1>1, <1>13
     DEF log, history, LogInd, LogTypeOK, ChainWorkOK,
         CreatedInOrder, Forever, Genesis, HasAttestedGap, Known, LinksClimb,
         LinksKnown, LockedSeesTail, LostStaysLost, PurgeKnows, SeqIsKey
<1> QED  BY <1>2, <1>3, <1>4, <1>5, <1>6, <1>7, <1>8, <1>9, <1>10, <1>11,
            <1>12, <1>13
            DEF LogNext

\* What a step of the log does to what a verification has read: rows go, one with
\* a new chain_seq may come, and a lost row and a disorder stay so.
LEMMA LogStep ==
  ASSUME LogInd, [LogNext]_log
  PROVE  /\ next \in Nat /\ next' \in Nat /\ next <= next' /\ lost \subseteq lost'
         /\ \A s \in chain' : s \in chain \/ s.seq = next
         /\ ~inverted' => ~inverted
<1>1. LogTypeOK /\ ChainWorkOK /\ next \in Nat
  BY ChainBounds DEF LogInd, LogTypeOK
<1>2. \A p, c, g : Row(p, c, g).seq = next
  BY DEF Row
<1>3. ASSUME NEW w \in Writers, Begin(w) \/ ReadChainHead(w) \/ Append(w) \/ Rollback(w)
      PROVE  /\ next' \in {next, next + 1} /\ lost' = lost
             /\ \A s \in chain' : s \in chain \/ s.seq = next
             /\ ~inverted' => ~inverted
  <2>1. CASE Append(w)
    <3>1. /\ next' = next + 1 /\ lost' = lost
          /\ \A s \in chain' : s \in chain \/ s.seq = next
      BY <1>2, <2>1 DEF Append
    <3>2. ~inverted' => ~inverted
      BY <2>1, Zenon DEF Append
    <3> QED  BY <3>1, <3>2
  <2>2. CASE Begin(w) \/ ReadChainHead(w) \/ Rollback(w)
    BY <2>2 DEF Begin, ReadChainHead, Rollback, history
  <2> QED  BY <1>3, <2>1, <2>2
<1>4. CASE PurgeCommit
  <2>1. next' \in {next, next + 1} /\ lost' = lost
    BY <1>4 DEF PurgeCommit
  <2>3. ~inverted' => ~inverted
    <3>1. inverted' = inverted \/ inverted' = (inverted \/ purge.start < newest)
      BY <1>4, Zenon DEF PurgeCommit
    <3> QED  BY <3>1, Zenon
  <2>2. \A s \in chain' : s \in chain \/ s.seq = next
    BY <1>2, <1>4 DEF PurgeCommit
  <2> QED  BY <1>1, <2>1, <2>2, <2>3
<1>5. CASE Vanish
  BY <1>1, <1>5 DEF Vanish
<1>6. ASSUME NEW d \in Retentions \cup {Forever}, ConfigureRetention(d)
      PROVE  UNCHANGED <<next, lost, chain, inverted>>
  BY <1>6 DEF ConfigureRetention, history
<1>7. CASE PurgeRead \/ PurgeDelete \/ PurgeRollback \/ Tick \/ UNCHANGED log
  <2>1. UNCHANGED <<next, lost, chain, inverted>>
    BY <1>7 DEF PurgeRead, PurgeDelete, PurgeRollback, Tick, log, history
  <2> QED  BY <1>1, <2>1
<1> QED  BY <1>1, <1>3, <1>4, <1>5, <1>6, <1>7 DEF LogNext

\* The states of a verification.
VerifyStates == [at : {"fetched", "looked"}, rows : SUBSET RowType,
                 first : 0 .. MaxSeq, lost : SUBSET (1 .. MaxSeq)]

\* The fetched rows keep the shape of the log they were read from: a row points
\* at or behind every earlier one of them, and, unless created_at ran against
\* chain_seq, the row that one of them (not the first) points at was fetched too
\* if it is still present.
FetchedClimb ==
  /\ \A r \in verify.rows : r.seq < next /\ r.prev < r.seq
  /\ \A r, s \in verify.rows : r.seq < s.seq => r.seq <= s.prev
  /\ ~inverted => \A b, r \in verify.rows, s \in chain :
                     b.seq < r.seq /\ s.seq = r.prev => s \in verify.rows

\* While the first fetched row is present, what was found before it is not behind
\* its link, and no present row lies between.
FirstFound ==
  verify.at = "looked" =>
    \A r \in verify.rows : r \in chain /\ (\A b \in verify.rows : r.seq <= b.seq) =>
      verify.first <= r.prev /\ \A s \in chain : s.seq < r.seq => s.seq <= verify.first

\* A row that was lost before the fetch is neither fetched nor found.
LostUnseen ==
  /\ verify.lost \subseteq lost
  /\ \A x \in verify.lost : \A r \in verify.rows : r.seq # x
  /\ verify.at = "looked" => verify.first \notin verify.lost

VerifyOK ==
  /\ verify \in VerifyStates \cup {NoWrite}
  /\ verify # NoWrite => FetchedClimb /\ FirstFound /\ LostUnseen

ChainInd == LogInd /\ VerifyOK

\* A verification under way has its fields.
LEMMA VerifyFields ==
  /\ NoWrite.at = "idle" /\ NoWrite \notin VerifyStates
  /\ \A v \in VerifyStates :
       /\ v.at \in {"fetched", "looked"} /\ v.rows \subseteq RowType
       /\ v.first \in Nat /\ v.lost \subseteq 1 .. MaxSeq
BY ChainBounds DEF NoWrite, VerifyStates

\* The first state satisfies the invariant.
LEMMA ChainInitInd == ChainInit => ChainInd
BY LogInitInd, VerifyFields DEF ChainInit, ChainInd, VerifyOK

\* Fetching a range of the log makes a verification whose rows are dense.
LEMMA FetchOK ==
  ASSUME LogInd, NEW lower \in Nat, NEW until \in Nat, VerifyFetch(lower, until)
  PROVE  VerifyOK'
<1>1. LogTypeOK /\ SeqIsKey /\ LinksClimb /\ LostStaysLost /\ CreatedInOrder
  BY DEF LogInd
<1>2. /\ verify' = [at |-> "fetched", rows |-> InRange(lower, until),
                    first |-> Genesis, lost |-> lost]
      /\ chain' = chain /\ next' = next /\ lost' = lost /\ inverted' = inverted
  BY DEF VerifyFetch, log, history
<1>3. /\ verify'.at = "fetched" /\ verify'.rows = InRange(lower, until)
      /\ verify'.lost = lost
  BY <1>2
<1>4. InRange(lower, until) \subseteq RowType /\ InRange(lower, until) \subseteq chain
  BY <1>1 DEF LogTypeOK, InRange
<1>5. verify' \in VerifyStates
  BY <1>1, <1>2, <1>4, ChainBounds DEF VerifyStates, LogTypeOK, Genesis
<1>6. \A s \in chain : s.seq \in Nat /\ s.prev \in Nat /\ s.created \in Nat /\ s.prev < s.seq
  BY <1>1, RowFields DEF LogTypeOK
<1>7. ASSUME ~inverted, NEW b \in InRange(lower, until), NEW r \in InRange(lower, until),
             NEW s \in chain, b.seq < r.seq, s.seq = r.prev
      PROVE  s \in InRange(lower, until)
  <2>1. b \in chain /\ r \in chain /\ lower <= b.created /\ r.created < until
    BY DEF InRange
  <2>2. b.seq <= s.seq
    BY <1>1, <1>7, <2>1 DEF LinksClimb
  <2>3. b.created <= s.created
    BY <1>1, <1>6, <1>7, <2>1, <2>2 DEF CreatedInOrder, SeqIsKey
  <2>4. s.created <= r.created
    BY <1>1, <1>6, <1>7, <2>1 DEF CreatedInOrder
  <2> QED  BY <1>6, <2>1, <2>3, <2>4 DEF InRange
<1>8. FetchedClimb'
  BY <1>1, <1>2, <1>3, <1>4, <1>6, <1>7 DEF FetchedClimb, SeqIsKey, LinksClimb
<1>9. FirstFound' /\ LostUnseen'
  BY <1>1, <1>2, <1>3, <1>4 DEF FirstFound, LostUnseen, LostStaysLost
<1> QED  BY <1>5, <1>8, <1>9 DEF VerifyOK

\* Looking back finds the tail of what is before the first fetched row.
LEMMA LookBackOK ==
  ASSUME ChainInd, VerifyLookBack
  PROVE  VerifyOK'
<1>1. /\ LogTypeOK /\ SeqIsKey /\ LinksClimb /\ LostStaysLost
      /\ verify \in VerifyStates /\ verify # NoWrite
      /\ FetchedClimb /\ LostUnseen
  BY VerifyFields DEF ChainInd, LogInd, VerifyOK, VerifyLookBack
<1> DEFINE older == {s \in chain : \A r \in verify.rows : s.seq < r.seq}
           f == Predecessor(verify.rows)
<1>2. /\ verify' = [verify EXCEPT !.at = "looked", !.first = f]
      /\ chain' = chain /\ next' = next /\ lost' = lost /\ inverted' = inverted
  BY DEF VerifyLookBack, log, history
<1>3. older \subseteq RowType /\ older \subseteq chain
  BY <1>1 DEF LogTypeOK
<1>4. f = TailOf(older)
  BY DEF Predecessor
<1>5. /\ f \in 0 .. MaxSeq
      /\ older = {} => f = Genesis
      /\ older # {} => \E s \in older : f = s.seq
      /\ \A s \in older : s.seq <= f
  <2> HIDE DEF older, f
  <2> QED  BY <1>3, <1>4, TailFacts
<1> HIDE DEF f
<1>6. /\ verify' \in VerifyStates /\ verify'.at = "looked" /\ verify'.first = f
      /\ verify'.rows = verify.rows /\ verify'.lost = verify.lost
  BY <1>1, <1>2, <1>5 DEF VerifyStates
<1>7. FetchedClimb'
  BY <1>1, <1>2, <1>6 DEF FetchedClimb
<1>8. FirstFound'
  <2> SUFFICES ASSUME NEW r \in verify.rows, r \in chain, \A b \in verify.rows : r.seq <= b.seq
               PROVE  f <= r.prev /\ \A s \in chain : s.seq < r.seq => s.seq <= f
    BY <1>2, <1>6 DEF FirstFound
  <2>1. \A s \in chain : s.seq \in Nat /\ s.prev \in Nat /\ 0 < s.seq
    BY <1>1, RowFields DEF LogTypeOK
  <2>2. \A b \in verify.rows : b.seq \in Nat
    BY <1>1, VerifyFields, RowFields
  <2>3. ASSUME NEW s \in chain, s.seq < r.seq PROVE s \in older
    BY <2>1, <2>2, <2>3
  <2>4. \A s \in older : s.seq < r.seq
    OBVIOUS
  <2>5. \A s \in older : s.seq <= r.prev
    BY <1>1, <1>3, <2>4 DEF LinksClimb
  <2>6. f <= r.prev
    <3>1. CASE older = {}
      BY <1>5, <2>1, <3>1 DEF Genesis
    <3>2. CASE older # {}
      BY <1>5, <2>5, <3>2
    <3> QED  BY <3>1, <3>2
  <2> QED  BY <1>5, <2>3, <2>6
<1>9. LostUnseen'
  <2>1. f \notin verify.lost
    <3>1. CASE older = {}
      BY <1>1, <1>5, <3>1, VerifyFields DEF Genesis
    <3>2. CASE older # {}
      BY <1>1, <1>3, <1>5, <3>2 DEF LostUnseen, LostStaysLost
    <3> QED  BY <3>1, <3>2
  <2> QED  BY <1>1, <1>2, <1>6, <2>1 DEF LostUnseen
<1> QED  BY <1>6, <1>7, <1>8, <1>9 DEF VerifyOK

\* Whatever is appended, purged or lost meanwhile, what was read stays as useful.
LEMMA VerifyUndisturbed ==
  ASSUME ChainInd, [LogNext]_log, UNCHANGED verify
  PROVE  VerifyOK'
<1>1. LogInd /\ VerifyOK
  BY DEF ChainInd
<1>2. CASE verify = NoWrite
  BY <1>1, <1>2 DEF VerifyOK
<1>3. CASE verify # NoWrite
  <2>1. FetchedClimb /\ FirstFound /\ LostUnseen /\ verify \in VerifyStates
    BY <1>1, <1>3 DEF VerifyOK
  <2>2. /\ next \in Nat /\ next' \in Nat /\ next <= next' /\ lost \subseteq lost'
        /\ \A s \in chain' : s \in chain \/ s.seq = next
        /\ ~inverted' => ~inverted
    BY <1>1, LogStep
  <2>3. \A r \in verify.rows : r.seq \in Nat /\ r.prev \in Nat /\ r.seq < next /\ r.prev < next
    <3>1. \A r \in verify.rows : r.seq \in Nat /\ r.prev \in Nat
      BY <2>1, VerifyFields, RowFields
    <3> QED  BY <2>1, <2>2, <3>1 DEF FetchedClimb
  <2>4. \A r \in verify.rows : r \in chain' => r \in chain
    BY <2>2, <2>3
  <2>5. \A r \in verify.rows, s \in chain' : s.seq <= r.seq => s \in chain
    BY <2>2, <2>3
  <2>6. FetchedClimb'
    BY <2>1, <2>2, <2>3 DEF FetchedClimb
  <2>7. FirstFound'
    BY <2>1, <2>2, <2>3, <2>4 DEF FirstFound
  <2>8. LostUnseen'
    BY <2>1, <2>2 DEF LostUnseen
  <2> QED  BY <2>1, <2>6, <2>7, <2>8 DEF VerifyOK
<1> QED  BY <1>2, <1>3

\* Every step of the log and of a verification keeps the invariant.
LEMMA ChainPreserved ==
  ASSUME ChainInd, [ChainNext]_chainVars
  PROVE  ChainInd'
<1>1. LogInd
  BY DEF ChainInd
<1>2. CASE (LogNext /\ UNCHANGED verify) \/ UNCHANGED chainVars
  <2>1. [LogNext]_log /\ UNCHANGED verify
    BY <1>2 DEF chainVars
  <2> QED  BY <1>1, <2>1, LogPreserved, VerifyUndisturbed DEF ChainInd
<1>3. CASE VerifyNext
  <2>1. UNCHANGED log
    BY <1>3 DEF VerifyNext, VerifyFetch, VerifyLookBack, VerifyEnd
  <2>2. LogInd'
    BY <1>1, <2>1, LogPreserved
  <2>3. ASSUME NEW lower \in 0 .. MaxTime, NEW until \in Untils, VerifyFetch(lower, until)
        PROVE  VerifyOK'
    BY <1>1, <2>3, FetchOK, ChainBounds
  <2>4. ASSUME VerifyEnd PROVE VerifyOK'
    <3>1. verify' = NoWrite
      BY <2>4 DEF VerifyEnd
    <3>2. verify' \in VerifyStates \cup {NoWrite}
      BY <3>1
    <3> QED  BY <3>1, <3>2 DEF VerifyOK
  <2> QED  BY <1>3, <2>2, <2>3, <2>4, LookBackOK DEF VerifyNext, ChainInd
<1> QED  BY <1>2, <1>3 DEF ChainNext

\* In an undisturbed log, a fetched row that is present is compared with what it
\* points at, or that is attested.
LEMMA PresentRowPasses ==
  ASSUME ChainInd, verify.at = "looked", lost = {}, ~inverted, ~overtaken,
         NEW r \in verify.rows, r \in chain
  PROVE  ChainOk(r)
<1>1. /\ LogTypeOK /\ LinksKnown /\ verify \in VerifyStates
      /\ FetchedClimb /\ FirstFound
  BY VerifyFields DEF ChainInd, LogInd, VerifyOK
<1>2. /\ verify.rows \subseteq RowType /\ verify.first \in Nat
      /\ \A s \in RowType : s.seq \in Nat /\ s.prev \in Nat /\ 0 < s.seq
  BY <1>1, VerifyFields, RowFields
<1>3. \A s \in chain : s.seq \in Nat
  BY <1>1, <1>2 DEF LogTypeOK
<1>4. r.prev < r.seq /\ Known(r.prev)
  BY <1>1 DEF FetchedClimb, LinksKnown
<1> DEFINE before == {s \in verify.rows : s.seq < r.seq}
<1>5. CASE r.prev # Genesis /\ HasAttestedGap(r.prev)
  BY <1>5 DEF ChainOk
<1>6. CASE before = {}
  <2>1. ExpectedPrevious(r) = verify.first
    BY <1>6 DEF ExpectedPrevious
  <2>2. \A b \in verify.rows : r.seq <= b.seq
    BY <1>2, <1>6
  <2>3. verify.first <= r.prev /\ \A s \in chain : s.seq < r.seq => s.seq <= verify.first
    BY <1>1, <2>2 DEF FirstFound
  <2>4. CASE r.prev = Genesis
    BY <1>2, <2>1, <2>3, <2>4 DEF ChainOk, Genesis
  <2>5. ASSUME NEW s \in chain, s.seq = r.prev PROVE ChainOk(r)
    BY <1>2, <1>3, <1>4, <2>1, <2>3, <2>5 DEF ChainOk
  <2> QED  BY <1>4, <1>5, <2>4, <2>5 DEF Known
<1>7. CASE before # {}
  <2>1. ExpectedPrevious(r) = TailOf(before)
    BY <1>7 DEF ExpectedPrevious
  <2>2. before \subseteq RowType /\ \A b \in before : b.seq <= r.prev /\ b \in verify.rows
    BY <1>1, <1>2 DEF FetchedClimb
  <2>3. PICK b \in before : TRUE
    BY <1>7
  <2>4. r.prev # Genesis
    BY <1>2, <2>2, <2>3 DEF Genesis
  <2>5. ASSUME NEW s \in chain, s.seq = r.prev PROVE ChainOk(r)
    <3>1. s \in before
      BY <1>1, <1>4, <2>3, <2>5 DEF FetchedClimb
    <3>2. PICK t \in before : TailOf(before) = t.seq /\ s.seq <= t.seq
      <4> HIDE DEF before
      <4> QED  BY <1>7, <2>2, <3>1, TailFacts
    <3> QED  BY <1>2, <1>3, <2>1, <2>2, <2>5, <3>2 DEF ChainOk
  <2> QED  BY <1>4, <1>5, <2>4, <2>5 DEF Known
<1> QED  BY <1>6, <1>7

\* The invariant is at least as strong as what the runs check.
LEMMA ChainIndSafe == ChainInd => ChainSafe
<1> SUFFICES ASSUME ChainInd PROVE ChainSafe
  OBVIOUS
<1>1. LogTypeOK /\ SeqIsKey /\ LinksClimb /\ VerifyOK
  BY DEF ChainInd, LogInd
<1>2. \A s \in chain : s.seq \in Nat /\ s.prev \in Nat /\ 0 < s.seq /\ s.prev < s.seq
  BY <1>1, RowFields DEF LogTypeOK
<1>3. NoFork
  BY <1>1, <1>2 DEF NoFork, LinksClimb, SeqIsKey
<1>4. ChainTypeOK
  BY <1>1, VerifyFields DEF ChainTypeOK, VerifyOK
<1>5. NoFalseAlarm
  BY PresentRowPasses DEF NoFalseAlarm, Reported
<1>6. LostRowReported
  <2> SUFFICES ASSUME verify.at = "looked", NEW r \in verify.rows, r.prev \in verify.lost,
                      ~HasAttestedGap(r.prev), ChainOk(r)
               PROVE  FALSE
    BY DEF LostRowReported, Reported
  <2>1. LostUnseen /\ verify.rows \subseteq RowType
    BY <1>1, VerifyFields DEF VerifyOK
  <2> DEFINE before == {s \in verify.rows : s.seq < r.seq}
  <2>2. r.prev = ExpectedPrevious(r)
    BY DEF ChainOk
  <2>3. CASE before = {}
    BY <2>1, <2>2, <2>3 DEF ExpectedPrevious, LostUnseen
  <2>4. CASE before # {}
    <3>1. r.prev = TailOf(before) /\ before \subseteq verify.rows /\ before \subseteq RowType
      BY <2>1, <2>2, <2>4 DEF ExpectedPrevious
    <3>2. \E s \in before : TailOf(before) = s.seq
      <4> HIDE DEF before
      <4> QED  BY <2>4, <3>1, TailFacts
    <3> QED  BY <2>1, <3>1, <3>2 DEF LostUnseen
  <2> QED  BY <2>3, <2>4
<1> QED  BY <1>3, <1>4, <1>5, <1>6 DEF ChainSafe

\* The chain never forks; a verification, whatever is appended and purged between
\* its statements, reports no row of an undisturbed log that is still there, and
\* it reports the successor of a row lost before it began: for any writers, ranges,
\* retention periods and length of the log.
THEOREM ChainAlwaysSafe == ChainSpec => []ChainSafe
<1>1. ChainInit => ChainInd
  BY ChainInitInd
<1>2. ChainInd /\ [ChainNext]_chainVars => ChainInd'
  BY ChainPreserved
<1>3. ChainInd => ChainSafe
  BY ChainIndSafe
<1> QED  BY <1>1, <1>2, <1>3, PTL DEF ChainSpec

-----------------------------------------------------------------------------
(* AuditQuota: the strengthening of QuotaSafe. *)

\* The states of a writer between its gates and the end of its transaction, of
\* an operator between the read and the upsert, and of the reconciliation.
GatedStates == [at : {"gated"}, class : Classes, size : Nat \ {0}, count : Nat,
                window : BOOLEAN, admitted : Nat]
OperatorStates == [at : {"read"}, quota : Quotas \cup {Null}, keepQuota : BOOLEAN,
                   rate : Rates \cup {Null}, keepRate : BOOLEAN]
ReconStates == [at : {"summed", "done"}, bytes : Nat, since : Nat, short : Nat,
                failed : BOOLEAN]

\* The transactions are in one of their states and the counters are numbers.
QuotaWorkOK ==
  /\ charge \in [Charges -> GatedStates \cup {NoGate}]
  /\ operator \in [Operators -> OperatorStates \cup {NoGate}]
  /\ recon \in ReconStates \cup {NoGate}
  /\ summed \in Nat /\ since \in Nat /\ short \in Nat /\ undone \in Nat
  /\ admitted \in Nat

\* The reservation of the transaction in flight is part of the counter.
ReservationHeld == \A w \in Charges : charge[w] # NoGate => charge[w].size <= used

\* The sum the reconciliation will write back covers what is stored, but for the
\* entries written after it: their estimates, and what they exceed them by.
SumBounds ==
  /\ stored <= MaxUsed
  /\ recon # NoGate => /\ recon.bytes <= MaxUsed
                       /\ stored <= recon.bytes + recon.since + recon.short

\* The counter against the last sum, and what is stored against the counter.
DriftBounded == CounterExplained /\ StoredCovered

\* The writes admitted in the window are among the writes it counted, also in
\* what a transaction would restore.
AdmittedCounted ==
  /\ window => admitted <= count
  /\ \A w \in Charges : charge[w] # NoGate /\ charge[w].window =>
       charge[w].admitted <= charge[w].count

QuotaInd ==
  /\ QuotaTypeOK /\ QuotaWorkOK /\ ReservationHeld /\ SumBounds /\ AdmittedCounted
  /\ DriftBounded

\* The states have their fields, and an idle actor is in none of them.
LEMMA QuotaFields ==
  /\ NoGate.at = "idle" /\ NoGate \notin GatedStates /\ NoGate \notin OperatorStates
  /\ NoGate \notin ReconStates
  /\ \A g \in GatedStates : /\ g.at = "gated" /\ g.size \in Nat /\ g.size > 0
                            /\ g.count \in Nat /\ g.admitted \in Nat
  /\ \A o \in OperatorStates : /\ o.at = "read" /\ o.quota \in Quotas \cup {Null}
                               /\ o.rate \in Rates \cup {Null}
  /\ \A c \in ReconStates : /\ c.at \in {"summed", "done"} /\ c.bytes \in Nat
                            /\ c.since \in Nat /\ c.short \in Nat
<1>1. /\ NoGate.at = "idle" /\ NoGate \notin GatedStates /\ NoGate \notin OperatorStates
      /\ NoGate \notin ReconStates
  BY DEF NoGate, GatedStates, OperatorStates, ReconStates
<1>2. \A g \in GatedStates : /\ g.at = "gated" /\ g.size \in Nat /\ g.size > 0
                            /\ g.count \in Nat /\ g.admitted \in Nat
  BY DEF GatedStates
<1>3. \A o \in OperatorStates : /\ o.at = "read" /\ o.quota \in Quotas \cup {Null}
                               /\ o.rate \in Rates \cup {Null}
  BY DEF OperatorStates
<1>4. \A c \in ReconStates : /\ c.at \in {"summed", "done"} /\ c.bytes \in Nat
                            /\ c.since \in Nat /\ c.short \in Nat
  BY DEF ReconStates
<1> QED  BY <1>1, <1>2, <1>3, <1>4

\* What an aborted transaction restores is a flag.
LEMMA GatedWindow == \A g \in GatedStates : g.window \in BOOLEAN
BY DEF GatedStates

\* The sums of the quotas and rates are numbers.
LEMMA QuotaNumbers ==
  /\ Quotas \subseteq Nat /\ Rates \subseteq Nat /\ Sizes \subseteq Nat
  /\ StoredSizes \subseteq Nat
  /\ MaxUsed \in Nat /\ MaxCount \in Nat /\ EntrySize \in Nat /\ EntrySize > 0
  /\ DefaultQuota \in Nat /\ DefaultRate \in Nat /\ "none" \notin Charges
  /\ \A n \in Sizes : n > 0
BY QuotaBounds

\* The first state satisfies the invariant.
LEMMA QuotaInitInd == QuotaInit => QuotaInd
<1> SUFFICES ASSUME QuotaInit PROVE QuotaInd
  OBVIOUS
<1>1. window \in BOOLEAN
  BY Zenon DEF QuotaInit
<1>2. QuotaTypeOK
  BY <1>1, QuotaNumbers, QuotaFields DEF QuotaInit, QuotaTypeOK, NoRow, Null
<1>3. QuotaWorkOK /\ ReservationHeld /\ SumBounds /\ DriftBounded
  BY QuotaNumbers, QuotaFields
     DEF QuotaInit, QuotaWorkOK, ReservationHeld, SumBounds, DriftBounded, CounterExplained, StoredCovered, InFlight
<1>4. AdmittedCounted
  BY DEF QuotaInit, AdmittedCounted
<1> QED  BY <1>2, <1>3, <1>4 DEF QuotaInd

\* A stored entry is accounted for in the drift, and in the sum still to be
\* written back: by its estimate, and by what it exceeds it.
LEMMA EntryStored ==
  ASSUME QuotaTypeOK, QuotaWorkOK, SumBounds, NEW n \in Nat, Stored(n)
  PROVE  /\ \E m \in Nat, o \in Nat :
              /\ stored' = stored + m /\ short' = short + o /\ m <= n + o
         /\ since' = since + n /\ summed' = summed /\ undone' = undone
         /\ stored' \in Nat /\ since' \in Nat /\ short' \in Nat
         /\ recon' \in ReconStates \cup {NoGate} /\ recon'.at = recon.at
         /\ SumBounds'
<1>1. PICK m \in StoredSizes :
        /\ stored + m <= MaxUsed /\ stored' = stored + m
        /\ since' = since + n /\ short' = short + Over(m, n)
        /\ recon' = IF recon = NoGate THEN recon
                    ELSE [recon EXCEPT !.since = @ + n, !.short = @ + Over(m, n)]
        /\ UNCHANGED <<summed, undone>>
  BY DEF Stored
<1>2. m \in Nat /\ Over(m, n) \in Nat /\ m <= n + Over(m, n)
  BY QuotaNumbers DEF Over
<1>3. stored' \in Nat /\ since' \in Nat /\ short' \in Nat
  BY <1>1, <1>2 DEF QuotaTypeOK, QuotaWorkOK
<1>4. CASE recon = NoGate
  BY <1>1, <1>2, <1>3, <1>4 DEF SumBounds
<1>5. CASE recon # NoGate
  <2>1. recon \in ReconStates
    BY <1>5 DEF QuotaWorkOK
  <2>2. recon' = [recon EXCEPT !.since = @ + n, !.short = @ + Over(m, n)]
    BY <1>1, <1>5
  <2> DEFINE o == Over(m, n)
  <2>3. /\ recon' \in ReconStates /\ recon'.at = recon.at
        /\ recon'.bytes = recon.bytes /\ recon'.since = recon.since + n
        /\ recon'.short = recon.short + Over(m, n)
    <3>1. o \in Nat /\ recon' = [recon EXCEPT !.since = @ + n, !.short = @ + o]
      BY <1>2, <2>2
    <3> HIDE DEF o
    <3>2. recon = [at |-> recon.at, bytes |-> recon.bytes, since |-> recon.since,
                   short |-> recon.short, failed |-> recon.failed]
      BY <2>1 DEF ReconStates
    <3>3. recon' = [at |-> recon.at, bytes |-> recon.bytes, since |-> recon.since + n,
                    short |-> recon.short + o, failed |-> recon.failed]
      BY <3>1, <3>2
    <3>4. /\ recon.at \in {"summed", "done"} /\ recon.bytes \in Nat
          /\ recon.since + n \in Nat /\ recon.short + o \in Nat /\ recon.failed \in BOOLEAN
      BY <2>1, <3>1 DEF ReconStates
    <3>5. recon' \in ReconStates
      BY <3>3, <3>4 DEF ReconStates
    <3> QED  BY <3>3, <3>5 DEF o
  <2>4. SumBounds'
    BY <1>1, <1>2, <1>5, <2>1, <2>3, QuotaFields DEF SumBounds, QuotaTypeOK
  <2> QED  BY <1>1, <1>2, <1>3, <2>3, <2>4
<1> QED  BY <1>4, <1>5

\* Every step keeps the invariant of the counters.
LEMMA QuotaPreserved ==
  ASSUME QuotaInd, [QuotaNext]_quotaVars
  PROVE  QuotaInd'
<1>1. /\ QuotaTypeOK /\ QuotaWorkOK /\ ReservationHeld /\ SumBounds
      /\ AdmittedCounted /\ DriftBounded
  BY DEF QuotaInd
<1>2. ASSUME NEW w \in Charges,
             NEW c \in Classes, NEW n \in Sizes, Gate(w, c, n)
      PROVE  QuotaInd'
  <2>1. QuotaTypeOK'
    BY <1>1, <1>2, QuotaNumbers, QuotaFields, GatedWindow
       DEF Gate, Bounded, NewCount, alertVars, drift, QuotaTypeOK, Null,
           QuotaWorkOK, ReservationHeld, SumBounds
  <2>2. QuotaWorkOK'
    <3> DEFINE g == [at |-> "gated", class |-> c, size |-> n, count |-> count,
                     window |-> window, admitted |-> admitted]
    <3>1. window \in BOOLEAN /\ count \in Nat /\ admitted \in Nat
      BY <1>1 DEF QuotaTypeOK, QuotaWorkOK
    <3>2. n \in Nat \ {0}
      BY QuotaNumbers
    <3>3. g \in GatedStates
      BY <3>1, <3>2 DEF GatedStates
    <3> HIDE DEF g
    <3>4. charge' \in [Charges -> GatedStates \cup {NoGate}]
      BY <1>1, <1>2, <3>3 DEF Gate, QuotaWorkOK, g
    <3>5. admitted' \in Nat
      BY <3>1, <1>2 DEF Gate
    <3> QED  BY <1>1, <1>2, <3>4, <3>5 DEF Gate, drift, QuotaWorkOK
  <2>3. ReservationHeld'
    BY <1>1, <1>2, QuotaNumbers, QuotaFields, GatedWindow
       DEF Gate, Bounded, NewCount, alertVars, drift, ReservationHeld, QuotaTypeOK,
           Null, QuotaWorkOK, SumBounds
  <2>4. AdmittedCounted'
    BY <1>1, <1>2, QuotaNumbers, QuotaFields, GatedWindow
       DEF Gate, Bounded, NewCount, alertVars, drift, AdmittedCounted, QuotaTypeOK,
           Null, QuotaWorkOK, ReservationHeld, SumBounds
  <2>5. DriftBounded'
    BY <1>1, <1>2, QuotaNumbers, QuotaFields, GatedWindow
       DEF Gate, Bounded, NewCount, alertVars, drift, DriftBounded, CounterExplained, StoredCovered, InFlight,
           QuotaTypeOK, Null, QuotaWorkOK, ReservationHeld, SumBounds
  <2>6. SumBounds'
    BY <1>1, <1>2 DEF Gate, Bounded, NewCount, alertVars, drift, SumBounds
  <2> QED  BY <2>1, <2>2, <2>3, <2>4, <2>5, <2>6
              DEF QuotaInd
<1>3. ASSUME NEW w \in Charges, Commit(w)
      PROVE  QuotaInd'
  <2>1. /\ charge[w] \in GatedStates /\ charge[w].size \in Nat /\ locked = w
        /\ Stored(charge[w].size)
    BY <1>1, <1>3, QuotaFields DEF Commit, QuotaWorkOK, QuotaTypeOK
  <2>2. PICK m \in Nat, o \in Nat :
          /\ stored' = stored + m /\ short' = short + o /\ m <= charge[w].size + o
    BY <1>1, <2>1, EntryStored
  <2>3. /\ since' = since + charge[w].size /\ summed' = summed /\ undone' = undone
        /\ stored' \in Nat /\ since' \in Nat /\ short' \in Nat
        /\ recon' \in ReconStates \cup {NoGate} /\ recon'.at = recon.at
        /\ SumBounds'
    BY <1>1, <2>1, EntryStored
  <2>4. /\ charge' = [charge EXCEPT ![w] = NoGate] /\ locked' = "none"
        /\ UNCHANGED <<usage, config, operator, alertVars, changes, admitted>>
    BY <1>3 DEF Commit
  <2>5. QuotaTypeOK'
    BY <1>1, <2>1, <2>3, <2>4, QuotaNumbers, QuotaFields
       DEF alertVars, usage, QuotaTypeOK, Null, QuotaWorkOK
  <2>6. QuotaWorkOK'
    BY <1>1, <2>3, <2>4 DEF QuotaWorkOK
  <2>7. ReservationHeld' /\ AdmittedCounted'
    BY <1>1, <2>4 DEF usage, ReservationHeld, AdmittedCounted, QuotaWorkOK
  <2>8. DriftBounded'
    <3>1. used' = used /\ used \in Nat /\ stored \in Nat
      BY <1>1, <2>4, QuotaNumbers DEF usage, QuotaTypeOK
    <3>2. locked # "none"
      BY <2>1, QuotaNumbers
    <3>3. /\ used + undone = summed + since + charge[w].size
          /\ stored + charge[w].size <= used + short + undone
      BY <1>1, <2>1, <3>2 DEF DriftBounded, CounterExplained, StoredCovered, InFlight
    <3>4. /\ used' + undone' = summed' + since'
          /\ stored' <= used' + short' + undone'
      BY <1>1, <2>1, <2>2, <2>3, <3>1, <3>3 DEF QuotaWorkOK
    <3>5. InFlight' = 0
      BY <2>4 DEF InFlight
    <3>6. summed' + since' \in Nat
      BY <1>1, <2>3 DEF QuotaWorkOK
    <3> QED  BY <2>3, <3>4, <3>5, <3>6 DEF DriftBounded, CounterExplained, StoredCovered
  <2> QED  BY <2>3, <2>5, <2>6, <2>7, <2>8 DEF QuotaInd
<1>4. ASSUME NEW w \in Charges, Abort(w)
      PROVE  QuotaInd'
  <2>1. QuotaTypeOK'
    BY <1>1, <1>4, QuotaNumbers, QuotaFields, GatedWindow
       DEF Abort, alertVars, drift, QuotaTypeOK, Null, QuotaWorkOK, ReservationHeld,
           SumBounds
  <2>2. QuotaWorkOK'
    BY <1>1, <1>4, QuotaNumbers, QuotaFields, GatedWindow
       DEF Abort, alertVars, drift, QuotaWorkOK, QuotaTypeOK, Null, ReservationHeld,
           SumBounds
  <2>3. ReservationHeld'
    BY <1>1, <1>4, QuotaNumbers, QuotaFields, GatedWindow
       DEF Abort, alertVars, drift, ReservationHeld, QuotaTypeOK, Null, QuotaWorkOK,
           SumBounds
  <2>4. AdmittedCounted'
    BY <1>1, <1>4, QuotaNumbers, QuotaFields, GatedWindow
       DEF Abort, alertVars, drift, AdmittedCounted, QuotaTypeOK, Null, QuotaWorkOK,
           ReservationHeld, SumBounds
  <2>5. DriftBounded'
    BY <1>1, <1>4, QuotaNumbers, QuotaFields, GatedWindow
       DEF Abort, alertVars, drift, DriftBounded, CounterExplained, StoredCovered, InFlight, QuotaTypeOK, Null,
           QuotaWorkOK, ReservationHeld, SumBounds
  <2>6. SumBounds'
    BY <1>1, <1>4 DEF Abort, alertVars, drift, SumBounds
  <2> QED  BY <2>1, <2>2, <2>3, <2>4, <2>5, <2>6
              DEF QuotaInd
<1>5. CASE WindowEnds
  <2>1. QuotaTypeOK'
    BY <1>1, <1>5, QuotaNumbers, QuotaFields, GatedWindow
       DEF WindowEnds, alertVars, drift, QuotaTypeOK, Null, QuotaWorkOK,
           ReservationHeld, SumBounds
  <2>2. QuotaWorkOK'
    BY <1>1, <1>5, QuotaNumbers, QuotaFields, GatedWindow
       DEF WindowEnds, alertVars, drift, QuotaWorkOK, QuotaTypeOK, Null,
           ReservationHeld, SumBounds
  <2>3. AdmittedCounted'
    BY <1>1, <1>5, QuotaNumbers, QuotaFields, GatedWindow
       DEF WindowEnds, alertVars, drift, AdmittedCounted, QuotaTypeOK, Null,
           QuotaWorkOK, ReservationHeld, SumBounds
  <2>4. ReservationHeld' /\ SumBounds' /\ DriftBounded'
    BY <1>1, <1>5
       DEF WindowEnds, alertVars, drift, ReservationHeld, SumBounds, DriftBounded,
           CounterExplained, StoredCovered, InFlight
  <2> QED  BY <2>1, <2>2, <2>3, <2>4
              DEF QuotaInd
<1>6. CASE Purge
  <2>1. QuotaTypeOK'
    BY <1>1, <1>6, QuotaNumbers, QuotaFields, GatedWindow
       DEF Purge, alertVars, drift, usage, QuotaTypeOK, Null, QuotaWorkOK,
           ReservationHeld, SumBounds
  <2>2. QuotaWorkOK'
    BY <1>1, <1>6 DEF Purge, drift, QuotaWorkOK
  <2>3. ReservationHeld'
    BY <1>1, <1>6, QuotaNumbers, QuotaFields, GatedWindow
       DEF Purge, alertVars, drift, usage, ReservationHeld, QuotaTypeOK, Null,
           QuotaWorkOK, SumBounds
  <2>4. SumBounds'
    BY <1>1, <1>6, QuotaNumbers, QuotaFields, GatedWindow
       DEF Purge, alertVars, drift, usage, SumBounds, QuotaTypeOK, Null,
           QuotaWorkOK, ReservationHeld
  <2>5. DriftBounded'
    BY <1>1, <1>6, QuotaNumbers, QuotaFields, GatedWindow
       DEF Purge, alertVars, drift, usage, DriftBounded, CounterExplained, StoredCovered, InFlight, QuotaTypeOK,
           Null, QuotaWorkOK, ReservationHeld, SumBounds
  <2>6. AdmittedCounted'
    BY <1>1, <1>6 DEF Purge, alertVars, drift, usage, AdmittedCounted
  <2> QED  BY <2>1, <2>2, <2>3, <2>4, <2>5, <2>6
              DEF QuotaInd
<1>7. ASSUME NEW o \in Operators,
             NEW q \in Given(Quotas) \cup {Keep}, NEW r \in Given(Rates) \cup {Keep}, QuotaRead(o, q, r)
      PROVE  QuotaInd'
  <2>1. QuotaTypeOK'
    BY <1>1, <1>7, QuotaNumbers, QuotaFields, GatedWindow
       DEF QuotaRead, Keep, Merged, alertVars, drift, usage, QuotaTypeOK, Null,
           QuotaWorkOK, ReservationHeld, SumBounds
  <2>2. QuotaWorkOK'
    <3> DEFINE s == [at |-> "read",
                     quota |-> Merged(q, config.quota), keepQuota |-> q = Keep,
                     rate |-> Merged(r, config.rate), keepRate |-> r = Keep]
    <3>1. Merged(q, config.quota) \in Quotas \cup {Null}
      BY <1>1 DEF Merged, Given, Keep, QuotaTypeOK
    <3>2. Merged(r, config.rate) \in Rates \cup {Null}
      BY <1>1 DEF Merged, Given, Keep, QuotaTypeOK
    <3>3. (q = Keep) \in BOOLEAN /\ (r = Keep) \in BOOLEAN
      OBVIOUS
    <3>4. s \in OperatorStates
      <4> HIDE DEF Merged
      <4> QED  BY <3>1, <3>2, <3>3 DEF OperatorStates
    <3> HIDE DEF s
    <3>5. operator' \in [Operators -> OperatorStates \cup {NoGate}]
      BY <1>1, <1>7, <3>4 DEF QuotaRead, QuotaWorkOK, s
    <3> QED  BY <1>1, <1>7, <3>5 DEF QuotaRead, drift, QuotaWorkOK
  <2>3. ReservationHeld' /\ SumBounds' /\ AdmittedCounted' /\ DriftBounded'
    BY <1>1, <1>7
       DEF QuotaRead, Keep, Merged, alertVars, drift, usage, ReservationHeld,
           SumBounds, AdmittedCounted, DriftBounded, CounterExplained, StoredCovered, InFlight
  <2> QED  BY <2>1, <2>2, <2>3
              DEF QuotaInd
<1>8. ASSUME NEW o \in Operators, QuotaWrite(o)
      PROVE  QuotaInd'
  <2>1. Stored(EntrySize) /\ EntrySize \in Nat
    BY <1>8, QuotaNumbers DEF QuotaWrite
  <2>2. PICK m \in Nat, x \in Nat :
          /\ stored' = stored + m /\ short' = short + x /\ m <= EntrySize + x
    BY <1>1, <2>1, EntryStored
  <2>3. /\ since' = since + EntrySize /\ summed' = summed /\ undone' = undone
        /\ stored' \in Nat /\ since' \in Nat /\ short' \in Nat
        /\ recon' \in ReconStates \cup {NoGate} /\ recon'.at = recon.at
        /\ SumBounds'
    BY <1>1, <2>1, EntryStored
  <2>4. QuotaTypeOK'
    BY <1>1, <1>8, <2>3, QuotaNumbers, QuotaFields
       DEF QuotaWrite, Bounded, NewCount, alertVars, QuotaTypeOK, Null, QuotaWorkOK
  <2>5. QuotaWorkOK'
    <3>1. operator' \in [Operators -> OperatorStates \cup {NoGate}] /\ admitted' \in Nat
      BY <1>1, <1>8 DEF QuotaWrite, QuotaWorkOK
    <3> QED  BY <1>1, <1>8, <2>3, <3>1 DEF QuotaWrite, QuotaWorkOK
  <2>6. ReservationHeld' /\ AdmittedCounted'
    BY <1>1, <1>8, QuotaNumbers, QuotaFields, GatedWindow
       DEF QuotaWrite, Bounded, NewCount, ReservationHeld, AdmittedCounted,
           QuotaTypeOK, Null, QuotaWorkOK
  <2>7. DriftBounded'
    <3>1. /\ used' = used + EntrySize /\ locked = "none" /\ locked' = locked
          /\ used \in Nat /\ stored \in Nat
      BY <1>1, <1>8, QuotaNumbers DEF QuotaWrite, QuotaTypeOK
    <3>2. /\ used + undone = summed + since + 0
          /\ stored + 0 <= used + short + undone
      BY <1>1, <3>1 DEF DriftBounded, CounterExplained, StoredCovered, InFlight
    <3>3. /\ used' + undone' = summed' + since' + 0
          /\ stored' + 0 <= used' + short' + undone'
      BY <1>1, <2>1, <2>2, <2>3, <3>1, <3>2 DEF QuotaWorkOK
    <3> QED  BY <3>1, <3>3 DEF DriftBounded, CounterExplained, StoredCovered, InFlight
  <2> QED  BY <2>3, <2>4, <2>5, <2>6, <2>7 DEF QuotaInd
<1>9. CASE ReconSum
  <2>1. QuotaTypeOK'
    BY <1>1, <1>9, QuotaNumbers, QuotaFields, GatedWindow
       DEF ReconSum, alertVars, drift, usage, QuotaTypeOK, Null, QuotaWorkOK,
           ReservationHeld, SumBounds
  <2>2. QuotaWorkOK'
    <3>1. recon' \in ReconStates
      BY <1>1, <1>9 DEF ReconSum, ReconStates, QuotaTypeOK
    <3> QED  BY <1>1, <1>9, <3>1 DEF ReconSum, drift, QuotaWorkOK
  <2>3. SumBounds'
    BY <1>1, <1>9, QuotaNumbers, QuotaFields, GatedWindow
       DEF ReconSum, alertVars, drift, usage, SumBounds, QuotaTypeOK, Null,
           QuotaWorkOK, ReservationHeld
  <2>4. ReservationHeld' /\ AdmittedCounted' /\ DriftBounded'
    BY <1>1, <1>9
       DEF ReconSum, alertVars, drift, usage, ReservationHeld, AdmittedCounted,
           DriftBounded, CounterExplained, StoredCovered, InFlight
  <2> QED  BY <2>1, <2>2, <2>3, <2>4
              DEF QuotaInd
<1>10. CASE WriteBack
  <2>1. QuotaTypeOK'
    BY <1>1, <1>10, QuotaNumbers, QuotaFields, GatedWindow
       DEF WriteBack, NewCritical, NewEpisode, NewWarning, QuotaTypeOK, Null,
           QuotaWorkOK, ReservationHeld, SumBounds
  <2>2. QuotaWorkOK'
    <3>1. recon \in ReconStates
      BY <1>1, <1>10, QuotaFields DEF WriteBack, QuotaWorkOK
    <3>2. recon' \in ReconStates
      BY <1>10, <3>1 DEF WriteBack, ReconStates
    <3> QED  BY <1>1, <1>10, <3>1, <3>2, QuotaFields DEF WriteBack, QuotaWorkOK
  <2>3. ReservationHeld'
    BY <1>1, <1>10, QuotaNumbers, QuotaFields, GatedWindow
       DEF WriteBack, NewCritical, NewEpisode, NewWarning, ReservationHeld,
           QuotaTypeOK, Null, QuotaWorkOK, SumBounds
  <2>4. SumBounds'
    BY <1>1, <1>10, QuotaNumbers, QuotaFields, GatedWindow
       DEF WriteBack, NewCritical, NewEpisode, NewWarning, SumBounds,
           QuotaTypeOK, Null, QuotaWorkOK, ReservationHeld
  <2>5. DriftBounded'
    <3>1. recon \in ReconStates /\ recon # NoGate /\ stored \in Nat
      BY <1>1, <1>10, QuotaFields DEF WriteBack, QuotaWorkOK, QuotaTypeOK
    <3>2. /\ used' = recon.bytes /\ summed' = recon.bytes /\ since' = recon.since
          /\ short' = recon.short /\ undone' = recon.since
          /\ stored' = stored /\ locked' = "none"
      BY <1>10 DEF WriteBack
    <3>3. stored <= recon.bytes + recon.since + recon.short
      BY <1>1, <3>1 DEF SumBounds
    <3> QED  BY <3>1, <3>2, <3>3, QuotaFields
                DEF DriftBounded, CounterExplained, StoredCovered, InFlight
  <2>6. AdmittedCounted'
    BY <1>1, <1>10
       DEF WriteBack, NewCritical, NewEpisode, NewWarning, AdmittedCounted
  <2> QED  BY <2>1, <2>2, <2>3, <2>4, <2>5, <2>6
              DEF QuotaInd
<1>11. CASE WriteBackFails
  <2>1. QuotaTypeOK'
    BY <1>1, <1>11, QuotaNumbers, QuotaFields, GatedWindow
       DEF WriteBackFails, NewCritical, NewEpisode, NewWarning, alertVars, drift,
           usage, QuotaTypeOK, Null, QuotaWorkOK, ReservationHeld, SumBounds
  <2>2. QuotaWorkOK'
    <3>1. recon \in ReconStates
      BY <1>1, <1>11, QuotaFields DEF WriteBackFails, QuotaWorkOK
    <3>2. recon' \in ReconStates
      BY <1>11, <3>1 DEF WriteBackFails, ReconStates
    <3> QED  BY <1>1, <1>11, <3>2 DEF WriteBackFails, drift, QuotaWorkOK
  <2>3. SumBounds'
    BY <1>1, <1>11, QuotaNumbers, QuotaFields, GatedWindow
       DEF WriteBackFails, NewCritical, NewEpisode, NewWarning, alertVars, drift,
           usage, SumBounds, QuotaTypeOK, Null, QuotaWorkOK, ReservationHeld
  <2>4. ReservationHeld' /\ AdmittedCounted' /\ DriftBounded'
    BY <1>1, <1>11
       DEF WriteBackFails, NewCritical, NewEpisode, NewWarning, alertVars, drift,
           usage, ReservationHeld, AdmittedCounted, DriftBounded, CounterExplained, StoredCovered, InFlight
  <2> QED  BY <2>1, <2>2, <2>3, <2>4
              DEF QuotaInd
<1>12. CASE ReconEnd
  <2>1. QuotaTypeOK'
    BY <1>1, <1>12, QuotaNumbers, QuotaFields, GatedWindow
       DEF ReconEnd, alertVars, drift, usage, QuotaTypeOK, Null, QuotaWorkOK,
           ReservationHeld, SumBounds
  <2>2. QuotaWorkOK'
    BY <1>1, <1>12, QuotaNumbers, QuotaFields, GatedWindow
       DEF ReconEnd, alertVars, drift, usage, QuotaWorkOK, QuotaTypeOK, Null,
           ReservationHeld, SumBounds
  <2>3. SumBounds'
    BY <1>1, <1>12, QuotaNumbers, QuotaFields, GatedWindow
       DEF ReconEnd, alertVars, drift, usage, SumBounds, QuotaTypeOK, Null,
           QuotaWorkOK, ReservationHeld
  <2>4. ReservationHeld' /\ AdmittedCounted' /\ DriftBounded'
    BY <1>1, <1>12
       DEF ReconEnd, alertVars, drift, usage, ReservationHeld, AdmittedCounted,
           DriftBounded, CounterExplained, StoredCovered, InFlight
  <2> QED  BY <2>1, <2>2, <2>3, <2>4
              DEF QuotaInd
<1>13. CASE UNCHANGED quotaVars
  BY <1>1, <1>13
     DEF quotaVars, alertVars, drift, usage, AdmittedCounted, DriftBounded,
         CounterExplained, StoredCovered, InFlight, Null, QuotaInd, QuotaTypeOK, QuotaWorkOK, ReservationHeld,
         SumBounds
<1> QED  BY <1>2, <1>3, <1>4, <1>5, <1>6, <1>7, <1>8, <1>9, <1>10, <1>11,
            <1>12, <1>13
            DEF QuotaNext

\* The storage counter is the last sum with the reservations since, and what is
\* stored passes it only by the errors of the estimates since that sum and by what
\* the write-back undid (runGateStatement, the reconciliation), for any writers and
\* operators, any quotas, any estimates and any stored sizes.
THEOREM QuotaAlwaysSafe == QuotaSpec => []QuotaSafe
<1>1. QuotaInit => QuotaInd
  BY QuotaInitInd
<1>2. QuotaInd /\ [QuotaNext]_quotaVars => QuotaInd'
  BY QuotaPreserved
<1>3. QuotaInd => QuotaSafe
  BY DEF QuotaInd, QuotaSafe, DriftBounded
<1> QED  BY <1>1, <1>2, <1>3, PTL DEF QuotaSpec

\* Only the gates start a charge, and they admit an ordinary write only within
\* the quota and the rate in force.
LEMMA GateRespects ==
  ASSUME QuotaInd, [QuotaNext]_quotaVars, NEW w \in Charges,
         charge[w] = NoGate, charge'[w] # NoGate, charge'[w].class = "ordinary"
  PROVE  /\ stored + charge'[w].size <= EffectiveQuota(config) + short + undone
         /\ admitted' <= EffectiveRate(config)
<1>1. QuotaTypeOK /\ QuotaWorkOK /\ AdmittedCounted /\ DriftBounded
  BY DEF QuotaInd
<1>2. EffectiveQuota(config) \in Nat /\ EffectiveRate(config) \in Nat
  BY <1>1, QuotaNumbers DEF EffectiveQuota, EffectiveRate, Unlimited, QuotaTypeOK, Null
<1>3. ASSUME NEW v \in Charges, NEW c \in Classes, NEW n \in Sizes, Gate(v, c, n)
      PROVE  /\ stored + charge'[w].size <= EffectiveQuota(config) + short + undone
             /\ admitted' <= EffectiveRate(config)
  <2>1. v = w
    BY <1>1, <1>3 DEF Gate, QuotaWorkOK
  <2>2. charge'[w].size = n /\ c = "ordinary"
    BY <1>1, <1>3, <2>1 DEF Gate, QuotaWorkOK
  <2>3. used + n <= EffectiveQuota(config) /\ NewCount <= EffectiveRate(config)
    BY <1>3, <2>2 DEF Gate, RateAdmits, StorageAdmits
  <2>4. stored <= used + short + undone
    BY <1>1, <1>3 DEF Gate, DriftBounded, CounterExplained, StoredCovered, InFlight, QuotaTypeOK, QuotaWorkOK
  <2>5. admitted' <= NewCount
    BY <1>1, <1>3, <2>2 DEF Gate, NewCount, AdmittedCounted, QuotaTypeOK, QuotaWorkOK
  <2>6. NewCount \in Nat /\ admitted' \in Nat
    BY <1>1, <1>3 DEF Gate, NewCount, QuotaTypeOK, QuotaWorkOK
  <2> QED  BY <1>1, <1>2, <2>2, <2>3, <2>4, <2>5, <2>6, QuotaNumbers
              DEF QuotaTypeOK, QuotaWorkOK
<1>4. ASSUME NEW v \in Charges, Commit(v) \/ Abort(v)
      PROVE  FALSE
  BY <1>1, <1>4 DEF Commit, Abort, QuotaWorkOK
<1>5. CASE WindowEnds \/ Purge \/ ReconSum \/ WriteBack \/ WriteBackFails \/ ReconEnd
  BY <1>5 DEF WindowEnds, Purge, ReconSum, WriteBack, WriteBackFails, ReconEnd
<1>6. ASSUME NEW o \in Operators, QuotaWrite(o) \/ \E q, r : QuotaRead(o, q, r)
      PROVE  FALSE
  BY <1>6 DEF QuotaRead, QuotaWrite
<1>7. CASE UNCHANGED quotaVars
  BY <1>7 DEF quotaVars
<1> QED  BY <1>3, <1>4, <1>5, <1>6, <1>7 DEF QuotaNext

\* However writers, aborts, operators and reconciliations interleave, no ordinary
\* write is admitted when what is stored would pass the storage quota by more than
\* the errors of the estimates since the last sum, nor past the write rate.
THEOREM QuotaStepsHold == QuotaSpec => QuotaSteps
<1>1. QuotaInit => QuotaInd
  BY QuotaInitInd
<1>2. QuotaInd /\ [QuotaNext]_quotaVars => QuotaInd'
  BY QuotaPreserved
<1>3. QuotaInd /\ [QuotaNext]_quotaVars =>
        [\A w \in Charges : charge[w] = NoGate /\ charge'[w] # NoGate
           /\ charge'[w].class = "ordinary"
           => stored + charge'[w].size <= EffectiveQuota(config) + short + undone]_quotaVars
  BY GateRespects
<1>4. QuotaInd /\ [QuotaNext]_quotaVars =>
        [\A w \in Charges : charge[w] = NoGate /\ charge'[w] # NoGate
           /\ charge'[w].class = "ordinary"
           => admitted' <= EffectiveRate(config)]_quotaVars
  BY GateRespects
<1> QED  BY <1>1, <1>2, <1>3, <1>4, PTL
            DEF QuotaSpec, QuotaSteps, QuotaRespected, RateRespected
=============================================================================
