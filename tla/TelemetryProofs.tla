-------------------------- MODULE TelemetryProofs --------------------------
(* Proofs about TelemetryShipping, for every number of drains, rows and    *)
(* faults and every size of the queue, the batches, the pages and the file.*)
EXTENDS TelemetryShipping, FiniteSetTheorems, SequenceTheorems,
        WellFoundedInduction, TLAPS

----------------------------------------------------------------------------
(* Sets of numbers that have a bound.                                      *)

Below == {p \in Nat \X Nat : p[1] < p[2]}

\* Every set of numbers has a least member.
LEMMA BelowWellFounded == IsWellFoundedOn(Below, Nat)
<1>1. OpToRel(<, Nat) = Below
  BY DEF OpToRel, Below
<1> QED
  BY <1>1, NatLessThanWellFounded, Zenon

\* Min of a set that is not empty is its least member.
LEMMA HasLeast ==
    ASSUME NEW T \in SUBSET Nat, T # {}
    PROVE  Min(T) \in T /\ \A y \in T : Min(T) <= y
<1>1. PICK x \in T : \A y \in T : <<y, x>> \notin Below
  BY BelowWellFounded, WFMin, Zenon
<1>2. \A y \in T : x =< y
  <2> TAKE y \in T
  <2>1. ~(y < x)
    <3> SUFFICES ASSUME y < x PROVE FALSE
      OBVIOUS
    <3>1. <<y, x>> \in Nat \X Nat
      OBVIOUS
    <3>2. <<y, x>> \in Below
      BY <3>1 DEF Below
    <3> QED
      BY <1>1, <3>2
  <2> QED
    BY <2>1
<1> QED
  BY <1>2 DEF Min

\* Max of a set with a bound is its greatest member.
LEMMA HasMost ==
    ASSUME NEW T \in SUBSET Nat, T # {}, NEW n \in Nat, \A x \in T : x <= n
    PROVE  Max(T) \in T /\ \A y \in T : y <= Max(T)
<1> DEFINE D == {n - x : x \in T}
<1>1. D \in SUBSET Nat /\ D # {}
  <2>1. \A x \in T : n - x \in Nat
    OBVIOUS
  <2>2. PICK x \in T : TRUE
    OBVIOUS
  <2>3. n - x \in D
    BY <2>2
  <2> QED
    BY <2>1, <2>3
<1>2. Min(D) \in D /\ \A y \in D : Min(D) <= y
  <2> HIDE DEF D
  <2> QED
    BY <1>1, HasLeast
<1>3. PICK x \in T : Min(D) = n - x
  BY <1>2
<1>4. \A y \in T : x >= y
  <2> TAKE y \in T
  <2>1. n - y \in D
    OBVIOUS
  <2>2. Min(D) <= n - y
    BY <1>2, <2>1
  <2> HIDE DEF D
  <2>3. x \in Nat /\ y \in Nat /\ n - x <= n - y
    BY <1>3, <2>2
  <2> QED
    BY <2>3
<1> QED
  BY <1>4 DEF Max

----------------------------------------------------------------------------
(* Pages.                                                                  *)

\* The oldest n rows are closed downwards: no older row is left out.
LEMMA OldestClosed ==
    ASSUME NEW R, IsFiniteSet(R), \A e \in R : e.seq \in Nat, NEW n \in Nat,
           NEW f \in Oldest(R, n), NEW e \in R, e.seq <= f.seq
    PROVE  e \in Oldest(R, n)
<1> DEFINE A == {g \in R : g.seq <= e.seq}
           B == {g \in R : g.seq <= f.seq}
<1>1. f \in R /\ Cardinality(B) <= n
  BY DEF Oldest
<1>2. IsFiniteSet(B)
  BY FS_Subset
<1>3. A \subseteq B
  BY <1>1
<1>4. Cardinality(A) <= Cardinality(B) /\ IsFiniteSet(A)
  BY <1>2, <1>3, FS_Subset
<1>5. Cardinality(A) \in Nat /\ Cardinality(B) \in Nat
  BY <1>2, <1>4, FS_CardinalityType
<1>6. Cardinality(A) <= n
  BY <1>1, <1>4, <1>5
<1> QED
  BY <1>6 DEF Oldest

\* A journal is finite, and no row is numbered beyond its head.
Sound(j) == IsFiniteSet(j.rows) /\ \A e \in j.rows : e.seq <= j.head

\* An answer holds every row between the number it was asked with and the
\* number it brings, which is no higher than the journal's head.
LEMMA AnswerCovers ==
    ASSUME TypeOK, Sound(db), NEW c \in Drains, NEW n \in 1 .. PageRows
    PROVE  /\ Answer(c, n) \in Reads
           /\ Answer(c, n).at = "got" /\ Answer(c, n).since = drain[c].since
           /\ Answer(c, n).next = drain[c].since \/ Answer(c, n).next <= db.head
           /\ \A e \in db.rows :
                 drain[c].since < e.seq /\ e.seq <= Answer(c, n).next
                     => e \in Answer(c, n).page
<1> DEFINE since == drain[c].since
           rest == {e \in db.rows : e.seq > since}
           page == Oldest(rest, n)
           T == {e.seq : e \in page} \cup {since}
           top == IF since > db.head THEN since ELSE db.head
<1>1. n \in Nat
  BY SizesAssumption
<1>2. since \in Nat /\ db.head \in Nat /\ \A e \in db.rows : e \in Entries /\ e.seq \in Nat
  BY DEF TypeOK, Reads, Journals, Entries
<1>3. IsFiniteSet(rest) /\ \A e \in rest : e.seq \in Nat
  <2>1. rest \subseteq db.rows
    OBVIOUS
  <2> QED
    BY <1>2, <2>1, FS_Subset DEF Sound
<1>4. page \subseteq rest
  BY DEF Oldest
<1>5. T \in SUBSET Nat /\ T # {}
  BY <1>2, <1>3, <1>4
<1>6. top \in Nat /\ \A x \in T : x <= top
  <2>1. \A e \in page : e.seq \in Nat /\ e.seq <= db.head
    <3> HIDE DEF page
    <3> QED
      BY <1>2, <1>4 DEF Sound
  <2>2. since <= top /\ db.head <= top /\ top \in Nat
    BY <1>2
  <2> HIDE DEF page, top
  <2>3. \A e \in page : e.seq <= top
    BY <1>2, <2>1, <2>2
  <2> QED
    BY <2>2, <2>3
<1>7. Max(T) \in T
  <2> HIDE DEF T, top
  <2> QED
    BY <1>5, <1>6, HasMost
<1>8. Answer(c, n) = [at |-> "got", since |-> since, page |-> page, next |-> Max(T)]
  BY DEF Answer
<1> HIDE DEF page, T
<1>9. Answer(c, n) \in Reads
  <2>1. page \in SUBSET Entries
    BY <1>2, <1>4
  <2>2. Max(T) \in Nat
    BY <1>5, <1>7
  <2> QED
    BY <1>2, <1>8, <2>1, <2>2 DEF Reads
<1>10. CASE Max(T) = since
  BY <1>2, <1>8, <1>9, <1>10
<1>11. CASE Max(T) # since
  <2>1. PICK f \in page : Max(T) = f.seq
    BY <1>7, <1>11 DEF T
  <2>2. \A e \in db.rows : since < e.seq /\ e.seq <= f.seq => e \in page
    <3> SUFFICES ASSUME NEW e \in db.rows, since < e.seq, e.seq <= f.seq
                 PROVE  e \in page
      OBVIOUS
    <3>1. e \in rest
      BY <1>2
    <3> QED
      BY <1>1, <1>3, <3>1, OldestClosed DEF page
  <2>3. f.seq <= db.head
    BY <1>4 DEF Sound
  <2> QED
    BY <1>8, <1>9, <2>1, <2>2, <2>3
<1> QED
  BY <1>10, <1>11

----------------------------------------------------------------------------
(* Types, and that journals are sound.                                     *)

TypeInv == TypeOK /\ Sound(db) /\ Sound(synced)

\* A piece of a queue is a queue.
LEMMA Piece ==
    ASSUME NEW s \in Seq(1 .. MaxRows), NEW m \in Nat \ {0}, NEW n \in 0 .. Len(s)
    PROVE  /\ SubSeq(s, m, n) \in Seq(1 .. MaxRows)
           /\ Len(SubSeq(s, m, n)) = IF m <= n THEN n - m + 1 ELSE 0
<1>1. Len(s) \in Nat /\ \A i \in 1 .. Len(s) : s[i] \in 1 .. MaxRows
  BY LenProperties, ElementOfSeq
<1>2. m \in Int /\ n \in Int /\ \A i \in m .. n : s[i] \in 1 .. MaxRows
  BY <1>1
<1> QED
  BY <1>2, SubSeqProperties

\* What a failed insert leaves in the queue.
LEMMA PutBack ==
    ASSUME NEW s \in Seq(1 .. MaxRows)
    PROVE  LET cutoff == SubSeq(s, 1, IF Len(s) < QueueMax THEN Len(s) ELSE QueueMax)
           IN  cutoff \in Seq(1 .. MaxRows) /\ Len(cutoff) <= QueueMax
<1> DEFINE n == IF Len(s) < QueueMax THEN Len(s) ELSE QueueMax
<1>1. Len(s) \in Nat /\ QueueMax \in Nat \ {0}
  BY LenProperties, SizesAssumption
<1>2. n \in 0 .. Len(s) /\ n <= QueueMax /\ n \in Nat
  BY <1>1
<1> HIDE DEF n
<1>3. /\ SubSeq(s, 1, n) \in Seq(1 .. MaxRows)
      /\ Len(SubSeq(s, 1, n)) = IF 1 <= n THEN n - 1 + 1 ELSE 0
  BY <1>2, Piece
<1>4. Len(SubSeq(s, 1, n)) <= QueueMax
  BY <1>1, <1>2, <1>3
<1> QED
  BY <1>3, <1>4 DEF n

\* append() keeps the queue within queue_max.
LEMMA AppendTyped == TypeInv /\ AppendRow => TypeInv'
<1> SUFFICES ASSUME TypeInv, AppendRow PROVE TypeInv'
  OBVIOUS
<1> DEFINE kept == IF Len(buffer) = QueueMax THEN Tail(buffer) ELSE buffer
<1>1. /\ buffer \in Seq(1 .. MaxRows) /\ Len(buffer) <= QueueMax /\ Len(buffer) \in Nat
      /\ QueueMax \in Nat \ {0} /\ MaxRows \in Nat /\ made \in 0 .. MaxRows
  BY SizesAssumption, LenProperties DEF TypeInv, TypeOK
<1>2. made + 1 \in 1 .. MaxRows
  BY <1>1 DEF AppendRow
<1>3. kept \in Seq(1 .. MaxRows) /\ Len(kept) + 1 <= QueueMax /\ Len(kept) \in Nat
  <2>1. CASE Len(buffer) = QueueMax
    <3>1. buffer # << >>
      BY <1>1, <2>1
    <3>2. Tail(buffer) \in Seq(1 .. MaxRows) /\ Len(Tail(buffer)) = Len(buffer) - 1
      BY <1>1, <3>1, HeadTailProperties
    <3> QED
      BY <1>1, <2>1, <3>2
  <2>2. CASE Len(buffer) # QueueMax
    BY <1>1, <2>2
  <2> QED
    BY <2>1, <2>2
<1>4. buffer' = Append(kept, made + 1)
  BY DEF AppendRow
<1> HIDE DEF kept
<1>5. buffer' \in Seq(1 .. MaxRows) /\ Len(buffer') <= QueueMax
  BY <1>2, <1>3, <1>4, AppendProperties
<1>6. made' \in 0 .. MaxRows
  BY <1>1, <1>2 DEF AppendRow
<1>7. count' \in [appended : Nat, written : Nat, dropped : Nat]
  <2>1. count \in [appended : Nat, written : Nat, dropped : Nat]
    BY DEF TypeInv, TypeOK
  <2>2. count' = [count EXCEPT !.appended = @ + 1,
                               !.dropped = IF Len(buffer) = QueueMax THEN @ + 1 ELSE @]
    BY DEF AppendRow
  <2>3. count.appended \in Nat /\ count.written \in Nat /\ count.dropped \in Nat
    BY <2>1
  <2>4. \E d \in Nat : count' = [appended |-> count.appended + 1,
                                 written |-> count.written, dropped |-> d]
    <3>1. CASE Len(buffer) = QueueMax
      <4>1. count' = [appended |-> count.appended + 1, written |-> count.written,
                      dropped |-> count.dropped + 1]
        BY <2>1, <2>2, <3>1
      <4> QED
        BY <2>3, <4>1
    <3>2. CASE Len(buffer) # QueueMax
      <4>1. count' = [appended |-> count.appended + 1, written |-> count.written,
                      dropped |-> count.dropped]
        BY <2>1, <2>2, <3>2
      <4> QED
        BY <2>3, <4>1
    <3> QED
      BY <3>1, <3>2
  <2> QED
    BY <2>3, <2>4
<1> QED
  BY <1>5, <1>6, <1>7 DEF TypeInv, TypeOK, AppendRow, power, remote, history, Sound

\* A batch is at most batch_rows, and comes out of the queue.
LEMMA TakeTyped == ASSUME NEW w \in Threads, TypeInv, Take(w) PROVE TypeInv'
<1> DEFINE n == IF Len(buffer) < BatchRows THEN Len(buffer) ELSE BatchRows
<1>1. /\ buffer \in Seq(1 .. MaxRows) /\ Len(buffer) <= QueueMax /\ Len(buffer) \in Nat
      /\ QueueMax \in Nat /\ BatchRows \in Nat /\ Len(buffer) \in 0 .. Len(buffer)
  BY SizesAssumption, LenProperties DEF TypeInv, TypeOK
<1>2. n \in 0 .. Len(buffer) /\ n <= BatchRows /\ n \in Nat /\ n + 1 \in Nat \ {0}
  BY <1>1
<1>3. batch' = [batch EXCEPT ![w] = SubSeq(buffer, 1, n)]
      /\ buffer' = SubSeq(buffer, n + 1, Len(buffer))
  BY DEF Take
<1> HIDE DEF n
<1>4. SubSeq(buffer, 1, n) \in Seq(1 .. MaxRows) /\ Len(SubSeq(buffer, 1, n)) <= BatchRows
  BY <1>1, <1>2, Piece
<1>5. buffer' \in Seq(1 .. MaxRows) /\ Len(buffer') <= QueueMax
  <2>1. /\ SubSeq(buffer, n + 1, Len(buffer)) \in Seq(1 .. MaxRows)
        /\ Len(SubSeq(buffer, n + 1, Len(buffer)))
              = IF n + 1 <= Len(buffer) THEN Len(buffer) - (n + 1) + 1 ELSE 0
    BY <1>1, <1>2, Piece
  <2>2. Len(buffer') <= QueueMax
    BY <1>1, <1>2, <1>3, <2>1
  <2> QED
    BY <1>3, <2>1, <2>2
<1>6. batch' \in [Threads -> Seq(1 .. MaxRows)] /\ \A v \in Threads : Len(batch'[v]) <= BatchRows
  BY <1>3, <1>4 DEF TypeInv, TypeOK
<1>7. writer' \in [Threads -> {"run", "write", "evict", "off"}]
  BY DEF TypeInv, TypeOK, Take
<1> QED
  BY <1>5, <1>6, <1>7 DEF TypeInv, TypeOK, Take, power, remote, history, Sound

\* A batch that is put back does not make the queue longer than queue_max.
LEMMA WriteFailsTyped == ASSUME NEW w \in Threads, TypeInv, WriteFails(w) PROVE TypeInv'
<1>1. batch[w] \in Seq(1 .. MaxRows) /\ buffer \in Seq(1 .. MaxRows) /\ 0 <= BatchRows
  BY SizesAssumption DEF TypeInv, TypeOK
<1>2. batch[w] \o buffer \in Seq(1 .. MaxRows)
  BY <1>1, ConcatProperties
<1>3. buffer' \in Seq(1 .. MaxRows) /\ Len(buffer') <= QueueMax
  BY <1>2, PutBack DEF WriteFails
<1>4. << >> \in Seq(1 .. MaxRows) /\ Len(<< >>) = 0
  OBVIOUS
<1>5. batch' \in [Threads -> Seq(1 .. MaxRows)] /\ \A v \in Threads : Len(batch'[v]) <= BatchRows
  BY <1>1, <1>4 DEF TypeInv, TypeOK, WriteFails
<1>6. writer' \in [Threads -> {"run", "write", "evict", "off"}]
  BY DEF TypeInv, TypeOK, WriteFails
<1>7. faults' \in 0 .. MaxFaults
  BY SizesAssumption DEF TypeInv, TypeOK, WriteFails
<1> QED
  BY <1>3, <1>5, <1>6, <1>7 DEF TypeInv, TypeOK, WriteFails, power, remote, history, Sound

\* What a thread commits: finitely many rows, numbered on from the head.
LEMMA BatchEntries ==
    ASSUME NEW b \in Seq(1 .. MaxRows), NEW h \in Nat
    PROVE  LET new == {Entry(h + i, b[i]) : i \in DOMAIN b} IN
           /\ new \in SUBSET Entries /\ IsFiniteSet(new)
           /\ \A e \in new : h < e.seq /\ e.seq <= h + Len(b)
           /\ {b[i] : i \in DOMAIN b} \in SUBSET (1 .. MaxRows)
<1> DEFINE new == {Entry(h + i, b[i]) : i \in DOMAIN b}
           f == [i \in DOMAIN b |-> Entry(h + i, b[i])]
<1>1. Len(b) \in Nat /\ DOMAIN b = 1 .. Len(b) /\ \A i \in DOMAIN b : b[i] \in 1 .. MaxRows
  BY LenProperties, ElementOfSeq
<1>2. IsFiniteSet(DOMAIN b)
  BY <1>1, FS_Interval
<1>3. f \in Surjection(DOMAIN b, new)
  BY DEF Surjection
<1>4. IsFiniteSet(new)
  <2> HIDE DEF new, f
  <2> QED
    BY <1>2, <1>3, FS_Surjection
<1>5. MaxRows \in Nat
  BY SizesAssumption
<1>6. \A i \in DOMAIN b : h + i \in Nat /\ h < h + i /\ h + i <= h + Len(b)
  BY <1>1
<1>7. \A i \in DOMAIN b : Entry(h + i, b[i]) \in Entries
  BY <1>1, <1>5, <1>6 DEF Entry, Entries
<1>8. \A i \in DOMAIN b : Entry(h + i, b[i]).seq = h + i
  BY DEF Entry
<1>9. \A e \in new : h < e.seq /\ e.seq <= h + Len(b)
  BY <1>6, <1>8
<1> QED
  BY <1>1, <1>4, <1>7, <1>9

\* A commit leaves a finite journal whose head is its last row.
LEMMA CommitTyped == ASSUME NEW w \in Threads, TypeInv, Commit(w) PROVE TypeInv'
<1> DEFINE b == batch[w]
           new == {Entry(db.head + i, b[i]) : i \in DOMAIN b}
<1>1. /\ b \in Seq(1 .. MaxRows) /\ Len(b) \in Nat /\ 0 <= BatchRows
      /\ db \in Journals /\ db.rows \in SUBSET Entries /\ db.head \in Nat /\ db.shipped \in Nat
  BY SizesAssumption, LenProperties DEF TypeInv, TypeOK, Journals
<1>2. /\ new \in SUBSET Entries /\ IsFiniteSet(new)
      /\ \A e \in new : db.head < e.seq /\ e.seq <= db.head + Len(b)
      /\ {b[i] : i \in DOMAIN b} \in SUBSET (1 .. MaxRows)
  <2> HIDE DEF b
  <2> QED
    BY <1>1, BatchEntries
<1>3. db' = [db EXCEPT !.rows = @ \cup new, !.head = @ + Len(b)]
  BY DEF Commit
<1>4. committed' \subseteq 1 .. MaxRows
  BY <1>2 DEF Commit, TypeInv, TypeOK
<1>5. count' \in [appended : Nat, written : Nat, dropped : Nat]
  <2>1. count \in [appended : Nat, written : Nat, dropped : Nat]
    BY DEF TypeInv, TypeOK
  <2>2. count' = [count EXCEPT !.written = @ + Len(b)]
    BY DEF Commit
  <2> HIDE DEF b
  <2> QED
    BY <1>1, <2>1, <2>2
<1>6. batch' \in [Threads -> Seq(1 .. MaxRows)] /\ \A v \in Threads : Len(batch'[v]) <= BatchRows
  <2>1. << >> \in Seq(1 .. MaxRows) /\ Len(<< >>) = 0
    OBVIOUS
  <2> QED
    BY <1>1, <2>1 DEF TypeInv, TypeOK, Commit
<1> HIDE DEF b, new
<1>7. db' \in Journals /\ db'.rows = db.rows \cup new /\ db'.head = db.head + Len(b)
  <2>1. db.rows \cup new \in SUBSET Entries /\ db.head + Len(b) \in Nat
    BY <1>1, <1>2
  <2>2. db' = [rows |-> db.rows \cup new, head |-> db.head + Len(b), shipped |-> db.shipped]
    BY <1>1, <1>3 DEF Journals
  <2> QED
    BY <1>1, <2>1, <2>2 DEF Journals
<1>8. Sound(db')
  <2>1. IsFiniteSet(db'.rows)
    <3>1. IsFiniteSet(db.rows)
      BY DEF TypeInv, Sound
    <3>2. IsFiniteSet(db.rows \cup new)
      BY <1>2, <3>1, FS_Union
    <3> QED
      BY <1>7, <3>2
  <2>2. \A e \in db.rows \cup new : e.seq \in Nat
    BY <1>1, <1>2 DEF Entries
  <2>3. \A e \in db'.rows : e.seq <= db'.head
    BY <1>1, <1>2, <1>7, <2>2 DEF TypeInv, Sound
  <2> QED
    BY <2>1, <2>3 DEF Sound
<1>9. writer' \in [Threads -> {"run", "write", "evict", "off"}]
  BY DEF TypeInv, TypeOK, Commit
<1> QED
  BY <1>4, <1>5, <1>6, <1>7, <1>8, <1>9
     DEF TypeInv, TypeOK, Commit, power, remote, history, Sound

\* trim() only takes rows away.
LEMMA TrimTyped == ASSUME TypeInv, Trim PROVE TypeInv'
<1>1. PICK n \in 0 .. db.shipped : db' = [db EXCEPT !.rows = {e \in @ : e.seq > n}]
  BY DEF Trim
<1>2. /\ db' \in Journals /\ db'.rows \in SUBSET db.rows /\ db'.head = db.head
      /\ db'.shipped = db.shipped
  BY <1>1 DEF TypeInv, TypeOK, Journals
<1>3. Sound(db')
  BY <1>2, FS_Subset DEF TypeInv, Sound
<1>4. gap' \in [from : 0 .. MaxRows, to : 0 .. MaxRows]
  BY SizesAssumption DEF Trim, NoGap
<1>5. writer' \in [Threads -> {"run", "write", "evict", "off"}]
  BY DEF TypeInv, TypeOK, Trim
<1> QED
  BY <1>2, <1>3, <1>4, <1>5 DEF TypeInv, TypeOK, Trim, power, remote, history, Sound

\* The rows an eviction reports lost are rows.
LEMMA WidenedTyped ==
    ASSUME NEW lost \in SUBSET (1 .. MaxRows),
           gap \in [from : 0 .. MaxRows, to : 0 .. MaxRows]
    PROVE  Widened(lost) \in [from : 0 .. MaxRows, to : 0 .. MaxRows]
<1>1. MaxRows \in Nat /\ gap.from \in 0 .. MaxRows /\ gap.to \in 0 .. MaxRows
  BY SizesAssumption
<1>2. CASE lost = {}
  BY <1>2 DEF Widened
<1>3. CASE lost # {}
  <2> DEFINE A == lost \cup {gap.from}
             B == lost \cup {gap.to}
  <2>1. /\ lost \in SUBSET Nat
        /\ A \in SUBSET Nat /\ A # {} /\ A \in SUBSET (0 .. MaxRows)
        /\ B \in SUBSET Nat /\ B # {} /\ B \in SUBSET (0 .. MaxRows)
        /\ \A x \in B : x <= MaxRows
    <3>1. \A x \in lost : x \in Nat /\ x \in 0 .. MaxRows /\ x <= MaxRows
      BY <1>1
    <3>2. gap.from \in Nat /\ gap.to \in Nat /\ gap.to <= MaxRows
      BY <1>1
    <3> QED
      BY <1>1, <3>1, <3>2
  <2> HIDE DEF A, B
  <2>2. Min(lost) \in lost /\ Min(A) \in A
    BY <1>3, <2>1, HasLeast
  <2>3. Max(B) \in B
    BY <1>1, <2>1, HasMost
  <2>4. Min(lost) \in 0 .. MaxRows /\ Min(A) \in 0 .. MaxRows /\ Max(B) \in 0 .. MaxRows
    <3>1. \A x \in lost : x \in 0 .. MaxRows
      BY <1>1
    <3> QED
      BY <2>1, <2>2, <2>3, <3>1
  <2>5. Widened(lost) = [from |-> IF gap.from = 0 THEN Min(lost) ELSE Min(A), to |-> Max(B)]
    BY <1>3 DEF Widened, A, B
  <2> QED
    BY <2>4, <2>5
<1> QED
  BY <1>2, <1>3

\* An eviction takes rows away and widens the gap by rows.
LEMMA EvictTyped == ASSUME TypeInv, Evict PROVE TypeInv'
<1> DEFINE gone == Oldest(db.rows, BatchRows)
           lost == {e.row : e \in {f \in gone : f.seq > db.shipped /\ f.row # 0}}
<1>1. gone \subseteq db.rows /\ db \in Journals /\ db.rows \in SUBSET Entries
  BY DEF Oldest, TypeInv, TypeOK, Journals
<1>2. /\ db' = [db EXCEPT !.rows = @ \ gone]
      /\ gap' = Widened(lost)
      /\ evicted' = evicted \cup ({e.row : e \in gone} \ {0})
  BY DEF Evict
<1> HIDE DEF gone
<1>3. \A e \in gone : e.row \in 0 .. MaxRows
  BY <1>1 DEF Entries
<1>4. lost \in SUBSET (1 .. MaxRows) /\ evicted' \subseteq 1 .. MaxRows
  <2>1. \A x \in 0 .. MaxRows : x # 0 => x \in 1 .. MaxRows
    BY SizesAssumption
  <2>2. evicted \subseteq 1 .. MaxRows
    BY DEF TypeInv, TypeOK
  <2> QED
    BY <1>2, <1>3, <2>1, <2>2
<1> HIDE DEF lost
<1>5. gap' \in [from : 0 .. MaxRows, to : 0 .. MaxRows]
  BY <1>2, <1>4, WidenedTyped DEF TypeInv, TypeOK
<1>6. db' \in Journals /\ db'.rows \in SUBSET db.rows /\ db'.head = db.head
  BY <1>1, <1>2 DEF Journals
<1>7. Sound(db')
  BY <1>6, FS_Subset DEF TypeInv, Sound
<1> QED
  BY <1>4, <1>5, <1>6, <1>7 DEF TypeInv, TypeOK, Evict, power, remote, history, Sound

\* A gap marker is a row past the head.
LEMMA MarkerTyped ==
    ASSUME TypeInv, EvictDone
    PROVE  /\ db' \in Journals /\ Sound(db')
           /\ db.head <= db'.head /\ db'.shipped = db.shipped /\ db.rows \subseteq db'.rows
           /\ \A e \in db'.rows : e \in db.rows \/ db.head < e.seq
<1> DEFINE m == Marker(db.head + 1, gap)
<1>1. db \in Journals /\ db.head \in Nat /\ gap \in [from : 0 .. MaxRows, to : 0 .. MaxRows]
  BY DEF TypeInv, TypeOK, Journals
<1>2. m \in Entries /\ m.seq = db.head + 1
  BY <1>1, SizesAssumption DEF Marker, Entries
<1> HIDE DEF m
<1>3. CASE gap.to > gap.from
  <2>1. db' = [db EXCEPT !.rows = @ \cup {m}, !.head = @ + 1]
    BY <1>3 DEF EvictDone, m
  <2>2. /\ db' \in Journals /\ db'.rows = db.rows \cup {m} /\ db'.head = db.head + 1
        /\ db'.shipped = db.shipped
    <3>1. db.rows \cup {m} \in SUBSET Entries /\ db.head + 1 \in Nat
      BY <1>1, <1>2 DEF Journals
    <3>2. db' = [rows |-> db.rows \cup {m}, head |-> db.head + 1, shipped |-> db.shipped]
      BY <1>1, <2>1 DEF Journals
    <3> QED
      BY <1>1, <3>1, <3>2 DEF Journals
  <2>3. IsFiniteSet(db.rows) /\ \A e \in db.rows : e.seq \in Nat /\ e.seq <= db.head
    BY <1>1 DEF TypeInv, Sound, Journals, Entries
  <2>4. IsFiniteSet(db.rows \cup {m})
    BY <2>3, FS_AddElement
  <2>5. Sound(db')
    BY <1>1, <1>2, <2>2, <2>3, <2>4 DEF Sound
  <2>6. db.head <= db'.head
    BY <1>1, <2>2
  <2>7. db.head < m.seq
    BY <1>1, <1>2
  <2>8. \A e \in db'.rows : e \in db.rows \/ db.head < e.seq
    BY <2>2, <2>7
  <2> QED
    BY <2>2, <2>5, <2>6, <2>8
<1>4. CASE ~(gap.to > gap.from)
  <2>1. db' = db
    BY <1>4 DEF EvictDone
  <2> QED
    BY <1>1, <2>1 DEF TypeInv
<1> QED
  BY <1>3, <1>4

\* The end of an eviction keeps the types.
LEMMA EvictDoneTyped == ASSUME TypeInv, EvictDone PROVE TypeInv'
<1>1. gap' \in [from : 0 .. MaxRows, to : 0 .. MaxRows]
  BY SizesAssumption DEF EvictDone, NoGap
<1>2. writer' \in [Threads -> {"run", "write", "evict", "off"}]
  BY DEF TypeInv, TypeOK, EvictDone
<1>3. db' \in Journals /\ Sound(db')
  BY MarkerTyped
<1> QED
  BY <1>1, <1>2, <1>3 DEF TypeInv, TypeOK, EvictDone, power, remote, history, Sound

\* What closes the journal touches neither file.
LEMMA ClosingTyped ==
    ASSUME TypeInv, (\E w \in Threads : Drained(w)) \/ Close \/ Flush
    PROVE  TypeInv'
<1>1. writer' \in [Threads -> {"run", "write", "evict", "off"}]
  BY DEF TypeInv, TypeOK, Drained, Close, Flush
<1>2. phase' \in {"open", "closing", "flushed"}
  BY DEF TypeInv, TypeOK, Drained, Close, Flush
<1> QED
  BY <1>1, <1>2 DEF TypeInv, TypeOK, Drained, Close, Flush, power, remote, history, Sound

\* A drain that asks, is heard, gets its page, gives up or ingests.
LEMMA DrainTyped == ASSUME NEW c \in Drains, TypeInv, Drain(c) PROVE TypeInv'
<1>1. /\ drain \in [Drains -> Reads] /\ drain[c] \in Reads
      /\ arch \in Archives /\ arch.cursor \in Nat /\ db \in Journals
  BY DEF TypeInv, TypeOK, Archives
<1>2. Idle \in Reads
  BY DEF Idle, Reads
<1>3. CASE Ask(c)
  <2>1. [at |-> "asked", since |-> arch.cursor, page |-> {}, next |-> 0] \in Reads
    BY <1>1 DEF Reads
  <2>2. drain' \in [Drains -> Reads]
    BY <1>1, <1>3, <2>1 DEF Ask
  <2> QED
    BY <1>3, <2>2 DEF TypeInv, TypeOK, Ask, node, power, history, Sound
<1>4. CASE Hear(c)
  <2>1. drain' \in [Drains -> Reads]
    <3>1. [drain[c] EXCEPT !.at = "heard"] \in Reads
      BY <1>1 DEF Reads
    <3> QED
      BY <1>1, <1>4, <3>1 DEF Hear
  <2>2. db' \in Journals /\ db'.rows = db.rows /\ db'.head = db.head
    <3>1. Larger(db.shipped, drain[c].since) \in Nat
      BY <1>1 DEF Larger, Journals, Reads
    <3> QED
      BY <1>1, <1>4, <3>1 DEF Hear, Journals
  <2> QED
    BY <1>4, <2>1, <2>2 DEF TypeInv, TypeOK, Hear, node, power, history, Sound
<1>5. CASE Fetch(c)
  <2>1. PICK n \in 1 .. PageRows : drain' = [drain EXCEPT ![c] = Answer(c, n)]
    BY <1>5 DEF Fetch
  <2>2. Answer(c, n) \in Reads
    BY AnswerCovers DEF TypeInv
  <2>3. drain' \in [Drains -> Reads]
    BY <1>1, <2>1, <2>2
  <2> QED
    BY <1>5, <2>3 DEF TypeInv, TypeOK, Fetch, node, power, history, Sound
<1>6. CASE GiveUp(c)
  <2>1. drain' \in [Drains -> Reads]
    BY <1>1, <1>2, <1>6 DEF GiveUp
  <2> QED
    BY <1>6, <2>1 DEF TypeInv, TypeOK, GiveUp, node, power, history, Sound
<1>7. CASE Ingest(c)
  <2>1. drain' \in [Drains -> Reads]
    BY <1>1, <1>2, <1>7 DEF Ingest
  <2>2. arch' \in Archives
    <3>1. Larger(arch.cursor, drain[c].next) \in Nat
      BY <1>1 DEF Larger, Reads
    <3>2. arch.rows \cup drain[c].page \in SUBSET Entries
      BY <1>1 DEF Archives, Reads
    <3> QED
      BY <1>7, <3>1, <3>2 DEF Ingest, Ingested, Archives
  <2> QED
    BY <1>7, <2>1, <2>2 DEF TypeInv, TypeOK, Ingest, node, power, history, Sound
<1> QED
  BY <1>3, <1>4, <1>5, <1>6, <1>7 DEF Drain

\* A node that starts again starts with nothing in memory.
LEMMA RebootTyped ==
    ASSUME Reboot
    PROVE  /\ buffer' \in Seq(1 .. MaxRows) /\ Len(buffer') <= QueueMax
           /\ batch' \in [Threads -> Seq(1 .. MaxRows)]
           /\ \A w \in Threads : Len(batch'[w]) <= BatchRows
           /\ count' \in [appended : Nat, written : Nat, dropped : Nat]
           /\ writer' \in [Threads -> {"run", "write", "evict", "off"}]
           /\ phase' \in {"open", "closing", "flushed"}
           /\ gap' \in [from : 0 .. MaxRows, to : 0 .. MaxRows]
<1>1. << >> \in Seq(1 .. MaxRows) /\ Len(<< >>) = 0
  OBVIOUS
<1>2. 0 <= QueueMax /\ 0 <= BatchRows /\ 0 \in 0 .. MaxRows
  BY SizesAssumption
<1> QED
  BY <1>1, <1>2 DEF Reboot, NoBatch, NoCount, NoGap, Started

\* Kills, syncs and power cuts keep the types.
LEMMA FailureTyped == TypeInv /\ Failure => TypeInv'
<1> SUFFICES ASSUME TypeInv, Failure PROVE TypeInv'
  OBVIOUS
<1>1. faults < MaxFaults => faults + 1 \in 0 .. MaxFaults
  BY SizesAssumption DEF TypeInv, TypeOK
<1>2. CASE Kill
  BY <1>1, <1>2, RebootTyped DEF TypeInv, TypeOK, Kill, power, remote, history, Sound
<1>3. CASE Sync
  BY <1>3 DEF TypeInv, TypeOK, Sync, node, remote, history, Sound
<1>4. CASE NodeLosesPower
  BY <1>1, <1>4, RebootTyped DEF TypeInv, TypeOK, NodeLosesPower, remote, history, Sound
<1>5. CASE CoordinatorLosesPower
  <2>1. drain' \in [Drains -> Reads]
    BY <1>5 DEF CoordinatorLosesPower, Idle, Reads
  <2> QED
    BY <1>1, <1>5, <2>1 DEF TypeInv, TypeOK, CoordinatorLosesPower, node, history, Sound
<1> QED
  BY <1>2, <1>3, <1>4, <1>5 DEF Failure

\* An empty journal is well typed and sound.
LEMMA InitTyped == Init => TypeInv
<1> SUFFICES ASSUME Init PROVE TypeInv
  OBVIOUS
<1>1. << >> \in Seq(1 .. MaxRows) /\ Len(<< >>) = 0
  OBVIOUS
<1>2. 0 <= QueueMax /\ 0 <= BatchRows /\ 0 \in 0 .. MaxRows /\ 0 \in 0 .. MaxFaults
  BY SizesAssumption
<1>3. db \in Journals /\ synced \in Journals /\ Sound(db) /\ Sound(synced)
  BY FS_EmptySet DEF Init, Journals, Sound
<1>4. arch \in Archives /\ archSynced \in Archives /\ drain \in [Drains -> Reads]
  BY DEF Init, Archives, Reads, Idle
<1> QED
  BY <1>1, <1>2, <1>3, <1>4
     DEF Init, TypeInv, TypeOK, NoBatch, NoCount, NoGap, Started

\* Every step keeps the types.
LEMMA NextTyped == TypeInv /\ [Next]_vars => TypeInv'
<1> SUFFICES ASSUME TypeInv, [Next]_vars PROVE TypeInv'
  OBVIOUS
<1>1. CASE AppendRow
  BY <1>1, AppendTyped
<1>2. CASE Writer
  BY <1>2, TakeTyped, CommitTyped, WriteFailsTyped, TrimTyped, EvictTyped,
     EvictDoneTyped, ClosingTyped DEF Writer
<1>3. CASE \E c \in Drains : Drain(c)
  BY <1>3, DrainTyped
<1>4. CASE Failure
  BY <1>4, FailureTyped
<1>5. CASE UNCHANGED vars
  BY <1>5 DEF TypeInv, TypeOK, vars, Sound
<1> QED
  BY <1>1, <1>2, <1>3, <1>4, <1>5 DEF Next

(* The journal, the archive and the drains keep their shape, the queue and *)
(* the batches their bounds, whatever runs, fails or restarts.             *)
THEOREM TypeCorrect == Spec => []TypeOK
<1>1. Spec => []TypeInv
  BY InitTyped, NextTyped, PTL DEF Spec
<1>2. TypeInv => TypeOK
  BY DEF TypeInv
<1> QED
  BY <1>1, <1>2, PTL

----------------------------------------------------------------------------
(* No row is skipped.                                                      *)

\* An archive, as it is or as a power cut would leave it, has every row of
\* the journal up to its cursor, which is not beyond the journal.
Reached(a) == a.cursor <= db.head /\ \A e \in db.rows : e.seq <= a.cursor => e \in a.rows

\* A drain asked no later than the archive has got, and its page leaves out
\* nothing between the question and the number it will set the cursor to.
Covers(c) ==
    /\ drain[c].at # "idle" => drain[c].since <= arch.cursor
    /\ drain[c].at = "got" =>
         /\ drain[c].next <= db.head
         /\ \A e \in db.rows :
               drain[c].since < e.seq /\ e.seq <= drain[c].next => e \in drain[c].page

Cover ==
    "node" \notin cut =>
        Reached(arch) /\ Reached(archSynced) /\ \A c \in Drains : Covers(c)

\* The numbers are numbers.
LEMMA Numbers ==
    ASSUME TypeInv
    PROVE  /\ db.head \in Nat /\ db.shipped \in Nat /\ \A e \in db.rows : e.seq \in Nat
           /\ arch.cursor \in Nat /\ archSynced.cursor \in Nat
           /\ \A c \in Drains : drain[c].since \in Nat /\ drain[c].next \in Nat
BY DEF TypeInv, TypeOK, Journals, Archives, Reads, Entries

\* The journal may grow past its head and lose rows.
LEMMA JournalMoves ==
    ASSUME TypeInv, TypeInv', Cover, db.head <= db'.head,
           \A e \in db'.rows : e \in db.rows \/ db.head < e.seq,
           UNCHANGED <<arch, archSynced, drain, cut>>
    PROVE  Cover'
<1> SUFFICES ASSUME "node" \notin cut
             PROVE  Reached(arch)' /\ Reached(archSynced)' /\ \A c \in Drains : Covers(c)'
  BY DEF Cover
<1>1. Reached(arch) /\ Reached(archSynced) /\ \A c \in Drains : Covers(c)
  BY DEF Cover
<1>2. /\ db.head \in Nat /\ arch.cursor \in Nat /\ archSynced.cursor \in Nat
      /\ \A c \in Drains : drain[c].since \in Nat /\ drain[c].next \in Nat
  BY Numbers
<1>3. db'.head \in Nat /\ \A e \in db'.rows : e.seq \in Nat
  BY DEF TypeInv, TypeOK, Journals, Entries
<1>4. \A e \in db'.rows : \A n \in Nat : n <= db.head /\ e.seq <= n => e \in db.rows
  BY <1>2, <1>3
<1>5. Reached(arch)' /\ Reached(archSynced)'
  BY <1>1, <1>2, <1>3, <1>4 DEF Reached
<1>6. \A c \in Drains : Covers(c)'
  BY <1>1, <1>2, <1>3, <1>4 DEF Covers
<1> QED
  BY <1>5, <1>6

\* The writer only adds rows past the head, so it skips none.
LEMMA WriterCovers ==
    ASSUME TypeInv, TypeInv', Cover, Writer
    PROVE  Cover'
<1>1. db.head \in Nat
  BY Numbers
<1>2. UNCHANGED <<arch, archSynced, drain, cut>>
  BY DEF Writer, Take, Commit, WriteFails, Drained, Trim, Evict, EvictDone, Close, Flush,
         remote, power
<1>3. db.head <= db'.head /\ \A e \in db'.rows : e \in db.rows \/ db.head < e.seq
  <2>1. ASSUME NEW w \in Threads, Commit(w)
        PROVE  db.head <= db'.head /\ \A e \in db'.rows : e \in db.rows \/ db.head < e.seq
    <3> DEFINE new == {Entry(db.head + i, batch[w][i]) : i \in DOMAIN batch[w]}
    <3>1. batch[w] \in Seq(1 .. MaxRows) /\ Len(batch[w]) \in Nat
      BY LenProperties DEF TypeInv, TypeOK
    <3>2. \A e \in new : db.head < e.seq
      BY <1>1, <3>1, BatchEntries
    <3>3. db'.rows = db.rows \cup new /\ db'.head = db.head + Len(batch[w])
      BY <2>1 DEF Commit, TypeInv, TypeOK, Journals
    <3> HIDE DEF new
    <3>4. db.head <= db'.head
      BY <1>1, <3>1, <3>3
    <3> QED
      BY <3>2, <3>3, <3>4
  <2>2. CASE Trim
    <3>1. PICK n \in 0 .. db.shipped : db' = [db EXCEPT !.rows = {e \in @ : e.seq > n}]
      BY <2>2 DEF Trim
    <3> QED
      BY <1>1, <3>1 DEF TypeInv, TypeOK, Journals
  <2>3. CASE Evict
    BY <1>1, <2>3 DEF Evict, TypeInv, TypeOK, Journals
  <2>4. CASE EvictDone
    BY <2>4, MarkerTyped
  <2>5. CASE UNCHANGED db
    BY <1>1, <2>5
  <2>6. Writer => (\E w \in Threads : Commit(w)) \/ Trim \/ Evict \/ EvictDone \/ UNCHANGED db
    BY DEF Writer, Take, WriteFails, Drained, Close, Flush
  <2> QED
    BY <2>1, <2>2, <2>3, <2>4, <2>5, <2>6
<1> QED
  BY <1>2, <1>3, JournalMoves

\* A step of a drain skips no row: the heart of the proof.
LEMMA DrainCovers ==
    ASSUME TypeInv, TypeInv', Cover, NEW c \in Drains, Drain(c)
    PROVE  Cover'
<1> SUFFICES ASSUME "node" \notin cut
             PROVE  Reached(arch)' /\ Reached(archSynced)' /\ \A d \in Drains : Covers(d)'
  BY DEF Cover, Drain, Ask, Hear, Fetch, GiveUp, Ingest, power
<1>1. Reached(arch) /\ Reached(archSynced) /\ \A d \in Drains : Covers(d)
  BY DEF Cover
<1>2. /\ db.head \in Nat /\ arch.cursor \in Nat /\ archSynced.cursor \in Nat
      /\ \A e \in db.rows : e.seq \in Nat
      /\ \A d \in Drains : drain[d].since \in Nat /\ drain[d].next \in Nat
  BY Numbers
<1>3. drain \in [Drains -> Reads] /\ db \in Journals /\ arch \in Archives
  BY DEF TypeInv, TypeOK
<1>4. archSynced' = archSynced /\ db'.rows = db.rows /\ db'.head = db.head
  BY <1>3 DEF Drain, Ask, Hear, Fetch, GiveUp, Ingest, power, Journals
<1>5. Reached(archSynced)'
  BY <1>1, <1>4 DEF Reached
<1>6. \A d \in Drains : d # c => drain'[d] = drain[d]
  BY <1>3 DEF Drain, Ask, Hear, Fetch, GiveUp, Ingest
<1>7. CASE ~Ingest(c)
  <2>1. arch' = arch
    BY <1>7 DEF Drain, Ask, Hear, Fetch, GiveUp
  <2>2. Reached(arch)'
    BY <1>1, <1>4, <2>1 DEF Reached
  <2>3. \A d \in Drains : d # c => Covers(d)'
    BY <1>1, <1>4, <1>6, <2>1 DEF Covers
  <2>4. Covers(c)'
    <3>1. CASE Ask(c)
      BY <1>2, <1>3, <2>1, <3>1 DEF Ask, Covers
    <3>2. CASE Hear(c)
      <4>1. drain'[c].at = "heard" /\ drain'[c].since = drain[c].since /\ drain[c].at # "idle"
        BY <1>3, <3>2 DEF Hear, Reads
      <4> QED
        BY <1>1, <2>1, <4>1 DEF Covers
    <3>3. CASE Fetch(c)
      <4>1. PICK n \in 1 .. PageRows : drain' = [drain EXCEPT ![c] = Answer(c, n)]
        BY <3>3 DEF Fetch
      <4>2. drain'[c] = Answer(c, n)
        BY <1>3, <4>1
      <4>3. drain[c].since <= arch.cursor /\ arch.cursor <= db.head
        BY <1>1, <3>3 DEF Covers, Reached, Fetch
      <4>4. /\ Answer(c, n).since = drain[c].since
            /\ Answer(c, n).next = drain[c].since \/ Answer(c, n).next <= db.head
            /\ \A e \in db.rows :
                  drain[c].since < e.seq /\ e.seq <= Answer(c, n).next
                      => e \in Answer(c, n).page
        BY AnswerCovers DEF TypeInv
      <4>5. drain'[c].next <= db.head
        BY <1>2, <4>2, <4>3, <4>4
      <4> QED
        BY <1>4, <2>1, <4>2, <4>3, <4>4, <4>5 DEF Covers
    <3>4. CASE GiveUp(c)
      BY <1>3, <3>4 DEF GiveUp, Idle, Covers
    <3> QED
      BY <1>7, <3>1, <3>2, <3>3, <3>4 DEF Drain
  <2> QED
    BY <1>5, <2>2, <2>3, <2>4
<1>8. CASE Ingest(c)
  <2>1. /\ arch'.rows = arch.rows \cup drain[c].page
        /\ arch'.cursor = Larger(arch.cursor, drain[c].next)
        /\ drain[c].at = "got" /\ drain'[c] = Idle
    BY <1>3, <1>8 DEF Ingest, Ingested
  <2>2. /\ drain[c].since <= arch.cursor /\ drain[c].next <= db.head
        /\ \A e \in db.rows :
              drain[c].since < e.seq /\ e.seq <= drain[c].next => e \in drain[c].page
    BY <1>1, <2>1 DEF Covers
  <2>3. Reached(arch)'
    <3>1. arch'.cursor <= db'.head
      BY <1>1, <1>2, <1>4, <2>1, <2>2 DEF Larger, Reached
    <3>2. ASSUME NEW e \in db.rows, e.seq <= arch'.cursor PROVE e \in arch'.rows
      <4>1. CASE e.seq <= arch.cursor
        BY <1>1, <2>1, <4>1 DEF Reached
      <4>2. CASE ~(e.seq <= arch.cursor)
        <5>1. e.seq \in Nat /\ drain[c].since \in Nat /\ drain[c].next \in Nat
          BY <1>2
        <5>2. e.seq <= drain[c].next /\ drain[c].since < e.seq
          BY <1>2, <2>1, <2>2, <3>2, <4>2, <5>1 DEF Larger
        <5> QED
          BY <2>1, <2>2, <5>2
      <4> QED
        BY <4>1, <4>2
    <3> QED
      BY <1>4, <3>1, <3>2 DEF Reached
  <2>4. arch.cursor <= arch'.cursor /\ arch'.cursor \in Nat
    BY <1>2, <2>1 DEF Larger
  <2>5. \A d \in Drains : Covers(d)'
    <3> SUFFICES ASSUME NEW d \in Drains PROVE Covers(d)'
      OBVIOUS
    <3>1. CASE d = c
      BY <2>1, <3>1 DEF Covers, Idle
    <3>2. CASE d # c
      <4>1. drain'[d] = drain[d] /\ Covers(d) /\ drain[d].since \in Nat
        BY <1>1, <1>2, <1>6, <3>2
      <4>2. drain[d].at # "idle" => drain[d].since <= arch'.cursor
        BY <1>2, <2>4, <4>1 DEF Covers
      <4> QED
        BY <1>4, <4>1, <4>2 DEF Covers
    <3> QED
      BY <3>1, <3>2
  <2> QED
    BY <1>5, <2>3, <2>5
<1> QED
  BY <1>7, <1>8

\* A kill or the coordinator losing power skips no row.
LEMMA FailureCovers ==
    ASSUME TypeInv, Cover, Failure
    PROVE  Cover'
<1>1. CASE Kill
  BY <1>1 DEF Kill, Cover, Reached, Covers, power, remote
<1>2. CASE Sync
  BY <1>2 DEF Sync, Cover, Reached, Covers, remote
<1>3. CASE NodeLosesPower
  BY <1>3 DEF NodeLosesPower, Cover
<1>4. CASE CoordinatorLosesPower
  <2> SUFFICES ASSUME "node" \notin cut
               PROVE  Reached(arch)' /\ Reached(archSynced)' /\ \A c \in Drains : Covers(c)'
    BY <1>4 DEF Cover, CoordinatorLosesPower
  <2>1. Reached(archSynced)
    BY DEF Cover
  <2>2. Reached(arch)' /\ Reached(archSynced)'
    BY <1>4, <2>1 DEF CoordinatorLosesPower, Reached
  <2>3. \A c \in Drains : drain'[c].at = "idle"
    BY <1>4 DEF CoordinatorLosesPower, Idle
  <2> QED
    BY <2>2, <2>3 DEF Covers
<1> QED
  BY <1>1, <1>2, <1>3, <1>4 DEF Failure

\* Every step keeps the cover.
LEMMA NextCovers == TypeInv /\ TypeInv' /\ Cover /\ [Next]_vars => Cover'
<1> SUFFICES ASSUME TypeInv, TypeInv', Cover, [Next]_vars PROVE Cover'
  OBVIOUS
<1>1. CASE AppendRow
  BY <1>1 DEF AppendRow, Cover, Reached, Covers, power, remote
<1>2. CASE UNCHANGED vars
  BY <1>2 DEF Cover, Reached, Covers, vars
<1> QED
  BY <1>1, <1>2, WriterCovers, DrainCovers, FailureCovers DEF Next

\* At the start there is nothing to skip.
LEMMA InitCovers == Init => Cover
<1> SUFFICES ASSUME Init PROVE Reached(arch) /\ Reached(archSynced) /\ \A c \in Drains : Covers(c)
  BY DEF Cover
<1>1. Reached(arch) /\ Reached(archSynced)
  BY DEF Init, Reached
<1>2. \A c \in Drains : drain[c].at = "idle"
  BY DEF Init, Idle
<1> QED
  BY <1>1, <1>2 DEF Covers

(* As long as the node keeps its file, what the journal holds at or below  *)
(* the coordinator's cursor is in the archive: ingest() of overlapping,    *)
(* late and repeated pages never moves the cursor past a row it has not.   *)
THEOREM NoRowIsSkipped == Spec => []CursorHonest
<1>1. Init => TypeInv /\ Cover
  BY InitTyped, InitCovers
<1>2. TypeInv /\ Cover /\ [Next]_vars => TypeInv' /\ Cover'
  BY NextTyped, NextCovers
<1>3. TypeInv /\ Cover => CursorHonest
  BY DEF Cover, Reached, CursorHonest, NothingSkipped
<1> QED
  BY <1>1, <1>2, <1>3, PTL DEF Spec

----------------------------------------------------------------------------
(* Acknowledgements, and what trim() may therefore delete.                 *)

\* No step acknowledges what is not archived.
LEMMA NextAcks == TypeInv /\ TypeInv' /\ Cover /\ AckSafe /\ [Next]_vars => AckSafe'
<1> SUFFICES ASSUME TypeInv, TypeInv', Cover, AckSafe, [Next]_vars, cut' = {}
             PROVE  db'.shipped <= arch'.cursor
  BY DEF AckSafe
<1>1. cut = {} /\ "node" \notin cut
  BY DEF Next, AppendRow, Writer, Take, Commit, WriteFails, Drained, Trim, Evict, EvictDone,
         Close, Flush, Drain, Ask, Hear, Fetch, GiveUp, Ingest, Failure, Kill, Sync,
         NodeLosesPower, CoordinatorLosesPower, power, vars
<1>2. db.shipped <= arch.cursor /\ \A c \in Drains : Covers(c)
  BY <1>1 DEF AckSafe, Cover
<1>3. /\ db.shipped \in Nat /\ arch.cursor \in Nat
      /\ \A c \in Drains : drain[c].since \in Nat /\ drain[c].next \in Nat
  BY Numbers
<1>4. db \in Journals
  BY DEF TypeInv, TypeOK
<1>5. CASE AppendRow \/ UNCHANGED vars
  BY <1>2, <1>5 DEF AppendRow, remote, vars
<1>6. CASE Writer
  <2>1. arch' = arch
    BY <1>6 DEF Writer, Take, Commit, WriteFails, Drained, Trim, Evict, EvictDone, Close,
                Flush, remote
  <2>2. db'.shipped = db.shipped
    BY <1>4, <1>6, MarkerTyped
       DEF Writer, Take, Commit, WriteFails, Drained, Trim, Evict, Close, Flush, Journals
  <2> QED
    BY <1>2, <2>1, <2>2
<1>7. ASSUME NEW c \in Drains, Drain(c) PROVE db'.shipped <= arch'.cursor
  <2>1. CASE Hear(c)
    <3>1. drain[c].since <= arch.cursor
      BY <1>2, <2>1 DEF Covers, Hear
    <3>2. arch' = arch /\ db'.shipped = Larger(db.shipped, drain[c].since)
      BY <1>4, <2>1 DEF Hear, Journals
    <3> QED
      BY <1>2, <1>3, <3>1, <3>2 DEF Larger
  <2>2. CASE Ingest(c)
    <3>1. db' = db /\ arch'.cursor = Larger(arch.cursor, drain[c].next)
      BY <2>2 DEF Ingest, Ingested
    <3> QED
      BY <1>2, <1>3, <3>1 DEF Larger
  <2>3. CASE Ask(c) \/ Fetch(c) \/ GiveUp(c)
    BY <1>2, <2>3 DEF Ask, Fetch, GiveUp
  <2> QED
    BY <1>7, <2>1, <2>2, <2>3 DEF Drain
<1>8. CASE Failure
  BY <1>2, <1>8 DEF Failure, Kill, Sync, NodeLosesPower, CoordinatorLosesPower, remote
<1> QED
  BY <1>5, <1>6, <1>7, <1>8 DEF Next

(* While no machine loses power, what the node takes for collected is in   *)
(* the archive's transaction: read() believes the number it is asked with, *)
(* and no drain ever asks beyond the cursor.                               *)
THEOREM AcknowledgedIsArchived == Spec => []AckSafe
<1>1. Init => TypeInv /\ Cover /\ AckSafe
  <2>1. Init => AckSafe
    BY DEF Init, AckSafe
  <2> QED
    BY <2>1, InitTyped, InitCovers
<1>2. TypeInv /\ Cover /\ AckSafe /\ [Next]_vars => TypeInv' /\ Cover' /\ AckSafe'
  BY NextTyped, NextCovers, NextAcks
<1> QED
  BY <1>1, <1>2, PTL DEF Spec

\* A row that an action takes away is archived or evicted.
LEMMA KeptIf ==
    ASSUME Kept, cut = {} \/ cut' # {}, arch.rows \subseteq arch'.rows,
           committed' = committed, evicted \subseteq evicted',
           \A e \in db.rows : e \in db'.rows \cup arch'.rows \/ e.row \in evicted'
    PROVE  Kept'
<1> SUFFICES ASSUME cut' = {}, NEW r \in committed' \ evicted'
             PROVE  \E e \in db'.rows \cup arch'.rows : e.row = r
  BY DEF Kept
<1>1. PICK e \in db.rows \cup arch.rows : e.row = r
  BY DEF Kept
<1> QED
  BY <1>1

\* No step loses a committed row but to the size cap.
LEMMA NextKeeps == TypeInv /\ Cover /\ AckSafe /\ Kept /\ [Next]_vars => Kept'
<1> SUFFICES ASSUME TypeInv, Cover, AckSafe, Kept, [Next]_vars PROVE Kept'
  OBVIOUS
<1>1. db \in Journals /\ arch \in Archives
  BY DEF TypeInv, TypeOK
<1>2. CASE AppendRow \/ Kill \/ Sync \/ UNCHANGED vars
  BY <1>2 DEF AppendRow, Kill, Sync, remote, power, history, Kept, vars
<1>3. ASSUME NEW w \in Threads, Take(w) \/ WriteFails(w) \/ Drained(w) PROVE Kept'
  BY <1>3 DEF Take, WriteFails, Drained, remote, power, history, Kept
<1>4. CASE Close \/ Flush
  BY <1>4 DEF Close, Flush, remote, power, history, Kept
<1>5. ASSUME NEW w \in Threads, Commit(w) PROVE Kept'
  <2> DEFINE b == batch[w]
             new == {Entry(db.head + i, b[i]) : i \in DOMAIN b}
  <2>1. db'.rows = db.rows \cup new /\ committed' = committed \cup {b[i] : i \in DOMAIN b}
    BY <1>1, <1>5 DEF Commit, Journals
  <2>2. arch' = arch /\ cut' = cut /\ evicted' = evicted
    BY <1>5 DEF Commit, remote, power
  <2> SUFFICES ASSUME cut = {}, NEW r \in committed' \ evicted
               PROVE  \E e \in db'.rows \cup arch.rows : e.row = r
    BY <2>2 DEF Kept
  <2>3. CASE r \in committed
    BY <2>1, <2>3 DEF Kept
  <2>4. CASE r \notin committed
    <3>1. PICK i \in DOMAIN b : r = b[i]
      BY <2>1, <2>4
    <3>2. Entry(db.head + i, b[i]) \in db'.rows /\ Entry(db.head + i, b[i]).row = r
      BY <2>1, <3>1 DEF Entry
    <3> QED
      BY <3>2
  <2> QED
    BY <2>3, <2>4
<1>6. CASE Trim
  <2>1. PICK n \in 0 .. db.shipped : db' = [db EXCEPT !.rows = {e \in @ : e.seq > n}]
    BY <1>6 DEF Trim
  <2>2. db'.rows = {e \in db.rows : e.seq > n}
    BY <1>1, <2>1 DEF Journals
  <2>3. arch' = arch /\ cut' = cut /\ committed' = committed /\ evicted' = evicted
    BY <1>6 DEF Trim, remote, power, history
  <2>4. CASE cut # {}
    BY <2>3, <2>4 DEF Kept
  <2>5. CASE cut = {}
    <3>1. db.shipped <= arch.cursor /\ Reached(arch)
      BY <2>5 DEF AckSafe, Cover
    <3>2. \A e \in db.rows : e \in db'.rows \/ e.seq <= arch.cursor
      BY <2>2, <3>1, Numbers
    <3>3. \A e \in db.rows : e \in db'.rows \cup arch'.rows
      BY <2>3, <3>1, <3>2 DEF Reached
    <3> QED
      BY <2>3, <2>5, <3>3, KeptIf
  <2> QED
    BY <2>4, <2>5
<1>7. CASE Evict
  <2> DEFINE gone == Oldest(db.rows, BatchRows)
  <2>1. db'.rows = db.rows \ gone /\ evicted' = evicted \cup ({e.row : e \in gone} \ {0})
    BY <1>1, <1>7 DEF Evict, Journals
  <2>2. arch' = arch /\ cut' = cut /\ committed' = committed /\ committed \subseteq 1 .. MaxRows
    BY <1>7 DEF Evict, remote, power, TypeInv, TypeOK
  <2> HIDE DEF gone
  <2> SUFFICES ASSUME cut = {}, NEW r \in committed \ evicted'
               PROVE  \E e \in db'.rows \cup arch.rows : e.row = r
    BY <2>2 DEF Kept
  <2>3. PICK e \in db.rows \cup arch.rows : e.row = r
    BY <2>1 DEF Kept
  <2>4. r # 0
    BY <2>2
  <2> QED
    BY <2>1, <2>3, <2>4
<1>8. CASE EvictDone
  <2>1. db.rows \subseteq db'.rows
    BY <1>8, MarkerTyped
  <2>2. arch' = arch /\ cut' = cut /\ committed' = committed /\ evicted' = evicted
    BY <1>8 DEF EvictDone, remote, power, history
  <2> QED
    BY <2>1, <2>2, KeptIf
<1>9. ASSUME NEW c \in Drains, Drain(c) PROVE Kept'
  <2>1. db'.rows = db.rows /\ arch.rows \subseteq arch'.rows
    BY <1>1, <1>9 DEF Drain, Ask, Hear, Fetch, GiveUp, Ingest, Ingested, Journals
  <2>2. cut' = cut /\ committed' = committed /\ evicted' = evicted
    BY <1>9 DEF Drain, Ask, Hear, Fetch, GiveUp, Ingest, power, history
  <2> QED
    BY <2>1, <2>2, KeptIf
<1>10. CASE NodeLosesPower \/ CoordinatorLosesPower
  BY <1>10 DEF NodeLosesPower, CoordinatorLosesPower, Kept
<1> QED
  BY <1>2, <1>3, <1>4, <1>5, <1>6, <1>7, <1>8, <1>9, <1>10 DEF Next, Writer, Failure

(* While no machine loses power, a committed row is in the journal or in   *)
(* the archive unless the size cap took it: trim() deletes only what the   *)
(* coordinator has, although the node never hears that it was stored.      *)
THEOREM CommittedIsKept == Spec => []Kept
<1>1. Init => TypeInv /\ Cover /\ AckSafe /\ Kept
  <2>1. Init => AckSafe /\ Kept
    BY DEF Init, AckSafe, Kept
  <2> QED
    BY <2>1, InitTyped, InitCovers
<1>2. TypeInv /\ Cover /\ AckSafe /\ Kept /\ [Next]_vars
        => TypeInv' /\ Cover' /\ AckSafe' /\ Kept'
  BY NextTyped, NextCovers, NextAcks, NextKeeps
<1> QED
  BY <1>1, <1>2, PTL DEF Spec
----------------------------------------------------------------------------
(* A row is in one place: the queue, one thread's batch, or the journal.   *)

Distinct(s) == \A i, j \in 1 .. Len(s) : s[i] = s[j] => i = j
Apart(s, t) == \A i \in 1 .. Len(s), j \in 1 .. Len(t) : s[i] # t[j]

\* A queue (or batch) s, beside a journal with the given rows, of the first
\* m rows made.
Waits(s, rows, m) ==
    /\ s \in Seq(1 .. MaxRows) /\ Distinct(s)
    /\ \A i \in 1 .. Len(s) : s[i] <= m
    /\ \A i \in 1 .. Len(s) : \A e \in rows : e.row # s[i]

Once(rows, m) ==
    /\ \A e, f \in rows : e.row # 0 /\ e.row = f.row => e = f
    /\ \A e \in rows : e.row <= m

Queued(b, t, rows, m) ==
    /\ Waits(b, rows, m)
    /\ \A w \in Threads : Waits(t[w], rows, m) /\ Apart(b, t[w])
    /\ \A v, w \in Threads : v # w => Apart(t[v], t[w])

OnceInv == Queued(buffer, batch, db.rows, made) /\ Once(db.rows, made) /\ Once(synced.rows, made)

\* p is the stretch of s from a to n.
Stretch(p, s, a, n) == \A i \in 1 .. Len(p) : a + i - 1 \in a .. n /\ p[i] = s[a + i - 1]

\* A stretch of a queue, and what has nothing in common with the queue.
LEMMA PieceWaits ==
    ASSUME NEW rows, NEW m \in Nat, NEW s, Waits(s, rows, m), NEW a \in Nat \ {0}, NEW n \in 0 .. Len(s),
           NEW p, p = SubSeq(s, a, n)
    PROVE  Waits(p, rows, m) /\ Stretch(p, s, a, n)
<1>1. s \in Seq(1 .. MaxRows) /\ Len(s) \in Nat /\ \A i \in 1 .. Len(s) : s[i] \in 1 .. MaxRows
  BY LenProperties, ElementOfSeq DEF Waits
<1>2. a \in Int /\ n \in Int /\ \A i \in a .. n : s[i] \in 1 .. MaxRows
  BY <1>1
<1>3. /\ p \in Seq(1 .. MaxRows) /\ Len(p) = (IF a <= n THEN n - a + 1 ELSE 0)
      /\ \A i \in 1 .. Len(p) : p[i] = s[a + i - 1]
  BY <1>2, SubSeqProperties
<1>4. \A i \in 1 .. Len(p) : a + i - 1 \in a .. n /\ a + i - 1 \in 1 .. Len(s)
  BY <1>1, <1>2, <1>3
<1>5. Distinct(p)
  <2> SUFFICES ASSUME NEW i \in 1 .. Len(p), NEW j \in 1 .. Len(p), p[i] = p[j] PROVE i = j
    BY DEF Distinct
  <2>1. a + i - 1 = a + j - 1
    BY <1>3, <1>4 DEF Waits, Distinct
  <2> QED
    BY <1>3, <2>1
<1>6. Waits(p, rows, m)
  BY <1>3, <1>4, <1>5 DEF Waits
<1> QED
  BY <1>3, <1>4, <1>6 DEF Stretch

LEMMA PieceApart ==
    ASSUME NEW s, NEW t, NEW p, NEW k \in Int, Apart(s, t), NEW n \in Nat, n <= Len(s), Len(s) \in Nat,
           \A i \in 1 .. Len(p) : k + i - 1 \in 1 .. n /\ p[i] = s[k + i - 1]
    PROVE  Apart(p, t) /\ Apart(t, p)
<1>1. \A i \in 1 .. Len(p) : k + i - 1 \in 1 .. Len(s) /\ p[i] = s[k + i - 1]
  OBVIOUS
<1> QED
  BY <1>1 DEF Apart

LEMMA NothingWaits ==
    ASSUME NEW rows, NEW m
    PROVE  Waits(<< >>, rows, m) /\ \A s : Apart(<< >>, s) /\ Apart(s, << >>)
BY DEF Waits, Distinct, Apart

\* Fewer rows in the journal, or more rows made, do no harm.
LEMMA LooserQueued ==
    ASSUME NEW b, NEW t, NEW rows, NEW m \in Nat, Queued(b, t, rows, m), NEW new, NEW n \in Nat, m <= n,
           \A e \in new : e \in rows \/ e.row = 0
    PROVE  Queued(b, t, new, n)
<1>1. ASSUME NEW s, Waits(s, rows, m) PROVE Waits(s, new, n)
  <2>1. s \in Seq(1 .. MaxRows) /\ Len(s) \in Nat /\ \A i \in 1 .. Len(s) : s[i] \in 1 .. MaxRows /\ s[i] # 0
    BY <1>1, LenProperties, ElementOfSeq, SizesAssumption DEF Waits
  <2>2. \A i \in 1 .. Len(s) : s[i] <= n
    BY <1>1, <2>1, SizesAssumption DEF Waits
  <2> QED
    BY <1>1, <2>1, <2>2 DEF Waits
<1> QED
  BY <1>1 DEF Queued

LEMMA LooserOnce ==
    ASSUME NEW rows, rows \in SUBSET Entries, NEW m \in Nat, Once(rows, m), NEW new, NEW n \in Nat, m <= n,
           \A e \in new : e \in rows
    PROVE  Once(new, n)
<1>1. \A e \in rows : e.row \in Nat
  BY SizesAssumption DEF Entries
<1> QED
  BY <1>1 DEF Once

LEMMA AppendOnce == TypeInv /\ OnceInv /\ AppendRow => OnceInv'
<1> SUFFICES ASSUME TypeInv, OnceInv, AppendRow PROVE OnceInv'
  OBVIOUS
<1> DEFINE kept == IF Len(buffer) = QueueMax THEN Tail(buffer) ELSE buffer
<1>1. /\ buffer \in Seq(1 .. MaxRows) /\ Len(buffer) <= QueueMax /\ Len(buffer) \in Nat
      /\ QueueMax \in Nat \ {0} /\ MaxRows \in Nat /\ made \in 0 .. MaxRows /\ made \in Nat
      /\ db.rows \in SUBSET Entries /\ synced.rows \in SUBSET Entries
  BY SizesAssumption, LenProperties DEF TypeInv, TypeOK, Journals
<1>2. made + 1 \in 1 .. MaxRows /\ made' = made + 1 /\ UNCHANGED <<batch, db, synced>>
  BY <1>1 DEF AppendRow, power
<1>3. PICK k \in {1, 2} : kept = SubSeq(buffer, k, Len(buffer))
  <2>1. SubSeq(buffer, 1, Len(buffer)) = buffer
    BY <1>1
  <2>2. Tail(buffer) = SubSeq(buffer, 2, Len(buffer))
    BY <1>1
  <2> QED
    BY <2>1, <2>2
<1>4. buffer' = Append(kept, made + 1)
  BY DEF AppendRow
<1>5. Len(buffer) \in 0 .. Len(buffer) /\ k \in Nat \ {0}
  BY <1>1
<1> HIDE DEF kept
<1>6. Waits(kept, db.rows, made) /\ Stretch(kept, buffer, k, Len(buffer))
  <2>1. Waits(buffer, db.rows, made)
    BY DEF OnceInv, Queued
  <2>2. made \in Nat /\ k \in Nat \ {0} /\ Len(buffer) \in 0 .. Len(buffer)
    BY <1>1, <1>5
  <2>3. kept = SubSeq(buffer, k, Len(buffer))
    BY <1>3
  <2> QED
    BY <2>1, <2>2, <2>3, PieceWaits
<1>7. \A i \in 1 .. Len(kept) : k + i - 1 \in 1 .. Len(buffer) /\ kept[i] = buffer[k + i - 1]
  BY <1>1, <1>5, <1>6 DEF Stretch
<1>8. Len(kept) \in Nat /\ \A i \in 1 .. Len(kept) : kept[i] \in 1 .. MaxRows
  BY <1>6, LenProperties, ElementOfSeq DEF Waits
<1>9. /\ buffer' \in Seq(1 .. MaxRows) /\ Len(buffer') = Len(kept) + 1
      /\ \A i \in 1 .. Len(kept) : buffer'[i] = kept[i]
      /\ buffer'[Len(kept) + 1] = made + 1
  BY <1>2, <1>4, <1>6, AppendProperties DEF Waits
<1>10. \A i \in 1 .. Len(buffer') : i \in 1 .. Len(kept) \/ i = Len(kept) + 1
  BY <1>8, <1>9
<1>11. \A i \in 1 .. Len(kept) : kept[i] <= made /\ kept[i] # made + 1
  <2>1. \A i \in 1 .. Len(kept) : kept[i] <= made
    BY <1>6 DEF Waits
  <2>2. \A x \in 1 .. MaxRows : x <= made => x # made + 1
    BY <1>1
  <2> QED
    BY <1>8, <2>1, <2>2
<1>12. \A e \in db.rows : e.row \in Nat /\ e.row <= made /\ e.row # made + 1
  BY <1>1 DEF OnceInv, Once, Entries
<1>13. Waits(buffer', db.rows, made + 1)
  <2>1. Distinct(buffer')
    BY <1>6, <1>8, <1>9, <1>10, <1>11 DEF Waits, Distinct
  <2>2. \A i \in 1 .. Len(buffer') : buffer'[i] <= made + 1
    <3>1. \A x \in 1 .. MaxRows : x <= made => x <= made + 1
      BY <1>1
    <3>2. made + 1 <= made + 1
      BY <1>1
    <3> QED
      BY <1>8, <1>9, <1>10, <1>11, <3>1, <3>2
  <2>3. \A i \in 1 .. Len(buffer') : \A e \in db.rows : e.row # buffer'[i]
    BY <1>6, <1>9, <1>10, <1>12 DEF Waits
  <2> QED
    BY <1>9, <2>1, <2>2, <2>3 DEF Waits
<1>14. ASSUME NEW w \in Threads PROVE Apart(buffer', batch[w])
  <2>1. Apart(buffer, batch[w]) /\ Waits(batch[w], db.rows, made)
    BY DEF OnceInv, Queued
  <2>2. Apart(kept, batch[w])
    BY <1>7, <2>1 DEF Apart
  <2>3. \A i \in 1 .. Len(batch[w]) : batch[w][i] # made + 1
    <3>1. \A i \in 1 .. Len(batch[w]) : batch[w][i] \in 1 .. MaxRows /\ batch[w][i] <= made
      BY <2>1, ElementOfSeq DEF Waits
    <3> QED
      BY <1>1, <3>1
  <2> QED
    BY <1>9, <1>10, <2>2, <2>3 DEF Apart
<1>15. Queued(buffer, batch, db.rows, made + 1)
  BY <1>1, LooserQueued DEF OnceInv
<1>16. Queued(buffer', batch, db.rows, made + 1)
  BY <1>13, <1>14, <1>15 DEF Queued
<1>17. Once(db.rows, made + 1) /\ Once(synced.rows, made + 1)
  BY <1>1, LooserOnce DEF OnceInv
<1> QED
  BY <1>2, <1>16, <1>17 DEF OnceInv

\* A thread's batch is another one now, and so is the queue.
LEMMA OtherBatch ==
    ASSUME NEW b, NEW t, NEW rows, NEW m, NEW w \in Threads, Queued(b, t, rows, m), t \in [Threads -> Seq(1 .. MaxRows)],
           NEW q, NEW x, Waits(q, rows, m), Waits(x, rows, m), Apart(q, x),
           \A v \in Threads : v # w => Apart(q, t[v]) /\ Apart(x, t[v])
    PROVE  Queued(q, [t EXCEPT ![w] = x], rows, m)
<1> DEFINE u == [t EXCEPT ![w] = x]
<1>1. u[w] = x /\ \A v \in Threads : v # w => u[v] = t[v]
  OBVIOUS
<1> HIDE DEF u
<1>2. ASSUME NEW v \in Threads PROVE Waits(u[v], rows, m) /\ Apart(q, u[v])
  BY <1>1 DEF Queued
<1>3. \A s, r : Apart(s, r) <=> Apart(r, s)
  BY DEF Apart
<1>4. ASSUME NEW v \in Threads, NEW z \in Threads, v # z PROVE Apart(u[v], u[z])
  <2>1. CASE v = w
    BY <1>1, <1>4, <2>1
  <2>2. CASE z = w
    BY <1>1, <1>3, <1>4, <2>2
  <2>3. CASE v # w /\ z # w
    BY <1>1, <1>4, <2>3 DEF Queued
  <2> QED
    BY <2>1, <2>2, <2>3
<1>5. Queued(q, u, rows, m)
  BY <1>2, <1>4 DEF Queued
<1> QED
  BY <1>5 DEF u

LEMMA TakeOnce == ASSUME NEW w \in Threads, TypeInv, OnceInv, Take(w) PROVE OnceInv'
<1> DEFINE n == IF Len(buffer) < BatchRows THEN Len(buffer) ELSE BatchRows
           l == Len(buffer)
           x == SubSeq(buffer, 1, n)
           q == SubSeq(buffer, n + 1, l)
<1>1. /\ buffer \in Seq(1 .. MaxRows) /\ Len(buffer) \in Nat /\ BatchRows \in Nat /\ made \in Nat
      /\ batch \in [Threads -> Seq(1 .. MaxRows)]
  BY SizesAssumption, LenProperties DEF TypeInv, TypeOK
<1>2. batch' = [batch EXCEPT ![w] = x] /\ buffer' = q /\ UNCHANGED <<made, db, synced>>
  BY DEF Take, power
<1>3. n \in 0 .. Len(buffer) /\ l \in 0 .. Len(buffer) /\ 1 \in Nat \ {0} /\ n + 1 \in Nat \ {0}
  BY <1>1
<1>4. x = SubSeq(buffer, 1, n) /\ q = SubSeq(buffer, n + 1, l) /\ l = Len(buffer)
  OBVIOUS
<1> HIDE DEF n, l, x, q
<1>5. Waits(buffer, db.rows, made)
  BY DEF OnceInv, Queued
<1>6. Waits(x, db.rows, made) /\ Stretch(x, buffer, 1, n)
  BY <1>1, <1>3, <1>4, <1>5, PieceWaits
<1>7. Waits(q, db.rows, made) /\ Stretch(q, buffer, n + 1, l)
  BY <1>1, <1>3, <1>4, <1>5, PieceWaits
<1>8. /\ Len(x) \in Nat /\ Len(q) \in Nat
  BY <1>6, <1>7, LenProperties DEF Waits
<1>9. /\ \A i \in 1 .. Len(x) : i \in 1 .. n /\ i \in 1 .. l /\ x[i] = buffer[i]
      /\ \A i \in 1 .. Len(q) : n + i \in (n + 1) .. l /\ n + i \in 1 .. l /\ q[i] = buffer[n + i]
  <2>1. ASSUME NEW i \in 1 .. Len(x) PROVE i \in 1 .. n /\ i \in 1 .. l /\ x[i] = buffer[i]
    <3>1. 1 + i - 1 \in 1 .. n /\ x[i] = buffer[1 + i - 1]
      BY <1>6 DEF Stretch
    <3>2. 1 + i - 1 = i
      BY <1>8
    <3> QED
      BY <1>1, <1>3, <1>4, <3>1, <3>2
  <2>2. ASSUME NEW i \in 1 .. Len(q) PROVE n + i \in (n + 1) .. l /\ n + i \in 1 .. l /\ q[i] = buffer[n + i]
    <3>1. n + 1 + i - 1 \in (n + 1) .. l /\ q[i] = buffer[n + 1 + i - 1]
      BY <1>7 DEF Stretch
    <3>2. n + 1 + i - 1 = n + i
      BY <1>3, <1>8
    <3> QED
      BY <1>1, <1>3, <1>4, <3>1, <3>2
  <2> QED
    BY <2>1, <2>2
<1>10. Apart(q, x)
  <2> SUFFICES ASSUME NEW i \in 1 .. Len(q), NEW j \in 1 .. Len(x) PROVE q[i] # x[j]
    BY DEF Apart
  <2>1. n + i # j
    BY <1>3, <1>9
  <2>2. n + i \in 1 .. Len(buffer) /\ j \in 1 .. Len(buffer) /\ q[i] = buffer[n + i] /\ x[j] = buffer[j]
    BY <1>4, <1>9
  <2> DEFINE k == n + i
  <2> HIDE DEF k
  <2>3. k \in 1 .. Len(buffer) /\ k # j /\ q[i] = buffer[k]
    BY <2>1, <2>2 DEF k
  <2>4. buffer[k] # buffer[j]
    BY <1>5, <2>2, <2>3 DEF Waits, Distinct
  <2> QED
    BY <2>2, <2>3, <2>4
<1>11. ASSUME NEW v \in Threads, v # w PROVE Apart(q, batch[v]) /\ Apart(x, batch[v])
  <2>1. Apart(buffer, batch[v])
    BY DEF OnceInv, Queued
  <2>2. Apart(x, batch[v])
    BY <1>4, <1>9, <2>1 DEF Apart
  <2>3. \A i \in 1 .. Len(q) : \E k \in 1 .. Len(buffer) : q[i] = buffer[k]
    BY <1>4, <1>9
  <2>4. Apart(q, batch[v])
    BY <2>1, <2>3 DEF Apart
  <2> QED
    BY <2>2, <2>4
<1>12. Queued(q, [batch EXCEPT ![w] = x], db.rows, made)
  BY <1>1, <1>6, <1>7, <1>10, <1>11, OtherBatch DEF OnceInv
<1> QED
  BY <1>2, <1>12 DEF OnceInv

LEMMA CommitOnce == ASSUME NEW w \in Threads, TypeInv, OnceInv, Commit(w) PROVE OnceInv'
<1> DEFINE b == batch[w]
           new == {Entry(db.head + i, b[i]) : i \in DOMAIN b}
           R == db.rows \cup new
           none == << >>
<1>1. /\ db \in Journals /\ made \in Nat /\ batch \in [Threads -> Seq(1 .. MaxRows)] /\ b \in Seq(1 .. MaxRows)
      /\ DOMAIN b = 1 .. Len(b) /\ Len(b) \in Nat
  BY SizesAssumption, LenProperties DEF TypeInv, TypeOK
<1>2. db'.rows = R /\ batch' = [batch EXCEPT ![w] = none] /\ UNCHANGED <<made, buffer, synced>>
  BY <1>1 DEF Commit, power, Journals
<1>3. \A e \in new : \E i \in 1 .. Len(b) : e = Entry(db.head + i, b[i]) /\ e.row = b[i]
  BY <1>1 DEF Entry
<1>4. Waits(b, db.rows, made) /\ Once(db.rows, made)
  BY DEF OnceInv, Queued
<1> HIDE DEF b, new
<1>5. Once(R, made)
  <2>1. ASSUME NEW e \in new, NEW f \in new, e.row = f.row PROVE e = f
    BY <1>3, <1>4, <2>1 DEF Waits, Distinct
  <2>2. ASSUME NEW e \in new, NEW f \in db.rows PROVE e.row # f.row
    BY <1>3, <1>4 DEF Waits
  <2>3. \A e \in new : e.row <= made
    BY <1>3, <1>4 DEF Waits
  <2> QED
    BY <1>4, <2>1, <2>2, <2>3 DEF Once
<1>6. ASSUME NEW s, Waits(s, db.rows, made), Apart(s, b) PROVE Waits(s, R, made)
  BY <1>3, <1>6 DEF Waits, Apart
<1>7. /\ Apart(buffer, b) /\ Waits(buffer, R, made)
  BY <1>6 DEF OnceInv, Queued, b
<1>8. ASSUME NEW v \in Threads, v # w PROVE Waits(batch[v], R, made)
  BY <1>6, <1>8 DEF OnceInv, Queued, b
<1> DEFINE u == [batch EXCEPT ![w] = none]
<1>9. u[w] = none /\ \A v \in Threads : v # w => u[v] = batch[v]
  BY <1>1
<1>10. Waits(none, R, made) /\ \A s : Apart(none, s) /\ Apart(s, none)
  BY NothingWaits
<1> HIDE DEF u, none, R
<1>11. ASSUME NEW v \in Threads PROVE Waits(u[v], R, made) /\ Apart(buffer, u[v])
  BY <1>8, <1>9, <1>10 DEF OnceInv, Queued
<1>12. ASSUME NEW v \in Threads, NEW z \in Threads, v # z PROVE Apart(u[v], u[z])
  BY <1>9, <1>10, <1>12 DEF OnceInv, Queued
<1>13. Queued(buffer, u, R, made)
  BY <1>7, <1>11, <1>12 DEF Queued
<1> QED
  BY <1>2, <1>5, <1>13 DEF OnceInv, u

LEMMA WriteFailsOnce == ASSUME NEW w \in Threads, TypeInv, OnceInv, WriteFails(w) PROVE OnceInv'
<1> DEFINE b == batch[w]
           back == b \o buffer
           n == IF Len(back) < QueueMax THEN Len(back) ELSE QueueMax
           q == SubSeq(back, 1, n)
           none == << >>
<1>1. /\ made \in Nat /\ batch \in [Threads -> Seq(1 .. MaxRows)] /\ b \in Seq(1 .. MaxRows)
      /\ buffer \in Seq(1 .. MaxRows) /\ Len(b) \in Nat /\ Len(buffer) \in Nat /\ QueueMax \in Nat \ {0}
  BY SizesAssumption, LenProperties DEF TypeInv, TypeOK
<1>2. buffer' = q /\ batch' = [batch EXCEPT ![w] = none] /\ UNCHANGED <<made, db, synced>>
  BY DEF WriteFails, power
<1>3. Waits(b, db.rows, made) /\ Waits(buffer, db.rows, made) /\ Apart(buffer, b)
  BY DEF OnceInv, Queued
<1>4. ASSUME NEW v \in Threads, v # w PROVE Apart(b, batch[v]) /\ Apart(buffer, batch[v])
  BY <1>4 DEF OnceInv, Queued
<1> HIDE DEF b
<1>5. /\ back \in Seq(1 .. MaxRows) /\ Len(back) = Len(b) + Len(buffer)
      /\ \A i \in 1 .. Len(back) : back[i] = IF i <= Len(b) THEN b[i] ELSE buffer[i - Len(b)]
  BY <1>1, ConcatProperties
<1> HIDE DEF back
<1>6. \A i \in 1 .. Len(back) :
         \/ i \in 1 .. Len(b) /\ back[i] = b[i]
         \/ i - Len(b) \in 1 .. Len(buffer) /\ back[i] = buffer[i - Len(b)]
  BY <1>1, <1>5
<1>7. Waits(back, db.rows, made)
  <2>1. Distinct(back)
    <3> SUFFICES ASSUME NEW i \in 1 .. Len(back), NEW j \in 1 .. Len(back), back[i] = back[j] PROVE i = j
      BY DEF Distinct
    <3>1. CASE i \in 1 .. Len(b) /\ back[i] = b[i] /\ j \in 1 .. Len(b) /\ back[j] = b[j]
      BY <1>3, <3>1 DEF Waits, Distinct
    <3>2. CASE /\ i - Len(b) \in 1 .. Len(buffer) /\ back[i] = buffer[i - Len(b)]
               /\ j - Len(b) \in 1 .. Len(buffer) /\ back[j] = buffer[j - Len(b)]
      <4>1. i - Len(b) = j - Len(b)
        BY <1>3, <3>2 DEF Waits, Distinct
      <4>2. i \in Int /\ j \in Int
        OBVIOUS
      <4> QED
        BY <1>1, <4>1, <4>2
    <3>3. CASE /\ i \in 1 .. Len(b) /\ back[i] = b[i]
               /\ j - Len(b) \in 1 .. Len(buffer) /\ back[j] = buffer[j - Len(b)]
      BY <1>3, <3>3 DEF Apart
    <3>4. CASE /\ j \in 1 .. Len(b) /\ back[j] = b[j]
               /\ i - Len(b) \in 1 .. Len(buffer) /\ back[i] = buffer[i - Len(b)]
      BY <1>3, <3>4 DEF Apart
    <3> QED
      BY <1>6, <3>1, <3>2, <3>3, <3>4
  <2> QED
    BY <1>3, <1>5, <1>6, <2>1 DEF Waits
<1>8. ASSUME NEW v \in Threads, v # w PROVE Apart(back, batch[v])
  BY <1>4, <1>6, <1>8 DEF Apart
<1>9. n \in 0 .. Len(back) /\ 1 \in Nat \ {0} /\ Len(back) \in Nat
  BY <1>1, <1>5
<1>10. q = SubSeq(back, 1, n)
  OBVIOUS
<1> HIDE DEF n, q
<1>11. Waits(q, db.rows, made) /\ Stretch(q, back, 1, n)
  BY <1>1, <1>7, <1>9, <1>10, PieceWaits
<1>12. \A i \in 1 .. Len(q) : i \in 1 .. Len(back) /\ q[i] = back[i]
  <2> SUFFICES ASSUME NEW i \in 1 .. Len(q) PROVE i \in 1 .. Len(back) /\ q[i] = back[i]
    OBVIOUS
  <2>1. 1 + i - 1 \in 1 .. n /\ q[i] = back[1 + i - 1]
    BY <1>11 DEF Stretch
  <2>2. 1 + i - 1 = i
    OBVIOUS
  <2> QED
    BY <1>9, <2>1, <2>2
<1>13. Waits(none, db.rows, made) /\ \A s : Apart(none, s) /\ Apart(s, none)
  BY NothingWaits
<1> HIDE DEF none
<1>14. ASSUME NEW v \in Threads, v # w PROVE Apart(q, batch[v]) /\ Apart(none, batch[v])
  BY <1>8, <1>12, <1>13, <1>14 DEF Apart
<1>15. Apart(q, none)
  BY <1>13
<1>16. Queued(q, [batch EXCEPT ![w] = none], db.rows, made)
  BY <1>1, <1>11, <1>13, <1>14, <1>15, OtherBatch DEF OnceInv
<1> QED
  BY <1>2, <1>16 DEF OnceInv

\* The queue and the batches stay; the journal loses rows, or gains a marker.
LEMMA JournalOnce ==
    ASSUME TypeInv, OnceInv, UNCHANGED <<made, buffer, batch, synced>>, db' \in Journals,
           \A e \in db'.rows : e \in db.rows
    PROVE  OnceInv'
<1>1. made \in Nat /\ made <= made /\ db.rows \in SUBSET Entries
  BY SizesAssumption DEF TypeInv, TypeOK, Journals
<1>2. Queued(buffer, batch, db'.rows, made)
  BY <1>1, LooserQueued DEF OnceInv
<1>3. Once(db'.rows, made)
  BY <1>1, LooserOnce DEF OnceInv
<1> QED
  BY <1>2, <1>3 DEF OnceInv

LEMMA EmptyOnce ==
    ASSUME NEW rows, NEW m
    PROVE  Queued(<< >>, NoBatch, rows, m)
<1>1. \A w \in Threads : NoBatch[w] = << >>
  BY DEF NoBatch
<1> QED
  BY <1>1, NothingWaits DEF Queued

LEMMA NextOnce == TypeInv /\ OnceInv /\ [Next]_vars => OnceInv'
<1> SUFFICES ASSUME TypeInv, OnceInv, [Next]_vars PROVE OnceInv'
  OBVIOUS
<1>0. TypeInv'
  BY NextTyped
<1>a. db \in Journals
  BY DEF TypeInv, TypeOK
<1>b. made \in 0 .. MaxRows
  BY DEF TypeInv, TypeOK
<1>c. made \in Nat
  BY <1>b, SizesAssumption
<1>1. db \in Journals /\ made \in Nat /\ TypeInv'
  BY ONLY <1>0, <1>a, <1>c
<1>2. db' \in Journals
  BY <1>0 DEF TypeInv, TypeOK
<1>3. ASSUME NEW w \in Threads, Drained(w) PROVE OnceInv'
  BY <1>3 DEF Drained, power, OnceInv
<1>4. CASE Close \/ Flush \/ UNCHANGED vars
  BY <1>4 DEF Close, Flush, power, vars, OnceInv
<1>5. CASE Trim
  <2>1. db'.rows \subseteq db.rows
    BY <1>1, <1>5 DEF Trim, Journals
  <2> QED
    BY <1>2, <1>5, <2>1, JournalOnce DEF Trim, power
<1>6. CASE Evict
  <2>1. db'.rows \subseteq db.rows
    BY <1>1, <1>6 DEF Evict, Journals
  <2> QED
    BY <1>2, <1>6, <2>1, JournalOnce DEF Evict, power
<1>7. CASE EvictDone
  <2> DEFINE M == Marker(db.head + 1, gap)
  <2>1. \A e \in db'.rows : e \in db.rows \/ e = M
    BY <1>1, <1>7 DEF EvictDone, Journals
  <2>2. M.row = 0
    BY DEF Marker
  <2> HIDE DEF M
  <2>3. UNCHANGED <<made, buffer, batch, synced>>
    BY <1>7 DEF EvictDone, power
  <2>4. \A e \in db'.rows : e \in db.rows \/ e.row = 0
    BY <2>1, <2>2
  <2>5. Queued(buffer, batch, db'.rows, made)
    BY <1>1, <2>4, LooserQueued DEF OnceInv
  <2>6. Once(db'.rows, made)
    BY <1>1, <2>1, <2>2 DEF OnceInv, Once
  <2> QED
    BY <2>3, <2>5, <2>6 DEF OnceInv
<1>8. ASSUME NEW c \in Drains, Drain(c) PROVE OnceInv'
  <2>1. db'.rows = db.rows
    BY <1>1, <1>8 DEF Drain, Ask, Hear, Fetch, GiveUp, Ingest, Journals
  <2>2. UNCHANGED <<made, buffer, batch, synced>>
    BY <1>8 DEF Drain, Ask, Hear, Fetch, GiveUp, Ingest, power, node
  <2> QED
    BY <2>1, <2>2 DEF OnceInv
<1>9. CASE Kill
  <2>1. buffer' = << >> /\ batch' = NoBatch /\ UNCHANGED <<made, db, synced>>
    BY <1>9 DEF Kill, Reboot, power
  <2> QED
    BY <2>1, EmptyOnce DEF OnceInv
<1>10. CASE Sync
  BY <1>10 DEF Sync, node, OnceInv
<1>11. CASE NodeLosesPower
  <2>1. buffer' = << >> /\ batch' = NoBatch /\ UNCHANGED <<made, synced>> /\ db' = synced
    BY <1>11 DEF NodeLosesPower, Reboot
  <2> QED
    BY <2>1, EmptyOnce DEF OnceInv
<1>12. CASE CoordinatorLosesPower
  BY <1>12 DEF CoordinatorLosesPower, node, OnceInv
<1> QED
  BY <1>3, <1>4, <1>5, <1>6, <1>7, <1>8, <1>9, <1>10, <1>11, <1>12, AppendOnce, TakeOnce, CommitOnce,
     WriteFailsOnce DEF Next, Writer, Failure

(* A row is journalled at most once, whatever fails: although _drain()     *)
(* puts a batch back when its insert fails, close() may flush the queue    *)
(* beside a writer that is still alive, and a power cut takes the journal  *)
(* back to its last sync.                                                  *)
THEOREM JournalledOnce == Spec => []WrittenOnce
<1>1. Init => TypeInv /\ OnceInv
  <2> SUFFICES ASSUME Init PROVE OnceInv
    BY InitTyped
  <2>1. buffer = << >> /\ batch = NoBatch /\ db.rows = {} /\ synced.rows = {}
    BY DEF Init
  <2>2. Once({}, made)
    BY DEF Once
  <2> QED
    BY <2>1, <2>2, EmptyOnce DEF OnceInv
<1>2. TypeInv /\ OnceInv /\ [Next]_vars => TypeInv' /\ OnceInv'
  BY NextTyped, NextOnce
<1>3. OnceInv => WrittenOnce
  BY DEF OnceInv, Once, WrittenOnce
<1> QED
  BY <1>1, <1>2, <1>3, PTL DEF Spec
=============================================================================
