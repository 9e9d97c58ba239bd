--------------------------- MODULE HexMergeProofs ----------------------------
(***************************************************************************)
(* What merge_files computes, for every number of records of every size    *)
(* and every size of a segment.  The reading of a file, the sort and the   *)
(* loop that writes are recursive functions; each is first shown to be     *)
(* built step by step, and then by induction over the steps: what was read *)
(* or written so far holds a memory (Hold), byte for byte, and a programmer*)
(* of the standard makes the same memory of it.                            *)
(***************************************************************************)
EXTENDS HexMerge, FiniteSetTheorems, SequenceTheorems, TLAPS

(* Induction over the naturals, for sets: if n were not in S, counting     *)
(* down from it would squeeze 0..n into 0..(n - 1).                        *)
LEMMA Induction ==
    ASSUME NEW S, 0 \in S, \A n \in Nat : n \in S => n + 1 \in S
    PROVE  Nat \subseteq S
<1> SUFFICES ASSUME NEW n \in Nat, n \notin S
             PROVE  FALSE
  OBVIOUS
<1> DEFINE f == [k \in 0..n |-> IF k \in S THEN k ELSE k - 1]
<1>1. f \in [0..n -> 0..(n - 1)]
  <2> SUFFICES ASSUME NEW k \in 0..n
               PROVE  (IF k \in S THEN k ELSE k - 1) \in 0..(n - 1)
    OBVIOUS
  <2> QED
    OBVIOUS
<1>2. /\ IsFiniteSet(0..n) /\ IsFiniteSet(0..(n - 1))
      /\ Cardinality(0..(n - 1)) < Cardinality(0..n)
  BY FS_Interval
<1>3. PICK x \in 0..n, y \in 0..n : x # y /\ f[x] = f[y]
  <2> HIDE DEF f
  <2> QED
    BY <1>1, <1>2, FS_PigeonHole
<1>4. ASSUME NEW k \in 0..n, k \notin S
      PROVE  k - 1 \in Nat /\ k - 1 \notin S
  <2>1. k - 1 \in Nat
    BY <1>4
  <2>2. k = (k - 1) + 1
    BY <1>4
  <2> QED
    BY <1>4, <2>1, <2>2
<1> QED
  BY <1>3, <1>4

-----------------------------------------------------------------------------
(* A loop over records, from its recursive definition.  No prover can      *)
(* take the step of a loop for a parameter: each has a lemma of its own.   *)

LEMMA LoadAllIs ==
    ASSUME NEW file, NEW n \in Nat, Len(file) = n
    PROVE  \E at : /\ LoadAll(file) = at[n]
                   /\ at = [i \in 0..n |->
                        IF i = 0 THEN [base |-> 0, memory |-> EmptyMemory]
                        ELSE Load(at[i - 1], file[i])]
<1> DEFINE Step(at, m) == [i \in 0..m |->
                            IF i = 0 THEN [base |-> 0, memory |-> EmptyMemory]
                            ELSE Load(at[i - 1], file[i])]
           Reached == {m \in Nat : \E at : at = Step(at, m)}
<1>1. 0 \in Reached
  <2> DEFINE at == [i \in 0..0 |-> [base |-> 0, memory |-> EmptyMemory]]
  <2>1. at = Step(at, 0)
    OBVIOUS
  <2> QED
    BY <2>1
<1>2. ASSUME NEW m \in Nat, m \in Reached
      PROVE  m + 1 \in Reached
  <2>1. PICK at : at = Step(at, m)
    BY <1>2
  <2> DEFINE next == [i \in 0..(m + 1) |->
                        IF i <= m THEN at[i] ELSE Load(at[m], file[m + 1])]
  <2>2. next = Step(next, m + 1)
    BY <2>1
  <2> HIDE DEF next, Step
  <2> QED
    BY <2>2
<1>3. \E at : at = Step(at, n)
  <2> HIDE DEF Step
  <2> QED
    BY <1>1, <1>2, Induction
<1> DEFINE all == CHOOSE at : at = Step(at, n)
<1>4. all = Step(all, n)
  <2> HIDE DEF Step
  <2> QED
    BY <1>3
<1>5. LoadAll(file) = all[n]
  BY DEF LoadAll
<1> QED
  BY <1>4, <1>5

LEMMA ReadAllIs ==
    ASSUME NEW file, NEW n \in Nat, Len(file) = n
    PROVE  \E at : /\ ReadAll(file) = at[n]
                   /\ at = [i \in 0..n |->
                        IF i = 0 THEN [upper |-> 0, records |-> <<>>]
                        ELSE Read(at[i - 1], file[i])]
<1> DEFINE Step(at, m) == [i \in 0..m |->
                            IF i = 0 THEN [upper |-> 0, records |-> <<>>]
                            ELSE Read(at[i - 1], file[i])]
           Reached == {m \in Nat : \E at : at = Step(at, m)}
<1>1. 0 \in Reached
  <2> DEFINE at == [i \in 0..0 |-> [upper |-> 0, records |-> <<>>]]
  <2>1. at = Step(at, 0)
    OBVIOUS
  <2> QED
    BY <2>1
<1>2. ASSUME NEW m \in Nat, m \in Reached
      PROVE  m + 1 \in Reached
  <2>1. PICK at : at = Step(at, m)
    BY <1>2
  <2> DEFINE next == [i \in 0..(m + 1) |->
                        IF i <= m THEN at[i] ELSE Read(at[m], file[m + 1])]
  <2>2. next = Step(next, m + 1)
    BY <2>1
  <2> HIDE DEF next, Step
  <2> QED
    BY <2>2
<1>3. \E at : at = Step(at, n)
  <2> HIDE DEF Step
  <2> QED
    BY <1>1, <1>2, Induction
<1> DEFINE all == CHOOSE at : at = Step(at, n)
<1>4. all = Step(all, n)
  <2> HIDE DEF Step
  <2> QED
    BY <1>3
<1>5. ReadAll(file) = all[n]
  BY DEF ReadAll
<1> QED
  BY <1>4, <1>5

LEMMA SortedIs ==
    ASSUME NEW records, NEW n \in Nat, Len(records) = n
    PROVE  \E at : /\ Sorted(records) = at[n]
                   /\ at = [i \in 0..n |->
                        IF i = 0 THEN <<>>
                        ELSE Insert(at[i - 1], records[i])]
<1> DEFINE Step(at, m) == [i \in 0..m |->
                            IF i = 0 THEN <<>>
                            ELSE Insert(at[i - 1], records[i])]
           Reached == {m \in Nat : \E at : at = Step(at, m)}
<1>1. 0 \in Reached
  <2> DEFINE at == [i \in 0..0 |-> <<>>]
  <2>1. at = Step(at, 0)
    OBVIOUS
  <2> QED
    BY <2>1
<1>2. ASSUME NEW m \in Nat, m \in Reached
      PROVE  m + 1 \in Reached
  <2>1. PICK at : at = Step(at, m)
    BY <1>2
  <2> DEFINE next == [i \in 0..(m + 1) |->
                        IF i <= m THEN at[i] ELSE Insert(at[m], records[m + 1])]
  <2>2. next = Step(next, m + 1)
    BY <2>1
  <2> HIDE DEF next, Step
  <2> QED
    BY <2>2
<1>3. \E at : at = Step(at, n)
  <2> HIDE DEF Step
  <2> QED
    BY <1>1, <1>2, Induction
<1> DEFINE all == CHOOSE at : at = Step(at, n)
<1>4. all = Step(all, n)
  <2> HIDE DEF Step
  <2> QED
    BY <1>3
<1>5. Sorted(records) = all[n]
  BY DEF Sorted
<1> QED
  BY <1>4, <1>5

WriteStart(sorted, patches) ==
    LET first == sorted[1].addr \div SEGMENT
    IN  [upper |-> first, patches |-> patches, out |-> <<StartLinearAddress(first)>>]

LEMMA WriteAllIs ==
    ASSUME NEW sorted, NEW patches, NEW n \in Nat, Len(sorted) = n
    PROVE  \E at : /\ WriteAll(sorted, patches) = at[n]
                   /\ at = [i \in 0..n |->
                        IF i = 0 THEN WriteStart(sorted, patches)
                        ELSE WriteRecord(at[i - 1], sorted[i])]
<1> DEFINE begin == WriteStart(sorted, patches)
<1> DEFINE Step(at, m) == [i \in 0..m |->
                            IF i = 0 THEN begin
                            ELSE WriteRecord(at[i - 1], sorted[i])]
           Reached == {m \in Nat : \E at : at = Step(at, m)}
<1> HIDE DEF begin
<1>1. 0 \in Reached
  <2> DEFINE at == [i \in 0..0 |-> begin]
  <2>1. at = Step(at, 0)
    OBVIOUS
  <2> QED
    BY <2>1
<1>2. ASSUME NEW m \in Nat, m \in Reached
      PROVE  m + 1 \in Reached
  <2>1. PICK at : at = Step(at, m)
    BY <1>2
  <2> DEFINE next == [i \in 0..(m + 1) |->
                        IF i <= m THEN at[i] ELSE WriteRecord(at[m], sorted[m + 1])]
  <2>2. next = Step(next, m + 1)
    BY <2>1
  <2> HIDE DEF next, Step
  <2> QED
    BY <2>2
<1>3. \E at : at = Step(at, n)
  <2> HIDE DEF Step
  <2> QED
    BY <1>1, <1>2, Induction
<1> DEFINE all == CHOOSE at : at = Step(at, n)
<1>4. all = Step(all, n)
  <2> HIDE DEF Step
  <2> QED
    BY <1>3
<1>5. WriteAll(sorted, patches) = all[n]
  BY DEF WriteAll, begin, WriteStart
<1> QED
  BY <1>4, <1>5 DEF begin

-----------------------------------------------------------------------------
(* What the loops over a file make of one record more.                     *)

LEMMA LoadEmpty == LoadAll(<<>>) = [base |-> 0, memory |-> EmptyMemory]
<1> DEFINE file == <<>>
<1>1. Len(file) = 0 /\ 0 \in Nat
  OBVIOUS
<1> HIDE DEF file
<1>2. PICK at : /\ LoadAll(file) = at[0]
                /\ at = [i \in 0..0 |-> IF i = 0 THEN [base |-> 0, memory |-> EmptyMemory]
                                        ELSE Load(at[i - 1], file[i])]
  BY <1>1, LoadAllIs
<1> QED
  BY <1>2 DEF file

LEMMA LoadAppend ==
    ASSUME NEW S, NEW file \in Seq(S), NEW r \in S
    PROVE  LoadAll(Append(file, r)) = Load(LoadAll(file), r)
<1> DEFINE n == Len(file)
           longer == Append(file, r)
<1>1. /\ n \in Nat /\ Len(longer) = n + 1
      /\ longer[n + 1] = r /\ \A i \in 1..n : longer[i] = file[i]
  OBVIOUS
<1> HIDE DEF longer
<1>2. PICK at : /\ LoadAll(file) = at[n]
                /\ at = [i \in 0..n |-> IF i = 0 THEN [base |-> 0, memory |-> EmptyMemory]
                                        ELSE Load(at[i - 1], file[i])]
  BY <1>1, LoadAllIs
<1>3. PICK to : /\ LoadAll(longer) = to[n + 1]
                /\ to = [i \in 0..(n + 1) |-> IF i = 0 THEN [base |-> 0, memory |-> EmptyMemory]
                                              ELSE Load(to[i - 1], longer[i])]
  <2>1. n + 1 \in Nat
    BY <1>1
  <2> QED
    BY <1>1, <2>1, LoadAllIs
<1> DEFINE Same == {i \in Nat : i <= n => to[i] = at[i]}
<1>4. 0 \in Same
  BY <1>1, <1>2, <1>3
<1>5. ASSUME NEW i \in Nat, i \in Same
      PROVE  i + 1 \in Same
  BY <1>1, <1>2, <1>3, <1>5
<1>6. to[n] = at[n]
  <2> HIDE DEF Same
  <2>1. n \in Same
    BY <1>1, <1>4, <1>5, Induction
  <2> QED
    BY <1>1, <2>1 DEF Same
<1>7. to[n + 1] = Load(to[n], r)
  BY <1>1, <1>3
<1> QED
  BY <1>2, <1>3, <1>6, <1>7 DEF longer

LEMMA ReadEmpty == ReadAll(<<>>) = [upper |-> 0, records |-> <<>>]
<1> DEFINE file == <<>>
<1>1. Len(file) = 0 /\ 0 \in Nat
  OBVIOUS
<1> HIDE DEF file
<1>2. PICK at : /\ ReadAll(file) = at[0]
                /\ at = [i \in 0..0 |-> IF i = 0 THEN [upper |-> 0, records |-> <<>>]
                                        ELSE Read(at[i - 1], file[i])]
  BY <1>1, ReadAllIs
<1> QED
  BY <1>2 DEF file

LEMMA ReadAppend ==
    ASSUME NEW S, NEW file \in Seq(S), NEW r \in S
    PROVE  ReadAll(Append(file, r)) = Read(ReadAll(file), r)
<1> DEFINE n == Len(file)
           longer == Append(file, r)
<1>1. /\ n \in Nat /\ Len(longer) = n + 1
      /\ longer[n + 1] = r /\ \A i \in 1..n : longer[i] = file[i]
  OBVIOUS
<1> HIDE DEF longer
<1>2. PICK at : /\ ReadAll(file) = at[n]
                /\ at = [i \in 0..n |-> IF i = 0 THEN [upper |-> 0, records |-> <<>>]
                                        ELSE Read(at[i - 1], file[i])]
  BY <1>1, ReadAllIs
<1>3. PICK to : /\ ReadAll(longer) = to[n + 1]
                /\ to = [i \in 0..(n + 1) |-> IF i = 0 THEN [upper |-> 0, records |-> <<>>]
                                              ELSE Read(to[i - 1], longer[i])]
  <2>1. n + 1 \in Nat
    BY <1>1
  <2> QED
    BY <1>1, <2>1, ReadAllIs
<1> DEFINE Same == {i \in Nat : i <= n => to[i] = at[i]}
<1>4. 0 \in Same
  BY <1>1, <1>2, <1>3
<1>5. ASSUME NEW i \in Nat, i \in Same
      PROVE  i + 1 \in Same
  BY <1>1, <1>2, <1>3, <1>5
<1>6. to[n] = at[n]
  <2> HIDE DEF Same
  <2>1. n \in Same
    BY <1>1, <1>4, <1>5, Induction
  <2> QED
    BY <1>1, <2>1 DEF Same
<1>7. to[n + 1] = Read(to[n], r)
  BY <1>1, <1>3
<1> QED
  BY <1>2, <1>3, <1>6, <1>7 DEF longer

-----------------------------------------------------------------------------
(* Records with addresses.                                                 *)

AddrRecords(Byte) == [addr : Nat, value : Seq(Byte) \ {<<>>}]

LEMMA RecordIs ==
    ASSUME NEW Byte, NEW r \in AddrRecords(Byte)
    PROVE  /\ r.addr \in Nat /\ r.value \in Seq(Byte)
           /\ Len(r.value) \in Nat \ {0} /\ DOMAIN r.value = 1..Len(r.value)
           /\ r = [addr |-> r.addr, value |-> r.value]
<1>1. /\ r.addr \in Nat /\ r.value \in Seq(Byte) /\ r.value # <<>>
      /\ r = [addr |-> r.addr, value |-> r.value]
  BY DEF AddrRecords
<1> QED
  BY <1>1, EmptySeq, LenProperties

LEMMA CoversIs ==
    ASSUME NEW Byte, NEW r \in AddrRecords(Byte)
    PROVE  /\ Covers(r, r.addr)
           /\ \A a : Covers(r, a) <=> a \in Int /\ r.addr <= a /\ a < r.addr + Len(r.value)
BY RecordIs DEF Covers

LEMMA RecordsAre ==
    ASSUME NEW Byte, NEW records \in Seq(AddrRecords(Byte))
    PROVE  /\ Len(records) \in Nat /\ DOMAIN records = 1..Len(records)
           /\ \A i \in 1..Len(records) :
                /\ records[i] \in AddrRecords(Byte)
                /\ records[i].addr \in Nat
                /\ records[i] \in ToSet(records)
           /\ \A r \in ToSet(records) : \E i \in 1..Len(records) : r = records[i]
<1>1. Len(records) \in Nat /\ DOMAIN records = 1..Len(records)
  BY LenProperties
<1>2. ASSUME NEW i \in 1..Len(records)
      PROVE  records[i] \in AddrRecords(Byte) /\ records[i].addr \in Nat
  <2>1. records[i] \in AddrRecords(Byte)
    BY ElementOfSeq
  <2> QED
    BY <2>1, RecordIs
<1> QED
  BY <1>1, <1>2 DEF ToSet

-----------------------------------------------------------------------------
(* sort_by_key.                                                            *)

Ascending(records) ==
    \A i, j \in DOMAIN records : i < j => records[i].addr < records[j].addr

(* The records that do not come later than a new one are the first ones.   *)
LEMMA FirstOnes ==
    ASSUME NEW Byte, NEW sorted \in Seq(AddrRecords(Byte)), Ascending(sorted), NEW addr \in Nat
    PROVE  \E k \in 0..Len(sorted) :
                {i \in DOMAIN sorted : sorted[i].addr <= addr} = 1..k
<1> DEFINE Below(m) == {i \in 1..m : sorted[i].addr <= addr}
           First == {m \in Nat : m <= Len(sorted) => \E k \in 0..m : Below(m) = 1..k}
<1>0. /\ DOMAIN sorted = 1..Len(sorted) /\ Len(sorted) \in Nat
      /\ \A i \in 1..Len(sorted) : sorted[i].addr \in Nat
  BY RecordsAre
<1>1. 0 \in First
  <2>1. Below(0) = 1..0
    OBVIOUS
  <2> QED
    BY <2>1
<1>2. ASSUME NEW m \in Nat, m \in First
      PROVE  m + 1 \in First
  <2> SUFFICES ASSUME m + 1 <= Len(sorted)
               PROVE  \E k \in 0..(m + 1) : Below(m + 1) = 1..k
    OBVIOUS
  <2>1. CASE sorted[m + 1].addr <= addr
    <3>1. \A i \in 1..(m + 1) : sorted[i].addr <= addr
      BY <1>0, <2>1 DEF Ascending
    <3>2. Below(m + 1) = 1..(m + 1)
      BY <3>1
    <3> QED
      BY <3>2
  <2>2. CASE ~(sorted[m + 1].addr <= addr)
    <3>1. Below(m + 1) = Below(m)
      BY <2>2
    <3> QED
      BY <1>2, <3>1
  <2> QED
    BY <2>1, <2>2
<1>3. Len(sorted) \in First
  <2> HIDE DEF First
  <2> QED
    BY <1>0, <1>1, <1>2, Induction
<1> QED
  BY <1>0, <1>3

(* An element in the middle of a sequence.                                 *)
LEMMA Inserted ==
    ASSUME NEW S, NEW s \in Seq(S), NEW e \in S, NEW p \in 1..(Len(s) + 1)
    PROVE  /\ InsertAt(s, p, e) \in Seq(S) /\ Len(InsertAt(s, p, e)) = Len(s) + 1
           /\ \A i \in 1..(Len(s) + 1) : InsertAt(s, p, e)[i] =
                IF i < p THEN s[i] ELSE IF i = p THEN e ELSE s[i - 1]
<1> DEFINE n == Len(s)
           k == p - 1
           front == SubSeq(s, 1, k)
           back == SubSeq(s, k + 1, n)
           mid == front \o <<e>>
<1>1. /\ n \in Nat /\ n \in Int /\ k \in 0..n /\ k \in Int /\ k + 1 \in Int /\ k + 1 = p
      /\ \A i \in 1..n : s[i] \in S
  BY LenProperties, ElementOfSeq
<1> HIDE DEF k
<1>2. front \in Seq(S) /\ Len(front) = k /\ \A i \in 1..k : front[i] = s[i]
  <2>1. /\ front \in Seq(S)
        /\ Len(front) = IF 1 <= k THEN k - 1 + 1 ELSE 0
        /\ \A i \in 1..(k - 1 + 1) : front[i] = s[1 + i - 1]
    BY <1>1, SubSeqProperties
  <2> HIDE DEF front
  <2> QED
    BY <1>1, <2>1
<1>3. back \in Seq(S) /\ Len(back) = n - k /\ \A i \in 1..(n - k) : back[i] = s[i + k]
  <2>1. /\ back \in Seq(S)
        /\ Len(back) = IF k + 1 <= n THEN n - (k + 1) + 1 ELSE 0
        /\ \A i \in 1..(n - (k + 1) + 1) : back[i] = s[k + 1 + i - 1]
    BY <1>1, SubSeqProperties
  <2> HIDE DEF back
  <2> QED
    BY <1>1, <2>1
<1> HIDE DEF front, back
<1>4. /\ mid \in Seq(S) /\ Len(mid) = k + 1 /\ mid[k + 1] = e
      /\ \A i \in 1..k : mid[i] = front[i]
  <2>1. <<e>> \in Seq(S) /\ Len(<<e>>) = 1 /\ <<e>>[1] = e
    OBVIOUS
  <2> QED
    BY <1>1, <1>2, <2>1, ConcatProperties
<1> DEFINE whole == mid \o back
<1> HIDE DEF mid, n
<1>5. /\ whole \in Seq(S) /\ Len(whole) = n + 1
      /\ \A i \in 1..(n + 1) :
            whole[i] = IF i <= k + 1 THEN mid[i] ELSE back[i - (k + 1)]
  <2>1. /\ whole \in Seq(S) /\ Len(whole) = Len(mid) + Len(back)
        /\ \A i \in 1..(Len(mid) + Len(back)) :
            whole[i] = IF i <= Len(mid) THEN mid[i] ELSE back[i - Len(mid)]
    BY <1>3, <1>4, ConcatProperties
  <2> HIDE DEF whole
  <2> QED
    BY <1>1, <1>3, <1>4, <2>1
<1>6. InsertAt(s, p, e) = whole
  BY <1>1 DEF InsertAt, mid, front, back, n, k
<1> HIDE DEF whole
<1>7. ASSUME NEW i \in 1..(n + 1)
      PROVE  whole[i] = IF i <= k THEN s[i] ELSE IF i = k + 1 THEN e ELSE s[i - 1]
  <2>1. CASE i <= k
    BY <1>1, <1>2, <1>4, <1>5, <2>1
  <2>2. CASE i = k + 1
    BY <1>1, <1>4, <1>5, <2>2
  <2>3. CASE i > k + 1
    <3>1. i - (k + 1) \in 1..(n - k) /\ (i - (k + 1)) + k = i - 1
      BY <1>1, <2>3
    <3>2. whole[i] = back[i - (k + 1)]
      BY <1>1, <1>5, <2>3
    <3>3. back[i - (k + 1)] = s[i - 1]
      BY <1>3, <3>1
    <3> QED
      BY <1>1, <2>3, <3>2, <3>3
  <2> QED
    BY <1>1, <2>1, <2>2, <2>3
<1>8. /\ whole \in Seq(S) /\ Len(whole) = n + 1
      /\ \A i \in 1..(n + 1) :
            whole[i] = IF i < p THEN s[i] ELSE IF i = p THEN e ELSE s[i - 1]
  BY <1>1, <1>5, <1>7
<1> QED
  BY <1>6, <1>8 DEF n

LEMMA InsertIs ==
    ASSUME NEW Byte, NEW sorted \in Seq(AddrRecords(Byte)), Ascending(sorted),
           NEW r \in AddrRecords(Byte), \A q \in ToSet(sorted) : q.addr # r.addr
    PROVE  /\ Insert(sorted, r) \in Seq(AddrRecords(Byte))
           /\ Ascending(Insert(sorted, r))
           /\ ToSet(Insert(sorted, r)) = ToSet(sorted) \cup {r}
<1> DEFINE n == Len(sorted)
           t == Insert(sorted, r)
<1>1. /\ DOMAIN sorted = 1..n /\ n \in Nat
      /\ \A i \in 1..n : sorted[i].addr \in Nat /\ sorted[i].addr # r.addr
      /\ r.addr \in Nat
  BY RecordsAre, RecordIs
<1>2. PICK k \in 0..n : {i \in DOMAIN sorted : sorted[i].addr <= r.addr} = 1..k
  BY <1>1, FirstOnes
<1>3. Cardinality(1..k) = k
  BY <1>1, FS_Interval
<1>4. t = InsertAt(sorted, k + 1, r)
  <2>1. 1 + k = k + 1
    BY <1>1
  <2> QED
    BY <1>2, <1>3, <2>1 DEF Insert
<1>5. /\ t \in Seq(AddrRecords(Byte)) /\ Len(t) = n + 1
      /\ \A i \in 1..(n + 1) : t[i] =
            IF i <= k THEN sorted[i] ELSE IF i = k + 1 THEN r ELSE sorted[i - 1]
  <2> DEFINE p == k + 1
  <2>1. p \in 1..(Len(sorted) + 1)
    BY <1>1
  <2>3. t = InsertAt(sorted, p, r)
    BY <1>4
  <2> HIDE DEF p, t
  <2>2. /\ InsertAt(sorted, p, r) \in Seq(AddrRecords(Byte))
        /\ Len(InsertAt(sorted, p, r)) = Len(sorted) + 1
    BY <2>1, Inserted
  <2>4. \A i \in 1..(Len(sorted) + 1) : InsertAt(sorted, p, r)[i] =
            IF i < p THEN sorted[i] ELSE IF i = p THEN r ELSE sorted[i - 1]
    BY <2>1, Inserted
  <2> QED
    BY <1>1, <2>2, <2>3, <2>4 DEF p
<1> HIDE DEF t, n
<1>6. DOMAIN t = 1..(n + 1)
  BY <1>5, LenProperties
<1>7. Ascending(t)
  <2>1. \A i \in 1..n : sorted[i].addr <= r.addr <=> i <= k
    BY <1>1, <1>2
  <2> SUFFICES ASSUME NEW i \in 1..(n + 1), NEW j \in 1..(n + 1), i < j
               PROVE  t[i].addr < t[j].addr
    BY <1>6 DEF Ascending
  <2>2. CASE j <= k
    <3>1. i \in 1..n /\ j \in 1..n /\ t[i] = sorted[i] /\ t[j] = sorted[j]
      BY <1>1, <1>5, <2>2
    <3> QED
      BY <1>1, <3>1 DEF Ascending
  <2>3. CASE j = k + 1
    <3>1. i \in 1..n /\ t[i] = sorted[i] /\ t[j] = r /\ sorted[i].addr <= r.addr
      BY <1>1, <1>5, <2>1, <2>3
    <3> QED
      BY <1>1, <3>1
  <2>4. CASE i = k + 1
    <3>1. j - 1 \in 1..n /\ t[j] = sorted[j - 1] /\ t[i] = r /\ ~(sorted[j - 1].addr <= r.addr)
      BY <1>1, <1>5, <2>1, <2>4
    <3> QED
      BY <1>1, <3>1
  <2>5. CASE i <= k /\ j > k + 1
    <3>1. i \in 1..n /\ j - 1 \in 1..n /\ i < j - 1 /\ t[i] = sorted[i] /\ t[j] = sorted[j - 1]
      BY <1>1, <1>5, <2>5
    <3> QED
      BY <1>1, <3>1 DEF Ascending
  <2>6. CASE i > k + 1
    <3>1. /\ i - 1 \in 1..n /\ j - 1 \in 1..n /\ i - 1 < j - 1
          /\ t[i] = sorted[i - 1] /\ t[j] = sorted[j - 1]
      BY <1>1, <1>5, <2>6
    <3> QED
      BY <1>1, <3>1 DEF Ascending
  <2> QED
    BY <1>1, <2>2, <2>3, <2>4, <2>5, <2>6
<1>8. ToSet(t) = ToSet(sorted) \cup {r}
  <2>1. \A i \in 1..(n + 1) : t[i] \in ToSet(sorted) \cup {r}
    <3> TAKE i \in 1..(n + 1)
    <3>1. CASE i <= k
      BY <1>1, <1>5, <3>1 DEF ToSet
    <3>2. CASE i = k + 1
      BY <1>1, <1>5, <3>2
    <3>3. CASE i > k + 1
      <4>1. i - 1 \in DOMAIN sorted /\ t[i] = sorted[i - 1]
        BY <1>1, <1>5, <3>3
      <4> QED
        BY <4>1 DEF ToSet
    <3> QED
      BY <1>1, <3>1, <3>2, <3>3
  <2>2. \A i \in 1..n : sorted[i] \in ToSet(t)
    <3> TAKE i \in 1..n
    <3>1. CASE i <= k
      <4>1. i \in DOMAIN t /\ t[i] = sorted[i]
        BY <1>1, <1>5, <1>6, <3>1
      <4> QED
        BY <4>1 DEF ToSet
    <3>2. CASE i > k
      <4>1. i + 1 \in DOMAIN t /\ t[i + 1] = sorted[i]
        BY <1>1, <1>5, <1>6, <3>2
      <4> QED
        BY <4>1 DEF ToSet
    <3> QED
      BY <1>1, <3>1, <3>2
  <2>3. r \in ToSet(t)
    <3>1. k + 1 \in DOMAIN t /\ t[k + 1] = r
      BY <1>1, <1>5, <1>6
    <3> QED
      BY <3>1 DEF ToSet
  <2> QED
    BY <1>1, <1>6, <2>1, <2>2, <2>3 DEF ToSet
<1> QED
  BY <1>5, <1>7, <1>8 DEF t

LEMMA ApartIs ==
    ASSUME NEW Byte, NEW records \in Seq(AddrRecords(Byte)), Apart(records),
           NEW i \in 1..Len(records), NEW j \in 1..Len(records), i # j
    PROVE  /\ records[i].addr # records[j].addr
           /\ \A a : ~(Covers(records[i], a) /\ Covers(records[j], a))
<1> DEFINE q == records[i]
           r == records[j]
<1>1. i \in DOMAIN records /\ j \in DOMAIN records
      /\ q \in AddrRecords(Byte) /\ r \in AddrRecords(Byte)
  BY RecordsAre
<1>2. /\ q.addr \in Nat /\ Len(q.value) \in Nat \ {0} /\ DOMAIN q.value = 1..Len(q.value)
      /\ r.addr \in Nat /\ Len(r.value) \in Nat \ {0}
  BY <1>1, RecordIs
<1>3. \A k \in DOMAIN q.value : ~Covers(r, q.addr + k - 1)
  BY <1>1 DEF Apart
<1> HIDE DEF q, r
<1>4. ASSUME NEW a, Covers(q, a), Covers(r, a)
      PROVE  FALSE
  <2>1. a \in Int /\ a - q.addr + 1 \in DOMAIN q.value /\ q.addr + (a - q.addr + 1) - 1 = a
    BY <1>2, <1>4, SMTT(60) DEF Covers
  <2> QED
    BY <1>3, <1>4, <2>1
<1>5. q.addr # r.addr
  <2>1. Covers(q, q.addr) /\ Covers(r, r.addr)
    BY <1>2 DEF Covers
  <2> QED
    BY <1>4, <2>1
<1> QED
  BY <1>4, <1>5 DEF q, r

LEMMA SortedFacts ==
    ASSUME NEW Byte, NEW records \in Seq(AddrRecords(Byte)), Apart(records)
    PROVE  /\ Sorted(records) \in Seq(AddrRecords(Byte))
           /\ Ascending(Sorted(records))
           /\ ToSet(Sorted(records)) = ToSet(records)
<1> DEFINE n == Len(records)
<1>1. /\ n \in Nat /\ DOMAIN records = 1..n
      /\ \A i \in 1..n : records[i] \in AddrRecords(Byte)
  BY RecordsAre
<1>2. PICK at : /\ Sorted(records) = at[n]
                /\ at = [i \in 0..n |-> IF i = 0 THEN <<>> ELSE Insert(at[i - 1], records[i])]
  BY <1>1, SortedIs
<1> HIDE DEF n
<1> DEFINE Good(i) == /\ at[i] \in Seq(AddrRecords(Byte)) /\ Ascending(at[i])
                      /\ ToSet(at[i]) = {records[j] : j \in 1..i}
           S == {i \in Nat : i <= n => Good(i)}
<1>3. 0 \in S
  <2>1. at[0] = <<>>
    BY <1>1, <1>2
  <2>2. <<>> \in Seq(AddrRecords(Byte)) /\ DOMAIN <<>> = {}
    OBVIOUS
  <2>3. Ascending(<<>>) /\ ToSet(<<>>) = {} /\ {records[j] : j \in 1..0} = {}
    BY <2>2 DEF Ascending, ToSet
  <2> QED
    BY <2>1, <2>2, <2>3
<1>4. ASSUME NEW i \in Nat, i \in S
      PROVE  i + 1 \in S
  <2> SUFFICES ASSUME i + 1 <= n
               PROVE  Good(i + 1)
    OBVIOUS
  <2>1. Good(i)
    BY <1>1, <1>4
  <2> DEFINE r == records[i + 1]
  <2>2. at[i + 1] = Insert(at[i], r) /\ i + 1 \in 1..n /\ r \in AddrRecords(Byte)
    BY <1>1, <1>2
  <2>3. \A q \in ToSet(at[i]) : q.addr # r.addr
    <3>1. ASSUME NEW j \in 1..i
          PROVE  records[j].addr # r.addr
      <4>1. j \in 1..n /\ j # i + 1
        BY <1>1
      <4> QED
        BY <2>2, <4>1, ApartIs DEF n
    <3> QED
      BY <2>1, <3>1
  <2> HIDE DEF r
  <2>4. /\ Insert(at[i], r) \in Seq(AddrRecords(Byte)) /\ Ascending(Insert(at[i], r))
        /\ ToSet(Insert(at[i], r)) = ToSet(at[i]) \cup {r}
    BY <2>1, <2>2, <2>3, InsertIs
  <2>5. {records[j] : j \in 1..i} \cup {r} = {records[j] : j \in 1..(i + 1)}
    BY DEF r
  <2> QED
    BY <2>1, <2>2, <2>4, <2>5
<1>5. Good(n)
  <2> HIDE DEF Good
  <2>1. n \in S
    <3> HIDE DEF S
    <3> QED
      BY <1>1, <1>3, <1>4, Induction
  <2> QED
    BY <1>1, <2>1
<1>6. ToSet(records) = {records[j] : j \in 1..n}
  BY <1>1 DEF ToSet
<1> QED
  BY <1>2, <1>5, <1>6

-----------------------------------------------------------------------------
(* The memory that a set of records is about.                              *)

MadeOf(memory, R) ==
    /\ memory = [a \in DOMAIN memory |-> memory[a]]
    /\ \A a : a \in DOMAIN memory <=> \E r \in R : Covers(r, a)
    /\ \A r \in R, a \in DOMAIN memory : Covers(r, a) => memory[a] = r.value[a - r.addr + 1]

LEMMA MadeOfOne ==
    ASSUME NEW R, NEW m, NEW n, MadeOf(m, R), MadeOf(n, R)
    PROVE  m = n
<1>1. DOMAIN m = DOMAIN n
  BY DEF MadeOf
<1>2. ASSUME NEW a \in DOMAIN m
      PROVE  m[a] = n[a]
  BY <1>1 DEF MadeOf
<1> QED
  BY <1>1, <1>2 DEF MadeOf

LEMMA MadeOfBoth ==
    ASSUME NEW R, NEW S, NEW m, NEW n, MadeOf(m, R), MadeOf(n, S),
           DOMAIN m \cap DOMAIN n = {}
    PROVE  MadeOf(Over(m, n), R \cup S)
<1> DEFINE both == Over(m, n)
<1>1. /\ DOMAIN both = DOMAIN m \cup DOMAIN n
      /\ both = [a \in DOMAIN both |-> both[a]]
      /\ \A a \in DOMAIN m : both[a] = m[a]
      /\ \A a \in DOMAIN n : both[a] = n[a]
  BY DEF Over
<1> HIDE DEF both
<1>2. \A a : a \in DOMAIN both <=> \E r \in R \cup S : Covers(r, a)
  BY <1>1 DEF MadeOf
<1>3. ASSUME NEW r \in R \cup S, NEW a \in DOMAIN both, Covers(r, a)
      PROVE  both[a] = r.value[a - r.addr + 1]
  <2>1. CASE r \in R
    BY <1>1, <1>3, <2>1 DEF MadeOf
  <2>2. CASE r \in S
    BY <1>1, <1>3, <2>2 DEF MadeOf
  <2> QED
    BY <2>1, <2>2
<1> QED
  BY <1>1, <1>2, <1>3 DEF MadeOf, both

LEMMA MadeOfRecord ==
    ASSUME NEW Byte, NEW r \in AddrRecords(Byte)
    PROVE  MadeOf(Placed(r.addr, r.value), {r})
BY RecordIs DEF MadeOf, Placed, Covers

LEMMA MadeOfMore ==
    ASSUME NEW Byte, NEW r \in AddrRecords(Byte), NEW R, NEW m, MadeOf(m, R),
           \A q \in R : \A a : ~(Covers(q, a) /\ Covers(r, a))
    PROVE  MadeOf(Over(Placed(r.addr, r.value), m), R \cup {r})
<1>1. MadeOf(Placed(r.addr, r.value), {r})
  BY MadeOfRecord
<1>2. DOMAIN Placed(r.addr, r.value) \cap DOMAIN m = {}
  BY <1>1 DEF MadeOf
<1> HIDE DEF MadeOf
<1>3. MadeOf(Over(Placed(r.addr, r.value), m), {r} \cup R)
  BY <1>1, <1>2, MadeOfBoth
<1>4. {r} \cup R = R \cup {r}
  OBVIOUS
<1> QED
  BY <1>3, <1>4

LEMMA MadeOfNone == MadeOf(EmptyMemory, {})
BY DEF MadeOf, EmptyMemory

-----------------------------------------------------------------------------
(* Induction over the length of a sequence, for sets.                      *)
LEMMA SeqInduction ==
    ASSUME NEW S, NEW T, <<>> \in T,
           \A s \in Seq(S), e \in S : s \in T => Append(s, e) \in T
    PROVE  Seq(S) \subseteq T
<1> DEFINE N == {n \in Nat : \A s \in Seq(S) : Len(s) = n => s \in T}
<1>1. 0 \in N
  <2>1. \A s \in Seq(S) : Len(s) = 0 => s = <<>>
    BY EmptySeq
  <2> QED
    BY <2>1
<1>2. ASSUME NEW n \in Nat, n \in N
      PROVE  n + 1 \in N
  <2> SUFFICES ASSUME NEW s \in Seq(S), Len(s) = n + 1
               PROVE  s \in T
    OBVIOUS
  <2>1. PICK f \in Seq(S), e \in S : s = Append(f, e)
    BY SequenceEmptyOrAppend, EmptySeq
  <2>2. Len(f) = n
    BY <2>1, AppendProperties, LenProperties
  <2> QED
    BY <1>2, <2>1, <2>2
<1>3. Nat \subseteq N
  <2> HIDE DEF N
  <2> QED
    BY <1>1, <1>2, Induction
<1> QED
  BY <1>3, LenProperties

-----------------------------------------------------------------------------
(* Records that hold a memory: each byte of it once, and nothing else.     *)

Hold(records, memory, Byte) ==
    /\ records \in Seq(AddrRecords(Byte))
    /\ Apart(records)
    /\ MadeOf(memory, ToSet(records))

LEMMA AppendIs ==
    ASSUME NEW S, NEW s \in Seq(S), NEW e \in S
    PROVE  /\ Append(s, e) \in Seq(S)
           /\ DOMAIN s = 1..Len(s) /\ DOMAIN Append(s, e) = 1..(Len(s) + 1) /\ Len(s) \in Nat
           /\ Append(s, e)[Len(s) + 1] = e
           /\ \A i \in 1..Len(s) : Append(s, e)[i] = s[i]
           /\ ToSet(Append(s, e)) = ToSet(s) \cup {e}
<1>1. /\ Append(s, e) \in Seq(S) /\ Len(Append(s, e)) = Len(s) + 1
      /\ Append(s, e)[Len(s) + 1] = e
      /\ \A i \in 1..Len(s) : Append(s, e)[i] = s[i]
  BY AppendProperties
<1>2. /\ DOMAIN s = 1..Len(s) /\ Len(s) \in Nat
      /\ DOMAIN Append(s, e) = 1..(Len(s) + 1)
  BY <1>1, LenProperties
<1> QED
  BY <1>1, <1>2 DEF ToSet

LEMMA HoldNone == ASSUME NEW Byte PROVE Hold(<<>>, EmptyMemory, Byte)
<1>1. <<>> \in Seq(AddrRecords(Byte)) /\ DOMAIN <<>> = {}
  OBVIOUS
<1>2. ToSet(<<>>) = {}
  BY <1>1 DEF ToSet
<1> QED
  BY <1>1, <1>2, MadeOfNone DEF Hold, Apart

LEMMA HoldMore ==
    ASSUME NEW Byte, NEW records, NEW memory, Hold(records, memory, Byte),
           NEW r \in AddrRecords(Byte), \A a \in DOMAIN memory : ~Covers(r, a)
    PROVE  Hold(Append(records, r), Over(Placed(r.addr, r.value), memory), Byte)
<1> DEFINE n == Len(records)
           more == Append(records, r)
<1>1. /\ records \in Seq(AddrRecords(Byte)) /\ Apart(records)
      /\ MadeOf(memory, ToSet(records))
  BY DEF Hold
<1>2. /\ more \in Seq(AddrRecords(Byte)) /\ n \in Nat
      /\ DOMAIN records = 1..n /\ DOMAIN more = 1..(n + 1)
      /\ more[n + 1] = r /\ \A i \in 1..n : more[i] = records[i]
      /\ ToSet(more) = ToSet(records) \cup {r}
  BY <1>1, AppendIs
<1>3. \A q \in ToSet(records) : \A a : ~(Covers(q, a) /\ Covers(r, a))
  BY <1>1 DEF MadeOf
<1>4. MadeOf(Over(Placed(r.addr, r.value), memory), ToSet(more))
  BY <1>1, <1>2, <1>3, MadeOfMore, ZenonT(60)
<1> HIDE DEF more
<1>5. ASSUME NEW i \in 1..(n + 1), NEW j \in 1..(n + 1), i # j,
             NEW k \in DOMAIN more[i].value
      PROVE  ~Covers(more[j], more[i].addr + k - 1)
  <2>1. Covers(more[i], more[i].addr + k - 1)
    <3>1. more[i] \in AddrRecords(Byte)
      BY <1>2, ElementOfSeq, LenProperties
    <3>2. /\ more[i].addr \in Nat /\ Len(more[i].value) \in Nat
          /\ DOMAIN more[i].value = 1..Len(more[i].value)
      BY <3>1, RecordIs
    <3> QED
      BY <3>2 DEF Covers
  <2>2. CASE i = n + 1
    <3>1. j \in 1..n /\ more[j] \in ToSet(records) /\ more[i] = r
      BY <1>2, <1>5, <2>2 DEF ToSet
    <3> QED
      BY <1>3, <2>1, <3>1
  <2>3. CASE j = n + 1
    <3>1. i \in 1..n /\ more[i] \in ToSet(records) /\ more[j] = r
      BY <1>2, <1>5, <2>3 DEF ToSet
    <3> QED
      BY <1>3, <2>1, <3>1
  <2>4. CASE i # n + 1 /\ j # n + 1
    <3>1. i \in 1..n /\ j \in 1..n /\ more[i] = records[i] /\ more[j] = records[j]
      BY <1>2, <2>4
    <3> QED
      BY <1>1, <1>2, <1>5, <3>1 DEF Apart
  <2> QED
    BY <2>2, <2>3, <2>4
<1>6. Apart(more)
  BY <1>2, <1>5 DEF Apart
<1> QED
  BY <1>2, <1>4, <1>6 DEF Hold, more

LEMMA HoldBoth ==
    ASSUME NEW Byte, NEW p, NEW q, NEW m, NEW n, Hold(p, m, Byte), Hold(q, n, Byte),
           DOMAIN m \cap DOMAIN n = {}
    PROVE  Hold(p \o q, Over(m, n), Byte)
<1> DEFINE both == p \o q
           k == Len(p)
           l == Len(q)
<1>1. /\ p \in Seq(AddrRecords(Byte)) /\ Apart(p) /\ MadeOf(m, ToSet(p))
      /\ q \in Seq(AddrRecords(Byte)) /\ Apart(q) /\ MadeOf(n, ToSet(q))
  BY DEF Hold
<1>2. /\ k \in Nat /\ l \in Nat /\ DOMAIN p = 1..k /\ DOMAIN q = 1..l
      /\ \A i \in 1..k : p[i] \in AddrRecords(Byte)
      /\ \A i \in 1..l : q[i] \in AddrRecords(Byte)
  BY <1>1, RecordsAre
<1>3. /\ both \in Seq(AddrRecords(Byte)) /\ DOMAIN both = 1..(k + l)
      /\ \A i \in 1..k : both[i] = p[i]
      /\ \A i \in (k + 1)..(k + l) : both[i] = q[i - k]
  <2>1. /\ both \in Seq(AddrRecords(Byte)) /\ Len(both) = k + l
        /\ \A i \in 1..(k + l) : both[i] = IF i <= k THEN p[i] ELSE q[i - k]
    BY <1>1, ConcatProperties
  <2> HIDE DEF both, k, l
  <2> QED
    BY <1>2, <2>1, LenProperties
<1> HIDE DEF both, k, l
<1>4. ToSet(both) = ToSet(p) \cup ToSet(q)
  <2>1. \A i \in 1..l : i + k \in (k + 1)..(k + l) /\ (i + k) - k = i
    BY <1>2
  <2>2. \A i \in (k + 1)..(k + l) : i - k \in 1..l
    BY <1>2
  <2>3. \A i \in 1..(k + l) : i \in 1..k \/ i \in (k + 1)..(k + l)
    BY <1>2
  <2>4. \A i \in 1..l : q[i] = both[i + k] /\ i + k \in 1..(k + l)
    BY <1>2, <1>3, <2>1
  <2>5. \A i \in 1..k : p[i] = both[i] /\ i \in 1..(k + l)
    BY <1>2, <1>3
  <2> QED
    BY <1>2, <1>3, <2>2, <2>3, <2>4, <2>5, ZenonT(60) DEF ToSet
<1>5. MadeOf(Over(m, n), ToSet(both))
  BY <1>1, <1>4, MadeOfBoth
<1>6. \A r \in ToSet(p), s \in ToSet(q) : \A a : ~(Covers(r, a) /\ Covers(s, a))
  BY <1>1 DEF MadeOf
<1>7. ASSUME NEW i \in 1..(k + l), NEW j \in 1..(k + l), i # j,
             NEW x \in DOMAIN both[i].value
      PROVE  ~Covers(both[j], both[i].addr + x - 1)
  <2>1. Covers(both[i], both[i].addr + x - 1)
    <3>1. both[i] \in AddrRecords(Byte)
      BY <1>3, ElementOfSeq, LenProperties
    <3>2. /\ both[i].addr \in Nat /\ Len(both[i].value) \in Nat
          /\ DOMAIN both[i].value = 1..Len(both[i].value)
      BY <3>1, RecordIs
    <3> QED
      BY <3>2 DEF Covers
  <2>2. \A y \in 1..(k + l) :
            \/ y \in 1..k /\ both[y] = p[y] /\ both[y] \in ToSet(p)
            \/ y \in (k + 1)..(k + l) /\ y - k \in 1..l /\ both[y] = q[y - k]
               /\ both[y] \in ToSet(q)
    BY <1>2, <1>3, SMTT(60) DEF ToSet
  <2>3. CASE i \in 1..k /\ j \in 1..k
    <3>1. both[i] = p[i] /\ both[j] = p[j]
      BY <1>3, <2>3
    <3> QED
      BY <1>1, <1>2, <1>7, <2>3, <3>1 DEF Apart
  <2>4. CASE i \in (k + 1)..(k + l) /\ j \in (k + 1)..(k + l)
    <3>1. /\ both[i] = q[i - k] /\ both[j] = q[j - k]
          /\ i - k \in DOMAIN q /\ j - k \in DOMAIN q /\ i - k # j - k
      BY <1>2, <1>3, <1>7, <2>4
    <3> QED
      BY <1>1, <1>7, <3>1 DEF Apart
  <2>5. CASE both[i] \in ToSet(p) /\ both[j] \in ToSet(q)
    BY <1>6, <2>1, <2>5
  <2>6. CASE both[i] \in ToSet(q) /\ both[j] \in ToSet(p)
    BY <1>6, <2>1, <2>6
  <2> QED
    BY <2>2, <2>3, <2>4, <2>5, <2>6
<1>8. Apart(both)
  BY <1>3, <1>7 DEF Apart
<1> QED
  BY <1>3, <1>5, <1>8 DEF Hold, both

-----------------------------------------------------------------------------
(* Reading a file.                                                         *)

LEMMA HexRecordIs ==
    ASSUME NEW Byte, NEW r \in HexRecords(Byte)
    PROVE  \/ r.type = "Data" /\ r.offset \in Nat /\ r.value \in Seq(Byte) \ {<<>>}
           \/ r.type = "ExtendedSegmentAddress" /\ r.addr \in Nat
           \/ r.type = "ExtendedLinearAddress" /\ r.addr \in Nat
           \/ r.type = "StartLinearAddress" /\ r.addr \in Nat
           \/ r.type = "StartSegmentAddress" /\ r.cs \in Nat /\ r.ip \in Nat
           \/ r.type = "EndOfFile"
BY DEF HexRecords, EndOfFile

LEMMA LoadIs ==
    ASSUME NEW at, NEW r
    PROVE  /\ Load(at, r).base =
                IF r.type = "ExtendedSegmentAddress" THEN r.addr * PARAGRAPH
                ELSE IF r.type = "ExtendedLinearAddress" THEN r.addr * SEGMENT
                ELSE at.base
           /\ r.type = "Data" =>
                Load(at, r).memory = Over(Placed(at.base + r.offset, r.value), at.memory)
           /\ r.type # "Data" => Load(at, r).memory = at.memory
BY DEF Load

LEMMA ReadIs ==
    ASSUME NEW at, NEW r
    PROVE  /\ r.type = "StartSegmentAddress" => Read(at, r).upper = r.cs * PARAGRAPH + r.ip
           /\ r.type = "ExtendedSegmentAddress" => Read(at, r).upper = r.addr * PARAGRAPH
           /\ r.type \in {"StartLinearAddress", "ExtendedLinearAddress"} =>
                Read(at, r).upper = r.addr * SEGMENT
           /\ r.type \in {"Data", "EndOfFile"} => Read(at, r).upper = at.upper
           /\ r.type = "Data" => Read(at, r).records =
                Append(at.records, [addr |-> at.upper + r.offset, value |-> r.value])
           /\ r.type # "Data" => Read(at, r).records = at.records
BY DEF Read

LEMMA ApartAppend ==
    ASSUME NEW Byte, NEW records \in Seq(AddrRecords(Byte)), NEW r \in AddrRecords(Byte),
           Apart(Append(records, r))
    PROVE  /\ Apart(records)
           /\ \A q \in ToSet(records) : \A a : ~(Covers(q, a) /\ Covers(r, a))
<1> DEFINE n == Len(records)
           more == Append(records, r)
<1>1. /\ more \in Seq(AddrRecords(Byte)) /\ n \in Nat
      /\ DOMAIN records = 1..n /\ DOMAIN more = 1..(n + 1) /\ Len(more) = n + 1
      /\ more[n + 1] = r /\ \A i \in 1..n : more[i] = records[i]
  BY AppendIs, LenProperties
<1> HIDE DEF n
<1>2. Apart(records)
  <2> SUFFICES ASSUME NEW i \in 1..n, NEW j \in 1..n, i # j,
                      NEW k \in DOMAIN records[i].value
               PROVE  ~Covers(records[j], records[i].addr + k - 1)
    BY <1>1 DEF Apart
  <2>1. i \in DOMAIN more /\ j \in DOMAIN more /\ more[i] = records[i] /\ more[j] = records[j]
    BY <1>1
  <2> HIDE DEF more
  <2>2. Apart(more)
    BY DEF more
  <2> QED
    BY <2>1, <2>2 DEF Apart
<1> HIDE DEF more
<1>3. ASSUME NEW i \in 1..n
      PROVE  \A a : ~(Covers(records[i], a) /\ Covers(r, a))
  <2>1. Apart(more) /\ i \in 1..Len(more) /\ n + 1 \in 1..Len(more) /\ i # n + 1
    BY <1>1 DEF more
  <2>2. \A a : ~(Covers(more[i], a) /\ Covers(more[n + 1], a))
    BY <1>1, <2>1, ApartIs
  <2> QED
    BY <1>1, <2>2
<1> QED
  BY <1>1, <1>2, <1>3 DEF ToSet


(* Without start addresses before data, what the tool reads of a file is   *)
(* what a programmer makes of it.                                          *)
LEMMA ReadPlain ==
    ASSUME NEW Byte, NEW file \in Seq(PlainRecords(Byte)), Apart(ReadIHex(file))
    PROVE  Hold(ReadIHex(file), Contents(file), Byte)
<1> DEFINE Same(f) == /\ LoadAll(f).base \in Nat /\ ReadAll(f).upper = LoadAll(f).base
                      /\ ReadAll(f).records \in Seq(AddrRecords(Byte))
                      /\ Apart(ReadAll(f).records) =>
                            Hold(ReadAll(f).records, LoadAll(f).memory, Byte)
           T == {f \in Seq(PlainRecords(Byte)) : Same(f)}
<1>1. <<>> \in T
  <2>1. <<>> \in Seq(PlainRecords(Byte))
    OBVIOUS
  <2>2. LoadAll(<<>>).base = 0 /\ LoadAll(<<>>).memory = EmptyMemory
    BY LoadEmpty
  <2>3. ReadAll(<<>>).upper = 0 /\ ReadAll(<<>>).records = <<>>
    BY ReadEmpty
  <2>4. Hold(ReadAll(<<>>).records, LoadAll(<<>>).memory, Byte)
    BY <2>2, <2>3, HoldNone
  <2>5. Same(<<>>)
    <3>1. LoadAll(<<>>).base \in Nat /\ ReadAll(<<>>).upper = LoadAll(<<>>).base
      BY <2>2, <2>3
    <3>2. ReadAll(<<>>).records \in Seq(AddrRecords(Byte))
      BY <2>4 DEF Hold
    <3> QED
      BY <2>4, <3>1, <3>2
  <2> HIDE DEF Same
  <2> QED
    BY <2>1, <2>5
<1>2. ASSUME NEW f \in Seq(PlainRecords(Byte)), NEW r \in PlainRecords(Byte), f \in T
      PROVE  Append(f, r) \in T
  <2> DEFINE l == LoadAll(f)
             a == ReadAll(f)
             new == [addr |-> a.upper + r.offset, value |-> r.value]
  <2>1. LoadAll(Append(f, r)) = Load(l, r) /\ ReadAll(Append(f, r)) = Read(a, r)
    BY LoadAppend, ReadAppend
  <2>2. Append(f, r) \in Seq(PlainRecords(Byte)) /\ Same(f)
    BY <1>2, AppendProperties
  <2> HIDE DEF l, a
  <2> SUFFICES /\ Load(l, r).base \in Nat /\ Read(a, r).upper = Load(l, r).base
               /\ Read(a, r).records \in Seq(AddrRecords(Byte))
               /\ Apart(Read(a, r).records) =>
                    Hold(Read(a, r).records, Load(l, r).memory, Byte)
    BY <2>1, <2>2
  <2>3. /\ l.base \in Nat /\ a.upper = l.base /\ a.records \in Seq(AddrRecords(Byte))
        /\ Apart(a.records) => Hold(a.records, l.memory, Byte)
    BY <2>2 DEF l, a
  <2>4. \/ r.type = "Data" /\ r.offset \in Nat /\ r.value \in Seq(Byte) \ {<<>>}
        \/ r.type = "ExtendedSegmentAddress" /\ r.addr \in Nat
        \/ r.type = "ExtendedLinearAddress" /\ r.addr \in Nat
        \/ r.type = "EndOfFile"
    BY HexRecordIs DEF PlainRecords
  <2>5. PARAGRAPH \in Nat /\ SEGMENT \in Nat
    BY HexAssumption
  <2>6. CASE r.type = "Data"
    <3>1. /\ Load(l, r).base = l.base
          /\ Load(l, r).memory = Over(Placed(l.base + r.offset, r.value), l.memory)
      BY <2>6, LoadIs
    <3>2. Read(a, r).upper = a.upper /\ Read(a, r).records = Append(a.records, new)
      BY <2>6, ReadIs
    <3>3. new \in AddrRecords(Byte) /\ new.addr = l.base + r.offset /\ new.value = r.value
      BY <2>3, <2>4, <2>6 DEF AddrRecords
    <3> HIDE DEF new
    <3>4. ASSUME Apart(Append(a.records, new))
          PROVE  Hold(Append(a.records, new), Over(Placed(new.addr, new.value), l.memory), Byte)
      <4>1. /\ Apart(a.records)
            /\ \A q \in ToSet(a.records) : \A x : ~(Covers(q, x) /\ Covers(new, x))
        BY <2>3, <3>3, <3>4, ApartAppend
      <4>2. Hold(a.records, l.memory, Byte)
        BY <2>3, <4>1
      <4>3. \A x \in DOMAIN l.memory : ~Covers(new, x)
        BY <4>1, <4>2 DEF Hold, MadeOf
      <4> QED
        BY <3>3, <4>2, <4>3, HoldMore
    <3>5. Append(a.records, new) \in Seq(AddrRecords(Byte))
      BY <2>3, <3>3, AppendProperties
    <3> QED
      BY <2>3, <3>1, <3>2, <3>3, <3>4, <3>5
  <2>7. CASE r.type = "ExtendedSegmentAddress"
    <3>1. Load(l, r).base = r.addr * PARAGRAPH /\ Load(l, r).memory = l.memory
      BY <2>7, LoadIs
    <3>2. Read(a, r).upper = r.addr * PARAGRAPH /\ Read(a, r).records = a.records
      BY <2>7, ReadIs
    <3>3. r.addr * PARAGRAPH \in Nat
      BY <2>4, <2>5, <2>7
    <3> QED
      BY <2>3, <3>1, <3>2, <3>3
  <2>8. CASE r.type = "ExtendedLinearAddress"
    <3>1. Load(l, r).base = r.addr * SEGMENT /\ Load(l, r).memory = l.memory
      BY <2>8, LoadIs
    <3>2. Read(a, r).upper = r.addr * SEGMENT /\ Read(a, r).records = a.records
      BY <2>8, ReadIs
    <3>3. r.addr * SEGMENT \in Nat
      BY <2>4, <2>5, <2>8
    <3> QED
      BY <2>3, <3>1, <3>2, <3>3
  <2>9. CASE r.type = "EndOfFile"
    <3>1. Load(l, r).base = l.base /\ Load(l, r).memory = l.memory
      BY <2>9, LoadIs
    <3>2. Read(a, r).upper = a.upper /\ Read(a, r).records = a.records
      BY <2>9, ReadIs
    <3> QED
      BY <2>3, <3>1, <3>2
  <2> QED
    BY <2>4, <2>6, <2>7, <2>8, <2>9
<1>3. file \in T
  <2> HIDE DEF T
  <2> QED
    BY <1>1, <1>2, SeqInduction
<1> QED
  BY <1>3 DEF ReadIHex, Contents

-----------------------------------------------------------------------------
(* A record with its patch.                                                *)

LEMMA DivMod ==
    ASSUME NEW a \in Nat, NEW b \in Nat \ {0}
    PROVE  /\ a \div b \in Nat /\ a % b \in 0..(b - 1)
           /\ a = (a \div b) * b + (a % b)
<1>1. a \div b \in Int /\ a \div b >= 0 /\ a % b \in Int /\ a % b >= 0 /\ a % b < b
  OBVIOUS
<1>2. a = (a \div b) * b + (a % b)
  OBVIOUS
<1> QED
  BY <1>1, <1>2

Patches(Byte) == [addr : Nat, value : Byte]
IsPatched(addr, patches) == \E p \in ToSet(patches) : p.addr = addr
PatchOf(addr, patches) == (CHOOSE p \in ToSet(patches) : p.addr = addr).value

PatchedRecord(r, patches) ==
    [addr  |-> r.addr,
     value |-> [x \in DOMAIN r.value |->
                    IF IsPatched(r.addr + x - 1, patches) THEN PatchOf(r.addr + x - 1, patches)
                    ELSE r.value[x]]]

LEMMA PatchesAre ==
    ASSUME NEW Byte, NEW patches \in Seq(Patches(Byte))
    PROVE  /\ Len(patches) \in Nat /\ DOMAIN patches = 1..Len(patches)
           /\ \A i \in 1..Len(patches) :
                patches[i].addr \in Nat /\ patches[i].value \in Byte
           /\ \A a : IsPatched(a, patches) <=> \E i \in 1..Len(patches) : patches[i].addr = a
           /\ \A a : IsPatched(a, patches) =>
                \E i \in 1..Len(patches) :
                    patches[i].addr = a /\ PatchOf(a, patches) = patches[i].value
<1>1. /\ Len(patches) \in Nat /\ DOMAIN patches = 1..Len(patches)
      /\ \A i \in 1..Len(patches) : patches[i] \in Patches(Byte)
  BY LenProperties, ElementOfSeq
<1>2. \A i \in 1..Len(patches) : patches[i].addr \in Nat /\ patches[i].value \in Byte
  BY <1>1 DEF Patches
<1>3. ASSUME NEW a
      PROVE  IsPatched(a, patches) <=> \E i \in 1..Len(patches) : patches[i].addr = a
  BY <1>1 DEF IsPatched, ToSet
<1>4. ASSUME NEW a, IsPatched(a, patches)
      PROVE  \E i \in 1..Len(patches) :
                patches[i].addr = a /\ PatchOf(a, patches) = patches[i].value
  <2> DEFINE p == CHOOSE q \in ToSet(patches) : q.addr = a
  <2>1. p \in ToSet(patches) /\ p.addr = a
    BY <1>4 DEF IsPatched
  <2>2. PatchOf(a, patches) = p.value
    BY DEF PatchOf
  <2> HIDE DEF p
  <2>3. PICK i \in 1..Len(patches) : p = patches[i]
    BY <1>1, <2>1 DEF ToSet
  <2> QED
    BY <2>1, <2>2, <2>3
<1> QED
  BY <1>1, <1>2, <1>3, <1>4

LEMMA PatchedRecordIs ==
    ASSUME NEW Byte, NEW patches \in Seq(Patches(Byte)), NEW r \in AddrRecords(Byte)
    PROVE  /\ PatchedRecord(r, patches) \in AddrRecords(Byte)
           /\ PatchedRecord(r, patches).addr = r.addr
           /\ \A a : Covers(PatchedRecord(r, patches), a) <=> Covers(r, a)
           /\ \A a : Covers(r, a) => PatchedRecord(r, patches).value[a - r.addr + 1] =
                IF IsPatched(a, patches) THEN PatchOf(a, patches) ELSE r.value[a - r.addr + 1]
<1> DEFINE n == Len(r.value)
           v == [x \in 1..n |->
                    IF IsPatched(r.addr + x - 1, patches) THEN PatchOf(r.addr + x - 1, patches)
                    ELSE r.value[x]]
<1>1. /\ r.addr \in Nat /\ r.value \in Seq(Byte) /\ n \in Nat \ {0} /\ DOMAIN r.value = 1..n
  BY RecordIs
<1>2. /\ PatchedRecord(r, patches) = [addr |-> r.addr, value |-> v]
  BY <1>1 DEF PatchedRecord
<1>3. \A x \in 1..n : r.value[x] \in Byte
  BY <1>1, ElementOfSeq
<1>4. \A x \in 1..n : v[x] \in Byte
  <2>1. \A a : IsPatched(a, patches) => PatchOf(a, patches) \in Byte
    BY PatchesAre
  <2> QED
    BY <1>3, <2>1
<1>5. v \in Seq(Byte) /\ Len(v) = n /\ v # <<>>
  <2>1. v \in Seq(Byte) /\ Len(v) = n
    <3>1. v \in [1..n -> Byte]
      <4> DEFINE w(x) == IF IsPatched(r.addr + x - 1, patches)
                         THEN PatchOf(r.addr + x - 1, patches) ELSE r.value[x]
      <4>1. \A x \in 1..n : w(x) \in Byte
        BY <1>4
      <4>2. v = [x \in 1..n |-> w(x)]
        OBVIOUS
      <4> HIDE DEF w, v
      <4> QED
        BY <4>1, <4>2
    <3> HIDE DEF v
    <3> QED
      BY <1>1, <3>1, IsASeq, LenProperties
  <2> HIDE DEF v, n
  <2> QED
    BY <1>1, <2>1, EmptySeq
<1>6. \A a : Covers(r, a) => /\ a \in Int /\ a - r.addr + 1 \in 1..n
                             /\ r.addr + (a - r.addr + 1) - 1 = a
  BY <1>1 DEF Covers
<1>7. \A a : Covers(r, a) => v[a - r.addr + 1] =
                IF IsPatched(a, patches) THEN PatchOf(a, patches) ELSE r.value[a - r.addr + 1]
  BY <1>6
<1> HIDE DEF v, n
<1>8. [addr |-> r.addr, value |-> v] \in AddrRecords(Byte)
  BY <1>1, <1>5 DEF AddrRecords
<1>9. \A a : Covers([addr |-> r.addr, value |-> v], a) <=> Covers(r, a)
  BY <1>5 DEF Covers, n
<1> QED
  BY <1>2, <1>7, <1>8, <1>9

(* A memory of patched records is the patched memory.                      *)
LEMMA MadeOfPatched ==
    ASSUME NEW Byte, NEW patches \in Seq(Patches(Byte)), NEW R, R \subseteq AddrRecords(Byte),
           NEW m, MadeOf(m, R),
           NEW n, MadeOf(n, {PatchedRecord(r, patches) : r \in R})
    PROVE  n = Patched(m, patches)
<1>1. \A r \in R : \A a : Covers(PatchedRecord(r, patches), a) <=> Covers(r, a)
  BY PatchedRecordIs
<1>2. DOMAIN n = DOMAIN m
  BY <1>1 DEF MadeOf
<1>3. ASSUME NEW a \in DOMAIN m
      PROVE  n[a] = IF IsPatched(a, patches) THEN PatchOf(a, patches) ELSE m[a]
  <2>1. PICK r \in R : Covers(r, a)
    BY DEF MadeOf
  <2>2. m[a] = r.value[a - r.addr + 1]
    BY <2>1 DEF MadeOf
  <2> DEFINE q == PatchedRecord(r, patches)
  <2>3. q \in {PatchedRecord(s, patches) : s \in R} /\ Covers(q, a)
    BY <1>1, <2>1
  <2>4. /\ q.addr = r.addr
        /\ q.value[a - r.addr + 1] =
            IF IsPatched(a, patches) THEN PatchOf(a, patches) ELSE r.value[a - r.addr + 1]
    BY <2>1, PatchedRecordIs
  <2> HIDE DEF q
  <2>5. n[a] = q.value[a - q.addr + 1]
    BY <1>2, <2>3 DEF MadeOf
  <2> QED
    BY <2>2, <2>4, <2>5
<1>4. Patched(m, patches) =
        [a \in DOMAIN m |-> IF IsPatched(a, patches) THEN PatchOf(a, patches) ELSE m[a]]
  BY DEF Patched, IsPatched, PatchOf
<1>5. n = [a \in DOMAIN n |-> n[a]]
  BY DEF MadeOf
<1> QED
  BY <1>2, <1>3, <1>4, <1>5

(* What WriteRecord makes of the value of a record without, and with one   *)
(* patch.                                                                  *)
LEMMA NoPatch ==
    ASSUME NEW Byte, NEW patches \in Seq(Patches(Byte)), NEW r \in AddrRecords(Byte),
           \A i \in 1..Len(patches) : ~Covers(r, patches[i].addr)
    PROVE  PatchedRecord(r, patches).value = r.value
<1>1. /\ r.addr \in Nat /\ r.value \in Seq(Byte) /\ Len(r.value) \in Nat
      /\ DOMAIN r.value = 1..Len(r.value)
  BY RecordIs
<1>2. \A x \in DOMAIN r.value : ~IsPatched(r.addr + x - 1, patches)
  <2>1. \A x \in DOMAIN r.value : Covers(r, r.addr + x - 1)
    BY <1>1 DEF Covers
  <2> QED
    BY <2>1, PatchesAre
<1>3. PatchedRecord(r, patches).value = [x \in DOMAIN r.value |-> r.value[x]]
  BY <1>2 DEF PatchedRecord
<1> QED
  BY <1>1, <1>3

LEMMA OnePatch ==
    ASSUME NEW Byte, NEW patches \in Seq(Patches(Byte)), NEW r \in AddrRecords(Byte),
           NEW k \in 1..Len(patches), Covers(r, patches[k].addr),
           \A i \in 1..Len(patches) : Covers(r, patches[i].addr) => i = k
    PROVE  PatchedRecord(r, patches).value =
                [r.value EXCEPT ![patches[k].addr - r.addr + 1] = patches[k].value]
<1> DEFINE at == patches[k].addr - r.addr + 1
<1>1. /\ r.addr \in Nat /\ r.value \in Seq(Byte) /\ Len(r.value) \in Nat
      /\ DOMAIN r.value = 1..Len(r.value)
  BY RecordIs
<1>2. /\ patches[k].addr \in Nat /\ r.addr + at - 1 = patches[k].addr /\ at \in Int
  BY <1>1, PatchesAre
<1>3. \A x \in DOMAIN r.value : Covers(r, r.addr + x - 1) /\ x \in Int
  BY <1>1 DEF Covers
<1>4. \A x \in DOMAIN r.value : r.addr + x - 1 = patches[k].addr <=> x = at
  BY <1>1, <1>2, <1>3
<1> HIDE DEF at
<1>5. ASSUME NEW x \in DOMAIN r.value
      PROVE  (IF IsPatched(r.addr + x - 1, patches) THEN PatchOf(r.addr + x - 1, patches)
              ELSE r.value[x]) = IF x = at THEN patches[k].value ELSE r.value[x]
  <2>1. CASE x = at
    <3>1. IsPatched(r.addr + x - 1, patches)
      BY <1>4, <2>1, PatchesAre
    <3>2. PICK i \in 1..Len(patches) : /\ patches[i].addr = r.addr + x - 1
                                       /\ PatchOf(r.addr + x - 1, patches) = patches[i].value
      BY <3>1, PatchesAre
    <3>3. i = k
      BY <1>3, <3>2
    <3> QED
      BY <2>1, <3>1, <3>2, <3>3
  <2>2. CASE x # at
    <3>1. ASSUME IsPatched(r.addr + x - 1, patches)
          PROVE  FALSE
      <4>1. PICK i \in 1..Len(patches) : patches[i].addr = r.addr + x - 1
        BY <3>1, PatchesAre
      <4>2. i = k
        BY <1>3, <4>1
      <4> QED
        BY <1>4, <2>2, <4>1, <4>2
    <3> QED
      BY <2>2, <3>1
  <2> QED
    BY <2>1, <2>2
<1>6. PatchedRecord(r, patches).value =
        [x \in DOMAIN r.value |-> IF x = at THEN patches[k].value ELSE r.value[x]]
  BY <1>5 DEF PatchedRecord
<1>7. [r.value EXCEPT ![at] = patches[k].value] =
        [x \in DOMAIN r.value |-> IF x = at THEN patches[k].value ELSE r.value[x]]
  OBVIOUS
<1> QED
  BY <1>6, <1>7 DEF at

-----------------------------------------------------------------------------
(* The loop of merge_files.                                                *)

SetApart(R) == \A q, r \in R : q # r => \A a : ~(Covers(q, a) /\ Covers(r, a))

(* What is written of the first i records: the base of the offsets is that *)
(* of a programmer, and the patches that are left are those of the rest.   *)
Wrote(at, sorted, patches, i, first, Byte) ==
    /\ at.upper \in Nat
    /\ at.out \in Seq(HexRecords(Byte)) /\ at.out # <<>>
    /\ Head(at.out) = StartLinearAddress(first)
    /\ LoadAll(at.out).base = at.upper * SEGMENT
    /\ MadeOf(LoadAll(at.out).memory, {PatchedRecord(sorted[j], patches) : j \in 1..i})
    /\ at.patches \in Seq(Patches(Byte)) /\ Len(at.patches) \in 0..Len(patches)
    /\ \A p \in 1..Len(at.patches) :
        /\ at.patches[p] = patches[p]
        /\ \A j \in 1..i : ~Covers(sorted[j], patches[p].addr)
    /\ \A p \in (Len(at.patches) + 1)..Len(patches) :
        \E j \in 1..i : Covers(sorted[j], patches[p].addr)

LEMMA WriteFirst ==
    ASSUME NEW Byte, NEW patches \in Seq(Patches(Byte)), NEW sorted, NEW at,
           at = [upper |-> 0, patches |-> patches, out |-> <<StartLinearAddress(0)>>]
    PROVE  Wrote(at, sorted, patches, 0, 0, Byte)
<1> DEFINE r == StartLinearAddress(0)
<1>1. r \in HexRecords(Byte) /\ r.type = "StartLinearAddress"
  BY DEF HexRecords, StartLinearAddress
<1>2. /\ <<>> \in Seq(HexRecords(Byte)) /\ Append(<<>>, r) = <<r>>
      /\ <<r>> \in Seq(HexRecords(Byte)) /\ <<r>> # <<>> /\ Head(<<r>>) = r
  BY <1>1
<1> HIDE DEF r
<1>3. LoadAll(<<r>>).base = 0 /\ LoadAll(<<r>>).memory = EmptyMemory
  <2>1. LoadAll(Append(<<>>, r)) = Load(LoadAll(<<>>), r)
    BY <1>1, <1>2, LoadAppend
  <2>2. LoadAll(<<>>).base = 0 /\ LoadAll(<<>>).memory = EmptyMemory
    BY LoadEmpty
  <2> QED
    BY <1>1, <1>2, <2>1, <2>2, LoadIs
<1>4. MadeOf(LoadAll(<<r>>).memory, {PatchedRecord(sorted[j], patches) : j \in 1..0})
  <2>1. {PatchedRecord(sorted[j], patches) : j \in 1..0} = {}
    OBVIOUS
  <2> QED
    BY <1>3, <2>1, MadeOfNone
<1>5. at.upper = 0 /\ at.patches = patches /\ at.out = <<r>>
  BY DEF r
<1>6. SEGMENT \in Nat /\ Len(patches) \in Nat
  BY HexAssumption, LenProperties
<1> QED
  BY <1>2, <1>3, <1>4, <1>5, <1>6 DEF Wrote, r

(* Of the patches, the first k are left when i records are written.        *)
LeftAt(sorted, patches, i, k) ==
    /\ \A p \in 1..k : \A j \in 1..i : ~Covers(sorted[j], patches[p].addr)
    /\ \A p \in (k + 1)..Len(patches) :
            \E j \in 1..i : Covers(sorted[j], patches[p].addr)

(* The patch that is tried is in the record, or none is.                   *)
LEMMA NextPatch ==
    ASSUME NEW Byte, NEW sorted \in Seq(AddrRecords(Byte)), Ascending(sorted),
           SetApart(ToSet(sorted)),
           NEW patches \in Seq(Patches(Byte)), PatchesFit(patches, sorted),
           NEW i \in Nat, i + 1 <= Len(sorted), NEW k \in 0..Len(patches),
           LeftAt(sorted, patches, i, k)
    PROVE  \A p \in 1..Len(patches) : Covers(sorted[i + 1], patches[p].addr) => p = k
<1> SUFFICES ASSUME NEW p \in 1..Len(patches), Covers(sorted[i + 1], patches[p].addr), p # k
             PROVE  FALSE
  OBVIOUS
<1> DEFINE n == Len(sorted)
<1>1. /\ n \in Nat /\ DOMAIN sorted = 1..n /\ i + 1 \in 1..n
      /\ \A j \in 1..n : /\ sorted[j] \in AddrRecords(Byte) /\ sorted[j] \in ToSet(sorted)
                         /\ sorted[j].addr \in Nat /\ Len(sorted[j].value) \in Nat \ {0}
  BY RecordsAre, RecordIs
<1>2. Len(patches) \in Nat /\ \A q \in 1..Len(patches) : patches[q].addr \in Nat
  BY PatchesAre
<1> HIDE DEF n
<1>3. \A j, l \in 1..n : j < l =>
            /\ sorted[j].addr < sorted[l].addr
            /\ \A a : ~(Covers(sorted[j], a) /\ Covers(sorted[l], a))
  <2>1. \A j, l \in 1..n : j < l => sorted[j].addr < sorted[l].addr
    BY <1>1 DEF Ascending
  <2>2. \A j, l \in 1..n : j < l => sorted[j] # sorted[l]
    BY <1>1, <2>1
  <2> QED
    BY <1>1, <2>1, <2>2 DEF SetApart
<1>4. p <= k
  <2> SUFFICES ASSUME p \in (k + 1)..Len(patches)
               PROVE  FALSE
    BY <1>2
  <2>1. PICK j \in 1..i : Covers(sorted[j], patches[p].addr)
    BY DEF LeftAt
  <2>2. j \in 1..n /\ j < i + 1
    BY <1>1
  <2> QED
    BY <1>1, <1>3, <2>1, <2>2
<1>5. k \in 1..Len(patches) /\ p < k
  BY <1>2, <1>4
<1>6. patches[p].addr > patches[k].addr
  BY <1>5, PatchesAre DEF PatchesFit
<1>7. PICK l \in 1..n : Covers(sorted[l], patches[k].addr)
  <2>1. PICK r \in ToSet(sorted) : Covers(r, patches[k].addr)
    BY <1>5, PatchesAre DEF PatchesFit
  <2> QED
    BY <1>1, <2>1 DEF ToSet
<1>8. l > i
  <2>1. k \in 1..k
    BY <1>5
  <2> QED
    BY <1>1, <1>7, <2>1 DEF LeftAt
<1>9. l # i + 1
  <2>1. \A r \in ToSet(sorted) :
            Covers(r, patches[p].addr) /\ Covers(r, patches[k].addr) => p = k
    BY <1>5, PatchesAre DEF PatchesFit
  <2> QED
    BY <1>1, <1>7, <2>1
<1>10. i + 1 < l
  BY <1>1, <1>8, <1>9
<1>11. sorted[i + 1].addr < sorted[l].addr /\ ~Covers(sorted[i + 1], sorted[l].addr)
  <2>1. Covers(sorted[l], sorted[l].addr)
    BY <1>1, CoversIs
  <2> QED
    BY <1>1, <1>3, <1>10, <2>1
<1> DEFINE end == sorted[i + 1].addr + Len(sorted[i + 1].value)
<1>12. /\ end \in Nat /\ sorted[l].addr \in Nat
       /\ patches[p].addr \in Nat /\ patches[k].addr \in Nat
  BY <1>1, <1>2, <1>5
<1>13. sorted[l].addr >= end
  <2>1. /\ sorted[i + 1] \in AddrRecords(Byte) /\ sorted[l].addr \in Int
        /\ sorted[i + 1].addr <= sorted[l].addr
    BY <1>1, <1>11
  <2>2. ~(sorted[l].addr < end)
    BY <1>11, <2>1, CoversIs
  <2> QED
    BY <1>12, <2>2
<1>14. patches[k].addr >= sorted[l].addr
  <2>1. sorted[l] \in AddrRecords(Byte)
    BY <1>1
  <2> QED
    BY <1>7, <1>12, <2>1, CoversIs
<1>15. patches[p].addr < end
  <2>1. sorted[i + 1] \in AddrRecords(Byte)
    BY <1>1
  <2> QED
    BY <2>1, CoversIs
<1> HIDE DEF end
<1> QED
  BY <1>6, <1>12, <1>13, <1>14, <1>15

(* A record behind an extended address, where there is one.                *)
Moved(out, old, upper) ==
    out \o (IF upper # old THEN <<ExtendedLinearAddress(upper)>> ELSE <<>>)

LEMMA MovedIs ==
    ASSUME NEW Byte, NEW out \in Seq(HexRecords(Byte)), out # <<>>, NEW old \in Nat,
           NEW upper \in Nat, LoadAll(out).base = old * SEGMENT
    PROVE  /\ Moved(out, old, upper) \in Seq(HexRecords(Byte))
           /\ Moved(out, old, upper) # <<>>
           /\ Head(Moved(out, old, upper)) = Head(out)
           /\ LoadAll(Moved(out, old, upper)).base = upper * SEGMENT
           /\ LoadAll(Moved(out, old, upper)).memory = LoadAll(out).memory
<1> DEFINE r == ExtendedLinearAddress(upper)
           moved == Moved(out, old, upper)
<1>1. CASE upper = old
  <2>1. moved = out
    BY <1>1, ConcatEmptySeq DEF Moved
  <2> QED
    BY <1>1, <2>1
<1>2. CASE upper # old
  <2>1. r \in HexRecords(Byte) /\ r.type = "ExtendedLinearAddress" /\ r.addr = upper
    BY DEF HexRecords, ExtendedLinearAddress
  <2> HIDE DEF r
  <2>2. moved = Append(out, r)
    BY <1>2, <2>1, AppendIsConcat DEF r, Moved
  <2>3. /\ Append(out, r) \in Seq(HexRecords(Byte)) /\ Append(out, r) # <<>>
        /\ Head(Append(out, r)) = Head(out)
    BY <2>1, AppendProperties, HeadTailAppend
  <2>4. LoadAll(Append(out, r)) = Load(LoadAll(out), r)
    BY <2>1, LoadAppend
  <2>5. /\ Load(LoadAll(out), r).base = upper * SEGMENT
        /\ Load(LoadAll(out), r).memory = LoadAll(out).memory
    BY <2>1, LoadIs
  <2>6. /\ LoadAll(moved).base = upper * SEGMENT
        /\ LoadAll(moved).memory = LoadAll(out).memory
    BY <2>2, <2>4, <2>5
  <2>7. moved \in Seq(HexRecords(Byte)) /\ moved # <<>> /\ Head(moved) = Head(out)
    BY <2>2, <2>3
  <2> HIDE DEF moved
  <2> QED
    BY <2>6, <2>7 DEF moved
<1> QED
  BY <1>1, <1>2

LEMMA WriteNext ==
    ASSUME NEW Byte, NEW sorted \in Seq(AddrRecords(Byte)), Ascending(sorted),
           SetApart(ToSet(sorted)),
           NEW patches \in Seq(Patches(Byte)), PatchesFit(patches, sorted),
           NEW i \in Nat, i + 1 <= Len(sorted), NEW first,
           NEW at, Wrote(at, sorted, patches, i, first, Byte)
    PROVE  Wrote(WriteRecord(at, sorted[i + 1]), sorted, patches, i + 1, first, Byte)
<1> DEFINE r == sorted[i + 1]
           q == PatchedRecord(r, patches)
           k == Len(at.patches)
           upper == r.addr \div SEGMENT
           moved == Moved(at.out, at.upper, upper)
           d == Data(r.addr % SEGMENT, q.value)
           next == WriteRecord(at, r)
           hit == k # 0 /\ Covers(r, patches[k].addr)
<1>1. /\ i + 1 \in 1..Len(sorted) /\ r \in AddrRecords(Byte) /\ r \in ToSet(sorted)
      /\ r.addr \in Nat /\ SEGMENT \in Nat \ {0}
  BY RecordsAre, HexAssumption
<1>2. /\ upper \in Nat /\ r.addr % SEGMENT \in Nat
      /\ r.addr = upper * SEGMENT + (r.addr % SEGMENT)
  <2> HIDE DEF r
  <2>1. r.addr % SEGMENT \in 0..(SEGMENT - 1)
    BY <1>1, DivMod
  <2>2. upper \in Nat /\ r.addr = upper * SEGMENT + (r.addr % SEGMENT)
    BY <1>1, DivMod
  <2> QED
    BY <1>1, <2>1, <2>2
<1>3. /\ q \in AddrRecords(Byte) /\ q.addr = r.addr /\ q.value \in Seq(Byte) \ {<<>>}
      /\ \A a : Covers(q, a) <=> Covers(r, a)
  <2>1. /\ q \in AddrRecords(Byte) /\ q.addr = r.addr
        /\ \A a : Covers(q, a) <=> Covers(r, a)
    BY <1>1, PatchedRecordIs
  <2> QED
    BY <2>1 DEF AddrRecords
<1>4. /\ k \in 0..Len(patches) /\ Len(patches) \in Nat
      /\ at.patches \in Seq(Patches(Byte))
      /\ \A p \in 1..k : at.patches[p] = patches[p]
  <2>1. Len(patches) \in Nat
    BY PatchesAre
  <2>2. k \in 0..Len(patches) /\ at.patches \in Seq(Patches(Byte))
    BY DEF Wrote
  <2>3. \A p \in 1..k : at.patches[p] = patches[p]
    BY DEF Wrote
  <2> QED
    BY <2>1, <2>2, <2>3
<1>5. \A p \in 1..Len(patches) : Covers(r, patches[p].addr) => p = k
  <2>1. LeftAt(sorted, patches, i, k)
    BY DEF Wrote, LeftAt
  <2> HIDE DEF k
  <2>2. k \in 0..Len(patches)
    BY <1>4
  <2> QED
    BY <2>1, <2>2, NextPatch
<1>6. q.value = IF hit THEN [r.value EXCEPT ![patches[k].addr - r.addr + 1] = patches[k].value]
                ELSE r.value
  <2>1. CASE hit
    <3>1. k \in 1..Len(patches) /\ Covers(r, patches[k].addr)
      BY <1>4, <2>1
    <3>2. PatchedRecord(r, patches).value =
            [r.value EXCEPT ![patches[k].addr - r.addr + 1] = patches[k].value]
      <4> HIDE DEF k, r
      <4> QED
        BY <1>1, <1>5, <3>1, OnePatch
    <3> QED
      BY <2>1, <3>2
  <2>2. CASE ~hit
    <3>1. \A p \in 1..Len(patches) : ~Covers(r, patches[p].addr)
      BY <1>4, <1>5, <2>2
    <3> QED
      BY <1>1, <2>2, <3>1, NoPatch
  <2> QED
    BY <2>1, <2>2
<1>7. /\ at.patches # <<>> <=> k # 0
      /\ k # 0 => Last(at.patches) = patches[k]
  <2>1. at.patches # <<>> <=> k # 0
    BY <1>4, EmptySeq
  <2> QED
    BY <1>4, <2>1, SMTT(60) DEF Last
<1>8. /\ next.upper = upper
      /\ next.patches = IF hit THEN Front(at.patches) ELSE at.patches
      /\ next.out = moved \o <<d>>
  <2> HIDE DEF q
  <2> QED
    BY <1>6, <1>7 DEF WriteRecord, Moved
<1>9. /\ at.upper \in Nat
      /\ at.out \in Seq(HexRecords(Byte)) /\ at.out # <<>>
      /\ Head(at.out) = StartLinearAddress(first)
      /\ LoadAll(at.out).base = at.upper * SEGMENT
      /\ MadeOf(LoadAll(at.out).memory, {PatchedRecord(sorted[j], patches) : j \in 1..i})
  BY DEF Wrote
<1>10. /\ moved \in Seq(HexRecords(Byte)) /\ moved # <<>> /\ Head(moved) = Head(at.out)
       /\ LoadAll(moved).base = upper * SEGMENT
       /\ LoadAll(moved).memory = LoadAll(at.out).memory
  <2> DEFINE out == at.out
             old == at.upper
  <2>1. /\ out \in Seq(HexRecords(Byte)) /\ out # <<>> /\ old \in Nat /\ upper \in Nat
        /\ LoadAll(out).base = old * SEGMENT
    BY <1>2, <1>9
  <2> HIDE DEF upper, out, old
  <2>2. /\ Moved(out, old, upper) \in Seq(HexRecords(Byte)) /\ Moved(out, old, upper) # <<>>
        /\ Head(Moved(out, old, upper)) = Head(out)
    BY <2>1, MovedIs
  <2>3. /\ LoadAll(Moved(out, old, upper)).base = upper * SEGMENT
        /\ LoadAll(Moved(out, old, upper)).memory = LoadAll(out).memory
    BY <2>1, MovedIs, ZenonT(60)
  <2> QED
    BY <2>2, <2>3 DEF out, old
<1>11. /\ d \in HexRecords(Byte) /\ d.type = "Data"
       /\ d.offset = r.addr % SEGMENT /\ d.value = q.value
  <2> HIDE DEF q, r
  <2> QED
    BY <1>2, <1>3 DEF HexRecords, Data
<1> HIDE DEF d, moved, next, hit
<1>12. /\ next.out = Append(moved, d) /\ next.out \in Seq(HexRecords(Byte))
       /\ next.out # <<>> /\ Head(next.out) = Head(moved)
       /\ LoadAll(next.out) = Load(LoadAll(moved), d)
  <2>1. next.out = Append(moved, d)
    BY <1>8, <1>10, <1>11, AppendIsConcat
  <2>2. /\ Append(moved, d) \in Seq(HexRecords(Byte)) /\ Append(moved, d) # <<>>
        /\ Head(Append(moved, d)) = Head(moved)
    BY <1>10, <1>11, AppendProperties, HeadTailAppend
  <2>3. LoadAll(Append(moved, d)) = Load(LoadAll(moved), d)
    BY <1>10, <1>11, LoadAppend
  <2> QED
    BY <2>1, <2>2, <2>3
<1>13. /\ LoadAll(next.out).base = upper * SEGMENT
       /\ LoadAll(next.out).memory = Over(Placed(q.addr, q.value), LoadAll(at.out).memory)
  <2>1. /\ LoadAll(next.out).base = upper * SEGMENT
        /\ LoadAll(next.out).memory =
                Over(Placed(upper * SEGMENT + (r.addr % SEGMENT), q.value), LoadAll(at.out).memory)
    <3> HIDE DEF upper, q, r
    <3> QED
      BY <1>10, <1>11, <1>12, LoadIs
  <2> QED
    BY <1>2, <1>3, <2>1
<1> DEFINE R == {PatchedRecord(sorted[j], patches) : j \in 1..i}
<1>14. MadeOf(LoadAll(next.out).memory, {PatchedRecord(sorted[j], patches) : j \in 1..(i + 1)})
  <2>1. \A s \in R : \A a : ~(Covers(s, a) /\ Covers(q, a))
    <3> SUFFICES ASSUME NEW j \in 1..i
                 PROVE  \A a : ~(Covers(PatchedRecord(sorted[j], patches), a) /\ Covers(q, a))
      OBVIOUS
    <3>1. /\ j \in 1..Len(sorted) /\ sorted[j] \in AddrRecords(Byte) /\ sorted[j] \in ToSet(sorted)
          /\ sorted[j].addr \in Nat /\ j < i + 1 /\ j \in DOMAIN sorted /\ i + 1 \in DOMAIN sorted
      BY <1>1, RecordsAre
    <3>2. sorted[j].addr < r.addr
      BY <3>1 DEF Ascending
    <3>3. sorted[j] # r
      BY <1>1, <3>1, <3>2
    <3>4. \A a : ~(Covers(sorted[j], a) /\ Covers(r, a))
      BY <1>1, <3>1, <3>3 DEF SetApart
    <3>5. \A a : Covers(PatchedRecord(sorted[j], patches), a) <=> Covers(sorted[j], a)
      BY <3>1, PatchedRecordIs
    <3> QED
      BY <1>3, <3>4, <3>5
  <2>2. R \cup {q} = {PatchedRecord(sorted[j], patches) : j \in 1..(i + 1)}
    OBVIOUS
  <2> HIDE DEF R, q
  <2>3. MadeOf(LoadAll(at.out).memory, R)
    BY <1>9 DEF R
  <2>4. MadeOf(Over(Placed(q.addr, q.value), LoadAll(at.out).memory), R \cup {q})
    BY <1>3, <2>1, <2>3, MadeOfMore
  <2> QED
    BY <1>13, <2>2, <2>4
<1>15. /\ next.patches \in Seq(Patches(Byte))
       /\ Len(next.patches) = IF hit THEN k - 1 ELSE k
       /\ \A p \in 1..Len(next.patches) : next.patches[p] = patches[p]
  <2>1. CASE hit
    <3>1. k \in 1..Len(patches)
      BY <1>4, <2>1 DEF hit
    <3>2. next.patches = SubSeq(at.patches, 1, k - 1)
      BY <1>8, <2>1 DEF Front
    <3>3. /\ SubSeq(at.patches, 1, k - 1) \in Seq(Patches(Byte))
          /\ Len(SubSeq(at.patches, 1, k - 1)) = k - 1
          /\ \A p \in 1..(k - 1) : SubSeq(at.patches, 1, k - 1)[p] = at.patches[p]
      <4>1. k \in Int /\ k - 1 \in Int /\ k = Len(at.patches) /\ k >= 1
        BY <3>1
      <4> HIDE DEF k
      <4> QED
        BY <1>4, <4>1, SubSeqProperties
    <3>4. \A p \in 1..(k - 1) : p \in 1..k
      BY <3>1
    <3> HIDE DEF k
    <3> QED
      BY <1>4, <2>1, <3>2, <3>3, <3>4
  <2>2. CASE ~hit
    BY <1>4, <1>8, <2>2
  <2> QED
    BY <2>1, <2>2
<1> DEFINE l == Len(next.patches)
<1>16. /\ l \in 0..Len(patches) /\ \A p \in 1..l : p \in 1..k /\ (hit => p # k)
       /\ \A p \in (l + 1)..Len(patches) : p \in (k + 1)..Len(patches) \/ (hit /\ p = k)
  <2>1. hit => k # 0
    BY DEF hit
  <2> HIDE DEF k, l
  <2>2. l = IF hit THEN k - 1 ELSE k
    BY <1>15 DEF l
  <2> QED
    BY <1>4, <2>1, <2>2
<1>17. \A p \in 1..l : \A j \in 1..(i + 1) : ~Covers(sorted[j], patches[p].addr)
  <2> SUFFICES ASSUME NEW p \in 1..l, NEW j \in 1..(i + 1)
               PROVE  ~Covers(sorted[j], patches[p].addr)
    OBVIOUS
  <2>1. p \in 1..k /\ (hit => p # k) /\ p \in 1..Len(patches)
    BY <1>4, <1>16
  <2>2. CASE j = i + 1
    <3>1. Covers(r, patches[p].addr) => p = k /\ k # 0
      BY <1>5, <2>1
    <3> QED
      BY <2>1, <2>2, <3>1 DEF hit
  <2>3. CASE j # i + 1
    <3>1. j \in 1..i
      BY <2>3
    <3> QED
      BY <2>1, <3>1 DEF Wrote
  <2> QED
    BY <2>2, <2>3
<1>18. \A p \in (l + 1)..Len(patches) : \E j \in 1..(i + 1) : Covers(sorted[j], patches[p].addr)
  <2> SUFFICES ASSUME NEW p \in (l + 1)..Len(patches)
               PROVE  \E j \in 1..(i + 1) : Covers(sorted[j], patches[p].addr)
    OBVIOUS
  <2>1. CASE p \in (k + 1)..Len(patches)
    <3>1. PICK j \in 1..i : Covers(sorted[j], patches[p].addr)
      BY <2>1 DEF Wrote
    <3>2. j \in 1..(i + 1)
      OBVIOUS
    <3> QED
      BY <3>1, <3>2
  <2>2. CASE hit /\ p = k
    <3>1. i + 1 \in 1..(i + 1)
      OBVIOUS
    <3> QED
      BY <2>2, <3>1 DEF hit
  <2> QED
    BY <1>16, <2>1, <2>2
<1>19. next.upper \in Nat /\ next.upper = upper
  BY <1>2, <1>8
<1>20. Wrote(next, sorted, patches, i + 1, first, Byte)
  <2> HIDE DEF upper, r, q, k
  <2> QED
    BY <1>9, <1>10, <1>12, <1>13, <1>14, <1>15, <1>16, <1>17, <1>18, <1>19 DEF Wrote
<1> QED
  BY <1>20 DEF next

(* Whatever apart records are merged, in whatever order they were read:    *)
(* the file is whole, and to a programmer of the standard it is the memory *)
(* the records hold, with exactly the patched bytes replaced.  The lowest  *)
(* address must be in the first segment, because a start address loads     *)
(* nothing.                                                                *)
THEOREM MergeCorrect ==
    ASSUME NEW Byte, NEW records, NEW memory, Hold(records, memory, Byte),
           \E r \in ToSet(records) : r.addr < SEGMENT,
           NEW patches \in Seq(Patches(Byte)), PatchesFit(patches, records)
    PROVE  /\ Contents(Merge(records, patches)) = Patched(memory, patches)
           /\ IsWhole(Merge(records, patches))
           /\ ~IsWhole(<<Head(Merge(records, patches))>>)
<1> DEFINE s == Sorted(records)
           n == Len(s)
<1>1. /\ records \in Seq(AddrRecords(Byte)) /\ Apart(records)
      /\ MadeOf(memory, ToSet(records))
  BY DEF Hold
<1>2. /\ s \in Seq(AddrRecords(Byte)) /\ Ascending(s) /\ ToSet(s) = ToSet(records)
  BY <1>1, SortedFacts
<1>3. SetApart(ToSet(s))
  <2> SUFFICES ASSUME NEW q \in ToSet(records), NEW r \in ToSet(records), q # r
               PROVE  \A a : ~(Covers(q, a) /\ Covers(r, a))
    BY <1>2 DEF SetApart
  <2>1. PICK i \in 1..Len(records), j \in 1..Len(records) : q = records[i] /\ r = records[j]
    BY <1>1, RecordsAre
  <2> QED
    BY <1>1, <2>1, ApartIs
<1>4. PatchesFit(patches, s)
  BY <1>2 DEF PatchesFit
<1>5. /\ n \in Nat /\ DOMAIN s = 1..n
      /\ \A i \in 1..n : s[i] \in AddrRecords(Byte) /\ s[i].addr \in Nat
      /\ \A r \in ToSet(s) : \E i \in 1..n : r = s[i]
  BY <1>2, RecordsAre
<1> HIDE DEF s
<1>6. s[1].addr \div SEGMENT = 0
  <2>1. PICK i \in 1..n : s[i].addr < SEGMENT
    BY <1>2, <1>5
  <2>2. 1 \in 1..n /\ s[1].addr <= s[i].addr
    BY <1>2, <1>5 DEF Ascending
  <2> DEFINE a == s[1].addr
  <2>3. a \in Nat /\ a < SEGMENT /\ SEGMENT \in Nat \ {0}
    BY <1>5, <2>1, <2>2, HexAssumption
  <2> HIDE DEF a
  <2>4. a \div SEGMENT = 0
    BY <2>3
  <2> QED
    BY <2>4 DEF a
<1> HIDE DEF n
<1> DEFINE begin == [upper |-> 0, patches |-> patches, out |-> <<StartLinearAddress(0)>>]
<1>7. PICK at : /\ WriteAll(s, patches) = at[n]
                /\ at = [i \in 0..n |-> IF i = 0 THEN begin ELSE WriteRecord(at[i - 1], s[i])]
  <2>1. Len(s) = n /\ n \in Nat
    BY <1>5 DEF n
  <2>2. \E at : /\ WriteAll(s, patches) = at[n]
                /\ at = [i \in 0..n |-> IF i = 0 THEN WriteStart(s, patches)
                                        ELSE WriteRecord(at[i - 1], s[i])]
    BY <2>1, WriteAllIs
  <2>3. WriteStart(s, patches) = begin
    BY <1>6 DEF WriteStart
  <2> HIDE DEF begin
  <2> QED
    BY <2>2, <2>3
<1> DEFINE S == {i \in Nat : i <= n => Wrote(at[i], s, patches, i, 0, Byte)}
<1> HIDE DEF begin
<1>8. 0 \in S
  <2>1. at[0] = begin
    BY <1>5, <1>7
  <2>2. Wrote(at[0], s, patches, 0, 0, Byte)
    BY <2>1, WriteFirst DEF begin
  <2> QED
    BY <2>2
<1>9. ASSUME NEW i \in Nat, i \in S
      PROVE  i + 1 \in S
  <2> SUFFICES ASSUME i + 1 <= n
               PROVE  Wrote(at[i + 1], s, patches, i + 1, 0, Byte)
    OBVIOUS
  <2>1. at[i + 1] = WriteRecord(at[i], s[i + 1])
    BY <1>5, <1>7
  <2>2. Wrote(at[i], s, patches, i, 0, Byte)
    BY <1>5, <1>9
  <2>3. i + 1 <= Len(s)
    BY DEF n
  <2> QED
    BY <1>2, <1>3, <1>4, <2>1, <2>2, <2>3, WriteNext
<1>10. Wrote(at[n], s, patches, n, 0, Byte)
  <2> HIDE DEF S
  <2>1. n \in S
    BY <1>5, <1>8, <1>9, Induction
  <2> QED
    BY <1>5, <2>1 DEF S
<1> DEFINE out == at[n].out
           image == Append(out, EndOfFile)
<1>11. /\ out \in Seq(HexRecords(Byte)) /\ out # <<>> /\ Head(out) = StartLinearAddress(0)
       /\ MadeOf(LoadAll(out).memory, {PatchedRecord(s[j], patches) : j \in 1..n})
  BY <1>10 DEF Wrote
<1> HIDE DEF out
<1>12. EndOfFile \in HexRecords(Byte) /\ EndOfFile.type = "EndOfFile"
       /\ StartLinearAddress(0).type = "StartLinearAddress"
  BY DEF HexRecords, EndOfFile, StartLinearAddress
<1>13. /\ image \in Seq(HexRecords(Byte)) /\ image # <<>> /\ Len(image) = Len(out) + 1
       /\ image[Len(out) + 1] = EndOfFile /\ Head(image) = Head(out)
       /\ image = out \o <<EndOfFile>>
  BY <1>11, <1>12, AppendProperties, HeadTailAppend, AppendIsConcat
<1>14. LoadAll(image).memory = LoadAll(out).memory
  <2>1. LoadAll(image) = Load(LoadAll(out), EndOfFile)
    BY <1>11, <1>12, LoadAppend, SMTT(60)
  <2> QED
    BY <1>12, <2>1, LoadIs
<1> HIDE DEF image
<1>15. Merge(records, patches) = image
  BY <1>7, <1>13 DEF Merge, s, out
<1>16. Contents(image) = Patched(memory, patches)
  <2>1. {PatchedRecord(s[j], patches) : j \in 1..n}
            = {PatchedRecord(r, patches) : r \in ToSet(records)}
    <3>1. ToSet(records) = {s[j] : j \in 1..n}
      BY <1>2, <1>5 DEF ToSet
    <3> QED
      BY <3>1
  <2>2. ToSet(records) \subseteq AddrRecords(Byte)
    BY <1>1, RecordsAre
  <2>3. MadeOf(LoadAll(out).memory, {PatchedRecord(r, patches) : r \in ToSet(records)})
    BY <1>11, <2>1
  <2>4. LoadAll(out).memory = Patched(memory, patches)
    BY <1>1, <2>2, <2>3, MadeOfPatched
  <2> QED
    BY <1>14, <2>4 DEF Contents
<1>17. IsWhole(image)
  BY <1>13 DEF IsWhole, Last
<1>18. ~IsWhole(<<Head(image)>>)
  <2>1. Last(<<Head(image)>>) = Head(image)
    BY DEF Last
  <2>2. Head(image) # EndOfFile
    BY <1>11, <1>12, <1>13
  <2> QED
    BY <2>1, <2>2 DEF IsWhole
<1> QED
  BY <1>15, <1>16, <1>17, <1>18

-----------------------------------------------------------------------------
(* Chunks of a binary file.                                                *)

LEMMA ChunkIs ==
    ASSUME NEW Byte, NEW data \in Seq(Byte), NEW offset \in Nat,
           NEW i \in DOMAIN ReadBinary(data, offset)
    PROVE  /\ i \in Nat \ {0} /\ (i - 1) * CHUNK \in Nat
           /\ (i - 1) * CHUNK < Len(data) /\ i * CHUNK = (i - 1) * CHUNK + CHUNK
           /\ ReadBinary(data, offset)[i] \in AddrRecords(Byte)
           /\ ReadBinary(data, offset)[i].addr = offset + (i - 1) * CHUNK
           /\ Len(ReadBinary(data, offset)[i].value) =
                (IF i * CHUNK < Len(data) THEN i * CHUNK ELSE Len(data)) - (i - 1) * CHUNK
           /\ \A k \in 1..Len(ReadBinary(data, offset)[i].value) :
                ReadBinary(data, offset)[i].value[k] = data[(i - 1) * CHUNK + k]
<1> DEFINE n == Len(data)
           c == (n + CHUNK - 1) \div CHUNK
           low == (i - 1) * CHUNK
           high == IF i * CHUNK < n THEN i * CHUNK ELSE n
           v == SubSeq(data, low + 1, high)
<1>1. n \in Nat /\ CHUNK \in Nat \ {0} /\ n + CHUNK - 1 \in Nat
  BY LenProperties, HexAssumption
<1> HIDE DEF n
<1>2. c \in Nat /\ c * CHUNK <= n + CHUNK - 1
  <2>1. n + CHUNK - 1 = c * CHUNK + ((n + CHUNK - 1) % CHUNK) /\ c \in Nat
        /\ (n + CHUNK - 1) % CHUNK \in 0..(CHUNK - 1)
    BY <1>1, DivMod
  <2> DEFINE p == c * CHUNK
             m == (n + CHUNK - 1) % CHUNK
  <2>2. p \in Int /\ m \in Nat /\ n + CHUNK - 1 = p + m
    BY <1>1, <2>1
  <2> HIDE DEF p, m
  <2>3. p <= n + CHUNK - 1
    BY <1>1, <2>2
  <2> QED
    BY <2>1, <2>3 DEF p
<1>3. i \in 1..c /\ ReadBinary(data, offset)[i] = [addr |-> offset + low, value |-> v]
  BY DEF ReadBinary, n
<1> HIDE DEF c
<1>4. /\ i \in Nat \ {0} /\ low \in Nat /\ i * CHUNK = low + CHUNK /\ i * CHUNK <= c * CHUNK
      /\ i * CHUNK \in Nat
  <2>1. i \in Nat /\ i - 1 \in Nat /\ i <= c /\ c \in Nat
    BY <1>2, <1>3
  <2>2. low \in Nat /\ i * CHUNK \in Nat
    BY <1>1, <2>1
  <2>3. i * CHUNK = low + CHUNK
    BY <1>1, <2>1
  <2>4. i * CHUNK <= c * CHUNK
    BY <1>1, <2>1
  <2> QED
    BY <1>3, <2>1, <2>2, <2>3, <2>4
<1> DEFINE top == c * CHUNK
           here == i * CHUNK
<1>5. top \in Int /\ top <= n + CHUNK - 1 /\ here <= top /\ here = low + CHUNK /\ here \in Nat
  BY <1>1, <1>2, <1>4
<1> HIDE DEF low, top
<1>6. low < n
  <2> HIDE DEF here
  <2> QED
    BY <1>1, <1>4, <1>5
<1>7. high \in Nat /\ low < high /\ high <= n
  <2>1. high = IF here < n THEN here ELSE n
    OBVIOUS
  <2> HIDE DEF here, high
  <2> QED
    BY <1>1, <1>4, <1>5, <1>6, <2>1
<1>8. /\ v \in Seq(Byte) /\ Len(v) = high - low
      /\ \A k \in 1..Len(v) : v[k] = data[low + k]
  <2> HIDE DEF high
  <2>1. /\ SubSeq(data, low + 1, high) \in Seq(Byte)
        /\ Len(SubSeq(data, low + 1, high)) = high - (low + 1) + 1
        /\ \A k \in 1..(high - (low + 1) + 1) :
            SubSeq(data, low + 1, high)[k] = data[low + 1 + k - 1]
    <3>1. low + 1 \in 1..(n + 1) /\ high \in 0..n /\ low + 1 <= high
      BY <1>1, <1>4, <1>7
    <3> QED
      BY <3>1, SubSeqProperties DEF n
  <2>2. high - (low + 1) + 1 = high - low
    BY <1>4, <1>7
  <2>3. ASSUME NEW k \in 1..(high - low)
        PROVE  v[k] = data[low + k]
    <3>1. k \in 1..(high - (low + 1) + 1) /\ low + 1 + k - 1 = low + k
      BY <1>4, <2>2
    <3> QED
      BY <2>1, <3>1
  <2> HIDE DEF v
  <2>4. v \in Seq(Byte) /\ Len(v) = high - low
    BY <2>1, <2>2 DEF v
  <2> QED
    BY <2>3, <2>4
<1>9. v # <<>>
  <2> HIDE DEF v, high
  <2> QED
    BY <1>4, <1>7, <1>8, EmptySeq
<1>10. offset + low \in Nat
  BY <1>4
<1> HIDE DEF v
<1>11. [addr |-> offset + low, value |-> v] \in AddrRecords(Byte)
  BY <1>8, <1>9, <1>10 DEF AddrRecords
<1> QED
  BY <1>3, <1>4, <1>6, <1>8, <1>11 DEF low, n

LEMMA Multiples ==
    ASSUME NEW a \in Nat, NEW b \in Nat, NEW c \in Nat
    PROVE  /\ a * c \in Nat /\ b * c \in Nat
           /\ a < b => a * c + c <= b * c
           /\ a <= b => a * c <= b * c
<1>1. a * c \in Nat /\ b * c \in Nat
  OBVIOUS
<1>2. a < b => a * c + c <= b * c
  OBVIOUS
<1>3. a <= b => a * c <= b * c
  OBVIOUS
<1> QED
  BY <1>1, <1>2, <1>3

(* The chunk an index is in.                                               *)
LEMMA ChunkOf ==
    ASSUME NEW Byte, NEW data \in Seq(Byte), NEW offset \in Nat,
           NEW k \in Nat, k < Len(data)
    PROVE  \E i \in DOMAIN ReadBinary(data, offset) :
                (i - 1) * CHUNK <= k /\ k < i * CHUNK
<1> DEFINE n == Len(data)
           c == (n + CHUNK - 1) \div CHUNK
           q == k \div CHUNK
           m == k % CHUNK
           rest == (n + CHUNK - 1) % CHUNK
<1>1. n \in Nat /\ CHUNK \in Nat \ {0} /\ n + CHUNK - 1 \in Nat /\ k < n
  BY LenProperties, HexAssumption
<1>2. q \in Nat /\ m \in 0..(CHUNK - 1) /\ k = q * CHUNK + m
  BY <1>1, DivMod
<1>3. c \in Nat /\ rest \in 0..(CHUNK - 1) /\ n + CHUNK - 1 = c * CHUNK + rest
  <2> HIDE DEF n
  <2> QED
    BY <1>1, DivMod
<1>4. DOMAIN ReadBinary(data, offset) = 1..c
  BY DEF ReadBinary
<1> HIDE DEF n, c, q, m, rest
<1> DEFINE low == q * CHUNK
           top == c * CHUNK
<1>5. low \in Nat /\ top \in Nat /\ (c <= q => top <= low) /\ (q + 1) * CHUNK = low + CHUNK
  BY <1>1, <1>2, <1>3, Multiples
<1>6. k = low + m /\ n + CHUNK - 1 = top + rest
  BY <1>2, <1>3
<1> HIDE DEF low, top
<1>7. top > low
  BY <1>1, <1>2, <1>3, <1>5, <1>6
<1>8. q + 1 \in 1..c /\ (q + 1) - 1 = q
  BY <1>2, <1>3, <1>5, <1>7
<1>9. low <= k /\ k < low + CHUNK
  BY <1>1, <1>2, <1>5, <1>6
<1>10. ((q + 1) - 1) * CHUNK <= k /\ k < (q + 1) * CHUNK
  BY <1>5, <1>8, <1>9 DEF low
<1> QED
  BY <1>4, <1>8, <1>10

(* A binary file is read as records that hold it at the offset.            *)
LEMMA ReadBinaryHolds ==
    ASSUME NEW Byte, NEW data \in Seq(Byte), NEW offset \in Nat
    PROVE  Hold(ReadBinary(data, offset),
                [a \in offset .. (offset + Len(data) - 1) |-> data[a - offset + 1]], Byte)
<1> DEFINE n == Len(data)
           records == ReadBinary(data, offset)
           memory == [a \in offset .. (offset + n - 1) |-> data[a - offset + 1]]
           c == (n + CHUNK - 1) \div CHUNK
           high(i) == IF i * CHUNK < n THEN i * CHUNK ELSE n
<1>1. n \in Nat /\ CHUNK \in Nat \ {0} /\ n + CHUNK - 1 \in Nat
  BY LenProperties, HexAssumption
<1>2. c \in Nat
  <2> HIDE DEF n
  <2> QED
    BY <1>1, DivMod
<1>3. DOMAIN records = 1..c /\ records = [i \in 1..c |-> records[i]]
  BY DEF ReadBinary
<1>4. ASSUME NEW i \in 1..c
      PROVE  /\ i \in Nat /\ i - 1 \in Nat /\ (i - 1) * CHUNK \in Nat /\ i * CHUNK \in Nat
             /\ (i - 1) * CHUNK < n
             /\ records[i] \in AddrRecords(Byte)
             /\ records[i].addr = offset + (i - 1) * CHUNK
             /\ Len(records[i].value) = high(i) - (i - 1) * CHUNK
             /\ \A k \in 1..Len(records[i].value) :
                    records[i].value[k] = data[(i - 1) * CHUNK + k]
  <2>1. i \in DOMAIN ReadBinary(data, offset)
    BY <1>3
  <2>2. /\ i \in Nat \ {0} /\ (i - 1) * CHUNK \in Nat
        /\ (i - 1) * CHUNK < n /\ i * CHUNK = (i - 1) * CHUNK + CHUNK
    BY <2>1, ChunkIs
  <2>3. i \in Nat /\ i - 1 \in Nat
    BY <2>2
  <2>4. i * CHUNK \in Nat
    BY <1>1, <2>3, Multiples
  <2>5. /\ records[i] \in AddrRecords(Byte)
        /\ records[i].addr = offset + (i - 1) * CHUNK
        /\ Len(records[i].value) = high(i) - (i - 1) * CHUNK
    BY <2>1, ChunkIs
  <2>6. \A k \in 1..Len(records[i].value) : records[i].value[k] = data[(i - 1) * CHUNK + k]
    BY <2>1, ChunkIs
  <2> QED
    BY <2>2, <2>3, <2>4, <2>5, <2>6
<1> HIDE DEF c, records, n
<1>5. records \in Seq(AddrRecords(Byte))
  BY <1>2, <1>3, <1>4, IsASeq
<1>6. ASSUME NEW i \in 1..c, NEW a
      PROVE  Covers(records[i], a) <=> /\ a \in Int
                                       /\ offset + (i - 1) * CHUNK <= a /\ a < offset + high(i)
  <2> DEFINE low == (i - 1) * CHUNK
             up == high(i)
  <2>1. /\ records[i] \in AddrRecords(Byte) /\ records[i].addr = offset + low
        /\ Len(records[i].value) = up - low /\ low \in Nat
    BY <1>4
  <2>2. up \in Nat
    BY <1>1, <1>4
  <2> HIDE DEF low, up
  <2>3. records[i].addr + Len(records[i].value) = offset + up
    BY <2>1, <2>2
  <2>4. Covers(records[i], a) <=> a \in Int /\ offset + low <= a /\ a < offset + up
    BY <2>1, <2>3, CoversIs
  <2> QED
    BY <2>4 DEF low, up
<1>7. ASSUME NEW i \in 1..c, NEW j \in 1..c, i < j, NEW a
      PROVE  ~(Covers(records[i], a) /\ Covers(records[j], a))
  <2> DEFINE x == i * CHUNK
             y == (j - 1) * CHUNK
             up == high(i)
  <2>1. x \in Nat /\ y \in Nat /\ i <= j - 1 /\ i \in Nat /\ j - 1 \in Nat
    BY <1>4, <1>7
  <2>2. x <= y
    BY <1>1, <2>1, Multiples
  <2>3. up \in Nat /\ up <= x
    BY <1>1, <2>1
  <2>4. Covers(records[i], a) => a \in Int /\ a < offset + up
    BY <1>6
  <2>5. Covers(records[j], a) => a \in Int /\ offset + y <= a
    BY <1>6
  <2> HIDE DEF x, y, up
  <2> QED
    BY <2>1, <2>2, <2>3, <2>4, <2>5
<1>8. Apart(records)
  <2> SUFFICES ASSUME NEW i \in 1..c, NEW j \in 1..c, i # j, NEW k \in DOMAIN records[i].value
               PROVE  ~Covers(records[j], records[i].addr + k - 1)
    BY <1>3 DEF Apart
  <2>1. Covers(records[i], records[i].addr + k - 1)
    <3>1. records[i] \in AddrRecords(Byte)
      BY <1>4
    <3>2. /\ records[i].addr \in Nat /\ Len(records[i].value) \in Nat
          /\ k \in 1..Len(records[i].value)
      BY <3>1, RecordIs
    <3> QED
      BY <3>2 DEF Covers
  <2>2. i < j \/ j < i
    BY <1>2
  <2> QED
    BY <1>7, <2>1, <2>2
<1>9. \A a : a \in DOMAIN memory <=> a \in Int /\ offset <= a /\ a < offset + n
  BY <1>1
<1>10. \A a : a \in DOMAIN memory <=> \E r \in ToSet(records) : Covers(r, a)
  <2>1. ASSUME NEW a \in DOMAIN memory
        PROVE  \E r \in ToSet(records) : Covers(r, a)
    <3> DEFINE k == a - offset
    <3>1. k \in Nat /\ k < Len(data) /\ k < n
      BY <1>1, <1>9, <2>1 DEF n
    <3> HIDE DEF k
    <3>2. PICK i \in DOMAIN ReadBinary(data, offset) : (i - 1) * CHUNK <= k /\ k < i * CHUNK
      BY <3>1, ChunkOf
    <3>3. i \in 1..c
      BY <1>3 DEF records
    <3> DEFINE low == (i - 1) * CHUNK
               up == high(i)
    <3>4. low \in Nat /\ low <= k /\ up \in Nat /\ k < up
      BY <1>1, <1>4, <3>1, <3>2, <3>3
    <3>5. Covers(records[i], a) <=> a \in Int /\ offset + low <= a /\ a < offset + up
      BY <1>6, <3>3
    <3> HIDE DEF low, up
    <3>6. a \in Int /\ offset + low <= a /\ a < offset + up
      BY <1>9, <2>1, <3>4 DEF k
    <3> QED
      BY <1>3, <3>3, <3>5, <3>6 DEF ToSet
  <2>2. ASSUME NEW a, NEW r \in ToSet(records), Covers(r, a)
        PROVE  a \in DOMAIN memory
    <3>1. PICK i \in 1..c : r = records[i]
      BY <1>3 DEF ToSet
    <3> DEFINE low == (i - 1) * CHUNK
               up == high(i)
    <3>2. low \in Nat /\ up \in Nat /\ up <= n
      BY <1>1, <1>4
    <3>3. a \in Int /\ offset + low <= a /\ a < offset + up
      BY <1>6, <2>2, <3>1
    <3> HIDE DEF low, up, memory
    <3>4. offset <= a /\ a < offset + n
      BY <1>1, <3>2, <3>3
    <3> QED
      BY <1>9, <3>3, <3>4
  <2> QED
    BY <2>1, <2>2
<1>11. ASSUME NEW r \in ToSet(records), NEW a \in DOMAIN memory, Covers(r, a)
       PROVE  memory[a] = r.value[a - r.addr + 1]
  <2>1. PICK i \in 1..c : r = records[i]
    BY <1>3 DEF ToSet
  <2> DEFINE low == (i - 1) * CHUNK
             k == a - r.addr + 1
  <2>2. /\ r \in AddrRecords(Byte) /\ r.addr = offset + low /\ low \in Nat
        /\ \A x \in 1..Len(r.value) : r.value[x] = data[low + x]
    BY <1>4, <2>1
  <2> HIDE DEF low
  <2>3. /\ a \in Int /\ r.addr <= a /\ a < r.addr + Len(r.value) /\ Len(r.value) \in Nat
    BY <1>11, <2>2, CoversIs, RecordIs
  <2> DEFINE l == Len(r.value)
             b == r.addr
  <2>4. /\ a \in Int /\ b <= a /\ a < b + l /\ l \in Nat /\ b = offset + low /\ low \in Nat
        /\ k = a - b + 1
    BY <2>2, <2>3
  <2> HIDE DEF k, l, b
  <2>5. k \in 1..l
    BY <2>4
  <2>6. k \in 1..Len(r.value) /\ low + k = a - offset + 1
    BY <2>4, <2>5 DEF l
  <2>7. r.value[k] = data[a - offset + 1]
    BY <2>2, <2>6
  <2> QED
    BY <2>7 DEF k
<1>12. memory = [a \in DOMAIN memory |-> memory[a]]
  OBVIOUS
<1> HIDE DEF memory
<1>13. MadeOf(memory, ToSet(records))
  BY <1>10, <1>11, <1>12 DEF MadeOf
<1> QED
  BY <1>5, <1>8, <1>13 DEF Hold, records, memory, n

=============================================================================
