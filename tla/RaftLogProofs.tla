---------------------------- MODULE RaftLogProofs ----------------------------
(***************************************************************************)
(* What the operators of RaftLog keep of the shape of a log.               *)
(***************************************************************************)
EXTENDS RaftLog, SequenceTheorems, TLAPS

(* The last index is as far from the first as the log is long.             *)
LEMMA LogShape ==
  ASSUME NEW log, IsLog(log)
  PROVE  /\ log \in Seq(Entry)
         /\ Len(log) \in Nat \ {0}
         /\ First(log) \in Nat
         /\ Last(log) = First(log) + Len(log) - 1
         /\ \A k \in 1 .. Len(log) : log[k] \in Entry /\ log[k].Index = First(log) + k - 1
  <1>1. log \in Seq(Entry) /\ Len(log) \in Nat \ {0}
    BY EmptySeq DEF IsLog, Follow
  <1>2. \A k \in 1 .. Len(log) : log[k] \in Entry
    BY <1>1, ElementOfSeq
  <1>3. First(log) \in Nat
    BY <1>1, <1>2 DEF First, getFirstLog, Entry
  <1>4. \A k \in 1 .. Len(log) : log[k].Index = First(log) + k - 1
    BY <1>1, <1>3 DEF IsLog, Follow
  <1>5. Last(log) = First(log) + Len(log) - 1
    BY <1>1, <1>4 DEF Last, getLastLog
  <1> QED
    BY <1>1, <1>2, <1>3, <1>4, <1>5

LEMMA LogEnds ==
  ASSUME NEW log, IsLog(log)
  PROVE  First(log) \in Nat /\ Last(log) \in Nat /\ First(log) <= Last(log)
  BY LogShape

(* From its first index to its last a log has an entry with a term.        *)
LEMMA TermInLog ==
  ASSUME NEW log, IsLog(log), NEW index \in First(log) .. Last(log)
  PROVE  /\ index \in Nat
         /\ EntryAt(log, index) \in Entry
         /\ EntryAt(log, index).Index = index
         /\ TermAt(log, index) \in Nat
  <1>1. index - First(log) + 1 \in 1 .. Len(log) /\ index \in Nat
    BY LogShape
  <1>2. EntryAt(log, index) \in Entry /\ EntryAt(log, index).Index = index
    BY <1>1, LogShape DEF EntryAt
  <1> QED
    BY <1>1, <1>2 DEF TermAt, Entry

LEMMA LastTerm ==
  ASSUME NEW log, IsLog(log)
  PROVE  getLastLog(log).Term \in Nat /\ getFirstLog(log).Term \in Nat
  BY LogShape DEF getLastLog, getFirstLog, Entry

(* A slice of a log, from the entry after the first to one past the end.   *)
LEMMA FromFollows ==
  ASSUME NEW log, IsLog(log), NEW index \in First(log) .. Last(log) + 1
  PROVE  /\ Follow(From(log, index), index - 1)
         /\ Len(From(log, index)) = Last(log) + 1 - index
         /\ \A k \in 1 .. Len(From(log, index)) :
              From(log, index)[k] = EntryAt(log, index + k - 1)
  <1> DEFINE m == index - First(log) + 1
             s == From(log, index)
  <1>1. m \in 1 .. Len(log) + 1 /\ Len(log) \in Nat /\ First(log) \in Nat
        /\ index \in Int
    BY LogShape
  <1>2. \A k \in m .. Len(log) : log[k] \in Entry
    BY <1>1, LogShape
  <1>3. /\ s \in Seq(Entry)
        /\ Len(s) = IF m <= Len(log) THEN Len(log) - m + 1 ELSE 0
        /\ \A k \in 1 .. Len(log) - m + 1 : s[k] = log[m + k - 1]
    <2> HIDE DEF m
    <2>1. /\ SubSeq(log, m, Len(log)) \in Seq(Entry)
          /\ Len(SubSeq(log, m, Len(log))) = IF m <= Len(log) THEN Len(log) - m + 1 ELSE 0
          /\ \A k \in 1 .. Len(log) - m + 1 : SubSeq(log, m, Len(log))[k] = log[m + k - 1]
      BY <1>1, <1>2, SubSeqProperties
    <2>2. s = SubSeq(log, m, Len(log))
      BY DEF From, m
    <2> QED
      BY <2>1, <2>2
  <1>4. Len(s) = Last(log) + 1 - index
    BY <1>1, <1>3, LogShape
  <1>5. \A k \in 1 .. Len(s) : s[k] = log[m + k - 1] /\ m + k - 1 \in 1 .. Len(log)
    BY <1>1, <1>3
  <1>6. \A k \in 1 .. Len(s) : s[k] = EntryAt(log, index + k - 1)
    BY <1>1, <1>5 DEF EntryAt
  <1>7. \A k \in 1 .. Len(s) : s[k].Index = index - 1 + k
    <2> TAKE k \in 1 .. Len(s)
    <2>1. log[m + k - 1].Index = First(log) + (m + k - 1) - 1
      BY <1>5, LogShape
    <2>2. s[k].Index = First(log) + (m + k - 1) - 1
      BY <1>5, <2>1
    <2>3. \A f, j \in Int : f + ((j - f + 1) + k - 1) - 1 = j - 1 + k
      OBVIOUS
    <2>4. First(log) + (m + k - 1) - 1 = index - 1 + k
      BY <1>1, <2>3
    <2> QED
      BY <2>2, <2>4
  <1> QED
    BY <1>3, <1>4, <1>6, <1>7 DEF Follow

(* A log cut at one of its indexes is a log that ends where it did.        *)
LEMMA FromIsLog ==
  ASSUME NEW log, IsLog(log), NEW index \in First(log) .. Last(log)
  PROVE  /\ IsLog(From(log, index))
         /\ First(From(log, index)) = index
         /\ Last(From(log, index)) = Last(log)
         /\ \A k \in index .. Last(log) : TermAt(From(log, index), k) = TermAt(log, k)
  <1> DEFINE s == From(log, index)
  <1>1. /\ First(log) \in Nat /\ Last(log) \in Nat /\ index \in Nat
        /\ index \in First(log) .. Last(log) + 1
    BY LogShape
  <1>2. Follow(s, index - 1) /\ Len(s) = Last(log) + 1 - index
    BY <1>1, FromFollows
  <1>3. Len(s) \in Nat \ {0} /\ s # << >>
    BY <1>1, <1>2, EmptySeq DEF Follow
  <1>4. First(s) = index
    BY <1>1, <1>2, <1>3 DEF Follow, First, getFirstLog
  <1>5. IsLog(s)
    BY <1>2, <1>3, <1>4 DEF IsLog
  <1>6. ASSUME NEW k \in index .. Last(log)
        PROVE  TermAt(s, k) = TermAt(log, k)
    <2>1. k - index + 1 \in 1 .. Len(s) /\ index + (k - index + 1) - 1 = k
      BY <1>1, <1>2
    <2>2. s[k - index + 1] = EntryAt(log, index + (k - index + 1) - 1)
      BY <1>1, <2>1, FromFollows
    <2> HIDE DEF s
    <2> QED
      BY <1>4, <2>1, <2>2 DEF TermAt, EntryAt
  <1>7. Last(s) = Last(log)
    <2> HIDE DEF s
    <2>1. Last(s) = First(s) + Len(s) - 1
      BY <1>5, LogShape
    <2> QED
      BY <1>1, <1>2, <1>4, <2>1
  <1> QED
    BY <1>4, <1>5, <1>6, <1>7

(* Entries that continue a log at index, appended to the log below index.  *)
LEMMA AppendedIsLog ==
  ASSUME NEW log, IsLog(log), NEW index \in First(log) + 1 .. Last(log) + 1,
         NEW entries, Follow(entries, index - 1)
  PROVE  /\ IsLog(Before(log, index) \o entries)
         /\ First(Before(log, index) \o entries) = First(log)
         /\ Last(Before(log, index) \o entries) = index - 1 + Len(entries)
         /\ \A k \in First(log) .. index - 1 :
              TermAt(Before(log, index) \o entries, k) = TermAt(log, k)
         /\ \A j \in 1 .. Len(entries) :
              TermAt(Before(log, index) \o entries, index - 1 + j) = entries[j].Term
  <1> DEFINE n == index - First(log)
             b == Before(log, index)
             s == b \o entries
  <1>1. n \in 1 .. Len(log) /\ Len(log) \in Nat /\ First(log) \in Nat /\ index \in Nat
    BY LogShape
  <1>2. /\ b \in Seq(Entry)
        /\ Len(b) = n
        /\ \A k \in 1 .. n : b[k] = log[k]
    <2>1. \A k \in 1 .. n : log[k] \in Entry
      BY <1>1, LogShape
    <2> HIDE DEF n
    <2>2. /\ SubSeq(log, 1, n) \in Seq(Entry)
          /\ Len(SubSeq(log, 1, n)) = IF 1 <= n THEN n - 1 + 1 ELSE 0
          /\ \A k \in 1 .. n - 1 + 1 : SubSeq(log, 1, n)[k] = log[1 + k - 1]
      BY <1>1, <2>1, SubSeqProperties
    <2> QED
      BY <1>1, <2>2 DEF Before, n
  <1>3. entries \in Seq(Entry) /\ Len(entries) \in Nat
        /\ \A k \in 1 .. Len(entries) : entries[k].Index = index - 1 + k
    BY LenProperties DEF Follow
  <1>4. /\ s \in Seq(Entry)
        /\ Len(s) = n + Len(entries)
        /\ \A k \in 1 .. n + Len(entries) : s[k] = IF k <= n THEN b[k] ELSE entries[k - n]
    <2> HIDE DEF n, b
    <2> QED
      BY <1>2, <1>3, ConcatProperties
  <1>5. \A k \in 1 .. Len(s) : s[k].Index = First(log) + k - 1
    <2> TAKE k \in 1 .. Len(s)
    <2>1. CASE k <= n
      <3>1. s[k] = log[k] /\ k \in 1 .. Len(log)
        BY <1>1, <1>2, <1>3, <1>4, <2>1
      <3> QED
        BY <3>1, LogShape
    <2>2. CASE k > n
      <3>1. s[k] = entries[k - n] /\ k - n \in 1 .. Len(entries)
        BY <1>1, <1>3, <1>4, <2>2
      <3>2. s[k].Index = index - 1 + (k - n)
        BY <3>1, <1>3
      <3> QED
        BY <3>2, <1>1, <1>3, <1>4
    <2>3. k \in Int /\ n \in Int
      BY <1>1, <1>3, <1>4
    <2> QED
      BY <2>1, <2>2, <2>3
  <1>6. Len(s) \in Nat \ {0} /\ s # << >>
    BY <1>1, <1>3, <1>4, EmptySeq
  <1>7. First(s) = First(log)
    BY <1>1, <1>5, <1>6 DEF First, getFirstLog
  <1>8. IsLog(s)
    BY <1>1, <1>4, <1>5, <1>6, <1>7 DEF IsLog, Follow
  <1>9. Last(s) = index - 1 + Len(entries)
    <2>1. Last(s) = First(s) + Len(s) - 1
      BY <1>8, LogShape
    <2> QED
      BY <1>1, <1>3, <1>4, <1>7, <2>1
  <1>10. ASSUME NEW k \in First(log) .. index - 1
         PROVE  TermAt(s, k) = TermAt(log, k)
    <2>1. k - First(log) + 1 \in 1 .. n
      BY <1>1
    <2>2. s[k - First(log) + 1] = log[k - First(log) + 1]
      BY <1>1, <1>2, <1>3, <1>4, <2>1
    <2> HIDE DEF s
    <2> QED
      BY <1>7, <2>2 DEF TermAt, EntryAt
  <1>11. ASSUME NEW j \in 1 .. Len(entries)
         PROVE  TermAt(s, index - 1 + j) = entries[j].Term
    <2>1. j \in Nat \ {0} /\ j <= Len(entries)
      BY <1>3
    <2>2. (index - 1 + j) - First(s) + 1 = n + j
      <3> HIDE DEF s
      <3> QED
        BY <1>1, <1>7, <2>1
    <2>3. n \in Nat /\ n \in 1 .. Len(log)
      BY <1>1
    <2> HIDE DEF n, b
    <2>4. n + j \in 1 .. n + Len(entries) /\ ~(n + j <= n) /\ (n + j) - n = j
      BY <1>3, <2>1, <2>3
    <2>5. s[n + j] = entries[j]
      BY <1>4, <2>4
    <2> HIDE DEF s
    <2> QED
      BY <2>2, <2>5 DEF TermAt, EntryAt
  <1> QED
    BY <1>7, <1>8, <1>9, <1>10, <1>11

(* AppendEntries' merge of a request that matched at prev.                 *)
LEMMA MergeIsLog ==
  ASSUME NEW log, IsLog(log), NEW prev \in First(log) .. Last(log),
         NEW entries, Follow(entries, prev),
         NEW k \in FirstLacking(log, entries)
  PROVE  IsLog(Merge(log, entries, k)) /\ First(Merge(log, entries, k)) = First(log)
  <1>1. entries \in Seq(Entry) /\ Len(entries) \in Nat
        /\ \A j \in 1 .. Len(entries) : entries[j].Index = prev + j
    BY LenProperties DEF Follow
  <1>2. First(log) \in Nat /\ Last(log) \in Nat /\ prev \in Nat
    BY LogShape
  <1>3. /\ k \in 1 .. Len(entries) + 1
        /\ \A j \in 1 .. k - 1 : ~Lacks(log, entries[j])
    BY DEF FirstLacking
  <1>4. CASE k > Len(entries)
    BY <1>4 DEF Merge
  <1>5. CASE k <= Len(entries)
    <2> DEFINE index == entries[k].Index
               rest  == SubSeq(entries, k, Len(entries))
    <2>1. index = prev + k /\ k \in Nat \ {0}
      BY <1>1, <1>3, <1>5
    <2>2. index \in First(log) + 1 .. Last(log) + 1
      <3>1. CASE k = 1
        BY <1>2, <2>1, <3>1
      <3>2. CASE k > 1
        <4>1. k - 1 \in 1 .. k - 1 /\ k - 1 \in 1 .. Len(entries)
          BY <1>1, <1>3, <1>5, <3>2
        <4>2. ~Lacks(log, entries[k - 1]) /\ entries[k - 1].Index = prev + (k - 1)
          BY <1>1, <1>3, <4>1
        <4>3. ~(prev + (k - 1) > Last(log))
          BY <4>2 DEF Lacks
        <4> QED
          BY <1>2, <2>1, <4>3
      <3> QED
        BY <2>1, <3>1, <3>2
    <2>3. Follow(rest, index - 1)
      <3>1. \A j \in k .. Len(entries) : entries[j] \in Entry
        BY <1>1, <1>3, ElementOfSeq
      <3>2. /\ rest \in Seq(Entry)
            /\ Len(rest) = Len(entries) - k + 1
            /\ \A j \in 1 .. Len(entries) - k + 1 : rest[j] = entries[k + j - 1]
        BY <1>1, <1>3, <1>5, <3>1, SubSeqProperties
      <3>3. \A j \in 1 .. Len(rest) : rest[j].Index = index - 1 + j
        <4> TAKE j \in 1 .. Len(rest)
        <4>1. rest[j] = entries[k + j - 1] /\ k + j - 1 \in 1 .. Len(entries)
          BY <1>1, <1>3, <3>2
        <4>2. rest[j].Index = prev + (k + j - 1)
          BY <1>1, <4>1
        <4>3. j \in Int
          BY <1>1, <1>3, <3>2
        <4> HIDE DEF rest, index
        <4> QED
          BY <1>2, <2>1, <4>2, <4>3
      <3> QED
        BY <3>2, <3>3 DEF Follow
    <2>4. IsLog(Before(log, index) \o rest) /\ First(Before(log, index) \o rest) = First(log)
      BY <2>2, <2>3, AppendedIsLog
    <2> QED
      BY <1>1, <1>3, <1>5, <2>4 DEF Merge
  <1> QED
    BY <1>1, <1>3, <1>4, <1>5

(* What the merged log holds: the log up to prev, the request's entries    *)
(* above, and of the log above prev what no entry contradicts.             *)
LEMMA MergeTerms ==
  ASSUME NEW log, IsLog(log), NEW prev \in First(log) .. Last(log),
         NEW entries, Follow(entries, prev),
         NEW k \in FirstLacking(log, entries),
         NEW merged, merged = Merge(log, entries, k)
  PROVE  /\ prev + Len(entries) <= Last(merged)
         /\ merged = log \/ Last(merged) = prev + Len(entries)
         /\ \A l \in First(log) .. prev : TermAt(merged, l) = TermAt(log, l)
         /\ \A j \in 1 .. Len(entries) : TermAt(merged, prev + j) = entries[j].Term
         /\ \A l \in First(log) .. Last(log) :
              (\A j \in 1 .. Len(entries) :
                 prev + j <= l => TermAt(log, prev + j) = entries[j].Term)
              => l <= Last(merged) /\ TermAt(merged, l) = TermAt(log, l)
  <1>1. entries \in Seq(Entry) /\ Len(entries) \in Nat
        /\ \A j \in 1 .. Len(entries) : entries[j].Index = prev + j
    BY LenProperties DEF Follow
  <1>2. First(log) \in Nat /\ Last(log) \in Nat /\ prev \in Nat
    BY LogShape
  <1>3. /\ k \in 1 .. Len(entries) + 1
        /\ \A j \in 1 .. k - 1 : ~Lacks(log, entries[j])
        /\ k <= Len(entries) => Lacks(log, entries[k])
    BY DEF FirstLacking
  <1>4. \A j \in 1 .. k - 1 : /\ j \in 1 .. Len(entries)
                              /\ prev + j <= Last(log)
                              /\ TermAt(log, prev + j) = entries[j].Term
    <2> TAKE j \in 1 .. k - 1
    <2>1. j \in 1 .. Len(entries) /\ j \in Nat
      BY <1>1, <1>3
    <2>2. ~Lacks(log, entries[j]) /\ entries[j].Index = prev + j
      BY <1>1, <1>3, <2>1
    <2> QED
      BY <1>2, <2>1, <2>2 DEF Lacks
  <1>5. CASE k > Len(entries)
    <2>1. merged = log
      BY <1>5 DEF Merge
    <2>2. k = Len(entries) + 1
      BY <1>1, <1>3, <1>5
    <2>3. \A j \in 1 .. Len(entries) : prev + j <= Last(log)
                                       /\ TermAt(log, prev + j) = entries[j].Term
      BY <1>1, <1>4, <2>2
    <2>4. prev + Len(entries) <= Last(log)
      <3>1. CASE Len(entries) = 0
        BY <1>2, <3>1
      <3>2. CASE Len(entries) # 0
        <4>1. Len(entries) \in 1 .. Len(entries)
          BY <1>1, <3>2
        <4> QED
          BY <2>3, <4>1
      <3> QED
        BY <3>1, <3>2
    <2> QED
      BY <2>1, <2>3, <2>4
  <1>6. CASE k <= Len(entries)
    <2> DEFINE index == entries[k].Index
               rest  == SubSeq(entries, k, Len(entries))
    <2>1. index = prev + k /\ k \in Nat \ {0}
      BY <1>1, <1>3, <1>6
    <2>2. index \in First(log) + 1 .. Last(log) + 1
      <3>1. CASE k = 1
        BY <1>2, <2>1, <3>1
      <3>2. CASE k > 1
        <4>1. k - 1 \in 1 .. k - 1
          BY <1>1, <1>3, <3>2
        <4>2. prev + (k - 1) <= Last(log)
          BY <1>4, <4>1
        <4> QED
          BY <1>2, <2>1, <4>2
      <3> QED
        BY <2>1, <3>1, <3>2
    <2>3. /\ rest \in Seq(Entry)
          /\ Len(rest) = Len(entries) - k + 1
          /\ \A j \in 1 .. Len(entries) - k + 1 : rest[j] = entries[k + j - 1]
      <3>1. \A j \in k .. Len(entries) : entries[j] \in Entry
        BY <1>1, <1>3, ElementOfSeq
      <3> QED
        BY <1>1, <1>3, <1>6, <3>1, SubSeqProperties
    <2>4. Follow(rest, index - 1)
      <3>1. \A j \in 1 .. Len(rest) : rest[j].Index = index - 1 + j
        <4> TAKE j \in 1 .. Len(rest)
        <4>1. rest[j] = entries[k + j - 1] /\ k + j - 1 \in 1 .. Len(entries)
          BY <1>1, <1>3, <2>3
        <4>2. rest[j].Index = prev + (k + j - 1)
          BY <1>1, <4>1
        <4>3. j \in Int
          BY <1>1, <1>3, <2>3
        <4> HIDE DEF rest, index
        <4> QED
          BY <1>2, <2>1, <4>2, <4>3
      <3> QED
        BY <2>3, <3>1 DEF Follow
    <2>5. merged = Before(log, index) \o rest
      BY <1>1, <1>3, <1>6 DEF Merge
    <2> HIDE DEF rest
    <2>6. /\ Last(merged) = index - 1 + Len(rest)
          /\ \A l \in First(log) .. index - 1 : TermAt(merged, l) = TermAt(log, l)
          /\ \A j \in 1 .. Len(rest) : TermAt(merged, index - 1 + j) = rest[j].Term
      BY <2>2, <2>4, <2>5, AppendedIsLog
    <2> HIDE DEF index
    <2>7. Last(merged) = prev + Len(entries)
      BY <1>1, <1>2, <2>1, <2>3, <2>6
    <2>8. ASSUME NEW l \in First(log) .. prev
          PROVE  TermAt(merged, l) = TermAt(log, l)
      BY <1>2, <2>1, <2>6
    <2>9. ASSUME NEW j \in 1 .. Len(entries)
          PROVE  TermAt(merged, prev + j) = entries[j].Term
      <3>1. CASE j < k
        <4>1. j \in 1 .. k - 1 /\ prev + j \in First(log) .. index - 1
          BY <1>1, <1>2, <2>1, <3>1
        <4> QED
          BY <1>4, <2>6, <4>1
      <3>2. CASE j >= k
        <4>1. j - k + 1 \in 1 .. Len(rest) /\ index - 1 + (j - k + 1) = prev + j
              /\ k + (j - k + 1) - 1 = j
          BY <1>1, <1>2, <2>1, <2>3, <3>2
        <4> QED
          BY <2>3, <2>6, <4>1
      <3> QED
        BY <1>1, <2>1, <3>1, <3>2
    <2>10. ASSUME NEW l \in First(log) .. Last(log),
                  \A j \in 1 .. Len(entries) :
                     prev + j <= l => TermAt(log, prev + j) = entries[j].Term
           PROVE  l <= Last(merged) /\ TermAt(merged, l) = TermAt(log, l)
      <3>1. l < index
        <4> SUFFICES ASSUME l >= index PROVE FALSE
          BY <1>2, <2>1
        <4>1. k \in 1 .. Len(entries) /\ prev + k <= l
          BY <1>1, <1>3, <1>6, <2>1
        <4>2. TermAt(log, prev + k) = entries[k].Term /\ prev + k <= Last(log)
          BY <1>2, <2>10, <4>1
        <4>3. Lacks(log, entries[k]) /\ entries[k].Index = prev + k
          BY <1>1, <1>3, <1>6, <4>1
        <4> QED
          BY <1>2, <2>1, <4>2, <4>3 DEF Lacks
      <3> QED
        BY <1>1, <1>2, <1>6, <2>1, <2>6, <2>7, <3>1
    <2> QED
      BY <2>7, <2>8, <2>9, <2>10
  <1> QED
    BY <1>1, <1>3, <1>5, <1>6

(* Start's new entry.                                                      *)
LEMMA AppendIsLog ==
  ASSUME NEW log, IsLog(log), NEW term \in Nat
  PROVE  LET new == Append(log, [Index |-> Last(log) + 1, Term |-> term])
         IN  /\ IsLog(new) /\ First(new) = First(log) /\ Last(new) = Last(log) + 1
             /\ \A k \in First(log) .. Last(log) : TermAt(new, k) = TermAt(log, k)
             /\ TermAt(new, Last(log) + 1) = term
  <1> DEFINE e == [Index |-> Last(log) + 1, Term |-> term]
             new == Append(log, e)
  <1>1. log \in Seq(Entry) /\ Len(log) \in Nat \ {0}
        /\ First(log) \in Nat /\ Last(log) = First(log) + Len(log) - 1
        /\ \A k \in 1 .. Len(log) : log[k].Index = First(log) + k - 1
    BY LogShape
  <1>2. e \in Entry
    BY <1>1 DEF Entry
  <1>3. /\ new \in Seq(Entry)
        /\ Len(new) = Len(log) + 1
        /\ \A k \in 1 .. Len(log) : new[k] = log[k]
        /\ new[Len(log) + 1] = e
    BY <1>1, <1>2, AppendProperties
  <1>4. \A k \in 1 .. Len(new) : new[k].Index = First(log) + k - 1
    <2> TAKE k \in 1 .. Len(new)
    <2>1. CASE k \in 1 .. Len(log)
      BY <1>1, <1>3, <2>1
    <2>2. CASE k = Len(log) + 1
      BY <1>1, <1>3, <2>2
    <2> QED
      BY <1>1, <1>3, <2>1, <2>2
  <1>5. Len(new) \in Nat \ {0} /\ new # << >>
    BY <1>1, <1>3, EmptySeq
  <1>6. First(new) = First(log)
    BY <1>1, <1>4, <1>5 DEF First, getFirstLog
  <1>7. IsLog(new)
    BY <1>1, <1>3, <1>4, <1>5, <1>6 DEF IsLog, Follow
  <1>8. Last(new) = First(new) + Len(new) - 1
    BY <1>7, LogShape
  <1>9. ASSUME NEW k \in First(log) .. Last(log)
        PROVE  TermAt(new, k) = TermAt(log, k)
    <2>1. k - First(log) + 1 \in 1 .. Len(log)
      BY <1>1
    <2> HIDE DEF new
    <2> QED
      BY <1>3, <1>6, <2>1 DEF TermAt, EntryAt
  <1>10. TermAt(new, Last(log) + 1) = term
    <2>1. PICK l : l = Last(log) + 1
      OBVIOUS
    <2>2. l - First(new) + 1 = Len(log) + 1
      <3> HIDE DEF new
      <3> QED
        BY <1>1, <1>6, <2>1
    <2>3. EntryAt(new, l) = new[Len(log) + 1]
      <3> HIDE DEF new
      <3> QED
        BY <2>2 DEF EntryAt
    <2>4. TermAt(new, l) = e.Term
      <3> HIDE DEF new, e
      <3> QED
        BY <1>3, <2>3 DEF TermAt
    <2>5. TermAt(new, l) = term
      BY <2>4, Zenon
    <2> HIDE DEF new
    <2> QED
      BY <2>1, <2>5
  <1> QED
    BY <1>1, <1>3, <1>6, <1>7, <1>8, <1>9, <1>10

(* A log trimmed to a snapshot begins where the snapshot ends and is no    *)
(* shorter at its end.                                                     *)
LEMMA TrimmedIsLog ==
  ASSUME NEW log, IsLog(log), NEW term \in Nat, NEW index \in Nat,
         index >= First(log)
  PROVE  /\ IsLog(Trimmed(log, index, term))
         /\ First(Trimmed(log, index, term)) = index
         /\ Last(Trimmed(log, index, term)) = IF index > Last(log) THEN index ELSE Last(log)
         /\ TermAt(Trimmed(log, index, term), index) = term
         /\ \A k \in index + 1 .. Last(log) :
              TermAt(Trimmed(log, index, term), k) = TermAt(log, k)
  <1> DEFINE p == [Index |-> index, Term |-> term]
             single == <<p>>
  <1>1. p \in Entry
    BY DEF Entry
  <1>2. single \in Seq(Entry) /\ Len(single) = 1 /\ single[1] = p /\ single # << >>
    BY <1>1
  <1>3. IsLog(single) /\ First(single) = index /\ Last(single) = index
    BY <1>2 DEF IsLog, Follow, First, Last, getFirstLog, getLastLog
  <1>0. TermAt(single, index) = term
    <2>1. index - First(single) + 1 = 1 /\ p.Term = term
      BY <1>3
    <2> HIDE DEF single, p
    <2> QED
      BY <1>2, <2>1 DEF TermAt, EntryAt
  <1>4. CASE index > Last(log)
    <2>1. Last(log) \in Nat
      BY LogEnds
    <2> QED
      BY <1>0, <1>3, <1>4, <2>1 DEF Trimmed
  <1>5. CASE ~(index > Last(log))
    <2> DEFINE rest == From(log, index + 1)
    <2>1. First(log) \in Nat /\ Last(log) \in Nat
      BY LogShape
    <2>2. Follow(rest, index) /\ Len(rest) = Last(log) - index
      <3>1. index + 1 \in First(log) .. Last(log) + 1
        BY <2>1, <1>5
      <3>2. Follow(rest, index + 1 - 1) /\ Len(rest) = Last(log) + 1 - (index + 1)
        BY <3>1, FromFollows
      <3> QED
        BY <2>1, <3>2
    <2>3. Before(single, index + 1) = single
      <3>1. (index + 1) - First(single) = 1
        BY <1>3
      <3> QED
        <4>1. SubSeq(single, 1, Len(single)) = single
          BY <1>2, SubSeqFull
        <4>2. Before(single, index + 1) = SubSeq(single, 1, (index + 1) - First(single))
          <5> HIDE DEF single
          <5> QED
            BY DEF Before
        <4>3. Before(single, index + 1) = SubSeq(single, 1, 1)
          <5> HIDE DEF single
          <5> QED
            BY <3>1, <4>2
        <4> QED
          BY <1>2, <4>1, <4>3
    <2>4. index + 1 \in First(single) + 1 .. Last(single) + 1 /\ index + 1 - 1 = index
      BY <1>3
    <2>5. IsLog(single \o rest) /\ First(single \o rest) = index
          /\ Last(single \o rest) = index + Len(rest)
          /\ \A k \in index .. index : TermAt(single \o rest, k) = TermAt(single, k)
          /\ \A j \in 1 .. Len(rest) : TermAt(single \o rest, index + j) = rest[j].Term
      BY <1>3, <2>2, <2>3, <2>4, AppendedIsLog
    <2>6. TermAt(single \o rest, index) = term
      BY <1>0, <2>5
    <2>7. ASSUME NEW k \in index + 1 .. Last(log)
          PROVE  TermAt(single \o rest, k) = TermAt(log, k)
      <3>1. k - index \in 1 .. Len(rest) /\ index + (k - index) = k
            /\ index + 1 \in First(log) .. Last(log) + 1
            /\ (index + 1) + (k - index) - 1 = k
        BY <1>5, <2>1, <2>2
      <3>2. rest[k - index] = EntryAt(log, (index + 1) + (k - index) - 1)
        BY <3>1, FromFollows
      <3>3. TermAt(single \o rest, index + (k - index)) = rest[k - index].Term
        BY <2>5, <3>1
      <3> HIDE DEF single, rest
      <3> QED
        BY <3>1, <3>2, <3>3 DEF TermAt
    <2>8. Trimmed(log, index, term) = single \o rest
      BY <1>5 DEF Trimmed
    <2> HIDE DEF single, rest
    <2> QED
      BY <1>5, <2>1, <2>2, <2>5, <2>6, <2>7, <2>8
  <1> QED
    BY <1>4, <1>5

=============================================================================
