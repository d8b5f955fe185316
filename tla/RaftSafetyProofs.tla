-------------------------- MODULE RaftSafetyProofs --------------------------
(***************************************************************************)
(* The safety of Raft, for every set of peers and every bound, with        *)
(* messages lost, late and repeated, snapshots, and crashes that take no   *)
(* unsaved entry.  The invariant is HistoryInv: an entry that a majority   *)
(* may have acknowledged is in the log of every later leader, because the  *)
(* votes of that leader's majority say so.                                 *)
(***************************************************************************)
EXTENDS RaftHistory, RaftProofs

-----------------------------------------------------------------------------
(* What the history of leaders' logs says of two of its entries.           *)

LEMMA LedFacts ==
  ASSUME LedInv, NEW u \in Nat, NEW k \in Nat, NEW t \in Nat, Led(u, k, t)
  PROVE  t <= u /\ Elected(u) /\ Elected(t) /\ Led(t, k, t)
  BY DEF LedInv

LEMMA LedBelow ==
  ASSUME LedInv, NEW u \in Nat, NEW k \in Nat, NEW t \in Nat, Led(u, k, t),
         NEW l \in Nat, NEW x \in Nat, l <= k
  PROVE  /\ Led(u, l, x) <=> Led(t, l, x)
         /\ Led(u, l, x) => x <= t
  BY DEF LedInv

LEMMA LedOnce ==
  ASSUME LedInv, NEW u \in Nat, NEW k \in Nat, NEW t \in Nat, NEW x \in Nat,
         Led(u, k, t), Led(u, k, x)
  PROVE  t = x
  BY DEF LedInv

LEMMA LedTypes ==
  ASSUME LedInv, NEW u, NEW k, NEW t, Led(u, k, t)
  PROVE  u \in Nat /\ k \in Nat /\ t \in Nat
  BY DEF LedInv, Led

(* A chosen entry can still be chosen, and every leader from its term on   *)
(* has it.                                                                 *)
LEMMA ChosenIsChoosable ==
  ASSUME ChosenInv, NEW n \in Nat, NEW w \in Nat, <<n, w>> \in chosen
  PROVE  Choosable(n, w) /\ Led(w, n, w)
  <1> DEFINE A == { p \in Server : Acked(p, n, w) }
             B == { p \in Server : Acked(p, n, w) \/ currentTerm[p] <= w }
  <1>1. Majority(A) /\ Led(w, n, w)
    BY DEF ChosenInv
  <1>2. A \subseteq B /\ B \subseteq Server
    OBVIOUS
  <1>3. Majority(B)
    <2> HIDE DEF A, B
    <2> QED
      BY <1>1, <1>2, Larger
  <1> QED
    BY <1>1, <1>3 DEF Choosable

LEMMA ChosenLed ==
  ASSUME LedInv, ChosenInv, SafeInv, NEW n \in Nat, NEW w \in Nat, NEW u \in Nat,
         <<n, w>> \in chosen, Elected(u), w <= u
  PROVE  Led(u, n, w)
  <1>1. Choosable(n, w) /\ Led(w, n, w)
    BY ChosenIsChoosable
  <1>2. CASE w < u
    BY <1>1, <1>2 DEF SafeInv
  <1> QED
    BY <1>1, <1>2

LEMMA CommittedLed ==
  ASSUME LedInv, ChosenInv, SafeInv, NEW k \in Nat, NEW t \in Nat, NEW v \in Nat,
         CommittedIn(k, t, v), NEW u \in Nat, Elected(u), v <= u
  PROVE  Led(u, k, t)
  <1>1. PICK n \in Nat, w \in Nat : <<n, w>> \in chosen /\ w <= v /\ k <= n /\ Led(w, k, t)
    BY DEF CommittedIn
  <1>2. Led(u, n, w)
    BY <1>1, ChosenLed
  <1> QED
    BY <1>1, <1>2, LedBelow

(* A committed entry and one that may be chosen are in one log.            *)
LEMMA Comparable ==
  ASSUME LedInv, ChosenInv, SafeInv,
         NEW k \in Nat, NEW t \in Nat, Choosable(k, t), Led(t, k, t),
         NEW f \in Nat, NEW tf \in Nat, NEW v \in Nat, CommittedIn(f, tf, v)
  PROVE  /\ k <= f => Led(tf, k, t)
         /\ f <= k => Led(t, f, tf)
         /\ Led(tf, f, tf)
  <1>1. PICK n \in Nat, w \in Nat : <<n, w>> \in chosen /\ w <= v /\ f <= n /\ Led(w, f, tf)
    BY DEF CommittedIn
  <1>2. Elected(t) /\ Elected(w) /\ Led(tf, f, tf)
    BY <1>1, LedFacts
  <1>3. Led(w, n, w)
    BY <1>1, ChosenIsChoosable
  <1>4. CASE w < t
    <2>1. Led(t, n, w)
      BY <1>1, <1>2, <1>4, ChosenLed
    <2>2. ~(k <= n)
      BY <1>4, <2>1, LedBelow
    <2>3. Led(t, f, tf)
      BY <1>1, <2>1, LedBelow
    <2> QED
      BY <1>1, <1>2, <2>2, <2>3
  <1>5. CASE w = t
    BY <1>1, <1>2, <1>5, LedBelow
  <1>6. CASE t < w
    <2>1. Led(w, k, t)
      BY <1>2, <1>6 DEF SafeInv
    <2> QED
      BY <1>1, <1>2, <2>1, LedBelow
  <1> QED
    BY <1>4, <1>5, <1>6

(* Two committed entries of one index are one.                             *)
LEMMA CommittedOnce ==
  ASSUME LedInv, ChosenInv, SafeInv, NEW k \in Nat, NEW t \in Nat, NEW x \in Nat,
         NEW v \in Nat, NEW w \in Nat, CommittedIn(k, t, v), CommittedIn(k, x, w)
  PROVE  t = x
  <1>1. PICK n1 \in Nat, w1 \in Nat : <<n1, w1>> \in chosen /\ k <= n1 /\ Led(w1, k, t)
    BY DEF CommittedIn
  <1>2. PICK n2 \in Nat, w2 \in Nat : <<n2, w2>> \in chosen /\ k <= n2 /\ Led(w2, k, x)
    BY DEF CommittedIn
  <1>3. Elected(w1) /\ Elected(w2)
    BY <1>1, <1>2, LedFacts
  <1>4. CASE w1 <= w2
    <2>1. Led(w2, n1, w1)
      BY <1>1, <1>3, <1>4, ChosenLed
    <2>2. Led(w2, k, t)
      BY <1>1, <2>1, LedBelow
    <2> QED
      BY <1>2, <2>2, LedOnce
  <1>5. CASE w2 <= w1
    <2>1. Led(w1, n2, w2)
      BY <1>2, <1>3, <1>5, ChosenLed
    <2>2. Led(w1, k, x)
      BY <1>2, <2>1, LedBelow
    <2> QED
      BY <1>1, <2>2, LedOnce
  <1> QED
    BY <1>4, <1>5

(* Of two committed entries the one below is in the log of every leader    *)
(* that appended, or took over, the one above.                             *)
LEMMA CommittedBelow ==
  ASSUME LedInv, ChosenInv, SafeInv,
         NEW f \in Nat, NEW tf \in Nat, NEW v \in Nat, CommittedIn(f, tf, v),
         NEW s \in Nat, NEW ts \in Nat, NEW v2 \in Nat, CommittedIn(s, ts, v2), f <= s
  PROVE  Led(ts, f, tf) /\ tf <= ts
  <1>1. PICK n \in Nat, w \in Nat : <<n, w>> \in chosen /\ w <= v2 /\ s <= n /\ Led(w, s, ts)
    BY DEF CommittedIn
  <1>2. Choosable(n, w) /\ Led(w, n, w)
    BY <1>1, ChosenIsChoosable
  <1>3. Led(w, f, tf)
    BY <1>1, <1>2, Comparable
  <1>4. Led(ts, f, tf)
    BY <1>1, <1>3, LedBelow
  <1> QED
    BY <1>4, LedFacts

-----------------------------------------------------------------------------
(* Logs and the history.                                                   *)

LEMMA LogTerms ==
  ASSUME NEW log, IsLog(log)
  PROVE  /\ First(log) \in Nat /\ Last(log) \in Nat /\ First(log) <= Last(log)
         /\ \A k \in First(log) .. Last(log) : k \in Nat /\ TermAt(log, k) \in Nat
  BY LogEnds, TermInLog

LEMMA SoundTerms ==
  ASSUME LedInv, NEW log, IsLog(log), Sound(log),
         NEW k \in First(log) .. Last(log), NEW l \in First(log) .. k
  PROVE  /\ Led(TermAt(log, k), l, TermAt(log, l))
         /\ Led(TermAt(log, k), k, TermAt(log, k))
         /\ TermAt(log, l) <= TermAt(log, k)
         /\ Elected(TermAt(log, k))
  <1>1. l \in First(log) .. Last(log) /\ k \in First(log) .. k /\ k \in Nat /\ l \in Nat
        /\ TermAt(log, k) \in Nat /\ TermAt(log, l) \in Nat
    BY LogTerms
  <1>2. Led(TermAt(log, k), l, TermAt(log, l)) /\ Led(TermAt(log, k), k, TermAt(log, k))
    BY <1>1 DEF Sound
  <1> QED
    BY <1>1, <1>2, LedFacts

(* A log without junk that holds an entry does not end with an older one.  *)
LEMMA SoundKeeps ==
  ASSUME LedInv, NEW log, IsLog(log), Sound(log), NEW k \in Nat, NEW t \in Nat,
         matchLog(log, t, k)
  PROVE  Keeps(log, k, t) /\ Led(t, k, t)
  <1>1. k \in First(log) .. Last(log) /\ TermAt(log, k) = t
        /\ Last(log) \in First(log) .. Last(log) /\ k \in First(log) .. Last(log)
    BY LogTerms DEF matchLog
  <1>2. Led(t, k, t) /\ t <= TermAt(log, Last(log))
    BY <1>1, SoundTerms
  <1> QED
    BY <1>2 DEF Keeps

(* What junk is not: an entry that may be chosen, or was committed.        *)
LEMMA NotJunk ==
  ASSUME LedInv, ChosenInv, SafeInv, NEW log, IsLog(log), NEW v \in Nat, Junk(log, v),
         NEW v1 \in Nat, CommittedIn(First(log), TermAt(log, First(log)), v1),
         NEW k \in First(log) + 1 .. Last(log)
  PROVE  /\ ~Choosable(k, TermAt(log, k))
         /\ \A v2 \in Nat : ~CommittedIn(k, TermAt(log, k), v2)
  <1> DEFINE f == First(log)
             tf == TermAt(log, f)
             t == TermAt(log, k)
  <1>1. f \in Nat /\ tf \in Nat /\ k \in Nat /\ t \in Nat /\ f <= k
    <2>1. f \in f .. Last(log) /\ k \in f .. Last(log)
      BY LogTerms
    <2> QED
      BY <2>1, LogTerms
  <1>2. Led(t, k, t) /\ ~Led(t, f, tf)
    BY DEF Junk
  <1> HIDE DEF f, tf, t
  <1>3. CommittedIn(f, tf, v1)
    BY DEF f, tf
  <1>4. ~Choosable(k, t)
    BY <1>1, <1>2, <1>3, Comparable
  <1>5. \A v2 \in Nat : ~CommittedIn(k, t, v2)
    BY <1>1, <1>2, <1>3, CommittedBelow
  <1> QED
    BY <1>4, <1>5 DEF t

(* A log that ends as late as an entry that may be chosen holds it, or a   *)
(* snapshot of it: what isLogUpToDate rests on.                            *)
LEMMA LastKeeps ==
  ASSUME LedInv, ChosenInv, SafeInv, NEW log, IsLog(log), NEW v \in Nat,
         Sound(log) \/ Junk(log, v),
         NEW k \in Nat, NEW t \in Nat, Choosable(k, t), Led(t, k, t),
         \/ t < TermAt(log, Last(log))
         \/ t = TermAt(log, Last(log)) /\ k <= Last(log)
  PROVE  Keeps(log, k, t)
  <1> DEFINE f == First(log)
             n == Last(log)
             tn == TermAt(log, n)
             tf == TermAt(log, f)
  <1>1. /\ f \in Nat /\ n \in Nat /\ f <= n /\ n \in f .. n /\ f \in f .. n
        /\ \A l \in f .. n : l \in Nat /\ TermAt(log, l) \in Nat
    BY LogTerms
  <1>2. tn \in Nat /\ tf \in Nat /\ (t < tn \/ (t = tn /\ k <= n))
    BY <1>1
  <1>3. CASE Sound(log)
    <2>1. Led(tn, n, tn) /\ Elected(tn)
      BY <1>1, <1>3, SoundTerms
    <2> HIDE DEF f, n, tn, tf
    <2>2. Led(tn, k, t)
      BY <1>2, <2>1 DEF SafeInv
    <2>3. k <= n
      <3> SUFFICES ASSUME n < k PROVE FALSE
        BY <1>1, <1>2
      <3>1. tn <= t
        BY <1>1, <1>2, <2>1, <2>2, LedBelow
      <3> QED
        BY <1>1, <1>2, <3>1
    <2>4. CASE k < f
      BY <2>4 DEF Keeps, f
    <2>5. CASE k >= f
      <3>1. k \in f .. n
        BY <1>1, <2>3, <2>5
      <3>2. Led(tn, k, TermAt(log, k)) /\ TermAt(log, k) \in Nat
        BY <1>1, <1>3, <3>1, SoundTerms DEF f, n, tn
      <3>3. TermAt(log, k) = t
        BY <1>2, <2>2, <3>2, LedOnce
      <3> QED
        BY <1>2, <2>3, <2>5, <3>3 DEF Keeps, matchLog, f, n, tn
    <2> QED
      BY <1>1, <2>4, <2>5
  <1>4. CASE Junk(log, v)
    <2>1. f < n /\ n \in f + 1 .. n
      BY <1>1, <1>4 DEF Junk
    <2>2. Led(tn, n, tn) /\ ~Led(tn, f, tf)
      BY <1>4, <2>1 DEF Junk
    <2>3. PICK c \in Nat, w \in Nat : /\ <<c, w>> \in chosen /\ w <= v /\ f <= c
                                     /\ Led(w, f, tf) /\ tn < w
      BY <1>4, <2>1 DEF Junk
    <2> HIDE DEF f, n, tn, tf
    <2>4. Elected(tn) /\ Elected(w)
      BY <1>1, <1>2, <2>2, <2>3, LedFacts
    <2>5. Led(w, k, t)
      BY <1>2, <2>3, <2>4 DEF SafeInv
    <2>6. Led(tn, k, t)
      BY <1>2, <2>4 DEF SafeInv
    <2>7. k < f
      <3> SUFFICES ASSUME f <= k PROVE FALSE
        BY <1>1
      <3>1. Led(t, f, tf)
        BY <1>1, <1>2, <2>3, <2>5, LedBelow
      <3>2. Led(tn, f, tf)
        BY <1>1, <1>2, <2>6, <3>1, LedBelow
      <3> QED
        BY <2>2, <3>2
    <2> QED
      BY <2>7 DEF Keeps, f
  <1> QED
    BY <1>3, <1>4

-----------------------------------------------------------------------------
(* The ways a log changes, and that it keeps what may be chosen.           *)

KeepsOn(log, new) ==
  \A k, t \in Nat : Choosable(k, t) /\ Led(t, k, t) /\ Keeps(log, k, t) =>
    Keeps(new, k, t) /\ (t <= TermAt(log, Last(log)) => t <= TermAt(new, Last(new)))

(* Snapshot: the log is cut at an entry that was committed.                *)
LEMMA CutKeeps ==
  ASSUME LedInv, ChosenInv, SafeInv, NEW log, IsLog(log), NEW v \in Nat,
         Sound(log) \/ Junk(log, v),
         CommittedIn(First(log), TermAt(log, First(log)), v),
         NEW s \in First(log) + 1 .. Last(log), CommittedIn(s, TermAt(log, s), v),
         NEW new, new = From(log, s)
  PROVE  Sound(new) /\ KeepsOn(log, new)
  <1>1. Sound(log)
    BY NotJunk
  <1>2. s \in First(log) .. Last(log)
    BY LogTerms
  <1>3. /\ First(new) = s /\ Last(new) = Last(log)
        /\ \A k \in s .. Last(log) : TermAt(new, k) = TermAt(log, k)
    BY <1>2, FromIsLog
  <1>4. /\ First(log) \in Nat /\ Last(log) \in Nat /\ s \in Nat /\ s <= Last(log)
        /\ First(log) < s
    BY <1>2, LogTerms
  <1>5. Sound(new)
    <2> SUFFICES ASSUME NEW k \in s .. Last(log), NEW l \in s .. k
                 PROVE  Led(TermAt(new, k), l, TermAt(new, l))
      BY <1>3 DEF Sound
    <2>1. k \in First(log) .. Last(log) /\ l \in First(log) .. k /\ l \in s .. Last(log)
      BY <1>4
    <2> QED
      BY <1>1, <1>3, <2>1 DEF Sound
  <1>6. TermAt(new, Last(new)) = TermAt(log, Last(log))
    BY <1>3, <1>4
  <1>7. ASSUME NEW k \in Nat, NEW t \in Nat, Keeps(log, k, t)
        PROVE  Keeps(new, k, t)
    <2>1. CASE k < s
      BY <1>3, <2>1 DEF Keeps
    <2>2. CASE k >= s
      <3>1. matchLog(log, t, k) /\ t <= TermAt(log, Last(log))
        BY <1>4, <1>7, <2>2 DEF Keeps
      <3>2. k \in s .. Last(log)
        BY <1>4, <2>2, <3>1 DEF matchLog
      <3> QED
        BY <1>3, <1>6, <2>2, <3>1, <3>2 DEF Keeps, matchLog
    <2> QED
      BY <1>4, <2>1, <2>2
  <1> QED
    BY <1>5, <1>6, <1>7 DEF KeepsOn

(* CondInstallSnapshot: the entry the snapshot replaces need not be its    *)
(* last entry; then what follows is junk.                                  *)
LEMMA TrimKeeps ==
  ASSUME LedInv, ChosenInv, SafeInv, NEW log, IsLog(log), NEW v \in Nat,
         Sound(log) \/ Junk(log, v),
         CommittedIn(First(log), TermAt(log, First(log)), v),
         NEW s \in Nat, NEW ts \in Nat, First(log) < s, CommittedIn(s, ts, v),
         NEW new, new = Trimmed(log, s, ts)
  PROVE  (Sound(new) \/ Junk(new, v)) /\ KeepsOn(log, new)
  <1> DEFINE f == First(log)
             tf == TermAt(log, f)
             n == Last(log)
  <1>1. /\ f \in Nat /\ n \in Nat /\ f <= n /\ tf \in Nat
        /\ \A l \in f .. n : l \in Nat /\ TermAt(log, l) \in Nat
    BY LogTerms
  <1>2. /\ First(new) = s /\ Last(new) = IF s > n THEN s ELSE n
        /\ TermAt(new, s) = ts
        /\ \A k \in s + 1 .. n : TermAt(new, k) = TermAt(log, k)
    <2>1. s >= First(log)
      BY <1>1
    <2> QED
      BY <2>1, TrimmedIsLog
  <1>3. PICK c \in Nat, w \in Nat : <<c, w>> \in chosen /\ w <= v /\ s <= c /\ Led(w, s, ts)
    BY DEF CommittedIn
  <1>4. Choosable(c, w) /\ Led(w, c, w) /\ Elected(w) /\ Led(ts, s, ts)
    BY <1>3, ChosenIsChoosable, LedFacts
  <1>5. Led(ts, f, tf) /\ tf <= ts
    BY <1>1, CommittedBelow
  <1> HIDE DEF f, n, tf
  <1>6. ASSUME n <= s PROVE Sound(new)
    <2>1. First(new) = s /\ Last(new) = s
      BY <1>1, <1>2, <1>6
    <2> QED
      BY <1>2, <1>4, <2>1 DEF Sound
  <1>7. ASSUME s < n, Sound(log), TermAt(log, s) = ts PROVE Sound(new)
    <2>1. \A k \in s .. n : TermAt(new, k) = TermAt(log, k)
      BY <1>1, <1>2, <1>7
    <2>2. First(new) = s /\ Last(new) = n
      BY <1>1, <1>2, <1>7
    <2> SUFFICES ASSUME NEW k \in s .. n, NEW l \in s .. k
                 PROVE  Led(TermAt(new, k), l, TermAt(new, l))
      BY <2>2 DEF Sound
    <2>3. k \in f .. n /\ l \in f .. k /\ l \in s .. n
      BY <1>1 DEF f
    <2> QED
      BY <1>7, <2>1, <2>3 DEF Sound, f, n
  <1>8. ASSUME s < n, ~(Sound(log) /\ TermAt(log, s) = ts) PROVE Junk(new, v)
    <2>1. First(new) = s /\ Last(new) = n /\ s < n
      BY <1>1, <1>2, <1>8
    <2>2. ASSUME NEW k \in s + 1 .. n
          PROVE  /\ TermAt(new, k) = TermAt(log, k) /\ TermAt(log, k) \in Nat
                 /\ Led(TermAt(log, k), k, TermAt(log, k))
                 /\ ~Led(TermAt(log, k), s, ts)
                 /\ Elected(TermAt(log, k))
      <3> DEFINE u == TermAt(log, k)
      <3>1. k \in f + 1 .. n /\ k \in f .. n /\ s \in f .. k /\ s \in f .. n /\ k \in Nat
        BY <1>1, <2>1 DEF f
      <3>2. u \in Nat /\ TermAt(new, k) = u /\ TermAt(log, s) \in Nat
        BY <1>1, <1>2, <3>1
      <3>3. CASE Sound(log)
        <4>1. Led(u, s, TermAt(log, s)) /\ Led(u, k, u) /\ Elected(u)
          BY <3>1, <3>3, SoundTerms DEF f, n
        <4>2. TermAt(log, s) # ts
          BY <1>8, <3>3
        <4> HIDE DEF u
        <4>3. ~Led(u, s, ts)
          BY <3>2, <4>1, <4>2, LedOnce
        <4> QED
          BY <3>2, <4>1, <4>3 DEF u
      <3>4. CASE Junk(log, v)
        <4>1. Led(u, k, u) /\ ~Led(u, f, tf)
          BY <3>1, <3>4 DEF Junk, f, n, tf
        <4> HIDE DEF u
        <4>2. ASSUME Led(u, s, ts) PROVE FALSE
          <5>1. f <= s
            BY <1>1 DEF f
          <5>2. Led(u, f, tf)
            BY <1>1, <1>5, <3>2, <4>2, <5>1, LedBelow
          <5> QED
            BY <4>1, <5>2
        <4>3. Elected(u)
          BY <3>1, <3>2, <4>1, LedFacts
        <4> QED
          BY <3>2, <4>1, <4>2, <4>3 DEF u
      <3> QED
        BY <3>3, <3>4
    <2>3. ASSUME NEW k \in s + 1 .. n
          PROVE  TermAt(new, k) < w
      <3> DEFINE u == TermAt(log, k)
      <3>1. u \in Nat /\ TermAt(new, k) = u /\ Elected(u) /\ ~Led(u, s, ts)
        BY <2>2
      <3> HIDE DEF u
      <3>2. ASSUME w <= u PROVE FALSE
        <4>1. Led(u, c, w)
          BY <1>3, <3>1, <3>2, ChosenLed
        <4>2. Led(u, s, ts)
          BY <1>3, <3>1, <4>1, LedBelow
        <4> QED
          BY <3>1, <4>2
      <3> QED
        BY <3>1, <3>2
    <2> QED
      BY <1>2, <1>3, <2>1, <2>2, <2>3 DEF Junk
  <1>9. KeepsOn(log, new)
    <2> SUFFICES ASSUME NEW k \in Nat, NEW t \in Nat, Choosable(k, t), Led(t, k, t),
                        Keeps(log, k, t)
                 PROVE  /\ Keeps(new, k, t)
                        /\ t <= TermAt(log, Last(log)) => t <= TermAt(new, Last(new))
      BY DEF KeepsOn
    <2>1. k <= s => t <= ts
      <3>1. k <= s => Led(ts, k, t)
        BY Comparable
      <3> QED
        BY <3>1, LedFacts
    <2>2. s < n => TermAt(new, Last(new)) = TermAt(log, Last(log))
      <3>1. s < n => n \in s + 1 .. n /\ Last(new) = n
        BY <1>1, <1>2
      <3> QED
        BY <1>2, <3>1 DEF n
    <2>3. n <= s => TermAt(new, Last(new)) = ts
      <3>1. n <= s => Last(new) = s
        BY <1>1, <1>2
      <3> QED
        BY <1>2, <3>1
    <2>4. k < f \/ (matchLog(log, t, k) /\ t <= TermAt(log, n))
      BY DEF Keeps, f, n
    <2>5. n <= s => k <= s
      BY <1>1, <2>4 DEF matchLog, n, f
    <2>6. CASE k < s
      <3>1. Keeps(new, k, t)
        BY <1>2, <2>6 DEF Keeps
      <3> QED
        BY <1>1, <2>1, <2>2, <2>3, <2>5, <3>1
    <2>7. CASE k >= s
      <3>1. matchLog(log, t, k) /\ t <= TermAt(log, n) /\ k <= n /\ TermAt(log, k) = t
        BY <1>1, <2>4, <2>7 DEF matchLog, n, f
      <3>2. TermAt(new, k) = t
        <4>1. CASE k = s
          <5>1. Led(t, s, ts)
            BY <4>1, Comparable
          <5> QED
            BY <1>2, <4>1, <5>1, LedOnce
        <4>2. CASE k > s
          <5>1. k \in s + 1 .. n
            BY <1>1, <3>1, <4>2
          <5> QED
            BY <1>2, <3>1, <5>1
        <4> QED
          BY <2>7, <4>1, <4>2
      <3>3. matchLog(new, t, k)
        BY <1>1, <1>2, <2>7, <3>1, <3>2 DEF matchLog
      <3>4. t <= TermAt(new, Last(new))
        BY <1>1, <2>1, <2>2, <2>3, <2>5, <3>1 DEF n
      <3> QED
        BY <3>3, <3>4 DEF Keeps
    <2> QED
      BY <2>6, <2>7
  <1> QED
    BY <1>1, <1>6, <1>7, <1>8, <1>9

(* AppendEntries: what the log takes over is what the leader has up to     *)
(* where the request ends, and nothing that was committed is cut off.      *)
LEMMA MergeKeeps ==
  ASSUME LedInv, ChosenInv, SafeInv, NEW log, IsLog(log), NEW v \in Nat,
         Sound(log) \/ Junk(log, v),
         CommittedIn(First(log), TermAt(log, First(log)), v),
         NEW T \in Nat, v <= T, \A l \in First(log) .. Last(log) : TermAt(log, l) <= T,
         NEW prev \in First(log) .. Last(log), NEW entries, Follow(entries, prev),
         Led(T, prev, TermAt(log, prev)),
         \A j \in 1 .. Len(entries) : Led(T, prev + j, entries[j].Term),
         NEW k0 \in FirstLacking(log, entries),
         NEW merged, merged = Merge(log, entries, k0)
  PROVE  /\ Sound(merged) \/ (merged = log /\ Junk(log, v))
         /\ KeepsOn(log, merged)
         /\ \A l \in First(log) .. prev + Len(entries) : Led(T, l, TermAt(merged, l))
         /\ \A l \in First(log) .. Last(log) : CommittedIn(l, TermAt(log, l), v) =>
              l <= Last(merged) /\ TermAt(merged, l) = TermAt(log, l)
  <1> DEFINE f == First(log)
             tf == TermAt(log, f)
             n == Last(log)
             e == prev + Len(entries)
  <1>1. /\ f \in Nat /\ n \in Nat /\ f <= n /\ tf \in Nat
        /\ \A l \in f .. n : l \in Nat /\ TermAt(log, l) \in Nat
    BY LogTerms
  <1>2. IsLog(merged) /\ First(merged) = f
    BY MergeIsLog
  <1>3. /\ e <= Last(merged) /\ (merged = log \/ Last(merged) = e)
        /\ \A l \in f .. prev : TermAt(merged, l) = TermAt(log, l)
        /\ \A j \in 1 .. Len(entries) : TermAt(merged, prev + j) = entries[j].Term
        /\ \A l \in f .. n :
             (\A j \in 1 .. Len(entries) :
                prev + j <= l => TermAt(log, prev + j) = entries[j].Term)
             => l <= Last(merged) /\ TermAt(merged, l) = TermAt(log, l)
    BY MergeTerms
  <1>4. /\ e \in Nat /\ prev \in Nat /\ prev <= e /\ f <= prev /\ Len(entries) \in Nat
        /\ Last(merged) \in Nat
        /\ \A l \in f .. Last(merged) : l \in Nat /\ TermAt(merged, l) \in Nat
    BY <1>1, <1>2, LogTerms, LenProperties DEF Follow
  <1>5. Elected(T) /\ Led(T, f, tf)
    <2>1. Elected(T)
      BY <1>1, <1>4, LedFacts
    <2> QED
      BY <1>1, <2>1, CommittedLed
  <1>6. Junk(log, v) => prev = f
    <2> SUFFICES ASSUME Junk(log, v), prev # f PROVE FALSE
      OBVIOUS
    <2> DEFINE u == TermAt(log, prev)
    <2>1. prev \in f + 1 .. n
      BY <1>1, <1>4
    <2>2. Led(u, prev, u) /\ ~Led(u, f, tf) /\ u \in Nat
      BY <1>1, <2>1 DEF Junk
    <2>3. Led(T, f, tf) <=> Led(u, f, tf)
      BY <1>1, <1>4, <2>2, LedBelow
    <2> QED
      BY <1>5, <2>2, <2>3
  <1>7. ASSUME NEW l \in f .. e PROVE Led(T, l, TermAt(merged, l))
    <2>1. CASE l <= prev
      <3>1. l \in f .. prev /\ TermAt(merged, l) = TermAt(log, l) /\ l \in f .. n
            /\ TermAt(log, l) \in Nat /\ TermAt(log, prev) \in Nat /\ l \in Nat
        BY <1>1, <1>3, <1>4, <2>1
      <3>2. CASE Sound(log)
        <4>1. Led(TermAt(log, prev), l, TermAt(log, l))
          BY <3>1, <3>2 DEF Sound
        <4> QED
          BY <1>4, <2>1, <3>1, <4>1, LedBelow
      <3>3. CASE Junk(log, v)
        <4>1. l = f
          BY <1>1, <1>4, <1>6, <2>1, <3>1, <3>3
        <4> QED
          BY <1>5, <3>1, <4>1
      <3> QED
        BY <3>2, <3>3
    <2>2. CASE l > prev
      <3>1. PICK j \in 1 .. Len(entries) : l = prev + j
        <4>1. l - prev \in 1 .. Len(entries) /\ l = prev + (l - prev)
          BY <1>1, <1>4, <2>2
        <4> QED
          BY <4>1
      <3> QED
        BY <1>3, <3>1
    <2> QED
      BY <1>1, <1>4, <2>1, <2>2
  <1>8. ASSUME Last(merged) = e PROVE Sound(merged)
    <2> SUFFICES ASSUME NEW k \in f .. e, NEW l \in f .. k
                 PROVE  Led(TermAt(merged, k), l, TermAt(merged, l))
      BY <1>2, <1>8 DEF Sound
    <2>1. l \in f .. e /\ k \in Nat /\ l \in Nat /\ l <= k
          /\ TermAt(merged, k) \in Nat /\ TermAt(merged, l) \in Nat
      BY <1>1, <1>4, <1>8
    <2>2. Led(T, l, TermAt(merged, l)) /\ Led(T, k, TermAt(merged, k))
      BY <1>7, <2>1
    <2> QED
      BY <2>1, <2>2, LedBelow
  (* An entry of a sound log that the leader has too: they agree below it. *)
  <1>9. ASSUME Sound(log), NEW l \in f .. n, Led(T, l, TermAt(log, l)),
               NEW j \in 1 .. Len(entries), prev + j <= l
        PROVE  TermAt(log, prev + j) = entries[j].Term
    <2> DEFINE i == prev + j
               x == TermAt(log, i)
               t == TermAt(log, l)
               y == entries[j].Term
    <2>1. i \in f .. l /\ i \in f .. n /\ i \in f .. e /\ l \in Nat /\ i \in Nat /\ i <= l
      BY <1>1, <1>4, <1>9
    <2>2. Led(t, i, x) /\ x \in Nat /\ t \in Nat /\ Led(T, i, y)
      BY <1>1, <1>9, <2>1 DEF Sound
    <2>3. TermAt(merged, i) = y /\ TermAt(merged, i) \in Nat
      <3>1. i \in f .. Last(merged)
        BY <1>1, <1>3, <1>4, <2>1
      <3> QED
        BY <1>3, <1>4, <3>1
    <2>4. Led(T, l, t)
      BY <1>9
    <2> HIDE DEF i, x, t, y
    <2>5. Led(T, i, x)
      BY <2>1, <2>2, <2>4, LedBelow
    <2>6. x = y
      BY <2>1, <2>2, <2>3, <2>5, LedOnce
    <2> QED
      BY <2>6 DEF x, y, i
  <1>10. ASSUME NEW l \in f .. n, CommittedIn(l, TermAt(log, l), v)
         PROVE  l <= Last(merged) /\ TermAt(merged, l) = TermAt(log, l)
    <2>1. l \in Nat /\ TermAt(log, l) \in Nat
      BY <1>1
    <2>2. Led(T, l, TermAt(log, l))
      BY <1>5, <1>10, <2>1, CommittedLed
    <2>3. CASE Sound(log)
      BY <1>3, <1>9, <2>2, <2>3
    <2>4. CASE Junk(log, v)
      <3>1. l = f
        <4>1. l # f => l \in f + 1 .. n
          BY <1>1
        <4> QED
          BY <1>10, <2>4, <4>1, NotJunk
      <3>2. \A j \in 1 .. Len(entries) : ~(prev + j <= l)
        BY <1>1, <1>4, <3>1
      <3> QED
        BY <1>3, <3>2
    <2> QED
      BY <2>3, <2>4
  <1>11. ASSUME NEW k \in Nat, NEW t \in Nat, Choosable(k, t), Led(t, k, t), Keeps(log, k, t),
                Last(merged) = e
         PROVE  /\ Keeps(merged, k, t)
                /\ t <= TermAt(log, n) => t <= TermAt(merged, e)
    <2> DEFINE x == TermAt(merged, e)
    <2>1. x \in Nat /\ Led(T, e, x) /\ e \in f .. e
      BY <1>1, <1>4, <1>7, <1>11
    <2>2. t <= TermAt(log, n) => t <= T
      BY <1>1
    <2>3. t <= T => Led(T, k, t)
      BY <1>5, <1>11 DEF SafeInv
    <2>4. k <= e
      <3> SUFFICES ASSUME e < k PROVE FALSE
        BY <1>4
      <3>1. matchLog(log, t, k) /\ t <= TermAt(log, n)
        BY <1>1, <1>4, <1>11 DEF Keeps
      <3>2. k \in f .. n /\ k \in f + 1 .. n /\ TermAt(log, k) = t /\ Led(T, k, t)
        BY <1>1, <1>4, <2>2, <2>3, <3>1 DEF matchLog
      <3>3. Sound(log)
        BY <1>11, <3>2, NotJunk
      <3>4. k <= Last(merged)
        BY <1>3, <1>9, <3>2, <3>3
      <3> QED
        BY <1>4, <1>11, <3>4
    <2> HIDE DEF x
    <2>5. t <= T => t <= x
      BY <1>4, <2>1, <2>3, <2>4, LedBelow
    <2>6. CASE k < f
      BY <1>2, <2>2, <2>5, <2>6 DEF Keeps, x
    <2>7. CASE k >= f
      <3>1. matchLog(log, t, k) /\ t <= TermAt(log, n)
        BY <1>1, <1>11, <2>7 DEF Keeps
      <3>2. k \in f .. e /\ k \in f .. Last(merged) /\ Led(T, k, t)
        BY <1>1, <1>4, <1>11, <2>2, <2>3, <2>4, <2>7, <3>1
      <3>3. TermAt(merged, k) = t
        BY <1>4, <1>7, <3>2, LedOnce
      <3> QED
        BY <1>1, <1>2, <1>11, <2>2, <2>4, <2>5, <2>7, <3>1, <3>3 DEF Keeps, matchLog, x
    <2> QED
      BY <1>1, <2>6, <2>7
  <1>12. KeepsOn(log, merged)
    <2>1. CASE merged = log
      BY <2>1 DEF KeepsOn
    <2>2. CASE Last(merged) = e
      BY <1>11, <2>2 DEF KeepsOn
    <2> QED
      BY <1>3, <2>1, <2>2
  <1>13. Sound(merged) \/ (merged = log /\ Junk(log, v))
    BY <1>3, <1>8
  <1> HIDE DEF tf
  <1> QED
    BY <1>7, <1>10, <1>12, <1>13

-----------------------------------------------------------------------------
(* What the steps have in common, as long as no crash takes an entry: the  *)
(* history grows and no term goes back; a leader's log gets an entry at    *)
(* its end, or a whole log when it has just been elected; no log loses     *)
(* what may be chosen.                                                     *)
Moves ==
  /\ VInv /\ VInv' /\ HistoryInv /\ Record
  /\ \A p \in Server : currentTerm[p] <= currentTerm'[p]

LedGrows ==
  \A u, k, t \in Nat : Led(u, k, t)' /\ ~Led(u, k, t) =>
    \/ ~Elected(u) /\ t < u /\ Led(t, k, t)
    \/ t = u /\ \A l, x \in Nat : Led(u, l, x) => l < k

LogsMove ==
  \A p \in Server : KeepsOn(logs[p], logs'[p]) /\ First(logs[p]) <= First(logs'[p])

LEMMA Types ==
  ASSUME Moves
  PROVE  /\ currentTerm \in [Server -> Nat] /\ currentTerm' \in [Server -> Nat]
         /\ state \in [Server -> {Follower, Candidate, Leader}]
         /\ state' \in [Server -> {Follower, Candidate, Leader}]
         /\ commitIndex \in [Server -> Nat] /\ commitIndex' \in [Server -> Nat]
         /\ matchIndex \in [Server -> [Server -> Nat]] /\ matchIndex' \in [Server -> [Server -> Nat]]
         /\ nextIndex \in [Server -> [Server -> Int]]
         /\ snapCh \in [Server -> SUBSET [SnapshotIndex : Nat, SnapshotTerm : Nat, Snapshot : Nat]]
         /\ DOMAIN logs = Server
         /\ \A i \in Server : IsLog(logs[i]) /\ IsLog(logs'[i])
         /\ \A i \in Server : First(logs[i]) <= commitIndex[i] /\ First(logs'[i]) <= commitIndex'[i]
         /\ \A m \in rpcs : m \in Message /\ MessageOK(m)
         /\ rpcs' \subseteq Message
  BY DEF Moves, VInv, IInv, TypeOK, FirstCommitted, MessagesOK

LEMMA Invariants ==
  ASSUME Moves
  PROVE  /\ LedInv /\ OwnerInv /\ LeaderInv /\ LogsInv /\ MessagesInv /\ ChosenInv /\ SafeInv
         /\ AcksInv /\ VotersInv /\ AskingInv /\ CommitInv /\ MatchInv
  BY DEF Moves, HistoryInv

LEMMA Grows ==
  ASSUME Moves
  PROVE  /\ votes \subseteq votes' /\ led \subseteq led' /\ acks \subseteq acks'
         /\ chosen \subseteq chosen'
         /\ \A u, k, t : Led(u, k, t) => Led(u, k, t)'
         /\ \A p, k, t : Acked(p, k, t) => Acked(p, k, t)'
  BY DEF Moves, Record, Led, Acked

(* An acknowledgement that a step adds is of the peer's term after it.     *)
LEMMA NewAcks ==
  ASSUME Moves, NEW p, NEW k, NEW t, Acked(p, k, t)'
  PROVE  \/ Acked(p, k, t)
         \/ /\ p \in Server /\ t = currentTerm'[p] /\ k \in First(logs'[p]) + 1 .. Last(logs'[p])
            /\ TermAt(logs'[p], k) = t
  <1>1. \/ <<p, k, t>> \in acks
        \/ \E q \in Server : <<p, k, t>> \in AckedBy(q)'
    BY DEF Moves, Record, Acked
  <1> QED
    BY <1>1 DEF Acked, AckedBy

LEMMA ChoosableBefore ==
  ASSUME Moves, NEW k \in Nat, NEW t \in Nat, Choosable(k, t)'
  PROVE  Choosable(k, t)
  <1> DEFINE A == { p \in Server : Acked(p, k, t) \/ currentTerm[p] <= t }
             B == { p \in Server : Acked(p, k, t)' \/ currentTerm'[p] <= t }
  <1>1. B \subseteq A
    <2> SUFFICES ASSUME NEW p \in Server, Acked(p, k, t)' \/ currentTerm'[p] <= t
                 PROVE  Acked(p, k, t) \/ currentTerm[p] <= t
      OBVIOUS
    <2>1. currentTerm[p] \in Nat /\ currentTerm'[p] \in Nat /\ currentTerm[p] <= currentTerm'[p]
      BY Types DEF Moves
    <2> QED
      BY <2>1, NewAcks
  <1>2. Majority(B) /\ A \subseteq Server
    BY DEF Choosable
  <1>3. Majority(A)
    <2> HIDE DEF A, B
    <2> QED
      BY <1>1, <1>2, Larger
  <1> QED
    BY <1>3 DEF Choosable

LEMMA CommittedStays ==
  ASSUME Moves, NEW k \in Nat, NEW t \in Nat, NEW v \in Nat, CommittedIn(k, t, v),
         NEW w \in Nat, v <= w
  PROVE  CommittedIn(k, t, w) /\ CommittedIn(k, t, w)'
  <1>1. PICK n \in Nat, x \in Nat : <<n, x>> \in chosen /\ x <= v /\ k <= n /\ Led(x, k, t)
    BY DEF CommittedIn
  <1>2. x <= w /\ <<n, x>> \in chosen' /\ Led(x, k, t)'
    BY <1>1, Grows
  <1> QED
    BY <1>1, <1>2 DEF CommittedIn

LEMMA CommittedToStays ==
  ASSUME Moves, NEW k \in Nat, NEW v \in Nat, CommittedTo(k, v)
  PROVE  CommittedTo(k, v)'
  BY Grows DEF CommittedTo

(* The leader of a term has no other entry than it had below its last one. *)
LEMMA OldLed ==
  ASSUME Moves, LedGrows, NEW u \in Nat, NEW n \in Nat, NEW x \in Nat, Led(u, n, x),
         NEW k \in Nat, NEW t \in Nat, k <= n, Led(u, k, t)'
  PROVE  Led(u, k, t)
  <1>1. Elected(u)
    BY Invariants, LedFacts
  <1> QED
    BY <1>1 DEF LedGrows

LEMMA SoundStays ==
  ASSUME Moves, NEW log, Sound(log)
  PROVE  Sound(log)'
  BY Grows DEF Sound

LEMMA JunkStays ==
  ASSUME Moves, LedGrows, NEW log, IsLog(log), NEW v \in Nat, NEW w \in Nat, v <= w, Junk(log, v)
  PROVE  Junk(log, w)'
  <1> DEFINE f == First(log)
             tf == TermAt(log, f)
             kept == f + 1 .. Last(log)
  <1>1. /\ f \in Nat /\ tf \in Nat
        /\ \A k \in kept : k \in Nat /\ TermAt(log, k) \in Nat /\ f <= k
    BY LogTerms
  <1>2. PICK n \in Nat, x \in Nat : /\ <<n, x>> \in chosen /\ x <= v /\ f <= n /\ Led(x, f, tf)
                                   /\ \A k \in kept : TermAt(log, k) < x
    BY DEF Junk
  <1>3. x <= w /\ <<n, x>> \in chosen' /\ Led(x, f, tf)'
    BY <1>2, Grows
  <1>4. ASSUME NEW k \in kept
        PROVE  Led(TermAt(log, k), k, TermAt(log, k))' /\ ~Led(TermAt(log, k), f, tf)'
    <2>1. Led(TermAt(log, k), k, TermAt(log, k)) /\ ~Led(TermAt(log, k), f, tf)
      BY DEF Junk
    <2>2. PICK u \in Nat : u = TermAt(log, k)
      BY <1>1
    <2> HIDE DEF tf, f
    <2>3. Led(u, k, u)' /\ ~Led(u, f, tf)'
      BY <1>1, <2>1, <2>2, OldLed, Grows
    <2> QED
      BY <2>2, <2>3
  <1>5. f < Last(log)
    BY DEF Junk
  <1> QED
    BY <1>2, <1>3, <1>4, <1>5 DEF Junk

-----------------------------------------------------------------------------
(* What is left to show of a step, for each part of the invariant.         *)

LEMMA OneLeaderAfter == VInv' => ElectionSafety'
  BY VInvImplies, PTL

(* A leader after a step was one before, of the same term, or its term had *)
(* no leader.                                                              *)
LeadersStand ==
  \A i \in Server : state'[i] = Leader =>
    \/ /\ state[i] = Leader /\ currentTerm'[i] = currentTerm[i]
       /\ commitIndex[i] <= commitIndex'[i]
    \/ ~Elected(currentTerm'[i])

CandidatesStand ==
  \A i \in Server : state'[i] = Candidate =>
    \/ state[i] = Candidate /\ currentTerm'[i] = currentTerm[i]
    \/ currentTerm[i] < currentTerm'[i]

LEMMA SafeKept ==
  ASSUME Moves,
         \A u \in Nat : Elected(u)' =>
           \/ Elected(u)
           \/ \A k, t \in Nat : t < u /\ Choosable(k, t) => Led(u, k, t)'
  PROVE  SafeInv'
  <1> SUFFICES ASSUME NEW u \in Nat, NEW k \in Nat, NEW t \in Nat,
                      Elected(u)', t < u, Choosable(k, t)'
               PROVE  Led(u, k, t)'
    BY DEF SafeInv
  <1>1. Choosable(k, t)
    BY ChoosableBefore
  <1>2. CASE Elected(u)
    <2>1. Led(u, k, t)
      BY <1>1, <1>2, Invariants DEF SafeInv
    <2> QED
      BY <2>1, Grows
  <1> QED
    BY <1>1, <1>2

LEMMA OwnerKept ==
  ASSUME Moves, CandidatesStand,
         \A u \in Nat \ {0} : Elected(u)' =>
           \/ Elected(u)
           \/ \E j \in Server :
                /\ Majority({ p \in Server : <<u, p, j>> \in votes' })
                /\ u <= currentTerm'[j] /\ state'[j] # Candidate
  PROVE  OwnerInv'
  <1> SUFFICES ASSUME NEW u \in Nat \ {0}, Elected(u)'
               PROVE  \E j \in Server :
                        /\ Majority({ p \in Server : <<u, p, j>> \in votes' })
                        /\ u <= currentTerm'[j]
                        /\ u = currentTerm'[j] => state'[j] # Candidate
    <2>1. \A i \in Server : state'[i] = Candidate => currentTerm'[i] # 0
      <3>1. \A i \in Server : state[i] = Candidate => currentTerm[i] # 0
        BY Invariants DEF OwnerInv
      <3>2. \A i \in Server : currentTerm[i] \in Nat /\ currentTerm'[i] \in Nat
        BY Types
      <3> QED
        BY <3>1, <3>2 DEF CandidatesStand
    <2> QED
      BY <2>1 DEF OwnerInv
  <1>1. CASE Elected(u)
    <2>1. PICK j \in Server :
            /\ Majority({ p \in Server : <<u, p, j>> \in votes })
            /\ u <= currentTerm[j]
            /\ u = currentTerm[j] => state[j] # Candidate
      BY <1>1, Invariants DEF OwnerInv
    <2> DEFINE A == { p \in Server : <<u, p, j>> \in votes }
               B == { p \in Server : <<u, p, j>> \in votes' }
    <2>2. Majority(B)
      <3>1. A \subseteq B /\ B \subseteq Server /\ Majority(A)
        BY <2>1, Grows
      <3> HIDE DEF A, B
      <3> QED
        BY <3>1, Larger
    <2>3. u \in Nat /\ currentTerm[j] \in Nat /\ currentTerm'[j] \in Nat
          /\ currentTerm[j] <= currentTerm'[j]
      BY Types DEF Moves
    <2>4. u <= currentTerm'[j] /\ (u = currentTerm'[j] => state'[j] # Candidate)
      BY <2>1, <2>3 DEF CandidatesStand
    <2> QED
      BY <2>2, <2>4
  <1> QED
    BY <1>1

LEMMA AcksKept ==
  ASSUME Moves, LedInv', LogsInv', LogsMove
  PROVE  AcksInv'
  <1>1. acks' \subseteq Server \X Nat \X Nat
    <2> SUFFICES ASSUME NEW a \in acks', a \notin acks PROVE a \in Server \X Nat \X Nat
      BY Invariants DEF AcksInv
    <2>1. PICK p \in Server : a \in AckedBy(p)'
      BY DEF Moves, Record
    <2>2. PICK k \in First(logs'[p]) + 1 .. Last(logs'[p]) : a = <<p, k, currentTerm'[p]>>
      BY <2>1 DEF AckedBy
    <2>3. k \in Nat /\ currentTerm'[p] \in Nat
      BY Types, LogTerms
    <2> QED
      BY <2>2, <2>3
  <1>2. ASSUME NEW p \in Server, NEW k \in Nat, NEW t \in Nat, Acked(p, k, t)'
        PROVE  /\ Led(t, k, t)' /\ t <= currentTerm'[p]
               /\ Choosable(k, t)' =>
                    /\ Keeps(logs'[p], k, t) /\ t <= TermAt(logs'[p], Last(logs'[p]))
    <2>1. CASE Acked(p, k, t)
      <3>1. /\ Led(t, k, t) /\ t <= currentTerm[p]
            /\ Choosable(k, t) => Keeps(logs[p], k, t) /\ t <= TermAt(logs[p], Last(logs[p]))
        BY <2>1, Invariants DEF AcksInv
      <3>2. currentTerm[p] \in Nat /\ currentTerm'[p] \in Nat /\ currentTerm[p] <= currentTerm'[p]
        BY Types DEF Moves
      <3>3. KeepsOn(logs[p], logs'[p])
        BY DEF LogsMove
      <3> QED
        BY <3>1, <3>2, <3>3, ChoosableBefore, Grows DEF KeepsOn
    <2>2. CASE ~Acked(p, k, t)
      <3>0. PICK log : log = logs'[p]
        OBVIOUS
      <3> DEFINE n == Last(log)
      <3>1. /\ t = currentTerm'[p] /\ k \in First(log) + 1 .. n /\ TermAt(log, k) = t
        BY <1>2, <2>2, <3>0, NewAcks
      <3>2. /\ First(log) \in Nat /\ n \in Nat /\ First(log) <= n
            /\ \A l \in First(log) .. n : TermAt(log, l) \in Nat
        BY <3>0, Types, LogTerms
      <3>3. Sound(log)' \/ \E w \in Nat : w <= t /\ TermAt(log, k) < w
        BY <3>0, <3>1 DEF LogsInv, LogSound, Sound, Junk
      <3>4. ~\E w \in Nat : w <= t /\ TermAt(log, k) < w
        BY <3>1
      <3>5. k \in First(log) .. n /\ k \in First(log) .. k /\ n \in First(log) .. n
        BY <3>1, <3>2
      <3>6. Led(t, k, t)' /\ Led(TermAt(log, n), k, t)'
        BY <3>1, <3>3, <3>4, <3>5 DEF Sound
      <3>7. t <= TermAt(log, n)
        <4>1. TermAt(log, n) \in Nat
          BY <3>2, <3>5
        <4> QED
          BY <3>6, <4>1 DEF LedInv
      <3>8. t <= currentTerm'[p]
        BY <3>1
      <3> QED
        BY <3>0, <3>1, <3>2, <3>5, <3>6, <3>7, <3>8 DEF Keeps, matchLog
    <2> QED
      BY <2>1, <2>2
  <1>3. \A p \in Server : AckedBy(p)' \subseteq acks'
    BY DEF Moves, Record
  <1> QED
    BY <1>1, <1>2, <1>3 DEF AcksInv

(* A vote that is new comes with what the voter acknowledged before it.    *)
LEMMA VotersKept ==
  ASSUME Moves, LogsMove,
         \A v \in Nat, p, c \in Server :
           <<v, p, c>> \in votes' => <<v, p, c>> \in votes \/ v <= currentTerm'[c],
         \A c, p \in Server : state'[c] = Candidate /\ <<currentTerm'[c], p, c>> \in votes' =>
           \/ /\ state[c] = Candidate /\ currentTerm'[c] = currentTerm[c]
              /\ <<currentTerm[c], p, c>> \in votes
           \/ \A k, t \in Nat : Acked(p, k, t) /\ t < currentTerm'[c] /\ Choosable(k, t) =>
                Keeps(logs'[c], k, t)
  PROVE  VotersInv'
  <1>1. ASSUME NEW v \in Nat, NEW p \in Server, NEW c \in Server, <<v, p, c>> \in votes'
        PROVE  v <= currentTerm'[c]
    <2>1. CASE <<v, p, c>> \in votes
      <3>1. v <= currentTerm[c] /\ currentTerm[c] \in Nat /\ currentTerm'[c] \in Nat
            /\ currentTerm[c] <= currentTerm'[c]
        BY <2>1, Invariants, Types DEF VotersInv, Moves
      <3> QED
        BY <3>1
    <2> QED
      BY <1>1, <2>1
  <1>2. ASSUME NEW c \in Server, NEW p \in Server, state'[c] = Candidate,
               <<currentTerm'[c], p, c>> \in votes',
               NEW k \in Nat, NEW t \in Nat, Acked(p, k, t)', t < currentTerm'[c],
               Choosable(k, t)'
        PROVE  Keeps(logs'[c], k, t)
    <2>1. currentTerm'[c] <= currentTerm'[p] /\ currentTerm'[c] \in Nat /\ currentTerm'[p] \in Nat
      BY <1>2, Types DEF Moves, VInv, VotesInv, VotesOK
    <2>2. Acked(p, k, t) /\ Choosable(k, t)
      BY <1>2, <2>1, NewAcks, ChoosableBefore
    <2>3. CASE /\ state[c] = Candidate /\ currentTerm'[c] = currentTerm[c]
               /\ <<currentTerm[c], p, c>> \in votes
      <3>1. Keeps(logs[c], k, t) /\ Led(t, k, t)
        BY <1>2, <2>2, <2>3, Invariants DEF VotersInv, AcksInv
      <3> QED
        BY <2>2, <3>1 DEF LogsMove, KeepsOn
    <2> QED
      BY <1>2, <2>2, <2>3
  <1> QED
    BY <1>1, <1>2 DEF VotersInv

(* A request for a vote: what Start appended since is not in the log of a  *)
(* later term, so it cannot be chosen any more.                            *)
LEMMA AskingKept ==
  ASSUME Moves, LedGrows, LedInv', LogsMove,
         \A m \in rpcs' : m.type = "RequestVote" /\ state'[m.from] = Candidate
                            /\ currentTerm'[m.from] = m.Term =>
           \/ m \in rpcs /\ state[m.from] = Candidate /\ currentTerm[m.from] = m.Term
           \/ /\ Led(m.LastLogTerm, m.LastLogIndex, m.LastLogTerm)
              /\ \A k, t \in Nat :
                   /\ Led(t, k, t) /\ t < m.Term /\ Choosable(k, t)
                   /\ t < m.LastLogTerm \/ (t = m.LastLogTerm /\ k <= m.LastLogIndex)
                   => Keeps(logs'[m.from], k, t)
  PROVE  AskingInv'
  <1> SUFFICES ASSUME NEW m \in rpcs', m.type = "RequestVote", state'[m.from] = Candidate,
                      currentTerm'[m.from] = m.Term
               PROVE  /\ Led(m.LastLogTerm, m.LastLogIndex, m.LastLogTerm)'
                      /\ \A k, t \in Nat :
                           /\ Led(t, k, t)' /\ t < m.Term /\ Choosable(k, t)'
                           /\ t < m.LastLogTerm \/ (t = m.LastLogTerm /\ k <= m.LastLogIndex)
                           => Keeps(logs'[m.from], k, t)
    BY DEF AskingInv
  <1>1. m.from \in Server /\ m.LastLogIndex \in Nat /\ m.LastLogTerm \in Nat
    BY Types, MessageFields
  <1>2. \/ m \in rpcs /\ state[m.from] = Candidate /\ currentTerm[m.from] = m.Term
        \/ /\ Led(m.LastLogTerm, m.LastLogIndex, m.LastLogTerm)
           /\ \A k, t \in Nat :
                /\ Led(t, k, t) /\ t < m.Term /\ Choosable(k, t)
                /\ t < m.LastLogTerm \/ (t = m.LastLogTerm /\ k <= m.LastLogIndex)
                => Keeps(logs'[m.from], k, t)
    OBVIOUS
  <1>3. /\ Led(m.LastLogTerm, m.LastLogIndex, m.LastLogTerm)
        /\ Led(m.LastLogTerm, m.LastLogIndex, m.LastLogTerm)'
    BY <1>2, Invariants, Grows DEF AskingInv
  <1>4. ASSUME NEW k \in Nat, NEW t \in Nat, Led(t, k, t)', t < m.Term, Choosable(k, t)',
               t < m.LastLogTerm \/ (t = m.LastLogTerm /\ k <= m.LastLogIndex)
        PROVE  Keeps(logs'[m.from], k, t)
    <2>1. Choosable(k, t)
      BY <1>4, ChoosableBefore
    <2>2. Led(t, k, t)
      <3>1. CASE t < m.LastLogTerm
        <4>1. Elected(m.LastLogTerm)
          BY <1>1, <1>3, Invariants, LedFacts
        <4>2. Led(m.LastLogTerm, k, t)
          BY <1>1, <2>1, <3>1, <4>1, Invariants DEF SafeInv
        <4> QED
          BY <1>1, <4>2, Invariants, LedFacts
      <3>2. CASE t = m.LastLogTerm /\ k <= m.LastLogIndex
        BY <1>1, <1>3, <1>4, <3>2, OldLed
      <3> QED
        BY <1>4, <3>1, <3>2
    <2>3. CASE m \in rpcs /\ state[m.from] = Candidate /\ currentTerm[m.from] = m.Term
      <3>1. Keeps(logs[m.from], k, t)
        BY <1>4, <2>1, <2>2, <2>3, Invariants DEF AskingInv
      <3> QED
        BY <1>1, <2>1, <2>2, <3>1 DEF LogsMove, KeepsOn
    <2> QED
      BY <1>2, <1>4, <2>1, <2>2, <2>3
  <1> QED
    BY <1>3, <1>4

(* What a message in flight says stays true.                               *)
LEMMA MessageStays ==
  ASSUME Moves, LedGrows, LogsMove, LeadersStand, NEW m \in rpcs
  PROVE  MessageInv(m)'
  <1>1. MessageInv(m) /\ m \in Message /\ m.from \in Server /\ m.to \in Server
    BY Types, MessageFields, Invariants DEF MessagesInv
  <1>2. ASSUME NEW i \in Server, NEW term \in Nat, NEW index \in Nat, SnapshotOf(i, term, index)
        PROVE  SnapshotOf(i, term, index)'
    <2>1. Elected(term)'
      BY <1>2, Grows DEF SnapshotOf, Elected
    <2>2. ASSUME state'[i] = Leader, currentTerm'[i] = term PROVE index <= First(logs'[i])
      <3>1. index <= First(logs[i])
        BY <1>2, <2>2 DEF SnapshotOf, LeadersStand
      <3>2. First(logs[i]) \in Nat /\ First(logs'[i]) \in Nat /\ First(logs[i]) <= First(logs'[i])
        BY Types, LogEnds DEF LogsMove
      <3> QED
        BY <3>1, <3>2
    <2> QED
      BY <2>1, <2>2 DEF SnapshotOf
  <1>3. ASSUME m.type = "AppendEntries" PROVE AppendEntriesInv(m)'
    <2>1. /\ m.Term \in Nat /\ m.LeaderCommit \in Nat /\ AppendEntriesInv(m)
      BY <1>1, <1>3, MessageFields DEF MessageInv, Requests
    <2>2. CommittedTo(m.LeaderCommit, m.Term)'
      BY <2>1, CommittedToStays DEF AppendEntriesInv
    <2> QED
      BY <2>1, <2>2, Grows DEF AppendEntriesInv
  <1>4. ASSUME m.type = "AppendEntriesReply" PROVE AppendEntriesReplyInv(m)'
    <2> DEFINE n == m.PrevLogIndex + m.NumEntries
    <2>1. m.reqTerm \in Nat /\ n \in Nat /\ AppendEntriesReplyInv(m)
      BY <1>1, <1>4, MessageFields DEF MessageInv, Requests
    <2>2. CASE m.Success
      <3>1. PICK x \in Nat : Led(m.reqTerm, n, x)
        BY <2>1, <2>2 DEF AppendEntriesReplyInv
      <3>2. ASSUME NEW k \in Nat, k <= n, Led(m.reqTerm, k, m.reqTerm)'
            PROVE  \/ Acked(m.from, k, m.reqTerm)'
                   \/ \E c \in Nat : <<c, m.reqTerm>> \in chosen' /\ k <= c
        <4>1. Led(m.reqTerm, k, m.reqTerm)
          <5> HIDE DEF n
          <5> QED
            BY <2>1, <3>1, <3>2, OldLed
        <4>2. \/ Acked(m.from, k, m.reqTerm)
              \/ \E c \in Nat : <<c, m.reqTerm>> \in chosen /\ k <= c
          BY <2>1, <2>2, <3>2, <4>1 DEF AppendEntriesReplyInv
        <4> QED
          BY <4>2, Grows
      <3>3. \E y \in Nat : Led(m.reqTerm, n, y)'
        BY <3>1, Grows
      <3> QED
        BY <3>2, <3>3 DEF AppendEntriesReplyInv
    <2> QED
      BY <2>2 DEF AppendEntriesReplyInv
  <1>5. ASSUME m.type = "InstallSnapshot" PROVE InstallSnapshotInv(m)'
    <2>1. /\ m.Term \in Nat /\ m.LastIncludedIndex \in Nat /\ m.LastIncludedTerm \in Nat
          /\ InstallSnapshotInv(m)
      BY <1>1, <1>5, MessageFields DEF MessageInv, Requests
    <2>2. CommittedIn(m.LastIncludedIndex, m.LastIncludedTerm, m.Term)'
      BY <2>1, CommittedStays DEF InstallSnapshotInv
    <2> QED
      BY <1>1, <1>2, <2>1, <2>2 DEF InstallSnapshotInv
  <1>6. ASSUME m.type = "InstallSnapshotReply" PROVE SnapshotOf(m.to, m.reqTerm, m.LastIncludedIndex)'
    <2>1. m.reqTerm \in Nat /\ m.LastIncludedIndex \in Nat
          /\ SnapshotOf(m.to, m.reqTerm, m.LastIncludedIndex)
      BY <1>1, <1>6, MessageFields DEF MessageInv, Requests
    <2> QED
      BY <1>1, <1>2, <2>1
  <1> QED
    BY <1>3, <1>4, <1>5, <1>6 DEF MessageInv

LEMMA MessagesSound ==
  ASSUME Moves, LedGrows, LogsMove, LeadersStand, \A m \in rpcs' \ rpcs : MessageInv(m)'
  PROVE  MessagesInv'
  BY MessageStays DEF MessagesInv

(* A leader's commitIndex: a step either knew it to be chosen or shows it. *)
LEMMA ChosenKept ==
  ASSUME Moves, LedGrows, LeadersStand,
         \A i \in Server, k, t \in Nat :
           /\ state'[i] = Leader /\ commitIndex'[i] = k /\ currentTerm'[i] = t
           /\ matchLog(logs'[i], t, k)
           => \/ <<k, t>> \in chosen
              \/ /\ Led(t, k, t)'
                 /\ Majority({ p \in Server : Acked(p, k, t)' })
  PROVE  ChosenInv'
  <1>1. ASSUME NEW k, NEW t, <<k, t>> \in chosen', <<k, t>> \notin chosen
        PROVE  \E i \in Server :
                 /\ state'[i] = Leader /\ k = commitIndex'[i] /\ t = currentTerm'[i]
                 /\ Led(t, k, t)'
                 /\ Majority({ p \in Server : Acked(p, k, t)' })
    <2>1. PICK i \in Server : <<k, t>> \in ChosenBy(i)'
      BY <1>1 DEF Moves, Record
    <2>2. /\ state'[i] = Leader /\ matchLog(logs'[i], currentTerm'[i], commitIndex'[i])
          /\ k = commitIndex'[i] /\ t = currentTerm'[i]
      BY <2>1 DEF ChosenBy
    <2>3. k \in Nat /\ t \in Nat /\ matchLog(logs'[i], t, k)
      BY <2>2, Types
    <2>4. Led(t, k, t)' /\ Majority({ p \in Server : Acked(p, k, t)' })
      BY <1>1, <2>2, <2>3
    <2> QED
      BY <2>2, <2>4
  <1>2. chosen' \subseteq Nat \X Nat
    <2> SUFFICES ASSUME NEW e \in chosen', e \notin chosen PROVE e \in Nat \X Nat
      BY Invariants DEF ChosenInv
    <2>1. PICK i \in Server : e \in ChosenBy(i)'
      BY DEF Moves, Record
    <2>2. e = <<commitIndex'[i], currentTerm'[i]>>
      BY <2>1 DEF ChosenBy
    <2> QED
      BY <2>2, Types
  <1>3. ASSUME NEW k \in Nat, NEW t \in Nat, <<k, t>> \in chosen'
        PROVE  /\ Led(t, k, t)'
               /\ Majority({ p \in Server : Acked(p, k, t)' })
               /\ \A i \in Server : state'[i] = Leader /\ currentTerm'[i] = t => k <= commitIndex'[i]
    <2>1. CASE <<k, t>> \in chosen
      <3> DEFINE A == { p \in Server : Acked(p, k, t) }
                 B == { p \in Server : Acked(p, k, t)' }
      <3>1. /\ Led(t, k, t) /\ Majority(A)
            /\ \A i \in Server : state[i] = Leader /\ currentTerm[i] = t => k <= commitIndex[i]
        BY <2>1, Invariants DEF ChosenInv
      <3>2. Majority(B)
        <4>1. A \subseteq B /\ B \subseteq Server /\ Majority(A)
          BY <3>1, Grows
        <4> HIDE DEF A, B
        <4> QED
          BY <4>1, Larger
      <3>3. ASSUME NEW i \in Server, state'[i] = Leader, currentTerm'[i] = t
            PROVE  k <= commitIndex'[i]
        <4>1. Elected(t)
          BY <3>1, Invariants, LedFacts
        <4>2. state[i] = Leader /\ currentTerm[i] = t /\ commitIndex[i] <= commitIndex'[i]
              /\ commitIndex[i] \in Nat /\ commitIndex'[i] \in Nat
          BY <3>3, <4>1, Types DEF LeadersStand
        <4> QED
          BY <3>1, <4>2
      <3> QED
        BY <3>1, <3>2, <3>3, Grows
    <2>2. CASE <<k, t>> \notin chosen
      <3>1. PICK i \in Server :
              /\ state'[i] = Leader /\ k = commitIndex'[i] /\ t = currentTerm'[i]
              /\ Led(t, k, t)'
              /\ Majority({ p \in Server : Acked(p, k, t)' })
        BY <1>1, <1>3, <2>2
      <3>2. ASSUME NEW j \in Server, state'[j] = Leader, currentTerm'[j] = t PROVE j = i
        <4>1. ElectionSafety'
          BY OneLeaderAfter DEF Moves
        <4> QED
          BY <3>1, <3>2, <4>1 DEF ElectionSafety
      <3> QED
        BY <3>1, <3>2
    <2> QED
      BY <2>1, <2>2
  <1>4. \A i \in Server : ChosenBy(i)' \subseteq chosen'
    BY DEF Moves, Record
  <1> QED
    BY <1>2, <1>3, <1>4 DEF ChosenInv

-----------------------------------------------------------------------------
(* A peer after a step, and the history that no new leader and no Start    *)
(* has added to.                                                           *)
LEMMA LedAfter ==
  ASSUME led' \subseteq Nat \X Nat \X Nat, <<0, 0, 0>> \in led',
         \A u, k, t \in Nat : <<u, k, t>> \in led' =>
           /\ t <= u /\ <<u, 0, 0>> \in led' /\ <<t, 0, 0>> \in led'
           /\ \A l, x \in Nat : l <= k => (<<u, l, x>> \in led' <=> <<t, l, x>> \in led')
           /\ \A l, x \in Nat : l <= k /\ <<u, l, x>> \in led' => x <= t
           /\ \A x \in Nat : <<u, k, x>> \in led' => x = t
  PROVE  LedInv'
  BY DEF LedInv, Led, Elected

LEMMA LedStays ==
  ASSUME Moves,
         \A i \in Server : state'[i] = Leader =>
           state[i] = Leader /\ Last(logs'[i]) = Last(logs[i])
  PROVE  led' = led /\ LedInv' /\ LedGrows
  <1>1. ASSUME NEW i \in Server, state'[i] = Leader PROVE NewlyLed(i) = {}
    <2>1. state[i] = Leader /\ Last(logs'[i]) = Last(logs[i]) /\ Last(logs[i]) \in Nat
      BY <1>1, Types, LogEnds
    <2>2. Last(logs[i]) + 1 .. Last(logs'[i]) = {}
      BY <2>1
    <2> QED
      BY <2>1, <2>2 DEF NewlyLed
  <1>2. led' = led
    BY <1>1 DEF Moves, Record
  <1>3. LedInv'
    <2>1. LedInv /\ \A u, k, t : <<u, k, t>> \in led' <=> Led(u, k, t)
      BY <1>2, Invariants DEF Led
    <2>2. led' \subseteq Nat \X Nat \X Nat /\ <<0, 0, 0>> \in led'
      BY <1>2, <2>1 DEF LedInv, Elected
    <2>3. ASSUME NEW u \in Nat, NEW k \in Nat, NEW t \in Nat, <<u, k, t>> \in led'
          PROVE  /\ t <= u /\ <<u, 0, 0>> \in led' /\ <<t, 0, 0>> \in led'
                 /\ \A l, x \in Nat : l <= k => (<<u, l, x>> \in led' <=> <<t, l, x>> \in led')
                 /\ \A l, x \in Nat : l <= k /\ <<u, l, x>> \in led' => x <= t
                 /\ \A x \in Nat : <<u, k, x>> \in led' => x = t
      BY <2>1, <2>3, LedFacts, LedBelow, LedOnce DEF Elected
    <2> QED
      BY <2>2, <2>3, LedAfter
  <1>4. LedGrows
    BY <1>2 DEF LedGrows, Led
  <1> QED
    BY <1>2, <1>3, <1>4

LEMMA LogAfter ==
  ASSUME NEW i \in Server, NEW log, logs'[i] = log, NEW v, currentTerm'[i] = v,
         Sound(log)' \/ Junk(log, v)',
         \A k \in First(log) .. Last(log) : TermAt(log, k) <= v
  PROVE  LogSound(i)'
  BY DEF LogSound, Sound, Junk, Led

LEMMA LogStays ==
  ASSUME Moves, LedGrows, NEW i \in Server, logs'[i] = logs[i]
  PROVE  LogSound(i)' /\ KeepsOn(logs[i], logs'[i]) /\ First(logs[i]) <= First(logs'[i])
  <1>1. PICK log : log = logs[i]
    OBVIOUS
  <1>0. PICK v \in Nat, w \in Nat : v = currentTerm[i] /\ w = currentTerm'[i]
    BY Types
  <1>2. IsLog(log) /\ v <= w
    BY <1>0, <1>1, Types DEF Moves
  <1>3. Sound(log) \/ Junk(log, v)
    BY <1>0, <1>1, Invariants DEF LogsInv, LogSound
  <1>4. Sound(log)' \/ Junk(log, w)'
    BY <1>2, <1>3, SoundStays, JunkStays
  <1>5. \A k \in First(log) .. Last(log) : TermAt(log, k) <= w
    <2>1. \A k \in First(log) .. Last(log) : TermAt(log, k) \in Nat /\ TermAt(log, k) <= v
      BY <1>0, <1>1, <1>2, Invariants, LogTerms DEF LogsInv, LogSound
    <2> QED
      BY <1>2, <2>1
  <1>6. KeepsOn(log, log) /\ First(log) <= First(log)
    BY <1>2, LogTerms DEF KeepsOn
  <1> QED
    BY <1>0, <1>1, <1>4, <1>5, <1>6, LogAfter

CommittedNext(k, t, v) ==
  \E n, w \in Nat : <<n, w>> \in chosen' /\ w <= v /\ k <= n /\ <<w, k, t>> \in led'

LEMMA CommittedOn ==
  ASSUME Moves, NEW k \in Nat, NEW t \in Nat, NEW v \in Nat, CommittedIn(k, t, v),
         NEW w \in Nat, v <= w
  PROVE  CommittedNext(k, t, w)
  BY CommittedStays DEF CommittedNext, CommittedIn, Led

LEMMA CommitAfter ==
  ASSUME NEW i \in Server, commitIndex'[i] <= Last(logs'[i]),
         \A k \in First(logs'[i]) .. commitIndex'[i] :
           CommittedNext(k, TermAt(logs'[i], k), currentTerm'[i]),
         \A msg \in snapCh'[i] :
           CommittedNext(msg.SnapshotIndex, msg.SnapshotTerm, currentTerm'[i])
  PROVE  CommitSound(i)'
  BY DEF CommitSound, CommittedNext, CommittedIn, Led

(* What waits for the service of a peer stays committed.                   *)
LEMMA WaitingStays ==
  ASSUME Moves, NEW i \in Server, NEW msg \in snapCh[i]
  PROVE  CommittedNext(msg.SnapshotIndex, msg.SnapshotTerm, currentTerm'[i])
  <1>1. CommittedIn(msg.SnapshotIndex, msg.SnapshotTerm, currentTerm[i])
    BY Invariants DEF CommitInv, CommitSound
  <1>2. /\ msg.SnapshotIndex \in Nat /\ msg.SnapshotTerm \in Nat
        /\ currentTerm[i] \in Nat /\ currentTerm'[i] \in Nat /\ currentTerm[i] <= currentTerm'[i]
    BY Types DEF Moves
  <1> QED
    BY <1>1, <1>2, CommittedOn

LEMMA EntryStays ==
  ASSUME Moves, NEW i \in Server, NEW k \in First(logs[i]) .. Last(logs[i]), k <= commitIndex[i]
  PROVE  CommittedNext(k, TermAt(logs[i], k), currentTerm'[i])
  <1>1. k \in First(logs[i]) .. commitIndex[i] /\ k \in Nat /\ TermAt(logs[i], k) \in Nat
        /\ currentTerm[i] \in Nat /\ currentTerm'[i] \in Nat /\ currentTerm[i] <= currentTerm'[i]
    BY Types, LogTerms DEF Moves
  <1>2. CommittedIn(k, TermAt(logs[i], k), currentTerm[i])
    BY <1>1, Invariants DEF CommitInv, CommitSound
  <1> QED
    BY <1>1, <1>2, CommittedOn

LEMMA CommitStays ==
  ASSUME Moves, NEW i \in Server, logs'[i] = logs[i], commitIndex'[i] = commitIndex[i],
         \A msg \in snapCh'[i] : \/ msg \in snapCh[i]
                                 \/ CommittedNext(msg.SnapshotIndex, msg.SnapshotTerm, currentTerm'[i])
  PROVE  CommitSound(i)'
  <1>1. commitIndex'[i] <= Last(logs'[i]) /\ commitIndex[i] \in Nat /\ Last(logs[i]) \in Nat
        /\ First(logs[i]) \in Nat
    BY Invariants, Types, LogTerms DEF CommitInv, CommitSound
  <1>2. ASSUME NEW k \in First(logs'[i]) .. commitIndex'[i]
        PROVE  CommittedNext(k, TermAt(logs'[i], k), currentTerm'[i])
    <2>1. k \in First(logs[i]) .. Last(logs[i]) /\ k <= commitIndex[i]
      BY <1>1
    <2> QED
      BY <2>1, EntryStays
  <1> QED
    BY <1>1, <1>2, WaitingStays, CommitAfter

LEMMA LeaderAfter ==
  ASSUME NEW i \in Server,
         <<currentTerm'[i], 0, 0>> \in led',
         \A k \in First(logs'[i]) .. Last(logs'[i]) :
           <<currentTerm'[i], k, TermAt(logs'[i], k)>> \in led',
         \A k, t \in Nat : <<currentTerm'[i], k, t>> \in led' => k <= Last(logs'[i])
  PROVE  LeaderLed(i)'
  BY DEF LeaderLed, Led, Elected

LEMMA LeaderStays ==
  ASSUME Moves, led' = led, NEW i \in Server, state[i] = Leader, currentTerm'[i] = currentTerm[i],
         logs'[i] = logs[i]
  PROVE  LeaderLed(i)'
  <1>1. LeaderLed(i)
    BY Invariants DEF LeaderInv
  <1> QED
    BY <1>1, LeaderAfter DEF LeaderLed, Led, Elected

LEMMA MatchAfter ==
  ASSUME NEW i \in Server,
         \A p \in Server :
           /\ matchIndex'[i][p] <= Last(logs'[i])
           /\ \A k \in Nat : /\ commitIndex'[i] < k /\ k <= matchIndex'[i][p]
                             /\ <<currentTerm'[i], k, currentTerm'[i]>> \in led'
                => <<p, k, currentTerm'[i]>> \in acks'
  PROVE  MatchAcked(i)'
  BY DEF MatchAcked, Led, Acked

LEMMA MatchStays ==
  ASSUME Moves, led' = led, NEW i \in Server, state[i] = Leader, currentTerm'[i] = currentTerm[i],
         Last(logs'[i]) = Last(logs[i]), commitIndex[i] <= commitIndex'[i],
         matchIndex'[i] = matchIndex[i]
  PROVE  MatchAcked(i)'
  <1>1. MatchAcked(i) /\ commitIndex[i] \in Nat /\ commitIndex'[i] \in Nat
    BY Invariants, Types DEF MatchInv
  <1>2. acks \subseteq acks'
    BY Grows
  <1> QED
    BY <1>1, <1>2, MatchAfter DEF MatchAcked, Led, Acked

-----------------------------------------------------------------------------
(* The whole invariant, for the steps that change no log and no            *)
(* commitIndex, and for those that do.                                     *)
LEMMA LogsStill ==
  ASSUME Moves, LedGrows, UNCHANGED logs
  PROVE  LogsMove /\ LogsInv'
  BY LogStays DEF LogsMove, LogsInv

LEMMA Together ==
  ASSUME Moves, \A u \in Nat : Elected(u)' => Elected(u), LedInv', LogsMove, LogsInv', CommitInv', LeaderInv', MatchInv',
         VotersInv', AskingInv', MessagesInv', ChosenInv', CandidatesStand
  PROVE  HistoryInv'
  <1>1. SafeInv' /\ OwnerInv' /\ AcksInv'
    BY SafeKept, OwnerKept, AcksKept
  <1> QED
    BY <1>1 DEF HistoryInv

LEMMA StillKeeps ==
  ASSUME Moves, CandidatesStand, UNCHANGED <<logs, commitIndex>>, VotersInv', AskingInv',
         \A i \in Server : state'[i] = Leader =>
           /\ state[i] = Leader /\ currentTerm'[i] = currentTerm[i]
           /\ matchIndex'[i] = matchIndex[i] \/ MatchAcked(i)',
         \A i \in Server : \A msg \in snapCh'[i] :
           \/ msg \in snapCh[i]
           \/ CommittedNext(msg.SnapshotIndex, msg.SnapshotTerm, currentTerm'[i]),
         \A m \in rpcs' \ rpcs : MessageInv(m)'
  PROVE  HistoryInv'
  <1>1. led' = led /\ LedInv' /\ LedGrows
    BY LedStays
  <1>2. LogsMove /\ LogsInv'
    BY <1>1, LogsStill
  <1>3. CommitInv'
    BY CommitStays DEF CommitInv
  <1>4. \A i \in Server : commitIndex[i] <= commitIndex'[i]
    BY Types
  <1>5. LeadersStand
    BY <1>4 DEF LeadersStand
  <1>6. LeaderInv' /\ MatchInv'
    BY <1>1, <1>4, LeaderStays, MatchStays DEF LeaderInv, MatchInv
  <1>7. MessagesInv'
    BY <1>1, <1>2, <1>5, MessagesSound
  <1>8. ChosenInv'
    <2> SUFFICES ASSUME NEW i \in Server, NEW k \in Nat, NEW t \in Nat, state'[i] = Leader,
                        commitIndex'[i] = k, currentTerm'[i] = t, matchLog(logs'[i], t, k)
                 PROVE  <<k, t>> \in chosen
      BY <1>1, <1>5, ChosenKept
    <2>1. <<k, t>> \in ChosenBy(i)
      BY DEF ChosenBy
    <2> QED
      BY <2>1, Invariants DEF ChosenInv
  <1>9. \A u \in Nat : Elected(u)' => Elected(u)
    BY <1>1 DEF Elected, Led
  <1> QED
    BY <1>1, <1>2, <1>3, <1>6, <1>7, <1>8, <1>9, Together

(* Elections that go on, votes and requests that are no news.              *)
LEMMA RolesCandidates ==
  ASSUME RolesStand
  PROVE  /\ CandidatesStand
         /\ \A i \in Server : state'[i] = Leader =>
              state[i] = Leader /\ currentTerm'[i] = currentTerm[i]
  BY DEF RolesStand, RoleKept, CandidatesStand

LEMMA VotersStill ==
  ASSUME Moves, LogsMove, CandidatesStand,
         \A c \in Server : state'[c] = Candidate =>
           state[c] = Candidate /\ currentTerm'[c] = currentTerm[c],
         \A p \in Server : \/ votedFor'[p] = None
                           \/ votedFor'[p] = votedFor[p] /\ currentTerm'[p] = currentTerm[p]
  PROVE  VotersInv'
  <1>1. votes' = votes
    <2>1. \A p \in Server : votedFor'[p] # None =>
            <<currentTerm'[p], p, votedFor'[p]>> \in votes
      BY DEF Moves, VInv, VotesInv, VotesOK
    <2>2. Held' \subseteq votes
      BY <2>1 DEF Held
    <2> QED
      BY <2>2 DEF Moves, Record
  <1> QED
    BY <1>1, VotersKept

LEMMA AskingStill ==
  ASSUME Moves, LedGrows, LedInv', LogsMove,
         \A c \in Server : state'[c] = Candidate =>
           state[c] = Candidate /\ currentTerm'[c] = currentTerm[c],
         \A m \in rpcs' \ rpcs : m.type # "RequestVote"
  PROVE  AskingInv'
  <1>1. \A m \in rpcs' : m.from \in Server
    BY Types, MessageFields
  <1> QED
    BY <1>1, AskingKept

(* Neither an election nor a vote: what is left of a step of which logs    *)
(* and commitIndex are no part.                                            *)
LEMMA RoundKeeps ==
  ASSUME Moves, RolesStand, UNCHANGED <<logs, commitIndex>>,
         \A p \in Server : \/ votedFor'[p] = None
                           \/ votedFor'[p] = votedFor[p] /\ currentTerm'[p] = currentTerm[p],
         \A i \in Server : state'[i] = Leader =>
           matchIndex'[i] = matchIndex[i] \/ MatchAcked(i)',
         \A i \in Server : \A msg \in snapCh'[i] :
           \/ msg \in snapCh[i]
           \/ CommittedNext(msg.SnapshotIndex, msg.SnapshotTerm, currentTerm'[i]),
         \A m \in rpcs' \ rpcs : m.type # "RequestVote" /\ MessageInv(m)'
  PROVE  HistoryInv'
  <1>1. /\ CandidatesStand
        /\ \A i \in Server : state'[i] = Leader =>
             state[i] = Leader /\ currentTerm'[i] = currentTerm[i]
        /\ \A c \in Server : state'[c] = Candidate =>
             state[c] = Candidate /\ currentTerm'[c] = currentTerm[c]
    BY RolesCandidates DEF RolesStand, RoleKept
  <1>2. LedInv' /\ LedGrows
    BY <1>1, LedStays
  <1>3. LogsMove
    BY <1>2, LogsStill
  <1>4. VotersInv' /\ AskingInv'
    BY <1>1, <1>2, <1>3, VotersStill, AskingStill
  <1> QED
    BY <1>1, <1>4, StillKeeps

-----------------------------------------------------------------------------
(* The steps of an election.                                               *)
LEMMA LastTermAt ==
  ASSUME NEW log, IsLog(log)
  PROVE  TermAt(log, Last(log)) = getLastLog(log).Term
  BY LogShape DEF TermAt, EntryAt, getLastLog

LEMMA LastLed ==
  ASSUME LedInv, NEW log, IsLog(log), NEW v, Sound(log) \/ Junk(log, v)
  PROVE  Led(TermAt(log, Last(log)), Last(log), TermAt(log, Last(log)))
  <1>1. Last(log) \in First(log) .. Last(log) /\ First(log) \in Nat /\ Last(log) \in Nat
    BY LogTerms
  <1>2. CASE Sound(log)
    BY <1>1, <1>2, SoundTerms
  <1>3. CASE Junk(log, v)
    <2>1. Last(log) \in First(log) + 1 .. Last(log)
      BY <1>1, <1>3 DEF Junk
    <2> QED
      BY <1>3, <2>1 DEF Junk
  <1> QED
    BY <1>2, <1>3

LEMMA CandidateKeeps ==
  ASSUME Moves, NEW i \in Server, NEW k \in Nat, NEW t \in Nat, Choosable(k, t), Led(t, k, t),
         \/ t < getLastLog(logs[i]).Term
         \/ t = getLastLog(logs[i]).Term /\ k <= Last(logs[i])
  PROVE  Keeps(logs[i], k, t)
  <1>1. IsLog(logs[i]) /\ currentTerm[i] \in Nat
        /\ (Sound(logs[i]) \/ Junk(logs[i], currentTerm[i]))
    BY Types, Invariants DEF LogsInv, LogSound
  <1>2. TermAt(logs[i], Last(logs[i])) = getLastLog(logs[i]).Term
    BY <1>1, LastTermAt
  <1> QED
    BY <1>1, <1>2, Invariants, LastKeeps

LEMMA StartElectionKeeps ==
  ASSUME Moves, NEW i \in Server, StartElection(i)
  PROVE  HistoryInv'
  <1> DEFINE term == currentTerm[i] + 1
             requests == { RequestVoteRequest(i, p, term) : p \in Server \ {i} }
  <1>1. /\ state' = [state EXCEPT ![i] = Candidate]
        /\ currentTerm' = [currentTerm EXCEPT ![i] = term]
        /\ votedFor' = [votedFor EXCEPT ![i] = i]
        /\ rpcs' = rpcs \cup requests
        /\ UNCHANGED <<logs, commitIndex, matchIndex, snapCh>>
    BY DEF StartElection, ChangeState, InFlight
  <1>2. /\ state'[i] = Candidate /\ currentTerm'[i] = term /\ votedFor'[i] = i
        /\ currentTerm[i] \in Nat /\ term \in Nat /\ currentTerm[i] < term
        /\ \A j \in Server \ {i} : /\ state'[j] = state[j] /\ currentTerm'[j] = currentTerm[j]
                                   /\ votedFor'[j] = votedFor[j]
    BY <1>1, Types DEF Moves, VInv, IInv, TypeOK
  <1>3. /\ \A m \in requests : /\ m.type = "RequestVote" /\ m.from = i /\ m.Term = term
                               /\ m.LastLogIndex = Last(logs[i])
                               /\ m.LastLogTerm = getLastLog(logs[i]).Term
    BY DEF RequestVoteRequest
  <1> HIDE DEF term, requests
  <1>4. CandidatesStand
    BY <1>2 DEF CandidatesStand
  <1>5. \A j \in Server : state'[j] = Leader => /\ state[j] = Leader /\ j # i
                                                /\ currentTerm'[j] = currentTerm[j]
    BY <1>2 DEF Candidate, Leader
  <1>6. LedInv' /\ LedGrows /\ LogsMove
    BY <1>1, <1>5, LedStays, LogsStill
  <1>7. ASSUME NEW v, NEW p \in Server, NEW c \in Server, <<v, p, c>> \in votes',
               <<v, p, c>> \notin votes
        PROVE  v = term /\ p = i /\ c = i
    <2>1. v = currentTerm'[p] /\ c = votedFor'[p] /\ c # None
      BY <1>7, NewVotes DEF Moves, Record, Recorded, VInv, IInv
    <2>2. ASSUME p # i PROVE FALSE
      <3>1. votedFor[p] # None /\ v = currentTerm[p] /\ c = votedFor[p]
        BY <1>2, <2>1, <2>2
      <3> QED
        BY <1>7, <3>1 DEF Moves, VInv, VotesInv, VotesOK
    <2> QED
      BY <1>2, <2>1, <2>2
  <1>8. VotersInv'
    <2>1. \A v \in Nat, p, c \in Server :
            <<v, p, c>> \in votes' => <<v, p, c>> \in votes \/ v <= currentTerm'[c]
      BY <1>2, <1>7
    <2>2. ASSUME NEW c \in Server, NEW p \in Server, state'[c] = Candidate,
                 <<currentTerm'[c], p, c>> \in votes'
          PROVE  \/ /\ state[c] = Candidate /\ currentTerm'[c] = currentTerm[c]
                    /\ <<currentTerm[c], p, c>> \in votes
                 \/ \A k, t \in Nat : Acked(p, k, t) /\ t < currentTerm'[c] /\ Choosable(k, t) =>
                      Keeps(logs'[c], k, t)
      <3>1. CASE c # i
        BY <1>2, <1>7, <2>2, <3>1
      <3>2. CASE c = i /\ p = i
        BY <1>1, <3>2, Invariants DEF AcksInv
      <3>3. CASE c = i /\ p # i
        <4>1. <<term, p, i>> \in votes
          BY <1>2, <1>7, <2>2, <3>3
        <4>2. term <= currentTerm[i]
          BY <1>2, <4>1, Invariants DEF VotersInv
        <4> QED
          BY <1>2, <4>2
      <3> QED
        BY <3>1, <3>2, <3>3
    <2> QED
      BY <1>6, <2>1, <2>2, VotersKept
  <1>9. AskingInv'
    <2> SUFFICES ASSUME NEW m \in rpcs', m.type = "RequestVote", state'[m.from] = Candidate,
                        currentTerm'[m.from] = m.Term
                 PROVE  \/ m \in rpcs /\ state[m.from] = Candidate /\ currentTerm[m.from] = m.Term
                        \/ /\ Led(m.LastLogTerm, m.LastLogIndex, m.LastLogTerm)
                           /\ \A k, t \in Nat :
                                /\ Led(t, k, t) /\ t < m.Term /\ Choosable(k, t)
                                /\ t < m.LastLogTerm \/ (t = m.LastLogTerm /\ k <= m.LastLogIndex)
                                => Keeps(logs'[m.from], k, t)
      BY <1>6, AskingKept
    <2>1. m.from \in Server /\ m.Term \in Nat
      BY Types, MessageFields DEF Requests
    <2>2. CASE m \in rpcs
      <3>1. m.Term <= currentTerm[m.from]
        BY <2>2 DEF Moves, VInv, VotesInv, AllAskedOK, AskedOK, VoteTypes, SentTerm, Sender, Requests
      <3>2. m.from # i
        BY <1>2, <2>1, <3>1
      <3> QED
        BY <1>2, <2>1, <2>2, <3>2
    <2>3. CASE m \notin rpcs
      <3>1. /\ m.from = i /\ m.LastLogIndex = Last(logs[i])
            /\ m.LastLogTerm = getLastLog(logs[i]).Term
        BY <1>1, <1>3, <2>3
      <3>2. IsLog(logs[i]) /\ (Sound(logs[i]) \/ Junk(logs[i], currentTerm[i]))
        BY Types, Invariants DEF LogsInv, LogSound
      <3>3. Led(m.LastLogTerm, m.LastLogIndex, m.LastLogTerm)
        BY <3>1, <3>2, Invariants, LastLed, LastTermAt
      <3> QED
        BY <1>1, <3>1, <3>3, CandidateKeeps
    <2> QED
      BY <2>2, <2>3
  <1>10. \A m \in rpcs' \ rpcs : MessageInv(m)'
    BY <1>1, <1>3 DEF MessageInv
  <1> QED
    BY <1>1, <1>4, <1>5, <1>8, <1>9, <1>10, StillKeeps

(* A peer that grants its vote has an older log than the candidate: what   *)
(* it acknowledged is in the candidate's.                                  *)
LEMMA RequestVoteKeeps ==
  ASSUME Moves, NEW m \in rpcs, RequestVote(m)
  PROVE  HistoryInv'
  <1> DEFINE i == m.to
             Granted == /\ votedFor'[i] = m.from /\ currentTerm'[i] = m.Term
                        /\ isLogUpToDate(logs[i], m.LastLogTerm, m.LastLogIndex)
  <1>1. TypeOK /\ VotePersisted
    BY DEF Moves, VInv, VotesInv, IInv
  <1>2. /\ VotesStand /\ RolesStand
        /\ m.type = "RequestVote" /\ m.from \in Server /\ i \in Server /\ m.Term \in Nat
        /\ m.LastLogIndex \in Nat /\ m.LastLogTerm \in Nat
    BY <1>1, RequestVoteSteps, Types, MessageFields
  <1>3. \E term \in {currentTerm[m.to], m.Term}, granted \in BOOLEAN :
          rpcs' = (rpcs \ {m}) \cup {RequestVoteResponse(m, term, granted)}
    BY <1>1, RequestVoteSteps
  <1>4. UNCHANGED <<logs, commitIndex, matchIndex, snapCh>>
    BY DEF RequestVote
  <1>5. /\ \A p \in Server \ {i} : votedFor'[p] = votedFor[p] /\ currentTerm'[p] = currentTerm[p]
        /\ \/ votedFor'[i] = None
           \/ votedFor'[i] = votedFor[i] /\ currentTerm'[i] = currentTerm[i]
           \/ Granted
    BY <1>1, <1>2 DEF RequestVote, catchUp, adoptTerm, TypeOK
  <1> HIDE DEF i
  <1>6. /\ CandidatesStand
        /\ \A j \in Server : state'[j] = Leader =>
             state[j] = Leader /\ currentTerm'[j] = currentTerm[j]
        /\ \A c \in Server : state'[c] = Candidate =>
             state[c] = Candidate /\ currentTerm'[c] = currentTerm[c]
    BY <1>2, RolesCandidates DEF RolesStand, RoleKept
  <1>7. LedInv' /\ LedGrows /\ LogsMove
    BY <1>4, <1>6, LedStays, LogsStill
  <1>8. \A n \in rpcs' \ rpcs : n.type = "RequestVoteReply"
    BY <1>3 DEF RequestVoteResponse
  <1>9. ASSUME NEW v, NEW p \in Server, NEW c \in Server, <<v, p, c>> \in votes',
               <<v, p, c>> \notin votes
        PROVE  v = m.Term /\ p = i /\ c = m.from /\ Granted
    <2>1. v = currentTerm'[p] /\ c = votedFor'[p] /\ c # None
      BY <1>9, NewVotes DEF Moves, Record, Recorded, VInv, IInv
    <2>2. ASSUME votedFor'[p] = votedFor[p] /\ currentTerm'[p] = currentTerm[p] PROVE FALSE
      BY <1>9, <2>1, <2>2 DEF Moves, VInv, VotesInv, VotesOK
    <2> QED
      BY <1>5, <2>1, <2>2
  <1>10. m.Term <= currentTerm[m.from]
    BY <1>2 DEF Moves, VInv, VotesInv, AllAskedOK, AskedOK, VoteTypes, SentTerm, Sender, Requests
  <1>11. VotersInv'
    <2>1. ASSUME NEW v \in Nat, NEW p \in Server, NEW c \in Server, <<v, p, c>> \in votes'
          PROVE  <<v, p, c>> \in votes \/ v <= currentTerm'[c]
      <3>1. currentTerm[m.from] \in Nat /\ currentTerm'[m.from] \in Nat
            /\ currentTerm[m.from] <= currentTerm'[m.from]
        BY <1>2, Types DEF Moves
      <3> QED
        BY <1>2, <1>9, <1>10, <2>1, <3>1
    <2>2. ASSUME NEW c \in Server, NEW p \in Server, state'[c] = Candidate,
                 <<currentTerm'[c], p, c>> \in votes',
                 <<currentTerm[c], p, c>> \notin votes,
                 NEW k \in Nat, NEW t \in Nat, Acked(p, k, t), t < currentTerm'[c], Choosable(k, t)
          PROVE  Keeps(logs'[c], k, t)
      <3>1. /\ state[c] = Candidate /\ currentTerm'[c] = currentTerm[c]
            /\ currentTerm[c] = m.Term /\ p = i /\ c = m.from /\ Granted
        BY <1>6, <1>9, <2>2
      <3> DEFINE n == Last(logs[i])
                 tn == TermAt(logs[i], n)
      <3>2. Led(t, k, t) /\ Keeps(logs[i], k, t) /\ t <= tn
        BY <2>2, <3>1, Invariants DEF AcksInv
      <3>3. /\ First(logs[i]) \in Nat /\ n \in Nat /\ First(logs[i]) <= n /\ tn \in Nat
            /\ tn = getLastLog(logs[i]).Term
        <4>1. IsLog(logs[i])
          BY <1>2, Types
        <4> QED
          BY <4>1, LogTerms, LastTermAt
      <3>4. m.LastLogTerm > tn \/ (m.LastLogTerm = tn /\ m.LastLogIndex >= n)
        BY <3>1, <3>3 DEF isLogUpToDate, Last
      <3>5. k <= n
        BY <3>2, <3>3 DEF Keeps, matchLog
      <3> HIDE DEF n, tn
      <3>6. t < m.LastLogTerm \/ (t = m.LastLogTerm /\ k <= m.LastLogIndex)
        BY <1>2, <3>2, <3>3, <3>4, <3>5
      <3>7. Keeps(logs[c], k, t)
        BY <1>2, <2>2, <3>1, <3>2, <3>6, Invariants DEF AskingInv
      <3> QED
        BY <1>4, <3>7
    <2>3. ASSUME NEW c \in Server, NEW p \in Server, state'[c] = Candidate,
                 <<currentTerm'[c], p, c>> \in votes'
          PROVE  \/ /\ state[c] = Candidate /\ currentTerm'[c] = currentTerm[c]
                    /\ <<currentTerm[c], p, c>> \in votes
                 \/ \A k, t \in Nat : Acked(p, k, t) /\ t < currentTerm'[c] /\ Choosable(k, t) =>
                      Keeps(logs'[c], k, t)
      BY <1>6, <2>2, <2>3
    <2> QED
      BY <1>7, <2>1, <2>3, VotersKept
  <1>12. AskingInv'
    BY <1>6, <1>7, <1>8, AskingStill
  <1>13. \A n \in rpcs' \ rpcs : MessageInv(n)'
    BY <1>8 DEF MessageInv
  <1> QED
    BY <1>4, <1>6, <1>11, <1>12, <1>13, StillKeeps

(* Messages that are lost.                                                 *)
LEMMA StandsStill ==
  ASSUME UNCHANGED <<state, currentTerm, grantedVotes>>
  PROVE  RolesStand
  BY DEF RolesStand, RoleKept

LEMMA DropKeeps ==
  ASSUME Moves, UNCHANGED <<volatile, hardState>>, rpcs' \subseteq rpcs
  PROVE  HistoryInv'
  <1>1. UNCHANGED <<state, currentTerm, votedFor, logs, commitIndex, matchIndex, grantedVotes, snapCh>>
    BY DEF volatile, hardState
  <1>2. \A m \in rpcs' \ rpcs : m.type # "RequestVote" /\ MessageInv(m)'
    OBVIOUS
  <1> QED
    BY <1>1, <1>2, StandsStill, RoundKeeps

(* A leader's requests: what they say is in its log, and committed.        *)
LEMMA ReplicateOneRoundKeeps ==
  ASSUME Moves, NEW i \in Server, NEW p \in Server, ReplicateOneRound(i, p)
  PROVE  HistoryInv'
  <1> DEFINE prev == nextIndex[i][p] - 1
             install == InstallSnapshotRequest(i, p)
             append == AppendEntriesRequest(i, p, prev)
             n == Last(logs[i])
             f == First(logs[i])
             T == currentTerm[i]
  <1>1. /\ state[i] = Leader
        /\ UNCHANGED <<state, currentTerm, votedFor, logs, commitIndex, matchIndex, grantedVotes,
                       snapCh>>
        /\ rpcs' = rpcs \cup { IF prev < f THEN install ELSE append }
    BY DEF ReplicateOneRound, InFlight, volatile, hardState
  <1>2. nextIndex[i][p] \in Int /\ nextIndex[i][p] <= n + 1
    BY <1>1, Types DEF Moves, VInv, IInv, NextInLog
  <1>3. /\ IsLog(logs[i]) /\ T \in Nat /\ commitIndex[i] \in Nat /\ f <= commitIndex[i]
        /\ LeaderLed(i) /\ CommitSound(i)
    BY <1>1, Types, Invariants DEF LeaderInv, CommitInv
  <1>4. f \in Nat /\ n \in Nat /\ f <= n /\ prev \in Int /\ prev <= n
    BY <1>2, <1>3, LogEnds
  <1> HIDE DEF prev, n, f, T
  <1>5. ASSUME prev < f, NEW m, m = install
        PROVE  m.type = "InstallSnapshot" /\ MessageInv(m)'
    <2> DEFINE t == TermAt(logs[i], f)
    <2>1. /\ m.type = "InstallSnapshot" /\ m.from = i /\ m.Term = T
          /\ m.LastIncludedIndex = f /\ m.LastIncludedTerm = t
      BY <1>4, <1>5 DEF InstallSnapshotRequest, TermAt, EntryAt, getFirstLog, T, f
    <2>2. f \in f .. n /\ t \in Nat /\ currentTerm'[i] = T
      BY <1>1, <1>3, <1>4, TermInLog DEF f, n, T
    <2>3. CommittedNext(f, t, T)
      BY <1>1, <1>3, <2>2, EntryStays DEF f, n, T
    <2>4. <<T, 0, 0>> \in led'
      BY <1>3, Grows DEF LeaderLed, Elected, Led, T
    <2>5. f = First(logs'[i])
      BY <1>1 DEF f
    <2> HIDE DEF t, install
    <2>6. CommittedIn(m.LastIncludedIndex, m.LastIncludedTerm, m.Term)'
      BY <2>1, <2>3 DEF CommittedNext, CommittedIn, Led
    <2>7. SnapshotOf(m.from, m.Term, m.LastIncludedIndex)'
      BY <1>4, <2>1, <2>4, <2>5 DEF SnapshotOf, Elected, Led
    <2> QED
      BY <2>1, <2>6, <2>7 DEF MessageInv, InstallSnapshotInv
  <1>6. ASSUME f <= prev, NEW m, m = append
        PROVE  m.type = "AppendEntries" /\ MessageInv(m)'
    <2> DEFINE entries == From(logs[i], prev + 1)
    <2>1. /\ m.type = "AppendEntries" /\ m.Term = T /\ m.PrevLogIndex = prev
          /\ m.PrevLogTerm = TermAt(logs[i], prev) /\ m.Entries = entries
          /\ m.LeaderCommit = commitIndex[i]
      BY <1>6 DEF AppendEntriesRequest, T
    <2>2. /\ prev + 1 \in f .. n + 1 /\ prev \in f .. n
          /\ (n + 1) - (prev + 1) = n - prev /\ \A j \in Nat : (prev + 1) + j - 1 = prev + j
      BY <1>4, <1>6
    <2>3. /\ Len(entries) = n - prev
          /\ \A j \in 1 .. Len(entries) : entries[j] = EntryAt(logs[i], prev + j)
      <3>1. PICK x : x = prev + 1
        OBVIOUS
      <3>2. x \in First(logs[i]) .. Last(logs[i]) + 1 /\ entries = From(logs[i], x)
        BY <2>2, <3>1 DEF f, n
      <3> HIDE DEF entries
      <3>3. /\ Len(entries) = Last(logs[i]) + 1 - x
            /\ \A j \in 1 .. Len(entries) : entries[j] = EntryAt(logs[i], x + j - 1)
        BY <1>3, <3>2, FromFollows
      <3>4. Last(logs[i]) = n /\ n + 1 - x = n - prev
        BY <1>4, <3>1 DEF n
      <3>5. \A j \in Nat : x + j - 1 = prev + j
        BY <1>4, <3>1
      <3>6. Len(entries) = n - prev /\ n - prev \in Int
        BY <1>4, <3>3, <3>4
      <3> QED
        BY <3>3, <3>5, <3>6
    <2> HIDE DEF entries
    <2>4. \A j \in 1 .. Len(entries) : prev + j \in f .. n
                                       /\ entries[j].Term = TermAt(logs[i], prev + j)
      BY <1>4, <2>2, <2>3 DEF TermAt
    <2>5. \A k \in f .. n : Led(T, k, TermAt(logs[i], k))
      BY <1>3 DEF LeaderLed, f, n, T
    <2>6. commitIndex[i] <= n
      BY <1>3 DEF CommitSound, n
    <2>7. CommittedTo(commitIndex[i], T)
      <3>1. CommittedIn(commitIndex[i], TermAt(logs[i], commitIndex[i]), T)
        BY <1>3, <1>4 DEF CommitSound, f, T
      <3> QED
        BY <3>1 DEF CommittedIn, CommittedTo
    <2>8. /\ Led(m.Term, m.PrevLogIndex, m.PrevLogTerm)
          /\ \A j \in 1 .. Len(m.Entries) : Led(m.Term, m.PrevLogIndex + j, m.Entries[j].Term)
          /\ m.LeaderCommit <= m.PrevLogIndex + Len(m.Entries)
          /\ CommittedTo(m.LeaderCommit, m.Term)
      <3>1. /\ Led(T, prev, TermAt(logs[i], prev))
            /\ \A j \in 1 .. Len(entries) : Led(T, prev + j, entries[j].Term)
        BY <2>2, <2>4, <2>5
      <3>2. prev + Len(entries) = n
        BY <1>4, <2>3
      <3> QED
        BY <2>1, <2>6, <2>7, <3>1, <3>2
    <2>9. CommittedTo(m.LeaderCommit, m.Term)'
      BY <1>3, <2>1, <2>8, CommittedToStays
    <2>10. AppendEntriesInv(m)'
      BY <2>8, <2>9, Grows DEF AppendEntriesInv
    <2> QED
      BY <2>1, <2>10 DEF MessageInv
  <1>7. ASSUME NEW m \in rpcs' \ rpcs PROVE m.type # "RequestVote" /\ MessageInv(m)'
    <2>1. m = IF prev < f THEN install ELSE append
      BY <1>1, <1>7 DEF prev, f
    <2>2. CASE prev < f
      BY <1>5, <2>1, <2>2
    <2>3. CASE ~(prev < f)
      BY <1>4, <1>6, <2>1, <2>3
    <2> QED
      BY <2>2, <2>3
  <1> QED
    BY <1>1, <1>7, StandsStill, RoundKeeps

(* Requests and replies that change neither a log nor a commitIndex.       *)
LEMMA RoundStays ==
  ASSUME Moves, RolesStand, UNCHANGED <<logs, commitIndex>>, NEW m \in rpcs
  PROVE  MessageInv(m)'
  <1>1. \A i \in Server : state'[i] = Leader =>
          state[i] = Leader /\ currentTerm'[i] = currentTerm[i]
    BY RolesCandidates
  <1>2. LedGrows /\ LogsMove
    BY <1>1, LedStays, LogsStill
  <1>3. LeadersStand
    BY <1>1, Types DEF LeadersStand
  <1> QED
    BY <1>2, <1>3, MessageStays

LEMMA InstallSnapshotKeeps ==
  ASSUME Moves, NEW m \in rpcs, InstallSnapshot(m)
  PROVE  HistoryInv'
  <1> DEFINE i == m.to
             msg == [SnapshotIndex |-> m.LastIncludedIndex, SnapshotTerm |-> m.LastIncludedTerm,
                     Snapshot |-> m.Data]
             reply == InstallSnapshotResponse(m, currentTerm[i])
  <1>1. TypeOK /\ VotePersisted
    BY DEF Moves, VInv, VotesInv, IInv
  <1>2. /\ RolesStand /\ m.type = "InstallSnapshot" /\ i \in Server /\ m.from \in Server
        /\ m.Term \in Nat /\ m.LastIncludedIndex \in Nat /\ m.LastIncludedTerm \in Nat
    BY <1>1, InstallSnapshotQuiet, Types, MessageFields DEF Quiet, InstallSnapshot, Requests
  <1>3. /\ UNCHANGED <<logs, commitIndex, matchIndex>>
        /\ rpcs' \ rpcs \subseteq {reply}
    BY DEF InstallSnapshot, AnswerOne, Received, InFlight
  <1>4. \A p \in Server : \/ votedFor'[p] = None
                          \/ votedFor'[p] = votedFor[p] /\ currentTerm'[p] = currentTerm[p]
    BY <1>1, <1>2 DEF InstallSnapshot, catchUp, adoptTerm, TypeOK
  <1>5. MessageInv(m) /\ MessageInv(m)'
    BY <1>2, <1>3, RoundStays, Invariants DEF MessagesInv
  <1>6. \/ snapCh' = snapCh
        \/ /\ m.Term <= currentTerm'[i]
           /\ snapCh' = [snapCh EXCEPT ![i] = @ \cup {msg}]
    <2>1. \/ snapCh' = snapCh
          \/ /\ m.Term >= currentTerm[i] /\ catchUp(i, m.Term)
             /\ snapCh' = [snapCh EXCEPT ![i] = @ \cup {msg}]
      BY DEF InstallSnapshot
    <2>2. ASSUME m.Term >= currentTerm[i], catchUp(i, m.Term) PROVE m.Term <= currentTerm'[i]
      <3>1. currentTerm \in [Server -> Nat]
        BY Types
      <3>2. CASE m.Term > currentTerm[i]
        BY <1>2, <2>2, <3>1, <3>2 DEF catchUp, adoptTerm
      <3>3. CASE ~(m.Term > currentTerm[i])
        BY <1>2, <2>2, <3>1, <3>3 DEF catchUp, adoptTerm
      <3> QED
        BY <3>2, <3>3
    <2> QED
      BY <2>1, <2>2
  <1>7. /\ reply.type = "InstallSnapshotReply" /\ reply.to = m.from /\ reply.reqTerm = m.Term
        /\ reply.LastIncludedIndex = m.LastIncludedIndex
        /\ msg.SnapshotIndex = m.LastIncludedIndex /\ msg.SnapshotTerm = m.LastIncludedTerm
    BY DEF InstallSnapshotResponse
  <1> HIDE DEF reply, msg, i
  <1>8. ASSUME NEW r \in rpcs' \ rpcs PROVE r.type # "RequestVote" /\ MessageInv(r)'
    <2>1. /\ r.type = "InstallSnapshotReply" /\ r.to = m.from /\ r.reqTerm = m.Term
          /\ r.LastIncludedIndex = m.LastIncludedIndex
      BY <1>3, <1>7, <1>8
    <2>2. SnapshotOf(m.from, m.Term, m.LastIncludedIndex)'
      BY <1>2, <1>5 DEF MessageInv, InstallSnapshotInv
    <2> QED
      BY <2>1, <2>2 DEF MessageInv
  <1>9. ASSUME NEW j \in Server, NEW n \in snapCh'[j], n \notin snapCh[j]
        PROVE  CommittedNext(n.SnapshotIndex, n.SnapshotTerm, currentTerm'[j])
    <2>1. j = i /\ n = msg /\ m.Term <= currentTerm'[j]
      <3>1. DOMAIN snapCh = Server
        BY Types
      <3>2. \/ snapCh'[j] = snapCh[j]
            \/ j = i /\ m.Term <= currentTerm'[i] /\ snapCh'[j] = snapCh[j] \cup {msg}
        BY <1>6, <3>1
      <3> QED
        BY <1>9, <3>2
    <2>2. CommittedIn(m.LastIncludedIndex, m.LastIncludedTerm, m.Term)
      BY <1>2, <1>5 DEF MessageInv, InstallSnapshotInv
    <2>3. CommittedNext(m.LastIncludedIndex, m.LastIncludedTerm, currentTerm'[j])
      <3>1. PICK w \in Nat : w = currentTerm'[j]
        BY Types
      <3> QED
        BY <1>2, <2>1, <2>2, <3>1, CommittedOn
    <2> QED
      BY <1>7, <2>1, <2>3
  <1> QED
    BY <1>2, <1>3, <1>4, <1>8, <1>9, RoundKeeps

(* A leader counts a follower's snapshot, which its own log begins with or *)
(* above: nothing there is left to be committed.                           *)
LEMMA StepDownKeeps ==
  ASSUME Moves, RolesStand, NEW i \in Server, NEW term \in Nat, stepDown(i, term),
         UNCHANGED snapCh, rpcs' \subseteq rpcs
  PROVE  HistoryInv'
  <1>1. UNCHANGED <<logs, commitIndex, matchIndex>>
    BY DEF stepDown
  <1>2. \A p \in Server : \/ votedFor'[p] = None
                          \/ votedFor'[p] = votedFor[p] /\ currentTerm'[p] = currentTerm[p]
    BY DEF stepDown, adoptTerm, Moves, VInv, IInv, TypeOK
  <1> QED
    BY <1>1, <1>2, RoundKeeps

LEMMA HandleInstallSnapshotResponseKeeps ==
  ASSUME Moves, NEW m \in rpcs, HandleInstallSnapshotResponse(m)
  PROVE  HistoryInv'
  <1> DEFINE i == m.to
             p == m.from
             s == m.LastIncludedIndex
             counts == state[i] = Leader /\ currentTerm[i] = m.reqTerm
  <1>1. TypeOK /\ VotePersisted
    BY DEF Moves, VInv, VotesInv, IInv
  <1>2. /\ RolesStand /\ m.type = "InstallSnapshotReply" /\ i \in Server /\ p \in Server
        /\ m.Term \in Nat /\ s \in Nat
    BY <1>1, HandleInstallSnapshotResponseQuiet, Types, MessageFields
    DEF Quiet, HandleInstallSnapshotResponse, Requests
  <1>3. rpcs' \subseteq rpcs /\ UNCHANGED snapCh
    BY DEF HandleInstallSnapshotResponse, ConsumeOne, Received, InFlight
  <1>4. CASE stepDown(i, m.Term)
    BY <1>2, <1>3, <1>4, StepDownKeeps
  <1>5. CASE UNCHANGED <<state, hardState, matchIndex, commitIndex>>
    <2>1. UNCHANGED <<votedFor, currentTerm, logs>>
      BY <1>5 DEF hardState
    <2> QED
      BY <1>2, <1>3, <1>5, <2>1, RoundKeeps
  <1>6. CASE /\ counts /\ matchIndex' = [matchIndex EXCEPT ![i][p] = s]
             /\ UNCHANGED <<state, hardState, commitIndex>>
    <2>1. UNCHANGED <<votedFor, currentTerm, logs>>
      BY <1>6 DEF hardState
    <2>2. s <= First(logs[i]) /\ First(logs[i]) <= commitIndex[i] /\ s <= Last(logs[i])
          /\ First(logs[i]) \in Nat /\ commitIndex[i] \in Nat /\ Last(logs[i]) \in Nat
      <3>1. s <= First(logs[i])
        BY <1>2, <1>6, Invariants DEF MessagesInv, MessageInv, SnapshotOf
      <3>2. First(logs[i]) <= Last(logs[i]) /\ First(logs[i]) \in Nat /\ Last(logs[i]) \in Nat
        BY <1>2, Types, LogEnds
      <3> QED
        BY <1>2, <3>1, <3>2, Types
    <2>3. ASSUME NEW q \in Server
          PROVE  /\ matchIndex'[i][q] <= Last(logs'[i])
                 /\ \A k \in Nat : /\ commitIndex'[i] < k /\ k <= matchIndex'[i][q]
                                   /\ <<currentTerm'[i], k, currentTerm'[i]>> \in led'
                      => <<q, k, currentTerm'[i]>> \in acks'
      <3>1. matchIndex'[i][q] = IF q = p THEN s ELSE matchIndex[i][q]
        BY <1>1, <1>2, <1>6 DEF TypeOK
      <3>2. CASE q = p
        <4>1. /\ matchIndex'[i][q] = s /\ commitIndex'[i] = commitIndex[i]
              /\ Last(logs'[i]) = Last(logs[i])
          BY <1>6, <2>1, <3>1, <3>2
        <4> HIDE DEF s
        <4>2. \A k \in Nat : ~(commitIndex'[i] < k /\ k <= matchIndex'[i][q])
          BY <1>2, <2>2, <4>1
        <4> QED
          BY <2>2, <4>1, <4>2
      <3>3. CASE q # p
        <4>1. led' = led
          BY <1>6, <2>1, LedStays
        <4>2. MatchAcked(i)
          BY <1>2, <1>6, Invariants DEF MatchInv
        <4> QED
          BY <1>6, <2>1, <3>1, <3>3, <4>1, <4>2, Grows DEF MatchAcked, Led, Acked
      <3> QED
        BY <3>2, <3>3
    <2>4. MatchAcked(i)'
      BY <1>2, <2>3, MatchAfter
    <2>5. \A j \in Server : j # i => matchIndex'[j] = matchIndex[j]
      BY <1>1, <1>2, <1>6 DEF TypeOK
    <2> HIDE DEF i
    <2> QED
      BY <1>2, <1>3, <1>6, <2>1, <2>4, <2>5, RoundKeeps
  <1> QED
    BY <1>4, <1>5, <1>6 DEF HandleInstallSnapshotResponse

(* The steps that change the log or the commitIndex of one peer.           *)
LEMMA OneLogMoves ==
  ASSUME Moves, RolesStand, NEW i \in Server,
         \A j \in Server \ {i} : logs'[j] = logs[j],
         state'[i] = Leader => Last(logs'[i]) = Last(logs[i])
  PROVE  led' = led /\ LedInv' /\ LedGrows
  <1>1. \A j \in Server : state'[j] = Leader =>
          state[j] = Leader /\ Last(logs'[j]) = Last(logs[j])
    BY DEF RolesStand, RoleKept
  <1> QED
    BY <1>1, LedStays

LEMMA OneLogKeeps ==
  ASSUME Moves, RolesStand, NEW i \in Server,
         \A j \in Server \ {i} : logs'[j] = logs[j] /\ commitIndex'[j] = commitIndex[j],
         \A p \in Server : \/ votedFor'[p] = None
                           \/ votedFor'[p] = votedFor[p] /\ currentTerm'[p] = currentTerm[p],
         \A j \in Server \ {i} : matchIndex'[j] = matchIndex[j],
         \A j \in Server : \A msg \in snapCh'[j] : msg \in snapCh[j],
         \A m \in rpcs' \ rpcs : m.type # "RequestVote" /\ MessageInv(m)',
         LogSound(i)', KeepsOn(logs[i], logs'[i]), First(logs[i]) <= First(logs'[i]),
         CommitSound(i)',
         state'[i] = Leader => /\ Last(logs'[i]) = Last(logs[i])
                               /\ commitIndex[i] <= commitIndex'[i]
                               /\ LeaderLed(i)' /\ MatchAcked(i)',
         \A k, t \in Nat :
           /\ state'[i] = Leader /\ commitIndex'[i] = k /\ currentTerm'[i] = t
           /\ matchLog(logs'[i], t, k)
           => \/ <<k, t>> \in chosen
              \/ /\ Led(t, k, t)'
                 /\ Majority({ p \in Server : Acked(p, k, t)' })
  PROVE  HistoryInv'
  <1>1. led' = led /\ LedInv' /\ LedGrows
    BY OneLogMoves
  <1>2. /\ CandidatesStand
        /\ \A j \in Server : state'[j] = Leader =>
             state[j] = Leader /\ currentTerm'[j] = currentTerm[j]
        /\ \A c \in Server : state'[c] = Candidate =>
             state[c] = Candidate /\ currentTerm'[c] = currentTerm[c]
    BY RolesCandidates DEF RolesStand, RoleKept
  <1>3. LogsMove /\ LogsInv'
    BY <1>1, LogStays DEF LogsMove, LogsInv
  <1>4. VotersInv' /\ AskingInv'
    BY <1>1, <1>2, <1>3, VotersStill, AskingStill
  <1>5. CommitInv'
    <2>1. ASSUME NEW j \in Server PROVE CommitSound(j)'
      BY <2>1, CommitStays
    <2> QED
      BY <2>1 DEF CommitInv
  <1>6. \A j \in Server \ {i} : commitIndex[j] <= commitIndex'[j]
    BY Types
  <1>7. LeadersStand
    BY <1>2, <1>6 DEF LeadersStand
  <1>8. LeaderInv' /\ MatchInv'
    <2>1. ASSUME NEW j \in Server, state'[j] = Leader PROVE LeaderLed(j)' /\ MatchAcked(j)'
      <3>1. CASE j = i
        BY <2>1, <3>1
      <3>2. CASE j # i
        BY <1>1, <1>2, <1>6, <2>1, <3>2, LeaderStays, MatchStays
      <3> QED
        BY <3>1, <3>2
    <2> QED
      BY <2>1 DEF LeaderInv, MatchInv
  <1>9. MessagesInv'
    BY <1>1, <1>3, <1>7, MessagesSound
  <1>10. ChosenInv'
    <2> SUFFICES ASSUME NEW j \in Server, j # i, NEW k \in Nat, NEW t \in Nat, state'[j] = Leader,
                        commitIndex'[j] = k, currentTerm'[j] = t, matchLog(logs'[j], t, k)
                 PROVE  <<k, t>> \in chosen
      BY <1>1, <1>7, ChosenKept
    <2>1. <<k, t>> \in ChosenBy(j)
      BY <1>2 DEF ChosenBy
    <2> QED
      BY <2>1, Invariants DEF ChosenInv
  <1>11. \A u \in Nat : Elected(u)' => Elected(u)
    BY <1>1 DEF Elected, Led
  <1> QED
    BY <1>1, <1>2, <1>3, <1>4, <1>5, <1>8, <1>9, <1>10, <1>11, Together

(* A crash that takes no entry.                                            *)
LEMMA RestartKeeps ==
  ASSUME Moves, ~lost', NEW i \in Server, Restart(i)
  PROVE  HistoryInv'
  <1>1. TypeOK /\ TermPersisted /\ VotePersisted
    BY DEF Moves, VInv, VotesInv, IInv
  <1>2. RolesStand
    BY <1>1, RestartQuiet DEF Quiet
  <1>3. UNCHANGED logs
    <2>1. crashes' # crashes
      BY <1>1 DEF Restart, TypeOK
    <2> QED
      BY <2>1 DEF Moves, Record
  <1>4. /\ commitIndex' = [commitIndex EXCEPT ![i] = First(stable[i].logs)]
        /\ matchIndex' = [matchIndex EXCEPT ![i] = [p \in Server |-> 0]]
        /\ snapCh' = [snapCh EXCEPT ![i] = {}]
        /\ state'[i] = Follower /\ logs'[i] = stable[i].logs
        /\ votedFor' = [votedFor EXCEPT ![i] = stable[i].votedFor]
        /\ currentTerm' = [currentTerm EXCEPT ![i] = stable[i].currentTerm]
        /\ rpcs' \subseteq rpcs
    BY <1>1 DEF Restart, TypeOK
  <1>5. \A j \in Server : votedFor'[j] = votedFor[j] /\ currentTerm'[j] = currentTerm[j]
    BY <1>1, <1>4 DEF TypeOK, VotePersisted, TermPersisted
  <1>6. /\ \A j \in Server \ {i} : commitIndex'[j] = commitIndex[j] /\ matchIndex'[j] = matchIndex[j]
        /\ \A j \in Server : snapCh'[j] \subseteq snapCh[j]
        /\ snapCh'[i] = {} /\ commitIndex'[i] = First(logs[i])
    BY <1>1, <1>3, <1>4 DEF TypeOK
  <1>7. LogSound(i)' /\ KeepsOn(logs[i], logs'[i]) /\ First(logs[i]) <= First(logs'[i])
    <2>1. LedGrows
      BY <1>2, <1>3, OneLogMoves
    <2> QED
      BY <1>3, <2>1, LogStays
  <1>8. CommitSound(i)'
    <2>1. /\ First(logs[i]) \in Nat /\ Last(logs[i]) \in Nat /\ First(logs[i]) <= Last(logs[i])
          /\ First(logs[i]) <= commitIndex[i]
      BY Types, LogEnds
    <2>2. ASSUME NEW k \in First(logs'[i]) .. commitIndex'[i]
          PROVE  CommittedNext(k, TermAt(logs'[i], k), currentTerm'[i])
      <3>1. k = First(logs[i])
        BY <1>3, <1>6, <2>1
      <3>2. k \in First(logs[i]) .. Last(logs[i]) /\ k <= commitIndex[i]
        BY <2>1, <3>1
      <3> QED
        BY <1>3, <3>2, EntryStays
    <2> QED
      BY <1>3, <1>6, <2>1, <2>2, CommitAfter
  <1>9. state'[i] # Leader
    BY <1>4 DEF Follower, Leader
  <1> QED
    BY <1>2, <1>3, <1>4, <1>5, <1>6, <1>7, <1>8, <1>9, OneLogKeeps

(* The service takes a snapshot of what is committed.                      *)
LEMMA SnapshotKeeps ==
  ASSUME Moves, NEW i \in Server, NEW s \in 1 .. MaxSnapshotIndex, Snapshot(i, s)
  PROVE  HistoryInv'
  <1>1. TypeOK /\ VotePersisted
    BY DEF Moves, VInv, VotesInv, IInv
  <1>2. RolesStand
    BY <1>1, OthersQuiet DEF Quiet
  <1>3. /\ First(logs[i]) < s /\ s <= commitIndex[i] /\ s <= Last(logs[i])
        /\ logs' = [logs EXCEPT ![i] = From(logs[i], s)]
        /\ UNCHANGED <<state, commitIndex, matchIndex, snapCh, currentTerm, votedFor, rpcs>>
    BY DEF Snapshot, volatile
  <1>4. /\ logs'[i] = From(logs[i], s)
        /\ \A j \in Server \ {i} : logs'[j] = logs[j]
    BY <1>1, <1>3 DEF TypeOK
  <1>5. PICK log, new : log = logs[i] /\ new = logs'[i]
    OBVIOUS
  <1>6. PICK v \in Nat : v = currentTerm[i]
    BY Types
  <1>7. /\ IsLog(log) /\ IsLog(new) /\ new = From(log, s)
        /\ (Sound(log) \/ Junk(log, v)) /\ s \in Nat
        /\ \A k \in First(log) .. Last(log) : TermAt(log, k) <= v
        /\ \A k \in First(log) .. commitIndex[i] : CommittedIn(k, TermAt(log, k), v)
        /\ commitIndex[i] <= Last(log) /\ commitIndex[i] \in Nat
    BY <1>3, <1>4, <1>5, <1>6, Types, Invariants DEF LogsInv, LogSound, CommitInv, CommitSound
  <1>8. /\ First(log) \in Nat /\ Last(log) \in Nat /\ First(log) <= commitIndex[i]
        /\ s \in First(log) + 1 .. Last(log) /\ s \in First(log) .. Last(log)
        /\ s \in First(log) .. commitIndex[i] /\ First(log) \in First(log) .. commitIndex[i]
    <2>1. First(log) \in Nat /\ Last(log) \in Nat /\ First(log) < s /\ s <= Last(log)
          /\ s <= commitIndex[i] /\ First(log) <= commitIndex[i]
      BY <1>3, <1>5, <1>7, LogEnds, Types
    <2> QED
      BY <1>7, <2>1
  <1>9. Sound(new) /\ KeepsOn(log, new)
    <2>1. CommittedIn(First(log), TermAt(log, First(log)), v) /\ CommittedIn(s, TermAt(log, s), v)
      BY <1>7, <1>8
    <2> QED
      BY <1>7, <1>8, <2>1, Invariants, CutKeeps
  <1>10. /\ First(new) = s /\ Last(new) = Last(log)
         /\ \A k \in s .. Last(log) : TermAt(new, k) = TermAt(log, k)
    BY <1>7, <1>8, FromIsLog
  <1>11. \A k \in First(new) .. Last(new) : k \in First(log) .. Last(log)
                                            /\ TermAt(new, k) = TermAt(log, k)
    BY <1>7, <1>8, <1>10
  <1>12. LogSound(i)'
    <2>1. Sound(new)'
      BY <1>9, SoundStays
    <2>2. \A k \in First(new) .. Last(new) : TermAt(new, k) <= v
      BY <1>7, <1>11
    <2> QED
      BY <1>3, <1>5, <1>6, <2>1, <2>2, LogAfter
  <1>13. CommitSound(i)'
    <2>1. ASSUME NEW k \in First(new) .. commitIndex[i]
          PROVE  CommittedNext(k, TermAt(new, k), currentTerm'[i])
      <3>1. k \in First(log) .. Last(log) /\ k <= commitIndex[i] /\ k \in First(new) .. Last(new)
        BY <1>7, <1>8, <1>10
      <3> QED
        BY <1>5, <1>11, <3>1, EntryStays
    <2>2. \A msg \in snapCh[i] : CommittedNext(msg.SnapshotIndex, msg.SnapshotTerm, currentTerm'[i])
      BY WaitingStays
    <2> QED
      BY <1>3, <1>5, <1>7, <1>10, <2>1, <2>2, CommitAfter
  <1>14. led' = led
    BY <1>2, <1>4, <1>5, <1>10, OneLogMoves
  <1>15. ASSUME state[i] = Leader PROVE LeaderLed(i)' /\ MatchAcked(i)'
    <2>1. LeaderLed(i)
      BY <1>15, Invariants DEF LeaderInv
    <2>2. \A k \in First(new) .. Last(new) : <<v, k, TermAt(new, k)>> \in led'
      BY <1>5, <1>6, <1>11, <1>14, <2>1 DEF LeaderLed, Led
    <2>3. LeaderLed(i)'
      BY <1>3, <1>5, <1>6, <1>10, <1>14, <2>1, <2>2, LeaderAfter DEF LeaderLed, Led, Elected
    <2>4. MatchAcked(i)'
      BY <1>3, <1>5, <1>7, <1>10, <1>14, <1>15, MatchStays
    <2> QED
      BY <2>3, <2>4
  <1>16. ASSUME NEW k \in Nat, NEW t \in Nat, state[i] = Leader, commitIndex[i] = k,
                currentTerm[i] = t, matchLog(new, t, k)
         PROVE  <<k, t>> \in chosen
    <2>1. matchLog(log, t, k)
      <3>1. k \in First(new) .. Last(new)
        BY <1>8, <1>10, <1>16 DEF matchLog
      <3> QED
        BY <1>8, <1>11, <1>16, <3>1 DEF matchLog
    <2>2. <<k, t>> \in ChosenBy(i)
      BY <1>5, <1>16, <2>1 DEF ChosenBy
    <2> QED
      BY <2>2, Invariants DEF ChosenInv
  <1>17. First(logs[i]) <= First(logs'[i])
    BY <1>5, <1>8, <1>10
  <1>18. \A m \in rpcs' \ rpcs : FALSE
    BY <1>3
  <1>19. commitIndex[i] <= commitIndex'[i]
    BY <1>3, <1>7
  <1> QED
    BY <1>2, <1>3, <1>4, <1>5, <1>9, <1>10, <1>12, <1>13, <1>15, <1>16, <1>17, <1>18, <1>19, OneLogKeeps

(* The service installs a snapshot it was offered, which may even be the   *)
(* leader's own peer by then: then it has the entry already.               *)
LEMMA TrimmedOnLeader ==
  ASSUME Moves, NEW i \in Server, state[i] = Leader, NEW s \in Nat, NEW ts \in Nat,
         NEW v \in Nat, v = currentTerm[i], CommittedIn(s, ts, v), commitIndex[i] < s
  PROVE  s <= Last(logs[i]) /\ Led(v, s, ts) /\ ts # v
  <1>1. LeaderLed(i) /\ commitIndex[i] \in Nat
    BY Types, Invariants DEF LeaderInv
  <1>2. Led(v, s, ts)
    <2>1. Elected(v) /\ LedInv /\ ChosenInv /\ SafeInv
      BY <1>1, Invariants DEF LeaderLed
    <2> QED
      BY <2>1, CommittedLed
  <1>3. s <= Last(logs[i])
    BY <1>1, <1>2 DEF LeaderLed
  <1>4. PICK n \in Nat, w \in Nat : <<n, w>> \in chosen /\ w <= v /\ s <= n /\ Led(w, s, ts)
    BY DEF CommittedIn
  <1>5. ASSUME ts = v PROVE FALSE
    <2>1. w = v
      <3>1. LedInv
        BY Invariants
      <3>2. ts <= w
        BY <1>4, <3>1, LedFacts
      <3> QED
        BY <1>4, <1>5, <3>2
    <2>2. n <= commitIndex[i]
      BY <1>4, <2>1, Invariants DEF ChosenInv
    <2> QED
      BY <1>1, <1>4, <2>2
  <1> QED
    BY <1>2, <1>3, <1>5

LEMMA CondInstallSnapshotKeeps ==
  ASSUME Moves, NEW i \in Server, NEW msg \in snapCh[i], CondInstallSnapshot(i, msg)
  PROVE  HistoryInv'
  <1>1. TypeOK /\ VotePersisted
    BY DEF Moves, VInv, VotesInv, IInv
  <1>2. RolesStand
    BY <1>1, OthersQuiet DEF Quiet
  <1>3. PICK s \in Nat, ts \in Nat : s = msg.SnapshotIndex /\ ts = msg.SnapshotTerm
    <2>1. msg.SnapshotIndex \in Nat /\ msg.SnapshotTerm \in Nat
      BY Types
    <2> QED
      BY <2>1
  <1>4. /\ UNCHANGED <<state, matchIndex, currentTerm, votedFor, rpcs>>
        /\ \A j \in Server : snapCh'[j] \subseteq snapCh[j]
    BY <1>1 DEF CondInstallSnapshot, TypeOK
  <1>5. CASE UNCHANGED <<logs, commitIndex>>
    <2>1. \A m \in rpcs' \ rpcs : FALSE
      BY <1>4
    <2> QED
      BY <1>2, <1>4, <1>5, <2>1, RoundKeeps
  <1>6. CASE /\ commitIndex[i] < s
             /\ logs' = [logs EXCEPT ![i] = Trimmed(logs[i], s, ts)]
             /\ commitIndex' = [commitIndex EXCEPT ![i] = s]
    <2>1. /\ logs'[i] = Trimmed(logs[i], s, ts) /\ commitIndex'[i] = s
          /\ \A j \in Server \ {i} : logs'[j] = logs[j] /\ commitIndex'[j] = commitIndex[j]
      BY <1>1, <1>6 DEF TypeOK
    <2>2. PICK log, new : log = logs[i] /\ new = logs'[i]
      OBVIOUS
    <2>3. PICK v \in Nat : v = currentTerm[i]
      BY Types
    <2>4. /\ IsLog(log) /\ new = Trimmed(log, s, ts)
          /\ (Sound(log) \/ Junk(log, v))
          /\ \A k \in First(log) .. Last(log) : TermAt(log, k) <= v
          /\ \A k \in First(log) .. commitIndex[i] : CommittedIn(k, TermAt(log, k), v)
          /\ CommittedIn(s, ts, v) /\ commitIndex[i] \in Nat /\ First(log) <= commitIndex[i]
      BY <1>3, <2>1, <2>2, <2>3, Types, Invariants DEF LogsInv, LogSound, CommitInv, CommitSound
    <2>5. First(log) \in Nat /\ Last(log) \in Nat /\ First(log) <= Last(log) /\ First(log) < s
      BY <1>6, <2>4, LogEnds
    <2>6. (Sound(new) \/ Junk(new, v)) /\ KeepsOn(log, new)
      <3>1. CommittedIn(First(log), TermAt(log, First(log)), v)
        BY <2>4, <2>5
      <3> QED
        BY <2>4, <2>5, <3>1, Invariants, TrimKeeps
    <2>7. /\ IsLog(new) /\ First(new) = s
          /\ Last(new) = (IF s > Last(log) THEN s ELSE Last(log))
          /\ TermAt(new, s) = ts
          /\ \A k \in s + 1 .. Last(log) : TermAt(new, k) = TermAt(log, k)
      BY <2>4, <2>5, TrimmedIsLog
    <2>8. ts <= v
      <3>1. PICK n \in Nat, w \in Nat : <<n, w>> \in chosen /\ w <= v /\ s <= n /\ Led(w, s, ts)
        BY <2>4 DEF CommittedIn
      <3>2. LedInv
        BY Invariants
      <3>3. ts <= w
        BY <3>1, <3>2, LedFacts
      <3> QED
        BY <3>1, <3>3
    <2>9. \A k \in First(new) .. Last(new) :
            \/ k = s /\ TermAt(new, k) = ts
            \/ k \in s + 1 .. Last(log) /\ k \in First(log) .. Last(log)
               /\ TermAt(new, k) = TermAt(log, k)
      <3> TAKE k \in First(new) .. Last(new)
      <3>1. k = s \/ k \in s + 1 .. Last(log)
        BY <2>5, <2>7
      <3>2. k \in s + 1 .. Last(log) => k \in First(log) .. Last(log)
        BY <2>5
      <3> QED
        BY <2>7, <3>1, <3>2
    <2>10. led' = led /\ LedGrows
           /\ (state[i] = Leader => s <= Last(log) /\ Led(v, s, ts) /\ ts # v /\ Last(new) = Last(log))
      <3>1. state[i] = Leader => s <= Last(log) /\ Led(v, s, ts) /\ ts # v
        BY <1>6, <2>2, <2>3, <2>4, TrimmedOnLeader
      <3>2. state[i] = Leader => Last(new) = Last(log)
        BY <2>5, <2>7, <3>1
      <3> QED
        BY <1>2, <1>4, <2>1, <2>2, <3>1, <3>2, OneLogMoves
    <2>11. LogSound(i)'
      <3>1. (Sound(new) \/ Junk(new, v))'
        BY <2>6, <2>7, <2>10, SoundStays, JunkStays
      <3>2. \A k \in First(new) .. Last(new) : TermAt(new, k) <= v
        BY <2>4, <2>8, <2>9
      <3> QED
        BY <1>4, <2>2, <2>3, <3>1, <3>2, LogAfter
    <2>12. CommitSound(i)'
      <3>1. CommittedNext(s, ts, v)
        BY <2>4, CommittedOn
      <3>2. \A k \in First(new) .. s : k = s
        BY <2>7
      <3>3. \A n \in snapCh[i] : CommittedNext(n.SnapshotIndex, n.SnapshotTerm, currentTerm'[i])
        BY WaitingStays
      <3>4. s <= Last(new)
        BY <2>5, <2>7
      <3> QED
        BY <1>4, <2>1, <2>2, <2>3, <2>7, <3>1, <3>2, <3>3, <3>4, CommitAfter
    <2>13. ASSUME state[i] = Leader PROVE LeaderLed(i)' /\ MatchAcked(i)'
      <3>1. LeaderLed(i)
        BY <2>13, Invariants DEF LeaderInv
      <3>2. \A k \in First(new) .. Last(new) : <<v, k, TermAt(new, k)>> \in led'
        BY <2>2, <2>3, <2>9, <2>10, <2>13, <3>1 DEF LeaderLed, Led
      <3>3. LeaderLed(i)'
        BY <1>4, <2>2, <2>3, <2>10, <2>13, <3>1, <3>2, LeaderAfter DEF LeaderLed, Led, Elected
      <3>4. commitIndex[i] <= commitIndex'[i]
        BY <1>6, <2>1, <2>4
      <3>5. MatchAcked(i)'
        BY <1>4, <2>2, <2>10, <2>13, <3>4, MatchStays
      <3> QED
        BY <3>3, <3>5
    <2>14. ASSUME NEW k \in Nat, NEW t \in Nat, state[i] = Leader, s = k, v = t,
                  matchLog(new, t, k)
           PROVE  FALSE
      BY <2>7, <2>10, <2>14 DEF matchLog
    <2>15. First(log) <= First(new) /\ commitIndex[i] <= commitIndex'[i]
      BY <1>6, <2>1, <2>4, <2>5, <2>7
    <2>16. \A m \in rpcs' \ rpcs : FALSE
      BY <1>4
    <2> QED
      BY <1>2, <1>4, <2>1, <2>2, <2>3, <2>6, <2>10, <2>11, <2>12, <2>13, <2>14, <2>15, <2>16, OneLogKeeps
  <1> QED
    <2>1. commitIndex[i] \in Nat
      BY Types
    <2> QED
      BY <1>3, <1>5, <1>6, <2>1 DEF CondInstallSnapshot, commitTo

(* A peer takes over what a leader has.                                    *)

(* What a leader says is committed up to an index is, of its own log.      *)
LEMMA CommittedUpTo ==
  ASSUME LedInv, ChosenInv, SafeInv, NEW c \in Nat, NEW T \in Nat, CommittedTo(c, T),
         NEW k \in Nat, NEW t \in Nat, k <= c, Led(T, k, t)
  PROVE  CommittedIn(k, t, T)
  <1>1. PICK n \in Nat, w \in Nat : <<n, w>> \in chosen /\ w <= T /\ c <= n
    BY DEF CommittedTo
  <1>2. Elected(T)
    BY LedFacts
  <1>3. Led(T, n, w)
    BY <1>1, <1>2, ChosenLed
  <1>4. k <= n
    BY <1>1
  <1>5. Led(w, k, t)
    BY <1>3, <1>4, LedBelow
  <1> QED
    BY <1>1, <1>4, <1>5 DEF CommittedIn

(* What a log begins with a leader of a later term has chosen, if its own  *)
(* entries reach below.                                                    *)
LEMMA ChosenBelow ==
  ASSUME LedInv, ChosenInv, SafeInv, NEW f \in Nat, NEW tf \in Nat, NEW v \in Nat,
         CommittedIn(f, tf, v), NEW T \in Nat, v <= T, NEW k \in Nat, k <= f, Led(T, k, T)
  PROVE  \E c \in Nat : <<c, T>> \in chosen /\ k <= c
  <1>1. PICK n \in Nat, w \in Nat : <<n, w>> \in chosen /\ w <= v /\ f <= n /\ Led(w, f, tf)
    BY DEF CommittedIn
  <1>2. Elected(T)
    BY LedFacts
  <1>3. Led(T, n, w)
    BY <1>1, <1>2, ChosenLed
  <1>4. k <= n
    BY <1>1
  <1>5. T <= w
    BY <1>3, <1>4, LedBelow
  <1> QED
    BY <1>1, <1>4, <1>5

LEMMA AppendEntriesMerges ==
  ASSUME Moves, NEW m \in rpcs, m.type = "AppendEntries", m.Term >= currentTerm[m.to],
         AppendEntriesMatch(m.to, m),
         NEW log, log = logs[m.to], NEW new, new = logs'[m.to],
         NEW v \in Nat, v = currentTerm[m.to], NEW T \in Nat, T = m.Term,
         NEW end, end = m.PrevLogIndex + Len(m.Entries)
  PROVE  /\ logs' = [logs EXCEPT ![m.to] = new]
         /\ Sound(new) \/ (new = log /\ Junk(log, v))
         /\ KeepsOn(log, new)
         /\ IsLog(new) /\ First(new) = First(log)
         /\ end \in First(new) .. Last(new)
         /\ \A l \in First(new) .. end : Led(T, l, TermAt(new, l))
         /\ \A l \in First(new) .. Last(new) : TermAt(new, l) <= T
         /\ \A l \in First(log) .. Last(log) : CommittedIn(l, TermAt(log, l), v) =>
              l <= Last(new) /\ TermAt(new, l) = TermAt(log, l)
         /\ m.LeaderCommit \in Nat /\ m.LeaderCommit <= end /\ CommittedTo(m.LeaderCommit, T)
         /\ \/ UNCHANGED commitIndex
            \/ commitIndex' = [commitIndex EXCEPT ![m.to] = m.LeaderCommit]
         /\ commitIndex[m.to] <= commitIndex'[m.to]
  <1> DEFINE i == m.to
             prev == m.PrevLogIndex
             entries == m.Entries
  <1>1. /\ i \in Server /\ prev \in Nat /\ Follow(entries, prev) /\ m.LeaderCommit \in Nat
        /\ IsLog(log) /\ IsLog(new) /\ commitIndex[i] \in Nat
    BY Types, MessageFields DEF MessageOK, MessageShape
  <1>2. /\ Led(T, prev, m.PrevLogTerm)
        /\ \A j \in 1 .. Len(entries) : Led(T, prev + j, entries[j].Term)
        /\ m.LeaderCommit <= end /\ CommittedTo(m.LeaderCommit, T)
    BY Invariants DEF MessagesInv, MessageInv, AppendEntriesInv
  <1>3. prev \in First(log) .. Last(log) /\ TermAt(log, prev) = m.PrevLogTerm
    <2>1. First(log) \in Nat /\ Last(log) \in Nat
      BY <1>1, LogEnds
    <2> QED
      BY <1>1, <2>1 DEF AppendEntriesMatch, matchLog
  <1>4. PICK k0 \in FirstLacking(log, entries) :
          /\ logs' = [logs EXCEPT ![i] = Merge(log, entries, k0)]
          /\ advanceCommitIndexForFollower(i, Merge(log, entries, k0), m.LeaderCommit)
    BY DEF AppendEntriesMatch
  <1>5. new = Merge(log, entries, k0)
    BY <1>1, <1>4, Types
  <1>6. /\ Sound(log) \/ Junk(log, v)
        /\ CommittedIn(First(log), TermAt(log, First(log)), v)
        /\ \A l \in First(log) .. Last(log) : TermAt(log, l) <= T
    <2>1. LogSound(i) /\ CommitSound(i) /\ First(log) <= commitIndex[i] /\ First(log) \in Nat
      BY <1>1, Types, Invariants, LogEnds DEF LogsInv, CommitInv
    <2>2. \A l \in First(log) .. Last(log) : TermAt(log, l) \in Nat /\ TermAt(log, l) <= v
      BY <1>1, <2>1, LogTerms DEF LogSound
    <2>3. First(log) \in First(log) .. commitIndex[i]
      BY <1>1, <2>1
    <2> QED
      BY <2>1, <2>2, <2>3 DEF LogSound, CommitSound
  <1> HIDE DEF prev, entries, i
  <1>7. /\ Sound(new) \/ (new = log /\ Junk(log, v))
        /\ KeepsOn(log, new)
        /\ \A l \in First(log) .. prev + Len(entries) : Led(T, l, TermAt(new, l))
        /\ \A l \in First(log) .. Last(log) : CommittedIn(l, TermAt(log, l), v) =>
             l <= Last(new) /\ TermAt(new, l) = TermAt(log, l)
    <2>1. v <= T
      BY DEF i
    <2>2. LedInv /\ ChosenInv /\ SafeInv
      BY Invariants
    <2>3. Led(T, prev, TermAt(log, prev))
      BY <1>2, <1>3
    <2> QED
      BY <1>1, <1>2, <1>3, <1>4, <1>5, <1>6, <2>1, <2>2, <2>3, MergeKeeps
  <1>8. /\ First(new) = First(log) /\ end <= Last(new) /\ (new = log \/ Last(new) = end)
    BY <1>1, <1>3, <1>4, <1>5, MergeIsLog, MergeTerms DEF prev, entries
  <1>9. end = prev + Len(entries) /\ Len(entries) \in Nat /\ First(log) \in Nat /\ Last(new) \in Nat
    BY <1>1, LogEnds, LenProperties DEF prev, entries, Follow
  <1>10. end \in First(new) .. Last(new)
    BY <1>1, <1>3, <1>8, <1>9
  <1>11. \A l \in First(new) .. Last(new) : TermAt(new, l) <= T
    <2>1. CASE new = log
      BY <1>6, <2>1
    <2>2. CASE Last(new) = end
      <3> TAKE l \in First(new) .. Last(new)
      <3>1. l \in Nat /\ TermAt(new, l) \in Nat
        BY <1>1, LogTerms
      <3>2. Led(T, l, TermAt(new, l))
        BY <1>7, <1>8, <1>9, <2>2
      <3>3. LedInv
        BY Invariants
      <3> QED
        BY <3>1, <3>2, <3>3, LedFacts
    <2> QED
      BY <1>8, <2>1, <2>2
  <1>12. /\ \/ UNCHANGED commitIndex
            \/ commitIndex' = [commitIndex EXCEPT ![i] = m.LeaderCommit]
         /\ commitIndex[i] <= commitIndex'[i]
    <2> DEFINE c == IF m.LeaderCommit < Last(new) THEN m.LeaderCommit ELSE Last(new)
    <2>1. c = m.LeaderCommit
      BY <1>1, <1>2, <1>8, <1>9
    <2>2. IF c > commitIndex[i] THEN commitIndex' = [commitIndex EXCEPT ![i] = c]
                                ELSE UNCHANGED commitIndex
      BY <1>4, <1>5 DEF advanceCommitIndexForFollower, commitTo
    <2> HIDE DEF c
    <2>3. commitIndex \in [Server -> Nat]
      BY Types
    <2> QED
      BY <1>1, <2>1, <2>2, <2>3
  <1> QED
    BY <1>1, <1>2, <1>4, <1>5, <1>7, <1>8, <1>9, <1>10, <1>11, <1>12 DEF i

(* The answer to a request that matched: up to its end the peer now has    *)
(* the leader's entries of that term, or a snapshot of them.               *)
LEMMA MergedIsAcked ==
  ASSUME Moves, led' = led, NEW i \in Server, NEW log, log = logs[i], NEW new, new = logs'[i],
         NEW T \in Nat, T = currentTerm'[i], currentTerm[i] <= T,
         IsLog(new), First(new) = First(log),
         NEW end \in First(new) .. Last(new),
         \A l \in First(new) .. end : Led(T, l, TermAt(new, l)),
         NEW k \in Nat, k <= end, Led(T, k, T)
  PROVE  \/ <<i, k, T>> \in acks'
         \/ \E c \in Nat : <<c, T>> \in chosen' /\ k <= c
  <1>1. First(new) \in Nat /\ Last(new) \in Nat /\ end \in Nat
    BY LogEnds
  <1>2. CASE k <= First(new)
    <2>1. PICK f \in Nat, tf \in Nat, v \in Nat :
            f = First(log) /\ tf = TermAt(log, f) /\ v = currentTerm[i]
      <3>1. IsLog(log) /\ currentTerm[i] \in Nat
        BY Types
      <3>2. First(log) \in Nat /\ TermAt(log, First(log)) \in Nat
        BY <3>1, LogTerms
      <3> QED
        BY <3>1, <3>2
    <2>2. CommittedIn(f, tf, v)
      <3>1. CommitSound(i) /\ f <= commitIndex[i] /\ commitIndex[i] \in Nat
        BY <2>1, Types, Invariants DEF CommitInv
      <3>2. f \in First(logs[i]) .. commitIndex[i]
        BY <2>1, <3>1
      <3> QED
        BY <2>1, <3>1, <3>2 DEF CommitSound
    <2>3. LedInv /\ ChosenInv /\ SafeInv
      BY Invariants
    <2>4. \E c \in Nat : <<c, T>> \in chosen /\ k <= c
      BY <1>2, <2>1, <2>2, <2>3, ChosenBelow
    <2> QED
      BY <2>4, Grows
  <1>3. CASE First(new) < k
    <2>1. k \in First(new) .. end /\ k \in First(new) + 1 .. Last(new) /\ k \in First(new) .. Last(new)
      BY <1>1, <1>3
    <2>2. TermAt(new, k) \in Nat
      BY <2>1, LogTerms
    <2>3. TermAt(new, k) = T
      <3>1. LedInv /\ Led(T, k, TermAt(new, k))
        BY <2>1, Invariants
      <3> QED
        BY <2>2, <3>1, LedOnce
    <2>4. <<i, k, T>> \in AckedBy(i)'
      BY <2>1, <2>3 DEF AckedBy
    <2>5. AckedBy(i)' \subseteq acks'
      BY DEF Moves, Record
    <2> QED
      BY <2>4, <2>5
  <1> QED
    BY <1>1, <1>2, <1>3

LEMMA AppendEntriesMatchKeeps ==
  ASSUME Moves, RolesStand, NEW m \in rpcs, m.type = "AppendEntries", m.Term >= currentTerm[m.to],
         currentTerm'[m.to] = m.Term, state'[m.to] # Leader,
         AppendEntriesMatch(m.to, m), UNCHANGED <<matchIndex, snapCh>>,
         \A p \in Server : \/ votedFor'[p] = None
                           \/ votedFor'[p] = votedFor[p] /\ currentTerm'[p] = currentTerm[p]
  PROVE  HistoryInv'
  <1>1. PICK i \in Server : i = m.to
    BY Types, MessageFields
  <1>2. PICK log, new, end : log = logs[i] /\ new = logs'[i] /\ end = m.PrevLogIndex + Len(m.Entries)
    OBVIOUS
  <1>3. PICK v \in Nat, T \in Nat : v = currentTerm[i] /\ T = m.Term
    <2>1. currentTerm[i] \in Nat /\ m.Term \in Nat
      BY Types, MessageFields DEF Requests
    <2> QED
      BY <2>1
  <1>4. /\ logs' = [logs EXCEPT ![i] = new]
        /\ Sound(new) \/ (new = log /\ Junk(log, v))
        /\ KeepsOn(log, new)
        /\ IsLog(new) /\ First(new) = First(log)
        /\ end \in First(new) .. Last(new)
        /\ \A l \in First(new) .. end : Led(T, l, TermAt(new, l))
        /\ \A l \in First(new) .. Last(new) : TermAt(new, l) <= T
        /\ \A l \in First(log) .. Last(log) : CommittedIn(l, TermAt(log, l), v) =>
             l <= Last(new) /\ TermAt(new, l) = TermAt(log, l)
        /\ m.LeaderCommit \in Nat /\ m.LeaderCommit <= end /\ CommittedTo(m.LeaderCommit, T)
        /\ \/ UNCHANGED commitIndex
           \/ commitIndex' = [commitIndex EXCEPT ![i] = m.LeaderCommit]
        /\ commitIndex[i] <= commitIndex'[i]
    BY <1>1, <1>2, <1>3, AppendEntriesMerges
  <1>5. \A j \in Server \ {i} : logs'[j] = logs[j] /\ commitIndex'[j] = commitIndex[j]
    BY <1>4, Types
  <1>6. led' = led /\ LedGrows
    BY <1>1, <1>5, OneLogMoves
  <1>7. /\ v <= T /\ IsLog(log) /\ First(log) \in Nat /\ Last(log) \in Nat /\ Last(new) \in Nat
        /\ commitIndex[i] \in Nat /\ First(log) <= commitIndex[i] /\ commitIndex[i] <= Last(log)
        /\ \A k \in First(log) .. commitIndex[i] : CommittedIn(k, TermAt(log, k), v)
    BY <1>1, <1>2, <1>3, <1>4, Types, LogEnds, Invariants DEF CommitInv, CommitSound
  <1>8. LogSound(i)'
    <2>1. (Sound(new) \/ Junk(new, T))'
      BY <1>4, <1>6, <1>7, SoundStays, JunkStays
    <2> QED
      BY <1>1, <1>2, <1>3, <1>4, <2>1, LogAfter
  <1>9. commitIndex'[i] \in {commitIndex[i], m.LeaderCommit} /\ commitIndex'[i] \in Nat
    BY <1>4, Types
  <1>10. ASSUME NEW k \in First(new) .. commitIndex'[i]
         PROVE  CommittedNext(k, TermAt(new, k), T)
    <2>1. CASE k <= commitIndex[i]
      <3>1. k \in First(log) .. commitIndex[i] /\ k \in First(log) .. Last(log)
        BY <1>4, <1>7, <1>9, <1>10, <2>1
      <3>2. TermAt(new, k) = TermAt(log, k)
        BY <1>4, <1>7, <3>1
      <3> QED
        BY <1>1, <1>2, <1>3, <2>1, <3>1, <3>2, EntryStays
    <2>2. CASE commitIndex[i] < k
      <3>1. k \in First(new) .. end /\ k \in Nat /\ k <= m.LeaderCommit /\ k \in First(new) .. Last(new)
        BY <1>4, <1>7, <1>9, <1>10, <2>2
      <3>2. TermAt(new, k) \in Nat
        BY <1>4, <3>1, LogTerms
      <3>3. Led(T, k, TermAt(new, k)) /\ LedInv /\ ChosenInv /\ SafeInv
        BY <1>4, <3>1, Invariants
      <3>4. CommittedIn(k, TermAt(new, k), T)
        BY <1>4, <3>1, <3>2, <3>3, CommittedUpTo
      <3> QED
        BY <3>1, <3>2, <3>4, CommittedOn
    <2> QED
      BY <1>4, <1>7, <1>9, <1>10, <2>1, <2>2
  <1>11. CommitSound(i)'
    <2>1. commitIndex'[i] <= Last(new)
      <3>1. commitIndex[i] <= Last(new)
        <4>1. commitIndex[i] \in First(log) .. commitIndex[i]
              /\ commitIndex[i] \in First(log) .. Last(log)
          BY <1>7
        <4> QED
          BY <1>4, <1>7, <4>1
      <3> QED
        BY <1>4, <1>7, <1>9, <3>1
    <2>2. \A msg \in snapCh'[i] :
            CommittedNext(msg.SnapshotIndex, msg.SnapshotTerm, currentTerm'[i])
      BY WaitingStays
    <2> QED
      BY <1>1, <1>2, <1>3, <1>10, <2>1, <2>2, CommitAfter
  <1>12. ASSUME NEW r \in rpcs' \ rpcs PROVE r.type # "RequestVote" /\ MessageInv(r)'
    <2>1. /\ r.type = "AppendEntriesReply" /\ r.from = i /\ r.reqTerm = T
          /\ r.PrevLogIndex + r.NumEntries = end
      <3>1. r = AppendEntriesResponse(m, m.Term, TRUE, 0, 0)
        BY <1>12 DEF AppendEntriesMatch, AnswerOne, Received, InFlight
      <3> QED
        BY <1>1, <1>2, <1>3, <3>1 DEF AppendEntriesResponse
    <2>2. TermAt(new, end) \in Nat /\ Led(T, end, TermAt(new, end))
      <3>1. end \in First(new) .. end
        BY <1>4, <1>7
      <3> QED
        BY <1>4, <3>1, LogTerms
    <2>3. \E x \in Nat : <<T, end, x>> \in led'
      BY <1>6, <2>2 DEF Led
    <2>4. \A k \in Nat : k <= end /\ Led(T, k, T) =>
            \/ <<i, k, T>> \in acks'
            \/ \E c \in Nat : <<c, T>> \in chosen' /\ k <= c
      <3>1. T = currentTerm'[i] /\ currentTerm[i] <= T
        BY <1>1, <1>3, <1>7
      <3>2. /\ IsLog(new) /\ First(new) = First(log) /\ end \in First(new) .. Last(new)
            /\ \A l \in First(new) .. end : Led(T, l, TermAt(new, l))
        BY <1>4
      <3>3. log = logs[i] /\ new = logs'[i]
        BY <1>2
      <3> TAKE k \in Nat
      <3>4. HAVE k <= end /\ Led(T, k, T)
      <3> QED
        BY <1>6, <3>1, <3>2, <3>3, <3>4, MergedIsAcked
    <2>5. AppendEntriesReplyInv(r)'
      BY <1>6, <2>1, <2>3, <2>4 DEF AppendEntriesReplyInv, Led, Acked
    <2> QED
      BY <2>1, <2>5 DEF MessageInv
  <1>13. state'[i] # Leader /\ First(logs[i]) <= First(logs'[i])
    BY <1>1, <1>2, <1>4, <1>7
  <1> QED
    BY <1>2, <1>4, <1>5, <1>8, <1>11, <1>12, <1>13, OneLogKeeps

LEMMA AppendEntriesKeeps ==
  ASSUME Moves, NEW m \in rpcs, AppendEntries(m)
  PROVE  HistoryInv'
  <1> DEFINE i == m.to
  <1>1. TypeOK /\ VotePersisted
    BY DEF Moves, VInv, VotesInv, IInv
  <1>2. /\ RolesStand /\ m.type = "AppendEntries" /\ i \in Server /\ m.Term \in Nat
        /\ UNCHANGED <<matchIndex, snapCh>>
    BY <1>1, AppendEntriesQuiet, Types, MessageFields DEF Quiet, AppendEntries, Requests
  <1>3. \A p \in Server : \/ votedFor'[p] = None
                          \/ votedFor'[p] = votedFor[p] /\ currentTerm'[p] = currentTerm[p]
    BY <1>1, <1>2 DEF AppendEntries, AppendEntriesStale, catchUp, adoptTerm, TypeOK
  <1>4. ASSUME UNCHANGED <<logs, commitIndex>>,
               NEW term, NEW index, NEW conflictTerm,
               AnswerOne(m, AppendEntriesResponse(m, term, FALSE, index, conflictTerm))
        PROVE  HistoryInv'
    <2>1. \A r \in rpcs' \ rpcs : r.type = "AppendEntriesReply" /\ ~r.Success
      BY <1>4 DEF AnswerOne, Received, InFlight, AppendEntriesResponse
    <2>2. \A r \in rpcs' \ rpcs : r.type # "RequestVote" /\ MessageInv(r)'
      BY <2>1 DEF MessageInv, AppendEntriesReplyInv
    <2> QED
      BY <1>2, <1>3, <1>4, <2>2, RoundKeeps
  <1>5. CASE AppendEntriesStale(i, m)
    BY <1>4, <1>5 DEF AppendEntriesStale
  <1>6. CASE AppendEntriesBelowFirst(i, m)
    BY <1>4, <1>6 DEF AppendEntriesBelowFirst
  <1>7. CASE AppendEntriesMismatch(i, m)
    BY <1>4, <1>7 DEF AppendEntriesMismatch
  <1>8. CASE /\ m.Term >= currentTerm[i] /\ catchUp(i, m.Term) /\ ChangeState(i, Follower)
             /\ AppendEntriesMatch(i, m)
    <2>1. currentTerm'[i] = m.Term
      <3>1. currentTerm \in [Server -> Nat]
        BY Types
      <3> QED
        BY <1>2, <1>8, <3>1 DEF catchUp, adoptTerm
    <2>2. state'[i] # Leader
      BY <1>1, <1>2, <1>8 DEF ChangeState, TypeOK, Follower, Leader
    <2> QED
      BY <1>2, <1>3, <1>8, <2>1, <2>2, AppendEntriesMatchKeeps
  <1> QED
    BY <1>5, <1>6, <1>7, <1>8 DEF AppendEntries

(* A leader learns what a follower has.                                    *)
LEMMA LearnedIsAcked ==
  ASSUME Moves, NEW i \in Server, state[i] = Leader, NEW T \in Nat, T = currentTerm[i],
         NEW m \in rpcs, m.type = "AppendEntriesReply", m.Success, m.to = i, m.reqTerm = T,
         NEW n \in Nat, n = m.PrevLogIndex + m.NumEntries,
         NEW q \in Server, NEW k \in Nat, commitIndex[i] < k, Led(T, k, T),
         k <= (IF q = m.from THEN n ELSE matchIndex[i][q])
  PROVE  Acked(q, k, T)
  <1>1. CASE q = m.from
    <2>1. k <= n => \/ Acked(q, k, T)
                    \/ \E c \in Nat : <<c, T>> \in chosen /\ k <= c
      BY <1>1, Invariants DEF MessagesInv, MessageInv, AppendEntriesReplyInv
    <2>2. \A c \in Nat : <<c, T>> \in chosen => c <= commitIndex[i]
      BY Invariants DEF ChosenInv
    <2>3. commitIndex[i] \in Nat
      BY Types
    <2>4. k <= n
      BY <1>1
    <2>5. ASSUME NEW c \in Nat, <<c, T>> \in chosen, k <= c PROVE FALSE
      <3>1. c <= commitIndex[i]
        BY <2>2, <2>5
      <3>2. commitIndex[i] < k
        OBVIOUS
      <3> QED
        BY <2>3, <2>5, <3>1, <3>2
    <2> QED
      BY <2>1, <2>4, <2>5
  <1>2. CASE q # m.from
    BY <1>2, Invariants DEF MatchInv, MatchAcked
  <1> QED
    BY <1>1, <1>2

(* What a leader has learned of its peers is right.                        *)
Learned(i, T, match) ==
  /\ \A q \in Server : match[q] <= Last(logs[i])
  /\ \A q \in Server, k \in Nat :
       commitIndex[i] < k /\ k <= match[q] /\ Led(T, k, T) => Acked(q, k, T)

LEMMA LeaderAdvances ==
  ASSUME Moves, RolesStand, NEW i \in Server, state[i] = Leader, state'[i] = Leader,
         NEW T \in Nat, T = currentTerm[i], T = currentTerm'[i], UNCHANGED logs,
         NEW match \in [Server -> Nat], Learned(i, T, match),
         NEW c \in ReachedByMajority(match), commitIndex[i] < c, matchLog(logs[i], T, c),
         commitIndex'[i] = c
  PROVE  /\ c \in Nat /\ <<T, c, T>> \in led'
         /\ Majority({ q \in Server : <<q, c, T>> \in acks' })
         /\ c <= Last(logs[i])
         /\ \A k \in First(logs[i]) .. c : CommittedNext(k, TermAt(logs[i], k), T)
  <1>1. PICK p \in Server : c = match[p] /\ Majority({ q \in Server : match[q] >= match[p] })
    BY DEF ReachedByMajority
  <1>2. c \in Nat /\ commitIndex[i] \in Nat
    BY <1>1, Types
  <1>3. /\ IsLog(logs[i]) /\ LeaderLed(i) /\ First(logs[i]) \in Nat /\ Last(logs[i]) \in Nat
        /\ First(logs[i]) <= c /\ c <= Last(logs[i]) /\ TermAt(logs[i], c) = T
    BY Types, Invariants, LogEnds DEF LeaderInv, matchLog
  <1>4. \A k \in First(logs[i]) .. Last(logs[i]) : Led(T, k, TermAt(logs[i], k))
    BY <1>3 DEF LeaderLed
  <1>5. Led(T, c, T)
    BY <1>2, <1>3, <1>4
  <1>6. Majority({ q \in Server : <<q, c, T>> \in acks' })
    <2> DEFINE A == { q \in Server : match[q] >= match[p] }
               B == { q \in Server : <<q, c, T>> \in acks' }
    <2>1. A \subseteq B
      BY <1>1, <1>2, <1>5, Grows DEF Acked, Learned
    <2>2. A \subseteq Server /\ B \subseteq Server
      OBVIOUS
    <2> HIDE DEF A, B
    <2> QED
      BY <1>1, <2>1, <2>2, Larger DEF A, B
  <1>7. <<c, T>> \in chosen'
    <2>1. matchLog(logs'[i], currentTerm'[i], commitIndex'[i])
      OBVIOUS
    <2>2. <<c, T>> \in ChosenBy(i)'
      BY <2>1 DEF ChosenBy
    <2> QED
      BY <2>2 DEF Moves, Record
  <1>8. ASSUME NEW k \in First(logs[i]) .. c PROVE CommittedNext(k, TermAt(logs[i], k), T)
    <2>1. k \in First(logs[i]) .. Last(logs[i]) /\ k \in Nat /\ k <= c
      BY <1>2, <1>3, <1>8
    <2>2. <<T, k, TermAt(logs[i], k)>> \in led'
      BY <1>4, <2>1, Grows DEF Led
    <2>3. <<c, T>> \in chosen' /\ T <= T /\ k <= c /\ <<T, k, TermAt(logs[i], k)>> \in led'
      BY <1>7, <2>1, <2>2
    <2> QED
      BY <1>2, <2>3 DEF CommittedNext
  <1> QED
    BY <1>2, <1>3, <1>5, <1>6, <1>8, Grows DEF Led

LEMMA LearnsKeeps ==
  ASSUME Moves, RolesStand, NEW i \in Server, state[i] = Leader,
         UNCHANGED <<state, currentTerm, votedFor, logs, snapCh>>, rpcs' \subseteq rpcs,
         NEW m \in rpcs, m.type = "AppendEntriesReply", m.Success, m.to = i,
         m.reqTerm = currentTerm[i],
         NEW match, match = [matchIndex[i] EXCEPT ![m.from] = m.PrevLogIndex + m.NumEntries],
         matchIndex' = [matchIndex EXCEPT ![i] = match],
         advanceCommitIndexForLeader(i, match)
  PROVE  HistoryInv'
  <1>1. PICK T \in Nat, n \in Nat :
          T = currentTerm[i] /\ n = m.PrevLogIndex + m.NumEntries
    <2>1. m.PrevLogIndex + m.NumEntries \in Nat /\ currentTerm[i] \in Nat
      <3>1. m.PrevLogIndex \in Nat /\ m.NumEntries \in Nat
        BY Types, MessageFields
      <3> QED
        BY <3>1, Types
    <2> QED
      BY <2>1
  <1>2. /\ matchIndex[i] \in [Server -> Nat] /\ match \in [Server -> Nat]
        /\ \A q \in Server : match[q] = IF q = m.from THEN n ELSE matchIndex[i][q]
        /\ matchIndex'[i] = match
        /\ \A j \in Server \ {i} : matchIndex'[j] = matchIndex[j]
    BY <1>1, Types
  <1>3. /\ commitIndex[i] \in Nat /\ IsLog(logs[i]) /\ MatchAcked(i) /\ LeaderLed(i) /\ CommitSound(i)
        /\ First(logs[i]) \in Nat /\ First(logs[i]) <= commitIndex[i] /\ n <= Last(logs[i])
        /\ Last(logs[i]) \in Nat
    <2>1. Reach(m) = n
      BY <1>1 DEF Reach
    <2>2. n <= Last(logs[i]) /\ Last(logs[i]) \in Nat
      BY <2>1, ReplyInLog DEF Moves, VInv
    <2> QED
      BY <2>2, Types, LogEnds, Invariants DEF MatchInv, LeaderInv, CommitInv
  <1>4. \A q \in Server : match[q] <= Last(logs[i])
    BY <1>2, <1>3 DEF MatchAcked
  <1>5. \A q \in Server, k \in Nat :
          commitIndex[i] < k /\ k <= match[q] /\ Led(T, k, T) => Acked(q, k, T)
    BY <1>1, <1>2, LearnedIsAcked
  <1>6. \/ UNCHANGED commitIndex
        \/ /\ commitIndex' = [commitIndex EXCEPT ![i] = commitIndex'[i]]
           /\ commitIndex'[i] \in ReachedByMajority(match)
           /\ commitIndex[i] < commitIndex'[i] /\ matchLog(logs[i], T, commitIndex'[i])
    <2>1. PICK c \in ReachedByMajority(match) :
            IF c > commitIndex[i] /\ matchLog(logs[i], T, c)
              THEN commitIndex' = [commitIndex EXCEPT ![i] = c] ELSE UNCHANGED commitIndex
      BY <1>1 DEF advanceCommitIndexForLeader, commitTo
    <2>2. commitIndex' = [commitIndex EXCEPT ![i] = c] => commitIndex'[i] = c
      BY Types
    <2>3. c \in Int
      <3>1. PICK p \in Server : c = match[p]
        BY DEF ReachedByMajority
      <3> QED
        BY <1>2, <3>1
    <2> QED
      BY <1>3, <2>1, <2>2, <2>3
  <1>7. /\ led' = led /\ LedGrows
    BY OneLogMoves
  <1>8. ASSUME commitIndex[i] < commitIndex'[i], commitIndex'[i] \in ReachedByMajority(match),
               matchLog(logs[i], T, commitIndex'[i])
        PROVE  /\ Led(T, commitIndex'[i], T)
               /\ Majority({ q \in Server : <<q, commitIndex'[i], T>> \in acks' })
               /\ commitIndex'[i] <= Last(logs[i])
               /\ \A k \in First(logs[i]) .. commitIndex'[i] : CommittedNext(k, TermAt(logs[i], k), T)
    <2>1. PICK c \in ReachedByMajority(match) : c = commitIndex'[i]
      BY <1>8
    <2>2. /\ <<T, c, T>> \in led' /\ Majority({ q \in Server : <<q, c, T>> \in acks' })
          /\ c <= Last(logs[i])
          /\ \A k \in First(logs[i]) .. c : CommittedNext(k, TermAt(logs[i], k), T)
      <3>1. /\ T = currentTerm[i] /\ T = currentTerm'[i] /\ state'[i] = Leader /\ UNCHANGED logs
            /\ match \in [Server -> Nat]
        BY <1>1, <1>2
      <3>2. commitIndex[i] < c /\ matchLog(logs[i], T, c) /\ commitIndex'[i] = c
        BY <1>8, <2>1
      <3>3. Learned(i, T, match)
        BY <1>4, <1>5 DEF Learned
      <3>4. state[i] = Leader /\ Moves /\ RolesStand
        OBVIOUS
      <3> QED
        BY <3>1, <3>2, <3>3, <3>4, LeaderAdvances, SMTT(30)
    <2> QED
      BY <1>7, <2>1, <2>2 DEF Led
  <1>9. commitIndex[i] <= commitIndex'[i]
        /\ \A j \in Server \ {i} : commitIndex'[j] = commitIndex[j]
    BY <1>3, <1>6, Types
  <1>10. CommitSound(i)'
    <2>1. CASE UNCHANGED commitIndex
      BY <2>1, CommitStays
    <2>2. CASE /\ commitIndex[i] < commitIndex'[i] /\ commitIndex'[i] \in ReachedByMajority(match)
               /\ matchLog(logs[i], T, commitIndex'[i])
      <3>1. \A msg \in snapCh[i] : CommittedNext(msg.SnapshotIndex, msg.SnapshotTerm, currentTerm'[i])
        BY WaitingStays
      <3> QED
        BY <1>1, <1>8, <2>2, <3>1, CommitAfter
    <2> QED
      BY <1>6, <2>1, <2>2
  <1>11. LeaderLed(i)'
    BY <1>7, LeaderStays
  <1>12. MatchAcked(i)'
    <2>1. ASSUME NEW q \in Server, NEW k \in Nat, commitIndex'[i] < k, k <= match[q], Led(T, k, T)
          PROVE  <<q, k, T>> \in acks'
      <3>1. commitIndex[i] < k
        BY <1>3, <1>9, <2>1, Types
      <3> QED
        BY <1>5, <2>1, <3>1, Grows DEF Acked
    <2> QED
      BY <1>1, <1>2, <1>4, <1>7, <2>1, MatchAfter DEF Led
  <1>13. ASSUME NEW k \in Nat, NEW t \in Nat, commitIndex'[i] = k, currentTerm'[i] = t,
                matchLog(logs'[i], t, k)
         PROVE  \/ <<k, t>> \in chosen
                \/ /\ Led(t, k, t)'
                   /\ Majority({ p \in Server : Acked(p, k, t)' })
    <2>1. CASE UNCHANGED commitIndex
      <3>1. <<k, t>> \in ChosenBy(i)
        BY <1>13, <2>1 DEF ChosenBy
      <3> QED
        BY <3>1, Invariants DEF ChosenInv
    <2>2. CASE /\ commitIndex[i] < commitIndex'[i] /\ commitIndex'[i] \in ReachedByMajority(match)
               /\ matchLog(logs[i], T, commitIndex'[i])
      BY <1>1, <1>7, <1>8, <1>13, <2>2 DEF Led, Acked
    <2> QED
      BY <1>6, <2>1, <2>2
  <1>14. LogSound(i)' /\ KeepsOn(logs[i], logs'[i]) /\ First(logs[i]) <= First(logs'[i])
    BY <1>7, LogStays
  <1>15. \A r \in rpcs' \ rpcs : r.type # "RequestVote" /\ MessageInv(r)'
    OBVIOUS
  <1>16. /\ \A j \in Server \ {i} : logs'[j] = logs[j] /\ commitIndex'[j] = commitIndex[j]
         /\ \A p \in Server : \/ votedFor'[p] = None
                              \/ votedFor'[p] = votedFor[p] /\ currentTerm'[p] = currentTerm[p]
         /\ \A j \in Server \ {i} : matchIndex'[j] = matchIndex[j]
         /\ \A j \in Server : \A msg \in snapCh'[j] : msg \in snapCh[j]
    BY <1>2, <1>9
  <1>17. state'[i] = Leader => /\ Last(logs'[i]) = Last(logs[i])
                               /\ commitIndex[i] <= commitIndex'[i]
                               /\ LeaderLed(i)' /\ MatchAcked(i)'
    BY <1>9, <1>11, <1>12
  <1>18. \A k, t \in Nat :
           /\ state'[i] = Leader /\ commitIndex'[i] = k /\ currentTerm'[i] = t
           /\ matchLog(logs'[i], t, k)
           => \/ <<k, t>> \in chosen
              \/ /\ Led(t, k, t)'
                 /\ Majority({ p \in Server : Acked(p, k, t)' })
    BY <1>13
  <1> QED
    BY <1>10, <1>14, <1>15, <1>16, <1>17, <1>18, OneLogKeeps

LEMMA HandleAppendEntriesResponseKeeps ==
  ASSUME Moves, NEW m \in rpcs, HandleAppendEntriesResponse(m)
  PROVE  HistoryInv'
  <1> DEFINE i == m.to
             match == [matchIndex[i] EXCEPT ![m.from] = m.PrevLogIndex + m.NumEntries]
  <1>1. TypeOK /\ VotePersisted
    BY DEF Moves, VInv, VotesInv, IInv
  <1>2. /\ RolesStand /\ m.type = "AppendEntriesReply" /\ i \in Server /\ m.Term \in Nat
    BY <1>1, HandleAppendEntriesResponseQuiet, Types, MessageFields
    DEF Quiet, HandleAppendEntriesResponse, Requests
  <1>3. rpcs' \subseteq rpcs /\ UNCHANGED snapCh
    BY DEF HandleAppendEntriesResponse, ConsumeOne, Received, InFlight
  <1>4. CASE stepDown(i, m.Term)
    BY <1>2, <1>3, <1>4, StepDownKeeps
  <1>5. CASE UNCHANGED <<state, hardState, matchIndex, commitIndex>>
    <2>1. UNCHANGED <<votedFor, currentTerm, logs>>
      BY <1>5 DEF hardState
    <2> QED
      BY <1>2, <1>3, <1>5, <2>1, RoundKeeps
  <1>6. CASE /\ state[i] = Leader /\ currentTerm[i] = m.reqTerm /\ m.Success
             /\ matchIndex' = [matchIndex EXCEPT ![i] = match]
             /\ advanceCommitIndexForLeader(i, match)
             /\ UNCHANGED <<state, hardState>>
    <2>1. UNCHANGED <<votedFor, currentTerm, logs>>
      BY <1>6 DEF hardState
    <2> QED
      BY <1>2, <1>3, <1>6, <2>1, LearnsKeeps
  <1> QED
    BY <1>4, <1>5, <1>6 DEF HandleAppendEntriesResponse

(* Start appends to the leader's log, and nobody else leads its term.      *)
LEMMA StartLed ==
  ASSUME Moves, NEW i \in Server, NEW T \in Nat, T = currentTerm[i], state[i] = Leader,
         UNCHANGED <<state, currentTerm>>,
         NEW log, log = logs[i], NEW n \in Nat, n = Last(log),
         NEW new, logs' = [logs EXCEPT ![i] = new], Last(new) = n + 1, TermAt(new, n + 1) = T
  PROVE  /\ led' = led \cup {<<T, n + 1, T>>}
         /\ \A k, t \in Nat : Led(T, k, t) => k <= n
         /\ LedInv' /\ LedGrows
  <1>1. logs'[i] = new /\ \A j \in Server \ {i} : logs'[j] = logs[j]
    BY Types
  <1>2. NewlyLed(i) = {<<T, n + 1, T>>}
    <2>1. NewlyLed(i) = { <<T, k, TermAt(new, k)>> : k \in n + 1 .. n + 1 }
      BY <1>1 DEF NewlyLed
    <2>2. n + 1 .. n + 1 = {n + 1}
      OBVIOUS
    <2>3. NewlyLed(i) = { <<T, k, TermAt(new, k)>> : k \in {n + 1} }
      BY <2>1, <2>2
    <2> QED
      BY <2>3
  <1>3. ASSUME NEW j \in Server, j # i, state'[j] = Leader PROVE NewlyLed(j) = {}
    <2>1. state[j] = Leader /\ Last(logs'[j]) = Last(logs[j]) /\ Last(logs[j]) \in Nat
      BY <1>1, <1>3, Types, LogEnds
    <2>2. Last(logs[j]) + 1 .. Last(logs'[j]) = {}
      BY <2>1
    <2> QED
      BY <2>1, <2>2 DEF NewlyLed
  <1>4. led' = led \cup {<<T, n + 1, T>>}
    BY <1>2, <1>3 DEF Moves, Record
  <1>5. LedInv /\ LeaderLed(i)
    BY Invariants DEF LeaderInv
  <1>6. \A k, t \in Nat : Led(T, k, t) => k <= n
    BY <1>5 DEF LeaderLed
  <1>7. \A u, k, t \in Nat : <<u, k, t>> \in led' =>
          Led(u, k, t) \/ (u = T /\ k = n + 1 /\ t = T)
    BY <1>4 DEF Led
  <1>8. \A u, k, t \in Nat : Led(u, k, t) => <<u, k, t>> \in led'
    BY <1>4 DEF Led
  <1>9. <<T, n + 1, T>> \in led' /\ Elected(T) /\ <<T, 0, 0>> \in led'
    BY <1>4, <1>5 DEF LeaderLed, Elected, Led
  <1>10. ASSUME NEW u \in Nat, NEW k \in Nat, NEW t \in Nat, <<u, k, t>> \in led'
         PROVE  /\ t <= u /\ <<u, 0, 0>> \in led' /\ <<t, 0, 0>> \in led'
                /\ \A l, x \in Nat : l <= k => (<<u, l, x>> \in led' <=> <<t, l, x>> \in led')
                /\ \A l, x \in Nat : l <= k /\ <<u, l, x>> \in led' => x <= t
                /\ \A x \in Nat : <<u, k, x>> \in led' => x = t
    <2>1. CASE Led(u, k, t)
      <3>1. t <= u /\ Elected(u) /\ Elected(t) /\ Led(t, k, t)
        BY <1>5, <2>1, LedFacts
      <3>2. (u = T => k <= n) /\ (t = T => k <= n)
        BY <1>6, <2>1, <3>1
      <3>3. \A l, x \in Nat : l <= k => /\ <<u, l, x>> \in led' <=> Led(u, l, x)
                                        /\ <<t, l, x>> \in led' <=> Led(t, l, x)
        BY <1>7, <1>8, <3>2
      <3>4. \A l, x \in Nat : l <= k => /\ Led(u, l, x) <=> Led(t, l, x)
                                        /\ Led(u, l, x) => x <= t
        BY <1>5, <2>1, LedBelow
      <3>5. \A x \in Nat : Led(u, k, x) => x = t
        BY <1>5, <2>1, LedOnce
      <3>6. <<u, 0, 0>> \in led' /\ <<t, 0, 0>> \in led'
        BY <1>8, <3>1 DEF Elected
      <3>7. ASSUME NEW x \in Nat, <<u, k, x>> \in led' PROVE x = t
        <4>1. k <= k
          OBVIOUS
        <4>2. Led(u, k, x)
          BY <3>3, <3>7, <4>1
        <4> QED
          BY <3>5, <4>2
      <3>8. \A l, x \in Nat : l <= k => (<<u, l, x>> \in led' <=> <<t, l, x>> \in led')
        BY <3>3, <3>4
      <3>9. \A l, x \in Nat : l <= k /\ <<u, l, x>> \in led' => x <= t
        BY <3>3, <3>4
      <3> QED
        BY <3>1, <3>6, <3>7, <3>8, <3>9
    <2>2. CASE u = T /\ k = n + 1 /\ t = T
      <3>1. \A l, x \in Nat : Led(T, l, x) => x <= T /\ l # n + 1
        BY <1>5, <1>6, LedFacts
      <3> QED
        BY <1>7, <1>9, <2>2, <3>1
    <2> QED
      BY <1>7, <1>10, <2>1, <2>2
  <1>11. LedInv'
    <2>1. led' \subseteq Nat \X Nat \X Nat /\ <<0, 0, 0>> \in led'
      BY <1>4, <1>5 DEF LedInv, Elected, Led
    <2> QED
      BY <1>10, <2>1, LedAfter
  <1>12. LedGrows
    <2> SUFFICES ASSUME NEW u \in Nat, NEW k \in Nat, NEW t \in Nat, <<u, k, t>> \in led', ~Led(u, k, t)
                 PROVE  t = u /\ \A l, x \in Nat : Led(u, l, x) => l < k
      BY DEF LedGrows, Led
    <2>1. u = T /\ k = n + 1 /\ t = T
      BY <1>7
    <2> QED
      BY <1>6, <2>1
  <1> QED
    BY <1>4, <1>6, <1>11, <1>12

(* What LedInv says after a step.                                          *)
LEMMA LedThen ==
  ASSUME LedInv', NEW u \in Nat, NEW k \in Nat, NEW t \in Nat, <<u, k, t>> \in led'
  PROVE  /\ t <= u /\ <<u, 0, 0>> \in led' /\ <<t, 0, 0>> \in led'
         /\ \A l, x \in Nat : l <= k => (<<u, l, x>> \in led' <=> <<t, l, x>> \in led')
         /\ \A x \in Nat : <<u, k, x>> \in led' => x = t
  BY DEF LedInv, Led, Elected

(* A log that is the leader's of a term is sound.                          *)
LEMMA LeaderSound ==
  ASSUME LedInv', NEW log, IsLog(log), NEW T \in Nat,
         \A k \in First(log) .. Last(log) : <<T, k, TermAt(log, k)>> \in led'
  PROVE  Sound(log)' /\ \A k \in First(log) .. Last(log) : TermAt(log, k) <= T
  <1>1. ASSUME NEW k \in First(log) .. Last(log)
        PROVE  /\ TermAt(log, k) <= T
               /\ \A l \in First(log) .. k : <<TermAt(log, k), l, TermAt(log, l)>> \in led'
    <2>1. k \in Nat /\ TermAt(log, k) \in Nat /\ First(log) \in Nat
      BY LogTerms
    <2>2. <<T, k, TermAt(log, k)>> \in led'
      OBVIOUS
    <2>3. /\ TermAt(log, k) <= T
          /\ \A l, x \in Nat : l <= k => (<<T, l, x>> \in led' <=> <<TermAt(log, k), l, x>> \in led')
      <3>1. PICK t \in Nat : t = TermAt(log, k)
        BY <2>1
      <3>2. <<T, k, t>> \in led'
        BY <2>2, <3>1
      <3>3. /\ t <= T
            /\ \A l, x \in Nat : l <= k => (<<T, l, x>> \in led' <=> <<t, l, x>> \in led')
        BY <2>1, <3>2, LedThen
      <3> QED
        BY <3>1, <3>3
    <2>4. ASSUME NEW l \in First(log) .. k
          PROVE  <<TermAt(log, k), l, TermAt(log, l)>> \in led'
      <3>1. l \in First(log) .. Last(log) /\ l <= k
        BY <1>1, <2>1, <2>4, LogTerms
      <3>2. l \in Nat /\ TermAt(log, l) \in Nat
        BY <3>1, LogTerms
      <3> QED
        BY <2>3, <3>1, <3>2
    <2> QED
      BY <2>3, <2>4
  <1> QED
    BY <1>1 DEF Sound, Led

LEMMA StartKeeps ==
  ASSUME Moves, NEW i \in Server, Start(i)
  PROVE  HistoryInv'
  <1>1. TypeOK /\ VotePersisted
    BY DEF Moves, VInv, VotesInv, IInv
  <1>2. RolesStand
    BY <1>1, OthersQuiet DEF Quiet
  <1>3. PICK log, new : log = logs[i] /\ new = Append(log, [Index |-> Last(log) + 1, Term |-> currentTerm[i]])
    OBVIOUS
  <1>4. PICK T \in Nat, n \in Nat : T = currentTerm[i] /\ n = Last(log)
    <2>1. currentTerm[i] \in Nat /\ Last(log) \in Nat
      BY <1>3, Types, LogEnds
    <2> QED
      BY <2>1
  <1>5. /\ state[i] = Leader /\ logs' = [logs EXCEPT ![i] = new]
        /\ matchIndex' = [matchIndex EXCEPT ![i][i] = n + 1]
        /\ UNCHANGED <<state, currentTerm, votedFor, commitIndex, snapCh, rpcs>>
    BY <1>3, <1>4 DEF Start
  <1>6. /\ logs'[i] = new /\ \A j \in Server \ {i} : logs'[j] = logs[j]
        /\ \A q \in Server : matchIndex'[i][q] = IF q = i THEN n + 1 ELSE matchIndex[i][q]
        /\ \A j \in Server \ {i} : matchIndex'[j] = matchIndex[j]
    BY <1>1, <1>5 DEF TypeOK
  <1>7. /\ IsLog(log) /\ IsLog(new) /\ First(new) = First(log) /\ Last(new) = n + 1
        /\ \A k \in First(log) .. n : TermAt(new, k) = TermAt(log, k)
        /\ TermAt(new, n + 1) = T
        /\ First(log) \in Nat /\ First(log) <= n
    BY <1>3, <1>4, Types, AppendIsLog, LogEnds
  <1>8. /\ led' = led \cup {<<T, n + 1, T>>}
        /\ \A k, t \in Nat : Led(T, k, t) => k <= n
        /\ LedInv' /\ LedGrows
    <2>1. /\ T = currentTerm[i] /\ log = logs[i] /\ n = Last(log)
          /\ UNCHANGED <<state, currentTerm>>
      BY <1>3, <1>4, <1>5
    <2>2. Last(new) = n + 1 /\ TermAt(new, n + 1) = T
      BY <1>7
    <2>3. state[i] = Leader /\ logs' = [logs EXCEPT ![i] = new]
      BY <1>5
    <2> QED
      BY <2>1, <2>2, <2>3, StartLed
  <1>9. LeaderLed(i) /\ LogSound(i) /\ CommitSound(i) /\ MatchAcked(i)
        /\ commitIndex[i] \in Nat /\ First(log) <= commitIndex[i] /\ commitIndex[i] <= n
    BY <1>3, <1>4, <1>5, Types, Invariants DEF LeaderInv, LogsInv, CommitInv, CommitSound, MatchInv
  <1>10. \A k \in First(new) .. n + 1 : k \in First(log) .. n \/ k = n + 1
    BY <1>4, <1>7
  <1>11. \A k \in First(new) .. Last(new) : <<T, k, TermAt(new, k)>> \in led'
    BY <1>3, <1>4, <1>7, <1>8, <1>9, <1>10 DEF LeaderLed, Led
  <1>12. KeepsOn(log, new)
    <2> SUFFICES ASSUME NEW k \in Nat, NEW t \in Nat, Keeps(log, k, t)
                 PROVE  Keeps(new, k, t) /\ (t <= TermAt(log, n) => t <= TermAt(new, n + 1))
      BY <1>4, <1>7 DEF KeepsOn
    <2>1. n \in First(log) .. n /\ TermAt(log, n) \in Nat /\ TermAt(log, n) <= T
      <3>1. n \in First(log) .. Last(log)
        BY <1>4, <1>7
      <3> QED
        BY <1>3, <1>4, <1>7, <1>9, <3>1, LogTerms DEF LogSound
    <2>2. t <= TermAt(log, n) => t <= TermAt(new, n + 1)
      BY <1>4, <1>7, <2>1
    <2>3. CASE k < First(log)
      BY <1>7, <2>2, <2>3 DEF Keeps
    <2>4. CASE matchLog(log, t, k) /\ t <= TermAt(log, n)
      <3>1. k \in First(log) .. n /\ TermAt(log, k) = t
        BY <1>4, <1>7, <2>4 DEF matchLog
      <3>2. k <= Last(new) /\ k >= First(new) /\ TermAt(new, k) = t
        BY <1>4, <1>7, <3>1
      <3> QED
        BY <1>7, <2>2, <2>4, <3>2 DEF Keeps, matchLog
    <2> QED
      BY <1>4, <2>3, <2>4 DEF Keeps
  <1>13. LogSound(i)'
    <2>1. Sound(new)' /\ \A k \in First(new) .. Last(new) : TermAt(new, k) <= T
      BY <1>7, <1>8, <1>11, LeaderSound
    <2> QED
      BY <1>4, <1>5, <1>6, <2>1, LogAfter
  <1>14. LogsMove /\ LogsInv'
    <2>1. KeepsOn(logs[i], logs'[i]) /\ First(logs[i]) <= First(logs'[i])
      BY <1>3, <1>6, <1>7, <1>12
    <2>2. ASSUME NEW j \in Server, j # i
          PROVE  LogSound(j)' /\ KeepsOn(logs[j], logs'[j]) /\ First(logs[j]) <= First(logs'[j])
      BY <1>6, <1>8, <2>2, LogStays
    <2> QED
      BY <1>13, <2>1, <2>2 DEF LogsMove, LogsInv
  <1>15. CommitInv'
    <2>1. CommitSound(i)'
      <3>1. ASSUME NEW k \in First(new) .. commitIndex[i]
            PROVE  CommittedNext(k, TermAt(new, k), currentTerm'[i])
        <4>1. k \in First(log) .. n /\ k <= commitIndex[i]
          BY <1>7, <1>9, <3>1
        <4> QED
          BY <1>3, <1>4, <1>7, <4>1, EntryStays
      <3>2. \A msg \in snapCh[i] : CommittedNext(msg.SnapshotIndex, msg.SnapshotTerm, currentTerm'[i])
        BY WaitingStays
      <3>3. commitIndex[i] <= n + 1
        BY <1>9
      <3> QED
        BY <1>5, <1>6, <1>7, <3>1, <3>2, <3>3, CommitAfter
    <2>2. ASSUME NEW j \in Server, j # i PROVE CommitSound(j)'
      BY <1>5, <1>6, <2>2, CommitStays
    <2> QED
      BY <2>1, <2>2 DEF CommitInv
  <1>16. ASSUME NEW j \in Server, j # i, state[j] = Leader
         PROVE  \A k, t \in Nat : <<currentTerm[j], k, t>> \in led' <=> Led(currentTerm[j], k, t)
    <2>1. ElectionSafety
      BY VInvImplies DEF Moves
    <2>2. currentTerm[j] # T
      BY <1>4, <1>5, <1>16, <2>1 DEF ElectionSafety
    <2> QED
      BY <1>8, <2>2 DEF Led
  <1>17. LeaderInv'
    <2>1. LeaderLed(i)'
      <3>1. <<T, 0, 0>> \in led'
        BY <1>4, <1>8, <1>9 DEF LeaderLed, Elected, Led
      <3>2. \A k, t \in Nat : <<T, k, t>> \in led' => k <= n + 1
        BY <1>8 DEF Led
      <3> QED
        BY <1>4, <1>5, <1>6, <1>7, <1>11, <3>1, <3>2, LeaderAfter
    <2>2. ASSUME NEW j \in Server, j # i, state[j] = Leader PROVE LeaderLed(j)'
      <3>1. LeaderLed(j)
        BY <2>2, Invariants DEF LeaderInv
      <3>2. /\ <<currentTerm[j], 0, 0>> \in led'
            /\ \A k \in First(logs[j]) .. Last(logs[j]) :
                 <<currentTerm[j], k, TermAt(logs[j], k)>> \in led'
        BY <1>8, <3>1 DEF LeaderLed, Elected, Led
      <3>3. \A k, t \in Nat : <<currentTerm[j], k, t>> \in led' => k <= Last(logs[j])
        BY <1>16, <2>2, <3>1 DEF LeaderLed
      <3> QED
        BY <1>5, <1>6, <2>2, <3>2, <3>3, LeaderAfter
    <2> QED
      BY <1>5, <2>1, <2>2 DEF LeaderInv
  <1>18. MatchInv'
    <2>1. ASSUME NEW q \in Server
          PROVE  /\ matchIndex'[i][q] <= n + 1
                 /\ \A k \in Nat : /\ commitIndex[i] < k /\ k <= matchIndex'[i][q]
                                   /\ <<T, k, T>> \in led'
                      => <<q, k, T>> \in acks'
      <3>1. CASE q = i
        <4>1. matchIndex'[i][q] = n + 1
          BY <1>6, <3>1
        <4>2. ASSUME NEW k \in Nat, commitIndex[i] < k, k <= n + 1, <<T, k, T>> \in led'
              PROVE  <<i, k, T>> \in acks'
          <5>1. k \in First(new) + 1 .. Last(new) /\ k \in First(new) .. Last(new)
            BY <1>7, <1>9, <4>2
          <5>2. TermAt(new, k) \in Nat /\ <<T, k, TermAt(new, k)>> \in led'
            BY <1>7, <1>11, <5>1, LogTerms
          <5>3. TermAt(new, k) = T
            <6>1. PICK t \in Nat : t = TermAt(new, k)
              BY <5>2
            <6>2. LedInv' /\ <<T, k, t>> \in led'
              BY <1>8, <5>2, <6>1
            <6>3. \A x \in Nat : <<T, k, x>> \in led' => x = t
              BY <6>2, LedThen
            <6> QED
              BY <4>2, <6>1, <6>3
          <5>4. <<i, k, T>> \in AckedBy(i)'
            BY <1>4, <1>5, <1>6, <5>1, <5>3 DEF AckedBy
          <5> QED
            BY <5>4 DEF Moves, Record
        <4> QED
          BY <3>1, <4>1, <4>2
      <3>2. CASE q # i
        <4>1. matchIndex'[i][q] = matchIndex[i][q] /\ matchIndex[i][q] \in Nat
          BY <1>6, <3>2, Types
        <4>2. /\ matchIndex[i][q] <= n
              /\ \A k \in Nat : commitIndex[i] < k /\ k <= matchIndex[i][q] /\ Led(T, k, T)
                   => Acked(q, k, T)
          BY <1>3, <1>4, <1>9 DEF MatchAcked
        <4>3. \A k \in Nat : k <= n /\ <<T, k, T>> \in led' => Led(T, k, T)
          BY <1>8 DEF Led
        <4>4. matchIndex[i][q] <= n + 1
          BY <4>1, <4>2
        <4>5. \A k \in Nat : k <= matchIndex[i][q] => k <= n
          BY <4>1, <4>2
        <4> QED
          BY <4>1, <4>2, <4>3, <4>4, <4>5, Grows DEF Acked
      <3> QED
        BY <3>1, <3>2
    <2>2. MatchAcked(i)'
      BY <1>4, <1>5, <1>6, <1>7, <2>1, MatchAfter
    <2>3. ASSUME NEW j \in Server, j # i, state[j] = Leader PROVE MatchAcked(j)'
      <3>1. MatchAcked(j)
        BY <2>3, Invariants DEF MatchInv
      <3>2. \A q \in Server :
              /\ matchIndex[j][q] <= Last(logs[j])
              /\ \A k \in Nat : /\ commitIndex[j] < k /\ k <= matchIndex[j][q]
                                /\ <<currentTerm[j], k, currentTerm[j]>> \in led'
                   => <<q, k, currentTerm[j]>> \in acks'
        <4>1. currentTerm[j] \in Nat
          BY Types
        <4> QED
          BY <1>16, <2>3, <3>1, <4>1, Grows DEF MatchAcked, Acked
      <3> QED
        BY <1>5, <1>6, <2>3, <3>2, MatchAfter
    <2> QED
      BY <1>5, <2>2, <2>3 DEF MatchInv
  <1>19. /\ CandidatesStand /\ LeadersStand
         /\ \A c \in Server : state'[c] = Candidate =>
              state[c] = Candidate /\ currentTerm'[c] = currentTerm[c]
    <2>1. \A j \in Server : commitIndex[j] <= commitIndex'[j]
      BY <1>5, Types
    <2> QED
      BY <1>5, <2>1 DEF CandidatesStand, LeadersStand
  <1>20. VotersInv' /\ AskingInv'
    BY <1>5, <1>8, <1>14, <1>19, VotersStill, AskingStill
  <1>21. MessagesInv'
    BY <1>5, <1>8, <1>14, <1>19, MessagesSound
  <1>22. ChosenInv'
    <2> SUFFICES ASSUME NEW j \in Server, NEW k \in Nat, NEW t \in Nat, state'[j] = Leader,
                        commitIndex'[j] = k, currentTerm'[j] = t, matchLog(logs'[j], t, k)
                 PROVE  <<k, t>> \in chosen
      BY <1>8, <1>19, ChosenKept
    <2>1. matchLog(logs[j], t, k)
      <3>1. CASE j = i
        <4>1. k \in First(log) .. n /\ TermAt(new, k) = t
          BY <1>5, <1>6, <1>7, <1>9, <3>1 DEF matchLog
        <4> QED
          BY <1>3, <1>4, <1>7, <3>1, <4>1 DEF matchLog
      <3>2. CASE j # i
        BY <1>6, <3>2
      <3> QED
        BY <3>1, <3>2
    <2>2. <<k, t>> \in ChosenBy(j)
      BY <1>5, <2>1 DEF ChosenBy
    <2> QED
      BY <2>2, Invariants DEF ChosenInv
  <1>23. \A u \in Nat : Elected(u)' => Elected(u)
    BY <1>8 DEF Elected, Led
  <1> QED
    BY <1>8, <1>14, <1>15, <1>17, <1>18, <1>19, <1>20, <1>21, <1>22, <1>23, Together

(* The winner of an election: its term has had no leader, and its voters   *)
(* see to it that its log has every entry that may be chosen.              *)
Wins(i, T, log) ==
  /\ Moves /\ i \in Server /\ T \in Nat /\ T = currentTerm[i] /\ log = logs[i]
  /\ state[i] = Candidate /\ state' = [state EXCEPT ![i] = Leader]
  /\ UNCHANGED <<currentTerm, votedFor, logs>>

LEMMA WinnerVotes ==
  ASSUME NEW i, NEW T, NEW log, Wins(i, T, log)
  PROVE  /\ votes' = votes
         /\ Majority({ p \in Server : <<T, p, i>> \in votes })
  <1>1. /\ Moves /\ i \in Server /\ T \in Nat /\ T = currentTerm[i]
        /\ UNCHANGED <<currentTerm, votedFor>> /\ state'[i] = Leader
    BY Types DEF Wins
  <1>2. votes' = votes
    <2>1. Held' \subseteq votes
      BY <1>1 DEF Held, Moves, VInv, VotesInv, VotesOK
    <2> QED
      BY <1>1, <2>1 DEF Moves, Record
  <1>3. Majority(VotersOf(i)')
    <2>1. LeaderHasMajority'
      BY <1>1 DEF Moves, VInv, VotesInv
    <2> QED
      BY <1>1, <2>1 DEF LeaderHasMajority, Majority
  <1>4. VotersOf(i)' = { p \in Server : <<T, p, i>> \in votes }
    BY <1>1, <1>2 DEF VotersOf
  <1> QED
    BY <1>2, <1>3, <1>4

LEMMA WinnerIsFirst ==
  ASSUME NEW i, NEW T, NEW log, Wins(i, T, log)
  PROVE  T # 0 /\ ~Elected(T)
  <1>1. /\ Moves /\ i \in Server /\ T \in Nat /\ T = currentTerm[i] /\ state[i] = Candidate
    BY DEF Wins
  <1>2. T # 0
    BY <1>1, Invariants DEF OwnerInv
  <1>3. ASSUME Elected(T) PROVE FALSE
    <2>1. PICK j \in Server :
            /\ Majority({ p \in Server : <<T, p, j>> \in votes })
            /\ T = currentTerm[j] => state[j] # Candidate
      BY <1>1, <1>2, <1>3, Invariants DEF OwnerInv
    <2> DEFINE A == { p \in Server : <<T, p, j>> \in votes }
               B == { p \in Server : <<T, p, i>> \in votes }
    <2>2. Majority(A) /\ Majority(B) /\ A \in SUBSET Server /\ B \in SUBSET Server
      BY <2>1, WinnerVotes
    <2>3. PICK p \in Server : p \in A /\ p \in B
      <3> HIDE DEF A, B
      <3> QED
        BY <2>2, MajoritiesMeet
    <2>4. i = j
      BY <1>1, <2>3 DEF Moves, VInv, VotesInv, OnlyVote
    <2> QED
      BY <1>1, <2>1, <2>4
  <1> QED
    BY <1>2, <1>3

LEMMA WinnerKeeps ==
  ASSUME NEW i, NEW T, NEW log, Wins(i, T, log),
         NEW k \in Nat, NEW t \in Nat, t < T, Choosable(k, t)
  PROVE  Keeps(log, k, t) /\ Led(t, k, t)
  <1>1. /\ Moves /\ i \in Server /\ T \in Nat /\ T = currentTerm[i] /\ log = logs[i]
        /\ state[i] = Candidate
    BY DEF Wins
  <1> DEFINE A == { p \in Server : Acked(p, k, t) \/ currentTerm[p] <= t }
             B == { p \in Server : <<T, p, i>> \in votes }
  <1>2. Majority(A) /\ Majority(B) /\ A \in SUBSET Server /\ B \in SUBSET Server
    BY WinnerVotes DEF Choosable
  <1>3. PICK p \in Server : p \in A /\ p \in B
    <2> HIDE DEF A, B
    <2> QED
      BY <1>2, MajoritiesMeet
  <1>4. T <= currentTerm[p]
    BY <1>1, <1>3 DEF Moves, VInv, VotesInv, VotesOK
  <1>5. currentTerm[p] \in Nat
    BY <1>1, Types
  <1>6. Acked(p, k, t)
    BY <1>1, <1>3, <1>4, <1>5
  <1>7. Keeps(log, k, t)
    BY <1>1, <1>3, <1>6, Invariants DEF VotersInv
  <1>8. Led(t, k, t)
    BY <1>1, <1>6, Invariants DEF AcksInv
  <1> QED
    BY <1>7, <1>8

LEMMA WinnerIsSound ==
  ASSUME NEW i, NEW T, NEW log, Wins(i, T, log)
  PROVE  /\ IsLog(log) /\ Sound(log)
         /\ \A k \in First(log) .. Last(log) : TermAt(log, k) < T
  <1>1. /\ Moves /\ i \in Server /\ T \in Nat /\ T = currentTerm[i] /\ log = logs[i]
    BY DEF Wins
  <1>2. /\ IsLog(log) /\ LedInv /\ ChosenInv /\ SafeInv
        /\ Sound(log) \/ Junk(log, T)
        /\ \A k \in First(log) .. Last(log) : TermAt(log, k) <= T
    BY <1>1, Types, Invariants DEF LogsInv, LogSound
  <1>3. ASSUME Junk(log, T) PROVE FALSE
    <2>1. PICK n \in Nat, w \in Nat :
            /\ <<n, w>> \in chosen /\ w <= T /\ First(log) <= n
            /\ \A k \in First(log) + 1 .. Last(log) : TermAt(log, k) < w
      BY <1>3 DEF Junk
    <2>2. First(log) < Last(log) /\ First(log) \in Nat /\ Last(log) \in Nat
      BY <1>2, <1>3, LogEnds DEF Junk
    <2>3. Choosable(n, w) /\ Led(w, n, w)
      BY <1>2, <2>1, ChosenIsChoosable
    <2>4. Elected(w)
      BY <1>2, <2>3, LedFacts
    <2>5. w # T
      BY <2>4, WinnerIsFirst
    <2>6. Keeps(log, n, w)
      BY <1>1, <2>1, <2>3, <2>5, WinnerKeeps
    <2>7. Last(log) \in First(log) + 1 .. Last(log) /\ Last(log) \in First(log) .. Last(log)
      BY <2>2
    <2>8. TermAt(log, Last(log)) \in Nat
      BY <1>2, <2>7, LogTerms
    <2> QED
      BY <2>1, <2>2, <2>6, <2>7, <2>8 DEF Keeps
  <1>4. ASSUME NEW k \in First(log) .. Last(log) PROVE TermAt(log, k) < T
    <2>1. k \in Nat /\ TermAt(log, k) \in Nat /\ First(log) \in Nat
      BY <1>2, LogTerms
    <2>2. k \in First(log) .. k
      BY <1>4, <2>1
    <2>3. Elected(TermAt(log, k))
      BY <1>2, <1>3, <2>2, SoundTerms
    <2> QED
      BY <1>1, <1>2, <2>1, <2>3, WinnerIsFirst
  <1> QED
    BY <1>2, <1>3, <1>4

(* What the history says of the winner's log: what the log holds, and      *)
(* below its first index what the leader of the first entry's term had.    *)
Inherits(log, k, x) ==
  \/ k \in First(log) .. Last(log) /\ x = TermAt(log, k)
  \/ k < First(log) /\ Led(TermAt(log, First(log)), k, x)

LEMMA WinnerInherits ==
  ASSUME NEW i, NEW T, NEW log, Wins(i, T, log)
  PROVE  /\ Inherits(log, 0, 0)
         /\ \A k, t \in Nat : Inherits(log, k, t) =>
              /\ t < T /\ Elected(t) /\ Led(t, k, t)
              /\ \A l, x \in Nat : l <= k => (Inherits(log, l, x) <=> Led(t, l, x))
  <1>1. /\ LedInv /\ T \in Nat /\ IsLog(log) /\ Sound(log)
        /\ \A k \in First(log) .. Last(log) : TermAt(log, k) < T
    BY WinnerIsSound, Invariants DEF Wins
  <1>2. PICK f \in Nat, n \in Nat, tf \in Nat :
          /\ f = First(log) /\ n = Last(log) /\ f <= n /\ tf = TermAt(log, f) /\ tf < T
    <2>1. First(log) \in Nat /\ Last(log) \in Nat /\ First(log) <= Last(log)
      BY <1>1, LogTerms
    <2>2. First(log) \in First(log) .. Last(log)
      BY <2>1
    <2>3. TermAt(log, First(log)) \in Nat /\ TermAt(log, First(log)) < T
      BY <1>1, <2>2, LogTerms
    <2> QED
      BY <2>1, <2>3
  <1>3. \A k, x \in Nat : Inherits(log, k, x) <=>
          (k \in f .. n /\ x = TermAt(log, k)) \/ (k < f /\ Led(tf, k, x))
    BY <1>2 DEF Inherits
  <1>4. ASSUME NEW k \in f .. n, NEW t \in Nat, t = TermAt(log, k)
        PROVE  /\ t < T /\ Elected(t) /\ Led(t, k, t) /\ Led(t, f, tf)
               /\ \A l \in f .. k : Led(t, l, TermAt(log, l)) /\ TermAt(log, l) \in Nat
    <2>1. k \in First(log) .. Last(log) /\ k \in Nat
      BY <1>2, <1>4
    <2>2. \A l \in First(log) .. k : Led(t, l, TermAt(log, l)) /\ Led(t, k, t) /\ Elected(t)
      BY <1>1, <1>4, <2>1, SoundTerms
    <2>3. f \in First(log) .. k
      BY <1>2, <1>4, <2>1
    <2>4. \A l \in f .. k : l \in First(log) .. Last(log) /\ l \in First(log) .. k
      BY <1>2, <1>4, <2>1
    <2>5. \A l \in f .. k : TermAt(log, l) \in Nat
      BY <1>1, <2>4, LogTerms
    <2>6. t < T
      BY <1>1, <1>4, <2>1
    <2> QED
      BY <1>2, <2>2, <2>3, <2>4, <2>5, <2>6
  <1>5. Elected(tf) /\ Led(tf, f, tf)
    <2>1. f \in f .. n
      BY <1>2
    <2> QED
      BY <1>2, <1>4, <2>1
  <1>6. Inherits(log, 0, 0)
    <2>1. CASE f = 0
      <3>1. Led(tf, 0, 0) /\ Led(tf, 0, tf)
        BY <1>5, <2>1 DEF Elected
      <3>2. tf = 0
        BY <1>1, <3>1, LedOnce
      <3> QED
        BY <1>2, <1>3, <2>1, <3>2
    <2>2. CASE f # 0
      <3>1. Led(tf, 0, 0) /\ 0 < f
        BY <1>2, <1>5, <2>2 DEF Elected
      <3> QED
        BY <1>3, <3>1
    <2> QED
      BY <2>1, <2>2
  <1>7. ASSUME NEW k \in Nat, NEW t \in Nat, Inherits(log, k, t)
        PROVE  /\ t < T /\ Elected(t) /\ Led(t, k, t)
               /\ \A l, x \in Nat : l <= k => (Inherits(log, l, x) <=> Led(t, l, x))
    <2>1. CASE k \in f .. n /\ t = TermAt(log, k)
      <3>1. t < T /\ Elected(t) /\ Led(t, k, t) /\ Led(t, f, tf)
        BY <1>4, <2>1
      <3>2. \A l \in f .. k : Led(t, l, TermAt(log, l)) /\ TermAt(log, l) \in Nat
        BY <1>4, <2>1
      <3>3. ASSUME NEW l \in Nat, NEW x \in Nat, l <= k
            PROVE  Inherits(log, l, x) <=> Led(t, l, x)
        <4>1. CASE l < f
          <5>1. Led(t, l, x) <=> Led(tf, l, x)
            BY <1>1, <3>1, <4>1, LedBelow
          <5>2. l \notin f .. n
            BY <4>1
          <5> QED
            BY <1>3, <4>1, <5>1, <5>2
        <4>2. CASE f <= l
          <5>1. l \in f .. n /\ l \in f .. k /\ ~(l < f)
            BY <2>1, <3>3, <4>2
          <5>2. PICK y \in Nat : y = TermAt(log, l)
            BY <3>2, <5>1
          <5>3. Led(t, l, y)
            BY <3>2, <5>1, <5>2
          <5>4. Led(t, l, x) <=> x = y
            BY <1>1, <5>3, LedOnce
          <5> QED
            BY <1>3, <5>1, <5>2, <5>4
        <4> QED
          BY <4>1, <4>2
      <3> QED
        BY <3>1, <3>3
    <2>2. CASE k < f /\ Led(tf, k, t)
      <3>1. t <= tf /\ Elected(t) /\ Led(t, k, t)
        BY <1>1, <2>2, LedFacts
      <3>2. t < T
        BY <1>1, <1>2, <3>1
      <3>3. ASSUME NEW l \in Nat, NEW x \in Nat, l <= k
            PROVE  Inherits(log, l, x) <=> Led(t, l, x)
        <4>1. Led(tf, l, x) <=> Led(t, l, x)
          BY <1>1, <2>2, <3>3, LedBelow
        <4>2. l < f /\ l \notin f .. n
          BY <2>2, <3>3
        <4> QED
          BY <1>3, <4>1, <4>2
      <3> QED
        BY <3>1, <3>2, <3>3
    <2> QED
      BY <1>3, <1>7, <2>1, <2>2
  <1> QED
    BY <1>6, <1>7

LEMMA WinnerLed ==
  ASSUME NEW i, NEW T, NEW log, Wins(i, T, log)
  PROVE  /\ led' \subseteq Nat \X Nat \X Nat
         /\ \A u, k, x \in Nat : <<u, k, x>> \in led' <=>
              Led(u, k, x) \/ (u = T /\ Inherits(log, k, x))
  <1>1. /\ Moves /\ i \in Server /\ T \in Nat /\ T = currentTerm'[i] /\ log = logs'[i]
        /\ state[i] # Leader /\ state'[i] = Leader
        /\ \A j \in Server \ {i} : state'[j] = state[j]
        /\ UNCHANGED logs /\ IsLog(log) /\ LedInv
    <2>1. /\ Moves /\ i \in Server /\ T \in Nat /\ T = currentTerm'[i] /\ log = logs'[i]
          /\ UNCHANGED logs /\ log = logs[i]
      BY DEF Wins
    <2>2. IsLog(log) /\ LedInv
      BY <2>1, Types, Invariants
    <2>3. state \in [Server -> {Follower, Candidate, Leader}]
      BY <2>1, Types
    <2>4. /\ state[i] # Leader /\ state'[i] = Leader
          /\ \A j \in Server \ {i} : state'[j] = state[j]
      BY <2>1, <2>3 DEF Wins, Candidate, Leader
    <2> QED
      BY <2>1, <2>2, <2>4
  <1>2. ASSUME NEW j \in Server, j # i, state'[j] = Leader PROVE NewlyLed(j) = {}
    <2>1. state[j] = Leader /\ logs'[j] = logs[j] /\ Last(logs[j]) \in Nat
      BY <1>1, <1>2, Types, LogEnds
    <2>2. Last(logs[j]) + 1 .. Last(logs'[j]) = {}
      BY <2>1
    <2> QED
      BY <2>1, <2>2 DEF NewlyLed
  <1>3. led' = led \cup NewlyLed(i)
    BY <1>1, <1>2 DEF Moves, Record
  <1>4. led \subseteq Nat \X Nat \X Nat
    BY <1>1 DEF LedInv
  <1> DEFINE A == { <<T, k, TermAt(log, k)>> : k \in First(log) .. Last(log) }
             E == { e \in led : e[1] = TermAt(log, First(log)) /\ e[2] < First(log) }
             B == { <<T, e[2], e[3]>> : e \in E }
  <1>5. NewlyLed(i) = A \cup B
    BY <1>1 DEF NewlyLed
  <1>6. \A u, k, x : <<u, k, x>> \in A <=> u = T /\ k \in First(log) .. Last(log) /\ x = TermAt(log, k)
    OBVIOUS
  <1>7. ASSUME NEW u, NEW k, NEW x
        PROVE  <<u, k, x>> \in B <=> u = T /\ k < First(log) /\ Led(TermAt(log, First(log)), k, x)
    <2>1. ASSUME <<u, k, x>> \in B
          PROVE  u = T /\ k < First(log) /\ Led(TermAt(log, First(log)), k, x)
      <3>1. PICK e \in E : <<u, k, x>> = <<T, e[2], e[3]>>
        BY <2>1
      <3>2. e \in led /\ e[1] = TermAt(log, First(log)) /\ e[2] < First(log)
        BY <3>1
      <3>3. e = <<e[1], e[2], e[3]>>
        BY <1>4, <3>2
      <3> QED
        BY <3>1, <3>2, <3>3 DEF Led
    <2>2. ASSUME u = T, k < First(log), Led(TermAt(log, First(log)), k, x)
          PROVE  <<u, k, x>> \in B
      <3>1. PICK e : e = <<TermAt(log, First(log)), k, x>>
        OBVIOUS
      <3>2. e \in E /\ e[2] = k /\ e[3] = x
        BY <2>2, <3>1 DEF Led
      <3> QED
        BY <2>2, <3>2
    <2> QED
      BY <2>1, <2>2
  <1>8. B \subseteq Nat \X Nat \X Nat
    BY <1>1, <1>4
  <1>9. A \subseteq Nat \X Nat \X Nat
    BY <1>1, LogTerms
  <1> HIDE DEF A, B, E
  <1>10. led' = led \cup A \cup B
    BY <1>3, <1>5
  <1>11. led' \subseteq Nat \X Nat \X Nat
    BY <1>4, <1>8, <1>9, <1>10
  <1>12. ASSUME NEW u \in Nat, NEW k \in Nat, NEW x \in Nat
         PROVE  <<u, k, x>> \in led' <=> Led(u, k, x) \/ (u = T /\ Inherits(log, k, x))
    BY <1>6, <1>7, <1>10 DEF Led, Inherits
  <1> QED
    BY <1>11, <1>12

LEMMA WinnerLedInv ==
  ASSUME NEW i, NEW T, NEW log, Wins(i, T, log)
  PROVE  /\ LedInv' /\ LedGrows
         /\ <<T, 0, 0>> \in led'
         /\ \A k \in First(log) .. Last(log) : <<T, k, TermAt(log, k)>> \in led'
         /\ \A k, t \in Nat : <<T, k, t>> \in led' => k <= Last(log) /\ t < T
         /\ \A u, k, t \in Nat : u # T => (<<u, k, t>> \in led' <=> Led(u, k, t))
  <1>1. LedInv /\ T \in Nat /\ IsLog(log) /\ ~Elected(T)
    BY WinnerIsSound, WinnerIsFirst, Invariants DEF Wins
  <1>2. /\ led' \subseteq Nat \X Nat \X Nat
        /\ \A u, k, x \in Nat : <<u, k, x>> \in led' <=>
             Led(u, k, x) \/ (u = T /\ Inherits(log, k, x))
    BY WinnerLed
  <1>3. /\ Inherits(log, 0, 0)
        /\ \A k, t \in Nat : Inherits(log, k, t) =>
             /\ t < T /\ Elected(t) /\ Led(t, k, t)
             /\ \A l, x \in Nat : l <= k => (Inherits(log, l, x) <=> Led(t, l, x))
    BY WinnerInherits
  <1>4. \A k, x \in Nat : ~Led(T, k, x)
    BY <1>1, LedFacts
  <1>5. \A k, x \in Nat : <<T, k, x>> \in led' <=> Inherits(log, k, x)
    BY <1>1, <1>2, <1>4
  <1>6. \A u, k, x \in Nat : u # T => (<<u, k, x>> \in led' <=> Led(u, k, x))
    BY <1>2
  <1>8. ASSUME NEW u \in Nat, NEW k \in Nat, NEW t \in Nat, <<u, k, t>> \in led'
        PROVE  /\ t <= u /\ <<u, 0, 0>> \in led' /\ <<t, 0, 0>> \in led'
               /\ \A l, x \in Nat : l <= k => (<<u, l, x>> \in led' <=> <<t, l, x>> \in led')
               /\ \A l, x \in Nat : l <= k /\ <<u, l, x>> \in led' => x <= t
               /\ \A x \in Nat : <<u, k, x>> \in led' => x = t
    <2>1. CASE u = T
      <3>1. /\ t < T /\ Elected(t) /\ Led(t, k, t) /\ t # T
            /\ \A l, x \in Nat : l <= k => (Inherits(log, l, x) <=> Led(t, l, x))
        <4>1. Inherits(log, k, t)
          BY <1>5, <1>8, <2>1
        <4> QED
          BY <1>1, <1>3, <4>1
      <3>2. \A l, x \in Nat : l <= k => /\ <<u, l, x>> \in led' <=> Led(t, l, x)
                                        /\ <<t, l, x>> \in led' <=> Led(t, l, x)
        BY <1>5, <1>6, <2>1, <3>1
      <3>3. \A l, x \in Nat : l <= k /\ Led(t, l, x) => x <= t
        BY <1>1, <3>1, LedBelow
      <3>4. \A x \in Nat : Led(t, k, x) => x = t
        BY <1>1, <3>1, LedOnce
      <3>5. <<u, 0, 0>> \in led' /\ <<t, 0, 0>> \in led'
        BY <1>3, <1>5, <1>6, <2>1, <3>1 DEF Elected
      <3>6. \A x \in Nat : <<u, k, x>> \in led' => x = t
        <4>1. k <= k
          OBVIOUS
        <4> QED
          BY <3>2, <3>4, <4>1
      <3>7. t <= u
        BY <1>1, <2>1, <3>1
      <3>8. \A l, x \in Nat : l <= k => (<<u, l, x>> \in led' <=> <<t, l, x>> \in led')
        BY <3>2
      <3>9. \A l, x \in Nat : l <= k /\ <<u, l, x>> \in led' => x <= t
        BY <3>2, <3>3
      <3> QED
        BY <3>5, <3>6, <3>7, <3>8, <3>9
    <2>2. CASE u # T
      <3>1. Led(u, k, t)
        BY <1>6, <1>8, <2>2
      <3>2. t <= u /\ Elected(u) /\ Elected(t) /\ t # T
        BY <1>1, <3>1, LedFacts
      <3>3. \A l, x \in Nat : /\ <<u, l, x>> \in led' <=> Led(u, l, x)
                              /\ <<t, l, x>> \in led' <=> Led(t, l, x)
        BY <1>6, <2>2, <3>2
      <3>4. \A l, x \in Nat : l <= k => /\ Led(u, l, x) <=> Led(t, l, x)
                                        /\ Led(u, l, x) => x <= t
        BY <1>1, <3>1, LedBelow
      <3>5. \A x \in Nat : Led(u, k, x) => x = t
        BY <1>1, <3>1, LedOnce
      <3>6. <<u, 0, 0>> \in led' /\ <<t, 0, 0>> \in led'
        BY <3>2, <3>3 DEF Elected
      <3>7. \A l, x \in Nat : l <= k => (<<u, l, x>> \in led' <=> <<t, l, x>> \in led')
        BY <3>3, <3>4
      <3>8. \A l, x \in Nat : l <= k /\ <<u, l, x>> \in led' => x <= t
        BY <3>3, <3>4
      <3>9. \A x \in Nat : <<u, k, x>> \in led' => x = t
        BY <3>3, <3>5
      <3> QED
        BY <3>2, <3>6, <3>7, <3>8, <3>9
    <2> QED
      BY <2>1, <2>2
  <1>9. LedInv'
    <2>1. <<0, 0, 0>> \in led'
      BY <1>1, <1>2 DEF LedInv, Elected
    <2> QED
      BY <1>2, <1>8, <2>1, LedAfter
  <1>10. LedGrows
    <2> SUFFICES ASSUME NEW u \in Nat, NEW k \in Nat, NEW t \in Nat, <<u, k, t>> \in led', ~Led(u, k, t)
                 PROVE  ~Elected(u) /\ t < u /\ Led(t, k, t)
      BY DEF LedGrows, Led
    <2>1. u = T
      BY <1>6
    <2>2. Inherits(log, k, t)
      BY <1>5, <2>1
    <2> QED
      BY <1>1, <1>3, <2>1, <2>2
  <1>11. <<T, 0, 0>> \in led'
    BY <1>3, <1>5
  <1>12. \A k \in First(log) .. Last(log) : <<T, k, TermAt(log, k)>> \in led'
    <2> SUFFICES ASSUME NEW k \in First(log) .. Last(log) PROVE <<T, k, TermAt(log, k)>> \in led'
      OBVIOUS
    <2>1. k \in Nat /\ TermAt(log, k) \in Nat /\ Inherits(log, k, TermAt(log, k))
      BY <1>1, LogTerms DEF Inherits
    <2> QED
      BY <1>5, <2>1
  <1>13. \A k, t \in Nat : <<T, k, t>> \in led' => k <= Last(log) /\ t < T
    <2> SUFFICES ASSUME NEW k \in Nat, NEW t \in Nat, <<T, k, t>> \in led'
                 PROVE  k <= Last(log) /\ t < T
      OBVIOUS
    <2>1. Inherits(log, k, t) /\ t < T
      BY <1>3, <1>5
    <2>2. First(log) \in Nat /\ Last(log) \in Nat /\ First(log) <= Last(log)
      BY <1>1, LogTerms
    <2> QED
      BY <2>1, <2>2 DEF Inherits
  <1> QED
    BY <1>6, <1>9, <1>10, <1>11, <1>12, <1>13

LEMMA WinKeeps ==
  ASSUME NEW i, NEW T, NEW log, Wins(i, T, log), UNCHANGED <<commitIndex, snapCh>>,
         matchIndex' = [matchIndex EXCEPT ![i] = [p \in Server |-> 0]], rpcs' \subseteq rpcs
  PROVE  HistoryInv'
  <1>1. /\ Moves /\ i \in Server /\ T \in Nat /\ T = currentTerm[i] /\ T = currentTerm'[i]
        /\ log = logs[i] /\ log = logs'[i] /\ UNCHANGED <<currentTerm, votedFor, logs>>
    BY DEF Wins
  <1>2. /\ LedInv' /\ LedGrows
        /\ <<T, 0, 0>> \in led'
        /\ \A k \in First(log) .. Last(log) : <<T, k, TermAt(log, k)>> \in led'
        /\ \A k, t \in Nat : <<T, k, t>> \in led' => k <= Last(log) /\ t < T
        /\ \A u, k, t \in Nat : u # T => (<<u, k, t>> \in led' <=> Led(u, k, t))
    BY WinnerLedInv
  <1>3. T # 0 /\ ~Elected(T)
    BY WinnerIsFirst
  <1>4. IsLog(log) /\ \A k \in First(log) .. Last(log) : TermAt(log, k) < T
    BY WinnerIsSound
  <1>5. state'[i] = Leader /\ \A j \in Server \ {i} : state'[j] = state[j]
    <2>1. state \in [Server -> {Follower, Candidate, Leader}]
      BY <1>1, Types
    <2> QED
      BY <1>1, <2>1 DEF Wins
  <1>6. /\ matchIndex'[i] = [p \in Server |-> 0]
        /\ \A j \in Server \ {i} : matchIndex'[j] = matchIndex[j]
    <2>1. matchIndex \in [Server -> [Server -> Nat]]
      BY <1>1, Types
    <2> QED
      BY <1>1, <2>1
  <1>7. LogsMove /\ LogsInv'
    BY <1>1, <1>2, LogsStill
  <1>8. CommitInv'
    BY <1>1, CommitStays DEF CommitInv
  <1>9. CandidatesStand
    BY <1>1, <1>5 DEF CandidatesStand, Leader, Candidate
  <1>10. \A c \in Server : state'[c] = Candidate =>
           state[c] = Candidate /\ currentTerm'[c] = currentTerm[c]
    BY <1>1, <1>5 DEF Leader, Candidate
  <1>11. LeadersStand
    <2>1. \A j \in Server : commitIndex[j] <= commitIndex'[j]
      BY <1>1, Types
    <2> QED
      BY <1>1, <1>3, <1>5, <2>1 DEF LeadersStand
  <1>12. SafeInv'
    <2>1. ASSUME NEW u \in Nat, <<u, 0, 0>> \in led', ~Elected(u),
                 NEW k \in Nat, NEW t \in Nat, t < u, Choosable(k, t)
          PROVE  <<u, k, t>> \in led'
      <3>1. u = T
        BY <1>2, <2>1 DEF Elected
      <3>2. Keeps(log, k, t) /\ Led(t, k, t)
        BY <2>1, <3>1, WinnerKeeps
      <3>3. CASE k < First(log)
        <4>1. PICK f \in Nat, tf \in Nat :
                f = First(log) /\ tf = TermAt(log, f) /\ CommittedIn(f, tf, T)
          <5>1. /\ First(log) \in Nat /\ First(log) \in First(log) .. commitIndex[i]
                /\ First(log) \in First(log) .. Last(log)
            BY <1>1, <1>4, Types, LogTerms
          <5>2. CommittedIn(First(log), TermAt(log, First(log)), T)
            BY <1>1, <5>1, Invariants DEF CommitInv, CommitSound
          <5>3. TermAt(log, First(log)) \in Nat
            BY <1>4, <5>1, LogTerms
          <5> QED
            BY <5>1, <5>2, <5>3
        <4>2. LedInv /\ ChosenInv /\ SafeInv /\ k <= f
          BY <1>1, <3>3, <4>1, Invariants
        <4>3. Led(tf, k, t)
          BY <1>1, <2>1, <3>2, <4>1, <4>2, Comparable
        <4>4. Inherits(log, k, t)
          BY <3>3, <4>1, <4>3 DEF Inherits
        <4> QED
          BY <3>1, <4>4, WinnerLed
      <3>4. CASE matchLog(log, t, k)
        <4>1. k \in First(log) .. Last(log) /\ TermAt(log, k) = t
          BY <1>4, <3>4, LogTerms DEF matchLog
        <4> QED
          BY <1>2, <3>1, <4>1
      <3> QED
        BY <3>2, <3>3, <3>4 DEF Keeps
    <2>2. \A u \in Nat : Elected(u)' =>
            \/ Elected(u)
            \/ \A k, t \in Nat : t < u /\ Choosable(k, t) => Led(u, k, t)'
      BY <2>1 DEF Elected, Led
    <2> QED
      BY <1>1, <2>2, SafeKept
  <1>13. OwnerInv'
    <2>1. Majority({ p \in Server : <<T, p, i>> \in votes' })
      <3>1. /\ votes' = votes
            /\ Majority({ p \in Server : <<T, p, i>> \in votes })
        BY WinnerVotes
      <3>2. { p \in Server : <<T, p, i>> \in votes' } = { p \in Server : <<T, p, i>> \in votes }
        BY <3>1
      <3> QED
        BY <3>1, <3>2
    <2>2. T <= currentTerm'[i] /\ state'[i] # Candidate
      BY <1>1, <1>5 DEF Leader, Candidate
    <2>3. \A u \in Nat : Elected(u)' => Elected(u) \/ u = T
      BY <1>2 DEF Elected, Led
    <2>4. \A u \in Nat \ {0} : Elected(u)' =>
            \/ Elected(u)
            \/ \E j \in Server :
                 /\ Majority({ p \in Server : <<u, p, j>> \in votes' })
                 /\ u <= currentTerm'[j] /\ state'[j] # Candidate
      BY <1>1, <2>1, <2>2, <2>3
    <2> QED
      BY <1>1, <1>9, <2>4, OwnerKept
  <1>14. AcksInv'
    BY <1>1, <1>2, <1>7, AcksKept
  <1>15. VotersInv' /\ AskingInv'
    <2>1. \A p \in Server : votedFor'[p] = votedFor[p] /\ currentTerm'[p] = currentTerm[p]
      BY <1>1
    <2>2. VotersInv'
      BY <1>1, <1>7, <1>9, <1>10, <2>1, VotersStill
    <2>3. AskingInv'
      BY <1>1, <1>2, <1>7, <1>10, AskingStill
    <2> QED
      BY <2>2, <2>3
  <1>16. MessagesInv'
    BY <1>1, <1>2, <1>7, <1>11, MessagesSound
  <1>17. ChosenInv'
    <2> SUFFICES ASSUME NEW j \in Server, NEW k \in Nat, NEW t \in Nat, state'[j] = Leader,
                        commitIndex'[j] = k, currentTerm'[j] = t, matchLog(logs'[j], t, k)
                 PROVE  <<k, t>> \in chosen
      BY <1>1, <1>2, <1>11, ChosenKept
    <2>1. j # i
      <3> SUFFICES ASSUME j = i PROVE FALSE
        OBVIOUS
      <3>1. k \in First(log) .. Last(log) /\ TermAt(log, k) = T
        BY <1>1, <1>4, LogTerms DEF matchLog
      <3>2. TermAt(log, k) < T
        BY <1>4, <3>1
      <3> QED
        BY <1>1, <3>1, <3>2
    <2>2. <<k, t>> \in ChosenBy(j)
      BY <1>1, <1>5, <2>1 DEF ChosenBy
    <2> QED
      BY <1>1, <2>2, Invariants DEF ChosenInv
  <1>18. ASSUME NEW j \in Server, j # i, state[j] = Leader
         PROVE  /\ LeaderLed(j) /\ MatchAcked(j) /\ currentTerm[j] \in Nat
                /\ \A k, t \in Nat : <<currentTerm[j], k, t>> \in led' <=> Led(currentTerm[j], k, t)
    <2>1. LeaderLed(j) /\ MatchAcked(j) /\ currentTerm[j] \in Nat
      BY <1>1, <1>18, Types, Invariants DEF LeaderInv, MatchInv
    <2>2. currentTerm[j] # T
      BY <1>3, <2>1 DEF LeaderLed
    <2> QED
      BY <1>2, <2>1, <2>2
  <1>19. LeaderInv'
    <2>1. LeaderLed(i)'
      <3>1. \A k, t \in Nat : <<T, k, t>> \in led' => k <= Last(log)
        BY <1>2
      <3> QED
        BY <1>1, <1>2, <3>1, LeaderAfter
    <2>2. ASSUME NEW j \in Server, j # i, state[j] = Leader PROVE LeaderLed(j)'
      <3>1. /\ <<currentTerm[j], 0, 0>> \in led'
            /\ \A k \in First(logs[j]) .. Last(logs[j]) :
                 <<currentTerm[j], k, TermAt(logs[j], k)>> \in led'
        BY <1>1, <1>18, <2>2, Grows DEF LeaderLed, Elected, Led
      <3>2. \A k, t \in Nat : <<currentTerm[j], k, t>> \in led' => k <= Last(logs[j])
        BY <1>18, <2>2 DEF LeaderLed
      <3> QED
        BY <1>1, <2>2, <3>1, <3>2, LeaderAfter
    <2> QED
      BY <1>5, <2>1, <2>2 DEF LeaderInv
  <1>20. MatchInv'
    <2>1. MatchAcked(i)'
      <3>1. \A p \in Server : matchIndex'[i][p] = 0
        BY <1>6
      <3>2. commitIndex[i] \in Nat /\ commitIndex'[i] = commitIndex[i] /\ Last(log) \in Nat
        BY <1>1, <1>4, Types, LogTerms
      <3>3. \A p \in Server :
              /\ matchIndex'[i][p] <= Last(logs'[i])
              /\ \A k \in Nat : ~(commitIndex'[i] < k /\ k <= matchIndex'[i][p])
        BY <1>1, <3>1, <3>2
      <3> QED
        BY <1>1, <3>3, MatchAfter
    <2>2. ASSUME NEW j \in Server, j # i, state[j] = Leader PROVE MatchAcked(j)'
      <3>1. \A q \in Server :
              /\ matchIndex[j][q] <= Last(logs[j])
              /\ \A k \in Nat : /\ commitIndex[j] < k /\ k <= matchIndex[j][q]
                                /\ <<currentTerm[j], k, currentTerm[j]>> \in led'
                   => <<q, k, currentTerm[j]>> \in acks'
        BY <1>1, <1>18, <2>2, Grows DEF MatchAcked, Acked
      <3> QED
        BY <1>1, <1>6, <2>2, <3>1, MatchAfter
    <2> QED
      BY <1>5, <2>1, <2>2 DEF MatchInv
  <1> QED
    BY <1>2, <1>7, <1>8, <1>12, <1>13, <1>14, <1>15, <1>16, <1>17, <1>19, <1>20 DEF HistoryInv

LEMMA HandleRequestVoteResponseKeeps ==
  ASSUME Moves, NEW m \in rpcs, HandleRequestVoteResponse(m)
  PROVE  HistoryInv'
  <1>1. TypeOK /\ VotePersisted
    BY DEF Moves, VInv, VotesInv, IInv
  <1>2. /\ m.type = "RequestVoteReply" /\ m.to \in Server /\ m.Term \in Nat
        /\ UNCHANGED snapCh
    BY Types, MessageFields DEF HandleRequestVoteResponse, Requests
  <1>3. rpcs' \subseteq rpcs
    BY DEF HandleRequestVoteResponse, InFlight
  <1>4. ASSUME ElectionGoesOn(m.to, m), m.VoteGranted,
               IF grantedVotes[m.to] + 1 > Cardinality(Server) \div 2
                 THEN becomeLeader(m.to)
                 ELSE UNCHANGED <<state, nextIndex, matchIndex>>,
               UNCHANGED <<hardState, commitIndex, persister>>
        PROVE  HistoryInv'
    <2>1. UNCHANGED <<currentTerm, votedFor, logs, commitIndex>>
      BY <1>4 DEF hardState
    <2>2. CASE becomeLeader(m.to)
      <3>1. PICK T, log : T = currentTerm[m.to] /\ log = logs[m.to]
        OBVIOUS
      <3>2. T \in Nat
        BY <1>2, <3>1, Types
      <3>3. Wins(m.to, T, log)
        BY <1>2, <1>4, <2>1, <2>2, <3>1, <3>2 DEF Wins, ElectionGoesOn, becomeLeader, ChangeState
      <3>4. matchIndex' = [matchIndex EXCEPT ![m.to] = [p \in Server |-> 0]]
        BY <2>2 DEF becomeLeader
      <3> QED
        BY <1>2, <1>3, <2>1, <3>3, <3>4, WinKeeps
    <2>3. CASE UNCHANGED <<state, nextIndex, matchIndex>>
      <3>1. \A c \in Server : state'[c] = state[c] /\ currentTerm'[c] = currentTerm[c]
        BY <2>1, <2>3
      <3>2. CandidatesStand
        BY <3>1 DEF CandidatesStand
      <3>3. LedInv' /\ LedGrows
        BY <2>1, <3>1, LedStays
      <3>4. LogsMove
        BY <2>1, <3>3, LogsStill
      <3>5. VotersInv' /\ AskingInv'
        BY <1>3, <2>1, <3>1, <3>2, <3>3, <3>4, VotersStill, AskingStill
      <3> QED
        BY <1>2, <1>3, <2>1, <2>3, <3>1, <3>2, <3>5, StillKeeps
    <2> QED
      BY <1>4, <2>2, <2>3
  <1>5. ASSUME ElectionGoesOn(m.to, m), m.Term > currentTerm[m.to], stepDown(m.to, m.Term),
               UNCHANGED grantedVotes
        PROVE  HistoryInv'
    <2>1. NoneAsked
      BY <1>3 DEF NoneAsked
    <2>2. RolesStand
      BY <1>1, <1>2, <1>5, <2>1, StepsDownQuietly DEF Quiet
    <2> QED
      BY <1>2, <1>3, <1>5, <2>2, StepDownKeeps
  <1>6. ASSUME UNCHANGED <<state, hardState, persister, commitIndex, nextIndex, matchIndex,
                           grantedVotes>>
        PROVE  HistoryInv'
    BY <1>2, <1>3, <1>6, DropKeeps DEF volatile
  <1> QED
    BY <1>4, <1>5, <1>6 DEF HandleRequestVoteResponse

-----------------------------------------------------------------------------
(* The invariant: HistoryInv as long as no crash has taken an entry that   *)
(* Start had not saved, and that what was counted as committed is          *)
(* committed in the sense of the history.                                  *)
CommitsInv ==
  /\ Counted \subseteq committed
  /\ committed \subseteq Nat \X Nat
  /\ \A k, t \in Nat : <<k, t>> \in committed => \E v \in Nat : CommittedIn(k, t, v)

HInv == VInv /\ lost \in BOOLEAN /\ (~lost => HistoryInv /\ CommitsInv)

LEMMA EmptyLogIs ==
  /\ First(EmptyLog) = 0 /\ Last(EmptyLog) = 0 /\ TermAt(EmptyLog, 0) = 0
  BY DEF EmptyLog, First, Last, getFirstLog, getLastLog, TermAt, EntryAt

LEMMA AllAreMajority ==
  ASSUME NEW i \in Server
  PROVE  Majority(Server)
  <1>1. IsFiniteSet(Server)
    BY ServerAssumption
  <1>2. Cardinality(Server) \in Nat /\ Cardinality(Server) # 0
    BY <1>1, FS_CardinalityType, FS_EmptySet
  <1> QED
    BY <1>2 DEF Majority

LEMMA HInitOK == HInit => HistoryInv /\ CommitsInv
  <1> SUFFICES ASSUME HInit PROVE HistoryInv /\ CommitsInv
    OBVIOUS
  <1>1. /\ \A i \in Server : /\ state[i] = Follower /\ currentTerm[i] = 0 /\ logs[i] = EmptyLog
                             /\ commitIndex[i] = 0 /\ snapCh[i] = {}
        /\ rpcs = {} /\ votes = {} /\ committed = Counted
        /\ led = { <<0, 0, 0>> } /\ acks = { <<p, 0, 0>> : p \in Server }
        /\ chosen = { <<0, 0>> : p \in Server }
    BY DEF HInit, Init
  <1>2. /\ First(EmptyLog) = 0 /\ Last(EmptyLog) = 0 /\ TermAt(EmptyLog, 0) = 0
        /\ Follower # Leader /\ Follower # Candidate
    BY EmptyLogIs DEF Follower, Leader, Candidate
  <1> HIDE DEF EmptyLog, Follower, Leader, Candidate
  <1>3. /\ \A u, k, t : Led(u, k, t) <=> u = 0 /\ k = 0 /\ t = 0
        /\ \A p, k, t : Acked(p, k, t) <=> p \in Server /\ k = 0 /\ t = 0
        /\ \A n, w : <<n, w>> \in chosen <=> n = 0 /\ w = 0 /\ Server # {}
    BY <1>1 DEF Led, Acked
  <1>4. LedInv
    BY <1>1, <1>3 DEF LedInv, Elected
  <1>5. OwnerInv
    BY <1>1, <1>2, <1>3 DEF OwnerInv, Elected
  <1>6. LeaderInv /\ MatchInv /\ MessagesInv /\ AskingInv
    BY <1>1, <1>2 DEF LeaderInv, MatchInv, MessagesInv, AskingInv
  <1>7. LogsInv
    <2>1. Sound(EmptyLog)
      BY <1>2, <1>3 DEF Sound
    <2>2. \A k \in First(EmptyLog) .. Last(EmptyLog) : TermAt(EmptyLog, k) <= 0
      BY <1>2
    <2> QED
      BY <1>1, <2>1, <2>2 DEF LogsInv, LogSound
  <1>8. ASSUME NEW i \in Server PROVE Majority({ p \in Server : Acked(p, 0, 0) })
    <2>1. { p \in Server : Acked(p, 0, 0) } = Server
      BY <1>3
    <2> QED
      BY <2>1, AllAreMajority
  <1>9. ChosenInv
    <2>1. \A i \in Server : ChosenBy(i) = {}
      BY <1>1, <1>2 DEF ChosenBy
    <2>2. chosen \subseteq Nat \X Nat
      BY <1>1
    <2> QED
      BY <1>1, <1>2, <1>3, <1>8, <2>1, <2>2 DEF ChosenInv
  <1>10. SafeInv
    BY <1>3 DEF SafeInv, Elected
  <1>11. AcksInv
    <2>1. Keeps(EmptyLog, 0, 0) /\ 0 <= TermAt(EmptyLog, Last(EmptyLog))
      BY <1>2 DEF Keeps, matchLog
    <2>2. \A p \in Server : AckedBy(p) = {}
      BY <1>1, <1>2 DEF AckedBy
    <2>3. acks \subseteq Server \X Nat \X Nat
      BY <1>1
    <2> QED
      BY <1>1, <1>3, <2>1, <2>2, <2>3 DEF AcksInv
  <1>12. VotersInv
    BY <1>1 DEF VotersInv
  <1>13. ASSUME NEW i \in Server PROVE CommittedIn(0, 0, 0)
    <2>1. <<0, 0>> \in chosen /\ Led(0, 0, 0)
      BY <1>3
    <2> QED
      BY <2>1 DEF CommittedIn
  <1>14. CommitInv
    BY <1>1, <1>2, <1>13 DEF CommitInv, CommitSound
  <1>15. CommitsInv
    <2>1. \A i \in Server : CountedBy(i) \subseteq { <<0, 0>> }
      BY <1>1, <1>2 DEF CountedBy
    <2>2. \A e \in committed : e = <<0, 0>> /\ Server # {}
      BY <1>1, <2>1 DEF Counted
    <2>3. committed \subseteq Nat \X Nat
      BY <2>2
    <2>4. \A k, t \in Nat : <<k, t>> \in committed => CommittedIn(k, t, 0)
      BY <1>13, <2>2
    <2> QED
      BY <1>1, <2>3, <2>4 DEF CommitsInv
  <1> QED
    BY <1>4, <1>5, <1>6, <1>7, <1>9, <1>10, <1>11, <1>12, <1>14, <1>15 DEF HistoryInv

LEMMA NextKeeps ==
  ASSUME Moves, ~lost', Next
  PROVE  HistoryInv'
  <1>1. ASSUME NEW i \in Server, StartElection(i) PROVE HistoryInv'
    BY <1>1, StartElectionKeeps
  <1>2. ASSUME NEW i \in Server, Start(i) PROVE HistoryInv'
    BY <1>2, StartKeeps
  <1>3. ASSUME NEW i \in Server, NEW p \in Server, ReplicateOneRound(i, p) PROVE HistoryInv'
    BY <1>3, ReplicateOneRoundKeeps
  <1>4. ASSUME NEW i \in Server, NEW msg \in snapCh[i], CondInstallSnapshot(i, msg)
        PROVE  HistoryInv'
    BY <1>4, CondInstallSnapshotKeeps
  <1>5. ASSUME NEW i \in Server, NEW index \in 1 .. MaxSnapshotIndex, Snapshot(i, index)
        PROVE  HistoryInv'
    BY <1>5, SnapshotKeeps
  <1>6. ASSUME NEW i \in Server, Restart(i) PROVE HistoryInv'
    BY <1>6, RestartKeeps
  <1>7. ASSUME NEW m \in rpcs, Receive(m) PROVE HistoryInv'
    BY <1>7, RequestVoteKeeps, HandleRequestVoteResponseKeeps, AppendEntriesKeeps,
       HandleAppendEntriesResponseKeeps, InstallSnapshotKeeps,
       HandleInstallSnapshotResponseKeeps DEF Receive
  <1>8. ASSUME NEW m \in rpcs, Drop(m) PROVE HistoryInv'
    BY <1>8, DropKeeps DEF Drop
  <1> QED
    BY <1>1, <1>2, <1>3, <1>4, <1>5, <1>6, <1>7, <1>8 DEF Next

LEMMA CommitsKeep ==
  ASSUME Moves, CommitsInv, HistoryInv'
  PROVE  CommitsInv'
  <1>1. committed' = committed \cup Counted'
    BY DEF Moves, Record
  <1>2. ASSUME NEW i \in Server, NEW k \in First(logs'[i]) .. Last(logs'[i]), k <= commitIndex'[i]
        PROVE  /\ k \in Nat /\ TermAt(logs'[i], k) \in Nat /\ currentTerm'[i] \in Nat
               /\ CommittedNext(k, TermAt(logs'[i], k), currentTerm'[i])
    <2>1. CommitSound(i)'
      BY DEF HistoryInv, CommitInv
    <2>2. IsLog(logs'[i]) /\ commitIndex'[i] \in Nat /\ currentTerm'[i] \in Nat
      BY Types
    <2>3. k \in Nat /\ TermAt(logs'[i], k) \in Nat /\ First(logs'[i]) \in Nat
      BY <2>2, LogTerms
    <2>4. k \in First(logs'[i]) .. commitIndex'[i]
      BY <1>2, <2>2, <2>3
    <2> QED
      BY <2>1, <2>2, <2>3, <2>4 DEF CommitSound, CommittedIn, CommittedNext, Led
  <1>3. ASSUME NEW e \in Counted'
        PROVE  /\ e \in Nat \X Nat
               /\ \E v \in Nat : CommittedNext(e[1], e[2], v)
    <2>1. PICK i \in Server : e \in CountedBy(i)'
      BY <1>3 DEF Counted
    <2>2. PICK k \in First(logs'[i]) .. Last(logs'[i]) :
            k <= commitIndex'[i] /\ e = <<k, TermAt(logs'[i], k)>>
      BY <2>1 DEF CountedBy
    <2> QED
      BY <1>2, <2>2
  <1>4. ASSUME NEW k \in Nat, NEW t \in Nat, <<k, t>> \in committed
        PROVE  \E v \in Nat : CommittedNext(k, t, v)
    <2>1. PICK v \in Nat : CommittedIn(k, t, v)
      BY <1>4 DEF CommitsInv
    <2>2. CommittedNext(k, t, v)
      <3>1. v <= v
        OBVIOUS
      <3> QED
        BY <2>1, <3>1, CommittedOn
    <2> QED
      BY <2>2
  <1>5. committed' \subseteq Nat \X Nat
    BY <1>1, <1>3 DEF CommitsInv
  <1>6. ASSUME NEW k \in Nat, NEW t \in Nat, <<k, t>> \in committed'
        PROVE  \E v \in Nat : CommittedNext(k, t, v)
    <2>1. CASE <<k, t>> \in Counted'
      BY <1>3, <2>1
    <2>2. CASE <<k, t>> \in committed
      BY <1>4, <2>2
    <2> QED
      BY <1>1, <1>6, <2>1, <2>2
  <1> QED
    BY <1>1, <1>5, <1>6 DEF CommitsInv, CommittedIn, CommittedNext, Led

LEMMA StepMoves ==
  ASSUME HInv, ~lost, HNext
  PROVE  Moves
  <1>1. VInv /\ HistoryInv /\ Record /\ Next
    BY DEF HInv, HNext
  <1>2. VNext
    BY <1>1 DEF VNext, Record
  <1>3. VInv'
    BY <1>1, <1>2, VNextOK
  <1>4. \A i \in Server : VoteKept(i)
    BY <1>1, NextVotesStand DEF VInv, VotesInv, IInv, VotesStand
  <1>5. currentTerm \in [Server -> Nat] /\ currentTerm' \in [Server -> Nat]
    BY <1>1, <1>3 DEF VInv, IInv, TypeOK
  <1>6. \A p \in Server : currentTerm[p] <= currentTerm'[p]
    BY <1>4, <1>5 DEF VoteKept
  <1> QED
    BY <1>1, <1>3, <1>6 DEF Moves

LEMMA StutterMoves ==
  ASSUME HInv, ~lost, UNCHANGED <<vars, history>>
  PROVE  Moves
  <1>1. VInv /\ HistoryInv /\ CommitsInv
    BY DEF HInv
  <1>2. /\ UNCHANGED <<state, commitIndex, nextIndex, matchIndex, grantedVotes, snapCh,
                       currentTerm, votedFor, logs, stable, snapshot, rpcs, crashes>>
        /\ UNCHANGED <<votes, committed, led, acks, chosen, lost>>
    BY DEF vars, volatile, hardState, persister, history
  <1>3. VInv'
    <2>1. UNCHANGED <<vars, votes>>
      BY <1>2 DEF vars, volatile, hardState, persister
    <2> QED
      BY <1>1, <2>1, VNextOK
  <1>4. Held' \subseteq votes
    BY <1>1, <1>2 DEF Held, VInv, VotesInv, VotesOK
  <1>5. Counted' \subseteq committed
    BY <1>1, <1>2 DEF CommitsInv, Counted, CountedBy
  <1>6. ASSUME NEW i \in Server, state'[i] = Leader PROVE NewlyLed(i) = {}
    <2>1. state[i] = Leader /\ logs'[i] = logs[i] /\ IsLog(logs[i])
      BY <1>1, <1>2, <1>6 DEF VInv, IInv, TypeOK
    <2>2. Last(logs[i]) + 1 .. Last(logs'[i]) = {}
      BY <2>1, LogEnds
    <2> QED
      BY <2>1, <2>2 DEF NewlyLed
  <1>7. \A p \in Server : AckedBy(p)' \subseteq acks
    BY <1>1, <1>2 DEF HistoryInv, AcksInv, AckedBy
  <1>8. \A i \in Server : ChosenBy(i)' \subseteq chosen
    BY <1>1, <1>2 DEF HistoryInv, ChosenInv, ChosenBy
  <1>9. votes' = votes \cup Held' /\ committed' = committed \cup Counted'
    BY <1>2, <1>4, <1>5
  <1>10. led' = led \cup UNION { NewlyLed(i) : i \in { i \in Server : state'[i] = Leader } }
    BY <1>2, <1>6
  <1>11. acks' = acks \cup UNION { AckedBy(p) : p \in Server }'
    BY <1>2, <1>7
  <1>12. chosen' = chosen \cup UNION { ChosenBy(i) : i \in Server }'
    BY <1>2, <1>8
  <1>13. lost' = (lost \/ (crashes' # crashes /\ logs' # logs))
    <2>1. lost = FALSE
      BY DEF HInv
    <2> QED
      BY <1>2, <2>1
  <1>14. Record
    BY <1>9, <1>10, <1>11, <1>12, <1>13 DEF Record
  <1>15. \A p \in Server : currentTerm[p] <= currentTerm'[p]
    BY <1>1, <1>2 DEF VInv, IInv, TypeOK
  <1> QED
    BY <1>1, <1>3, <1>14, <1>15 DEF Moves

LEMMA HNextOK ==
  ASSUME HInv, [HNext]_<<vars, history>>
  PROVE  HInv'
  <1>1. VInv'
    <2>1. [VNext]_<<vars, votes>>
      BY DEF HNext, VNext, Record, history
    <2> QED
      BY <2>1, VNextOK DEF HInv
  <1>2. ASSUME ~lost' PROVE HistoryInv' /\ CommitsInv'
    <2>1. CASE HNext
      <3>1. ~lost
        BY <1>2, <2>1 DEF HNext, Record
      <3>2. Moves /\ CommitsInv
        BY <2>1, <3>1, StepMoves DEF HInv
      <3>3. HistoryInv'
        BY <1>2, <2>1, <3>2, NextKeeps DEF HNext
      <3> QED
        BY <3>2, <3>3, CommitsKeep
    <2>2. CASE UNCHANGED <<vars, history>>
      <3>1. ~lost
        BY <1>2, <2>2 DEF history
      <3>2. Moves /\ CommitsInv
        BY <2>2, <3>1, StutterMoves DEF HInv
      <3>3. UNCHANGED <<volatile, hardState>> /\ rpcs' \subseteq rpcs
        BY <2>2 DEF vars
      <3>4. HistoryInv'
        BY <3>2, <3>3, DropKeeps
      <3> QED
        BY <3>2, <3>4, CommitsKeep
    <2> QED
      BY <2>1, <2>2
  <1>3. lost' \in BOOLEAN
    BY DEF HInv, HNext, Record, history
  <1> QED
    BY <1>1, <1>2, <1>3 DEF HInv

LEMMA HistoryInvariant == HSpec => []HInv
  <1>1. HInit => HInv
    BY HInitOK, VInitOK DEF HInit, HInv, VInit
  <1>2. HInv /\ [HNext]_<<vars, history>> => HInv'
    BY HNextOK
  <1> QED
    BY <1>1, <1>2, PTL DEF HSpec

LEMMA CommitsAgree ==
  ASSUME HistoryInv, CommitsInv
  PROVE  StateMachineSafety
  <1> SUFFICES ASSUME NEW e \in committed, NEW f \in committed, e[1] = f[1]
               PROVE  e = f
    BY DEF StateMachineSafety
  <1>1. /\ e[1] \in Nat /\ e[2] \in Nat /\ e = <<e[1], e[2]>>
        /\ f[2] \in Nat /\ f = <<f[1], f[2]>>
    BY DEF CommitsInv
  <1>2. PICK k \in Nat, t \in Nat, x \in Nat : e = <<k, t>> /\ f = <<k, x>>
    BY <1>1
  <1>3. PICK v \in Nat, w \in Nat : CommittedIn(k, t, v) /\ CommittedIn(k, x, w)
    BY <1>2 DEF CommitsInv
  <1>4. t = x
    BY <1>3, CommittedOnce DEF HistoryInv
  <1> QED
    BY <1>2, <1>4

(* No two peers, and no peer at two times, count different entries as      *)
(* committed at one index, through all elections, all orders of messages,  *)
(* installed snapshots and crashes, as long as no crash takes an entry     *)
(* that Start appended and nothing saved.                                  *)
THEOREM CommittedAgree == HSpec => [](~lost => StateMachineSafety)
  <1>1. HInv => (~lost => StateMachineSafety)
    BY CommitsAgree DEF HInv
  <1> QED
    BY <1>1, HistoryInvariant, PTL

(* What a peer's log keeps of a chosen entry's term it keeps of all that   *)
(* was committed with it.                                                  *)
LEMMA KeepsCommitted ==
  ASSUME HistoryInv, NEW i \in Server, NEW log, log = logs[i], IsLog(log),
         First(log) <= commitIndex[i], commitIndex[i] \in Nat, currentTerm[i] \in Nat,
         NEW n \in Nat, NEW w \in Nat, <<n, w>> \in chosen, Keeps(log, n, w),
         NEW k \in Nat, NEW t \in Nat, k <= n, Led(w, k, t)
  PROVE  k < First(log) \/ matchLog(log, t, k)
  <1>1. LedInv /\ ChosenInv /\ SafeInv /\ LogSound(i) /\ CommitSound(i)
    BY DEF HistoryInv, LogsInv, CommitInv
  <1>2. First(log) \in Nat /\ Last(log) \in Nat /\ First(log) <= Last(log)
    BY LogTerms
  <1>3. CASE n < First(log)
    BY <1>2, <1>3
  <1>4. CASE First(log) <= k /\ matchLog(log, w, n)
    <2>1. n \in First(log) .. Last(log) /\ TermAt(log, n) = w
      BY <1>2, <1>4 DEF matchLog
    <2>2. k \in First(log) .. Last(log) /\ k \in First(log) .. n
      BY <1>2, <1>4, <2>1
    <2>3. TermAt(log, k) \in Nat
      BY <2>2, LogTerms
    <2>4. Led(w, n, w) /\ Choosable(n, w)
      BY <1>1, ChosenIsChoosable
    <2>5. CASE n = k
      <3>1. t = w
        BY <1>1, <2>4, <2>5, LedOnce
      <3> QED
        BY <1>4, <2>5, <3>1
    <2>6. CASE n # k
      <3>1. n \in First(log) + 1 .. Last(log)
        BY <1>2, <1>4, <2>1, <2>2, <2>6
      <3>2. ASSUME Junk(log, currentTerm[i]) PROVE FALSE
        <4>1. First(log) \in First(log) .. commitIndex[i]
          BY <1>2
        <4>2. CommittedIn(First(log), TermAt(log, First(log)), currentTerm[i])
          BY <1>1, <4>1 DEF CommitSound
        <4>3. ~Choosable(n, TermAt(log, n))
          BY <1>1, <3>1, <3>2, <4>2, NotJunk
        <4> QED
          BY <2>1, <2>4, <4>3
      <3>3. Sound(log)
        BY <1>1, <3>2 DEF LogSound
      <3>4. Led(w, k, TermAt(log, k))
        BY <2>1, <2>2, <3>3 DEF Sound
      <3>5. TermAt(log, k) = t
        BY <1>1, <2>3, <3>4, LedOnce
      <3> QED
        BY <1>2, <2>2, <3>5 DEF matchLog
    <2> QED
      BY <2>5, <2>6
  <1> QED
    BY <1>2, <1>3, <1>4 DEF Keeps

LEMMA ElectablesHaveCommitted ==
  ASSUME VInv, HistoryInv, CommitsInv
  PROVE  ElectableHasCommitted
  <1> SUFFICES ASSUME NEW c \in Server, Electable(c), NEW e \in committed
               PROVE  e[1] < First(logs[c]) \/ matchLog(logs[c], e[2], e[1])
    BY DEF ElectableHasCommitted
  <1>1. PICK k \in Nat, t \in Nat : e = <<k, t>>
    BY DEF CommitsInv
  <1>2. PICK n \in Nat, w \in Nat : <<n, w>> \in chosen /\ k <= n /\ Led(w, k, t)
    BY <1>1 DEF CommitsInv, CommittedIn
  <1>3. /\ LedInv /\ ChosenInv /\ SafeInv /\ AcksInv
        /\ \A i \in Server : LogSound(i) /\ CommitSound(i)
    BY DEF HistoryInv, LogsInv, CommitInv
  <1>4. \A i \in Server : /\ IsLog(logs[i]) /\ First(logs[i]) <= commitIndex[i]
                          /\ commitIndex[i] \in Nat /\ currentTerm[i] \in Nat
    BY DEF VInv, IInv, TypeOK, FirstCommitted
  <1>5. Choosable(n, w) /\ Led(w, n, w) /\ Majority({ p \in Server : Acked(p, n, w) })
    BY <1>2, <1>3, ChosenIsChoosable DEF ChosenInv
  <1>6. PICK p \in Server :
          Acked(p, n, w) /\ isLogUpToDate(logs[p], getLastLog(logs[c]).Term, Last(logs[c]))
    <2> DEFINE A == { p \in Server : Acked(p, n, w) }
               B == { p \in Server : isLogUpToDate(logs[p], getLastLog(logs[c]).Term, Last(logs[c])) }
    <2>1. Majority(A) /\ Majority(B) /\ A \in SUBSET Server /\ B \in SUBSET Server
      BY <1>5 DEF Electable
    <2>2. PICK p \in Server : p \in A /\ p \in B
      <3> HIDE DEF A, B
      <3> QED
        BY <2>1, MajoritiesMeet
    <2> QED
      BY <2>2
  <1>7. PICK log, other : log = logs[c] /\ other = logs[p]
    OBVIOUS
  <1>8. PICK l \in Nat, m \in Nat, x \in Nat, y \in Nat :
          l = Last(log) /\ m = Last(other) /\ x = TermAt(log, l) /\ y = TermAt(other, m)
    <2>1. /\ Last(log) \in First(log) .. Last(log) /\ Last(other) \in First(other) .. Last(other)
          /\ Last(log) \in Nat /\ Last(other) \in Nat
      BY <1>4, <1>7, LogTerms
    <2>2. TermAt(log, Last(log)) \in Nat /\ TermAt(other, Last(other)) \in Nat
      BY <1>4, <1>7, <2>1, LogTerms
    <2> QED
      BY <2>1, <2>2
  <1>9. x > y \/ (x = y /\ m <= l)
    <2>1. getLastLog(log).Term = x /\ getLastLog(other).Term = y
      BY <1>4, <1>7, <1>8, LastTermAt
    <2> QED
      BY <1>6, <1>7, <1>8, <2>1 DEF isLogUpToDate, Last
  <1>10. Keeps(other, n, w) /\ w <= y
    BY <1>3, <1>5, <1>6, <1>7, <1>8 DEF AcksInv
  <1>11. n <= m
    <2>1. First(other) <= m /\ First(other) \in Nat
      BY <1>4, <1>7, <1>8, LogTerms
    <2> QED
      BY <1>8, <1>10, <2>1 DEF Keeps, matchLog
  <1>12. Keeps(log, n, w)
    <2>1. Sound(log) \/ Junk(log, currentTerm[c])
      BY <1>3, <1>7 DEF LogSound
    <2>2. w < x \/ (w = x /\ n <= l)
      BY <1>9, <1>10, <1>11
    <2>3. IsLog(log) /\ currentTerm[c] \in Nat
      BY <1>4, <1>7
    <2> QED
      BY <1>3, <1>5, <1>8, <2>1, <2>2, <2>3, LastKeeps
  <1>13. k < First(log) \/ matchLog(log, t, k)
    BY <1>2, <1>4, <1>7, <1>12, KeepsCommitted
  <1> QED
    BY <1>1, <1>7, <1>13

(* Whoever could win an election by its log holds every committed entry,   *)
(* or a snapshot of it: what the comparison of logs in RequestVote and the *)
(* rule of advanceCommitIndexForLeader, to count only entries of its own   *)
(* term, are for.                                                          *)
THEOREM ElectableComplete == HSpec => [](~lost => ElectableHasCommitted)
  <1>1. HInv => (~lost => ElectableHasCommitted)
    BY ElectablesHaveCommitted DEF HInv
  <1> QED
    BY <1>1, HistoryInvariant, PTL

-----------------------------------------------------------------------------
(* commitIndex and what it covers.                                         *)
LEMMA CommitGrows ==
  ASSUME TypeOK, TypeOK', NEW i \in Server, Next, crashes' = crashes
  PROVE  commitIndex'[i] >= commitIndex[i]
  <1>1. commitIndex \in [Server -> Nat] /\ commitIndex'[i] \in Nat
    BY DEF TypeOK
  <1>2. ASSUME NEW j \in Server, NEW index, index > commitIndex[j], commitTo(j, index)
        PROVE  commitIndex'[i] >= commitIndex[i]
    <2>1. commitIndex' = [commitIndex EXCEPT ![j] = index]
      BY <1>2 DEF commitTo
    <2>2. CASE i = j
      BY <1>1, <1>2, <2>1, <2>2
    <2>3. CASE i # j
      BY <1>1, <2>1, <2>3
    <2> QED
      BY <2>2, <2>3
  <1>3. ASSUME UNCHANGED commitIndex PROVE commitIndex'[i] >= commitIndex[i]
    BY <1>1, <1>3
  <1>4. ASSUME NEW m \in rpcs, AppendEntries(m) PROVE commitIndex'[i] >= commitIndex[i]
    <2>1. m.to \in Server
      BY MessageFields DEF TypeOK
    <2>2. ASSUME NEW log, advanceCommitIndexForFollower(m.to, log, m.LeaderCommit)
          PROVE  commitIndex'[i] >= commitIndex[i]
      BY <1>2, <1>3, <2>1, <2>2 DEF advanceCommitIndexForFollower
    <2>3. CASE AppendEntriesMatch(m.to, m)
      BY <2>2, <2>3 DEF AppendEntriesMatch
    <2>4. CASE UNCHANGED commitIndex
      BY <1>3, <2>4
    <2> QED
      BY <1>4, <2>3, <2>4
      DEF AppendEntries, AppendEntriesStale, AppendEntriesBelowFirst, AppendEntriesMismatch
  <1>5. ASSUME NEW m \in rpcs, HandleAppendEntriesResponse(m)
        PROVE  commitIndex'[i] >= commitIndex[i]
    <2>1. m.to \in Server
      BY MessageFields DEF TypeOK
    <2>2. ASSUME NEW match, advanceCommitIndexForLeader(m.to, match)
          PROVE  commitIndex'[i] >= commitIndex[i]
      BY <1>2, <1>3, <2>1, <2>2 DEF advanceCommitIndexForLeader
    <2> QED
      BY <1>3, <1>5, <2>2 DEF HandleAppendEntriesResponse, stepDown
  <1>6. ASSUME NEW m \in rpcs, Receive(m) PROVE commitIndex'[i] >= commitIndex[i]
    <2>1. CASE RequestVote(m)
      BY <1>3, <2>1 DEF RequestVote
    <2>2. CASE HandleRequestVoteResponse(m)
      BY <1>3, <2>2 DEF HandleRequestVoteResponse, stepDown
    <2>3. CASE InstallSnapshot(m)
      BY <1>3, <2>3 DEF InstallSnapshot
    <2>4. CASE HandleInstallSnapshotResponse(m)
      BY <1>3, <2>4 DEF HandleInstallSnapshotResponse, stepDown
    <2> QED
      BY <1>4, <1>5, <1>6, <2>1, <2>2, <2>3, <2>4 DEF Receive
  <1>7. ASSUME NEW j \in Server, NEW msg \in snapCh[j], CondInstallSnapshot(j, msg)
        PROVE  commitIndex'[i] >= commitIndex[i]
    <2>1. CASE msg.SnapshotIndex <= commitIndex[j]
      BY <1>3, <1>7, <2>1 DEF CondInstallSnapshot
    <2>2. CASE ~(msg.SnapshotIndex <= commitIndex[j])
      <3>1. msg.SnapshotIndex > commitIndex[j]
        <4>1. snapCh[j] \subseteq [SnapshotIndex : Nat, SnapshotTerm : Nat, Snapshot : Nat]
          BY DEF TypeOK
        <4>2. msg.SnapshotIndex \in Nat
          BY <1>7, <4>1
        <4> QED
          BY <1>1, <1>7, <2>2, <4>2
      <3> QED
        BY <1>2, <1>7, <2>2, <3>1 DEF CondInstallSnapshot
    <2> QED
      BY <2>1, <2>2
  <1>8. ASSUME NEW j \in Server, Restart(j) PROVE FALSE
    BY <1>8 DEF Restart, TypeOK
  <1>9. CASE \E j \in Server : StartElection(j)
    BY <1>3, <1>9 DEF StartElection
  <1>10. CASE \E j \in Server : Start(j)
    BY <1>3, <1>10 DEF Start
  <1>11. CASE \E j, p \in Server : ReplicateOneRound(j, p)
    BY <1>3, <1>11 DEF ReplicateOneRound, volatile
  <1>12. CASE \E j \in Server : \E index \in 1 .. MaxSnapshotIndex : Snapshot(j, index)
    BY <1>3, <1>12 DEF Snapshot, volatile
  <1>13. CASE \E m \in rpcs : Drop(m)
    BY <1>3, <1>13 DEF Drop, volatile
  <1> QED
    BY <1>6, <1>7, <1>8, <1>9, <1>10, <1>11, <1>12, <1>13 DEF Next

LEMMA CommitsAgreeAfter == (HistoryInv /\ CommitsInv)' => StateMachineSafety'
  <1>1. HistoryInv /\ CommitsInv => StateMachineSafety
    BY CommitsAgree
  <1> QED
    BY <1>1, PTL

LEMMA CommitsStay ==
  ASSUME HInv, HInv', HNext, ~lost, NEW i \in Server
  PROVE  CommitKept(i)
  <1> SUFFICES ASSUME crashes' = crashes
               PROVE  /\ commitIndex'[i] >= commitIndex[i]
                      /\ \A k \in Both(logs[i], logs'[i]) :
                           k <= commitIndex[i] => TermAt(logs[i], k) = TermAt(logs'[i], k)
    BY DEF CommitKept
  <1>1. commitIndex'[i] >= commitIndex[i]
    BY CommitGrows DEF HInv, VInv, IInv, HNext
  <1>2. ~lost' /\ StateMachineSafety' /\ CommitsInv /\ committed' = committed \cup Counted'
    <2>1. ~lost'
      BY DEF HNext, Record
    <2>2. StateMachineSafety'
      BY <2>1, CommitsAgreeAfter DEF HInv
    <2> QED
      BY <2>1, <2>2 DEF HInv, HNext, Record
  <1>3. IsLog(logs[i]) /\ IsLog(logs'[i]) /\ commitIndex[i] \in Nat /\ commitIndex'[i] \in Nat
    BY DEF HInv, VInv, IInv, TypeOK
  <1>4. ASSUME NEW k \in Both(logs[i], logs'[i]), k <= commitIndex[i]
        PROVE  TermAt(logs[i], k) = TermAt(logs'[i], k)
    <2>1. k \in First(logs[i]) .. Last(logs[i]) /\ k \in First(logs'[i]) .. Last(logs'[i]) /\ k \in Nat
      BY <1>3, LogTerms DEF Both
    <2>2. k <= commitIndex'[i]
      BY <1>1, <1>3, <1>4, <2>1
    <2>3. <<k, TermAt(logs[i], k)>> \in Counted
      BY <1>4, <2>1 DEF Counted, CountedBy
    <2>4. <<k, TermAt(logs'[i], k)>> \in Counted'
      BY <2>1, <2>2 DEF Counted, CountedBy
    <2>5. <<k, TermAt(logs[i], k)>> \in committed' /\ <<k, TermAt(logs'[i], k)>> \in committed'
      BY <1>2, <2>3, <2>4 DEF CommitsInv
    <2> QED
      BY <1>2, <2>5 DEF StateMachineSafety
  <1> QED
    BY <1>1, <1>4

(* As long as no crash takes an unsaved entry, a peer that does not crash  *)
(* never takes commitIndex back, and neither AppendEntries' merge nor      *)
(* CondInstallSnapshot changes an entry it covers.                         *)
THEOREM CommitsKeptHolds == HSpec /\ []~lost => CommitsKept
  <1>1. HInv /\ HInv' /\ ~lost /\ [HNext]_<<vars, history>>
          => [\A i \in Server : CommitKept(i)]_vars
    BY CommitsStay
  <1> QED
    BY <1>1, HistoryInvariant, PTL DEF HSpec, CommitsKept

=============================================================================
