-------------------------- MODULE QuietPushProofs ---------------------------
(***************************************************************************)
(* QuietPush for any number of pushes, overlapping flushes, nights,        *)
(* failures and ends of the process: what is due is in the file while no   *)
(* push was suppressed under a flush and every write succeeded, it comes   *)
(* out in order then, and nothing is delivered more often than processes   *)
(* ended.                                                                  *)
(***************************************************************************)
EXTENDS QuietPush, FiniteSetTheorems, TLAPS

Increasing(s) == \A i, j \in DOMAIN s : i < j => s[i] < s[j]
Times(p)      == Cardinality({i \in DOMAIN sent : sent[i] = p})
Due(p)        == ~Delivered(p) /\ p \notin old

(* What a flush has in its hands, and the process in its memory. *)
Held(f)  == ToSet(flush[f].kept) \cup ToSet(flush[f].todo)
InMemory == ToSet(queue) \cup UNION {Held(f) : f \in Flush}

(* A process that has ended has no memory. *)
Down == ~up => queue = <<>> /\ \A f \in Flush : flush[f] = NoFlush

(* Only what was suppressed is anywhere, and a flush keeps only what failed.*)
Known == /\ InMemory \cup ToSet(file) \cup ToSet(sent) \cup old \cup failed \subseteq queued
         /\ \A q \in queued, p \in Push : p < q => p \in queued
         /\ \A f \in Flush : ToSet(flush[f].kept) \subseteq failed

(* Every queue is in the order of suppression. *)
Sorted == /\ Increasing(queue) /\ Increasing(file)
          /\ \A f \in Flush : /\ Increasing(flush[f].todo) /\ Increasing(flush[f].kept)
                              /\ \A p \in ToSet(flush[f].kept), q \in ToSet(flush[f].todo) : p < q

(* A push is in one hand. *)
Apart == \A f \in Flush : /\ Held(f) \cap ToSet(queue) = {}
                          /\ \A g \in Flush \ {f} : Held(f) \cap Held(g) = {}

(* What a process still has, or will load, it has not delivered itself.     *)
Counted == \A p \in Push : /\ Times(p) <= 1 + crashes
                           /\ ~up \/ p \in InMemory => Times(p) <= crashes

(* As long as no push was suppressed under a flush, there is nothing beside *)
(* a flush, and nothing that is due is outside of the memory.               *)
OneFlush  == ~overlap => \A f \in Flush : flush[f].busy =>
               queue = <<>> /\ \A g \in Flush \ {f} : ~flush[g].busy
DueIsHeld == ~overlap /\ ~unsaved /\ up => \A p \in queued : Due(p) => p \in InMemory

Shape == TypeOK /\ Down /\ Known /\ Sorted /\ Apart
IInv  == Shape /\ Counted /\ OneFlush /\ DueIsHeld /\ DueIsOnDisk /\ InOrder
-----------------------------------------------------------------------------
(* Sequences                                                                *)

(* The positions that are kept keep their order, and none is left out.      *)
LEMMA Picked ==
  ASSUME NEW S, NEW s \in Seq(S), NEW I \in SUBSET DOMAIN s
  PROVE  /\ Pick(s, I) \in Seq(S) /\ ToSet(Pick(s, I)) = {s[i] : i \in I}
         /\ \E at \in [DOMAIN Pick(s, I) -> I] :
              /\ \A k \in DOMAIN Pick(s, I) : Pick(s, I)[k] = s[at[k]]
              /\ \A k, l \in DOMAIN Pick(s, I) : k < l => at[k] < at[l]
<1> DEFINE n == Cardinality(I)
<1> DEFINE Upto(i) == {j \in I : j <= i}
<1>1. DOMAIN s = 1..Len(s) /\ Len(s) \in Nat
  OBVIOUS
<1>2. IsFiniteSet(I) /\ n \in Nat /\ \A i \in I : i \in Nat
  <2>1. IsFiniteSet(1..Len(s)) /\ I \subseteq 1..Len(s)
    BY <1>1, FS_Interval
  <2>2. IsFiniteSet(I)
    BY <2>1, FS_Subset
  <2> QED BY <2>1, <2>2, FS_CardinalityType
<1>3. \A i \in I : Upto(i) \in SUBSET I /\ i \in Upto(i)
  BY <1>2
<1>4. \A T \in SUBSET I : /\ IsFiniteSet(T) /\ Cardinality(T) \in Nat /\ Cardinality(T) <= n
  BY <1>2, FS_Subset, FS_CardinalityType
<1>5. \A i \in I : Rank(I, i) \in 1..n
  <2> TAKE i \in I
  <2>1. Rank(I, i) = Cardinality(Upto(i))
    BY DEF Rank
  <2>2. Cardinality(Upto(i)) # 0
    BY <1>3, <1>4, FS_EmptySet
  <2> HIDE DEF Upto
  <2> QED BY <1>2, <1>3, <1>4, <2>1, <2>2
<1>6. \A i, j \in I : i < j => Rank(I, i) < Rank(I, j)
  <2> SUFFICES ASSUME NEW i \in I, NEW j \in I, i < j PROVE Rank(I, i) < Rank(I, j)
    OBVIOUS
  <2>1. Upto(i) \in SUBSET Upto(j) /\ j \notin Upto(i) /\ j \in Upto(j)
    BY <1>2
  <2>2. IsFiniteSet(Upto(j)) /\ Upto(i) # Upto(j)
    BY <1>3, <1>4, <2>1
  <2>3. Rank(I, i) = Cardinality(Upto(i)) /\ Rank(I, j) = Cardinality(Upto(j))
    BY DEF Rank
  <2>4. Cardinality(Upto(i)) \in Nat /\ Cardinality(Upto(j)) \in Nat
    BY <1>3, <1>4
  <2> HIDE DEF Upto
  <2>5. Cardinality(Upto(i)) <= Cardinality(Upto(j)) /\ Cardinality(Upto(i)) # Cardinality(Upto(j))
    BY <2>1, <2>2, FS_Subset
  <2> QED BY <2>3, <2>4, <2>5
<1> DEFINE r == [i \in I |-> Rank(I, i)]
<1>7. r \in Injection(I, 1..n)
  BY <1>2, <1>5, <1>6 DEF Injection, IsInjective
<1>8. r \in Surjection(I, 1..n)
  <2>1. IsFiniteSet(1..n) /\ Cardinality(1..n) = n
    BY <1>2, FS_Interval
  <2> HIDE DEF r
  <2> QED BY <1>7, <2>1, FS_Injection
<1>9. \A k \in 1..n : \E i \in I : Rank(I, i) = k
  BY <1>8 DEF Surjection
<1> DEFINE at == [k \in 1..n |-> CHOOSE i \in I : Rank(I, i) = k]
<1>10. \A k \in 1..n : at[k] \in I /\ Rank(I, at[k]) = k
  BY <1>9
<1>11. Pick(s, I) = [k \in 1..n |-> s[at[k]]]
  BY DEF Pick
<1>12. at \in [1..n -> I]
  BY <1>10
<1> HIDE DEF at, r, n
<1>13. Pick(s, I) \in Seq(S) /\ DOMAIN Pick(s, I) = 1..n
  <2>1. \A k \in 1..n : s[at[k]] \in S
    BY <1>1, <1>12
  <2> QED BY <1>2, <1>11, <2>1
<1>14. \A k \in 1..n : Pick(s, I)[k] = s[at[k]]
  BY <1>11
<1>15. \A k, l \in 1..n : k < l => at[k] < at[l]
  <2> SUFFICES ASSUME NEW k \in 1..n, NEW l \in 1..n, k < l, ~(at[k] < at[l]) PROVE FALSE
    OBVIOUS
  <2>1. at[k] \in I /\ at[l] \in I /\ Rank(I, at[k]) = k /\ Rank(I, at[l]) = l
    BY <1>10
  <2>2. at[k] = at[l] \/ at[l] < at[k]
    BY <1>2, <2>1
  <2>3. l <= k
    BY <1>2, <1>6, <2>1, <2>2
  <2> QED BY <1>2, <2>3
<1>16. \A i \in I : at[Rank(I, i)] = i
  <2> TAKE i \in I
  <2>1. Rank(I, i) \in 1..n /\ Rank(I, at[Rank(I, i)]) = Rank(I, i) /\ at[Rank(I, i)] \in I
    BY <1>5, <1>10
  <2> QED BY <1>2, <1>5, <1>6, <2>1
<1>17. ToSet(Pick(s, I)) = {s[i] : i \in I}
  <2>1. \A i \in I : \E k \in 1..n : Pick(s, I)[k] = s[i]
    BY <1>5, <1>14, <1>16
  <2> QED BY <1>12, <1>13, <1>14, <2>1 DEF ToSet
<1> QED BY <1>12, <1>13, <1>14, <1>15, <1>17

(* The first of a queue in order is the least, and the rest is in order.    *)
LEMMA Rest ==
  ASSUME NEW q \in Seq(Push), Increasing(q), q # <<>>
  PROVE  /\ Head(q) \in Push /\ Head(q) \in ToSet(q)
         /\ Tail(q) \in Seq(Push) /\ Increasing(Tail(q))
         /\ ToSet(Tail(q)) = ToSet(q) \ {Head(q)}
         /\ \A p \in ToSet(Tail(q)) : Head(q) < p
<1> DEFINE w == Tail(q)
<1>1. /\ w \in Seq(Push) /\ Len(w) = Len(q) - 1 /\ Len(q) \in Nat \ {0}
      /\ \A i \in 1..(Len(q) - 1) : w[i] = q[i + 1]
      /\ Head(q) = q[1] /\ Head(q) \in Push
  OBVIOUS
<1>2. DOMAIN w = 1..(Len(q) - 1) /\ DOMAIN q = 1..Len(q)
  BY <1>1
<1> HIDE DEF w
<1>4. \A i \in 1..(Len(q) - 1) : i + 1 \in 1..Len(q) /\ 1 < i + 1 /\ 1 \in 1..Len(q)
  BY <1>1
<1>5. \A i, j \in 1..Len(q) : i < j => q[i] < q[j]
  BY <1>2 DEF Increasing
<1>6. Increasing(w)
  <2> SUFFICES ASSUME NEW i \in 1..(Len(q) - 1), NEW j \in 1..(Len(q) - 1), i < j
               PROVE  w[i] < w[j]
    BY <1>2 DEF Increasing
  <2>1. i + 1 < j + 1
    OBVIOUS
  <2> QED BY <1>1, <1>4, <1>5, <2>1
<1>7. \A p \in ToSet(w) : p \in ToSet(q) /\ Head(q) < p
  BY <1>1, <1>2, <1>4, <1>5 DEF ToSet
<1>8. ASSUME NEW i \in 1..Len(q), i # 1 PROVE q[i] \in ToSet(w)
  <2>1. i - 1 \in 1..(Len(q) - 1) /\ (i - 1) + 1 = i
    BY <1>1, <1>8
  <2> QED BY <1>1, <1>2, <2>1 DEF ToSet
<1>9. ToSet(q) \ {Head(q)} \subseteq ToSet(w) /\ Head(q) \in ToSet(q)
  <2>1. \A p \in ToSet(q) : \E i \in 1..Len(q) : q[i] = p
    BY <1>2 DEF ToSet
  <2>2. \A p \in ToSet(q) : p # Head(q) => p \in ToSet(w)
    BY <1>1, <1>8, <2>1
  <2>3. 1 \in 1..Len(q)
    BY <1>1
  <2> QED BY <1>1, <1>2, <2>2, <2>3 DEF ToSet
<1>10. ~(Head(q) < Head(q))
  <2>1. Head(q) \in Nat
    BY <1>1, QuietAssumption
  <2> QED BY <2>1
<1>11. ToSet(w) = ToSet(q) \ {Head(q)}
  BY <1>7, <1>9, <1>10
<1> QED BY <1>1, <1>6, <1>7, <1>9, <1>11 DEF w

(* What is put behind greater ones leaves them in order.                    *)
LEMMA Appended ==
  ASSUME NEW q \in Seq(Push), NEW p \in Push
  PROVE  /\ Append(q, p) \in Seq(Push) /\ ToSet(Append(q, p)) = ToSet(q) \cup {p}
         /\ Increasing(q) /\ (\A r \in ToSet(q) : r < p) => Increasing(Append(q, p))
<1> DEFINE w == Append(q, p)
<1> DEFINE n == Len(q)
<1>1. /\ w \in Seq(Push) /\ Len(w) = n + 1 /\ n \in Nat
      /\ \A i \in 1..n : w[i] = q[i]
      /\ w[n + 1] = p
  OBVIOUS
<1>2. DOMAIN w = 1..(n + 1) /\ DOMAIN q = 1..n
  BY <1>1
<1> HIDE DEF w, n
<1>3. \A i \in 1..(n + 1) : i \in 1..n \/ i = n + 1
  BY <1>1
<1>4. ToSet(w) = ToSet(q) \cup {p}
  <2>1. n + 1 \in 1..(n + 1) /\ \A i \in 1..n : i \in 1..(n + 1)
    BY <1>1
  <2> QED BY <1>1, <1>2, <1>3, <2>1 DEF ToSet
<1>5. ASSUME Increasing(q), \A r \in ToSet(q) : r < p PROVE Increasing(w)
  <2> SUFFICES ASSUME NEW i \in 1..(n + 1), NEW j \in 1..(n + 1), i < j PROVE w[i] < w[j]
    BY <1>2 DEF Increasing
  <2>1. i \in 1..n
    BY <1>1
  <2>2. CASE j \in 1..n
    BY <1>1, <1>2, <1>5, <2>1, <2>2 DEF Increasing
  <2>3. CASE j = n + 1
    <3>1. q[i] \in ToSet(q)
      BY <1>2, <2>1 DEF ToSet
    <3> QED BY <1>1, <1>5, <2>1, <2>3, <3>1
  <2> QED BY <1>3, <2>2, <2>3
<1> QED BY <1>1, <1>4, <1>5 DEF w

(* One more delivery of one push.                                           *)
LEMMA Again ==
  ASSUME NEW q \in Seq(Push), NEW h \in Push, NEW p \in Push
  PROVE  LET c == Cardinality({i \in DOMAIN q : q[i] = p})
             d == Cardinality({i \in DOMAIN Append(q, h) : Append(q, h)[i] = p})
         IN  c \in Nat /\ d = IF p = h THEN c + 1 ELSE c
<1> DEFINE w == Append(q, h)
<1> DEFINE n == Len(q)
<1> DEFINE A == {i \in DOMAIN q : q[i] = p}
<1> DEFINE B == {i \in DOMAIN w : w[i] = p}
<1>1. /\ Len(w) = n + 1 /\ n \in Nat /\ DOMAIN q = 1..n
      /\ \A i \in 1..n : w[i] = q[i]
      /\ w[n + 1] = h
  OBVIOUS
<1>2. DOMAIN w = 1..(n + 1)
  BY <1>1
<1>3. A \subseteq 1..n /\ n + 1 \notin 1..n
  BY <1>1
<1>4. B = IF p = h THEN A \cup {n + 1} ELSE A
  <2>1. \A i \in 1..(n + 1) : i \in 1..n \/ i = n + 1
    BY <1>1
  <2>2. n + 1 \in 1..(n + 1) /\ \A i \in 1..n : i \in 1..(n + 1)
    BY <1>1
  <2> HIDE DEF w, n
  <2> QED BY <1>1, <1>2, <2>1, <2>2
<1> HIDE DEF A, n
<1>5. IsFiniteSet(A) /\ n + 1 \notin A
  <2>1. IsFiniteSet(1..n)
    BY <1>1, FS_Interval
  <2> QED BY <1>3, <2>1, FS_Subset
<1>6. Cardinality(A) \in Nat /\ Cardinality(A \cup {n + 1}) = Cardinality(A) + 1
  BY <1>5, FS_CardinalityType, FS_AddElement
<1>7. Cardinality(B) = IF p = h THEN Cardinality(A) + 1 ELSE Cardinality(A)
  BY <1>4, <1>6
<1> QED BY <1>6, <1>7 DEF A

LEMMA Empty == ToSet(<<>>) = {} /\ Increasing(<<>>) /\ <<>> \in Seq(Push)
BY DEF ToSet, Increasing

(* What is left aside is what is too old.                                   *)
LEMMA Fresher ==
  ASSUME NEW q \in Seq(Push), Increasing(q)
  PROVE  /\ Fresh(q) \in Seq(Push) /\ Increasing(Fresh(q))
         /\ ToSet(Fresh(q)) = ToSet(q) \ old
<1> DEFINE I == {i \in DOMAIN q : q[i] \notin old}
<1>1. I \in SUBSET DOMAIN q
  OBVIOUS
<1>2. Fresh(q) = Pick(q, I)
  BY DEF Fresh
<1>3. {q[i] : i \in I} = ToSet(q) \ old
  BY DEF ToSet
<1> HIDE DEF I
<1>4. Pick(q, I) \in Seq(Push) /\ ToSet(Pick(q, I)) = {q[i] : i \in I}
  BY <1>1, Picked
<1>5. PICK at \in [DOMAIN Pick(q, I) -> I] :
        /\ \A k \in DOMAIN Pick(q, I) : Pick(q, I)[k] = q[at[k]]
        /\ \A k, l \in DOMAIN Pick(q, I) : k < l => at[k] < at[l]
  BY <1>1, Picked
<1>6. Increasing(Pick(q, I))
  BY <1>1, <1>5 DEF Increasing
<1> QED BY <1>2, <1>3, <1>4, <1>6
-----------------------------------------------------------------------------
(* One step                                                                 *)

LEMMA Typed ==
  ASSUME TypeOK, NEW f \in Flush
  PROVE  /\ flush[f].todo \in Seq(Push) /\ flush[f].kept \in Seq(Push)
         /\ flush[f].busy \in BOOLEAN /\ (~flush[f].busy => flush[f] = NoFlush)
         /\ ToSet(flush[f].todo) \subseteq Push /\ ToSet(flush[f].kept) \subseteq Push
<1>1. flush[f] \in {NoFlush} \cup [busy : {TRUE}, todo : Seq(Push), kept : Seq(Push)]
  BY DEF TypeOK
<1>2. /\ flush[f].todo \in Seq(Push) /\ flush[f].kept \in Seq(Push)
      /\ flush[f].busy \in BOOLEAN /\ (~flush[f].busy => flush[f] = NoFlush)
  <2>1. CASE flush[f] = NoFlush
    BY <2>1, Empty DEF NoFlush
  <2>2. CASE flush[f] \in [busy : {TRUE}, todo : Seq(Push), kept : Seq(Push)]
    BY <2>2
  <2> QED BY <1>1, <2>1, <2>2
<1> QED BY <1>2 DEF ToSet

LEMMA Nothing ==
  /\ NoFlush.todo = <<>> /\ NoFlush.kept = <<>> /\ ~NoFlush.busy
  /\ ToSet(NoFlush.todo) = {} /\ ToSet(NoFlush.kept) = {}
BY Empty DEF NoFlush

LEMMA Persisting ==
  ASSUME TypeOK, NEW q \in Seq(Push), Persist(q)
  PROVE  /\ file' \in Seq(Push) /\ failures' \in 0..MaxFailures /\ unsaved' \in BOOLEAN
         /\ \/ file' = q /\ unsaved' = unsaved
            \/ file' = file /\ unsaved' = TRUE
<1>1. file \in Seq(Push) /\ unsaved \in BOOLEAN /\ failures \in 0..MaxFailures
  BY DEF TypeOK
<1>2. CASE file' = q /\ UNCHANGED <<failures, unsaved>>
  BY <1>1, <1>2
<1>3. CASE UNCHANGED file /\ Fail /\ unsaved' = TRUE
  <2>1. failures' \in 0..MaxFailures
    BY <1>1, <1>3, QuietAssumption DEF Fail
  <2> QED BY <1>1, <1>3, <2>1
<1> QED BY <1>2, <1>3 DEF Persist

(* A push delivered is one that has a place in the deliveries.              *)
LEMMA Some ==
  ASSUME TypeOK, NEW p \in Push
  PROVE  Times(p) \in Nat /\ (~Delivered(p) => Times(p) = 0) /\ crashes \in Nat
<1>1. sent \in Seq(Push) /\ crashes \in Nat
  BY QuietAssumption DEF TypeOK
<1>2. Times(p) \in Nat
  BY <1>1, Again DEF Times
<1>3. ASSUME ~Delivered(p) PROVE Times(p) = 0
  <2>1. {i \in DOMAIN sent : sent[i] = p} = {}
    BY <1>3 DEF Delivered, ToSet
  <2> QED BY <2>1, FS_EmptySet DEF Times
<1> QED BY <1>1, <1>2, <1>3

(* A push is suppressed behind all earlier ones.                            *)
LEMMA SuppressKeeps ==
  ASSUME IInv, NEW p \in Push, Suppress(p)
  PROVE  IInv'
<1>1. TypeOK /\ up /\ p \notin queued /\ (\A q \in Push : q < p => q \in queued)
  BY DEF IInv, Shape, Suppress
<1>2. queue \in Seq(Push) /\ file \in Seq(Push) /\ queued \subseteq Push
  BY <1>1 DEF TypeOK
<1>3. /\ queue' = Append(queue, p) /\ queued' = queued \cup {p} /\ Persist(queue')
      /\ overlap' = (overlap \/ Flushing)
      /\ UNCHANGED <<up, quiet, flush, old, sent, failed, crashes, hours>>
  BY DEF Suppress
<1>4. \A q \in queued : q < p
  <2> TAKE q \in queued
  <2>1. q \in Nat /\ p \in Nat /\ q # p
    BY <1>1, <1>2, QuietAssumption
  <2>2. ~(p < q)
    BY <1>1 DEF IInv, Shape, Known
  <2> QED BY <2>1, <2>2
<1>5. ToSet(queue) \subseteq queued /\ Increasing(queue) /\ Increasing(file)
  BY DEF IInv, Shape, Known, Sorted, InMemory
<1>6. /\ queue' \in Seq(Push) /\ ToSet(queue') = ToSet(queue) \cup {p}
      /\ Increasing(queue')
  BY <1>2, <1>3, <1>4, <1>5, Appended
<1>7. /\ file' \in Seq(Push) /\ failures' \in 0..MaxFailures /\ unsaved' \in BOOLEAN
      /\ \/ file' = queue' /\ unsaved' = unsaved
         \/ file' = file /\ unsaved' = TRUE
  BY <1>1, <1>3, <1>6, Persisting
<1>8. \A f \in Flush : Held(f)' = Held(f) /\ p \notin Held(f)
  BY <1>1, <1>3 DEF Held, IInv, Shape, Known, InMemory
<1>9. InMemory' = InMemory \cup {p}
  BY <1>6, <1>8 DEF InMemory
<1>10. overlap' \in BOOLEAN
  BY <1>1, <1>3 DEF TypeOK
<1>11. TypeOK'
  BY <1>1, <1>3, <1>6, <1>7, <1>10 DEF TypeOK
<1>12. Down'
  BY <1>1, <1>3 DEF Down
<1>13. Known'
  <2>1. InMemory' \cup ToSet(file') \cup ToSet(sent') \cup old' \cup failed' \subseteq queued'
    BY <1>3, <1>5, <1>6, <1>7, <1>9 DEF IInv, Shape, Known
  <2>2. \A q \in queued', r \in Push : r < q => r \in queued'
    BY <1>1, <1>3 DEF IInv, Shape, Known
  <2>3. \A f \in Flush : ToSet(flush'[f].kept) \subseteq failed'
    BY <1>3 DEF IInv, Shape, Known
  <2> QED BY <2>1, <2>2, <2>3 DEF Known
<1>14. Sorted'
  BY <1>3, <1>5, <1>6, <1>7 DEF IInv, Shape, Sorted
<1>15. Apart'
  BY <1>6, <1>8 DEF IInv, Shape, Apart
<1>16. Counted'
  <2>1. \A q \in Push : Times(q)' = Times(q)
    BY <1>3 DEF Times
  <2>2. ~Delivered(p)
    BY <1>1 DEF IInv, Shape, Known, Delivered
  <2>3. Times(p) = 0 /\ crashes \in Nat
    BY <1>1, <2>2, Some
  <2> QED BY <1>1, <1>3, <1>9, <2>1, <2>3 DEF IInv, Counted
<1>17. ~overlap' => ~overlap /\ \A f \in Flush : ~flush[f].busy
  BY <1>3 DEF Flushing
<1>18. OneFlush'
  BY <1>3, <1>17 DEF OneFlush
<1>19. \A q \in Push : Due(q)' = Due(q) /\ Delivered(q)' = Delivered(q)
  BY <1>3 DEF Due, Delivered
<1>20. DueIsHeld'
  BY <1>3, <1>7, <1>9, <1>17, <1>19, <1>2 DEF IInv, DueIsHeld
<1>21. DueIsOnDisk'
  <2> SUFFICES ASSUME ~overlap', ~unsaved', NEW q \in queued' PROVE Due(q) => q \in ToSet(file')
    BY <1>3 DEF DueIsOnDisk, Due, Delivered
  <2>1. \A f \in Flush : Held(f) = {}
    BY <1>1, <1>17, Typed, Nothing DEF Held
  <2>2. InMemory = ToSet(queue)
    BY <2>1 DEF InMemory
  <2>3. file' = queue' /\ ~unsaved
    BY <1>7
  <2> QED BY <1>1, <1>3, <1>6, <1>17, <2>2, <2>3 DEF IInv, DueIsHeld
<1>22. InOrder'
  <2> SUFFICES ASSUME ~overlap', ~unsaved', NEW r \in queued', NEW q \in queued',
                      r < q, Delivered(q)
               PROVE  Delivered(r) \/ r \in old \cup failed
    BY <1>3 DEF InOrder, Delivered
  <2>1. q \in queued /\ ~overlap /\ ~unsaved
    BY <1>7, <1>17 DEF IInv, Shape, Known, Delivered
  <2>2. r \in Push
    BY <1>2, <1>3
  <2>3. r \in queued
    BY <2>1, <2>2 DEF IInv, Shape, Known
  <2> QED BY <2>1, <2>3 DEF IInv, InOrder
<1> QED BY <1>11, <1>12, <1>13, <1>14, <1>15, <1>16, <1>18, <1>20, <1>21, <1>22 DEF IInv, Shape

(* A flush takes the whole queue, but for what is too old.                  *)
LEMMA BeginKeeps ==
  ASSUME IInv, NEW f \in Flush, FlushBegins(f)
  PROVE  IInv'
<1>1. TypeOK /\ up /\ ~flush[f].busy /\ queue # <<>>
  BY DEF IInv, Shape, FlushBegins, MayFlush
<1>2. /\ queue' = <<>> /\ flush' = [flush EXCEPT ![f] = Begun]
      /\ UNCHANGED <<up, quiet, old, queued, sent, failed, overlap, crashes, hours>>
      /\ IF Begun = NoFlush THEN Persist(<<>>) ELSE UNCHANGED <<file, failures, unsaved>>
  BY DEF FlushBegins
<1>3. /\ queue \in Seq(Push) /\ file \in Seq(Push) /\ Increasing(queue) /\ Increasing(file)
      /\ ToSet(queue) \subseteq queued /\ ToSet(file) \subseteq queued
  BY <1>1 DEF TypeOK, IInv, Shape, Sorted, Known, InMemory
<1>4. /\ Fresh(queue) \in Seq(Push) /\ Increasing(Fresh(queue))
      /\ ToSet(Fresh(queue)) = ToSet(queue) \ old
  BY <1>3, Fresher
<1>5. Begun.todo = Fresh(queue) /\ Begun.kept = <<>> /\ Begun.busy = (Fresh(queue) # <<>>)
  BY DEF Begun
<1>6. /\ Begun \in {NoFlush} \cup [busy : {TRUE}, todo : Seq(Push), kept : Seq(Push)]
      /\ Begun = NoFlush <=> Fresh(queue) = <<>>
  <2>1. CASE Fresh(queue) = <<>>
    BY <2>1 DEF Begun, NoFlush
  <2>2. CASE Fresh(queue) # <<>>
    <3>1. Begun = [busy |-> TRUE, todo |-> Fresh(queue), kept |-> <<>>]
      BY <2>2 DEF Begun
    <3> QED BY <1>4, <2>2, <3>1, Empty DEF NoFlush
  <2> QED BY <2>1, <2>2
<1>7. flush'[f] = Begun /\ \A g \in Flush \ {f} : flush'[g] = flush[g]
  BY <1>1, <1>2 DEF TypeOK
<1>8. flush' \in [Flush -> {NoFlush} \cup [busy : {TRUE}, todo : Seq(Push), kept : Seq(Push)]]
  BY <1>1, <1>2, <1>6 DEF TypeOK
<1>9. /\ file' \in Seq(Push) /\ failures' \in 0..MaxFailures /\ unsaved' \in BOOLEAN
      /\ (file' = file /\ unsaved' = unsaved) \/ Begun = NoFlush
      /\ ToSet(file') \subseteq queued /\ Increasing(file')
      /\ unsaved => unsaved'
  <2>1. CASE Begun = NoFlush
    BY <1>1, <1>2, <1>3, <2>1, Persisting, Empty
  <2>2. CASE Begun # NoFlush
    BY <1>1, <1>2, <1>3, <2>2 DEF TypeOK
  <2> QED BY <2>1, <2>2
<1>10. /\ Held(f) = {} /\ Held(f)' = ToSet(queue) \ old
       /\ \A g \in Flush \ {f} : Held(g)' = Held(g)
  BY <1>1, <1>4, <1>5, <1>7, Typed, Nothing, Empty DEF Held
<1>11. ToSet(queue') = {}
  BY <1>2, Empty
<1>12. InMemory' \subseteq InMemory /\ InMemory \ old \subseteq InMemory'
  BY <1>10, <1>11 DEF InMemory
<1>13. TypeOK'
  BY <1>1, <1>2, <1>8, <1>9, Empty DEF TypeOK
<1>14. Down'
  BY <1>1, <1>2 DEF Down
<1>15. Known'
  <2>1. \A g \in Flush : ToSet(flush'[g].kept) \subseteq failed'
    BY <1>2, <1>5, <1>7, Empty DEF IInv, Shape, Known
  <2> QED BY <1>2, <1>9, <1>12, <2>1 DEF IInv, Shape, Known
<1>16. Sorted'
  <2>1. /\ Increasing(flush'[f].todo) /\ Increasing(flush'[f].kept)
        /\ \A p \in ToSet(flush'[f].kept), q \in ToSet(flush'[f].todo) : p < q
    BY <1>4, <1>5, <1>7, Empty
  <2>2. Increasing(queue') /\ Increasing(file')
    BY <1>2, <1>9, Empty
  <2> QED BY <1>7, <2>1, <2>2 DEF IInv, Shape, Sorted
<1>17. Apart'
  BY <1>10, <1>11 DEF IInv, Shape, Apart
<1>18. \A p \in Push : /\ Times(p)' = Times(p) /\ Delivered(p)' = Delivered(p)
                       /\ Due(p)' = Due(p)
  BY <1>2 DEF Times, Delivered, Due
<1>19. Counted'
  BY <1>2, <1>12, <1>18 DEF IInv, Counted
<1>20. ~overlap => \A g \in Flush : ~flush[g].busy
  BY <1>1 DEF IInv, OneFlush
<1>21. OneFlush'
  BY <1>2, <1>7, <1>20 DEF OneFlush
<1>22. queued \subseteq Push
  BY <1>1 DEF TypeOK
<1>23. DueIsHeld'
  BY <1>2, <1>9, <1>12, <1>18, <1>22 DEF IInv, DueIsHeld, Due
<1>24. DueIsOnDisk'
  <2> SUFFICES ASSUME ~overlap, ~unsaved, NEW p \in queued, Due(p) PROVE p \in ToSet(file')
    BY <1>2, <1>9 DEF DueIsOnDisk, Due, Delivered
  <2>1. CASE Begun = NoFlush
    <3>1. ToSet(queue) \ old = {}
      BY <1>4, <1>6, <2>1, Empty
    <3>2. \A g \in Flush : Held(g) = {}
      BY <1>1, <1>20, Typed, Nothing DEF Held
    <3>3. InMemory \ old = {}
      BY <3>1, <3>2 DEF InMemory
    <3> QED BY <1>1, <3>3 DEF IInv, DueIsHeld, Due
  <2>2. CASE Begun # NoFlush
    BY <1>9, <2>2 DEF IInv, DueIsOnDisk, Due
  <2> QED BY <2>1, <2>2
<1>25. InOrder'
  BY <1>2, <1>9 DEF IInv, InOrder, Delivered
<1> QED BY <1>13, <1>14, <1>15, <1>16, <1>17, <1>19, <1>21, <1>23, <1>24, <1>25 DEF IInv, Shape

(* A delivery resolves: it was the next in the order, as far as there is    *)
(* nothing beside the flush.                                                *)
LEMMA DeliverKeeps ==
  ASSUME IInv, NEW f \in Flush, Delivers(f)
  PROVE  IInv'
<1> DEFINE h == Head(flush[f].todo)
<1>1. TypeOK /\ flush[f].todo # <<>>
  BY DEF IInv, Shape, Delivers
<1>2. /\ sent' = Append(sent, h) /\ flush' = [flush EXCEPT ![f].todo = Tail(@)]
      /\ UNCHANGED <<queue, file, up, quiet, old, queued, failed, overlap, crashes,
                     failures, hours, unsaved>>
  BY DEF Delivers
<1>3. /\ flush[f].todo \in Seq(Push) /\ flush[f].kept \in Seq(Push)
      /\ flush[f].busy /\ Increasing(flush[f].todo) /\ Increasing(flush[f].kept)
      /\ \A p \in ToSet(flush[f].kept), q \in ToSet(flush[f].todo) : p < q
  BY <1>1, Typed, Nothing DEF IInv, Shape, Sorted
<1>4. up
  BY <1>1, Nothing DEF IInv, Shape, Down
<1>5. /\ h \in Push /\ h \in ToSet(flush[f].todo) /\ Tail(flush[f].todo) \in Seq(Push)
      /\ Increasing(Tail(flush[f].todo))
      /\ ToSet(Tail(flush[f].todo)) = ToSet(flush[f].todo) \ {h}
      /\ \A p \in ToSet(Tail(flush[f].todo)) : h < p
  BY <1>1, <1>3, Rest
<1>6. /\ flush'[f].busy = flush[f].busy /\ flush'[f].todo = Tail(flush[f].todo)
      /\ flush'[f].kept = flush[f].kept
      /\ \A g \in Flush \ {f} : flush'[g] = flush[g]
  BY <1>1, <1>2, Typed DEF TypeOK, NoFlush
<1> HIDE DEF h
<1>7. flush' \in [Flush -> {NoFlush} \cup [busy : {TRUE}, todo : Seq(Push), kept : Seq(Push)]]
  <2>1. flush[f] \in [busy : {TRUE}, todo : Seq(Push), kept : Seq(Push)]
    BY <1>1, <1>3, Nothing DEF TypeOK
  <2>2. [flush[f] EXCEPT !.todo = Tail(@)] \in [busy : {TRUE}, todo : Seq(Push), kept : Seq(Push)]
    BY <1>5, <2>1
  <2> QED BY <1>1, <1>2, <2>2 DEF TypeOK
<1>8. sent \in Seq(Push) /\ sent' \in Seq(Push) /\ ToSet(sent') = ToSet(sent) \cup {h}
  BY <1>1, <1>2, <1>5, Appended DEF TypeOK
<1>9. h \notin ToSet(flush[f].kept)
  <2>1. h \in Nat
    BY <1>5, QuietAssumption
  <2> QED BY <1>3, <1>5, <2>1
<1>10. /\ h \in Held(f) /\ Held(f)' = Held(f) \ {h}
       /\ \A g \in Flush \ {f} : Held(g)' = Held(g)
  BY <1>5, <1>6, <1>9 DEF Held
<1>11. InMemory' = InMemory \ {h} /\ h \in InMemory
  BY <1>2, <1>10 DEF InMemory, IInv, Shape, Apart
<1>12. TypeOK'
  BY <1>1, <1>2, <1>7, <1>8 DEF TypeOK
<1>13. Down'
  BY <1>2, <1>4 DEF Down
<1>14. Known'
  <2>1. \A g \in Flush : ToSet(flush'[g].kept) \subseteq failed'
    BY <1>2, <1>6 DEF IInv, Shape, Known
  <2> QED BY <1>2, <1>8, <1>11, <2>1 DEF IInv, Shape, Known
<1>15. Sorted'
  <2>1. /\ Increasing(flush'[f].todo) /\ Increasing(flush'[f].kept)
        /\ \A p \in ToSet(flush'[f].kept), q \in ToSet(flush'[f].todo) : p < q
    BY <1>3, <1>5, <1>6
  <2> QED BY <1>2, <1>6, <2>1 DEF IInv, Shape, Sorted
<1>16. Apart'
  BY <1>2, <1>10 DEF IInv, Shape, Apart
<1>17. Counted'
  <2> SUFFICES ASSUME NEW p \in Push
               PROVE  /\ Times(p)' <= 1 + crashes
                      /\ p \in InMemory' => Times(p)' <= crashes
    BY <1>2, <1>4 DEF Counted
  <2>1. Times(p) \in Nat /\ Times(p)' = IF p = h THEN Times(p) + 1 ELSE Times(p)
    <3>1. /\ Cardinality({i \in DOMAIN sent : sent[i] = p}) \in Nat
          /\ Cardinality({i \in DOMAIN Append(sent, h) : Append(sent, h)[i] = p})
               = IF p = h THEN Cardinality({i \in DOMAIN sent : sent[i] = p}) + 1
                          ELSE Cardinality({i \in DOMAIN sent : sent[i] = p})
      BY <1>5, <1>8, Again
    <3>2. Times(p)' = Cardinality({i \in DOMAIN Append(sent, h) : Append(sent, h)[i] = p})
      BY <1>2 DEF Times
    <3> QED BY <3>1, <3>2 DEF Times
  <2>2. Times(p) <= 1 + crashes /\ (p \in InMemory => Times(p) <= crashes)
    BY DEF IInv, Counted
  <2>3. crashes \in Nat
    BY <1>1, Some
  <2>4. CASE p = h
    BY <1>11, <2>1, <2>2, <2>3, <2>4
  <2>5. CASE p # h
    BY <1>11, <2>1, <2>2, <2>3, <2>5
  <2> QED BY <2>4, <2>5
<1>18. OneFlush'
  BY <1>2, <1>6 DEF IInv, OneFlush
<1>19. \A p : Delivered(p)' <=> Delivered(p) \/ p = h
  BY <1>8 DEF Delivered
<1>20. DueIsHeld'
  BY <1>2, <1>11, <1>19 DEF IInv, DueIsHeld, Due
<1>21. DueIsOnDisk'
  BY <1>2, <1>19 DEF IInv, DueIsOnDisk
<1>22. InOrder'
  <2> SUFFICES ASSUME ~overlap, ~unsaved, NEW p \in queued, NEW q \in queued, p < q,
                      Delivered(q)', ~Delivered(p)', p \notin old, p \notin failed
               PROVE  FALSE
    BY <1>2 DEF InOrder
  <2>1. ~Delivered(p)
    BY <1>19
  <2>2. CASE Delivered(q)
    BY <2>1, <2>2 DEF IInv, InOrder
  <2>3. CASE q = h
    <3>1. p \in InMemory
      BY <1>4, <2>1 DEF IInv, DueIsHeld, Due
    <3>2. queue = <<>> /\ \A g \in Flush \ {f} : Held(g) = {}
      BY <1>1, <1>3, Typed, Nothing DEF IInv, OneFlush, Held
    <3>3. p \in Held(f)
      BY <3>1, <3>2, Empty DEF InMemory
    <3>4. p \in ToSet(flush[f].todo)
      BY <3>3 DEF Held, IInv, Shape, Known
    <3>5. p = h \/ h < p
      BY <1>5, <3>4
    <3>6. p \in Nat /\ h \in Nat
      BY <1>1, <1>5, QuietAssumption DEF TypeOK
    <3> QED BY <2>3, <3>5, <3>6
  <2> QED BY <1>19, <2>2, <2>3
<1> QED BY <1>12, <1>13, <1>14, <1>15, <1>16, <1>17, <1>18, <1>20, <1>21, <1>22 DEF IInv, Shape

(* A delivery fails: the push is kept, behind those kept before.            *)
LEMMA FailKeeps ==
  ASSUME IInv, NEW f \in Flush, DeliveryFails(f)
  PROVE  IInv'
<1> DEFINE h == Head(flush[f].todo)
<1>1. TypeOK /\ flush[f].todo # <<>>
  BY DEF IInv, Shape, DeliveryFails
<1>2. /\ failed' = failed \cup {h} /\ Fail
      /\ flush' = [flush EXCEPT ![f] = [busy |-> TRUE, todo |-> Tail(flush[f].todo),
                                        kept |-> Append(flush[f].kept, h)]]
      /\ UNCHANGED <<queue, file, up, quiet, old, queued, sent, overlap, crashes, hours, unsaved>>
  BY DEF DeliveryFails
<1>3. /\ flush[f].todo \in Seq(Push) /\ flush[f].kept \in Seq(Push)
      /\ flush[f].busy /\ Increasing(flush[f].todo) /\ Increasing(flush[f].kept)
      /\ \A p \in ToSet(flush[f].kept), q \in ToSet(flush[f].todo) : p < q
  BY <1>1, Typed, Nothing DEF IInv, Shape, Sorted
<1>4. up
  BY <1>1, Nothing DEF IInv, Shape, Down
<1>5. /\ h \in Push /\ h \in ToSet(flush[f].todo) /\ Tail(flush[f].todo) \in Seq(Push)
      /\ Increasing(Tail(flush[f].todo))
      /\ ToSet(Tail(flush[f].todo)) = ToSet(flush[f].todo) \ {h}
      /\ \A p \in ToSet(Tail(flush[f].todo)) : h < p
  BY <1>1, <1>3, Rest
<1>6. /\ Append(flush[f].kept, h) \in Seq(Push) /\ Increasing(Append(flush[f].kept, h))
      /\ ToSet(Append(flush[f].kept, h)) = ToSet(flush[f].kept) \cup {h}
  BY <1>3, <1>5, Appended
<1> HIDE DEF h
<1>7. flush[f] \in [busy : {TRUE}, todo : Seq(Push), kept : Seq(Push)]
  BY <1>1, <1>3, Nothing DEF TypeOK
<1>8. [busy |-> TRUE, todo |-> Tail(flush[f].todo), kept |-> Append(flush[f].kept, h)]
        \in [busy : {TRUE}, todo : Seq(Push), kept : Seq(Push)]
  BY <1>5, <1>6
<1>9. /\ flush'[f].busy /\ flush'[f].todo = Tail(flush[f].todo)
      /\ flush'[f].kept = Append(flush[f].kept, h)
      /\ \A g \in Flush \ {f} : flush'[g] = flush[g]
  BY <1>1, <1>2 DEF TypeOK
<1>10. flush' \in [Flush -> {NoFlush} \cup [busy : {TRUE}, todo : Seq(Push), kept : Seq(Push)]]
  BY <1>1, <1>2, <1>8 DEF TypeOK
<1>11. /\ Held(f)' = Held(f) /\ \A g \in Flush \ {f} : Held(g)' = Held(g)
  BY <1>5, <1>6, <1>9 DEF Held
<1>12. InMemory' = InMemory /\ h \in InMemory
  BY <1>2, <1>5, <1>11 DEF InMemory, Held
<1>13. TypeOK'
  <2>1. failures' \in 0..MaxFailures
    BY <1>1, <1>2, QuietAssumption DEF TypeOK, Fail
  <2> QED BY <1>1, <1>2, <1>5, <1>10, <2>1 DEF TypeOK
<1>14. Down'
  BY <1>2, <1>4 DEF Down
<1>15. Known'
  <2>1. \A g \in Flush : ToSet(flush'[g].kept) \subseteq failed'
    BY <1>2, <1>6, <1>9 DEF IInv, Shape, Known
  <2> QED BY <1>2, <1>12, <2>1 DEF IInv, Shape, Known
<1>16. Sorted'
  <2>1. /\ Increasing(flush'[f].todo) /\ Increasing(flush'[f].kept)
        /\ \A p \in ToSet(flush'[f].kept), q \in ToSet(flush'[f].todo) : p < q
    BY <1>3, <1>5, <1>6, <1>9
  <2> QED BY <1>2, <1>9, <2>1 DEF IInv, Shape, Sorted
<1>17. Apart'
  BY <1>2, <1>11 DEF IInv, Shape, Apart
<1>18. \A p : Times(p)' = Times(p) /\ Delivered(p)' = Delivered(p) /\ Due(p)' = Due(p)
  BY <1>2 DEF Times, Delivered, Due
<1>19. Counted' /\ DueIsHeld'
  BY <1>2, <1>12, <1>18 DEF IInv, Counted, DueIsHeld
<1>20. OneFlush'
  BY <1>2, <1>3, <1>9 DEF IInv, OneFlush
<1>21. DueIsOnDisk' /\ InOrder'
  BY <1>2, <1>18 DEF IInv, DueIsOnDisk, InOrder
<1> QED BY <1>13, <1>14, <1>15, <1>16, <1>17, <1>19, <1>20, <1>21 DEF IInv, Shape

(* The end of a flush: what failed is the queue, and is written.            *)
LEMMA EndKeeps ==
  ASSUME IInv, NEW f \in Flush, FlushEnds(f)
  PROVE  IInv'
<1> DEFINE k == flush[f].kept
<1>1. TypeOK /\ flush[f].busy /\ flush[f].todo = <<>>
  BY DEF IInv, Shape, FlushEnds
<1>2. /\ queue' = k /\ Persist(queue') /\ flush' = [flush EXCEPT ![f] = NoFlush]
      /\ UNCHANGED <<up, quiet, old, queued, sent, failed, overlap, crashes, hours>>
  BY DEF FlushEnds
<1>3. up
  BY <1>1, Nothing DEF IInv, Shape, Down
<1>4. k \in Seq(Push) /\ Increasing(k) /\ ToSet(k) = Held(f)
  BY <1>1, Typed, Empty DEF IInv, Shape, Sorted, Held
<1>5. flush'[f] = NoFlush /\ \A g \in Flush \ {f} : flush'[g] = flush[g]
  BY <1>1, <1>2 DEF TypeOK
<1>6. flush' \in [Flush -> {NoFlush} \cup [busy : {TRUE}, todo : Seq(Push), kept : Seq(Push)]]
  BY <1>1, <1>2 DEF TypeOK
<1> HIDE DEF k
<1>7. /\ file' \in Seq(Push) /\ failures' \in 0..MaxFailures /\ unsaved' \in BOOLEAN
      /\ \/ file' = k /\ unsaved' = unsaved
         \/ file' = file /\ unsaved' = TRUE
  BY <1>1, <1>2, <1>4, Persisting
<1>8. /\ Held(f)' = {} /\ \A g \in Flush \ {f} : Held(g)' = Held(g)
      /\ ToSet(queue') = Held(f)
  BY <1>2, <1>4, <1>5, Nothing DEF Held
<1>9. InMemory' \subseteq InMemory
  BY <1>8 DEF InMemory
<1>10. TypeOK'
  BY <1>1, <1>2, <1>4, <1>6, <1>7 DEF TypeOK
<1>11. Down'
  BY <1>2, <1>3 DEF Down
<1>12. Known'
  <2>1. \A g \in Flush : ToSet(flush'[g].kept) \subseteq failed'
    BY <1>2, <1>5, Nothing DEF IInv, Shape, Known
  <2>2. ToSet(k) \subseteq queued
    BY <1>4 DEF IInv, Shape, Known, InMemory
  <2> QED BY <1>2, <1>7, <1>9, <2>1, <2>2 DEF IInv, Shape, Known
<1>13. Sorted'
  <2>1. /\ Increasing(flush'[f].todo) /\ Increasing(flush'[f].kept)
        /\ \A p \in ToSet(flush'[f].kept), q \in ToSet(flush'[f].todo) : p < q
    BY <1>5, Nothing, Empty
  <2> QED BY <1>2, <1>4, <1>5, <1>7, <2>1 DEF IInv, Shape, Sorted
<1>14. Apart'
  BY <1>8 DEF IInv, Shape, Apart
<1>15. \A p : Times(p)' = Times(p) /\ Delivered(p)' = Delivered(p) /\ Due(p)' = Due(p)
  BY <1>2 DEF Times, Delivered, Due
<1>16. Counted'
  BY <1>2, <1>9, <1>15 DEF IInv, Counted
<1>17. ~overlap => queue = <<>> /\ \A g \in Flush \ {f} : ~flush[g].busy /\ Held(g) = {}
  BY <1>1, Typed, Nothing DEF IInv, OneFlush, Held
<1>18. OneFlush'
  BY <1>2, <1>5, <1>17, Nothing DEF OneFlush
<1>19. ~overlap => InMemory = Held(f)
  BY <1>17, Empty DEF InMemory
<1>20. ~overlap /\ ~unsaved => \A p \in queued : Due(p) => p \in ToSet(queue')
  BY <1>3, <1>8, <1>19 DEF IInv, DueIsHeld
<1>21. DueIsHeld'
  BY <1>2, <1>7, <1>15, <1>20 DEF DueIsHeld, InMemory
<1>22. DueIsOnDisk'
  BY <1>2, <1>7, <1>15, <1>20 DEF DueIsOnDisk, Due
<1>23. InOrder'
  BY <1>2, <1>7, <1>15 DEF IInv, InOrder
<1> QED BY <1>10, <1>11, <1>12, <1>13, <1>14, <1>16, <1>18, <1>21, <1>22, <1>23 DEF IInv, Shape

(* Nights, and a push that grows too old.                                   *)
LEMMA TimeKeeps ==
  ASSUME IInv, \/ HoursBegin \/ HoursEnd \/ UNCHANGED vars
               \/ \E p \in Push : Expire(p)
  PROVE  IInv'
<1>1. TypeOK
  BY DEF IInv, Shape
<1>2. /\ UNCHANGED <<queue, file, up, flush, queued, sent, failed, overlap, crashes, failures, unsaved>>
      /\ old \subseteq old' /\ old' \subseteq queued /\ quiet' \in BOOLEAN
      /\ hours' \in 0..MaxHours
  <2>1. CASE HoursBegin
    BY <1>1, <2>1, QuietAssumption DEF HoursBegin, TypeOK, IInv, Shape, Known
  <2>2. CASE HoursEnd
    BY <1>1, <2>2 DEF HoursEnd, TypeOK, IInv, Shape, Known
  <2>3. ASSUME NEW p \in Push, Expire(p)
        PROVE  /\ UNCHANGED <<queue, file, up, flush, queued, sent, failed, overlap, crashes, failures, unsaved>>
               /\ old \subseteq old' /\ old' \subseteq queued /\ quiet' \in BOOLEAN
               /\ hours' \in 0..MaxHours
    BY <1>1, <2>3 DEF Expire, TypeOK, IInv, Shape, Known
  <2>4. CASE UNCHANGED vars
    BY <1>1, <2>4 DEF vars, TypeOK, IInv, Shape, Known
  <2> QED BY <2>1, <2>2, <2>3, <2>4
<1>3. TypeOK'
  BY <1>1, <1>2 DEF TypeOK
<1>4. InMemory' = InMemory /\ \A f \in Flush : Held(f)' = Held(f)
  BY <1>2 DEF InMemory, Held
<1>5. Down' /\ Sorted' /\ OneFlush'
  BY <1>2 DEF IInv, Shape, Down, Sorted, OneFlush
<1>6. Known'
  BY <1>2, <1>4 DEF IInv, Shape, Known
<1>7. Apart'
  BY <1>2, <1>4 DEF IInv, Shape, Apart
<1>8. \A p : Times(p)' = Times(p) /\ Delivered(p)' = Delivered(p) /\ (Due(p)' => Due(p))
  BY <1>2 DEF Times, Delivered, Due
<1>9. Counted'
  BY <1>2, <1>4, <1>8 DEF IInv, Counted
<1>10. DueIsHeld'
  BY <1>2, <1>4, <1>8 DEF IInv, DueIsHeld
<1>11. DueIsOnDisk' /\ InOrder'
  BY <1>2, <1>8 DEF IInv, DueIsOnDisk, InOrder
<1> QED BY <1>3, <1>5, <1>6, <1>7, <1>9, <1>10, <1>11 DEF IInv, Shape

(* The process ends: what it had is counted once more to come.              *)
LEMMA CrashKeeps ==
  ASSUME IInv, Crash
  PROVE  IInv'
<1>1. TypeOK
  BY DEF IInv, Shape
<1>2. /\ crashes' = crashes + 1 /\ ~up' /\ up' \in BOOLEAN /\ queue' = <<>>
      /\ flush' = [f \in Flush |-> NoFlush]
      /\ UNCHANGED <<file, quiet, old, queued, sent, failed, overlap, failures, hours, unsaved>>
  BY DEF Crash
<1>3. crashes' \in 0..MaxCrashes
  BY <1>1, QuietAssumption DEF Crash, TypeOK
<1>4. TypeOK'
  BY <1>1, <1>2, <1>3, Empty DEF TypeOK
<1>5. \A f \in Flush : flush'[f] = NoFlush /\ Held(f)' = {}
  BY <1>2, Nothing DEF Held
<1>6. InMemory' = {} /\ ToSet(queue') = {}
  BY <1>2, <1>5, Empty DEF InMemory
<1>7. Down'
  BY <1>2, <1>5 DEF Down
<1>8. Known'
  BY <1>2, <1>5, <1>6, Nothing DEF IInv, Shape, Known
<1>9. Sorted'
  BY <1>2, <1>5, Nothing, Empty DEF IInv, Shape, Sorted
<1>10. Apart'
  BY <1>5, <1>6 DEF Apart
<1>11. \A p : Times(p)' = Times(p) /\ Delivered(p)' = Delivered(p)
  BY <1>2 DEF Times, Delivered
<1>12. Counted'
  <2> SUFFICES ASSUME NEW p \in Push PROVE Times(p) <= 1 + crashes' /\ Times(p) <= crashes'
    BY <1>11 DEF Counted
  <2>1. Times(p) <= 1 + crashes /\ Times(p) \in Nat /\ crashes \in Nat
    BY <1>1, Some DEF IInv, Counted
  <2> QED BY <1>2, <2>1
<1>13. OneFlush'
  BY <1>5, Nothing DEF OneFlush
<1>14. DueIsHeld'
  BY <1>2 DEF DueIsHeld
<1>15. DueIsOnDisk' /\ InOrder'
  BY <1>2, <1>11 DEF IInv, DueIsOnDisk, InOrder
<1> QED BY <1>4, <1>7, <1>8, <1>9, <1>10, <1>12, <1>13, <1>14, <1>15 DEF IInv, Shape

(* A process starts with what is fresh in the file.                         *)
LEMMA StartKeeps ==
  ASSUME IInv, Start
  PROVE  IInv'
<1>1. TypeOK /\ ~up
  BY DEF IInv, Shape, Start
<1>2. /\ up' /\ up' \in BOOLEAN /\ queue' = Fresh(file)
      /\ UNCHANGED <<file, quiet, flush, old, queued, sent, failed, overlap, crashes,
                     failures, hours, unsaved>>
  BY DEF Start
<1>3. file \in Seq(Push) /\ Increasing(file) /\ ToSet(file) \subseteq queued
  BY <1>1 DEF TypeOK, IInv, Shape, Sorted, Known
<1>4. /\ queue' \in Seq(Push) /\ Increasing(queue') /\ ToSet(queue') = ToSet(file) \ old
  BY <1>2, <1>3, Fresher
<1>5. TypeOK'
  BY <1>1, <1>2, <1>4 DEF TypeOK
<1>6. \A f \in Flush : flush[f] = NoFlush /\ Held(f) = {} /\ Held(f)' = {}
  BY <1>1, <1>2, Nothing DEF IInv, Shape, Down, Held
<1>7. InMemory' = ToSet(queue')
  BY <1>6 DEF InMemory
<1>8. Down'
  BY <1>2 DEF Down
<1>9. Known'
  BY <1>2, <1>3, <1>4, <1>7 DEF IInv, Shape, Known
<1>10. Sorted'
  BY <1>2, <1>4 DEF IInv, Shape, Sorted
<1>11. Apart'
  BY <1>6 DEF Apart
<1>12. \A p : Times(p)' = Times(p) /\ Delivered(p)' = Delivered(p) /\ Due(p)' = Due(p)
  BY <1>2 DEF Times, Delivered, Due
<1>13. Counted'
  BY <1>1, <1>2, <1>12 DEF IInv, Counted
<1>14. OneFlush'
  BY <1>2, <1>6, Nothing DEF OneFlush
<1>15. DueIsHeld'
  BY <1>2, <1>4, <1>7, <1>12 DEF IInv, DueIsHeld, DueIsOnDisk, Due
<1>16. DueIsOnDisk' /\ InOrder'
  BY <1>2, <1>12 DEF IInv, DueIsOnDisk, InOrder
<1> QED BY <1>5, <1>8, <1>9, <1>10, <1>11, <1>13, <1>14, <1>15, <1>16 DEF IInv, Shape
-----------------------------------------------------------------------------
(* The theorems                                                             *)

LEMMA AtFirst == Init => IInv
<1> SUFFICES ASSUME Init PROVE IInv
  OBVIOUS
<1>1. TypeOK
  <2>1. flush \in [Flush -> {NoFlush} \cup [busy : {TRUE}, todo : Seq(Push), kept : Seq(Push)]]
    BY DEF Init
  <2>2. crashes \in 0..MaxCrashes /\ failures \in 0..MaxFailures /\ hours \in 0..MaxHours
    BY QuietAssumption DEF Init
  <2> QED BY <2>1, <2>2, Empty DEF Init, TypeOK
<1>2. \A f \in Flush : flush[f] = NoFlush /\ Held(f) = {}
  BY Nothing DEF Init, Held
<1>3. ToSet(queue) = {} /\ ToSet(file) = {} /\ ToSet(sent) = {} /\ queued = {}
  BY Empty DEF Init
<1>4. InMemory = {}
  BY <1>2, <1>3 DEF InMemory
<1>5. Down /\ OneFlush /\ DueIsHeld /\ DueIsOnDisk /\ InOrder
  BY <1>2, <1>3, Nothing DEF Init, Down, OneFlush, DueIsHeld, DueIsOnDisk, InOrder
<1>6. Known
  BY <1>2, <1>3, <1>4, Nothing DEF Init, Known
<1>7. Sorted
  BY <1>2, Nothing, Empty DEF Init, Sorted
<1>8. Apart
  BY <1>2 DEF Apart
<1>9. \A p \in Push : Times(p) = 0
  BY <1>1, <1>3, Some DEF Delivered
<1>10. Counted
  BY <1>9 DEF Init, Counted
<1> QED BY <1>1, <1>5, <1>6, <1>7, <1>8, <1>10 DEF IInv, Shape

LEMMA Always == Spec => []IInv
<1>1. IInv /\ [Next]_vars => IInv'
  BY SuppressKeeps, BeginKeeps, DeliverKeeps, FailKeeps, EndKeeps, TimeKeeps,
     CrashKeeps, StartKeeps DEF Next, Step
<1> QED BY <1>1, AtFirst, PTL DEF Spec

(* What is due is in the file at every step of a flush, so that an end of   *)
(* the process loses nothing; a push is delivered once, and once more at    *)
(* most per end of the process; and in its turn, unless its delivery failed *)
(* - whatever is suppressed under a flush and however many flushes overlap, *)
(* as far as Consistent says so.                                            *)
THEOREM ConsistentHolds == Spec => []Consistent
<1>1. IInv => Consistent
  BY DEF IInv, Shape, Counted, Times, Consistent, DeliveredOnce
<1> QED BY <1>1, Always, PTL
=============================================================================
