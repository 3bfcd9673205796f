--------------------------- MODULE SnapshotsProofs ---------------------------
(***************************************************************************)
(* Theorems about Snapshots.  First the arithmetic by which a file is      *)
(* divided into chunks; then the inductive invariant: one lemma for each   *)
(* action, the longest for Snap, whose range is followed from the request  *)
(* through sweeps, the widths of the code and whole pages.                 *)
(***************************************************************************)
EXTENDS Snapshots, FiniteSetTheorems, WellFoundedInduction, TLAPS

(* What division yields is determined by two inequations.                  *)
LEMMA DivIs ==
  ASSUME NEW a \in Int, NEW b \in Nat \ {0}, NEW q \in Int,
         b * q <= a, a < b * (q + 1)
  PROVE  a \div b = q
OBVIOUS

(* What division yields lies between two multiples.                        *)
LEMMA DivBounds ==
  ASSUME NEW a \in Int, NEW b \in Nat \ {0}
  PROVE  /\ a \div b \in Int
         /\ b * (a \div b) <= a /\ a < b * (a \div b + 1)
OBVIOUS

(* The same of division rounding up: its value and its bounds.             *)
LEMMA CeilDivIs ==
  ASSUME NEW a \in Int, NEW b \in Nat \ {0}, NEW q \in Int,
         b * (q - 1) < a, a <= b * q
  PROVE  CeilDiv(a, b) = q
<1>1. b * q <= a + b - 1
  <2>1. b * (q - 1) = b * q - b
    OBVIOUS
  <2> QED  BY <2>1
<1>2. a + b - 1 < b * (q + 1)
  <2>1. b * (q + 1) = b * q + b
    OBVIOUS
  <2> QED  BY <2>1
<1> QED  BY <1>1, <1>2, DivIs DEF CeilDiv

(* Division rounding up, between two multiples.                            *)
LEMMA CeilDivBounds ==
  ASSUME NEW a \in Int, NEW b \in Nat \ {0}
  PROVE  /\ CeilDiv(a, b) \in Int
         /\ b * (CeilDiv(a, b) - 1) < a /\ a <= b * CeilDiv(a, b)
<1> DEFINE q == (a + b - 1) \div b
<1>1. q \in Int /\ b * q <= a + b - 1 /\ a + b - 1 < b * (q + 1)
  BY DivBounds
<1>2. CeilDiv(a, b) = q
  BY DEF CeilDiv
<1> HIDE DEF q
<1>3. b * (q - 1) = b * q - b /\ b * (q + 1) = b * q + b
  BY <1>1
<1> QED  BY <1>1, <1>2, <1>3

(* Without a remainder, division gives the factor back.                    *)
LEMMA Divides ==
  ASSUME NEW a \in Int, NEW b \in Nat \ {0}, a % b = 0
  PROVE  a \div b \in Int /\ a = b * (a \div b)
OBVIOUS

(* Two whole multiples of p that differ do so by p.                        *)
LEMMA MultiplesApart ==
  ASSUME NEW p \in Nat \ {0}, NEW x \in Int, NEW y \in Int, p * x < p * y
  PROVE  p * x + p <= p * y
<1>1. x < y
  OBVIOUS
<1>2. p * (x + 1) <= p * y
  BY <1>1
<1> QED  BY <1>2

(* A factor can be cancelled.                                              *)
LEMMA Cancel ==
  ASSUME NEW c \in Nat \ {0}, NEW x \in Int, NEW y \in Int
  PROVE  /\ c * x <= c * y => x <= y
         /\ c * x < c * y => x < y
OBVIOUS

(* setup_snapfile (writer.c:1018-1019) counts "milli-chunks", rounding     *)
(* down, and divides them by 1024, rounding up.  For files and chunks of   *)
(* whole pages that is the number of chunks the file needs, whatever its   *)
(* size: a chunk has no more KiB than a page has bytes.                    *)
THEOREM ChunksSuffice ==
  ASSUME NEW bytes \in Nat \ {0}, bytes % PageBytes = 0,
         w_chunksize \in 1 .. MaxChunkKib, (w_chunksize * Kib) % PageBytes = 0
  PROVE  NChunks(bytes) = CeilDiv(bytes, w_chunksize * Kib)
<1>1. /\ Kib \in Nat \ {0} /\ PageBytes \in Nat \ {0}
      /\ w_chunksize \in Nat \ {0} /\ w_chunksize <= PageBytes
  BY SnapshotsConstants DEF SnapshotsConstants
<1>2. PICK s \in Nat \ {0} : s = w_chunksize * Kib
  BY <1>1
<1>3. bytes \in Int /\ s \in Int
  OBVIOUS
<1>4. PICK q \in Int : q = CeilDiv(bytes, s) /\ s * (q - 1) < bytes /\ bytes <= s * q
  <2>1. /\ CeilDiv(bytes, s) \in Int
        /\ s * (CeilDiv(bytes, s) - 1) < bytes /\ bytes <= s * CeilDiv(bytes, s)
    BY <1>3, CeilDivBounds, Zenon
  <2> QED  BY <2>1, Zenon
<1>5. PICK m \in Int : m = bytes \div w_chunksize
                       /\ w_chunksize * m <= bytes /\ bytes < w_chunksize * (m + 1)
  BY <1>1, <1>3, DivBounds, Zenon
<1>6. PICK x \in Int : bytes = PageBytes * x
  BY <1>1, <1>3, Divides, Zenon
<1>7. PICK z \in Int : s = PageBytes * z
  <2>1. s % PageBytes = 0
    BY <1>2
  <2> QED  BY <1>1, <1>3, <2>1, Divides, Zenon
<1>8. Kib * (q - 1) \in Int /\ Kib * q \in Int /\ z * (q - 1) \in Int
  BY <1>1
<1>9. s * (q - 1) + w_chunksize <= bytes      \* both are whole pages
  <2>1. s * (q - 1) = PageBytes * (z * (q - 1))
    BY <1>1, <1>7
  <2>2. PageBytes * (z * (q - 1)) < PageBytes * x
    BY <1>4, <1>6, <2>1
  <2>3. PageBytes * (z * (q - 1)) + PageBytes <= PageBytes * x
    BY <1>1, <1>8, <2>2, MultiplesApart, Zenon
  <2> QED  BY <1>1, <1>6, <1>8, <2>1, <2>3
<1>10. Kib * (q - 1) < m
  <2>1. s * (q - 1) = w_chunksize * (Kib * (q - 1))
    BY <1>1, <1>2
  <2>2. w_chunksize * (Kib * (q - 1) + 1) = w_chunksize * (Kib * (q - 1)) + w_chunksize
    BY <1>1, <1>8
  <2>3. w_chunksize * (Kib * (q - 1) + 1) < w_chunksize * (m + 1)
    BY <1>1, <1>3, <1>5, <1>8, <1>9, <2>1, <2>2
  <2>4. Kib * (q - 1) + 1 \in Int /\ m + 1 \in Int
    BY <1>8
  <2>5. Kib * (q - 1) + 1 < m + 1
    BY <1>1, <2>3, <2>4, Cancel, Zenon
  <2> QED  BY <1>8, <2>5
<1>11. m <= Kib * q
  <2>1. s * q = w_chunksize * (Kib * q)
    BY <1>1, <1>2
  <2>2. w_chunksize * m <= w_chunksize * (Kib * q)
    BY <1>1, <1>3, <1>4, <1>5, <1>8, <2>1
  <2> QED  BY <1>1, <1>8, <2>2, Cancel, Zenon
<1>12. CeilDiv(m, Kib) = q
  BY <1>1, <1>10, <1>11, CeilDivIs, Zenon
<1> QED  BY <1>2, <1>4, <1>5, <1>12 DEF NChunks
-----------------------------------------------------------------------------
(* Every set of natural numbers that is not empty has a least one.         *)
LEMMA Least ==
  ASSUME NEW T, T \subseteq Nat, T # {}
  PROVE  \E m \in T : \A k \in T : m <= k
<1> DEFINE R == OpToRel(<, Nat)
<1>1. IsWellFoundedOn(R, Nat)
  BY NatLessThanWellFounded
<1>3. \A a, b \in Nat : a < b => <<a, b>> \in R
  BY DEF OpToRel
<1> HIDE DEF R
<1>2. \E m \in T : \A k \in T : ~(<<k, m>> \in R)
  BY <1>1, WFMin, Zenon
<1>4. PICK m \in T : \A k \in T : ~(<<k, m>> \in R)
  BY <1>2, Zenon
<1>5. \A k \in T : m <= k
  <2> SUFFICES ASSUME NEW k \in T, ~(m <= k) PROVE FALSE
    BY Zenon
  <2>1. m \in Nat /\ k \in Nat
    OBVIOUS
  <2>2. k < m
    BY <2>1
  <2>3. <<k, m>> \in R
    BY <1>3, <2>1, <2>2, Zenon
  <2> QED  BY <1>4, <2>3, Zenon
<1> QED  BY <1>5, Zenon
LEMMA NatInductive ==
  ASSUME NEW T, 0 \in T, \A n \in Nat : n \in T => n + 1 \in T
  PROVE  Nat \subseteq T
<1> SUFFICES ASSUME ~(Nat \subseteq T) PROVE FALSE
  OBVIOUS
<1> DEFINE U == Nat \ T
<1>1. PICK m \in U : \A k \in U : m <= k
  <2> U # {} /\ U \subseteq Nat
    OBVIOUS
  <2> HIDE DEF U
  <2> QED  BY Least
<1>2. m # 0
  OBVIOUS
<1>3. m - 1 \in Nat /\ m - 1 \notin U
  BY <1>1, <1>2
<1> QED BY <1>1, <1>3

(* Counting along a one-to-one correspondence.                             *)
LEMMA SameCount ==
  ASSUME NEW S, IsFiniteSet(S), NEW T, NEW f \in [S -> T],
         \A a, b \in S : f[a] = f[b] => a = b,
         \A t \in T : \E a \in S : f[a] = t
  PROVE  IsFiniteSet(T) /\ Cardinality(T) = Cardinality(S)
<1>1. f \in Bijection(S, T)
  BY DEF Bijection, Injection, Surjection, IsInjective
<1>2. ExistsBijection(S, T)
  BY <1>1, Zenon DEF ExistsBijection
<1> QED  BY <1>2, FS_Bijection, Zenon

(* The queue, place by place.                                              *)
LEMMA QueueIs ==
  ASSUME snapQ \in Seq(Snapshot)
  PROVE  /\ Len(snapQ) \in Nat /\ DOMAIN snapQ = 1 .. Len(snapQ)
         /\ \A i \in DOMAIN snapQ : snapQ[i] \in Snapshot
         /\ IsFiniteSet(DOMAIN snapQ)
<1>1. /\ Len(snapQ) \in Nat /\ DOMAIN snapQ = 1 .. Len(snapQ)
      /\ \A i \in DOMAIN snapQ : snapQ[i] \in Snapshot
  OBVIOUS
<1>2. IsFiniteSet(1 .. Len(snapQ))
  BY <1>1, FS_Interval
<1> QED  BY <1>1, <1>2, Zenon

(* The places that are kept are counted off from 1.                        *)
LEMMA PlacesCountOff ==
  ASSUME NEW n \in Nat, NEW keep \in SUBSET (1 .. n)
  PROVE  /\ IsFiniteSet(keep) /\ Cardinality(keep) \in Nat
         /\ \A i \in keep : Place(keep, i) \in 1 .. Cardinality(keep)
         /\ \A i, j \in keep : Place(keep, i) = Place(keep, j) => i = j
         /\ \A m \in 1 .. Cardinality(keep) : \E i \in keep : Place(keep, i) = m
<1> DEFINE upto(i) == {j \in keep : j <= i}
<1>1. IsFiniteSet(keep) /\ Cardinality(keep) \in Nat
  <2>1. IsFiniteSet(1 .. n)
    BY FS_Interval
  <2> QED  BY <2>1, FS_Subset, FS_CardinalityType
<1>2. ASSUME NEW i \in keep
      PROVE  IsFiniteSet(upto(i)) /\ Place(keep, i) \in 1 .. Cardinality(keep)
  <2>1. upto(i) \in SUBSET keep /\ i \in upto(i)
    OBVIOUS
  <2>2. /\ IsFiniteSet(upto(i)) /\ Cardinality(upto(i)) <= Cardinality(keep)
        /\ Cardinality(upto(i)) \in Nat
    BY <1>1, <2>1, FS_Subset, FS_CardinalityType
  <2>3. Cardinality(upto(i)) # 0
    <3> HIDE DEF upto
    <3> QED  BY <2>1, <2>2, FS_EmptySet
  <2>4. Place(keep, i) = Cardinality(upto(i))
    BY DEF Place
  <2> HIDE DEF upto
  <2> QED  BY <1>1, <2>2, <2>3, <2>4
<1>3. ASSUME NEW i \in keep, NEW j \in keep, i < j
      PROVE  Place(keep, i) < Place(keep, j)
  <2>1. upto(i) \in SUBSET upto(j) /\ upto(i) # upto(j)
    <3>1. j \in upto(j) /\ j \notin upto(i)
      BY <1>3
    <3>2. \A k \in upto(i) : k \in upto(j)
      BY <1>3
    <3> HIDE DEF upto
    <3> QED  BY <3>1, <3>2
  <2>2. IsFiniteSet(upto(j)) /\ IsFiniteSet(upto(i))
    BY <1>2
  <2>3. Place(keep, i) = Cardinality(upto(i)) /\ Place(keep, j) = Cardinality(upto(j))
    BY DEF Place
  <2> HIDE DEF upto
  <2>4. /\ Cardinality(upto(i)) <= Cardinality(upto(j))
        /\ Cardinality(upto(i)) # Cardinality(upto(j))
        /\ Cardinality(upto(i)) \in Nat /\ Cardinality(upto(j)) \in Nat
    BY <2>1, <2>2, FS_Subset, FS_CardinalityType
  <2> QED  BY <2>3, <2>4
<1>4. \A i, j \in keep : Place(keep, i) = Place(keep, j) => i = j
  <2> SUFFICES ASSUME NEW i \in keep, NEW j \in keep, i # j
               PROVE  Place(keep, i) # Place(keep, j)
    BY Zenon
  <2>1. i < j \/ j < i
    OBVIOUS
  <2>2. Place(keep, i) < Place(keep, j) \/ Place(keep, j) < Place(keep, i)
    <3>1. CASE i < j
      BY <1>3, <3>1, Zenon
    <3>2. CASE j < i
      BY <1>3, <3>2, Zenon
    <3> QED  BY <2>1, <3>1, <3>2, Zenon
  <2>3. Place(keep, i) \in 1 .. Cardinality(keep) /\ Place(keep, j) \in 1 .. Cardinality(keep)
    BY <1>2, Zenon
  <2> HIDE DEF upto
  <2> QED  BY <1>1, <2>2, <2>3
<1>5. \A m \in 1 .. Cardinality(keep) : \E i \in keep : Place(keep, i) = m
  <2> DEFINE f == [i \in keep |-> Place(keep, i)]
  <2>1. f \in Injection(keep, 1 .. Cardinality(keep))
    BY <1>2, <1>4 DEF Injection, IsInjective
  <2>2. IsFiniteSet(1 .. Cardinality(keep)) /\ Cardinality(1 .. Cardinality(keep)) = Cardinality(keep)
    BY <1>1, FS_Interval
  <2> HIDE DEF f
  <2>3. f \in Surjection(keep, 1 .. Cardinality(keep))
    BY <2>1, <2>2, FS_Injection, Zenon
  <2> QED  BY <2>3 DEF Surjection, f
<1> QED  BY <1>1, <1>2, <1>4, <1>5

(* What is kept of the queue is what was at the places kept.               *)
LEMMA KeepingIs ==
  ASSUME snapQ \in Seq(Snapshot), NEW keep \in SUBSET DOMAIN snapQ
  PROVE  /\ Cardinality(keep) \in Nat /\ Keeping(keep) \in Seq(Snapshot)
         /\ DOMAIN Keeping(keep) = 1 .. Cardinality(keep)
         /\ \E f \in [1 .. Cardinality(keep) -> keep] :
              /\ \A a, b \in 1 .. Cardinality(keep) : f[a] = f[b] => a = b
              /\ \A i \in keep : \E a \in 1 .. Cardinality(keep) : f[a] = i
              /\ \A a \in 1 .. Cardinality(keep) : Keeping(keep)[a] = snapQ[f[a]]
<1> DEFINE c == Cardinality(keep)
           f == [n \in 1 .. c |-> CHOOSE i \in keep : Place(keep, i) = n]
<1>1. /\ c \in Nat
      /\ \A i \in keep : Place(keep, i) \in 1 .. c
      /\ \A i, j \in keep : Place(keep, i) = Place(keep, j) => i = j
      /\ \A m \in 1 .. c : \E i \in keep : Place(keep, i) = m
  BY QueueIs, PlacesCountOff
<1>2. Keeping(keep) = [n \in 1 .. c |-> snapQ[f[n]]]
  <2>1. Keeping(keep) = [n \in 1 .. c |-> snapQ[CHOOSE i \in keep : Place(keep, i) = n]]
    BY Zenon DEF Keeping
  <2>2. \A n \in 1 .. c : f[n] = CHOOSE i \in keep : Place(keep, i) = n
    BY Zenon
  <2> HIDE DEF f, c
  <2> QED  BY <2>1, <2>2, Zenon
<1>3. \A n \in 1 .. c : f[n] \in keep /\ Place(keep, f[n]) = n
  <2> SUFFICES ASSUME NEW n \in 1 .. c PROVE f[n] \in keep /\ Place(keep, f[n]) = n
    OBVIOUS
  <2>1. \E i \in keep : Place(keep, i) = n
    BY <1>1
  <2>2. f[n] = CHOOSE i \in keep : Place(keep, i) = n
    OBVIOUS
  <2> QED  BY <2>1, <2>2, Zenon
<1>4. f \in [1 .. c -> keep]
  BY <1>3
<1> HIDE DEF f, c
<1>5. \A a, b \in 1 .. c : f[a] = f[b] => a = b
  BY <1>3
<1>6. \A i \in keep : \E a \in 1 .. c : f[a] = i
  <2> SUFFICES ASSUME NEW i \in keep PROVE \E a \in 1 .. c : f[a] = i
    OBVIOUS
  <2>1. Place(keep, i) \in 1 .. c /\ f[Place(keep, i)] = i
    BY <1>1, <1>3
  <2> QED  BY <2>1
<1>7. \A a \in 1 .. c : Keeping(keep)[a] = snapQ[f[a]]
  BY <1>2
<1>8. Keeping(keep) \in [1 .. c -> Snapshot] /\ DOMAIN Keeping(keep) = 1 .. c
  BY <1>2, <1>4, QueueIs
<1>9. Keeping(keep) \in Seq(Snapshot)
  BY <1>1, <1>8
<1> QED  BY <1>1, <1>4, <1>5, <1>6, <1>7, <1>8, <1>9 DEF c

(* The constants, one by one.                                              *)
LEMMA Widths ==
  /\ Word \in Nat \ {0} /\ Half \in Nat \ {0} /\ NameMod \in Nat \ {0} /\ NameMod > 1
  /\ SampleBytes \in Nat \ {0} /\ Kib \in Nat \ {0} /\ PageBytes \in Nat \ {0}
  /\ NChannels \in Nat \ {0} /\ MaxChunkKib \in Nat \ {0} /\ Intersample \in Nat \ {0}
  /\ Batch \in Nat \ {0} /\ MaxHead \in Nat /\ Batch <= MaxHead
  /\ MaxSnap \in Nat /\ MaxCapture \in Nat
  /\ PageBytes <= Half /\ 2 * Half <= Word
BY SnapshotsConstants DEF SnapshotsConstants

(* Two states of one snapshot.                                             *)
SameSnapshot(s, t) ==
  s.id = t.id /\ s.name = t.name /\ s.want = t.want /\ s.samples = t.samples

(* What a snapshot covers depends on its request and its samples only.     *)
LEMMA CoversAlike ==
  ASSUME NEW s, NEW t, SameSnapshot(s, t)
  PROVE  (Fits(s) => Covered(s)) = (Fits(t) => Covered(t))
<1>1. s.want = t.want /\ s.samples = t.samples
  BY DEF SameSnapshot
<1>2. Wanted(s) = Wanted(t)
  BY <1>1, Zenon DEF Wanted
<1>3. Fits(s) = Fits(t)
  BY <1>2, Zenon DEF Fits
<1>4. Covered(s) = Covered(t)
  BY <1>1, <1>2, Zenon DEF Covered, TimeOf
<1> QED  BY <1>3, <1>4, Zenon

(* ReportedOnce, place by place.                                           *)
Reported ==
  /\ \A x \in accepted : x \in told \/ \E i \in DOMAIN snapQ : snapQ[i].id = x
  /\ told \subseteq accepted
  /\ \A i \in DOMAIN snapQ : snapQ[i].id \in accepted /\ snapQ[i].id \notin told

(* ReportedOnce said of the places of the queue.                           *)
LEMMA ReportedIs == ReportedOnce <=> Reported
BY DEF ReportedOnce, Reported, All

Rest == <<w_chunksize, adcVars, cwd, dirs, snap_counter, wp_nfiles, snaps, accepted, disk>>

(* Ztatus takes snapshots that are over off the queue, and tells of them.  *)
LEMMA ReportKeeps ==
  ASSUME IInv, NEW q \in SUBSET DOMAIN snapQ, Report(q), UNCHANGED Rest
  PROVE  IInv'
<1> DEFINE keep == {i \in DOMAIN snapQ : i \notin q \/ Stays(i)}
           c == Cardinality(keep)
<1>0. /\ w_chunksize' = w_chunksize /\ now' = now /\ adc' = adc /\ capture' = capture
      /\ cwd' = cwd /\ snap_counter' = snap_counter /\ wp_nfiles' = wp_nfiles
      /\ snaps' = snaps /\ accepted' = accepted /\ disk' = disk
  BY DEF Rest, adcVars
<1>1. /\ TypeOK /\ FilesPaged /\ FilesInOrder /\ FilesCounted /\ NumbersDiffer
      /\ NamesInTurn /\ ClockOK /\ Reported /\ RangeIsCovered
  BY ReportedIs DEF IInv
<1>2. snapQ \in Seq(Snapshot)
  BY <1>1 DEF TypeOK
<1>3. keep \in SUBSET DOMAIN snapQ
  OBVIOUS
<1>4. /\ snapQ' = Keeping(keep)
      /\ told' = told \cup {snapQ[i].id : i \in {j \in q : Complete(snapQ[j])}}
  BY DEF Report
<1>5. \A i \in DOMAIN snapQ : i \in keep \/ (i \in q /\ Complete(snapQ[i]))
  BY DEF Stays
<1>p. \A i \in DOMAIN snapQ : snapQ[i].pending = 1 => i \in keep
  BY <1>1 DEF Stays, FilesInOrder, Progress, Complete
<1> HIDE DEF keep
<1>6. c \in Nat /\ snapQ' \in Seq(Snapshot) /\ DOMAIN snapQ' = 1 .. c
  BY <1>2, <1>3, <1>4, KeepingIs
<1>7. PICK f \in [1 .. c -> keep] :
        /\ \A a, b \in 1 .. c : f[a] = f[b] => a = b
        /\ \A i \in keep : \E a \in 1 .. c : f[a] = i
        /\ \A a \in 1 .. c : snapQ'[a] = snapQ[f[a]]
  BY <1>2, <1>3, <1>4, KeepingIs
<1> HIDE DEF c
<1>8. \A a \in DOMAIN snapQ' : f[a] \in DOMAIN snapQ /\ f[a] \in keep /\ snapQ'[a] = snapQ[f[a]]
  BY <1>3, <1>6, <1>7
<1>t. told \subseteq told' /\ \A x \in told' : x \in told \/ \E i \in DOMAIN snapQ : x = snapQ[i].id /\ i \in q /\ Complete(snapQ[i])
  BY <1>4
<1>9. TypeOK'
  <2>1. told' \subseteq accepted
    BY <1>1, <1>t DEF Reported
  <2> QED  BY <1>0, <1>1, <1>6, <2>1, Zenon DEF TypeOK
<1>10. FilesPaged'
  BY <1>1, <1>8 DEF FilesPaged, Paged
<1>11. FilesInOrder'
  BY <1>0, <1>1, <1>8 DEF FilesInOrder, Progress
<1>12. NumbersDiffer'
  BY <1>0, <1>1, <1>6, <1>7, <1>8 DEF NumbersDiffer
<1>13. NamesInTurn' /\ ClockOK'
  BY <1>0, <1>1, <1>8 DEF NamesInTurn, Named, ClockOK
<1>14. ReportedOnce'
  <2>1. \A x \in accepted : x \in told' \/ \E a \in DOMAIN snapQ' : snapQ'[a].id = x
    <3> SUFFICES ASSUME NEW x \in accepted, x \notin told'
                 PROVE  \E a \in DOMAIN snapQ' : snapQ'[a].id = x
      OBVIOUS
    <3>1. PICK i \in DOMAIN snapQ : snapQ[i].id = x
      BY <1>1, <1>t DEF Reported
    <3>2. i \in keep
      BY <1>4, <1>5, <3>1
    <3> QED  BY <1>6, <1>7, <3>1, <3>2
  <2>2. \A a \in DOMAIN snapQ' : snapQ'[a].id \in accepted /\ snapQ'[a].id \notin told'
    <3> SUFFICES ASSUME NEW a \in DOMAIN snapQ'
                 PROVE  snapQ'[a].id \in accepted /\ snapQ'[a].id \notin told'
      OBVIOUS
    <3>1. snapQ'[a].id \in accepted /\ snapQ'[a].id \notin told
      BY <1>1, <1>8 DEF Reported
    <3>2. ASSUME NEW i \in DOMAIN snapQ, snapQ'[a].id = snapQ[i].id, i \in q, Complete(snapQ[i])
          PROVE  FALSE
      <4>1. i = f[a]
        BY <1>1, <1>8, <3>2 DEF NumbersDiffer
      <4> QED  BY <1>8, <3>2, <4>1 DEF keep, Stays
    <3> QED  BY <1>t, <3>1, <3>2
  <2>3. told' \subseteq accepted'
    BY <1>9 DEF TypeOK
  <2>4. Reported'
    BY <1>0, <2>1, <2>2, <2>3 DEF Reported
  <2> QED  BY <2>4 DEF ReportedOnce, Reported, All
<1>15. RangeIsCovered'
  BY <1>1, <1>8 DEF RangeIsCovered, All
<1>16. FilesCounted'
  <2> DEFINE g == [a \in InProgress' |-> f[a]]
  <2>1. IsFiniteSet(InProgress')
    <3>1. IsFiniteSet(1 .. c) /\ InProgress' \in SUBSET (1 .. c)
      BY <1>6, FS_Interval DEF InProgress
    <3> QED  BY <3>1, FS_Subset
  <2>2. \A a \in InProgress' : f[a] \in InProgress
    BY <1>8 DEF InProgress
  <2>3. \A i \in InProgress : \E a \in InProgress' : f[a] = i
    <3> SUFFICES ASSUME NEW i \in InProgress PROVE \E a \in InProgress' : f[a] = i
      OBVIOUS
    <3>1. i \in keep /\ snapQ[i].pending = 1
      BY <1>p DEF InProgress
    <3>2. PICK a \in 1 .. c : f[a] = i
      BY <1>7, <3>1
    <3> QED  BY <1>6, <1>8, <3>1, <3>2 DEF InProgress
  <2>4. g \in [InProgress' -> InProgress]
    BY <2>2
  <2>5. /\ \A a, b \in InProgress' : g[a] = g[b] => a = b
        /\ \A i \in InProgress : \E a \in InProgress' : g[a] = i
    BY <1>6, <1>7, <2>3 DEF InProgress
  <2> HIDE DEF g
  <2>6. Cardinality(InProgress) = Cardinality(InProgress')
    BY <2>1, <2>4, <2>5, SameCount, Zenon
  <2> QED  BY <1>0, <1>1, <2>6 DEF FilesCounted
<1> QED
  BY <1>9, <1>10, <1>11, <1>12, <1>13, <1>14, <1>15, <1>16 DEF IInv

(* Steps that leave the snapshots alone.                                   *)
LEMMA QuietKeeps ==
  ASSUME IInv,
         UNCHANGED <<w_chunksize, snap_counter, snapQ, wp_nfiles, snaps, accepted, disk, told>>,
         now' \in Nat, adc' \in [run : BOOLEAN, head : Nat, time : Nat, start : Nat],
         capture' \in 0 .. MaxCapture, cwd' \in Dirs \cup {None}, ClockOK'
  PROVE  IInv'
<1>0. /\ w_chunksize' = w_chunksize /\ snap_counter' = snap_counter /\ snapQ' = snapQ
      /\ wp_nfiles' = wp_nfiles /\ snaps' = snaps /\ accepted' = accepted
      /\ disk' = disk /\ told' = told
  OBVIOUS
<1>1. TypeOK'
  BY <1>0, Zenon DEF IInv, TypeOK
<1>2. FilesPaged' /\ FilesInOrder' /\ NumbersDiffer' /\ NamesInTurn'
  BY <1>0 DEF IInv, FilesPaged, FilesInOrder, NumbersDiffer, NamesInTurn, Named
<1>3. FilesCounted' /\ ReportedOnce' /\ RangeIsCovered'
  BY <1>0, Zenon DEF IInv, FilesCounted, InProgress, ReportedOnce, RangeIsCovered, All
<1> QED  BY <1>1, <1>2, <1>3, Zenon DEF IInv

(* Go starts a capture now.                                                *)
LEMMA GoKeeps ==
  ASSUME IInv, Go PROVE IInv'
<1>1. /\ now' = now /\ capture' \in 0 .. MaxCapture
      /\ adc' = [run |-> TRUE, head |-> 0, time |-> 0, start |-> now]
  BY Widths DEF Go, IInv, TypeOK
<1>2. adc' \in [run : BOOLEAN, head : Nat, time : Nat, start : Nat] /\ now' \in Nat
  BY <1>1 DEF IInv, TypeOK
<1>3. ClockOK'
  BY <1>1, Widths DEF IInv, TypeOK, ClockOK
<1>4. cwd' \in Dirs \cup {None}
  BY DEF Go, notAdc, IInv, TypeOK
<1> QED  BY <1>1, <1>2, <1>3, <1>4, QuietKeeps DEF Go, notAdc

(* A delivery moves the head, its time and the clock together.             *)
LEMMA CollectKeeps ==
  ASSUME IInv, Collect PROVE IInv'
<1>1. /\ now \in Nat /\ adc \in [run : BOOLEAN, head : Nat, time : Nat, start : Nat] /\ adc.run
      /\ now' = now + Batch * Intersample
      /\ adc' = [adc EXCEPT !.head = adc.head + Batch, !.time = now']
      /\ ClockOK
  BY DEF Collect, IInv, TypeOK
<1>2. PICK step \in Nat \ {0} : step = Batch * Intersample
  BY Widths
<1>4. /\ adc'.run = adc.run /\ adc'.head = adc.head + Batch /\ adc'.time = now'
      /\ adc'.start = adc.start
      /\ adc' = [run |-> adc.run, head |-> adc.head + Batch, time |-> now', start |-> adc.start]
  BY <1>1
<1>3. adc' \in [run : BOOLEAN, head : Nat, time : Nat, start : Nat] /\ now' \in Nat
  <2>1. adc.head + Batch \in Nat /\ now' \in Nat
    BY <1>1, <1>2, Widths
  <2> QED  BY <1>1, <1>4, <2>1
<1>5. ClockOK'
  <2>1. (adc.head + Batch) * Intersample = adc.head * Intersample + step
    BY <1>1, <1>2, Widths
  <2>2. adc.head \in Nat /\ adc.start \in Nat /\ adc.head * Intersample \in Nat
        /\ 2 * MaxHead * Intersample \in Nat
    BY <1>1, Widths
  <2>3. now' >= 2 * MaxHead * Intersample
    BY <1>1, <1>2, <2>2 DEF ClockOK
  <2>4. adc.start >= 2 * MaxHead * Intersample /\ now' = adc.start + (adc.head + Batch) * Intersample
    BY <1>1, <1>2, <2>1, <2>2 DEF ClockOK
  <2>5. adc.head + Batch # 0
    BY <2>2, Widths
  <2> QED  BY <1>4, <2>3, <2>4, <2>5, Zenon DEF ClockOK
<1>6. cwd' \in Dirs \cup {None} /\ capture' \in 0 .. MaxCapture
  BY DEF Collect, notAdc, IInv, TypeOK
<1> QED  BY <1>3, <1>5, <1>6, QuietKeeps DEF Collect, notAdc

(* The end of a capture.                                                   *)
LEMMA HaltKeeps ==
  ASSUME IInv, Halt PROVE IInv'
<1>1. /\ now' = now /\ capture' = capture /\ cwd' = cwd
      /\ adc' = [adc EXCEPT !.run = FALSE]
  BY DEF Halt, notAdc
<1>2. adc' \in [run : BOOLEAN, head : Nat, time : Nat, start : Nat] /\ ~adc'.run
  BY <1>1 DEF IInv, TypeOK
<1>3. ClockOK'
  BY <1>1, <1>2 DEF IInv, ClockOK
<1>4. now' \in Nat /\ capture' \in 0 .. MaxCapture /\ cwd' \in Dirs \cup {None}
  BY <1>1 DEF IInv, TypeOK
<1> QED  BY <1>2, <1>3, <1>4, QuietKeeps DEF Halt, notAdc

(* Dir changes the working directory only.                                 *)
LEMMA DirKeeps ==
  ASSUME IInv, NEW p \in Dirs \cup {None}, Dir(p) PROVE IInv'
<1>1. now' = now /\ adc' = adc /\ capture' = capture /\ cwd' = p
  BY DEF Dir, adcVars
<1>2. ClockOK'
  BY <1>1, Zenon DEF IInv, ClockOK
<1> QED  BY <1>1, <1>2, QuietKeeps DEF Dir, IInv, TypeOK

(* One snapshot of the queue, with a file in progress, goes on: what is to *)
(* be shown of it is shown of its new state.                               *)
LEMMA SnapshotGoesOn ==
  ASSUME IInv, NEW i \in DOMAIN snapQ, NEW s \in Snapshot,
         snapQ' = [snapQ EXCEPT ![i] = s],
         UNCHANGED <<w_chunksize, adcVars, cwd, dirs, snap_counter, snaps, accepted, told>>,
         disk \subseteq disk', wp_nfiles' = wp_nfiles - 1 + s.pending,
         snapQ[i].pending = 1, SameSnapshot(s, snapQ[i]), Paged(s), Progress(s, disk')
  PROVE  IInv'
<1>0. /\ w_chunksize' = w_chunksize /\ now' = now /\ adc' = adc /\ capture' = capture
      /\ cwd' = cwd /\ snap_counter' = snap_counter
      /\ snaps' = snaps /\ accepted' = accepted /\ told' = told
  BY DEF adcVars
<1>1. /\ TypeOK /\ FilesPaged /\ FilesInOrder /\ FilesCounted /\ NumbersDiffer
      /\ NamesInTurn /\ ClockOK /\ Reported /\ RangeIsCovered
  BY ReportedIs DEF IInv
<1>2. snapQ \in Seq(Snapshot)
  BY <1>1 DEF TypeOK
<1>3. /\ snapQ' \in Seq(Snapshot) /\ DOMAIN snapQ' = DOMAIN snapQ
      /\ snapQ'[i] = s /\ \A j \in DOMAIN snapQ : j # i => snapQ'[j] = snapQ[j]
  BY <1>2
<1>4. \A j \in DOMAIN snapQ' : SameSnapshot(snapQ'[j], snapQ[j])
  BY <1>3 DEF SameSnapshot
<1>5. FilesCounted' /\ wp_nfiles' \in Nat
  <2>1. IsFiniteSet(InProgress) /\ i \in InProgress
    <3>1. InProgress \in SUBSET DOMAIN snapQ /\ IsFiniteSet(DOMAIN snapQ)
      BY <1>2, QueueIs DEF InProgress
    <3> QED  BY <3>1, FS_Subset DEF InProgress
  <2>2. /\ Cardinality(InProgress) \in Nat
        /\ Cardinality(InProgress \ {i}) = Cardinality(InProgress) - 1
        /\ Cardinality(InProgress \ {i}) \in Nat
    BY <2>1, FS_RemoveElement, FS_CardinalityType
  <2>3. CASE s.pending = 1
    <3>1. InProgress' = InProgress
      BY <1>3, <2>1, <2>3 DEF InProgress
    <3> QED  BY <1>1, <2>2, <2>3, <3>1 DEF FilesCounted, TypeOK
  <2>4. CASE s.pending = 0
    <3>1. InProgress' = InProgress \ {i}
      BY <1>3, <2>1, <2>4 DEF InProgress
    <3> QED  BY <1>1, <2>2, <2>4, <3>1 DEF FilesCounted, TypeOK
  <2>5. s.pending \in 0 .. 1
    BY DEF Snapshot
  <2> QED  BY <2>3, <2>4, <2>5
<1>6. TypeOK'
  BY <1>0, <1>1, <1>3, <1>5, Zenon DEF TypeOK
<1>7. FilesPaged'
  BY <1>1, <1>3 DEF FilesPaged, Paged
<1>8. FilesInOrder'
  <2>1. ASSUME NEW j \in DOMAIN snapQ, j # i PROVE Progress(snapQ'[j], disk')
    <3>1. Progress(snapQ[j], disk)
      BY <1>1 DEF FilesInOrder
    <3>2. snapQ'[j] = snapQ[j]
      BY <1>3, <2>1
    <3> QED  BY <3>1, <3>2 DEF Progress
  <2> QED  BY <1>3, <2>1, Zenon DEF FilesInOrder
<1>9. NumbersDiffer' /\ NamesInTurn' /\ ClockOK'
  BY <1>0, <1>1, <1>3, <1>4 DEF NumbersDiffer, NamesInTurn, Named, ClockOK, SameSnapshot
<1>10. ReportedOnce'
  <2>1. Reported'
    BY <1>0, <1>1, <1>3, <1>4 DEF Reported, SameSnapshot
  <2> QED  BY <2>1 DEF ReportedOnce, Reported, All
<1>11. RangeIsCovered'
  <2>1. ASSUME NEW j \in DOMAIN snapQ' PROVE Fits(snapQ'[j]) => Covered(snapQ'[j])
    <3>1. Fits(snapQ[j]) => Covered(snapQ[j])
      BY <1>1, <1>3 DEF RangeIsCovered, All
    <3> QED  BY <1>4, <3>1, CoversAlike, Zenon
  <2> QED  BY <2>1, Zenon DEF RangeIsCovered, All
<1> QED
  BY <1>5, <1>6, <1>7, <1>8, <1>9, <1>10, <1>11 DEF IInv

(* Numbers that wrap.                                                      *)
LEMMA ModRange ==
  ASSUME NEW a \in Int, NEW b \in Nat \ {0}
  PROVE  a % b \in Int /\ 0 <= a % b /\ a % b < b /\ a % b \in 0 .. b - 1
OBVIOUS

(* Remainder and quotient.                                                 *)
LEMMA ModEq ==
  ASSUME NEW a \in Int, NEW b \in Nat \ {0}
  PROVE  a - b * (a \div b) = a % b
OBVIOUS

(* The remainder is what lies below the divisor.                           *)
LEMMA ModIs ==
  ASSUME NEW a \in Int, NEW b \in Nat \ {0}, NEW q \in Int, NEW r \in Int, 0 <= r, r < b,
         a = b * q + r
  PROVE  a % b = r
OBVIOUS

(* A multiple leaves no remainder.                                         *)
LEMMA MultipleIs ==
  ASSUME NEW b \in Nat \ {0}, NEW q \in Int, NEW a, a = b * q
  PROVE  a % b = 0
<1>1. a \in Int /\ 0 \in Int /\ 0 < b /\ a = b * q + 0
  OBVIOUS
<1> QED  BY <1>1, ModIs

(* Every integer has a quotient and a remainder.                           *)
LEMMA ModParts ==
  ASSUME NEW a \in Int, NEW b \in Nat \ {0}
  PROVE  \E q, r \in Int : 0 <= r /\ r < b /\ a = b * q + r /\ a % b = r
<1> DEFINE q == a \div b
           r == a % b
<1>1. r \in Int /\ 0 <= r /\ r < b
  BY ModRange
<1>2. a - b * q = r /\ q \in Int /\ b * q \in Int
  BY ModEq
<1> HIDE DEF q, r
<1>3. a = b * q + r
  BY <1>1, <1>2
<1> QED  BY <1>1, <1>2, <1>3 DEF q, r

(* A multiple of the divisor changes no remainder.                         *)
LEMMA ModShift ==
  ASSUME NEW a \in Int, NEW b \in Nat \ {0}, NEW q \in Int
  PROVE  (a + b * q) % b = a % b
<1>1. PICK d \in Int, r \in Int : 0 <= r /\ r < b /\ a = b * d + r /\ a % b = r
  BY ModParts
<1>2. b * (d + q) = b * d + b * q /\ b * d \in Int /\ b * q \in Int /\ d + q \in Int
  OBVIOUS
<1>3. a + b * q = b * (d + q) + r /\ a + b * q \in Int
  BY <1>1, <1>2
<1> QED  BY <1>1, <1>2, <1>3, ModIs

(* In 64 bits, numbers may be wrapped before they are added.               *)
LEMMA WrapAdd ==
  ASSUME NEW x \in Int, NEW y \in Int
  PROVE  /\ U64(x) \in 0 .. Word - 1
         /\ U64(U64(x) + y) = U64(x + y)
         /\ U64(U64(x) - y) = U64(x - y)
<1>1. Word \in Nat \ {0}
  BY Widths
<1>2. PICK q \in Int, r \in Int : 0 <= r /\ r < Word /\ x = Word * q + r /\ x % Word = r
  BY <1>1, ModParts
<1>3. (r + y) + Word * q = x + y /\ (r - y) + Word * q = x - y
  BY <1>1, <1>2
<1> DEFINE u == r + y
           v == r - y
<1>t. u \in Int /\ v \in Int
  BY <1>2
<1> HIDE DEF u, v
<1>4. (u + Word * q) % Word = u % Word
  BY <1>1, <1>2, <1>t, ModShift
<1>5. (v + Word * q) % Word = v % Word
  BY <1>1, <1>2, <1>t, ModShift
<1>6. x % Word \in 0 .. Word - 1
  BY <1>1, ModRange
<1> QED  BY <1>2, <1>3, <1>4, <1>5, <1>6, Zenon DEF U64, u, v

(* 64 bits hold what was wrapped.                                          *)
LEMMA WrapRange ==
  ASSUME NEW x \in Int
  PROVE  U64(x) \in 0 .. Word - 1 /\ U64(x) \in Nat /\ U64(x) < Word
<1>1. Word \in Nat \ {0}
  BY Widths
<1>2. x % Word \in Int /\ 0 <= x % Word /\ x % Word < Word
  BY <1>1, ModRange
<1> QED  BY <1>1, <1>2 DEF U64

(* What fits 64 bits is not changed.                                       *)
LEMMA WrapIs ==
  ASSUME NEW x \in Int, 0 <= x, x < Word
  PROVE  U64(x) = x
BY Widths DEF U64

(* A snapshot without a file in progress, after it was looked at.          *)
LEMMA RefreshedIs ==
  ASSUME NEW s \in Snapshot, NEW files, s.pending = 0, s.file = None,
         s.done <= s.count, s.status \in {"PREPARE", "WRITING", "ERROR"},
         \A k \in 0 .. s.done - 1 : FileOf(s, k) \in files,
         s.status # "ERROR" => s.first = U64(s.want.first + s.done * s.samples),
         Paged(s), NEW t \in Refreshed(s)
  PROVE  t \in Snapshot /\ SameSnapshot(t, s) /\ Paged(t) /\ Progress(t, files)
<1>1. /\ s.done \in Nat /\ s.count \in Nat /\ s.first \in Int /\ s.samples \in Nat
      /\ s.last \in Int /\ s.want.first \in Nat
  BY DEF Snapshot, Wish
<1>2. \/ t = s /\ s.status = "ERROR"
      \/ t = [s EXCEPT !.status = "COMPLETE"] /\ s.done = s.count
      \/ t = [s EXCEPT !.status = "ERROR"]
      \/ t = WithFile(s) /\ s.done < s.count /\ s.status # "ERROR"
  BY <1>1 DEF Refreshed
<1>3. CASE t = s /\ s.status = "ERROR"
  <2>1. Progress(s, files)
    BY <1>1, <1>3 DEF Progress
  <2> QED  BY <1>3, <2>1 DEF SameSnapshot
<1>4. ASSUME NEW x \in {"COMPLETE", "ERROR"}, t = [s EXCEPT !.status = x],
             x = "COMPLETE" => s.done = s.count
      PROVE  t \in Snapshot /\ SameSnapshot(t, s) /\ Paged(t) /\ Progress(t, files)
  <2>1. t \in Snapshot
    BY <1>4 DEF Snapshot, Status
  <2>2. /\ t.id = s.id /\ t.name = s.name /\ t.want = s.want /\ t.samples = s.samples
        /\ t.bytes = s.bytes /\ t.done = s.done /\ t.count = s.count /\ t.pending = 0
        /\ t.file = None /\ t.dir = s.dir /\ t.status = x
    BY <1>4 DEF Snapshot
  <2>3. \A k : FileOf(t, k) = FileOf(s, k)
    BY <2>2 DEF FileOf
  <2>4. Progress(t, files)
    BY <1>1, <1>4, <2>2, <2>3 DEF Progress
  <2> QED  BY <2>1, <2>2, <2>4 DEF SameSnapshot, Paged
<1>5. CASE t = WithFile(s) /\ s.done < s.count /\ s.status # "ERROR"
  <2>1. U64(s.first + s.samples) \in 0 .. Word - 1 /\ U64(s.last + s.samples) \in 0 .. Word - 1
    <3>1. s.first + s.samples \in Int /\ s.last + s.samples \in Int
      BY <1>1
    <3> QED  BY <3>1, WrapAdd
  <2>2. t = [s EXCEPT !.file = s.first, !.pending = 1,
                      !.first = U64(s.first + s.samples), !.last = U64(s.last + s.samples)]
    BY <1>5 DEF WithFile
  <2>3. t \in Snapshot
    <3>1. s.first \in 0 .. Word - 1 /\ 1 \in 0 .. 1
      BY DEF Snapshot
    <3> QED  BY <2>1, <2>2, <3>1, Zenon DEF Snapshot
  <2>4. /\ t.id = s.id /\ t.name = s.name /\ t.want = s.want /\ t.samples = s.samples
        /\ t.bytes = s.bytes /\ t.done = s.done /\ t.count = s.count /\ t.pending = 1
        /\ t.file = s.first /\ t.dir = s.dir /\ t.status = s.status
        /\ t.first = U64(s.first + s.samples)
    BY <2>2 DEF Snapshot
  <2>5. \A k : FileOf(t, k) = FileOf(s, k)
    BY <2>4 DEF FileOf
  <2>6. s.first # None
    BY SnapshotsConstants, Widths DEF SnapshotsConstants, Snapshot
  <2>7. U64(s.first + s.samples) = U64(s.want.first + (s.done + 1) * s.samples)
    <3>1. PICK m \in Nat : m = s.done * s.samples
      BY <1>1
    <3>2. (s.done + 1) * s.samples = m + s.samples
      BY <1>1, <3>1
    <3>3. U64(U64(s.want.first + m) + s.samples) = U64(s.want.first + m + s.samples)
      <4> DEFINE x == s.want.first + m
      <4>1. x \in Int /\ s.samples \in Int
        BY <1>1, <3>1
      <4> HIDE DEF x
      <4>2. U64(U64(x) + s.samples) = U64(x + s.samples)
        BY <4>1, WrapAdd
      <4> QED  BY <4>2, Zenon DEF x
    <3> QED  BY <1>1, <1>5, <3>1, <3>2, <3>3
  <2>8. Progress(t, files)
    BY <1>1, <1>5, <2>4, <2>5, <2>6, <2>7 DEF Progress
  <2> QED  BY <2>3, <2>4, <2>8 DEF SameSnapshot, Paged
<1> QED  BY <1>2, <1>3, <1>4, <1>5

(* A file ends, well or not.                                               *)
LEMMA FileEndsKeeps ==
  ASSUME IInv, NEW i \in DOMAIN snapQ, NEW ok \in BOOLEAN, FileEnds(i, ok),
         disk \subseteq disk',
         ok => FileOf(snapQ[i], snapQ[i].done) \in disk'
  PROVE  IInv'
<1> DEFINE s == snapQ[i]
           e == Ended(s, ok)
<1>1. s \in Snapshot /\ Paged(s) /\ Progress(s, disk)
  BY QueueIs DEF IInv, TypeOK, FilesPaged, FilesInOrder
<1>2. s.pending = 1
  BY <1>1 DEF FileEnds, Snapshot
<1> HIDE DEF s
<1>3. /\ e = [s EXCEPT !.file = None, !.pending = 0,
                       !.done = IF ok THEN s.done + 1 ELSE s.done,
                       !.status = IF ok THEN "WRITING" ELSE "ERROR"]
      /\ s.done \in Nat /\ s.count \in Nat
  BY <1>1, <1>2 DEF Ended, Snapshot
<1>4. e \in Snapshot
  <2>1. (IF ok THEN s.done + 1 ELSE s.done) \in Nat /\ 0 \in 0 .. 1
    BY <1>3
  <2>2. (IF ok THEN "WRITING" ELSE "ERROR") \in Status
    BY DEF Status
  <2> HIDE DEF e
  <2> QED  BY <1>1, <1>3, <2>1, <2>2, Zenon DEF Snapshot
<1>5. /\ e.id = s.id /\ e.name = s.name /\ e.want = s.want /\ e.samples = s.samples
      /\ e.bytes = s.bytes /\ e.count = s.count /\ e.pending = 0
      /\ e.file = None /\ e.dir = s.dir /\ e.first = s.first
      /\ e.done = (IF ok THEN s.done + 1 ELSE s.done)
      /\ e.status = (IF ok THEN "WRITING" ELSE "ERROR")
  BY <1>1, <1>3 DEF Snapshot
<1> HIDE DEF e
<1>6. \A k : FileOf(e, k) = FileOf(s, k)
  BY <1>5 DEF FileOf
<1>7. /\ e.done <= e.count
      /\ \A k \in 0 .. e.done - 1 : FileOf(e, k) \in disk'
      /\ e.status # "ERROR" => e.first = U64(e.want.first + e.done * e.samples)
      /\ Paged(e)
  <2>1. e.done <= e.count
    BY <1>1, <1>2, <1>3, <1>5 DEF Progress
  <2>2. \A k \in 0 .. s.done - 1 : FileOf(s, k) \in disk'
    BY <1>1 DEF Progress
  <2>3. ok => FileOf(s, s.done) \in disk'
    BY DEF s
  <2>4. \A k \in 0 .. e.done - 1 : FileOf(e, k) \in disk'
    <3> SUFFICES ASSUME NEW k \in 0 .. e.done - 1 PROVE FileOf(s, k) \in disk'
      BY <1>6, Zenon
    <3>1. k \in 0 .. s.done - 1 \/ (ok /\ k = s.done)
      BY <1>3, <1>5
    <3> QED  BY <2>2, <2>3, <3>1, Zenon
  <2>5. e.status # "ERROR" => e.first = U64(e.want.first + e.done * e.samples)
    BY <1>1, <1>2, <1>5 DEF Progress
  <2> QED  BY <1>1, <1>5, <2>1, <2>4, <2>5 DEF Paged
<1>8. PICK t \in Refreshed(e) :
        snapQ' = [snapQ EXCEPT ![i] = t] /\ wp_nfiles' = wp_nfiles - 1 + t.pending
  BY DEF FileEnds, e, s
<1>9. t \in Snapshot /\ SameSnapshot(t, e) /\ Paged(t) /\ Progress(t, disk')
  <2>1. e.status \in {"PREPARE", "WRITING", "ERROR"}
    BY <1>5
  <2> QED  BY <1>4, <1>5, <1>7, <2>1, RefreshedIs, Zenon
<1>10. SameSnapshot(t, s)
  BY <1>5, <1>9 DEF SameSnapshot
<1> QED
  BY <1>2, <1>8, <1>9, <1>10, SnapshotGoesOn, Zenon DEF FileEnds, s

(* A file that is done is on disk.                                         *)
LEMMA FileDoneKeeps ==
  ASSUME IInv, NEW i \in DOMAIN snapQ, FileDone(i) PROVE IInv'
<1>1. Progress(snapQ[i], disk) /\ snapQ[i] \in Snapshot
  BY QueueIs DEF IInv, TypeOK, FilesInOrder
<1>2. FileOf(snapQ[i], snapQ[i].done) =
        [id |-> snapQ[i].id, dir |-> snapQ[i].dir, first |-> snapQ[i].file,
         samples |-> snapQ[i].samples]
  BY <1>1 DEF FileDone, Progress, FileOf
<1>3. disk \subseteq disk' /\ FileOf(snapQ[i], snapQ[i].done) \in disk'
  BY <1>2 DEF FileDone
<1> QED  BY <1>3, FileEndsKeeps DEF FileDone

(* A file that fails is not.                                               *)
LEMMA FileFailsKeeps ==
  ASSUME IInv, NEW i \in DOMAIN snapQ, FileFails(i) PROVE IInv'
BY FileEndsKeeps DEF FileFails

(* An int of 32 bits.                                                      *)
LEMMA HalfRange ==
  ASSUME NEW x \in Int
  PROVE  /\ I32(x) \in Int /\ -Half <= I32(x) /\ I32(x) < Half
         /\ -Half <= x /\ x < Half => I32(x) = x
         /\ Half <= x /\ x < 2 * Half => I32(x) < 0
<1>1. 2 * Half \in Nat \ {0} /\ Half \in Nat \ {0}
  BY Widths
<1> DEFINE w == 2 * Half
           u == x % w
<1>2. u \in Int /\ 0 <= u /\ u < w
  BY <1>1, ModRange
<1>3. I32(x) = IF u < Half THEN u ELSE u - w
  BY DEF I32, U32
<1>4. 0 <= x /\ x < w => u = x
  <2>1. x = w * 0 + x
    BY <1>1
  <2> QED  BY <1>1, <2>1, ModIs
<1>5. -Half <= x /\ x < 0 => u = x + w
  <2>1. x = w * (-1) + (x + w) /\ x + w \in Int /\ -1 \in Int /\ w \in Nat \ {0}
    BY <1>1
  <2>2. -Half <= x /\ x < 0 => 0 <= x + w /\ x + w < w
    BY <1>1
  <2> HIDE DEF w
  <2> QED  BY <2>1, <2>2, ModIs
<1> HIDE DEF u
<1> QED  BY <1>1, <1>2, <1>3, <1>4, <1>5

(* What is added to a number of bytes to have whole pages.                 *)
Pad(b) == CRem(PageBytes - CRem(b, PageBytes), PageBytes)

(* No page is added, and a number that is not negative comes to whole      *)
(* pages.                                                                  *)
LEMMA PadIs ==
  ASSUME NEW b \in Int
  PROVE  /\ Pad(b) \in Nat /\ Pad(b) < PageBytes
         /\ b >= 0 => \E q \in Nat : b + Pad(b) = PageBytes * q
         /\ b < 0 => b + Pad(b) <= 0
<1>1. PageBytes \in Nat \ {0}
  BY Widths
<1>2. CASE b >= 0
  <2>1. PICK q \in Int, r \in Int : /\ 0 <= r /\ r < PageBytes
                                    /\ b = PageBytes * q + r /\ b % PageBytes = r
    BY <1>1, ModParts
  <2>2. Pad(b) = (PageBytes - r) % PageBytes
    BY <1>1, <1>2, <2>1 DEF Pad, CRem
  <2>3. q >= 0
    <3>1. q < 0 => PageBytes * q <= -PageBytes
      BY <1>1, <2>1
    <3> QED  BY <1>1, <1>2, <2>1, <3>1
  <2>4. CASE r = 0
    <3>1. PageBytes % PageBytes = 0
      BY <1>1
    <3> QED  BY <1>1, <1>2, <2>1, <2>2, <2>3, <2>4, <3>1
  <2>5. CASE r # 0
    <3>1. (PageBytes - r) % PageBytes = PageBytes - r
      <4>1. PageBytes - r = PageBytes * 0 + (PageBytes - r)
        BY <1>1, <2>1
      <4> QED  BY <1>1, <2>1, <2>5, <4>1, ModIs
    <3>2. b + Pad(b) = PageBytes * (q + 1) /\ q + 1 \in Nat
      BY <1>1, <2>1, <2>2, <2>3, <3>1
    <3>3. PageBytes - r \in Nat /\ PageBytes - r < PageBytes
      BY <1>1, <2>1, <2>5
    <3>4. Pad(b) \in Nat /\ Pad(b) < PageBytes
      BY <2>2, <3>1, <3>3
    <3> QED  BY <1>2, <3>2, <3>4
  <2> QED  BY <2>1, <2>4, <2>5
<1>3. CASE b < 0
  <2>0. PICK a \in Int : a = -b
    OBVIOUS
  <2>1. PICK q \in Int, r \in Int : /\ 0 <= r /\ r < PageBytes
                                    /\ a = PageBytes * q + r /\ a % PageBytes = r
    BY <1>1, ModParts
  <2>2. Pad(b) = (PageBytes + r) % PageBytes
    BY <1>1, <1>3, <2>0, <2>1 DEF Pad, CRem
  <2>3. (PageBytes + r) % PageBytes = r
    <3>1. PageBytes + r = PageBytes * 1 + r
      BY <1>1, <2>1
    <3> QED  BY <1>1, <2>1, <3>1, ModIs
  <2>4. q >= 0
    <3>1. q < 0 => PageBytes * q <= -PageBytes
      BY <1>1, <2>1
    <3> QED  BY <1>1, <1>3, <2>0, <2>1, <3>1
  <2>5. PICK z \in Nat : z = PageBytes * q
    BY <1>1, <2>1, <2>4
  <2>6. Pad(b) = r
    BY <2>2, <2>3
  <2>7. b + Pad(b) <= 0
    BY <2>0, <2>1, <2>5, <2>6
  <2> QED  BY <1>3, <2>1, <2>6, <2>7
<1> QED  BY <1>2, <1>3

(* A sample divides a page, and so does a sweep of the channels.           *)
LEMMA PageHolds ==
  \E k \in Nat \ {0} : PageBytes = (NChannels * SampleBytes) * k
<1>1. PageBytes % (SampleBytes * NChannels) = 0
  BY SnapshotsConstants DEF SnapshotsConstants
<1> DEFINE c == SampleBytes * NChannels
<1>2. c \in Nat \ {0} /\ c = NChannels * SampleBytes /\ PageBytes \in Int
  BY Widths
<1> HIDE DEF c
<1>3. PICK q \in Int, r \in Int : 0 <= r /\ r < c /\ PageBytes = c * q + r /\ PageBytes % c = r
  BY <1>2, ModParts
<1>4. PageBytes = c * q
  BY <1>1, <1>2, <1>3 DEF c
<1>5. q > 0
  BY <1>2, <1>3, <1>4, Widths
<1> QED  BY <1>2, <1>3, <1>4, <1>5

(* s_bytes, and the samples they are taken for.                            *)
LEMMA FileBytesIs ==
  ASSUME NEW n \in Nat
  PROVE  /\ FileBytes(n) \in Int /\ -Half <= FileBytes(n) /\ FileBytes(n) < Half
         /\ FileSamples(FileBytes(n)) \in 0 .. 2 * Half - 1
         /\ FileBytes(n) > 0 =>
              /\ FileBytes(n) % PageBytes = 0
              /\ FileBytes(n) = FileSamples(FileBytes(n)) * SampleBytes
<1> DEFINE b == I32(n * SampleBytes)
           f == FileBytes(n)
<1>1. b \in Int /\ -Half <= b /\ b < Half
  <2>1. n * SampleBytes \in Int
    BY Widths
  <2> QED  BY <2>1, HalfRange
<1>2. f = I32(b + Pad(b))
  BY DEF FileBytes, Pad
<1> HIDE DEF b, f
<1>3. Pad(b) \in Nat /\ Pad(b) < PageBytes
  BY <1>1, PadIs
<1>4. f \in Int /\ -Half <= f /\ f < Half
  BY <1>1, <1>2, <1>3, HalfRange
<1>5. FileSamples(f) \in 0 .. 2 * Half - 1
  <2> DEFINE d == U64(f) \div SampleBytes
             w == 2 * Half
  <2>1. d \in Int /\ w \in Nat \ {0}
    BY <1>4, WrapRange, Widths
  <2>2. FileSamples(f) = d % w
    BY DEF FileSamples, U32
  <2> HIDE DEF d, w
  <2>3. d % w \in 0 .. w - 1
    BY <2>1, ModRange
  <2> QED  BY <2>2, <2>3 DEF w
<1>6. ASSUME f > 0
      PROVE  f % PageBytes = 0 /\ f = FileSamples(f) * SampleBytes
  <2>1. b + Pad(b) < Half /\ f = b + Pad(b)
    <3>1. b + Pad(b) \in Int /\ -Half <= b + Pad(b) /\ b + Pad(b) < 2 * Half
      BY <1>1, <1>3, Widths
    <3>2. PICK x \in Int : x = b + Pad(b)
      BY <3>1
    <3>3. Half <= x => f < 0
      BY <1>2, <3>1, <3>2, HalfRange
    <3>4. x < Half => f = x
      BY <1>2, <3>1, <3>2, HalfRange
    <3> QED  BY <1>4, <1>6, <3>2, <3>3, <3>4, Widths
  <2>2. b >= 0
    BY <1>1, <1>3, <1>6, <2>1, PadIs
  <2>3. PICK q \in Nat : f = PageBytes * q
    BY <1>1, <2>1, <2>2, PadIs
  <2>4. f % PageBytes = 0
    <3>1. f = PageBytes * q + 0
      BY <2>3, Widths
    <3> QED  BY <1>4, <3>1, Widths, ModIs
  <2>5. PICK k \in Nat \ {0} : PageBytes = (NChannels * SampleBytes) * k
    BY PageHolds
  <2>6. PICK m \in Nat : m = NChannels * k * q
    BY <2>5, Widths
  <2>7. f = SampleBytes * m
    BY <2>3, <2>5, <2>6, Widths
  <2>8. U64(f) = f
    BY <1>4, <1>6, Widths, WrapIs
  <2>9. f \div SampleBytes = m
    BY <1>4, <2>7, Widths, DivIs
  <2>10. m < 2 * Half
    <3>1. m <= SampleBytes * m
      BY Widths
    <3> QED  BY <1>4, <2>7, <3>1, Widths
  <2>11. m % (2 * Half) = m
    BY <2>10, Widths
  <2> QED  BY <2>4, <2>7, <2>8, <2>9, <2>11, Widths DEF FileSamples, U32
<1> QED  BY <1>4, <1>5, <1>6 DEF f

(* Whole pages that hold n samples and fit an int do hold them.            *)
LEMMA FileHolds ==
  ASSUME NEW n \in Nat, NEW m \in Nat, n * SampleBytes <= PageBytes * m, PageBytes * m < Half
  PROVE  FileSamples(FileBytes(n)) >= n
<1> DEFINE b == n * SampleBytes
           f == FileBytes(n)
<1>1. b \in Nat /\ b < Half /\ PageBytes * m \in Nat
  BY Widths
<1>2. I32(b) = b
  BY <1>1, Widths, HalfRange
<1>3. f = I32(b + Pad(b))
  BY <1>2 DEF FileBytes, Pad
<1> HIDE DEF f
<1>d. b = n * SampleBytes
  OBVIOUS
<1> HIDE DEF b
<1>4. Pad(b) \in Nat /\ Pad(b) < PageBytes
  BY <1>1, PadIs
<1>5. PICK q \in Nat : b + Pad(b) = PageBytes * q
  BY <1>1, PadIs
<1>6. q <= m
  <2>1. PageBytes * q < PageBytes * m + PageBytes
    BY <1>1, <1>4, <1>5, <1>d, Widths
  <2>2. q >= m + 1 => PageBytes * q >= PageBytes * m + PageBytes
    BY Widths
  <2>3. PageBytes * q \in Nat
    BY Widths
  <2> QED  BY <1>1, <2>1, <2>2, <2>3, Widths
<1>7. PageBytes * q <= PageBytes * m
  BY <1>6, Widths
<1>8. f = b + Pad(b)
  BY <1>1, <1>3, <1>4, <1>5, <1>7, Widths, HalfRange
<1>9. CASE f > 0
  <2>1. f = FileSamples(f) * SampleBytes /\ FileSamples(f) \in Nat
    BY <1>9, FileBytesIs, Widths DEF f
  <2>2. n * SampleBytes <= FileSamples(f) * SampleBytes
    BY <1>1, <1>4, <1>8, <1>d, <2>1
  <2> HIDE DEF f
  <2>3. PICK x \in Nat : x = FileSamples(f)
    BY <2>1
  <2>4. n * SampleBytes <= x * SampleBytes => n <= x
    BY Widths
  <2> QED  BY <2>2, <2>3, <2>4 DEF f
<1>10. CASE f <= 0
  <2>1. n = 0
    BY <1>1, <1>4, <1>8, <1>10, <1>d, Widths
  <2> QED  BY <2>1, FileBytesIs
<1>11. f \in Int
  BY <1>1, <1>4, <1>8
<1> QED  BY <1>9, <1>10, <1>11

(* Sample n is read with time x, e samples too high for it; v is sample    *)
(* of time t reckoned from that.                                           *)
ReadAt(n, x, e, start) ==
  -Batch <= e /\ e <= Batch /\ x = start + (n - e) * Intersample
SampleOf(v, t, x, e, start) ==
  /\ Intersample * (v - e) > (t - start) - Intersample
  /\ Intersample * (v - e) < (t - start) + Intersample
  /\ t > x => Intersample * (v - e) <= t - start
  /\ t <= x => Intersample * (v - e) >= t - start


(* What is read of the ADC is numbers; a head that is e samples too high   *)
(* for the time it was read with is so by one delivery at most, or by none *)
(* if both are of one time.                                                *)
LEMMA ReadingIs ==
  ASSUME TypeOK, ClockOK, adc.run, NEW at \in {Now, Before} \cup Torn
  PROVE  /\ at.head \in Nat /\ at.time \in Nat
         /\ at.time > 0 =>
              \E e \in Int : /\ -Batch <= e /\ e <= Batch
                             /\ at.time = adc.start + (at.head - e) * Intersample
                             /\ at \in {Now, Before} => e = 0
<1>1. adc.head \in Nat /\ adc.time \in Nat /\ adc.start \in Nat /\ now \in Nat
  BY DEF TypeOK
<1>w. Batch \in Nat \ {0} /\ Intersample \in Nat \ {0}
  BY Widths
<1>2. PICK h \in Nat, t \in Nat : h = adc.head /\ t = adc.time
  BY <1>1
<1>3. h > 0 => t = adc.start + h * Intersample
  BY <1>2 DEF ClockOK
<1>4. h = 0 => t = 0
  BY <1>2 DEF ClockOK
<1>5. PICK step \in Nat : step = Batch * Intersample
  BY <1>w
<1>6. Now = [head |-> h, time |-> t]
  BY <1>2 DEF Now
<1>7. Before = IF h > Batch THEN [head |-> h - Batch, time |-> t - step]
               ELSE [head |-> 0, time |-> 0]
  BY <1>2, <1>5 DEF Before
<1>8. h > Batch => (h - Batch) * Intersample = h * Intersample - step
                   /\ h * Intersample >= step /\ h * Intersample \in Nat
  <2>1. (h - Batch) * Intersample = h * Intersample - Batch * Intersample
    BY <1>w
  <2>2. h > Batch => (h - Batch) * Intersample >= 0
    BY <1>w
  <2>3. h * Intersample \in Nat
    BY <1>w
  <2> QED  BY <1>5, <2>1, <2>2, <2>3
<1>9. CASE at = Now
  <2>1. at.head = h /\ at.time = t
    BY <1>6, <1>9
  <2>2. t > 0 => t = adc.start + (h - 0) * Intersample
    BY <1>3, <1>4
  <2> QED  BY <1>w, <2>1, <2>2
<1>10. CASE at = Before
  <2>1. CASE h > Batch
    <3>1. at.head = h - Batch /\ at.time = t - step
      BY <1>7, <1>10, <2>1
    <3>2. t - step = adc.start + ((h - Batch) - 0) * Intersample /\ t - step \in Nat
      BY <1>1, <1>3, <1>8, <1>w, <2>1
    <3>3. h - Batch \in Nat
      BY <1>w, <2>1
    <3> QED  BY <1>w, <3>1, <3>2, <3>3
  <2>2. CASE ~(h > Batch)
    <3>1. at.head = 0 /\ at.time = 0
      BY <1>7, <1>10, <2>2
    <3> QED  BY <3>1
  <2> QED  BY <2>1, <2>2
<1>11. CASE at = [head |-> adc.head, time |-> Before.time]
  <2>1. CASE h > Batch
    <3>1. at.head = h /\ at.time = t - step
      BY <1>2, <1>7, <1>11, <2>1
    <3>2. t - step = adc.start + (h - Batch) * Intersample /\ t - step \in Nat
      BY <1>1, <1>3, <1>8, <1>w, <2>1
    <3>3. at \in {Now, Before} => FALSE \/ step = 0
      BY <1>6, <1>7, <1>w, <2>1, <3>1
    <3>4. step # 0
      BY <1>5, <1>w
    <3> QED  BY <1>w, <3>1, <3>2, <3>3, <3>4
  <2>2. CASE ~(h > Batch)
    <3>1. at.head = h /\ at.time = 0
      BY <1>2, <1>7, <1>11, <2>2
    <3> QED  BY <3>1
  <2> QED  BY <2>1, <2>2
<1>12. CASE at = [head |-> Before.head, time |-> adc.time]
  <2>1. CASE h > Batch
    <3>1. at.head = h - Batch /\ at.time = t
      BY <1>2, <1>7, <1>12, <2>1
    <3>2. t = adc.start + ((h - Batch) - (-Batch)) * Intersample /\ h - Batch \in Nat
      BY <1>3, <1>w, <2>1
    <3>3. at \in {Now, Before} => FALSE \/ step = 0
      BY <1>6, <1>7, <1>w, <2>1, <3>1
    <3>4. step # 0
      BY <1>5, <1>w
    <3> QED  BY <1>w, <3>1, <3>2, <3>3, <3>4
  <2>2. CASE ~(h > Batch)
    <3>1. at.head = 0 /\ at.time = t
      BY <1>2, <1>7, <1>12, <2>2
    <3>2. t > 0 => h > 0 /\ t = adc.start + (0 - (-h)) * Intersample
      BY <1>3, <1>4
    <3>3. t > 0 => at # Now
      BY <1>6, <3>1, <3>2
    <3>4. t > 0 => at # Before
      <4>1. Before.time = 0
        BY <1>7, <2>2
      <4>2. at = Before => at.time = Before.time
        OBVIOUS
      <4> QED  BY <3>1, <4>1, <4>2
    <3>5. -h \in Int /\ -Batch <= -h /\ -h <= Batch
      BY <1>w, <2>2
    <3>6. t > 0 => at.time = adc.start + (at.head - (-h)) * Intersample
      BY <3>1, <3>2
    <3>7. t > 0 => at \notin {Now, Before}
      BY <3>3, <3>4
    <3> QED  BY <3>1, <3>5, <3>6, <3>7
  <2> QED  BY <2>1, <2>2
<1> QED  BY <1>9, <1>10, <1>11, <1>12 DEF Torn

(* The sample of a time: within one of it, and e besides.                  *)
LEMMA SampleIs ==
  ASSUME NEW t \in Nat, NEW at, at.head \in Nat, at.time \in Nat,
         NEW start \in Nat, NEW e \in Int, ReadAt(at.head, at.time, e, start)
  PROVE  \E v \in Int : /\ TimeToSample(t, at) = U64(v)
                        /\ SampleOf(v, t, at.time, e, start)
<1>w. Intersample \in Nat \ {0}
  BY Widths
<1>1. PICK h \in Nat, x \in Nat : h = at.head /\ x = at.time /\ x = start + (h - e) * Intersample
  BY DEF ReadAt
<1>2. CASE t > x
  <2>1. PICK m \in Int : /\ m = (t - x) \div Intersample
                         /\ Intersample * m <= t - x /\ t - x < Intersample * (m + 1)
    <3>1. t - x \in Int
      OBVIOUS
    <3> QED  BY <1>w, <3>1, DivBounds
  <2>2. TimeToSample(t, at) = U64(h + m)
    BY <1>1, <1>2, <2>1 DEF TimeToSample
  <2>3. Intersample * ((h + m) - e) = (h - e) * Intersample + Intersample * m
    BY <1>w
  <2>4. Intersample * (m + 1) = Intersample * m + Intersample /\ Intersample * m \in Int
        /\ (h - e) * Intersample \in Int /\ h + m \in Int
    BY <1>w
  <2>5. /\ Intersample * ((h + m) - e) > (t - start) - Intersample
        /\ Intersample * ((h + m) - e) < (t - start) + Intersample
        /\ Intersample * ((h + m) - e) <= t - start
    BY <1>w, <1>1, <2>1, <2>3, <2>4
  <2> QED  BY <1>1, <1>2, <2>2, <2>4, <2>5 DEF SampleOf
<1>3. CASE t <= x
  <2>1. PICK m \in Int : /\ m = (x - t) \div Intersample
                         /\ Intersample * m <= x - t /\ x - t < Intersample * (m + 1)
    <3>1. x - t \in Int
      OBVIOUS
    <3> QED  BY <1>w, <3>1, DivBounds
  <2>2. TimeToSample(t, at) = U64(h - m)
    BY <1>1, <1>3, <2>1 DEF TimeToSample
  <2>3. Intersample * ((h - m) - e) = (h - e) * Intersample - Intersample * m
    BY <1>w
  <2>4. Intersample * (m + 1) = Intersample * m + Intersample /\ Intersample * m \in Int
        /\ (h - e) * Intersample \in Int /\ h - m \in Int
    BY <1>w
  <2>5. /\ Intersample * ((h - m) - e) > (t - start) - Intersample
        /\ Intersample * ((h - m) - e) < (t - start) + Intersample
        /\ Intersample * ((h - m) - e) >= t - start
    BY <1>w, <1>1, <2>1, <2>3, <2>4
  <2> QED  BY <1>1, <1>3, <2>2, <2>4, <2>5 DEF SampleOf
<1> QED  BY <1>2, <1>3

(* The request as it is read; the end of its range is after the beginning. *)
LEMMA RequestIs ==
  ASSUME NEW r \in Requests
  PROVE  /\ r.low \in 0 .. Word - 1 /\ r.high \in 0 .. Word - 1
         /\ r.count \in Nat \ {0} /\ r.path \in Paths
         /\ r.low \in Nat /\ r.high \in Nat
         /\ Acceptable(r) => r.high > r.low
<1>1. r \in [given : SUBSET Parameter, low : 0 .. Word - 1,
              high : 0 .. Word - 1, count : Nat \ {0}, path : Paths]
  BY SnapshotsConstants DEF SnapshotsConstants
<1>2. /\ r.low \in 0 .. Word - 1 /\ r.high \in 0 .. Word - 1
      /\ r.count \in Nat \ {0} /\ r.path \in Paths
  BY <1>1
<1>3. r.low \in Nat /\ r.high \in Nat
  BY <1>2, Widths
<1>4. Acceptable(r) => r.high > r.low
  BY <1>3 DEF Acceptable, LastGiven
<1> QED  BY <1>2, <1>3, <1>4

(* To whole sweeps, up or down.                                            *)
LEMMA SweepsAre ==
  ASSUME NEW x \in Nat
  PROVE  /\ \E c \in Nat : /\ RoundDown(x) = NChannels * c
                           /\ NChannels * c <= x /\ x < NChannels * c + NChannels
         /\ \E c \in Nat : /\ RoundUp(x, NChannels) = NChannels * c
                           /\ x <= NChannels * c /\ NChannels * c < x + NChannels
<1>w. NChannels \in Nat \ {0}
  BY Widths
<1>1. PICK q \in Int, t \in Int : /\ 0 <= t /\ t < NChannels
                                  /\ x = NChannels * q + t /\ x % NChannels = t
  BY <1>w, ModParts
<1>2. q >= 0
  <2>1. q < 0 => NChannels * q <= -NChannels
    BY <1>w, <1>1
  <2> QED  BY <1>w, <1>1, <2>1
<1>3. PICK y \in Nat : y = NChannels * q
  BY <1>w, <1>1, <1>2
<1>4. RoundDown(x) = y
  BY <1>1, <1>3 DEF RoundDown
<1>5. q \in Nat /\ RoundDown(x) = NChannels * q /\ NChannels * q <= x
      /\ x < NChannels * q + NChannels
  BY <1>w, <1>1, <1>2, <1>3, <1>4
<1>6. PICK c \in Int : /\ c = CeilDiv(x, NChannels)
                       /\ NChannels * (c - 1) < x /\ x <= NChannels * c
  BY <1>w, CeilDivBounds
<1>7. RoundUp(x, NChannels) = NChannels * c
  BY <1>6 DEF RoundUp
<1>8. NChannels * (c - 1) = NChannels * c - NChannels /\ NChannels * c \in Int
  BY <1>w, <1>6
<1>9. c >= 0
  <2>1. c < 0 => NChannels * c <= -NChannels
    BY <1>w, <1>6
  <2> QED  BY <1>w, <1>6, <1>8, <2>1
<1>10. NChannels * c < x + NChannels
  BY <1>w, <1>6, <1>8
<1> QED  BY <1>5, <1>6, <1>7, <1>9, <1>10

(* The pages a range takes are few enough for an int.                      *)
LEMMA PageRoom ==
  ASSUME NEW n \in Nat, NEW x \in Nat, x * SampleBytes + 2 * PageBytes < Half,
         \/ n <= x + NChannels
         \/ n <= x + 2 * NChannels /\ \E c \in Nat : n = NChannels * c
  PROVE  \E m \in Nat : n * SampleBytes <= PageBytes * m /\ PageBytes * m < Half
<1>w. NChannels \in Nat \ {0} /\ PageBytes \in Nat \ {0} /\ SampleBytes \in Nat \ {0}
      /\ Half \in Nat
  BY Widths
<1>1. PICK k \in Nat \ {0} : PageBytes = (NChannels * SampleBytes) * k
  BY PageHolds
<1>2. PICK u \in Nat : u = NChannels * SampleBytes
  BY <1>w
<1>3. PICK y \in Nat : y = x * SampleBytes
  BY <1>w
<1>4. PICK z \in Nat : z = n * SampleBytes
  BY <1>w
<1>5. PICK m \in Int : /\ m = CeilDiv(z, PageBytes)
                       /\ PageBytes * (m - 1) < z /\ z <= PageBytes * m
  <2>1. z \in Int
    BY <1>4
  <2> QED  BY <1>w, <2>1, CeilDivBounds
<1>6. PageBytes * (m - 1) = PageBytes * m - PageBytes /\ PageBytes * m \in Int
  BY <1>w, <1>5
<1>7. m >= 0
  <2>1. m < 0 => PageBytes * m <= -PageBytes
    BY <1>w, <1>5
  <2> QED  BY <1>w, <1>5, <1>6, <2>1
<1>8. k * u >= u /\ (k >= 2 => k * u >= 2 * u)
  BY <1>1, <1>2
<1>9. PageBytes = k * u
  BY <1>1, <1>2
<1>10. CASE n <= x + NChannels
  <2>1. n * SampleBytes <= (x + NChannels) * SampleBytes
    BY <1>w, <1>10
  <2>2. z <= y + u
    BY <1>w, <1>2, <1>3, <1>4, <2>1
  <2>3. PageBytes * m < Half
    BY <1>w, <1>2, <1>3, <1>5, <1>6, <1>8, <1>9, <2>2
  <2> QED  BY <1>4, <1>5, <1>7, <2>3
<1>11. ASSUME n <= x + 2 * NChannels, NEW c \in Nat, n = NChannels * c
       PROVE  \E j \in Nat : n * SampleBytes <= PageBytes * j /\ PageBytes * j < Half
  <2>1. n * SampleBytes <= (x + 2 * NChannels) * SampleBytes
    BY <1>w, <1>11
  <2>2. z <= y + 2 * u
    BY <1>w, <1>2, <1>3, <1>4, <2>1
  <2>3. CASE k = 1
    <3>1. PageBytes = u
      BY <1>9, <1>2, <2>3
    <3>2. z = PageBytes * c
      BY <1>w, <1>2, <1>4, <1>11, <3>1
    <3>3. z < Half
      BY <1>w, <1>2, <1>3, <2>2, <3>1
    <3> QED  BY <1>4, <3>2, <3>3
  <2>4. CASE k >= 2
    <3>1. PageBytes >= 2 * u
      BY <1>8, <1>9, <2>4
    <3>2. PageBytes * m < Half
      BY <1>w, <1>2, <1>3, <1>5, <1>6, <2>2, <3>1
    <3> QED  BY <1>4, <1>5, <1>7, <3>2
  <2> QED  BY <1>1, <2>3, <2>4
<1> QED  BY <1>10, <1>11

(* The samples of a file that begins at f, for a range that ends at e.     *)
LEMMA RangeHolds ==
  ASSUME NEW f \in Nat, f < Word, NEW e \in Nat, f <= e, NEW m \in Nat,
         (e - f) * SampleBytes <= PageBytes * m, PageBytes * m < Half
  PROVE  FileSamples(FileBytes(U32(U64(U64(e) - f)))) >= e - f
<1>1. PICK n \in Nat : n = e - f
  OBVIOUS
<1>2. n * SampleBytes <= PageBytes * m
  BY <1>1
<1>3. n < Half
  <2>1. n <= n * SampleBytes
    BY Widths
  <2>2. n * SampleBytes \in Nat /\ PageBytes * m \in Nat
    BY Widths
  <2> QED  BY <1>2, <2>1, <2>2, Widths
<1>4. U64(U64(e) - f) = n
  <2>1. -f \in Int
    OBVIOUS
  <2>2. U64(U64(e) + (-f)) = U64(e + (-f))
    BY <2>1, WrapAdd
  <2>3. U64(e) \in Int
    BY WrapRange, Widths
  <2>4. U64(e) + (-f) = U64(e) - f /\ e + (-f) = n
    BY <1>1, <2>3
  <2>5. U64(n) = n
    BY <1>3, Widths, WrapIs
  <2> QED  BY <2>2, <2>4, <2>5
<1>5. U32(n) = n
  BY <1>3, Widths DEF U32
<1>6. FileSamples(FileBytes(n)) >= n
  BY <1>2, FileHolds
<1> QED  BY <1>1, <1>4, <1>5, <1>6

(* A time in the range of what the device could have sampled.              *)
LEMMA SampleFits ==
  ASSUME NEW t \in Nat, t < Word, NEW start \in Nat, start >= 2 * MaxHead * Intersample,
         NEW e \in Int, -Batch <= e, e <= Batch, NEW v \in Int,
         e # 0 => t >= start + (Batch + 2) * Intersample, t >= start,
         Intersample * (v - e) > (t - start) - Intersample,
         Intersample * (v - e) < (t - start) + Intersample
  PROVE  v \in Nat /\ v < Word
<1>w. Intersample \in Nat \ {0} /\ Batch \in Nat \ {0} /\ MaxHead \in Nat /\ Batch <= MaxHead
      /\ Word \in Nat \ {0}
  BY Widths
<1>1. PICK i \in Nat : i = Batch * Intersample
  BY <1>w
<1>2. PICK k \in Int : k = e * Intersample
  BY <1>w
<1>3. PICK z \in Int : z = Intersample * v
  BY <1>w
<1>4. Intersample * (v - e) = z - k
  BY <1>w, <1>2, <1>3
<1>5. -i <= k /\ k <= i
  BY <1>w, <1>1, <1>2
<1>6. (Batch + 2) * Intersample = i + 2 * Intersample
  BY <1>w, <1>1
<1>7. e = 0 => k = 0
  BY <1>2, <1>w
<1>8. z > -Intersample
  BY <1>w, <1>1, <1>4, <1>5, <1>6, <1>7
<1>9. v >= 0
  <2>1. v < 0 => Intersample * v <= -Intersample
    BY <1>w
  <2> QED  BY <1>3, <1>8, <1>w, <2>1
<1>10. start >= 2 * i /\ i >= Intersample
  <2>1. MaxHead * Intersample >= i
    BY <1>w, <1>1
  <2>2. 2 * MaxHead * Intersample = 2 * (MaxHead * Intersample) /\ MaxHead * Intersample \in Nat
    BY <1>w
  <2>3. i >= Intersample
    BY <1>w, <1>1
  <2> QED  BY <1>1, <2>1, <2>2, <2>3
<1>11. z < Word
  BY <1>w, <1>1, <1>4, <1>5, <1>10
<1>12. v <= Intersample * v
  BY <1>w, <1>9
<1> QED  BY <1>3, <1>9, <1>11, <1>12, <1>w

(* A time range, in samples: in order, and no longer than it should be.    *)
LEMMA RangeInSamples ==
  ASSUME NEW low \in Nat, NEW high \in Nat, low < high, NEW start \in Nat,
         NEW lt \in Nat, NEW ht \in Nat, lt <= ht, NEW lh \in Int, NEW hh \in Int,
         NEW el \in Int, NEW eh \in Int, el = 0 \/ eh = 0,
         ReadAt(lh, lt, el, start), ReadAt(hh, ht, eh, start),
         NEW vl \in Int, NEW vh \in Int,
         SampleOf(vl, low, lt, el, start), SampleOf(vh, high, ht, eh, start),
         (el # 0 \/ eh # 0) => (high - low) \div Intersample > 2 * Batch
  PROVE  vl <= vh /\ vh - vl <= (high - low) \div Intersample + 2 + Batch
<1>w. Intersample \in Nat \ {0} /\ Batch \in Nat \ {0}
  BY Widths
<1>1. PICK w \in Int : /\ w = (high - low) \div Intersample
                       /\ Intersample * w <= high - low /\ high - low < Intersample * (w + 1)
  <2>1. high - low \in Int
    OBVIOUS
  <2> QED  BY <1>w, <2>1, DivBounds
<1>2. Intersample * (w + 1) = Intersample * w + Intersample /\ Intersample * w \in Int
  BY <1>w
<1>3. PICK a \in Int, b \in Int : a = vl - el /\ b = vh - eh
  OBVIOUS
<1>4. PICK x \in Int, y \in Int : x = Intersample * a /\ y = Intersample * b
  BY <1>w, <1>3
<1>5. /\ x > (low - start) - Intersample /\ x < (low - start) + Intersample
      /\ low > lt => x <= low - start
      /\ y > (high - start) - Intersample /\ y < (high - start) + Intersample
      /\ high <= ht => y >= high - start
  BY <1>3, <1>4 DEF SampleOf
<1>6. y - x = Intersample * (b - a)
  BY <1>w, <1>4
<1>7. b - a < w + 3
  <2>1. y - x < (high - low) + 2 * Intersample
    BY <1>w, <1>5
  <2>2. Intersample * (w + 3) = Intersample * w + 3 * Intersample
    BY <1>w
  <2>3. Intersample * (b - a) < Intersample * (w + 3)
    BY <1>w, <1>1, <1>2, <1>6, <2>1, <2>2
  <2>4. b - a >= w + 3 => Intersample * (b - a) >= Intersample * (w + 3)
    BY <1>w
  <2> QED  BY <1>w, <2>3, <2>4
<1>8. b - a > w - 2
  <2>1. y - x > (high - low) - 2 * Intersample
    BY <1>w, <1>5
  <2>2. Intersample * (w - 2) = Intersample * w - 2 * Intersample
    BY <1>w
  <2>3. Intersample * (b - a) > Intersample * (w - 2)
    BY <1>w, <1>1, <1>2, <1>6, <2>1, <2>2
  <2>4. b - a <= w - 2 => Intersample * (b - a) <= Intersample * (w - 2)
    BY <1>w
  <2> QED  BY <1>w, <2>3, <2>4
<1>r. /\ -Batch <= el /\ el <= Batch /\ lt = start + (lh - el) * Intersample
      /\ -Batch <= eh /\ eh <= Batch /\ ht = start + (hh - eh) * Intersample
  BY DEF ReadAt
<1>9. vh - vl <= w + 2 + Batch
  BY <1>w, <1>r, <1>3, <1>7
<1>10. CASE el # 0 \/ eh # 0
  <2>1. w > 2 * Batch
    BY <1>1, <1>10
  <2>2. vl <= vh
    BY <1>w, <1>r, <1>3, <1>8, <2>1
  <2> QED  BY <1>1, <1>9, <2>2
<1>11. CASE el = 0 /\ eh = 0
  <2>1. a = vl /\ b = vh
    BY <1>3, <1>11
  <2>2. y - x > -Intersample => a <= b
    <3>1. b - a <= -1 => Intersample * (b - a) <= -Intersample
      BY <1>w
    <3> QED  BY <1>w, <1>6, <3>1
  <2>3. CASE low > lt \/ high <= ht
    <3>1. y - x > -Intersample
      BY <1>w, <1>5, <2>3
    <3> QED  BY <1>1, <1>9, <2>1, <2>2, <3>1
  <2>4. CASE low <= lt /\ high > ht
    <3>1. PICK p \in Int, q \in Int : p = Intersample * lh /\ q = Intersample * hh
      BY <1>w
    <3>2. lt = start + p /\ ht = start + q
      BY <1>w, <1>r, <1>11, <3>1
    <3>3. x < p + Intersample
      BY <1>w, <1>5, <2>4, <3>2
    <3>4. y > q - Intersample
      BY <1>w, <1>5, <2>4, <3>2
    <3>5. a <= lh
      <4>1. a >= lh + 1 => Intersample * a >= Intersample * (lh + 1)
        BY <1>w
      <4>2. Intersample * (lh + 1) = p + Intersample
        BY <1>w, <3>1
      <4> QED  BY <1>4, <3>3, <4>1, <4>2, <1>w
    <3>6. b >= hh
      <4>1. b <= hh - 1 => Intersample * b <= Intersample * (hh - 1)
        BY <1>w
      <4>2. Intersample * (hh - 1) = q - Intersample
        BY <1>w, <3>1
      <4> QED  BY <1>4, <3>4, <4>1, <4>2, <1>w
    <3>7. lh <= hh
      <4>1. p <= q
        BY <3>2
      <4>2. lh >= hh + 1 => Intersample * lh >= Intersample * (hh + 1)
        BY <1>w
      <4>3. Intersample * (hh + 1) = q + Intersample
        BY <1>w, <3>1
      <4> QED  BY <1>w, <3>1, <4>1, <4>2, <4>3
    <3> QED  BY <1>1, <1>9, <2>1, <3>5, <3>6, <3>7
  <2> QED  BY <2>3, <2>4
<1> QED  BY <1>10, <1>11

(* What is read of the ADC for a request.                                  *)
LEMMA TwoReadings ==
  ASSUME TypeOK, ClockOK, adc.run, NEW at \in Readings
  PROVE  /\ at[1] \in {Now, Before} \cup Torn /\ at[2] \in {Now, Before} \cup Torn
         /\ at[1] \in {Now, Before} \/ at[2] \in {Now, Before}
         /\ at[1].time \in Nat /\ at[2].time \in Nat
         /\ at[1].head \in Nat /\ at[2].head \in Nat
         /\ at[1].time <= at[2].time
<1>1. /\ at[1] \in {Now, Before} \cup Torn /\ at[2] \in {Now, Before} \cup Torn
      /\ at[1] \in {Now, Before} \/ at[2] \in {Now, Before}
      /\ at[1] = Before \/ at[2] = Now
  BY DEF Readings
<1>2. /\ at[1].time \in Nat /\ at[2].time \in Nat
      /\ at[1].head \in Nat /\ at[2].head \in Nat
  BY <1>1, ReadingIs
<1>3. Now.time \in Nat /\ Before.time \in Nat
  BY ReadingIs
<1>4. Before.time <= Now.time
  <2>1. adc.time \in Nat
    BY DEF TypeOK
  <2>2. Batch * Intersample \in Nat
    BY Widths
  <2>3. CASE adc.head > Batch
    BY <2>1, <2>2, <2>3 DEF Before, Now
  <2>4. CASE ~(adc.head > Batch)
    BY <2>1, <2>4 DEF Before, Now
  <2> QED  BY <2>3, <2>4
<1>5. \A x \in {Now, Before} \cup Torn : x.time = Now.time \/ x.time = Before.time
  BY DEF Torn, Now
<1>6. Now.time = adc.time
  BY DEF Now
<1>7. at[1].time <= at[2].time
  <2>1. at[1].time \in {Now.time, Before.time} /\ at[2].time \in {Now.time, Before.time}
    BY <1>1, <1>5
  <2>2. CASE at[1] = Before
    BY <1>3, <1>4, <2>1, <2>2
  <2>3. CASE at[2] = Now
    BY <1>3, <1>4, <2>1, <2>3
  <2> QED  BY <1>1, <2>2, <2>3
<1> QED  BY <1>1, <1>2, <1>7

(* A new descriptor.                                                       *)
LEMMA BuiltIs ==
  ASSUME IInv, NEW r \in Requests, Acceptable(r), NEW at \in Readings, NEW s,
         s = Built(r, at[1], at[2])
  PROVE  /\ s \in Snapshot /\ s.id = snaps + 1 /\ s.name = Named
         /\ s.pending = 0 /\ s.file = None /\ s.done = 0 /\ s.status = "PREPARE"
         /\ s.first = U64(s.want.first + 0 * s.samples) /\ Paged(s)
<1> DEFINE lo == at[1]
           hi == at[2]
           first == FirstSample(r, lo)
           n == U32(U64(LastSample(r, hi) - first))
           bytes == FileBytes(n)
           samples == FileSamples(bytes)
           last == U64(first + samples)
           want == [low |-> r.low, high |-> r.high, first |-> first,
                    timed |-> "begin" \in r.given, start |-> adc.start,
                    live |-> "begin" \in r.given /\ lo.time > 0 /\ hi.time > 0,
                    torn |-> "begin" \in r.given /\ {lo, hi} \ {Now, Before} # {}]
<1>1. TypeOK /\ ClockOK /\ adc.run
  BY DEF IInv, Acceptable
<1>2. lo.time \in Nat /\ hi.time \in Nat /\ lo.head \in Nat /\ hi.head \in Nat
  BY <1>1, TwoReadings
<1>3. r.low \in 0 .. Word - 1 /\ r.high \in 0 .. Word - 1 /\ r.count \in Nat \ {0}
      /\ r.path \in Paths /\ r.low \in Nat /\ r.high \in Nat
  BY RequestIs
<1>4. \A t \in Nat : \A x : x.time \in Nat /\ x.head \in Nat =>
         TimeToSample(t, x) \in 0 .. Word - 1 /\ TimeToSample(t, x) \in Nat
  <2> SUFFICES ASSUME NEW t \in Nat, NEW x, x.time \in Nat, x.head \in Nat
               PROVE  TimeToSample(t, x) \in 0 .. Word - 1 /\ TimeToSample(t, x) \in Nat
    OBVIOUS
  <2>1. /\ x.head + (t - x.time) \div Intersample \in Int
        /\ x.head - (x.time - t) \div Intersample \in Int
    <3>1. (t - x.time) \div Intersample \in Int
      <4>1. t - x.time \in Int /\ Intersample \in Nat \ {0}
        BY Widths
      <4> QED  BY <4>1, DivBounds
    <3>2. (x.time - t) \div Intersample \in Int
      <4>1. x.time - t \in Int /\ Intersample \in Nat \ {0}
        BY Widths
      <4> QED  BY <4>1, DivBounds
    <3> QED  BY <3>1, <3>2
  <2> QED  BY <2>1, WrapRange DEF TimeToSample
<1>5. first \in 0 .. Word - 1 /\ first \in Nat
  <2>1. CASE "begin" \in r.given
    <3>1. PICK x \in Nat : x = TimeToSample(r.low, lo) /\ x \in 0 .. Word - 1
      BY <1>2, <1>3, <1>4
    <3>2. PICK c \in Nat : RoundDown(x) = NChannels * c /\ NChannels * c <= x
      BY SweepsAre
    <3>3. NChannels * c \in Nat
      BY Widths
    <3>4. first = NChannels * c
      BY <2>1, <3>1, <3>2 DEF FirstSample
    <3> QED  BY <3>1, <3>2, <3>3, <3>4, Widths
  <2>2. CASE "begin" \notin r.given
    BY <1>3, <2>2 DEF FirstSample
  <2> QED  BY <2>1, <2>2
<1>6. n \in Nat
  <2>1. LastSample(r, hi) \in Int
    <3>1. \A x \in Nat : RoundUp(x, NChannels) \in Int
      BY SweepsAre, Widths
    <3>2. TimeToSample(r.high, hi) \in Nat
      BY <1>2, <1>3, <1>4
    <3>3. \A x \in Int : U64(x) \in Int
      BY WrapRange, Widths
    <3> QED  BY <1>3, <3>1, <3>2, <3>3 DEF LastSample
  <2>2. LastSample(r, hi) - first \in Int
    BY <1>5, <2>1
  <2>3. U64(LastSample(r, hi) - first) \in Nat
    BY <2>2, WrapRange
  <2> HIDE DEF first
  <2>4. \A x \in Nat : U32(x) \in Nat
    BY Widths DEF U32
  <2> QED  BY <2>3, <2>4
<1> HIDE DEF n
<1>7. /\ bytes \in -Half .. Half - 1 /\ samples \in 0 .. 2 * Half - 1
      /\ bytes > 0 => bytes % PageBytes = 0 /\ bytes = samples * SampleBytes
  BY <1>6, FileBytesIs, Widths
<1>8. samples \in Nat /\ bytes \in Int
  BY <1>7, Widths
<1> HIDE DEF first, bytes, samples
<1>9. last \in 0 .. Word - 1
  BY <1>5, <1>8, WrapRange
<1>10. Named \in 1 .. NameMod - 1 /\ adc.start \in Nat /\ snaps + 1 \in Nat
       /\ cwd \in Dirs \cup {None}
  BY <1>1, Widths DEF TypeOK, Named
<1>11. want \in Wish
  <2>1. want.timed \in BOOLEAN /\ want.live \in BOOLEAN /\ want.torn \in BOOLEAN
    OBVIOUS
  <2> QED  BY <1>3, <1>5, <1>10, <2>1 DEF Wish
<1> HIDE DEF last
<1>12. s = [id |-> snaps + 1, name |-> Named, first |-> first, last |-> last,
            samples |-> samples, bytes |-> bytes,
            count |-> IF "count" \in r.given THEN r.count ELSE 1,
            pending |-> 0, done |-> 0, status |-> "PREPARE", file |-> None,
            dir |-> <<cwd, r.path>>, want |-> want]
  BY DEF Built, first, last, samples, bytes, n
<1> HIDE DEF want
<1>13. (IF "count" \in r.given THEN r.count ELSE 1) \in Nat \ {0}
  BY <1>3
<1>14. 0 \in 0 .. 1 /\ 0 \in Nat
  OBVIOUS
<1>15. s \in Snapshot
  <2>1. <<cwd, r.path>> \in (Dirs \cup {None}) \X Paths
    BY <1>3, <1>10
  <2> HIDE DEF lo, hi
  <2> QED  BY <1>3, <1>5, <1>7, <1>9, <1>10, <1>11, <1>12, <1>13, <1>14, <2>1 DEF Snapshot, Status
<1>16. s.want.first = first /\ s.first = first
  BY <1>12 DEF want
<1>17. s.first = U64(s.want.first + 0 * s.samples)
  <2>1. s.samples = samples
    BY <1>12
  <2>2. first + 0 * samples = first
    BY <1>5, <1>8
  <2>3. U64(first) = first
    BY <1>5, Widths, WrapIs
  <2> QED  BY <1>16, <2>1, <2>2, <2>3
<1>18. Paged(s)
  BY <1>7, <1>12 DEF Paged
<1> QED  BY <1>12, <1>15, <1>17, <1>18

(* The beginning and the end of a range that was given in samples.         *)
LEMMA SamplesCovered ==
  ASSUME IInv, NEW r \in Requests, Acceptable(r), NEW at \in Readings, NEW s,
         s = Built(r, at[1], at[2]), "begin" \notin r.given
  PROVE  Fits(s) => Covered(s)
<1> SUFFICES ASSUME Fits(s) PROVE Covered(s)
  OBVIOUS
<1>1. r.low \in Nat /\ r.high \in Nat /\ r.high > r.low /\ r.low < Word
  BY RequestIs, Widths
<1>2. PICK l \in Nat, h \in Nat : l = r.low /\ h = r.high
  BY <1>1
<1>3. /\ ~s.want.timed /\ s.want.low = l /\ s.want.high = h /\ s.want.first = l
      /\ s.samples = FileSamples(FileBytes(U32(U64(U64(RoundUp(h, NChannels)) - l))))
  <2>1. FirstSample(r, at[1]) = l /\ LastSample(r, at[2]) = U64(RoundUp(h, NChannels))
    BY <1>2 DEF FirstSample, LastSample
  <2>2. /\ s.want.timed = ("begin" \in r.given) /\ s.want.low = r.low /\ s.want.high = r.high
        /\ s.want.first = FirstSample(r, at[1])
        /\ s.samples = FileSamples(FileBytes(U32(U64(LastSample(r, at[2]) - FirstSample(r, at[1])))))
    BY DEF Built
  <2>3. ~s.want.timed
    BY <2>2
  <2> QED  BY <1>2, <2>1, <2>2, <2>3
<1>4. PICK c \in Nat : /\ RoundUp(h, NChannels) = NChannels * c
                       /\ h <= NChannels * c /\ NChannels * c < h + NChannels
  BY SweepsAre
<1>5. PICK e \in Nat : e = NChannels * c
  BY <1>4, Widths
<1>6. PICK x \in Nat : x = (h - l) + 2 * Batch
  BY <1>1, <1>2, Widths
<1>7. x * SampleBytes + 2 * PageBytes < Half
  <2>1. Wanted(s) = h - l
    BY <1>3 DEF Wanted
  <2> QED  BY <1>6, <2>1 DEF Fits
<1>8. PICK n \in Nat : n = e - l
  BY <1>1, <1>2, <1>4, <1>5
<1>9. n <= x + NChannels
  BY <1>4, <1>5, <1>6, <1>8, Widths
<1>10. PICK m \in Nat : n * SampleBytes <= PageBytes * m /\ PageBytes * m < Half
  BY <1>7, <1>9, PageRoom
<1>11. s.samples >= e - l
  <2>1. l <= e /\ l < Word
    BY <1>1, <1>2, <1>4, <1>5
  <2>2. (e - l) * SampleBytes <= PageBytes * m
    BY <1>8, <1>10
  <2>3. FileSamples(FileBytes(U32(U64(U64(e) - l)))) >= e - l
    BY <1>10, <2>1, <2>2, RangeHolds
  <2> QED  BY <1>3, <1>4, <1>5, <2>3
<1>12. s.samples \in Nat
  <2>1. s \in Snapshot
    BY BuiltIs
  <2> QED  BY <2>1, Widths DEF Snapshot
<1>13. s.want.first + s.samples >= s.want.high
  BY <1>3, <1>4, <1>5, <1>11, <1>12
<1> QED  BY <1>3, <1>13 DEF Covered

(* The same of a range that was given in times.                            *)
LEMMA TimesCovered ==
  ASSUME IInv, NEW r \in Requests, Acceptable(r), NEW at \in Readings, NEW s,
         s = Built(r, at[1], at[2]), "begin" \in r.given
  PROVE  Fits(s) => Covered(s)
<1> DEFINE lo == at[1]
           hi == at[2]
           off == (IF s.want.torn THEN Batch + 2 ELSE 2) * Intersample
<1>1. PICK l \in Nat, h \in Nat : l = r.low /\ h = r.high /\ l < h /\ l < Word /\ h < Word
  BY RequestIs, Widths
<1>2. /\ s.want.timed = TRUE /\ s.want.low = l /\ s.want.high = h
      /\ s.want.start = adc.start
      /\ s.want.live = (lo.time > 0 /\ hi.time > 0)
      /\ s.want.torn = ({lo, hi} \ {Now, Before} # {})
      /\ s.want.first = FirstSample(r, lo)
      /\ s.samples = FileSamples(FileBytes(U32(U64(LastSample(r, hi) - FirstSample(r, lo)))))
  BY <1>1 DEF Built
<1> SUFFICES ASSUME Fits(s), s.want.live,
                    s.want.low >= s.want.start + (IF s.want.torn THEN off ELSE 0),
                    s.want.torn => Wanted(s) > 2 * Batch
             PROVE  /\ TimeOf(s, s.want.first) < s.want.low + off
                    /\ TimeOf(s, s.want.first + s.samples) > s.want.high - off
  BY <1>2, Zenon DEF Covered
<1>w. /\ Intersample \in Nat \ {0} /\ Batch \in Nat \ {0} /\ NChannels \in Nat \ {0}
      /\ SampleBytes \in Nat \ {0} /\ PageBytes \in Nat \ {0}
  BY Widths
<1>3. TypeOK /\ ClockOK /\ adc.run
  BY DEF IInv, Acceptable
<1>4. PICK start \in Nat : start = adc.start /\ start >= 2 * MaxHead * Intersample
  BY <1>3 DEF TypeOK, ClockOK
<1>5. /\ lo \in {Now, Before} \cup Torn /\ hi \in {Now, Before} \cup Torn
      /\ lo \in {Now, Before} \/ hi \in {Now, Before}
      /\ lo.time \in Nat /\ hi.time \in Nat /\ lo.head \in Nat /\ hi.head \in Nat
      /\ lo.time <= hi.time
  BY <1>3, TwoReadings
<1>6. PICK el \in Int : /\ -Batch <= el /\ el <= Batch
                        /\ lo.time = adc.start + (lo.head - el) * Intersample
                        /\ lo \in {Now, Before} => el = 0
  BY <1>2, <1>3, <1>5, ReadingIs
<1>7. PICK eh \in Int : /\ -Batch <= eh /\ eh <= Batch
                        /\ hi.time = adc.start + (hi.head - eh) * Intersample
                        /\ hi \in {Now, Before} => eh = 0
  BY <1>2, <1>3, <1>5, ReadingIs
<1>8. (el # 0 \/ eh # 0) => s.want.torn
  BY <1>2, <1>6, <1>7
<1>9. el = 0 \/ eh = 0
  BY <1>5, <1>6, <1>7
<1>a. ReadAt(lo.head, lo.time, el, start) /\ ReadAt(hi.head, hi.time, eh, start)
  BY <1>4, <1>6, <1>7 DEF ReadAt
<1>10. PICK vl \in Int : /\ TimeToSample(l, lo) = U64(vl)
                         /\ SampleOf(vl, l, lo.time, el, start)
  <2> HIDE DEF lo
  <2> QED  BY <1>5, <1>a, SampleIs
<1>11. PICK vh \in Int : /\ TimeToSample(h, hi) = U64(vh)
                         /\ SampleOf(vh, h, hi.time, eh, start)
  <2> HIDE DEF hi
  <2> QED  BY <1>5, <1>a, SampleIs
<1>b. /\ Intersample * (vl - el) > (l - start) - Intersample
      /\ Intersample * (vl - el) < (l - start) + Intersample
      /\ Intersample * (vh - eh) > (h - start) - Intersample
      /\ Intersample * (vh - eh) < (h - start) + Intersample
  BY <1>10, <1>11 DEF SampleOf
<1>12. PICK lt \in Nat, ht \in Nat, lh \in Int, hh \in Int :
         lt = lo.time /\ ht = hi.time /\ lh = lo.head /\ hh = hi.head
  <2>1. lo.head \in Int /\ hi.head \in Int
    BY <1>5
  <2> QED  BY <1>5, <2>1
<1> HIDE DEF lo, hi
<1>13. l >= start /\ (s.want.torn => l >= start + (Batch + 2) * Intersample)
  <2>1. (Batch + 2) * Intersample \in Nat
    BY <1>w
  <2> QED  BY <1>2, <1>4, <2>1
<1>14. s.want.torn => (h - l) \div Intersample > 2 * Batch
  BY <1>2 DEF Wanted
<1>15. vl \in Nat /\ vl < Word
  <2>1. el # 0 => l >= start + (Batch + 2) * Intersample
    BY <1>8, <1>13
  <2> QED  BY <1>1, <1>4, <1>6, <1>b, <1>13, <2>1, SampleFits
<1>16. vh \in Nat /\ vh < Word
  <2>1. eh # 0 => h >= start + (Batch + 2) * Intersample
    <3>1. (Batch + 2) * Intersample \in Nat
      BY <1>w
    <3> QED  BY <1>1, <1>8, <1>13, <3>1
  <2>2. h >= start
    BY <1>1, <1>13
  <2> QED  BY <1>1, <1>4, <1>7, <1>b, <2>1, <2>2, SampleFits
<1>17. PICK w \in Int : w = (h - l) \div Intersample /\ w >= 0
  <2>1. h - l \in Int
    OBVIOUS
  <2>2. PICK w \in Int : /\ w = (h - l) \div Intersample
                         /\ h - l < Intersample * (w + 1)
    BY <1>w, <2>1, DivBounds
  <2>3. w < 0 => Intersample * (w + 1) <= 0
    BY <1>w
  <2>4. Intersample * (w + 1) \in Int
    BY <1>w
  <2> QED  BY <1>1, <2>2, <2>3, <2>4
<1>18. vl <= vh /\ vh - vl <= w + 2 + Batch
  <2>1. lt <= ht /\ ReadAt(lh, lt, el, start) /\ ReadAt(hh, ht, eh, start)
    BY <1>5, <1>a, <1>12
  <2>2. SampleOf(vl, l, lt, el, start) /\ SampleOf(vh, h, ht, eh, start)
    BY <1>10, <1>11, <1>12
  <2>3. (el # 0 \/ eh # 0) => (h - l) \div Intersample > 2 * Batch
    BY <1>8, <1>14
  <2>4. vl <= vh /\ vh - vl <= (h - l) \div Intersample + 2 + Batch
    BY <1>1, <1>9, <2>1, <2>2, <2>3, RangeInSamples
  <2> QED  BY <1>17, <2>4
<1>19. PICK a \in Nat : /\ RoundDown(vl) = NChannels * a
                        /\ NChannels * a <= vl /\ vl < NChannels * a + NChannels
  BY <1>15, SweepsAre
<1>20. PICK b \in Nat : /\ RoundUp(vh, NChannels) = NChannels * b
                        /\ vh <= NChannels * b /\ NChannels * b < vh + NChannels
  BY <1>16, SweepsAre
<1>21. PICK f \in Nat, e \in Nat : f = NChannels * a /\ e = NChannels * b
  BY <1>w
<1>22. FirstSample(r, lo) = f
  <2>1. U64(vl) = vl
    BY <1>15, WrapIs
  <2> QED  BY <1>1, <1>10, <1>19, <1>21, <2>1 DEF FirstSample
<1>23. LastSample(r, hi) = U64(e)
  <2>1. U64(vh) = vh
    BY <1>16, WrapIs
  <2> QED  BY <1>1, <1>11, <1>20, <1>21, <2>1 DEF LastSample
<1>24. f <= e /\ f < Word /\ e - f <= w + 2 * Batch + 2 * NChannels
  <2>1. f <= vl /\ vl < f + NChannels /\ vh <= e /\ e < vh + NChannels
    BY <1>19, <1>20, <1>21
  <2> QED  BY <1>w, <1>15, <1>17, <1>18, <2>1, Widths
<1>25. PICK x \in Nat : x = w + 2 * Batch
  BY <1>w, <1>17
<1>26. x * SampleBytes + 2 * PageBytes < Half
  <2>1. Wanted(s) = w
    BY <1>2, <1>17 DEF Wanted
  <2> QED  BY <1>25, <2>1 DEF Fits
<1>27. PICK n \in Nat : n = e - f
  BY <1>24
<1>28. n <= x + 2 * NChannels /\ \E c \in Nat : n = NChannels * c
  <2>1. n = NChannels * (b - a)
    BY <1>w, <1>21, <1>27
  <2>2. b - a >= 0
    <3>1. b - a < 0 => NChannels * (b - a) <= -NChannels
      BY <1>w
    <3> QED  BY <1>w, <1>27, <2>1, <3>1
  <2>3. b - a \in Nat
    BY <2>2
  <2>4. n <= x + 2 * NChannels
    BY <1>24, <1>25, <1>27, <1>w
  <2> QED  BY <2>1, <2>3, <2>4
<1>29. PICK m \in Nat : n * SampleBytes <= PageBytes * m /\ PageBytes * m < Half
  BY <1>26, <1>28, PageRoom
<1>30. s.samples >= e - f
  <2>1. (e - f) * SampleBytes <= PageBytes * m
    BY <1>27, <1>29
  <2>2. FileSamples(FileBytes(U32(U64(U64(e) - f)))) >= e - f
    BY <1>24, <1>29, <2>1, RangeHolds
  <2> QED  BY <1>2, <1>22, <1>23, <2>2
<1>31. s.samples \in Nat
  <2>1. s \in Snapshot
    BY BuiltIs
  <2> QED  BY <2>1, Widths DEF Snapshot
<1>32. off = IF s.want.torn THEN Batch * Intersample + 2 * Intersample ELSE 2 * Intersample
  BY <1>w
<1> HIDE DEF off
<1>33. PICK d \in Nat : d = Batch * Intersample
  BY <1>w
<1>34. /\ Intersample * (vl - el) = Intersample * vl - Intersample * el
       /\ Intersample * (vh - eh) = Intersample * vh - Intersample * eh
       /\ Intersample * vl \in Int /\ Intersample * vh \in Int
       /\ Intersample * el <= (IF s.want.torn THEN d ELSE 0) /\ Intersample * el \in Int
       /\ Intersample * eh >= -(IF s.want.torn THEN d ELSE 0) /\ Intersample * eh \in Int
  <2>1. Intersample * el <= d /\ Intersample * eh >= -d
    BY <1>w, <1>6, <1>7, <1>33
  <2>2. ~s.want.torn => el = 0 /\ eh = 0
    BY <1>8
  <2> QED  BY <1>w, <1>33, <2>1, <2>2
<1>35. TimeOf(s, s.want.first) < s.want.low + off
  <2>1. f * Intersample <= Intersample * vl /\ f * Intersample \in Nat
    BY <1>w, <1>19, <1>21
  <2>2. start + f * Intersample < l + off
    BY <1>w, <1>b, <1>32, <1>33, <1>34, <2>1
  <2> QED  BY <1>2, <1>4, <1>22, <2>2 DEF TimeOf
<1>36. TimeOf(s, s.want.first + s.samples) > s.want.high - off
  <2>1. PICK z \in Nat : z = f + s.samples /\ z >= vh
    <3>1. f + s.samples >= e
      BY <1>30, <1>31
    <3> QED  BY <1>20, <1>21, <1>31, <3>1
  <2>2. z * Intersample >= Intersample * vh /\ z * Intersample \in Nat
    BY <1>w, <2>1
  <2>3. start + z * Intersample > h - off
    BY <1>w, <1>b, <1>32, <1>33, <1>34, <2>2
  <2> QED  BY <1>2, <1>4, <1>22, <2>1, <2>3 DEF TimeOf
<1> QED  BY <1>35, <1>36

(* The next name is one further, or the first again after the last.        *)
LEMMA NextNamed ==
  ASSUME TypeOK, snap_counter' = NextCounter
  PROVE  /\ snap_counter' \in 0 .. NameMod - 1
         /\ \E b \in 0 .. 1 : Named' = (Named + 1) - (NameMod - 1) * b
<1>1. Named \in 1 .. NameMod - 1 /\ NameMod \in Nat /\ NameMod > 1
  BY Widths DEF TypeOK, Named
<1>2. PICK x \in Nat : x = Named /\ 1 <= x /\ x < NameMod
  BY <1>1
<1>3. CASE x + 1 < NameMod
  <2>1. (x + 1) % NameMod = x + 1
    BY <1>1, <1>3
  <2>2. snap_counter' = x + 1
    BY <1>2, <2>1 DEF NextCounter
  <2>3. Named' = x + 1
    BY <1>2, <2>2 DEF Named
  <2>4. Named' = (Named + 1) - (NameMod - 1) * 0
    BY <1>1, <1>2, <2>3
  <2> QED  BY <1>1, <1>2, <1>3, <2>2, <2>4
<1>4. CASE x + 1 = NameMod
  <2>1. (x + 1) % NameMod = 0
    BY <1>1, <1>4
  <2>2. snap_counter' = 0
    BY <1>2, <2>1 DEF NextCounter
  <2>3. Named' = 1
    BY <2>2 DEF Named
  <2>4. Named' = (Named + 1) - (NameMod - 1) * 1
    BY <1>1, <1>2, <1>4, <2>3
  <2> QED  BY <1>1, <2>2, <2>4
<1> QED  BY <1>1, <1>2, <1>3, <1>4

(* A name that is in turn stays in turn when the next is taken.            *)
LEMMA StaysInTurn ==
  ASSUME NEW d \in Int, NEW n \in Int, NEW i \in Int, NEW b \in 0 .. 1,
         (d - (n - i)) % (NameMod - 1) = 0
  PROVE  (d - (((n + 1) - (NameMod - 1) * b) - (i + 1))) % (NameMod - 1) = 0
<1>1. PICK m \in Nat \ {0} : m = NameMod - 1
  BY Widths
<1>2. PICK a \in Int : a = d - (n - i)
  OBVIOUS
<1>3. PICK c \in Int : c = m * b
  OBVIOUS
<1>4. d - (((n + 1) - m * b) - (i + 1)) = a + m * b
  BY <1>2, <1>3
<1>5. (a + m * b) % m = a % m
  <2>1. b \in Int
    OBVIOUS
  <2> QED  BY <2>1, ModShift
<1> QED  BY <1>1, <1>2, <1>4, <1>5

(* After a Snap the names are in turn for the next one, and so is the one  *)
(* taken.                                                                  *)
LEMMA TurnIs ==
  ASSUME TypeOK, NamesInTurn, snap_counter' = NextCounter, snaps' = snaps + 1
  PROVE  /\ \A i \in DOMAIN snapQ :
              ((snapQ[i].name - snapQ[i].id) - (Named' - (snaps' + 1))) % (NameMod - 1) = 0
         /\ ((Named - (snaps + 1)) - (Named' - (snaps' + 1))) % (NameMod - 1) = 0
<1>1. Named \in Int /\ snaps + 1 \in Int /\ snapQ \in Seq(Snapshot)
  BY Widths DEF TypeOK, Named
<1>2. PICK b \in 0 .. 1 : Named' = (Named + 1) - (NameMod - 1) * b
  BY NextNamed
<1>3. PICK n \in Int, i \in Int : n = Named /\ i = snaps + 1
  BY <1>1
<1>4. Named' - (snaps' + 1) = ((n + 1) - (NameMod - 1) * b) - (i + 1)
  BY <1>2, <1>3
<1>5. ASSUME NEW j \in DOMAIN snapQ
      PROVE  ((snapQ[j].name - snapQ[j].id) - (Named' - (snaps' + 1))) % (NameMod - 1) = 0
  <2>1. snapQ[j] \in Snapshot
    BY <1>1, QueueIs
  <2>2. snapQ[j].name - snapQ[j].id \in Int
    BY <2>1, Widths DEF Snapshot
  <2>3. ((snapQ[j].name - snapQ[j].id) - (n - i)) % (NameMod - 1) = 0
    BY <1>3 DEF NamesInTurn
  <2>4. PICK d \in Int : d = snapQ[j].name - snapQ[j].id
    BY <2>2
  <2>5. (d - (((n + 1) - (NameMod - 1) * b) - (i + 1))) % (NameMod - 1) = 0
    BY <2>3, <2>4, StaysInTurn
  <2> QED  BY <1>4, <2>4, <2>5
<1>6. ((Named - (snaps + 1)) - (Named' - (snaps' + 1))) % (NameMod - 1) = 0
  <2>1. PICK d \in Int : d = n - i
    OBVIOUS
  <2>2. (d - (n - i)) % (NameMod - 1) = 0
    <3>1. d - (n - i) = (NameMod - 1) * 0 + 0 /\ NameMod - 1 \in Nat \ {0}
          /\ d - (n - i) \in Int
      BY <2>1, Widths
    <3> QED  BY <3>1, Widths, ModIs
  <2>3. (d - (((n + 1) - (NameMod - 1) * b) - (i + 1))) % (NameMod - 1) = 0
    BY <2>2, StaysInTurn
  <2> QED  BY <1>3, <1>4, <2>1, <2>3
<1> QED  BY <1>5, <1>6

(* A Snap that is rejected: only the number and the name are gone.         *)
LEMMA SnapRejectedKeeps ==
  ASSUME IInv, NEW r \in Requests, Snap(r), SnapRejected(r) PROVE IInv'
<1>0. /\ w_chunksize' = w_chunksize /\ now' = now /\ adc' = adc /\ capture' = capture
      /\ cwd' = cwd /\ disk' = disk /\ told' = told /\ snapQ' = snapQ
      /\ wp_nfiles' = wp_nfiles /\ accepted' = accepted
      /\ snaps' = snaps + 1 /\ snap_counter' = NextCounter
  BY DEF Snap, SnapRejected, adcVars
<1>1. /\ TypeOK /\ FilesPaged /\ FilesInOrder /\ FilesCounted /\ NumbersDiffer
      /\ NamesInTurn /\ ClockOK /\ ReportedOnce /\ RangeIsCovered
  BY DEF IInv
<1>2. TypeOK'
  <2>1. snap_counter' \in 0 .. NameMod - 1
    BY <1>0, <1>1, NextNamed
  <2>2. snaps' \in Nat /\ accepted \subseteq 1 .. snaps'
    BY <1>0, <1>1 DEF TypeOK
  <2> QED  BY <1>0, <1>1, <2>1, <2>2, Zenon DEF TypeOK
<1>3. FilesPaged' /\ FilesInOrder' /\ ReportedOnce' /\ RangeIsCovered' /\ ClockOK'
  BY <1>0, <1>1, Zenon DEF FilesPaged, FilesInOrder, ReportedOnce, RangeIsCovered, ClockOK, All
<1>4. NumbersDiffer'
  <2>1. \A i \in DOMAIN snapQ : snapQ[i].id \in 1 .. snaps'
    BY <1>0, <1>1 DEF NumbersDiffer, TypeOK
  <2> QED  BY <1>0, <1>1, <2>1, Zenon DEF NumbersDiffer
<1>5. NamesInTurn'
  <2>1. \A i \in DOMAIN snapQ :
           ((snapQ[i].name - snapQ[i].id) - (Named' - (snaps' + 1))) % (NameMod - 1) = 0
    BY <1>0, <1>1, TurnIs
  <2> QED  BY <1>0, <2>1 DEF NamesInTurn
<1>6. FilesCounted'
  BY <1>0, <1>1 DEF FilesCounted, InProgress
<1> QED  BY <1>2, <1>3, <1>4, <1>5, <1>6 DEF IInv

(* A Snap that is accepted: a snapshot in front of the queue.              *)
LEMMA SnapAcceptedKeeps ==
  ASSUME IInv, NEW r \in Requests, Snap(r), SnapAccepted(r) PROVE IInv'
<1>0. /\ w_chunksize' = w_chunksize /\ now' = now /\ adc' = adc /\ capture' = capture
      /\ cwd' = cwd /\ disk' = disk /\ told' = told
      /\ snaps' = snaps + 1 /\ snap_counter' = NextCounter
      /\ accepted' = accepted \cup {snaps + 1}
  BY DEF Snap, SnapAccepted, adcVars
<1>1. /\ TypeOK /\ FilesPaged /\ FilesInOrder /\ FilesCounted /\ NumbersDiffer
      /\ NamesInTurn /\ ClockOK /\ Reported /\ RangeIsCovered
  BY ReportedIs DEF IInv
<1>a. Acceptable(r)
  BY DEF SnapAccepted
<1>b. PICK at \in Readings : \E s \in Refreshed(Built(r, at[1], at[2])) :
        snapQ' = <<s>> \o snapQ /\ wp_nfiles' = wp_nfiles + s.pending
  BY DEF SnapAccepted
<1>2. PICK s \in Refreshed(Built(r, at[1], at[2])) :
        snapQ' = <<s>> \o snapQ /\ wp_nfiles' = wp_nfiles + s.pending
  BY <1>b
<1>3. PICK b : b = Built(r, at[1], at[2])
  OBVIOUS
<1>4. /\ b \in Snapshot /\ b.id = snaps + 1 /\ b.name = Named
      /\ b.pending = 0 /\ b.file = None /\ b.done = 0 /\ b.status = "PREPARE"
      /\ b.first = U64(b.want.first + 0 * b.samples) /\ Paged(b)
  BY <1>a, <1>3, BuiltIs, Zenon
<1>5. Fits(b) => Covered(b)
  BY <1>a, <1>3, SamplesCovered, TimesCovered, Zenon
<1>6. s \in Snapshot /\ SameSnapshot(s, b) /\ Paged(s) /\ Progress(s, disk)
  <2>1. b.done <= b.count
    BY <1>4 DEF Snapshot
  <2>2. \A k \in 0 .. b.done - 1 : FileOf(b, k) \in disk
    BY <1>4
  <2>3. b.first = U64(b.want.first + b.done * b.samples)
    BY <1>4, Zenon
  <2>4. b.status \in {"PREPARE", "WRITING", "ERROR"}
    BY <1>4
  <2>5. s \in Refreshed(b)
    BY <1>2, <1>3, Zenon
  <2> QED  BY <1>4, <2>1, <2>2, <2>3, <2>4, <2>5, RefreshedIs, Zenon
<1>7. s.id = snaps + 1 /\ s.name = Named /\ (Fits(s) => Covered(s))
  BY <1>4, <1>5, <1>6, CoversAlike, Zenon DEF SameSnapshot
<1>8. snapQ \in Seq(Snapshot) /\ Len(snapQ) \in Nat /\ DOMAIN snapQ = 1 .. Len(snapQ)
  BY <1>1, QueueIs DEF TypeOK
<1>9. /\ snapQ' \in Seq(Snapshot) /\ Len(snapQ') = Len(snapQ) + 1
      /\ DOMAIN snapQ' = 1 .. Len(snapQ) + 1
      /\ snapQ'[1] = s
      /\ \A i \in DOMAIN snapQ : snapQ'[i + 1] = snapQ[i]
  <2>1. <<s>> \in Seq(Snapshot)
    BY <1>6
  <2> QED  BY <1>2, <1>8, <2>1
<1>10. /\ \A i \in DOMAIN snapQ' : i = 1 \/ (i - 1 \in DOMAIN snapQ /\ snapQ'[i] = snapQ[i - 1])
       /\ \A i \in DOMAIN snapQ : i + 1 \in DOMAIN snapQ'
       /\ 1 \in DOMAIN snapQ'
  <2>1. \A i \in DOMAIN snapQ' : i # 1 => i - 1 \in DOMAIN snapQ /\ i = (i - 1) + 1
    BY <1>8, <1>9
  <2>2. \A i \in DOMAIN snapQ' : i # 1 => snapQ'[i] = snapQ[i - 1]
    BY <1>9, <2>1, Zenon
  <2>3. /\ \A i \in DOMAIN snapQ : i + 1 \in DOMAIN snapQ'
        /\ 1 \in DOMAIN snapQ'
    BY <1>8, <1>9
  <2> QED  BY <2>1, <2>2, <2>3, Zenon
<1>11. snaps \in Nat
  BY <1>1 DEF TypeOK
<1>12. FilesCounted' /\ wp_nfiles' \in Nat
  <2> DEFINE moved == {i + 1 : i \in InProgress}
             g == [i \in InProgress |-> i + 1]
  <2>1. InProgress \in SUBSET DOMAIN snapQ /\ IsFiniteSet(InProgress)
    <3>1. InProgress \in SUBSET DOMAIN snapQ /\ IsFiniteSet(DOMAIN snapQ)
      BY <1>1, QueueIs DEF InProgress, TypeOK
    <3> QED  BY <3>1, FS_Subset
  <2>2. IsFiniteSet(moved) /\ Cardinality(moved) = Cardinality(InProgress)
    <3>1. g \in [InProgress -> moved]
      OBVIOUS
    <3>2. \A i, j \in InProgress : g[i] = g[j] => i = j
      BY <1>8, <2>1
    <3>3. \A t \in moved : \E i \in InProgress : g[i] = t
      OBVIOUS
    <3> HIDE DEF g, moved
    <3> QED  BY <2>1, <3>1, <3>2, <3>3, SameCount
  <2>3. Cardinality(InProgress) \in Nat
    BY <2>1, FS_CardinalityType
  <2>4. 1 \notin moved
    BY <1>8, <2>1
  <2>5. \A i : i \in moved <=> i \in DOMAIN snapQ' /\ i # 1 /\ snapQ'[i].pending = 1
    <3>1. ASSUME NEW i \in InProgress
          PROVE  i + 1 \in DOMAIN snapQ' /\ i + 1 # 1 /\ snapQ'[i + 1].pending = 1
      <4>1. i \in DOMAIN snapQ /\ snapQ[i].pending = 1
        BY DEF InProgress
      <4> QED  BY <1>8, <1>9, <1>10, <4>1
    <3>2. ASSUME NEW i \in DOMAIN snapQ', i # 1, snapQ'[i].pending = 1
          PROVE  i - 1 \in InProgress /\ i = (i - 1) + 1
      <4>1. i - 1 \in DOMAIN snapQ /\ snapQ'[i] = snapQ[i - 1]
        BY <1>10, <3>2
      <4> QED  BY <1>9, <3>2, <4>1 DEF InProgress
    <3> QED  BY <3>1, <3>2
  <2> HIDE DEF moved
  <2>6. CASE s.pending = 1
    <3>1. InProgress' = moved \cup {1}
      BY <1>9, <1>10, <2>5, <2>6 DEF InProgress
    <3>2. Cardinality(moved \cup {1}) = Cardinality(moved) + 1
      BY <2>2, <2>4, FS_AddElement
    <3>3. wp_nfiles' = Cardinality(InProgress) + 1
      BY <1>1, <1>2, <2>6 DEF FilesCounted
    <3> QED  BY <2>2, <2>3, <3>1, <3>2, <3>3 DEF FilesCounted
  <2>7. CASE s.pending = 0
    <3>1. InProgress' = moved
      BY <1>9, <1>10, <2>5, <2>7 DEF InProgress
    <3>2. wp_nfiles' = Cardinality(InProgress)
      BY <1>1, <1>2, <2>3, <2>7 DEF FilesCounted
    <3> QED  BY <2>2, <2>3, <3>1, <3>2 DEF FilesCounted
  <2>8. s.pending \in 0 .. 1
    BY <1>6 DEF Snapshot
  <2> QED  BY <2>6, <2>7, <2>8
<1>13. TypeOK'
  <2>1. snap_counter' \in 0 .. NameMod - 1
    BY <1>0, <1>1, NextNamed
  <2>2. snaps' \in Nat /\ accepted' \subseteq 1 .. snaps' /\ told' \subseteq accepted'
    BY <1>0, <1>1 DEF TypeOK
  <2> QED  BY <1>0, <1>1, <1>9, <1>12, <2>1, <2>2, Zenon DEF TypeOK
<1>14. FilesPaged'
  BY <1>1, <1>6, <1>9, <1>10 DEF FilesPaged, Paged
<1>15. FilesInOrder'
  <2>1. ASSUME NEW i \in DOMAIN snapQ' PROVE Progress(snapQ'[i], disk)
    <3>1. CASE i = 1
      BY <1>6, <1>9, <3>1, Zenon
    <3>2. CASE i # 1
      <4>1. i - 1 \in DOMAIN snapQ /\ snapQ'[i] = snapQ[i - 1]
        BY <1>10, <3>2
      <4>2. Progress(snapQ[i - 1], disk)
        BY <1>1, <4>1, Zenon DEF FilesInOrder
      <4> QED  BY <4>1, <4>2, Zenon
    <3> QED  BY <3>1, <3>2
  <2> QED  BY <1>0, <2>1, Zenon DEF FilesInOrder
<1>16. NumbersDiffer'
  <2>1. \A i \in DOMAIN snapQ : snapQ[i].id \in 1 .. snaps /\ snapQ[i].id # snaps + 1
    BY <1>1, <1>11 DEF NumbersDiffer
  <2>2. \A i \in DOMAIN snapQ' : snapQ'[i].id \in 1 .. snaps'
    <3> SUFFICES ASSUME NEW i \in DOMAIN snapQ' PROVE snapQ'[i].id \in 1 .. snaps + 1
      BY <1>0
    <3>1. CASE i = 1
      BY <1>7, <1>9, <1>11, <3>1
    <3>2. CASE i # 1
      <4>1. i - 1 \in DOMAIN snapQ /\ snapQ'[i] = snapQ[i - 1]
        BY <1>10, <3>2
      <4>2. snapQ[i - 1].id \in 1 .. snaps
        BY <2>1, <4>1
      <4> QED  BY <1>11, <4>1, <4>2
    <3> QED  BY <3>1, <3>2
  <2>3. ASSUME NEW i \in DOMAIN snapQ', NEW j \in DOMAIN snapQ', snapQ'[i].id = snapQ'[j].id
        PROVE  i = j
    <3>1. i # 1 => i - 1 \in DOMAIN snapQ /\ snapQ'[i] = snapQ[i - 1]
      BY <1>10
    <3>2. j # 1 => j - 1 \in DOMAIN snapQ /\ snapQ'[j] = snapQ[j - 1]
      BY <1>10
    <3>3. i # 1 /\ j # 1 => i - 1 = j - 1
      BY <1>1, <2>3, <3>1, <3>2 DEF NumbersDiffer
    <3>4. i \in Int /\ j \in Int
      BY <1>8, <1>9
    <3> QED  BY <1>7, <1>9, <2>1, <2>3, <3>1, <3>2, <3>3, <3>4
  <2> QED  BY <2>2, <2>3 DEF NumbersDiffer
<1>17. NamesInTurn'
  <2>1. /\ \A i \in DOMAIN snapQ :
             ((snapQ[i].name - snapQ[i].id) - (Named' - (snaps' + 1))) % (NameMod - 1) = 0
        /\ ((Named - (snaps + 1)) - (Named' - (snaps' + 1))) % (NameMod - 1) = 0
    BY <1>0, <1>1, TurnIs
  <2>2. ASSUME NEW i \in DOMAIN snapQ'
        PROVE  ((snapQ'[i].name - snapQ'[i].id) - (Named' - (snaps' + 1))) % (NameMod - 1) = 0
    <3>1. CASE i = 1
      BY <1>7, <1>9, <2>1, <3>1
    <3>2. CASE i # 1
      BY <1>10, <2>1, <3>2
    <3> QED  BY <3>1, <3>2
  <2> QED  BY <2>2 DEF NamesInTurn
<1>18. ClockOK'
  BY <1>0, <1>1, Zenon DEF ClockOK
<1>19. ReportedOnce'
  <2>1. \A x \in accepted' : x \in told' \/ \E i \in DOMAIN snapQ' : snapQ'[i].id = x
    <3> SUFFICES ASSUME NEW x \in accepted', x \notin told'
                 PROVE  \E i \in DOMAIN snapQ' : snapQ'[i].id = x
      OBVIOUS
    <3>1. CASE x = snaps + 1
      BY <1>7, <1>9, <1>10, <3>1
    <3>2. CASE x # snaps + 1
      <4>1. PICK i \in DOMAIN snapQ : snapQ[i].id = x
        BY <1>0, <1>1, <3>2 DEF Reported
      <4>2. i + 1 \in DOMAIN snapQ' /\ snapQ'[i + 1] = snapQ[i]
        BY <1>9, <1>10
      <4> QED  BY <4>1, <4>2
    <3> QED  BY <3>1, <3>2
  <2>2. told' \subseteq accepted'
    BY <1>0, <1>1 DEF Reported
  <2>3. ASSUME NEW i \in DOMAIN snapQ'
        PROVE  snapQ'[i].id \in accepted' /\ snapQ'[i].id \notin told'
    <3>1. CASE i = 1
      <4>1. snaps + 1 \notin told
        BY <1>1, <1>11 DEF TypeOK
      <4> QED  BY <1>0, <1>7, <1>9, <3>1, <4>1
    <3>2. CASE i # 1
      <4>1. i - 1 \in DOMAIN snapQ /\ snapQ'[i] = snapQ[i - 1]
        BY <1>10, <3>2
      <4> QED  BY <1>0, <1>1, <4>1 DEF Reported
    <3> QED  BY <3>1, <3>2
  <2>4. Reported'
    BY <2>1, <2>2, <2>3, Zenon DEF Reported
  <2> QED  BY <2>4 DEF ReportedOnce, Reported, All
<1>20. RangeIsCovered'
  <2>1. ASSUME NEW i \in DOMAIN snapQ' PROVE Fits(snapQ'[i]) => Covered(snapQ'[i])
    <3>1. CASE i = 1
      BY <1>7, <1>9, <3>1, Zenon
    <3>2. CASE i # 1
      <4>1. i - 1 \in DOMAIN snapQ /\ snapQ'[i] = snapQ[i - 1]
        BY <1>10, <3>2
      <4>2. Fits(snapQ[i - 1]) => Covered(snapQ[i - 1])
        BY <1>1, <4>1, Zenon DEF RangeIsCovered, All
      <4> QED  BY <4>1, <4>2, Zenon
    <3> QED  BY <3>1, <3>2
  <2> QED  BY <2>1, Zenon DEF RangeIsCovered, All
<1> QED
  BY <1>12, <1>13, <1>14, <1>15, <1>16, <1>17, <1>18, <1>19, <1>20 DEF IInv

(* Ztatus of one snapshot or of all.                                       *)
LEMMA ZtatusKeeps ==
  ASSUME IInv, NEW name, Ztatus(name) PROVE IInv'
<1>1. UNCHANGED Rest
  BY DEF Ztatus, Rest
<1>2. PICK q \in SUBSET DOMAIN snapQ : Report(q)
  <2>1. CASE name = 0
    BY <2>1 DEF Ztatus
  <2>2. CASE name # 0
    <3> DEFINE named == {i \in DOMAIN snapQ : snapQ[i].name = name}
               first == CHOOSE i \in named : \A j \in named : i <= j
    <3>1. named # {} /\ Report({first})
      BY <2>2 DEF Ztatus
    <3>2. \E i \in named : \A j \in named : i <= j
      <4>1. named \subseteq Nat
        <5>1. DOMAIN snapQ \subseteq Nat
          BY QueueIs DEF IInv, TypeOK
        <5> QED  BY <5>1
      <4> HIDE DEF named
      <4> QED  BY <3>1, <4>1, Least
    <3>3. first \in named
      BY <3>2
    <3> QED  BY <3>1, <3>3
  <2> QED  BY <2>1, <2>2
<1> QED  BY <1>1, <1>2, ReportKeeps

(* verify_writer_params leaves whole pages, and no more than it allows.    *)
LEMMA VerifiedIs ==
  ASSUME NEW k \in 1 .. MaxChunkKib
  PROVE  Verified(k) \in 1 .. MaxChunkKib /\ (Verified(k) * Kib) % PageBytes = 0
<1>1. Kib \in Nat \ {0} /\ PageBytes \in Nat \ {0} /\ MaxChunkKib \in Nat \ {0} /\ k \in Nat \ {0}
  BY Widths
<1>2. PICK b \in Nat, most \in Nat : b = k * Kib /\ most = MaxChunkKib * Kib /\ b > 0 /\ b <= most
  BY <1>1
<1>3. PICK y \in Int : most = PageBytes * y
  <2>1. most % PageBytes = 0 /\ most \in Int
    BY <1>2, SnapshotsConstants DEF SnapshotsConstants
  <2> QED  BY <1>1, <2>1, Divides
<1>4. PICK j \in Int : PageBytes = Kib * j
  <2>1. PageBytes % Kib = 0 /\ PageBytes \in Int
    BY <1>1, SnapshotsConstants DEF SnapshotsConstants
  <2> QED  BY <1>1, <2>1, Divides
<1>5. PICK c \in Int : /\ c = CeilDiv(b, PageBytes)
                       /\ PageBytes * (c - 1) < b /\ b <= PageBytes * c
  <2>1. b \in Int
    BY <1>2
  <2> QED  BY <1>1, <2>1, CeilDivBounds
<1>6. c <= y
  <2>1. PageBytes * (c - 1) < PageBytes * y
    <3>1. PageBytes * (c - 1) \in Int
      BY <1>1
    <3> QED  BY <1>2, <1>3, <1>5, <3>1
  <2>2. c - 1 < y
    BY <1>1, <1>3, <1>5, <2>1, Cancel
  <2> QED  BY <1>3, <1>5, <2>2
<1>7. PICK v \in Int : v = j * c
  BY <1>4, <1>5
<1>8. PageBytes * c = Kib * v
  BY <1>1, <1>4, <1>5, <1>7
<1>9. Verified(k) = v
  <2>1. Verified(k) = (Kib * v) \div Kib
    BY <1>2, <1>5, <1>8 DEF Verified, RoundUp
  <2>2. (Kib * v) \div Kib = v
    <3>1. Kib * v \in Int /\ Kib * v <= Kib * v /\ Kib * v < Kib * (v + 1)
      BY <1>1
    <3> QED  BY <1>1, <3>1, DivIs
  <2> QED  BY <2>1, <2>2
<1>10. v >= 1
  <2>1. Kib * v > 0
    <3>1. PageBytes * c \in Int
      BY <1>1, <1>5
    <3> QED  BY <1>2, <1>5, <1>8, <3>1
  <2>2. v <= 0 => Kib * v <= 0
    BY <1>1
  <2>3. Kib * v \in Int
    BY <1>1
  <2> QED  BY <2>1, <2>2, <2>3
<1>11. v <= MaxChunkKib
  <2>1. PageBytes * c <= PageBytes * y
    BY <1>1, <1>6
  <2>2. Kib * v <= Kib * MaxChunkKib
    BY <1>1, <1>2, <1>3, <1>8, <2>1
  <2> QED  BY <1>1, <2>2, Cancel
<1>12. (v * Kib) % PageBytes = 0
  <2>1. PICK z \in Int : z = v * Kib
    BY <1>1
  <2>2. z = PageBytes * c
    BY <1>1, <1>5, <1>8, <2>1
  <2>3. z % PageBytes = 0
    BY <1>1, <2>2, MultipleIs
  <2> QED  BY <2>1, <2>3
<1> QED  BY <1>1, <1>9, <1>10, <1>11, <1>12

(* The program starts with no snapshot.                                    *)
LEMMA InitIInv ==
  Init => IInv
<1> SUFFICES ASSUME Init PROVE IInv
  OBVIOUS
<1>1. /\ now = 2 * MaxHead * Intersample
      /\ adc = [run |-> FALSE, head |-> 0, time |-> 0, start |-> 0] /\ capture = 0
      /\ cwd = None /\ dirs = {} /\ snap_counter \in {0, NameMod - 1} /\ snapQ = <<>>
      /\ wp_nfiles = 0 /\ snaps = 0 /\ accepted = {} /\ disk = {} /\ told = {}
  BY DEF Init
<1>2. w_chunksize \in 1 .. MaxChunkKib /\ (w_chunksize * Kib) % PageBytes = 0
  <2>1. PICK k \in ChunkKibs : w_chunksize = Verified(k)
    BY DEF Init
  <2>2. k \in 1 .. MaxChunkKib
    BY SnapshotsConstants DEF SnapshotsConstants
  <2> QED  BY <2>1, <2>2, VerifiedIs
<1>3. now \in Nat /\ adc \in [run : BOOLEAN, head : Nat, time : Nat, start : Nat]
  BY <1>1, Widths
<1>4. snapQ \in Seq(Snapshot) /\ DOMAIN snapQ = {}
  BY <1>1
<1>5. capture \in 0 .. MaxCapture /\ cwd \in Dirs \cup {None} /\ snap_counter \in 0 .. NameMod - 1
  BY <1>1, Widths
<1>6. TypeOK
  BY <1>1, <1>2, <1>3, <1>4, <1>5 DEF TypeOK
<1>7. FilesPaged /\ FilesInOrder /\ NumbersDiffer /\ NamesInTurn /\ ReportedOnce /\ RangeIsCovered
  BY <1>1, <1>4 DEF FilesPaged, FilesInOrder, NumbersDiffer, NamesInTurn, ReportedOnce,
                    RangeIsCovered, All
<1>8. FilesCounted
  BY <1>1, <1>4, FS_EmptySet DEF FilesCounted, InProgress
<1>9. ClockOK
  BY <1>1, <1>3 DEF ClockOK
<1> QED  BY <1>6, <1>7, <1>8, <1>9 DEF IInv

(* Every step keeps the inductive invariant.                               *)
LEMMA NextIInv ==
  IInv /\ [Next]_vars => IInv'
<1> SUFFICES ASSUME IInv, [Next]_vars PROVE IInv'
  OBVIOUS
<1>1. CASE \E r \in Requests : Snap(r)
  BY <1>1, SnapRejectedKeeps, SnapAcceptedKeeps DEF Snap
<1>2. CASE \E i \in DOMAIN snapQ : FileDone(i) \/ FileFails(i)
  BY <1>2, FileDoneKeeps, FileFailsKeeps
<1>3. CASE \E name \in 0 .. NameMod - 1 : Ztatus(name)
  BY <1>3, ZtatusKeeps
<1>4. CASE \E p \in Dirs \cup {None} : Dir(p)
  BY <1>4, DirKeeps
<1>5. CASE Go
  BY <1>5, GoKeeps
<1>6. CASE Collect
  BY <1>6, CollectKeeps
<1>7. CASE Halt
  BY <1>7, HaltKeeps
<1>8. CASE UNCHANGED vars
  <2>1. /\ now' = now /\ adc' = adc /\ capture' = capture /\ cwd' = cwd
        /\ UNCHANGED <<w_chunksize, snap_counter, snapQ, wp_nfiles, snaps, accepted, disk, told>>
    BY <1>8 DEF vars, adcVars
  <2>2. ClockOK'
    BY <2>1, Zenon DEF IInv, ClockOK
  <2> QED  BY <2>1, <2>2, QuietKeeps DEF IInv, TypeOK
<1> QED  BY <1>1, <1>2, <1>3, <1>4, <1>5, <1>6, <1>7, <1>8 DEF Next

(* The inductive invariant holds.                                          *)
THEOREM Invariance ==
  Spec => []IInv
BY InitIInv, NextIInv, PTL DEF Spec

(* Every snapshot in the queue is one (writer.c:65-82): its samples and    *)
(* bytes have the widths of the code, and it has no more than one file in  *)
(* progress.                                                               *)
THEOREM TypeCorrect ==
  Spec => []TypeOK
<1>1. IInv => TypeOK
  BY DEF IInv
<1> QED  BY Invariance, <1>1, PTL

(* The first file of a snapshot holds the range it was asked for, if its   *)
(* bytes fit an int, whatever the READER delivered while the WRITER read   *)
(* the head and its time (writer.c:606-638; adc.c:454-468).                *)
THEOREM RangesAreCovered ==
  Spec => []RangeIsCovered
<1>1. IInv => RangeIsCovered
  BY DEF IInv
<1> QED  BY Invariance, <1>1, PTL

(* A snapshot that was accepted is in the queue until Ztatus reports it    *)
(* finished, and that is once (writer.c:872-946).                          *)
THEOREM EachReportedOnce ==
  Spec => []ReportedOnce
<1>1. IInv => ReportedOnce
  BY DEF IInv
<1> QED  BY Invariance, <1>1, PTL

(* A snapshot reported complete has all its files on disk, each beginning  *)
(* where the one before it ended (writer.c:748-795, 855-867).              *)
THEOREM CompletesAreOnDisk ==
  Spec => []CompleteIsOnDisk
<1>1. IInv => CompleteIsOnDisk
  <2> SUFFICES ASSUME IInv, NEW i \in DOMAIN snapQ, snapQ[i].status = "COMPLETE",
                      NEW k \in 0 .. snapQ[i].count - 1
               PROVE  FileOf(snapQ[i], k) \in disk
    BY DEF CompleteIsOnDisk, All
  <2>1. Progress(snapQ[i], disk)
    BY DEF IInv, FilesInOrder
  <2>2. snapQ[i].done = snapQ[i].count
    BY <2>1 DEF Progress
  <2> QED  BY <2>1, <2>2 DEF Progress
<1> QED  BY Invariance, <1>1, PTL

(* Two snapshots in the queue have one name only if the 16 bits of the     *)
(* counter have gone all the way round between them (writer.c:441-459):    *)
(* names that are equally far from the next name are a whole turn apart,   *)
(* or none.                                                                *)
THEOREM NamesComeRound ==
  Spec => []NamesDiffer
<1>1. IInv => NamesDiffer
  <2> SUFFICES ASSUME IInv, NEW i \in DOMAIN snapQ, NEW j \in DOMAIN snapQ,
                      snapQ[i].name = snapQ[j].name
               PROVE  (snapQ[i].id - snapQ[j].id) % (NameMod - 1) = 0
    BY DEF NamesDiffer
  <2>1. PICK m \in Nat \ {0} : m = NameMod - 1
    BY Widths
  <2>2. /\ snapQ[i] \in Snapshot /\ snapQ[j] \in Snapshot
        /\ Named - (snaps + 1) \in Int
    BY QueueIs, Widths DEF IInv, TypeOK, Named
  <2>3. PICK n \in Int, a \in Int, b \in Int, c \in Int :
          /\ n = snapQ[i].name /\ n = snapQ[j].name /\ a = snapQ[i].id /\ b = snapQ[j].id
          /\ c = Named - (snaps + 1)
    <3>1. snapQ[i].name \in Int /\ snapQ[i].id \in Int /\ snapQ[j].id \in Int
      BY <2>2, Widths DEF Snapshot
    <3> QED  BY <2>2, <3>1
  <2>4. ((n - a) - c) % m = 0 /\ ((n - b) - c) % m = 0
    BY <2>1, <2>3 DEF IInv, NamesInTurn
  <2>5. PICK x \in Int, y \in Int : x = (n - a) - c /\ y = (n - b) - c
    OBVIOUS
  <2>6. PICK u \in Int : x = m * u
    BY <2>4, <2>5, Divides
  <2>7. PICK v \in Int : y = m * v
    BY <2>4, <2>5, Divides
  <2>8. a - b = m * (v - u) + 0 /\ v - u \in Int /\ a - b \in Int
    BY <2>5, <2>6, <2>7
  <2>9. (a - b) % m = 0
    BY <2>8, ModIs
  <2> QED  BY <2>1, <2>3, <2>9
<1> QED  BY Invariance, <1>1, PTL

(* The function that ChunksOf defines.                                     *)
IsCut(f, n, samples, first) ==
  f = [i \in 0 .. n |-> IF i = 0 THEN Uncut(samples) ELSE OneMore(f[i - 1], first)]

(* There is such a function for every number of chunks.                    *)
LEMMA CutExists ==
  ASSUME NEW samples, NEW first
  PROVE  \A n \in Nat : \E f : IsCut(f, n, samples, first)
<1> DEFINE T == {n \in Nat : \E f : IsCut(f, n, samples, first)}
<1>1. 0 \in T
  <2> DEFINE f == [i \in 0 .. 0 |-> Uncut(samples)]
  <2>1. IsCut(f, 0, samples, first)
    BY DEF IsCut
  <2> QED  BY <2>1, Zenon
<1>2. ASSUME NEW n \in Nat, n \in T PROVE n + 1 \in T
  <2>1. PICK f : IsCut(f, n, samples, first)
    BY <1>2
  <2> DEFINE g == [i \in 0 .. n + 1 |-> IF i = n + 1 THEN OneMore(f[n], first) ELSE f[i]]
  <2>2. ASSUME NEW i \in 0 .. n + 1
        PROVE  g[i] = IF i = 0 THEN Uncut(samples) ELSE OneMore(g[i - 1], first)
    <3>1. \A j \in 0 .. n :
            f[j] = IF j = 0 THEN Uncut(samples) ELSE OneMore(f[j - 1], first)
      BY <2>1 DEF IsCut
    <3>2. CASE i = n + 1
      <4>1. i - 1 = n /\ n \in 0 .. n + 1 /\ n # n + 1 /\ i # 0
        BY <3>2
      <4>2. g[n] = f[n] /\ g[i] = OneMore(f[n], first)
        BY <3>2, <4>1
      <4> QED  BY <4>1, <4>2
    <3>3. CASE i # n + 1
      <4>1. i \in 0 .. n /\ g[i] = f[i]
        BY <3>3
      <4>2. i # 0 => i - 1 \in 0 .. n + 1 /\ i - 1 # n + 1
        BY <3>3
      <4>3. i # 0 => g[i - 1] = f[i - 1]
        BY <4>2
      <4> QED  BY <3>1, <4>1, <4>3
    <3> QED  BY <3>2, <3>3
  <2>3. DOMAIN g = 0 .. n + 1 /\ g = [i \in 0 .. n + 1 |-> g[i]]
    OBVIOUS
  <2> HIDE DEF g
  <2>4. IsCut(g, n + 1, samples, first)
    BY <2>2, <2>3, Zenon DEF IsCut
  <2> QED  BY <2>4
<1> HIDE DEF T
<1>3. Nat \subseteq T
  BY <1>1, <1>2, NatInductive
<1> QED  BY <1>3 DEF T

(* What ChunksOf yields, chunk by chunk.                                   *)
LEMMA ChunksAre ==
  ASSUME NEW first, NEW samples, NEW bytes, NChunks(bytes) \in Nat
  PROVE  \E f : /\ ChunksOf(first, samples, bytes) = f[NChunks(bytes)].chunks
                /\ f[0] = Uncut(samples)
                /\ \A i \in 1 .. NChunks(bytes) : f[i] = OneMore(f[i - 1], first)
<1> DEFINE n == NChunks(bytes)
           f == CHOOSE g : g = [i \in 0 .. n |->
                  IF i = 0 THEN Uncut(samples) ELSE OneMore(g[i - 1], first)]
<1>1. ChunksOf(first, samples, bytes) = f[n].chunks
  BY DEF ChunksOf
<1>2. \E g : IsCut(g, n, samples, first)
  BY CutExists
<1>3. f = [i \in 0 .. n |-> IF i = 0 THEN Uncut(samples) ELSE OneMore(f[i - 1], first)]
  BY <1>2, Zenon DEF IsCut
<1>4. n \in Nat
  OBVIOUS
<1> HIDE DEF f, n
<1>5. f[0] = Uncut(samples) /\ \A i \in 1 .. n : f[i] = OneMore(f[i - 1], first)
  <2>1. \A i \in 0 .. n : f[i] = IF i = 0 THEN Uncut(samples) ELSE OneMore(f[i - 1], first)
    BY <1>3
  <2>2. 0 \in 0 .. n /\ \A i \in 1 .. n : i \in 0 .. n /\ i # 0
    BY <1>4
  <2> QED  BY <2>1, <2>2
<1> QED  BY <1>1, <1>5 DEF n

(* A chunk and a page, in samples.                                         *)
LEMMA SizesAre ==
  ASSUME w_chunksize \in 1 .. MaxChunkKib, (w_chunksize * Kib) % PageBytes = 0
  PROVE  /\ PageSamples \in Nat \ {0} /\ PageBytes = SampleBytes * PageSamples
         /\ ChunkSamples \in Nat \ {0} /\ w_chunksize * Kib = SampleBytes * ChunkSamples
         /\ \E c \in Nat \ {0} : ChunkSamples = PageSamples * c
<1>1. /\ Kib \in Nat \ {0} /\ PageBytes \in Nat \ {0} /\ SampleBytes \in Nat \ {0}
      /\ NChannels \in Nat \ {0} /\ w_chunksize \in Nat \ {0}
  BY Widths
<1>2. PICK k \in Nat \ {0} : PageBytes = (NChannels * SampleBytes) * k
  BY PageHolds
<1>3. PICK p \in Nat \ {0} : p = NChannels * k /\ PageBytes = SampleBytes * p
  BY <1>1, <1>2
<1>4. PageSamples = p
  <2>1. PageBytes \in Int /\ SampleBytes * p <= PageBytes /\ PageBytes < SampleBytes * (p + 1)
    BY <1>1, <1>3
  <2> QED  BY <1>1, <2>1, DivIs DEF PageSamples
<1>5. PICK z \in Nat \ {0} : z = w_chunksize * Kib
  BY <1>1
<1>6. PICK c \in Int : z = PageBytes * c
  <2>1. z % PageBytes = 0
    BY <1>5
  <2>2. z \in Int
    BY <1>5
  <2> QED  BY <1>1, <2>1, <2>2, Divides, Zenon
<1>7. c > 0
  <2>1. c <= 0 => PageBytes * c <= 0
    BY <1>1
  <2> QED  BY <1>5, <1>6, <2>1
<1>8. PICK s \in Nat \ {0} : s = p * c
  BY <1>7
<1>9. z = SampleBytes * s
  BY <1>1, <1>3, <1>6, <1>8
<1>10. ChunkSamples = s
  <2>1. z \in Int /\ SampleBytes * s <= z /\ z < SampleBytes * (s + 1)
    BY <1>1, <1>9
  <2> QED  BY <1>1, <1>5, <2>1, DivIs DEF ChunkSamples
<1> QED  BY <1>3, <1>4, <1>5, <1>7, <1>8, <1>9, <1>10

(* What is cut off: whole pages, no more than a chunk, and no less than    *)
(* half of one unless nothing more is left; what is left then is nothing   *)
(* or half a chunk at least.                                               *)
GoodShare(n, p, c, m, left) ==
  /\ AtMost(Share(p * m), p * m) = p * n
  /\ n <= c /\ n <= m
  /\ c * (left - 2) < m - n /\ m - n <= c * (left - 1)
  /\ m = n \/ (2 * p * n >= p * c /\ 2 * (m - n) >= c)

(* The share the code takes is such a one.                                 *)
LEMMA ShareIs ==
  ASSUME NEW p \in Nat \ {0}, NEW c \in Nat \ {0}, NEW m \in Nat \ {0},
         PageSamples = p, ChunkSamples = p * c, NEW left \in Nat, left >= 1,
         p * c * (left - 1) < p * m, p * m <= p * c * left
  PROVE  \E n \in Nat \ {0} : GoodShare(n, p, c, m, left)
<1> DEFINE s == p * m
           z == p * c
<1>1. s \in Nat \ {0} /\ z \in Nat \ {0}
  OBVIOUS
<1>2. c * (left - 1) < m /\ m <= c * left
  <2>1. p * c * (left - 1) = p * (c * (left - 1)) /\ p * c * left = p * (c * left)
        /\ c * (left - 1) \in Int /\ c * left \in Int
    OBVIOUS
  <2> QED  BY <2>1, Cancel
<1>3. c * (left - 1) = c * left - c /\ c * (left - 2) = c * left - 2 * c /\ c * left \in Nat
  OBVIOUS
<1>4. /\ s > z <=> m > c
      /\ s < 2 * z <=> m < 2 * c
  <2>1. z < s <=> c < m
    <3>1. z < s => c < m
      BY Cancel
    <3>2. c < m => z < s
      OBVIOUS
    <3> QED  BY <3>1, <3>2
  <2>2. s < 2 * z <=> m < 2 * c
    <3>1. 2 * z = p * (2 * c) /\ 2 * c \in Int
      OBVIOUS
    <3>2. p * m < p * (2 * c) => m < 2 * c
      BY Cancel
    <3>3. m < 2 * c => p * m < p * (2 * c)
      OBVIOUS
    <3> QED  BY <3>1, <3>2, <3>3
  <2> QED  BY <1>1, <2>1, <2>2
<1>5. CASE m >= 2 * c
  <2>1. AtMost(Share(s), s) = z
    <3>1. Share(s) = z
      BY <1>1, <1>4, <1>5 DEF Share
    <3>2. z < s
      BY <1>1, <1>4, <1>5
    <3> QED  BY <3>1, <3>2 DEF AtMost
  <2>2. m - c >= c
    BY <1>5
  <2>3. c * (left - 2) < m - c /\ m - c <= c * (left - 1)
    BY <1>2, <1>3
  <2>4. 2 * p * c >= p * c
    OBVIOUS
  <2>5. GoodShare(c, p, c, m, left)
    BY <1>5, <2>1, <2>2, <2>3, <2>4 DEF GoodShare
  <2> QED  BY <2>5
<1>6. CASE m <= c
  <2>1. AtMost(Share(s), s) = s
    <3>1. Share(s) = z
      BY <1>1, <1>4, <1>6 DEF Share
    <3>2. z < s \/ z >= s
      BY <1>1
    <3> QED  BY <1>1, <1>4, <1>6, <3>1 DEF AtMost
  <2>2. left = 1
    <3>1. left >= 2 => c * (left - 1) >= c
      OBVIOUS
    <3> QED  BY <1>2, <1>6, <3>1
  <2>3. c * (left - 2) < m - m /\ m - m <= c * (left - 1)
    BY <1>2, <1>3, <2>2
  <2>4. GoodShare(m, p, c, m, left)
    BY <1>6, <2>1, <2>3 DEF GoodShare
  <2> QED  BY <2>4
<1>7. CASE m > c /\ m < 2 * c
  <2>1. PICK h \in Int : /\ h = s \div 2 /\ 2 * h <= s /\ s < 2 * (h + 1)
    BY <1>1, DivBounds
  <2>2. PICK k \in Int : /\ k = CeilDiv(h, p) /\ p * (k - 1) < h /\ h <= p * k
    BY CeilDivBounds
  <2>3. Share(s) = p * k
    BY <1>1, <1>4, <1>7, <2>1, <2>2 DEF Share, RoundUp
  <2>4. PICK y \in Int : y = p * k /\ p * (k - 1) = y - p
    OBVIOUS
  <2>5. 2 * y < s + 2 * p /\ 2 * y >= s - 1
    BY <1>1, <2>1, <2>2, <2>4
  <2>6. 2 * k <= m + 1
    <3>1. p * (2 * k) < p * (m + 2)
      <4>1. p * (2 * k) = 2 * y /\ p * (m + 2) = s + 2 * p
        BY <2>4
      <4> QED  BY <2>5, <4>1
    <3>2. 2 * k < m + 2
      <4>1. 2 * k \in Int /\ m + 2 \in Int
        OBVIOUS
      <4> QED  BY <3>1, <4>1, Cancel
    <3> QED  BY <3>2
  <2>7. 2 * k >= m - 1 /\ (p >= 2 => 2 * k >= m)
    <3>1. p * (2 * k - m) = 2 * y - s
      BY <2>4
    <3>2. 2 * k - m < 0 => p * (2 * k - m) <= -p
      OBVIOUS
    <3>3. 2 * k - m < -1 => p * (2 * k - m) <= -2 * p
      OBVIOUS
    <3> QED  BY <1>1, <2>5, <3>1, <3>2, <3>3
  <2>8. k >= 1 /\ k < m /\ k <= c
    BY <1>7, <2>6, <2>7
  <2>9. AtMost(Share(s), s) = p * k
    <3>1. p * k < p * m
      BY <2>8
    <3> QED  BY <2>3, <3>1 DEF AtMost
  <2>10. left = 2
    <3>1. left >= 3 => c * (left - 1) >= 2 * c
      OBVIOUS
    <3>2. left = 1 => c * left = c
      OBVIOUS
    <3> QED  BY <1>2, <1>7, <3>1, <3>2
  <2>11. c * (left - 2) < m - k /\ m - k <= c * (left - 1)
    <3>1. c * (left - 2) = 0 /\ c * (left - 1) = c
      BY <2>10
    <3> QED  BY <1>7, <2>7, <2>8, <3>1
  <2>12. 2 * p * k >= p * c
    <3>1. s > z
      BY <1>4, <1>7
    <3>2. 2 * p * k = 2 * y
      BY <2>4
    <3> QED  BY <1>1, <2>5, <3>1, <3>2
  <2>13. 2 * (m - k) >= c
    BY <1>7, <2>6
  <2>14. k \in Nat \ {0} /\ k <= m /\ m # k
    BY <2>8
  <2>15. GoodShare(k, p, c, m, left)
    BY <2>8, <2>9, <2>11, <2>12, <2>13, <2>14 DEF GoodShare
  <2> QED  BY <2>14, <2>15
<1> QED  BY <1>5, <1>6, <1>7

Chunk == [first : Int, last : Int, samples : Nat, offset : Int]

(* A chunk of a file of so many samples has a good size.                   *)
GoodSize(k, samples) ==
  /\ k.samples % PageSamples = 0 /\ k.samples <= ChunkSamples
  /\ 2 * k.samples >= AtMost(ChunkSamples, samples)

(* What has been done when i of n chunks are cut off.                      *)
Cut(p, i, n, first, samples) ==
  /\ p.rest \in Nat /\ p.at \in Nat /\ p.rest + p.at = samples /\ (i = 0 => p.at = 0)
  /\ \E m \in Nat : p.rest = PageSamples * m
  /\ ChunkSamples * ((n - i) - 1) < p.rest /\ p.rest <= ChunkSamples * (n - i)
  /\ p.rest = 0 \/ 2 * p.rest >= AtMost(ChunkSamples, samples)
  /\ p.chunks \in Seq(Chunk) /\ Len(p.chunks) = i
  /\ \A j \in 1 .. i : GoodSize(p.chunks[j], samples)
  /\ \A j \in 1 .. i - 1 :
       /\ p.chunks[j + 1].first = p.chunks[j].last
       /\ p.chunks[j + 1].offset = p.chunks[j].offset + p.chunks[j].samples * SampleBytes
  /\ i > 0 => /\ p.chunks[1].first = U64(first) /\ p.chunks[1].offset = 0
              /\ p.chunks[i].last = U64(first + p.at)
              /\ p.chunks[i].offset + p.chunks[i].samples * SampleBytes = p.at * SampleBytes

(* Cutting off one more chunk.                                             *)
LEMMA CutGoesOn ==
  ASSUME w_chunksize \in 1 .. MaxChunkKib, (w_chunksize * Kib) % PageBytes = 0,
         NEW n \in Nat, NEW i \in Nat, i < n, NEW first \in Nat, NEW samples \in Nat \ {0},
         NEW p, Cut(p, i, n, first, samples)
  PROVE  Cut(OneMore(p, first), i + 1, n, first, samples)
<1> DEFINE k == [first |-> U64(first + p.at), last |-> U64(first + p.at + AtMost(Share(p.rest), p.rest)),
                 samples |-> AtMost(Share(p.rest), p.rest), offset |-> p.at * SampleBytes]
           q == OneMore(p, first)
<1>1. /\ p.rest \in Nat /\ p.at \in Nat /\ p.rest + p.at = samples
      /\ ChunkSamples * ((n - i) - 1) < p.rest /\ p.rest <= ChunkSamples * (n - i)
      /\ p.rest = 0 \/ 2 * p.rest >= AtMost(ChunkSamples, samples)
      /\ p.chunks \in Seq(Chunk) /\ Len(p.chunks) = i
  BY DEF Cut
<1>2. PICK m \in Nat : p.rest = PageSamples * m
  BY DEF Cut
<1>3. SampleBytes \in Nat \ {0} /\ PageSamples \in Nat \ {0} /\ ChunkSamples \in Nat \ {0}
  BY SizesAre, Widths
<1>4. PICK c \in Nat \ {0} : ChunkSamples = PageSamples * c
  BY SizesAre
<1>5. PICK left \in Nat : left = n - i /\ left >= 1
  OBVIOUS
<1>6. p.rest > 0 /\ m # 0
  <2>1. ChunkSamples * (left - 1) >= 0
    BY <1>3, <1>5
  <2>2. ChunkSamples * (left - 1) \in Int
    BY <1>3, <1>5
  <2>3. p.rest > 0
    BY <1>1, <1>5, <2>1, <2>2
  <2> QED  BY <1>2, <1>3, <2>3
<1>7. PICK s \in Nat \ {0} :
        /\ AtMost(Share(p.rest), p.rest) = PageSamples * s
        /\ s <= c /\ s <= m
        /\ c * (left - 2) < m - s /\ m - s <= c * (left - 1)
        /\ m = s \/ (2 * PageSamples * s >= PageSamples * c /\ 2 * (m - s) >= c)
  <2>1. PICK g \in Nat \ {0} : g = PageSamples
    BY <1>3
  <2>2. g * c * (left - 1) < g * m /\ g * m <= g * c * left
    BY <1>1, <1>2, <1>4, <1>5, <2>1
  <2>3. m \in Nat \ {0}
    BY <1>6
  <2>4. PageSamples = g /\ ChunkSamples = g * c
    BY <1>4, <2>1
  <2>5. \E s \in Nat \ {0} : GoodShare(s, g, c, m, left)
    BY <1>5, <2>2, <2>3, <2>4, ShareIs
  <2>6. p.rest = g * m
    BY <1>2, <2>1
  <2> QED  BY <2>1, <2>5, <2>6, Zenon DEF GoodShare
<1>8. PICK x \in Nat \ {0} : x = PageSamples * s
  BY <1>3
<1>9. /\ q.chunks = Append(p.chunks, k) /\ q.rest = p.rest - x /\ q.at = p.at + x
      /\ k.samples = x /\ k.first = U64(first + p.at) /\ k.last = U64(first + p.at + x)
      /\ k.offset = p.at * SampleBytes
  BY <1>7, <1>8 DEF OneMore
<1>10. k \in Chunk
  <2>1. U64(first + p.at) \in Int /\ U64(first + p.at + x) \in Int /\ p.at * SampleBytes \in Int
    <3>1. first + p.at \in Int /\ first + p.at + x \in Int
      BY <1>1
    <3>2. \A y \in Int : U64(y) \in Int
      BY WrapRange, Widths
    <3>3. p.at * SampleBytes \in Int
      BY <1>1, <1>3
    <3> QED  BY <3>1, <3>2, <3>3, Zenon
  <2>2. AtMost(Share(p.rest), p.rest) = x
    BY <1>7, <1>8
  <2>3. x \in Nat
    OBVIOUS
  <2> QED  BY <2>1, <2>2, <2>3 DEF Chunk
<1> HIDE DEF k, q
<1>11. q.rest = PageSamples * (m - s) /\ m - s \in Nat
  BY <1>2, <1>3, <1>7, <1>8, <1>9
<1>12. q.rest \in Nat /\ q.at \in Nat /\ q.rest + q.at = samples
  <2>1. PICK r \in Nat : r = PageSamples * (m - s)
    BY <1>3, <1>11
  <2>2. q.rest \in Nat
    BY <1>11, <2>1
  <2>3. PICK a \in Nat, b \in Nat : a = p.at /\ b = p.rest /\ b + a = samples
    BY <1>1
  <2>4. q.at = a + x /\ q.rest = b - x
    BY <1>9, <2>3
  <2> QED  BY <2>2, <2>3, <2>4
<1>13. ChunkSamples * ((n - (i + 1)) - 1) < q.rest /\ q.rest <= ChunkSamples * (n - (i + 1))
  <2>1. PICK g \in Nat \ {0} : g = PageSamples
    BY <1>3
  <2>2. PICK a \in Int, b \in Int, r \in Int : a = c * (left - 2) /\ b = c * (left - 1) /\ r = m - s
    BY <1>5
  <2>3. a < r /\ r <= b
    BY <1>7, <2>2
  <2>4. g * a < g * r /\ g * r <= g * b
    BY <2>3
  <2>5. /\ ChunkSamples * (left - 2) = g * a /\ ChunkSamples * (left - 1) = g * b
        /\ q.rest = g * r
    BY <1>4, <1>5, <1>11, <2>1, <2>2
  <2>6. (n - (i + 1)) - 1 = left - 2 /\ n - (i + 1) = left - 1
    BY <1>5
  <2> QED  BY <2>4, <2>5, <2>6
<1>14. AtMost(ChunkSamples, samples) <= ChunkSamples /\ AtMost(ChunkSamples, samples) \in Int
       /\ AtMost(ChunkSamples, samples) <= samples
  BY <1>3 DEF AtMost
<1>15. q.rest = 0 \/ 2 * q.rest >= AtMost(ChunkSamples, samples)
  <2>1. CASE m = s
    BY <1>3, <1>11, <2>1
  <2>2. CASE 2 * (m - s) >= c
    <3>1. PICK g \in Nat \ {0}, r \in Nat : g = PageSamples /\ r = m - s
      BY <1>3, <1>11
    <3>2. g * (2 * r) >= g * c
      BY <2>2, <3>1
    <3>3. 2 * q.rest >= ChunkSamples
      BY <1>4, <1>11, <3>1, <3>2
    <3> QED  BY <1>3, <1>12, <1>14, <3>3
  <2> QED  BY <1>7, <2>1, <2>2
<1>16. GoodSize(k, samples)
  <2>1. x % PageSamples = 0
    <3>1. x = PageSamples * s /\ s \in Int
      BY <1>8
    <3> QED  BY <1>3, <3>1, MultipleIs
  <2>2. x <= ChunkSamples
    BY <1>3, <1>4, <1>7, <1>8
  <2>3. 2 * x >= AtMost(ChunkSamples, samples)
    <3>1. CASE m = s
      <4>1. x = p.rest
        BY <1>2, <1>8, <3>1
      <4> QED  BY <1>1, <1>6, <4>1
    <3>2. CASE 2 * PageSamples * s >= PageSamples * c
      <4>1. 2 * x >= ChunkSamples
        BY <1>3, <1>4, <1>8, <3>2
      <4> QED  BY <1>3, <1>14, <4>1
    <3> QED  BY <1>7, <3>1, <3>2
  <2> QED  BY <1>9, <2>1, <2>2, <2>3 DEF GoodSize
<1>17. /\ q.chunks \in Seq(Chunk) /\ Len(q.chunks) = i + 1 /\ q.chunks[i + 1] = k
       /\ \A j \in 1 .. i : q.chunks[j] = p.chunks[j]
  <2>1. PICK ch \in Seq(Chunk) : ch = p.chunks /\ Len(ch) = i
    BY <1>1
  <2>2. q.chunks = Append(ch, k)
    BY <1>9, <2>1, Zenon
  <2>3. /\ Append(ch, k) \in Seq(Chunk) /\ Len(Append(ch, k)) = i + 1
        /\ Append(ch, k)[i + 1] = k /\ \A j \in 1 .. i : Append(ch, k)[j] = ch[j]
    BY <1>10, <2>1
  <2> QED  BY <2>1, <2>2, <2>3, Zenon
<1>18. \A j \in 1 .. i + 1 : GoodSize(q.chunks[j], samples)
  <2>1. \A j \in 1 .. i : GoodSize(p.chunks[j], samples)
    BY DEF Cut
  <2>2. \A j \in 1 .. i + 1 : j \in 1 .. i \/ j = i + 1
    OBVIOUS
  <2>3. ASSUME NEW j \in 1 .. i + 1 PROVE GoodSize(q.chunks[j], samples)
    <3>1. CASE j = i + 1
      BY <1>16, <1>17, <3>1, Zenon
    <3>2. CASE j \in 1 .. i
      BY <1>17, <2>1, <3>2, Zenon
    <3> QED  BY <2>2, <3>1, <3>2
  <2> QED  BY <2>3
<1>19. \A j \in 1 .. i :
         /\ q.chunks[j + 1].first = q.chunks[j].last
         /\ q.chunks[j + 1].offset = q.chunks[j].offset + q.chunks[j].samples * SampleBytes
  <2> SUFFICES ASSUME NEW j \in 1 .. i
               PROVE  /\ q.chunks[j + 1].first = p.chunks[j].last
                      /\ q.chunks[j + 1].offset = p.chunks[j].offset + p.chunks[j].samples * SampleBytes
    BY <1>17
  <2>1. CASE j = i
    <3>1. /\ p.chunks[i].last = U64(first + p.at)
          /\ p.chunks[i].offset + p.chunks[i].samples * SampleBytes = p.at * SampleBytes
      BY <2>1 DEF Cut
    <3> QED  BY <1>9, <1>17, <2>1, <3>1
  <2>2. CASE j # i
    <3>1. j \in 1 .. i - 1 /\ j + 1 \in 1 .. i
      BY <2>2
    <3>2. /\ p.chunks[j + 1].first = p.chunks[j].last
          /\ p.chunks[j + 1].offset = p.chunks[j].offset + p.chunks[j].samples * SampleBytes
      BY <3>1 DEF Cut
    <3> QED  BY <1>17, <3>1, <3>2
  <2> QED  BY <2>1, <2>2
<1>20. q.chunks[1].first = U64(first) /\ q.chunks[1].offset = 0
  <2>1. CASE i = 0
    <3>1. p.at = 0 /\ first + p.at = first
      BY <2>1 DEF Cut
    <3> QED  BY <1>3, <1>9, <1>17, <2>1, <3>1
  <2>2. CASE i > 0
    <3>1. p.chunks[1].first = U64(first) /\ p.chunks[1].offset = 0
      BY <2>2 DEF Cut
    <3>2. 1 \in 1 .. i
      BY <2>2
    <3> QED  BY <1>17, <3>1, <3>2, Zenon
  <2> QED  BY <2>1, <2>2
<1>21. /\ q.chunks[i + 1].last = U64(first + q.at)
       /\ q.chunks[i + 1].offset + q.chunks[i + 1].samples * SampleBytes = q.at * SampleBytes
  <2>1. first + p.at + x = first + q.at
    BY <1>1, <1>8, <1>9
  <2>2. p.at * SampleBytes + x * SampleBytes = (p.at + x) * SampleBytes
    BY <1>1, <1>3
  <2> QED  BY <1>9, <1>17, <2>1, <2>2
<1>22. i + 1 # 0 /\ (i + 1) - 1 = i
  OBVIOUS
<1>23. \E y \in Nat : q.rest = PageSamples * y
  BY <1>11
<1>24. Cut(q, i + 1, n, first, samples)
  BY <1>12, <1>13, <1>15, <1>17, <1>18, <1>19, <1>20, <1>21, <1>22, <1>23, Zenon DEF Cut
<1> QED  BY <1>24 DEF q

(* The file of a snapshot, cut to the end.                                 *)
LEMMA CutToTheEnd ==
  ASSUME w_chunksize \in 1 .. MaxChunkKib, (w_chunksize * Kib) % PageBytes = 0,
         NEW bytes \in Nat \ {0}, bytes % PageBytes = 0,
         NEW samples \in Nat, bytes = samples * SampleBytes, NEW first \in Nat
  PROVE  \E n \in Nat \ {0} :
            \E p : /\ ChunksOf(first, samples, bytes) = p.chunks
                   /\ Cut(p, n, n, first, samples)
<1>1. /\ PageSamples \in Nat \ {0} /\ PageBytes = SampleBytes * PageSamples
      /\ ChunkSamples \in Nat \ {0} /\ w_chunksize * Kib = SampleBytes * ChunkSamples
      /\ SampleBytes \in Nat \ {0} /\ PageBytes \in Nat \ {0}
  BY SizesAre, Widths
<1>2. PICK z \in Nat \ {0} : z = SampleBytes * ChunkSamples
  BY <1>1
<1>3. PICK n \in Int : /\ n = NChunks(bytes)
                       /\ z * (n - 1) < bytes /\ bytes <= z * n
  <2>1. bytes \in Int /\ NChunks(bytes) = CeilDiv(bytes, z)
    BY <1>1, <1>2, ChunksSuffice
  <2> QED  BY <2>1, CeilDivBounds
<1>4. ChunkSamples * (n - 1) < samples /\ samples <= ChunkSamples * n
  <2>1. PICK g \in Nat \ {0} : g = ChunkSamples
    BY <1>1
  <2>2. z * (n - 1) = SampleBytes * (g * (n - 1)) /\ z * n = SampleBytes * (g * n)
        /\ g * (n - 1) \in Int /\ g * n \in Int /\ bytes = SampleBytes * samples /\ samples \in Int
    BY <1>1, <1>2, <2>1
  <2>3. SampleBytes * (g * (n - 1)) < SampleBytes * samples
        /\ SampleBytes * samples <= SampleBytes * (g * n)
    BY <1>3, <2>2
  <2>4. g * (n - 1) < samples
    BY <1>1, <2>2, <2>3, Cancel, Zenon
  <2>5. samples <= g * n
    BY <1>1, <2>2, <2>3, Cancel, Zenon
  <2> QED  BY <2>1, <2>4, <2>5
<1>5. n \in Nat \ {0}
  <2>1. n <= 0 => z * n <= 0
    BY <1>2
  <2>2. z * n \in Int
    BY <1>2
  <2> QED  BY <1>3, <2>1, <2>2
<1>6. samples \in Nat \ {0} /\ \E m \in Nat : samples = PageSamples * m
  <2>1. samples # 0
    BY <1>1
  <2>2. PICK x \in Int : bytes = PageBytes * x
    <3>1. bytes \in Int
      OBVIOUS
    <3> QED  BY <1>1, <3>1, Divides, Zenon
  <2>3. PICK g \in Nat \ {0} : g = PageSamples
    BY <1>1
  <2>4. SampleBytes * samples = SampleBytes * (g * x) /\ g * x \in Int /\ samples \in Int
    BY <1>1, <2>2, <2>3
  <2>5. samples <= g * x /\ g * x <= samples
    <3>1. SampleBytes * samples <= SampleBytes * (g * x)
          /\ SampleBytes * (g * x) <= SampleBytes * samples
      BY <1>1, <2>4
    <3> QED  BY <1>1, <2>4, <3>1, Cancel, Zenon
  <2>6. samples = g * x
    BY <2>4, <2>5
  <2>7. x >= 0
    <3>1. x < 0 => g * x < 0
      OBVIOUS
    <3> QED  BY <2>6, <3>1
  <2> QED  BY <2>1, <2>3, <2>6, <2>7
<1>7. PICK f : /\ ChunksOf(first, samples, bytes) = f[n].chunks
               /\ f[0] = Uncut(samples)
               /\ \A i \in 1 .. n : f[i] = OneMore(f[i - 1], first)
  <2>1. NChunks(bytes) \in Nat
    BY <1>3, <1>5
  <2>2. PICK f : /\ ChunksOf(first, samples, bytes) = f[NChunks(bytes)].chunks
                 /\ f[0] = Uncut(samples)
                 /\ \A i \in 1 .. NChunks(bytes) : f[i] = OneMore(f[i - 1], first)
    BY <2>1, ChunksAre
  <2>3. /\ ChunksOf(first, samples, bytes) = f[n].chunks
        /\ \A i \in 1 .. n : f[i] = OneMore(f[i - 1], first)
    BY <1>3, <2>2
  <2> QED  BY <2>2, <2>3
<1> DEFINE T == {i \in Nat : i <= n => Cut(f[i], i, n, first, samples)}
<1>8. 0 \in T
  <2>1. f[0] = [chunks |-> <<>>, rest |-> samples, at |-> 0]
    BY <1>7 DEF Uncut
  <2>2. /\ f[0].chunks = <<>> /\ f[0].rest = samples /\ f[0].at = 0
        /\ f[0].chunks \in Seq(Chunk) /\ Len(f[0].chunks) = 0
    BY <2>1
  <2>3. 2 * samples >= AtMost(ChunkSamples, samples)
    BY <1>1 DEF AtMost
  <2>4. (n - 0) - 1 = n - 1 /\ n - 0 = n
    BY <1>5
  <2>5. /\ f[0].rest \in Nat /\ f[0].at \in Nat /\ f[0].rest + f[0].at = samples
    BY <2>2
  <2>6. 1 .. 0 = {} /\ 1 .. 0 - 1 = {} /\ ~(0 > 0)
    OBVIOUS
  <2>7. Cut(f[0], 0, n, first, samples)
    BY <1>4, <1>6, <2>2, <2>3, <2>4, <2>5, <2>6, Zenon DEF Cut
  <2> QED  BY <2>7
<1>9. ASSUME NEW i \in Nat, i \in T PROVE i + 1 \in T
  <2> SUFFICES ASSUME i + 1 <= n PROVE Cut(f[i + 1], i + 1, n, first, samples)
    OBVIOUS
  <2>1. Cut(f[i], i, n, first, samples) /\ i < n /\ n \in Nat
    BY <1>5, <1>9
  <2>2. f[i + 1] = OneMore(f[i], first)
    <3>1. i + 1 \in 1 .. n /\ (i + 1) - 1 = i
      BY <1>5
    <3>2. f[i + 1] = OneMore(f[(i + 1) - 1], first)
      BY <1>7, <3>1, Zenon
    <3> QED  BY <3>1, <3>2, Zenon
  <2> QED  BY <1>6, <2>1, <2>2, CutGoesOn, Zenon
<1>10. n \in T
  <2> HIDE DEF T
  <2> QED  BY <1>5, <1>8, <1>9, NatInductive
<1>11. Cut(f[n], n, n, first, samples)
  BY <1>5, <1>10
<1> QED  BY <1>5, <1>7, <1>11, Zenon

(* The chunks of a file, whatever its size, follow one another without a   *)
(* gap and fill it; none is larger than a chunk or smaller than half of    *)
(* one (writer.c:1018-1087).                                               *)
THEOREM FilesAreTiled ==
  Spec => []FileIsTiled
<1>1. IInv => FileIsTiled
  <2> SUFFICES ASSUME IInv, NEW s \in All, s.file # None, s.bytes > 0
               PROVE  LET c == ChunksOf(s.file, s.samples, s.bytes)
                          n == Len(c)
                      IN /\ n > 0 /\ c[1].first = s.file /\ c[1].offset = 0
                         /\ \A i \in 1 .. n - 1 :
                              c[i + 1].first = c[i].last /\ c[i + 1].offset = c[i].offset + c[i].samples * SampleBytes
                         /\ c[n].last = U64(s.file + s.samples)
                         /\ c[n].offset + c[n].samples * SampleBytes = s.bytes
                         /\ \A i \in 1 .. n :
                              /\ c[i].samples % PageSamples = 0 /\ c[i].samples <= ChunkSamples
                              /\ 2 * c[i].samples >= AtMost(ChunkSamples, s.samples)
    BY DEF FileIsTiled
  <2>1. s \in Snapshot /\ Paged(s)
    BY QueueIs DEF IInv, TypeOK, FilesPaged, All
  <2>2. /\ s.bytes \in Nat \ {0} /\ s.bytes % PageBytes = 0 /\ s.bytes = s.samples * SampleBytes
        /\ s.samples \in Nat /\ s.file \in Nat /\ s.file < Word
    BY <2>1, Widths DEF Snapshot, Paged
  <2>3. w_chunksize \in 1 .. MaxChunkKib /\ (w_chunksize * Kib) % PageBytes = 0
    BY DEF IInv, TypeOK
  <2>0. PICK n \in Nat \ {0} :
          \E p : /\ ChunksOf(s.file, s.samples, s.bytes) = p.chunks
                 /\ Cut(p, n, n, s.file, s.samples)
    BY <2>2, <2>3, CutToTheEnd
  <2>4. PICK p : /\ ChunksOf(s.file, s.samples, s.bytes) = p.chunks
                 /\ Cut(p, n, n, s.file, s.samples)
    BY <2>0
  <2>5. PICK c : c = p.chunks
    OBVIOUS
  <2>6. /\ Len(c) = n /\ n > 0
        /\ \A j \in 1 .. n : GoodSize(c[j], s.samples)
        /\ \A j \in 1 .. n - 1 :
             /\ c[j + 1].first = c[j].last
             /\ c[j + 1].offset = c[j].offset + c[j].samples * SampleBytes
        /\ c[1].first = U64(s.file) /\ c[1].offset = 0
        /\ c[n].last = U64(s.file + p.at)
        /\ c[n].offset + c[n].samples * SampleBytes = p.at * SampleBytes
    BY <2>4, <2>5 DEF Cut
  <2>7. p.at = s.samples
    <3>1. p.rest \in Nat /\ p.at \in Nat /\ p.rest + p.at = s.samples
          /\ p.rest <= ChunkSamples * (n - n)
      BY <2>4 DEF Cut
    <3>2. ChunkSamples * (n - n) = 0
      BY <2>3, SizesAre
    <3> QED  BY <3>1, <3>2
  <2>8. U64(s.file) = s.file
    BY <2>2, WrapIs
  <2>9. /\ Len(c) > 0 /\ c[1].first = s.file /\ c[1].offset = 0
        /\ \A i \in 1 .. Len(c) - 1 :
             c[i + 1].first = c[i].last /\ c[i + 1].offset = c[i].offset + c[i].samples * SampleBytes
        /\ c[Len(c)].last = U64(s.file + s.samples)
        /\ c[Len(c)].offset + c[Len(c)].samples * SampleBytes = s.bytes
    BY <2>2, <2>6, <2>7, <2>8
  <2>10. \A i \in 1 .. Len(c) :
           /\ c[i].samples % PageSamples = 0 /\ c[i].samples <= ChunkSamples
           /\ 2 * c[i].samples >= AtMost(ChunkSamples, s.samples)
    BY <2>6 DEF GoodSize
  <2>11. c = ChunksOf(s.file, s.samples, s.bytes)
    BY <2>4, <2>5, Zenon
  <2> QED  BY <2>9, <2>10, <2>11, Zenon
<1> QED  BY Invariance, <1>1, PTL
=============================================================================
