-------------------------- MODULE VdmaMemoryProofs --------------------------
(***************************************************************************)
(* Proofs about VdmaMemory, for any files, channels and addresses, and any *)
(* number of handles and of transfers under way.                           *)
(***************************************************************************)
EXTENDS VdmaMemory, SequenceTheorems, FunctionTheorems, FiniteSetTheorems,
        WellFoundedInduction, TLAPS

(* A non-empty set of naturals has a least element: the newest that fits.  *)
LEMMA LeastNat ==
  ASSUME NEW T \in SUBSET Nat, T # {}
  PROVE  \E m \in T : \A k \in T : m <= k
<1>1. IsWellFoundedOn(OpToRel(<, Nat), Nat)
  BY NatLessThanWellFounded
<1>2. PICK m \in T : \A k \in T : ~(<<k, m>> \in OpToRel(<, Nat))
  BY <1>1, WFMin
<1>3. \A k \in T : ~(k < m)
  BY <1>2 DEF OpToRel
<1>4. \A k \in T : m <= k
  BY <1>3
<1> QED
  BY <1>4

(* A sequence without its k-th element.                                    *)
LEMMA Cut ==
  ASSUME NEW S, NEW s \in Seq(S), NEW k \in 1 .. Len(s)
  PROVE  LET u == SubSeq(s, 1, k - 1) \o SubSeq(s, k + 1, Len(s)) IN
         /\ u \in Seq(S) /\ Len(u) = Len(s) - 1
         /\ \A j \in 1 .. k - 1 : u[j] = s[j]
         /\ \A j \in k .. Len(s) - 1 : u[j] = s[j + 1]
<1> DEFINE a == SubSeq(s, 1, k - 1)
           b == SubSeq(s, k + 1, Len(s))
<1>1. a \in Seq(S) /\ Len(a) = k - 1 /\ \A j \in 1 .. k - 1 : a[j] = s[j]
  OBVIOUS
<1>2. b \in Seq(S) /\ Len(b) = Len(s) - k /\ \A j \in 1 .. Len(s) - k : b[j] = s[j + k]
  OBVIOUS
<1>3. Len(s) \in Nat /\ k \in Nat
  OBVIOUS
<1> HIDE DEF a, b
<1>4. /\ a \o b \in Seq(S) /\ Len(a \o b) = Len(a) + Len(b)
      /\ \A j \in 1 .. Len(a) + Len(b) :
           (a \o b)[j] = IF j <= Len(a) THEN a[j] ELSE b[j - Len(a)]
  BY <1>1, <1>2, ConcatProperties
<1>5. Len(a \o b) = Len(s) - 1
  BY <1>1, <1>2, <1>3, <1>4
<1>6. \A j \in 1 .. k - 1 : (a \o b)[j] = s[j]
  BY <1>1, <1>2, <1>3, <1>4
<1>7. ASSUME NEW j \in k .. Len(s) - 1 PROVE (a \o b)[j] = s[j + 1]
  <2>1. j \in 1 .. Len(a) + Len(b) /\ ~(j <= Len(a)) /\ j - Len(a) \in 1 .. Len(s) - k
    BY <1>1, <1>2, <1>3
  <2>2. (a \o b)[j] = b[j - Len(a)] /\ b[j - Len(a)] = s[j - Len(a) + k]
    BY <1>2, <1>4, <2>1
  <2>3. j - Len(a) + k = j + 1
    BY <1>1, <1>3
  <2> QED
    BY <2>2, <2>3
<1> QED
  BY <1>4, <1>5, <1>6, <1>7 DEF a, b

----------------------------------------------------------------------------
(* Counting buffers: where in the files' lists m there is one that is      *)
(* backed by a member of B.                                                *)
At(m, B) ==
  {q \in Files \X Nat : /\ q[2] \in 1 .. Len(m[q[1]])
                        /\ m[q[1]][q[2]].backing \in B}

LEMMA AtPairs ==
  ASSUME NEW m, NEW B
  PROVE  /\ \A q \in At(m, B) : \E g \in Files, i \in Nat : q = <<g, i>>
         /\ \A g \in Files, i \in Nat :
              <<g, i>> \in At(m, B) <=> i \in 1 .. Len(m[g]) /\ m[g][i].backing \in B
BY DEF At

LEMMA SameSize ==
  ASSUME NEW S, NEW T, IsFiniteSet(S), NEW move \in [S -> T],
         \A q, r \in S : move[q] = move[r] => q = r,
         \A r \in T : \E q \in S : move[q] = r
  PROVE  IsFiniteSet(T) /\ Cardinality(T) = Cardinality(S)
<1>1. move \in Bijection(S, T)
  BY Fun_IsBij
<1> QED
  BY <1>1, FS_Bijection DEF ExistsBijection

(* The places in T are those in S, but behind position k of file f all     *)
(* have moved by one.                                                      *)
Moved(f, k, S, T) ==
  /\ S \in SUBSET (Files \X Nat) /\ T \in SUBSET (Files \X Nat)
  /\ \A g \in Files, i \in Nat :
       /\ g # f \/ i <= k => (<<g, i>> \in T <=> <<g, i>> \in S)
       /\ g = f /\ i > k => (<<g, i + 1>> \in T <=> <<g, i>> \in S)
  /\ <<f, k + 1>> \notin T

LEMMA MovedPlaces ==
  ASSUME NEW f \in Files, NEW k \in Nat, NEW S, NEW T, Moved(f, k, S, T),
         IsFiniteSet(S) \/ IsFiniteSet(T)
  PROVE  IsFiniteSet(S) /\ IsFiniteSet(T) /\ Cardinality(T) = Cardinality(S)
<1> USE DEF Moved
<1> DEFINE Move(g, i) == IF g = f /\ i > k THEN <<g, i + 1>> ELSE <<g, i>>
           move == [q \in S |-> Move(q[1], q[2])]
<1>1. \A q \in S \union T : \E g \in Files, i \in Nat : q = <<g, i>>
  OBVIOUS
<1>2. ASSUME NEW g \in Files, NEW i \in Nat, <<g, i>> \in S
      PROVE  Move(g, i) \in T /\ move[<<g, i>>] = Move(g, i)
  BY <1>2
<1>3. move \in [S -> T]
  <2>1. \A q \in S : Move(q[1], q[2]) \in T
    <3> TAKE q \in S
    <3>1. PICK g \in Files, i \in Nat : q = <<g, i>>
      BY <1>1
    <3>2. q[1] = g /\ q[2] = i
      BY <3>1
    <3> HIDE DEF Move
    <3> QED
      BY <1>2, <3>1, <3>2
  <2> QED
    BY <2>1
<1>4. \A q, r \in S : move[q] = move[r] => q = r
  <2> TAKE q, r \in S
  <2>1. PICK g \in Files, i \in Nat : q = <<g, i>>
    BY <1>1
  <2>2. PICK h \in Files, j \in Nat : r = <<h, j>>
    BY <1>1
  <2>3. move[q] = Move(g, i) /\ move[r] = Move(h, j)
    BY <1>2, <2>1, <2>2
  <2>4. Move(g, i) = Move(h, j) => g = h /\ i = j
    OBVIOUS
  <2> HIDE DEF Move, move
  <2> QED
    BY <2>1, <2>2, <2>3, <2>4
<1>5. \A r \in T : \E q \in S : move[q] = r
  <2> TAKE r \in T
  <2>1. PICK g \in Files, i \in Nat : r = <<g, i>>
    BY <1>1
  <2>2. CASE g # f \/ i <= k
    <3>1. <<g, i>> \in S
      BY <2>1, <2>2
    <3>2. Move(g, i) = <<g, i>>
      BY <2>2
    <3> HIDE DEF move, Move
    <3> QED
      BY <1>2, <2>1, <3>1, <3>2
  <2>3. CASE g = f /\ i > k
    <3>1. i - 1 \in Nat /\ i - 1 > k /\ (i - 1) + 1 = i
      BY <2>1, <2>3
    <3>2. <<g, i - 1>> \in S
      BY <2>1, <2>3, <3>1
    <3>3. Move(g, i - 1) = <<g, i>>
      BY <2>3, <3>1
    <3> HIDE DEF move, Move
    <3> QED
      BY <1>2, <2>1, <3>1, <3>2, <3>3
  <2> QED
    BY <2>2, <2>3
<1> HIDE DEF move
<1>6. IsFiniteSet(S)
  <2>1. move \in Injection(S, T)
    BY <1>3, <1>4, Fun_IsInj
  <2> QED
    BY <2>1, FS_Injection
<1> QED
  BY <1>3, <1>4, <1>5, <1>6, SameSize

(* How the lists m of the files become n.                                  *)
OthersKept(m, n, f) ==
  /\ m \in [Files -> Seq(Buffers)] /\ n \in [Files -> Seq(Buffers)]
  /\ \A g \in Files : g # f => n[g] = m[g]

Inserted(m, n, f) ==
  /\ OthersKept(m, n, f)
  /\ Len(n[f]) = Len(m[f]) + 1
  /\ \A i \in 1 .. Len(m[f]) : n[f][i + 1] = m[f][i]

Removed(m, n, f, k) ==
  /\ OthersKept(m, n, f)
  /\ Len(n[f]) = Len(m[f]) - 1
  /\ \A j \in 1 .. k - 1 : n[f][j] = m[f][j]
  /\ \A j \in k .. Len(m[f]) - 1 : n[f][j] = m[f][j + 1]

(* A new buffer moves the others of its file by one.                       *)
LEMMA CountInsert ==
  ASSUME NEW m, NEW n, NEW f \in Files, NEW B, IsFiniteSet(At(m, B)), Inserted(m, n, f)
  PROVE  /\ IsFiniteSet(At(n, B))
         /\ Cardinality(At(n, B)) =
              Cardinality(At(m, B)) + (IF n[f][1].backing \in B THEN 1 ELSE 0)
<1> USE DEF Inserted, OthersKept
<1> DEFINE old == At(n, B) \ {<<f, 1>>}
<1>1. /\ At(m, B) \in SUBSET (Files \X Nat) /\ old \in SUBSET (Files \X Nat)
      /\ <<f, 0 + 1>> \notin old
  BY DEF At
<1>2. \A g \in Files : Len(m[g]) \in Nat
  OBVIOUS
<1>3. ASSUME NEW g \in Files, NEW i \in Nat
      PROVE  /\ g # f \/ i <= 0 => (<<g, i>> \in old <=> <<g, i>> \in At(m, B))
             /\ g = f /\ i > 0 => (<<g, i + 1>> \in old <=> <<g, i>> \in At(m, B))
  <2>1. CASE g # f
    <3>1. <<g, i>> \in old <=> <<g, i>> \in At(n, B)
      BY <2>1
    <3>2. <<g, i>> \in At(n, B) <=> <<g, i>> \in At(m, B)
      <4>1. n[g] = m[g]
        BY <2>1
      <4>2. <<g, i>> \in At(n, B) <=> i \in 1 .. Len(n[g]) /\ n[g][i].backing \in B
        BY AtPairs
      <4>3. <<g, i>> \in At(m, B) <=> i \in 1 .. Len(m[g]) /\ m[g][i].backing \in B
        BY AtPairs
      <4> QED
        BY <4>1, <4>2, <4>3, Zenon
    <3> HIDE DEF old
    <3> QED
      BY <2>1, <3>1, <3>2
  <2>2. CASE g = f /\ i <= 0
    BY <2>2, AtPairs
  <2>3. CASE g = f /\ i > 0
    <3>0. <<f, i + 1>> # <<f, 1>> /\ i + 1 \in Nat
      BY <2>3
    <3>1. <<f, i + 1>> \in old <=> i + 1 \in 1 .. Len(n[f]) /\ n[f][i + 1].backing \in B
      BY <3>0, AtPairs
    <3>2. <<f, i>> \in At(m, B) <=> i \in 1 .. Len(m[f]) /\ m[f][i].backing \in B
      BY AtPairs
    <3>3. i + 1 \in 1 .. Len(n[f]) <=> i \in 1 .. Len(m[f])
      BY <1>2, <2>3
    <3> HIDE DEF old
    <3> QED
      BY <2>3, <3>1, <3>2, <3>3
  <2> QED
    BY <2>1, <2>2, <2>3
<1>4. IsFiniteSet(old) /\ Cardinality(old) = Cardinality(At(m, B))
  <2> HIDE DEF old
  <2>1. Moved(f, 0, At(m, B), old)
    BY <1>1, <1>3, Zenon DEF Moved
  <2> QED
    BY <2>1, MovedPlaces
<1>5. <<f, 1>> \in At(n, B) <=> n[f][1].backing \in B
  BY <1>2, AtPairs
<1>6. Cardinality(At(m, B)) \in Nat
  BY FS_CardinalityType
<1>7. CASE n[f][1].backing \in B
  <2>1. At(n, B) = old \union {<<f, 1>>} /\ <<f, 1>> \notin old
    BY <1>5, <1>7
  <2> HIDE DEF old
  <2>2. IsFiniteSet(At(n, B)) /\ Cardinality(At(n, B)) = Cardinality(old) + 1
    BY <1>4, <2>1, FS_AddElement
  <2> QED
    BY <1>4, <1>7, <2>2
<1>8. CASE n[f][1].backing \notin B
  <2>1. At(n, B) = old
    BY <1>5, <1>8
  <2> HIDE DEF old
  <2> QED
    BY <1>4, <1>6, <1>8, <2>1
<1> QED
  BY <1>7, <1>8

(* One that leaves moves those behind it.                                  *)
LEMMA CountRemove ==
  ASSUME NEW m, NEW n, NEW f \in Files, NEW k \in 1 .. Len(m[f]), NEW B,
         IsFiniteSet(At(m, B)), Removed(m, n, f, k)
  PROVE  /\ IsFiniteSet(At(n, B))
         /\ Cardinality(At(n, B)) =
              Cardinality(At(m, B)) - (IF m[f][k].backing \in B THEN 1 ELSE 0)
<1> USE DEF Removed, OthersKept
<1> DEFINE rest == At(m, B) \ {<<f, k>>}
<1>2. k \in Nat /\ k - 1 \in Nat /\ (k - 1) + 1 = k /\ Len(m[f]) \in Nat
  OBVIOUS
<1>1. /\ At(n, B) \in SUBSET (Files \X Nat) /\ rest \in SUBSET (Files \X Nat)
      /\ <<f, (k - 1) + 1>> \notin rest
  BY <1>2 DEF At
<1>3. ASSUME NEW g \in Files, NEW i \in Nat
      PROVE  /\ g # f \/ i <= k - 1 => (<<g, i>> \in rest <=> <<g, i>> \in At(n, B))
             /\ g = f /\ i > k - 1 => (<<g, i + 1>> \in rest <=> <<g, i>> \in At(n, B))
  <2>1. CASE g # f
    <3>1. <<g, i>> \in rest <=> <<g, i>> \in At(m, B)
      BY <2>1
    <3>2. <<g, i>> \in At(n, B) <=> <<g, i>> \in At(m, B)
      <4>1. n[g] = m[g]
        BY <2>1
      <4>2. <<g, i>> \in At(n, B) <=> i \in 1 .. Len(n[g]) /\ n[g][i].backing \in B
        BY AtPairs
      <4>3. <<g, i>> \in At(m, B) <=> i \in 1 .. Len(m[g]) /\ m[g][i].backing \in B
        BY AtPairs
      <4> QED
        BY <4>1, <4>2, <4>3, Zenon
    <3> HIDE DEF rest
    <3> QED
      BY <2>1, <3>1, <3>2
  <2>2. CASE g = f /\ i <= k - 1
    <3>1. <<f, i>> \in rest <=> i \in 1 .. Len(m[f]) /\ m[f][i].backing \in B
      BY <1>2, <2>2, AtPairs
    <3>2. <<f, i>> \in At(n, B) <=> i \in 1 .. Len(n[f]) /\ n[f][i].backing \in B
      BY AtPairs
    <3>3. /\ i \in 1 .. Len(n[f]) <=> i \in 1 .. Len(m[f])
          /\ i \in 1 .. Len(n[f]) => i \in 1 .. k - 1
      BY <1>2, <2>2
    <3> HIDE DEF rest
    <3> QED
      BY <1>2, <2>2, <3>1, <3>2, <3>3
  <2>3. CASE g = f /\ i > k - 1
    <3>1. <<f, i + 1>> \in rest <=> i + 1 \in 1 .. Len(m[f]) /\ m[f][i + 1].backing \in B
      BY <1>2, <2>3, AtPairs
    <3>2. <<f, i>> \in At(n, B) <=> i \in 1 .. Len(n[f]) /\ n[f][i].backing \in B
      BY AtPairs
    <3>3. /\ i + 1 \in 1 .. Len(m[f]) <=> i \in 1 .. Len(n[f])
          /\ i \in 1 .. Len(n[f]) => i \in k .. Len(m[f]) - 1
      BY <1>2, <2>3
    <3> HIDE DEF rest
    <3> QED
      BY <1>2, <2>3, <3>1, <3>2, <3>3
  <2> QED
    BY <1>2, <2>1, <2>2, <2>3
<1>4. /\ IsFiniteSet(rest)
      /\ Cardinality(rest) = IF <<f, k>> \in At(m, B) THEN Cardinality(At(m, B)) - 1
                             ELSE Cardinality(At(m, B))
  BY FS_RemoveElement
<1>5. IsFiniteSet(At(n, B)) /\ Cardinality(At(n, B)) = Cardinality(rest)
  <2> HIDE DEF rest
  <2>1. Moved(f, k - 1, At(n, B), rest)
    BY <1>1, <1>3, Zenon DEF Moved
  <2> QED
    BY <1>2, <1>4, <2>1, MovedPlaces
<1>6. <<f, k>> \in At(m, B) <=> m[f][k].backing \in B
  BY <1>2, AtPairs
<1>7. Cardinality(At(m, B)) \in Nat
  BY FS_CardinalityType
<1> HIDE DEF rest
<1> QED
  BY <1>4, <1>5, <1>6, <1>7

(* All buffers of a file leave.                                            *)
LEMMA CountClear ==
  ASSUME NEW m, NEW n, NEW f \in Files, NEW B, IsFiniteSet(At(m, B)),
         OthersKept(m, n, f), n[f] = <<>>
  PROVE  LET here == {i \in 1 .. Len(m[f]) : m[f][i].backing \in B} IN
         /\ IsFiniteSet(At(n, B)) /\ IsFiniteSet(here)
         /\ Cardinality(At(n, B)) = Cardinality(At(m, B)) - Cardinality(here)
<1> USE DEF OthersKept
<1> DEFINE here == {i \in 1 .. Len(m[f]) : m[f][i].backing \in B}
           gone == {q \in At(m, B) : q[1] = f}
           place == [i \in here |-> <<f, i>>]
<1>1. Len(n[f]) = 0 /\ Len(m[f]) \in Nat
  OBVIOUS
<1>2. At(n, B) = At(m, B) \ gone
  <2>1. ASSUME NEW g \in Files, NEW i \in Nat
        PROVE  <<g, i>> \in At(n, B) <=> <<g, i>> \in At(m, B) /\ g # f
    <3>1. CASE g = f
      <4>1. ~(i \in 1 .. Len(n[f]))
        BY <1>1
      <4> QED
        BY <3>1, <4>1, AtPairs
    <3>2. CASE g # f
      <4>1. n[g] = m[g]
        BY <3>2
      <4>2. <<g, i>> \in At(n, B) <=> i \in 1 .. Len(n[g]) /\ n[g][i].backing \in B
        BY AtPairs
      <4>3. <<g, i>> \in At(m, B) <=> i \in 1 .. Len(m[g]) /\ m[g][i].backing \in B
        BY AtPairs
      <4> QED
        BY <3>2, <4>1, <4>2, <4>3, Zenon
    <3> QED
      BY <3>1, <3>2
  <2>2. \A q \in At(n, B) \union At(m, B) : \E g \in Files, i \in Nat : q = <<g, i>>
    BY AtPairs
  <2>3. \A q \in At(n, B) : q \in At(m, B) /\ q[1] # f
    BY <2>1, <2>2
  <2>4. \A q \in At(m, B) : q[1] # f => q \in At(n, B)
    BY <2>1, <2>2
  <2> QED
    BY <2>3, <2>4
<1>3. gone \in SUBSET At(m, B)
  OBVIOUS
<1>4. IsFiniteSet(gone)
  BY <1>3, FS_Subset
<1>5. here \subseteq 1 .. Len(m[f]) /\ IsFiniteSet(here)
  <2>1. here \in SUBSET (1 .. Len(m[f])) /\ Len(m[f]) \in Int /\ 1 \in Int
    OBVIOUS
  <2> QED
    BY <2>1, FS_Interval, FS_Subset
<1>6. Cardinality(gone) = Cardinality(here)
  <2>1. \A i \in here : <<f, i>> \in gone
    BY <1>1, AtPairs
  <2>2. place \in [here -> gone]
    BY <2>1
  <2>3. \A i, j \in here : place[i] = place[j] => i = j
    OBVIOUS
  <2>4. \A r \in gone : \E i \in here : place[i] = r
    <3> TAKE r \in gone
    <3>1. PICK g \in Files, i \in Nat : r = <<g, i>>
      BY AtPairs
    <3>2. g = f /\ i \in here
      BY <3>1, AtPairs
    <3> QED
      BY <3>1, <3>2
  <2>5. IsFiniteSet(here)
    BY <1>5
  <2> HIDE DEF place, gone, here
  <2> QED
    BY <2>2, <2>3, <2>4, <2>5, SameSize
<1> HIDE DEF gone
<1>7. /\ IsFiniteSet(At(m, B) \ gone)
      /\ Cardinality(At(m, B) \ gone) =
           Cardinality(At(m, B)) - Cardinality(At(m, B) \intersect gone)
  BY <1>4, FS_Difference
<1>8. At(m, B) \intersect gone = gone
  BY <1>3
<1> QED
  BY <1>2, <1>5, <1>6, <1>7, <1>8

----------------------------------------------------------------------------
(* The inductive invariant.                                                *)

(* Handles in use have been handed out, by the counter they come from.     *)
HandlesIssued ==
  \A f \in Files :
    /\ last_vdma_handle[f] \in 0 .. MaxHandles[f]
    /\ last_vdma_user_buffer_handle[f] \in 0 .. MaxHandles[f]
    /\ \A h \in low_memory[f] \union continuous[f] : h \in 1 .. last_vdma_handle[f]
    /\ \A d \in desc_lists[f] : d.handle \in 1 .. last_vdma_handle[f]

HandlesApart ==
  \A f \in Files :
    /\ low_memory[f] \intersect continuous[f] = {}
    /\ \A d \in desc_lists[f] :
         /\ d.handle \notin low_memory[f] \union continuous[f]
         /\ \A e \in desc_lists[f] : d.handle = e.handle => d = e
    /\ IsFiniteSet(desc_lists[f])

(* References on what backs buffers that no mapped buffer accounts for.    *)
OtherRefs(b) ==
  IF b \in LowPages
  THEN sg_failures[b] + (IF b[2] \in low_memory[b[1]] THEN 1 ELSE 0)
  ELSE IF b = <<"dmabuf">> THEN fds ELSE 0

Accounted ==
  /\ IsFiniteSet(At(mapped, Backings))
  /\ structs = Cardinality(At(mapped, Backings)) + dmabuf_failures
  /\ \A b \in Backings :
       /\ IsFiniteSet(At(mapped, {b}))
       /\ refs[b] = Cardinality(At(mapped, {b})) + OtherRefs(b)

MemoryInv == TypeOK /\ HandlesIssued /\ HandlesApart /\ Accounted

(* Files enable channels apart from each other.                            *)
ChannelsOwned ==
  \A f \in Files :
    /\ context_channels[f] \subseteq enabled_channels
    /\ \A g \in Files : g # f => context_channels[f] \intersect context_channels[g] = {}

(* The file that launched a transfer has its channel enabled: it drops the *)
(* transfer before its memory goes.                                        *)
TransfersOwned == \A c \in Channels : \A t \in Ongoing(c) : c \in context_channels[t.file]

TransferInv ==
  /\ ChannelsOwned /\ DetachedWhenDisabled /\ TransfersOwned
  /\ "idle" \in Contract => TransfersFindMemory

----------------------------------------------------------------------------
(* What backs buffers.                                                     *)
LEMMA LowPagesFacts ==
  /\ <<"user">> \notin LowPages /\ <<"dmabuf">> \notin LowPages
  /\ \A f \in Files : \A h \in 1 .. MaxHandles[f] : <<f, h>> \in LowPages
  /\ \A p \in LowPages : \E f \in Files : \E h \in 1 .. MaxHandles[f] : p = <<f, h>>
<1>1. \A p \in LowPages : \E f \in Files : \E h \in 1 .. MaxHandles[f] : p = <<f, h>>
  BY DEF LowPages
<1>2. \A f \in Files : \A h \in 1 .. MaxHandles[f] : <<f, h>> \in LowPages
  BY DEF LowPages
<1>3. \A p \in LowPages : Len(p) = 2
  BY <1>1
<1> QED
  BY <1>1, <1>2, <1>3

LEMMA HandlesFacts ==
  ASSUME NEW f \in Files
  PROVE  MaxHandles[f] \in Nat /\ 1 .. MaxHandles[f] \subseteq Handles /\ Handles \subseteq Nat
BY ObjectsAssumption DEF Handles

LEMMA BackingOfType ==
  ASSUME MemoryInv, NEW f \in Files, NEW request \in MapRequests, NEW low
  PROVE  BackingOf(f, request, low) \in Backings
<1>1. low \in low_memory[f] => low \in 1 .. MaxHandles[f]
  BY HandlesFacts DEF MemoryInv, HandlesIssued
<1> QED
  BY <1>1, LowPagesFacts DEF BackingOf, Backings

LEMMA OtherRefsType ==
  ASSUME TypeOK, NEW b \in Backings
  PROVE  OtherRefs(b) \in Nat
BY ObjectsAssumption DEF TypeOK, OtherRefs

(* The counts in the model's own terms.                                    *)
LEMMA MappedAt ==
  ASSUME mapped \in [Files -> Seq(Buffers)]
  PROVE  /\ \A b : Mapped(b) = At(mapped, {b})
         /\ UNION {Mapped(b) : b \in Backings} = At(mapped, Backings)
<1>1. ASSUME NEW f \in Files, NEW i \in Nat, NEW b
      PROVE  <<f, i>> \in Mapped(b) <=> i \in 1 .. Len(mapped[f]) /\ mapped[f][i].backing = b
  BY DEF Mapped, BackedBy
<1>2. \A b : \A q \in Mapped(b) : \E f \in Files, i \in Nat : q = <<f, i>>
  BY DEF Mapped, BackedBy
<1>3. ASSUME NEW b PROVE Mapped(b) = At(mapped, {b})
  <2>1. \A q \in Mapped(b) : q \in At(mapped, {b})
    BY <1>1, <1>2, AtPairs
  <2>2. \A q \in At(mapped, {b}) : q \in Mapped(b)
    <3> TAKE q \in At(mapped, {b})
    <3>1. PICK f \in Files, i \in Nat : q = <<f, i>>
      BY AtPairs
    <3>2. i \in 1 .. Len(mapped[f]) /\ mapped[f][i].backing \in {b}
      BY <3>1, AtPairs
    <3> QED
      BY <1>1, <3>1, <3>2
  <2> QED
    BY <2>1, <2>2
<1>4. UNION {Mapped(b) : b \in Backings} = At(mapped, Backings)
  <2>1. ASSUME NEW b \in Backings, NEW q \in Mapped(b) PROVE q \in At(mapped, Backings)
    <3>1. PICK f \in Files, i \in Nat : q = <<f, i>>
      BY <1>2
    <3>2. i \in 1 .. Len(mapped[f]) /\ mapped[f][i].backing = b
      BY <1>1, <3>1, <2>1
    <3> QED
      BY <3>1, <3>2, AtPairs
  <2>2. ASSUME NEW q \in At(mapped, Backings) PROVE \E b \in Backings : q \in Mapped(b)
    <3>1. PICK f \in Files, i \in Nat : q = <<f, i>>
      BY AtPairs
    <3>2. i \in 1 .. Len(mapped[f]) /\ mapped[f][i].backing \in Backings
      BY <2>2, <3>1, AtPairs
    <3> QED
      BY <1>1, <3>1, <3>2
  <2> QED
    BY <2>1, <2>2
<1> QED
  BY <1>3, <1>4

----------------------------------------------------------------------------
(* Mapping and unmapping.                                                  *)
LEMMA HandlesFramed ==
  ASSUME MemoryInv, UNCHANGED <<last_vdma_handle, driverVars>>,
         \/ UNCHANGED last_vdma_user_buffer_handle
         \/ \E f \in Files : next_buffer_handle(f)
  PROVE  /\ HandlesIssued' /\ HandlesApart'
         /\ last_vdma_user_buffer_handle' \in [Files -> Handles \union {0}]
<1> USE DEF MemoryInv, driverVars
<1>1. HandlesApart'
  BY DEF HandlesApart
<1>2. CASE UNCHANGED last_vdma_user_buffer_handle
  BY <1>1, <1>2 DEF HandlesIssued, TypeOK
<1>3. ASSUME NEW f \in Files, next_buffer_handle(f)
      PROVE  HandlesIssued' /\ last_vdma_user_buffer_handle' \in [Files -> Handles \union {0}]
  <2>1. last_vdma_user_buffer_handle[f] + 1 \in 1 .. MaxHandles[f]
    BY <1>3, HandlesFacts DEF HandlesIssued, next_buffer_handle
  <2>2. last_vdma_user_buffer_handle' =
          [last_vdma_user_buffer_handle EXCEPT ![f] = last_vdma_user_buffer_handle[f] + 1]
    BY <1>3 DEF next_buffer_handle
  <2>3. last_vdma_user_buffer_handle[f] + 1 \in Handles
    BY <2>1, HandlesFacts
  <2>4. last_vdma_user_buffer_handle' \in [Files -> Handles \union {0}]
    BY <2>2, <2>3 DEF TypeOK
  <2>5. \A g \in Files : last_vdma_user_buffer_handle'[g] \in 0 .. MaxHandles[g]
    BY <2>1, <2>2, HandlesFacts DEF TypeOK, HandlesIssued
  <2> QED
    BY <2>4, <2>5 DEF HandlesIssued
<1> QED
  BY <1>1, <1>2, <1>3

LEMMA MapBufferStep ==
  ASSUME MemoryInv, NEW f \in Files, NEW request \in MapRequests,
         NEW low \in low_memory[f] \union {0}, MapBuffer(f, request, low)
  PROVE  MemoryInv'
<1> DEFINE backing == BackingOf(f, request, low)
           b == [handle |-> last_vdma_user_buffer_handle[f] + 1, addr |-> request.addr,
                 size |-> request.size, type |-> request.type, dir |-> request.dir,
                 backing |-> backing]
<1>0. TypeOK
  BY DEF MemoryInv
<1>1. backing \in Backings
  BY BackingOfType
<1> HIDE DEF backing
<1>2. HandlesIssued' /\ HandlesApart'
      /\ last_vdma_user_buffer_handle' \in [Files -> Handles \union {0}]
  BY HandlesFramed DEF MapBuffer
<1>3. last_vdma_user_buffer_handle'[f] = last_vdma_user_buffer_handle[f] + 1
      /\ last_vdma_user_buffer_handle[f] + 1 \in Handles
  <2>1. last_vdma_user_buffer_handle[f] + 1 \in 1 .. MaxHandles[f]
    BY HandlesFacts DEF MapBuffer, next_buffer_handle, MemoryInv, HandlesIssued
  <2> QED
    BY <1>0, <2>1, HandlesFacts DEF MapBuffer, next_buffer_handle, TypeOK
<1>4. b \in Buffers
  BY <1>1, <1>3, RequestsAssumption DEF Buffers
<1>5. mapped' = [mapped EXCEPT ![f] = <<b>> \o mapped[f]]
      /\ structs' = structs + 1 /\ refs' = [refs EXCEPT ![backing] = refs[backing] + 1]
      /\ UNCHANGED <<open, last_vdma_handle, dmabuf_failures, fds, sg_failures, driverVars,
                     channelVars>>
  BY <1>3 DEF MapBuffer, backing
<1>6. b.backing = backing
  OBVIOUS
<1> HIDE DEF b
<1>7. /\ mapped' \in [Files -> Seq(Buffers)]
      /\ \A g \in Files : g # f => mapped'[g] = mapped[g]
      /\ Len(mapped'[f]) = Len(mapped[f]) + 1 /\ mapped'[f][1] = b
      /\ \A i \in 1 .. Len(mapped[f]) : mapped'[f][i + 1] = mapped[f][i]
  BY <1>0, <1>4, <1>5 DEF TypeOK
<1>8. ASSUME NEW B, IsFiniteSet(At(mapped, B))
      PROVE  /\ IsFiniteSet(At(mapped', B))
             /\ Cardinality(At(mapped', B)) =
                  Cardinality(At(mapped, B)) + (IF backing \in B THEN 1 ELSE 0)
  <2>1. Inserted(mapped, mapped', f)
    BY <1>0, <1>7 DEF TypeOK, Inserted, OthersKept
  <2> QED
    BY <1>6, <1>7, <1>8, <2>1, CountInsert
<1>9. \A B : OtherRefs(B)' = OtherRefs(B)
  BY <1>5 DEF OtherRefs, driverVars
<1>10. Accounted'
  <2>1. Cardinality(At(mapped, Backings)) \in Nat /\ dmabuf_failures \in Nat
    BY <1>0, FS_CardinalityType, ObjectsAssumption DEF MemoryInv, Accounted, TypeOK
  <2>2. IsFiniteSet(At(mapped', Backings))
        /\ structs' = Cardinality(At(mapped', Backings)) + dmabuf_failures'
    <3>1. IsFiniteSet(At(mapped, Backings))
          /\ structs = Cardinality(At(mapped, Backings)) + dmabuf_failures
      BY DEF MemoryInv, Accounted
    <3>2. IsFiniteSet(At(mapped', Backings))
          /\ Cardinality(At(mapped', Backings)) = Cardinality(At(mapped, Backings)) + 1
      BY <1>1, <1>8, <3>1
    <3> QED
      BY <1>5, <2>1, <3>1, <3>2
  <2>3. ASSUME NEW a \in Backings
        PROVE  /\ IsFiniteSet(At(mapped', {a}))
               /\ refs'[a] = Cardinality(At(mapped', {a})) + OtherRefs(a)'
    <3>1. /\ IsFiniteSet(At(mapped, {a})) /\ Cardinality(At(mapped, {a})) \in Nat
          /\ refs[a] = Cardinality(At(mapped, {a})) + OtherRefs(a)
          /\ OtherRefs(a) \in Nat
      BY <1>0, FS_CardinalityType, OtherRefsType DEF MemoryInv, Accounted
    <3>2. refs'[a] = refs[a] + (IF backing \in {a} THEN 1 ELSE 0)
      BY <1>0, <1>1, <1>5, <3>1 DEF TypeOK
    <3> QED
      BY <1>8, <1>9, <3>1, <3>2
  <2> QED
    BY <2>2, <2>3 DEF Accounted
<1>11. TypeOK'
  BY <1>0, <1>1, <1>2, <1>5, <1>7 DEF TypeOK, driverVars, channelVars
<1> QED
  BY <1>2, <1>10, <1>11 DEF MemoryInv

LEMMA UnmapBufferStep ==
  ASSUME MemoryInv, NEW f \in Files, NEW h \in Handles, UnmapBuffer(f, h)
  PROVE  MemoryInv'
<1>0. TypeOK
  BY DEF MemoryInv
<1>1. PICK i \in 1 .. Len(mapped[f]) :
        /\ mapped' = [mapped EXCEPT ![f] =
             SubSeq(mapped[f], 1, i - 1) \o SubSeq(mapped[f], i + 1, Len(mapped[f]))]
        /\ refs' = [refs EXCEPT ![mapped[f][i].backing] = refs[mapped[f][i].backing] - 1]
  BY DEF UnmapBuffer
<1>2. /\ structs' = structs - 1
      /\ UNCHANGED <<open, handleVars, dmabuf_failures, fds, sg_failures, driverVars,
                     channelVars>>
  BY DEF UnmapBuffer
<1> DEFINE backing == mapped[f][i].backing
<1>3. backing \in Backings
  <2>1. mapped[f] \in Seq(Buffers)
    BY <1>0 DEF TypeOK
  <2>2. mapped[f][i] \in Buffers
    BY <2>1
  <2> QED
    BY <2>2 DEF Buffers
<1>4. HandlesIssued' /\ HandlesApart'
  BY <1>2, HandlesFramed DEF handleVars
<1>5. mapped' \in [Files -> Seq(Buffers)] /\ Removed(mapped, mapped', f, i)
  <2> DEFINE s == mapped[f]
             u == SubSeq(s, 1, i - 1) \o SubSeq(s, i + 1, Len(s))
  <2>1. mapped \in [Files -> Seq(Buffers)] /\ s \in Seq(Buffers) /\ i \in 1 .. Len(s)
    BY <1>0 DEF TypeOK
  <2>2. /\ u \in Seq(Buffers) /\ Len(u) = Len(s) - 1
        /\ \A j \in 1 .. i - 1 : u[j] = s[j]
        /\ \A j \in i .. Len(s) - 1 : u[j] = s[j + 1]
    BY <2>1, Cut
  <2>3. mapped' = [mapped EXCEPT ![f] = u]
    BY <1>1
  <2> HIDE DEF u
  <2>4. mapped' \in [Files -> Seq(Buffers)] /\ mapped'[f] = u
        /\ \A g \in Files : g # f => mapped'[g] = mapped[g]
    BY <2>1, <2>2, <2>3
  <2> QED
    BY <2>1, <2>2, <2>4 DEF Removed, OthersKept
<1>6. ASSUME NEW B, IsFiniteSet(At(mapped, B))
      PROVE  /\ IsFiniteSet(At(mapped', B))
             /\ Cardinality(At(mapped', B)) =
                  Cardinality(At(mapped, B)) - (IF backing \in B THEN 1 ELSE 0)
  BY <1>5, <1>6, CountRemove, ZenonT(40)
<1>7. \A B : OtherRefs(B)' = OtherRefs(B)
  BY <1>2 DEF OtherRefs, driverVars
<1>8. refs' = [refs EXCEPT ![backing] = refs[backing] - 1]
  BY <1>1
<1> HIDE DEF backing
<1>9. /\ IsFiniteSet(At(mapped', Backings)) /\ structs' \in Nat
      /\ structs' = Cardinality(At(mapped', Backings)) + dmabuf_failures'
  <2>1. dmabuf_failures \in Nat
    BY <1>0, ObjectsAssumption DEF TypeOK
  <2>2. IsFiniteSet(At(mapped, Backings))
        /\ structs = Cardinality(At(mapped, Backings)) + dmabuf_failures
    BY DEF MemoryInv, Accounted
  <2>3. IsFiniteSet(At(mapped', Backings))
        /\ Cardinality(At(mapped', Backings)) = Cardinality(At(mapped, Backings)) - 1
    BY <1>3, <1>6, <2>2
  <2>4. Cardinality(At(mapped, Backings)) \in Nat /\ Cardinality(At(mapped', Backings)) \in Nat
    BY <2>2, <2>3, FS_CardinalityType
  <2> QED
    BY <1>2, <2>1, <2>2, <2>3, <2>4
<1>10. ASSUME NEW a \in Backings
       PROVE  /\ IsFiniteSet(At(mapped', {a})) /\ refs'[a] \in Nat
              /\ refs'[a] = Cardinality(At(mapped', {a})) + OtherRefs(a)'
  <2>1. /\ IsFiniteSet(At(mapped, {a})) /\ Cardinality(At(mapped, {a})) \in Nat
        /\ refs[a] = Cardinality(At(mapped, {a})) + OtherRefs(a)
        /\ OtherRefs(a) \in Nat
    BY <1>0, FS_CardinalityType, OtherRefsType DEF MemoryInv, Accounted
  <2>2. refs'[a] = refs[a] - (IF backing \in {a} THEN 1 ELSE 0)
    BY <1>0, <1>3, <1>8, <2>1 DEF TypeOK
  <2>3. /\ IsFiniteSet(At(mapped', {a})) /\ Cardinality(At(mapped', {a})) \in Nat
        /\ Cardinality(At(mapped', {a})) =
             Cardinality(At(mapped, {a})) - (IF backing \in {a} THEN 1 ELSE 0)
    BY <1>6, <2>1, FS_CardinalityType
  <2> QED
    BY <1>7, <2>1, <2>2, <2>3
<1>11. Accounted'
  BY <1>9, <1>10 DEF Accounted
<1>12. refs' \in [Backings -> Nat]
  <2>1. refs' \in [Backings -> Int]
    BY <1>0, <1>3, <1>8 DEF TypeOK
  <2> QED
    BY <1>10, <2>1
<1>13. TypeOK'
  BY <1>0, <1>2, <1>5, <1>9, <1>12 DEF TypeOK, handleVars, driverVars, channelVars
<1> QED
  BY <1>4, <1>11, <1>13 DEF MemoryInv

(* Failures: a handle is used up, a struct or references leak.             *)
LEMMA MapFailsStep ==
  ASSUME MemoryInv, NEW f \in Files, NEW request \in MapRequests, NEW low,
         \/ MapCopyFails(f, request, low) \/ MapSgFails(f, request, low)
         \/ MapDmabufFails(f, request)
  PROVE  MemoryInv'
<1>0. TypeOK
  BY DEF MemoryInv
<1>1. HandlesIssued' /\ HandlesApart'
      /\ last_vdma_user_buffer_handle' \in [Files -> Handles \union {0}]
  BY HandlesFramed DEF MapCopyFails, MapSgFails, MapDmabufFails, handleVars
<1>2. CASE MapCopyFails(f, request, low)
  <2>1. UNCHANGED <<open, last_vdma_handle, bufferVars, driverVars, channelVars>>
    BY <1>2 DEF MapCopyFails
  <2>2. TypeOK'
    BY <1>0, <1>1, <2>1 DEF TypeOK, bufferVars, driverVars, channelVars
  <2>3. \A b : OtherRefs(b)' = OtherRefs(b)
    BY <2>1 DEF OtherRefs, bufferVars, driverVars
  <2> QED
    BY <1>1, <2>1, <2>2, <2>3 DEF MemoryInv, Accounted, bufferVars
<1>3. CASE MapSgFails(f, request, low)
  <2> DEFINE p == BackingOf(f, request, low)
  <2>1. /\ p \in LowPages /\ sg_failures[p] < MaxFailures
        /\ sg_failures' = [sg_failures EXCEPT ![p] = sg_failures[p] + 1]
        /\ refs' = [refs EXCEPT ![p] = refs[p] + 1]
        /\ UNCHANGED <<open, handleVars, mapped, structs, dmabuf_failures, fds, driverVars,
                       channelVars>>
    BY <1>3 DEF MapSgFails, MayLeak
  <2> HIDE DEF p
  <2>2. p \in Backings
    BY <2>1 DEF Backings
  <2>3. sg_failures' \in [LowPages -> 0 .. MaxFailures]
    BY <1>0, <2>1, ObjectsAssumption DEF TypeOK
  <2>4. TypeOK'
    BY <1>0, <2>1, <2>2, <2>3 DEF TypeOK, handleVars, driverVars, channelVars
  <2>5. ASSUME NEW b \in Backings
        PROVE  refs'[b] = Cardinality(At(mapped, {b})) + OtherRefs(b)'
    <3>1. /\ Cardinality(At(mapped, {b})) \in Nat /\ OtherRefs(b) \in Nat
          /\ refs[b] = Cardinality(At(mapped, {b})) + OtherRefs(b)
      BY <1>0, FS_CardinalityType, OtherRefsType DEF MemoryInv, Accounted
    <3>2. refs'[b] = refs[b] + (IF b = p THEN 1 ELSE 0)
      BY <1>0, <2>1, <2>2, <3>1 DEF TypeOK
    <3>3. OtherRefs(b)' = OtherRefs(b) + (IF b = p THEN 1 ELSE 0)
      BY <1>0, <2>1, ObjectsAssumption DEF TypeOK, OtherRefs, driverVars
    <3> QED
      BY <3>1, <3>2, <3>3
  <2> QED
    BY <1>1, <2>1, <2>4, <2>5 DEF MemoryInv, Accounted
<1>4. CASE MapDmabufFails(f, request)
  <2>1. /\ dmabuf_failures < MaxFailures
        /\ dmabuf_failures' = dmabuf_failures + 1 /\ structs' = structs + 1
        /\ UNCHANGED <<open, handleVars, mapped, sg_failures, driverVars, channelVars>>
    BY <1>4 DEF MapDmabufFails, MayLeak
  <2> DEFINE dmabuf == <<"dmabuf">>
  <2>2. dmabuf \in Backings /\ dmabuf \notin LowPages
    BY LowPagesFacts DEF Backings
  <2>3. PICK n \in {0, 1} :
          fds' = fds + n /\ refs' = [refs EXCEPT ![dmabuf] = refs[dmabuf] + n]
    <3>1. CASE UNCHANGED <<fds, refs>>
      <4>1. refs[dmabuf] \in Nat /\ fds \in Nat
        BY <1>0, <2>2, ObjectsAssumption DEF TypeOK
      <4>2. fds' = fds + 0 /\ refs' = [refs EXCEPT ![dmabuf] = refs[dmabuf] + 0]
        BY <1>0, <3>1, <4>1 DEF TypeOK
      <4> QED
        BY <4>2
    <3>2. CASE fds' = fds + 1 /\ refs' = [refs EXCEPT ![dmabuf] = refs[dmabuf] + 1]
      BY <3>2
    <3> QED
      BY <1>4, <3>1, <3>2 DEF MapDmabufFails
  <2>4. dmabuf_failures \in Nat /\ fds \in 0 .. dmabuf_failures
    BY <1>0, ObjectsAssumption DEF TypeOK
  <2>5. dmabuf_failures' \in 0 .. MaxFailures /\ fds' \in 0 .. dmabuf_failures'
    BY <2>1, <2>3, <2>4, ObjectsAssumption
  <2> HIDE DEF dmabuf
  <2>6. ASSUME NEW b \in Backings
        PROVE  refs'[b] = refs[b] + (IF b = dmabuf THEN n ELSE 0) /\ refs'[b] \in Nat
    BY <1>0, <2>2, <2>3 DEF TypeOK
  <2>7. refs' \in [Backings -> Nat]
    <3>1. refs' \in [Backings -> Int]
      BY <1>0, <2>2, <2>3 DEF TypeOK
    <3> QED
      BY <2>6, <3>1
  <2>8. structs \in Nat /\ structs' \in Nat
    BY <1>0, <2>1 DEF TypeOK
  <2>9. TypeOK'
    BY <1>0, <2>1, <2>5, <2>7, <2>8 DEF TypeOK, handleVars, driverVars, channelVars
  <2>10. ASSUME NEW b \in Backings
         PROVE  refs'[b] = Cardinality(At(mapped, {b})) + OtherRefs(b)'
    <3>1. /\ Cardinality(At(mapped, {b})) \in Nat /\ OtherRefs(b) \in Nat
          /\ refs[b] = Cardinality(At(mapped, {b})) + OtherRefs(b)
      BY <1>0, FS_CardinalityType, OtherRefsType DEF MemoryInv, Accounted
    <3>2. CASE b = dmabuf
      <4>1. OtherRefs(b) = fds /\ OtherRefs(b)' = fds'
        BY <2>2, <3>2 DEF OtherRefs, dmabuf
      <4> QED
        BY <2>3, <2>4, <2>6, <3>1, <3>2, <4>1
    <3>3. CASE b # dmabuf
      <4>1. OtherRefs(b)' = OtherRefs(b)
        BY <2>1, <3>3 DEF OtherRefs, dmabuf, driverVars
      <4> QED
        BY <1>0, <2>6, <3>1, <3>3, <4>1 DEF TypeOK
    <3> QED
      BY <3>2, <3>3
  <2>11. structs' = Cardinality(At(mapped, Backings)) + dmabuf_failures'
    <3>1. Cardinality(At(mapped, Backings)) \in Nat
          /\ structs = Cardinality(At(mapped, Backings)) + dmabuf_failures
      BY <1>0, FS_CardinalityType DEF MemoryInv, Accounted
    <3> QED
      BY <2>1, <2>4, <3>1
  <2> QED
    BY <1>1, <2>1, <2>9, <2>10, <2>11 DEF MemoryInv, Accounted
<1> QED
  BY <1>2, <1>3, <1>4

----------------------------------------------------------------------------
(* Descriptor lists, low-memory and continuous buffers.                    *)

(* The new handle has not been in use.                                     *)
LEMMA NewHandle ==
  ASSUME MemoryInv, NEW f \in Files, next_vdma_handle(f)
  PROVE  /\ last_vdma_handle' \in [Files -> Handles \union {0}]
         /\ last_vdma_handle'[f] \in 1 .. MaxHandles[f]
         /\ last_vdma_handle'[f] \in Handles
         /\ \A g \in Files : last_vdma_handle[g] <= last_vdma_handle'[g]
         /\ \A g \in Files : last_vdma_handle'[g] \in 0 .. MaxHandles[g]
         /\ last_vdma_handle'[f] \notin low_memory[f] \union continuous[f]
         /\ \A d \in desc_lists[f] : d.handle # last_vdma_handle'[f]
<1> USE DEF MemoryInv
<1>1. last_vdma_handle[f] + 1 \in 1 .. MaxHandles[f]
  BY HandlesFacts DEF HandlesIssued, next_vdma_handle
<1>2. last_vdma_handle' = [last_vdma_handle EXCEPT ![f] = last_vdma_handle[f] + 1]
  BY DEF next_vdma_handle
<1>3. last_vdma_handle[f] + 1 \in Handles
  BY <1>1, HandlesFacts
<1>4. last_vdma_handle' \in [Files -> Handles \union {0}]
      /\ last_vdma_handle'[f] = last_vdma_handle[f] + 1
  BY <1>2, <1>3 DEF TypeOK
<1>5. \A g \in Files : last_vdma_handle'[g] \in 0 .. MaxHandles[g]
                       /\ last_vdma_handle[g] <= last_vdma_handle'[g]
  BY <1>1, <1>2, HandlesFacts DEF TypeOK, HandlesIssued
<1>6. \A h \in 1 .. last_vdma_handle[f] : h # last_vdma_handle[f] + 1
  <2>1. last_vdma_handle[f] \in Nat
    BY HandlesFacts DEF HandlesIssued
  <2> QED
    BY <2>1
<1> QED
  BY <1>1, <1>3, <1>4, <1>5, <1>6 DEF HandlesIssued

(* Handles in use stay below a counter that only grows.                    *)
LEMMA IssuedGrows ==
  ASSUME MemoryInv, TypeOK',
         \A g \in Files : last_vdma_handle'[g] \in 0 .. MaxHandles[g]
                          /\ last_vdma_handle[g] <= last_vdma_handle'[g],
         UNCHANGED last_vdma_user_buffer_handle,
         \A g \in Files :
           /\ \A h \in low_memory'[g] \union continuous'[g] :
                h \in low_memory[g] \union continuous[g] \/ h \in 1 .. last_vdma_handle'[g]
           /\ \A d \in desc_lists'[g] :
                d \in desc_lists[g] \/ d.handle \in 1 .. last_vdma_handle'[g]
  PROVE  HandlesIssued'
<1> USE DEF MemoryInv
<1> SUFFICES ASSUME NEW g \in Files
             PROVE  /\ \A h \in low_memory'[g] \union continuous'[g] :
                         h \in 1 .. last_vdma_handle'[g]
                    /\ \A d \in desc_lists'[g] : d.handle \in 1 .. last_vdma_handle'[g]
  BY DEF HandlesIssued
<1>1. /\ last_vdma_handle[g] \in 0 .. MaxHandles[g] /\ MaxHandles[g] \in Nat
      /\ last_vdma_handle'[g] \in 0 .. MaxHandles[g]
      /\ last_vdma_handle[g] <= last_vdma_handle'[g]
  BY HandlesFacts DEF HandlesIssued
<1>2. \A h \in 1 .. last_vdma_handle[g] : h \in 1 .. last_vdma_handle'[g]
  BY <1>1
<1> QED
  BY <1>2 DEF HandlesIssued

(* What no list or low-memory buffer touches.                              *)
LEMMA AccountFramed ==
  ASSUME MemoryInv, UNCHANGED <<bufferVars, low_memory>>
  PROVE  Accounted'
<1>1. \A b : OtherRefs(b)' = OtherRefs(b)
  BY DEF OtherRefs, bufferVars
<1> QED
  BY <1>1 DEF MemoryInv, Accounted, bufferVars

LEMMA DescListStep ==
  ASSUME MemoryInv, NEW f \in Files,
         \/ \E slot \in Slots : CreateDescList(f, slot)
         \/ \E h \in Handles : ReleaseDescList(f, h)
  PROVE  MemoryInv'
<1>0. TypeOK /\ HandlesApart /\ HandlesIssued
  BY DEF MemoryInv
<1>1. Accounted'
  BY AccountFramed DEF CreateDescList, ReleaseDescList
<1>2. ASSUME NEW slot \in Slots, CreateDescList(f, slot) PROVE MemoryInv'
  <2> DEFINE new == [handle |-> last_vdma_handle'[f], at |-> slot]
  <2>1. /\ next_vdma_handle(f)
        /\ desc_lists' = [desc_lists EXCEPT ![f] = desc_lists[f] \union {new}]
        /\ UNCHANGED <<open, last_vdma_user_buffer_handle, bufferVars, low_memory, continuous,
                       channelVars>>
    BY <1>2 DEF CreateDescList
  <2>2. new \in DescLists /\ new.handle = last_vdma_handle'[f]
    BY <2>1, NewHandle DEF DescLists
  <2> HIDE DEF new
  <2>3. /\ desc_lists' \in [Files -> SUBSET DescLists]
        /\ desc_lists'[f] = desc_lists[f] \union {new}
        /\ \A g \in Files : g # f => desc_lists'[g] = desc_lists[g]
    BY <1>0, <2>1, <2>2 DEF TypeOK
  <2>4. last_vdma_handle' \in [Files -> Handles \union {0}]
    BY <2>1, NewHandle
  <2>5. TypeOK'
    BY <1>0, <2>1, <2>3, <2>4 DEF TypeOK, bufferVars, channelVars
  <2>6. HandlesIssued'
    <3>1. \A g \in Files : \A d \in desc_lists'[g] :
            d \in desc_lists[g] \/ d.handle \in 1 .. last_vdma_handle'[g]
      <4>1. last_vdma_handle'[f] \in 1 .. last_vdma_handle'[f]
        BY <2>1, NewHandle, HandlesFacts
      <4> QED
        BY <2>2, <2>3, <4>1
    <3> QED
      BY <2>1, <2>5, <3>1, NewHandle, IssuedGrows
  <2>7. HandlesApart'
    <3>1. \A d \in desc_lists[f] : d.handle # new.handle
      BY <2>1, <2>2, NewHandle
    <3>2. new.handle \notin low_memory[f] \union continuous[f]
      BY <2>1, <2>2, NewHandle
    <3>3. IsFiniteSet(desc_lists'[f])
      BY <1>0, <2>3, FS_AddElement DEF HandlesApart
    <3> QED
      BY <1>0, <2>1, <2>3, <3>1, <3>2, <3>3 DEF HandlesApart
  <2> QED
    BY <1>1, <2>5, <2>6, <2>7 DEF MemoryInv
<1>3. ASSUME NEW h \in Handles, ReleaseDescList(f, h) PROVE MemoryInv'
  <2>1. /\ desc_lists' = [desc_lists EXCEPT ![f] = desc_lists[f] \ FindDescLists(f, h)]
        /\ UNCHANGED <<open, handleVars, bufferVars, low_memory, continuous, channelVars>>
    BY <1>3 DEF ReleaseDescList
  <2>2. /\ desc_lists' \in [Files -> SUBSET DescLists]
        /\ \A g \in Files : desc_lists'[g] \subseteq desc_lists[g]
    BY <1>0, <2>1 DEF TypeOK
  <2>3. TypeOK'
    BY <1>0, <2>1, <2>2 DEF TypeOK, handleVars, bufferVars, channelVars
  <2>4. HandlesIssued'
    BY <1>0, <2>1, <2>2 DEF HandlesIssued, handleVars
  <2>5. HandlesApart'
    <3>1. \A g \in Files : IsFiniteSet(desc_lists'[g])
      BY <1>0, <2>2, FS_Subset DEF HandlesApart
    <3> QED
      BY <1>0, <2>1, <2>2, <3>1 DEF HandlesApart
  <2> QED
    BY <1>1, <2>3, <2>4, <2>5 DEF MemoryInv
<1> QED
  BY <1>2, <1>3

LEMMA LowMemoryStep ==
  ASSUME MemoryInv, NEW f \in Files,
         AllocLowMemory(f) \/ \E h \in Handles : FreeLowMemory(f, h)
  PROVE  MemoryInv'
<1>0. TypeOK /\ HandlesApart /\ HandlesIssued
  BY DEF MemoryInv
<1>1. ASSUME NEW p \in LowPages, NEW n \in {1, -1},
             refs' = [refs EXCEPT ![p] = refs[p] + n],
             OtherRefs(p)' = OtherRefs(p) + n, OtherRefs(p)' \in Nat,
             \A b \in Backings : b # p => OtherRefs(b)' = OtherRefs(b),
             UNCHANGED <<mapped, structs, dmabuf_failures, fds>>
      PROVE  Accounted' /\ refs' \in [Backings -> Nat]
  <2>1. p \in Backings
    BY DEF Backings
  <2>2. ASSUME NEW b \in Backings
        PROVE  refs'[b] = Cardinality(At(mapped, {b})) + OtherRefs(b)' /\ refs'[b] \in Nat
    <3>1. /\ Cardinality(At(mapped, {b})) \in Nat /\ OtherRefs(b) \in Nat
          /\ refs[b] = Cardinality(At(mapped, {b})) + OtherRefs(b)
      BY <1>0, FS_CardinalityType, OtherRefsType DEF MemoryInv, Accounted
    <3>2. CASE b = p
      <4>1. refs'[b] = refs[b] + n
        BY <1>0, <1>1, <2>1, <3>2 DEF TypeOK
      <4> QED
        BY <1>1, <3>1, <3>2, <4>1
    <3>3. CASE b # p
      <4>1. refs'[b] = refs[b]
        BY <1>0, <1>1, <3>3 DEF TypeOK
      <4> QED
        BY <1>1, <3>1, <3>3, <4>1
    <3> QED
      BY <3>2, <3>3
  <2>3. refs' \in [Backings -> Nat]
    <3>1. refs' = [b \in Backings |-> refs'[b]]
      BY <1>0, <1>1 DEF TypeOK
    <3> QED
      BY <2>2, <3>1
  <2> QED
    BY <1>1, <2>2, <2>3 DEF MemoryInv, Accounted
<1>a. ASSUME NEW p \in LowPages, NEW g \in Files, NEW h \in Handles, p # <<g, h>>,
             low_memory' \in [Files -> SUBSET Handles],
             \A e \in Files : e # g => low_memory'[e] = low_memory[e],
             \A k : k # h => (k \in low_memory'[g] <=> k \in low_memory[g]),
             UNCHANGED sg_failures
      PROVE  OtherRefs(p)' = OtherRefs(p)
  <2>1. PICK e \in Files : \E k \in 1 .. MaxHandles[e] : p = <<e, k>>
    BY LowPagesFacts
  <2>2. p[2] \in low_memory'[p[1]] <=> p[2] \in low_memory[p[1]]
    BY <1>a, <2>1
  <2> QED
    BY <1>a, <2>2 DEF OtherRefs
<1>2. CASE AllocLowMemory(f)
  <2>h. PICK h : h = last_vdma_handle'[f]
    OBVIOUS
  <2>1. /\ next_vdma_handle(f)
        /\ low_memory' = [low_memory EXCEPT ![f] = low_memory[f] \union {h}]
        /\ refs' = [refs EXCEPT ![<<f, h>>] = refs[<<f, h>>] + 1]
        /\ UNCHANGED <<open, last_vdma_user_buffer_handle, mapped, structs, dmabuf_failures,
                       fds, sg_failures, desc_lists, continuous, channelVars>>
    BY <1>2, <2>h DEF AllocLowMemory, low_memory_buffer_alloc
  <2>2. /\ h \in 1 .. MaxHandles[f] /\ h \in Handles
        /\ h \notin low_memory[f] \union continuous[f]
        /\ \A d \in desc_lists[f] : d.handle # h
        /\ last_vdma_handle' \in [Files -> Handles \union {0}]
        /\ h \in 1 .. last_vdma_handle'[f]
    BY <2>h, <2>1, NewHandle, HandlesFacts
  <2>m. \A g \in Files : /\ last_vdma_handle[g] <= last_vdma_handle'[g]
                         /\ last_vdma_handle'[g] \in 0 .. MaxHandles[g]
    BY <2>1, NewHandle
  <2>3. /\ low_memory' \in [Files -> SUBSET Handles]
        /\ low_memory'[f] = low_memory[f] \union {h}
        /\ \A g \in Files : g # f => low_memory'[g] = low_memory[g]
    BY <1>0, <2>1, <2>2 DEF TypeOK
  <2>4. <<f, h>> \in LowPages
    BY <2>2, LowPagesFacts
  <2>5. Accounted' /\ refs' \in [Backings -> Nat]
    <3>1. sg_failures[<<f, h>>] \in Nat
      BY <1>0, <2>4, ObjectsAssumption DEF TypeOK
    <3>2. OtherRefs(<<f, h>>)' = OtherRefs(<<f, h>>) + 1 /\ OtherRefs(<<f, h>>)' \in Nat
      BY <2>1, <2>2, <2>3, <2>4, <3>1 DEF OtherRefs
    <3>3. ASSUME NEW b \in Backings, b # <<f, h>> PROVE OtherRefs(b)' = OtherRefs(b)
      <4>1. CASE b \in LowPages
        BY <1>a, <2>1, <2>2, <2>3, <3>3, <4>1
      <4>2. CASE b \notin LowPages
        BY <2>1, <4>2 DEF OtherRefs
      <4> QED
        BY <4>1, <4>2
    <3> QED
      BY <1>1, <2>1, <2>4, <3>2, <3>3
  <2>6. TypeOK'
    BY <1>0, <2>1, <2>2, <2>3, <2>5 DEF TypeOK, channelVars
  <2>7. HandlesIssued'
    BY <2>1, <2>2, <2>m, <2>3, <2>6, IssuedGrows
  <2>8. HandlesApart'
    BY <1>0, <2>1, <2>2, <2>3 DEF HandlesApart
  <2> QED
    BY <2>5, <2>6, <2>7, <2>8 DEF MemoryInv
<1>3. ASSUME NEW h \in Handles, FreeLowMemory(f, h) PROVE MemoryInv'
  <2>1. /\ h \in low_memory[f]
        /\ low_memory' = [low_memory EXCEPT ![f] = low_memory[f] \ {h}]
        /\ refs' = [refs EXCEPT ![<<f, h>>] = refs[<<f, h>>] - 1]
        /\ UNCHANGED <<open, handleVars, mapped, structs, dmabuf_failures, fds, sg_failures,
                       desc_lists, continuous, channelVars>>
    BY <1>3 DEF FreeLowMemory, low_memory_buffer_free
  <2>2. h \in 1 .. MaxHandles[f]
    BY <1>0, <2>1, HandlesFacts DEF HandlesIssued
  <2>3. /\ low_memory' \in [Files -> SUBSET Handles]
        /\ low_memory'[f] = low_memory[f] \ {h}
        /\ \A g \in Files : g # f => low_memory'[g] = low_memory[g]
    BY <1>0, <2>1 DEF TypeOK
  <2>4. <<f, h>> \in LowPages
    BY <2>2, LowPagesFacts
  <2>5. Accounted' /\ refs' \in [Backings -> Nat]
    <3>1. sg_failures[<<f, h>>] \in Nat
      BY <1>0, <2>4, ObjectsAssumption DEF TypeOK
    <3>2. OtherRefs(<<f, h>>)' = OtherRefs(<<f, h>>) + (-1) /\ OtherRefs(<<f, h>>)' \in Nat
      BY <2>1, <2>2, <2>3, <2>4, <3>1 DEF OtherRefs
    <3>3. ASSUME NEW b \in Backings, b # <<f, h>> PROVE OtherRefs(b)' = OtherRefs(b)
      <4>1. CASE b \in LowPages
        BY <1>a, <2>1, <2>2, <2>3, <3>3, <4>1
      <4>2. CASE b \notin LowPages
        BY <2>1, <4>2 DEF OtherRefs
      <4> QED
        BY <4>1, <4>2
    <3>4. refs' = [refs EXCEPT ![<<f, h>>] = refs[<<f, h>>] + (-1)]
      <4>1. refs[<<f, h>>] \in Nat
        BY <1>0, <2>4 DEF TypeOK, Backings
      <4>2. refs[<<f, h>>] - 1 = refs[<<f, h>>] + (-1)
        BY <4>1
      <4> QED
        BY <2>1, <4>2
    <3> QED
      BY <1>1, <2>1, <2>4, <3>2, <3>3, <3>4
  <2>6. TypeOK'
    BY <1>0, <2>1, <2>3, <2>5 DEF TypeOK, handleVars, channelVars
  <2>7. HandlesIssued'
    BY <1>0, <2>1, <2>3 DEF HandlesIssued, handleVars
  <2>8. HandlesApart'
    BY <1>0, <2>1, <2>3 DEF HandlesApart
  <2> QED
    BY <2>5, <2>6, <2>7, <2>8 DEF MemoryInv
<1> QED
  BY <1>2, <1>3

LEMMA ContinuousStep ==
  ASSUME MemoryInv, NEW f \in Files,
         AllocContinuous(f) \/ CreateFails(f) \/ \E h \in Handles : FreeContinuous(f, h)
  PROVE  MemoryInv'
<1>0. TypeOK /\ HandlesApart /\ HandlesIssued
  BY DEF MemoryInv
<1>1. Accounted'
  BY AccountFramed DEF AllocContinuous, CreateFails, FreeContinuous, driverVars
<1>2. CASE AllocContinuous(f) \/ CreateFails(f)
  <2> DEFINE h == last_vdma_handle'[f]
  <2>1. /\ next_vdma_handle(f)
        /\ UNCHANGED <<open, last_vdma_user_buffer_handle, bufferVars, desc_lists, low_memory,
                       channelVars>>
        /\ \/ continuous' = [continuous EXCEPT ![f] = continuous[f] \union {h}]
           \/ continuous' = continuous
    BY <1>2 DEF AllocContinuous, CreateFails, driverVars
  <2>2. /\ h \in Handles /\ h \notin low_memory[f]
        /\ \A d \in desc_lists[f] : d.handle # h
        /\ last_vdma_handle' \in [Files -> Handles \union {0}]
        /\ h \in 1 .. last_vdma_handle'[f]
    BY <2>1, NewHandle, HandlesFacts
  <2>m. \A g \in Files : /\ last_vdma_handle[g] <= last_vdma_handle'[g]
                         /\ last_vdma_handle'[g] \in 0 .. MaxHandles[g]
    BY <2>1, NewHandle
  <2> HIDE DEF h
  <2>3. /\ continuous' \in [Files -> SUBSET Handles]
        /\ continuous'[f] \subseteq continuous[f] \union {h}
        /\ \A g \in Files : g # f => continuous'[g] = continuous[g]
    <3>1. CASE continuous' = continuous
      BY <1>0, <3>1 DEF TypeOK
    <3>2. CASE continuous' = [continuous EXCEPT ![f] = continuous[f] \union {h}]
      BY <1>0, <2>2, <3>2 DEF TypeOK
    <3> QED
      BY <2>1, <3>1, <3>2
  <2>4. TypeOK'
    BY <1>0, <2>1, <2>2, <2>3 DEF TypeOK, bufferVars, channelVars
  <2>5. HandlesIssued'
    <3>1. \A g \in Files : \A k \in continuous'[g] :
            k \in continuous[g] \/ k \in 1 .. last_vdma_handle'[g]
      BY <2>2, <2>3
    <3> QED
      BY <2>1, <2>m, <2>4, <3>1, IssuedGrows
  <2>6. HandlesApart'
    BY <1>0, <2>1, <2>2, <2>3 DEF HandlesApart
  <2> QED
    BY <1>1, <2>4, <2>5, <2>6 DEF MemoryInv
<1>3. ASSUME NEW h \in Handles, FreeContinuous(f, h) PROVE MemoryInv'
  <2>1. /\ continuous' = [continuous EXCEPT ![f] = continuous[f] \ {h}]
        /\ UNCHANGED <<open, handleVars, bufferVars, desc_lists, low_memory, channelVars>>
    BY <1>3 DEF FreeContinuous
  <2>2. /\ continuous' \in [Files -> SUBSET Handles]
        /\ \A g \in Files : continuous'[g] \subseteq continuous[g]
    BY <1>0, <2>1 DEF TypeOK
  <2>3. TypeOK'
    BY <1>0, <2>1, <2>2 DEF TypeOK, handleVars, bufferVars, channelVars
  <2>4. HandlesIssued'
    BY <1>0, <2>1, <2>2 DEF HandlesIssued, handleVars
  <2>5. HandlesApart'
    BY <1>0, <2>1, <2>2 DEF HandlesApart
  <2> QED
    BY <1>1, <2>3, <2>4, <2>5 DEF MemoryInv
<1> QED
  BY <1>2, <1>3

----------------------------------------------------------------------------
(* Channels, and the end of a file.                                        *)
LEMMA FindMappedFound ==
  ASSUME TypeOK, NEW f \in Files, NEW wanted, NEW dir, FindMapped(f, wanted, dir) # NoBuffer
  PROVE  \E i \in 1 .. Len(mapped[f]) : mapped[f][i].handle = FindMapped(f, wanted, dir)
<1> DEFINE fitting == {i \in 1 .. Len(mapped[f]) : Fits(mapped[f][i], wanted, dir)}
           first == CHOOSE i \in fitting : \A j \in fitting : i <= j
<1>1. FindMapped(f, wanted, dir) = IF fitting = {} THEN NoBuffer ELSE mapped[f][first].handle
  BY DEF FindMapped
<1>2. fitting # {} /\ fitting \in SUBSET Nat /\ fitting \subseteq 1 .. Len(mapped[f])
  BY <1>1
<1>3. \E i \in fitting : \A j \in fitting : i <= j
  <2> HIDE DEF fitting
  <2> QED
    BY <1>2, LeastNat
<1>4. first \in fitting
  <2> HIDE DEF fitting
  <2> QED
    BY <1>3
<1> HIDE DEF first
<1> QED
  BY <1>1, <1>2, <1>4

(* Launches: buffers and list were found.                                  *)
LEMMA LaunchFacts ==
  ASSUME TypeOK, NEW f \in Files, NEW c \in Channels, NEW h \in Handles,
         NEW wanted \in SUBSET LaunchBuffers, LaunchTransfer(f, c, h, wanted)
  PROVE  \E d \in desc_lists[f], handles \in SUBSET Handles :
           /\ Launch(f, c, d, handles) /\ d.handle \in Handles /\ d.at \in Slots
           /\ d = [handle |-> d.handle, at |-> d.at]
           /\ \A k \in handles : \E i \in 1 .. Len(mapped[f]) : mapped[f][i].handle = k
<1> DEFINE Found(w) == FindMapped(f, w, ChannelDirection(c))
           handles == {Found(w) : w \in wanted}
<1>1. PICK d \in FindDescLists(f, h) : Launch(f, c, d, handles)
  BY DEF LaunchTransfer
<1>2. d \in desc_lists[f] /\ d \in DescLists
  BY <1>1 DEF FindDescLists, TypeOK
<1>3. \A w \in wanted : Found(w) # NoBuffer
  BY DEF LaunchTransfer
<1>4. \A w \in wanted : \E i \in 1 .. Len(mapped[f]) : mapped[f][i].handle = Found(w)
  BY <1>3, FindMappedFound
<1>5. \A i \in 1 .. Len(mapped[f]) : mapped[f][i].handle \in Handles
  <2>1. mapped[f] \in Seq(Buffers)
    BY DEF TypeOK
  <2>2. \A i \in 1 .. Len(mapped[f]) : mapped[f][i] \in Buffers
    BY <2>1
  <2> QED
    BY <2>2 DEF Buffers
<1> HIDE DEF Found
<1>6. handles \in SUBSET Handles
      /\ \A k \in handles : \E i \in 1 .. Len(mapped[f]) : mapped[f][i].handle = k
  BY <1>4, <1>5
<1>7. d.handle \in Handles /\ d.at \in Slots /\ d = [handle |-> d.handle, at |-> d.at]
  BY <1>2 DEF DescLists
<1> QED
  BY <1>1, <1>2, <1>6, <1>7

LEMMA ChannelType ==
  ASSUME TypeOK,
         \/ \E f \in Files, c \in Channels : EnableChannel(f, c) \/ DisableChannel(f, c)
         \/ \E f \in Files : FinalizeChannels(f)
         \/ \E f \in Files, c \in Channels, h \in Handles, wanted \in SUBSET LaunchBuffers :
              LaunchTransfer(f, c, h, wanted)
         \/ \E c \in Channels, n \in 1 .. MaxOngoing : ReapTransfers(c, n)
  PROVE  /\ enabled_channels' \subseteq Channels
         /\ context_channels' \in [Files -> SUBSET Channels]
         /\ last_desc_list' \in [Channels -> Slots \union {NoList}]
         /\ ongoing_transfers' \in [Channels -> Seq(Transfers)]
<1>1. ASSUME NEW f \in Files, NEW c \in Channels, EnableChannel(f, c)
      PROVE  /\ enabled_channels' \subseteq Channels
             /\ context_channels' \in [Files -> SUBSET Channels]
             /\ UNCHANGED <<last_desc_list, ongoing_transfers>>
  BY <1>1 DEF TypeOK, EnableChannel
<1>2. ASSUME NEW channels, DropTransfers(channels)
      PROVE  /\ enabled_channels' \subseteq Channels
             /\ last_desc_list' \in [Channels -> Slots \union {NoList}]
             /\ ongoing_transfers' \in [Channels -> Seq(Transfers)]
  BY <1>2 DEF TypeOK, DropTransfers
<1>3. ASSUME NEW f \in Files, NEW c \in Channels, DisableChannel(f, c)
      PROVE  context_channels' \in [Files -> SUBSET Channels] /\ DropTransfers({c})
  BY <1>3 DEF TypeOK, DisableChannel
<1>4. ASSUME NEW f \in Files, FinalizeChannels(f)
      PROVE  /\ context_channels' \in [Files -> SUBSET Channels]
             /\ DropTransfers(context_channels[f])
  BY <1>4 DEF TypeOK, FinalizeChannels
<1>5. ASSUME NEW f \in Files, NEW c \in Channels, NEW h \in Handles,
             NEW wanted \in SUBSET LaunchBuffers, LaunchTransfer(f, c, h, wanted)
      PROVE  /\ last_desc_list' \in [Channels -> Slots \union {NoList}]
             /\ ongoing_transfers' \in [Channels -> Seq(Transfers)]
             /\ UNCHANGED <<enabled_channels, context_channels>>
  <2>1. PICK d \in desc_lists[f], handles \in SUBSET Handles :
          Launch(f, c, d, handles) /\ d.handle \in Handles /\ d.at \in Slots
    BY <1>5, LaunchFacts
  <2>2. [file |-> f, list |-> d.handle, buffers |-> handles] \in Transfers
    BY <2>1 DEF Transfers
  <2>3. last_desc_list' \in [Channels -> Slots \union {NoList}]
    BY <2>1 DEF TypeOK, Launch
  <2> DEFINE t == [file |-> f, list |-> d.handle, buffers |-> handles]
  <2>4. ongoing_transfers' \in [Channels -> Seq(Transfers)]
    <3>1. \/ UNCHANGED ongoing_transfers
          \/ ongoing_transfers' =
               [ongoing_transfers EXCEPT ![c] = Append(ongoing_transfers[c], t)]
      BY <2>1 DEF Launch
    <3>2. Append(ongoing_transfers[c], t) \in Seq(Transfers)
      BY <2>2 DEF TypeOK
    <3> HIDE DEF t
    <3> QED
      BY <3>1, <3>2 DEF TypeOK
  <2> QED
    BY <2>1, <2>3, <2>4 DEF Launch
<1>6. ASSUME NEW c \in Channels, NEW n \in 1 .. MaxOngoing, ReapTransfers(c, n)
      PROVE  /\ ongoing_transfers' \in [Channels -> Seq(Transfers)]
             /\ UNCHANGED <<enabled_channels, context_channels, last_desc_list>>
  <2>1. ongoing_transfers[c] \in Seq(Transfers) /\ n \in Int
    BY DEF TypeOK
  <2>2. SubSeq(ongoing_transfers[c], n + 1, Len(ongoing_transfers[c])) \in Seq(Transfers)
    BY <2>1
  <2> QED
    BY <1>6, <2>2 DEF TypeOK, ReapTransfers
<1> QED
  BY <1>1, <1>2, <1>3, <1>4, <1>5, <1>6 DEF TypeOK

LEMMA ChannelStep ==
  ASSUME MemoryInv,
         \/ \E f \in Files : ChannelOps(f)
         \/ \E c \in Channels, n \in 1 .. MaxOngoing : ReapTransfers(c, n)
  PROVE  MemoryInv'
<1>1. UNCHANGED <<open, handleVars, bufferVars, driverVars>>
  BY ZenonT(40) DEF ChannelOps, EnableChannel, DisableChannel, LaunchTransfer, Launch, ReapTransfers
<1>2. TypeOK'
  <2>1. /\ enabled_channels' \subseteq Channels
        /\ context_channels' \in [Files -> SUBSET Channels]
        /\ last_desc_list' \in [Channels -> Slots \union {NoList}]
        /\ ongoing_transfers' \in [Channels -> Seq(Transfers)]
    BY ChannelType DEF MemoryInv, ChannelOps
  <2> QED
    BY <1>1, <2>1 DEF MemoryInv, TypeOK, handleVars, bufferVars, driverVars
<1>3. Accounted'
  BY <1>1, AccountFramed DEF driverVars
<1>4. HandlesIssued' /\ HandlesApart'
  BY <1>1 DEF MemoryInv, HandlesIssued, HandlesApart, handleVars, driverVars
<1> QED
  BY <1>2, <1>3, <1>4 DEF MemoryInv

LEMMA CloseStep ==
  ASSUME MemoryInv, NEW f \in Files, Close(f)
  PROVE  MemoryInv'
<1>0. TypeOK /\ HandlesIssued /\ HandlesApart
  BY DEF MemoryInv
<1> DEFINE low(b) == IF b \in LowPages /\ b[1] = f /\ b[2] \in low_memory[f] THEN 1 ELSE 0
<1>1. /\ mapped' = [mapped EXCEPT ![f] = <<>>]
      /\ structs' = structs - Len(mapped[f])
      /\ refs' = [b \in Backings |-> refs[b] - Cardinality(BackedBy(f, b)) - low(b)]
      /\ desc_lists' = [desc_lists EXCEPT ![f] = {}]
      /\ low_memory' = [low_memory EXCEPT ![f] = {}]
      /\ continuous' = [continuous EXCEPT ![f] = {}]
      /\ open' = open \ {f}
      /\ UNCHANGED <<handleVars, dmabuf_failures, fds, sg_failures>>
      /\ FinalizeChannels(f)
  BY DEF Close, ClearLists
<1>2. /\ enabled_channels' \subseteq Channels
      /\ context_channels' \in [Files -> SUBSET Channels]
      /\ last_desc_list' \in [Channels -> Slots \union {NoList}]
      /\ ongoing_transfers' \in [Channels -> Seq(Transfers)]
  BY <1>0, <1>1, ChannelType
<1>3. /\ mapped' \in [Files -> Seq(Buffers)] /\ mapped'[f] = <<>>
      /\ OthersKept(mapped, mapped', f)
  BY <1>0, <1>1 DEF TypeOK, OthersKept
<1>4. /\ desc_lists' \in [Files -> SUBSET DescLists] /\ low_memory' \in [Files -> SUBSET Handles]
      /\ continuous' \in [Files -> SUBSET Handles]
      /\ desc_lists'[f] = {} /\ low_memory'[f] = {} /\ continuous'[f] = {}
      /\ \A g \in Files : g # f => /\ desc_lists'[g] = desc_lists[g]
                                   /\ low_memory'[g] = low_memory[g]
                                   /\ continuous'[g] = continuous[g]
  BY <1>0, <1>1 DEF TypeOK
<1>5. HandlesIssued' /\ HandlesApart'
  <2>1. \A g \in Files : IsFiniteSet(desc_lists'[g])
    BY <1>0, <1>4, FS_EmptySet DEF HandlesApart
  <2> QED
    BY <1>0, <1>1, <1>4, <2>1 DEF HandlesIssued, HandlesApart, handleVars
<1>6. /\ IsFiniteSet(At(mapped', Backings)) /\ structs' \in Nat
      /\ structs' = Cardinality(At(mapped', Backings)) + dmabuf_failures'
  <2> DEFINE here == {i \in 1 .. Len(mapped[f]) : mapped[f][i].backing \in Backings}
  <2>1. here = 1 .. Len(mapped[f]) /\ Len(mapped[f]) \in Nat
    <3>1. mapped[f] \in Seq(Buffers)
      BY <1>0 DEF TypeOK
    <3>2. \A i \in 1 .. Len(mapped[f]) : mapped[f][i] \in Buffers
      BY <3>1
    <3> QED
      BY <3>1, <3>2 DEF Buffers
  <2>2. Cardinality(1 .. Len(mapped[f])) = Len(mapped[f])
    BY <2>1, FS_Interval
  <2>3. /\ IsFiniteSet(At(mapped, Backings)) /\ Cardinality(At(mapped, Backings)) \in Nat
        /\ structs = Cardinality(At(mapped, Backings)) + dmabuf_failures
        /\ dmabuf_failures \in Nat
    BY <1>0, FS_CardinalityType, ObjectsAssumption DEF MemoryInv, Accounted, TypeOK
  <2>4. /\ IsFiniteSet(At(mapped', Backings))
        /\ Cardinality(At(mapped', Backings)) =
             Cardinality(At(mapped, Backings)) - Cardinality(here)
    BY <1>3, <2>3, CountClear
  <2>5. Cardinality(At(mapped', Backings)) \in Nat
    BY <2>4, FS_CardinalityType
  <2> HIDE DEF here
  <2> QED
    BY <1>1, <2>1, <2>2, <2>3, <2>4, <2>5
<1>7. ASSUME NEW b \in Backings
      PROVE  /\ IsFiniteSet(At(mapped', {b})) /\ refs'[b] \in Nat
             /\ refs'[b] = Cardinality(At(mapped', {b})) + OtherRefs(b)'
  <2> DEFINE here == {i \in 1 .. Len(mapped[f]) : mapped[f][i].backing \in {b}}
  <2>1. BackedBy(f, b) = here
    BY DEF BackedBy
  <2>2. /\ IsFiniteSet(At(mapped, {b})) /\ Cardinality(At(mapped, {b})) \in Nat
        /\ refs[b] = Cardinality(At(mapped, {b})) + OtherRefs(b)
        /\ OtherRefs(b) \in Nat
    BY <1>0, FS_CardinalityType, OtherRefsType DEF MemoryInv, Accounted
  <2>3. /\ IsFiniteSet(At(mapped', {b})) /\ IsFiniteSet(here)
        /\ Cardinality(At(mapped', {b})) = Cardinality(At(mapped, {b})) - Cardinality(here)
    <3>1. ASSUME NEW B, IsFiniteSet(At(mapped, B))
          PROVE  LET on == {i \in 1 .. Len(mapped[f]) : mapped[f][i].backing \in B} IN
                 /\ IsFiniteSet(At(mapped', B)) /\ IsFiniteSet(on)
                 /\ Cardinality(At(mapped', B)) = Cardinality(At(mapped, B)) - Cardinality(on)
      BY <1>3, <3>1, CountClear
    <3> QED
      BY <2>2, <3>1, Zenon
  <2>4. Cardinality(At(mapped', {b})) \in Nat /\ Cardinality(here) \in Nat
    BY <2>3, FS_CardinalityType
  <2>5. OtherRefs(b)' = OtherRefs(b) - low(b) /\ OtherRefs(b)' \in Nat
    <3>1. CASE b \in LowPages
      <4>1. PICK g \in Files : \E h \in 1 .. MaxHandles[g] : b = <<g, h>>
        BY <3>1, LowPagesFacts
      <4>2. b[1] = g /\ b[1] \in Files
        BY <4>1
      <4>3. sg_failures[b] \in Nat /\ sg_failures'[b] = sg_failures[b]
        BY <1>0, <1>1, <3>1, ObjectsAssumption DEF TypeOK
      <4>4. CASE b[1] = f
        BY <1>4, <3>1, <4>2, <4>3, <4>4 DEF OtherRefs
      <4>5. CASE b[1] # f
        BY <1>4, <3>1, <4>2, <4>3, <4>5 DEF OtherRefs
      <4> QED
        BY <4>4, <4>5
    <3>2. CASE b \notin LowPages
      <4>1. OtherRefs(b)' = OtherRefs(b) /\ low(b) = 0
        BY <1>1, <3>2 DEF OtherRefs
      <4> HIDE DEF low
      <4> QED
        BY <2>2, <4>1
    <3> QED
      BY <3>1, <3>2
  <2>6. refs'[b] = refs[b] - Cardinality(here) - low(b) /\ low(b) \in Nat
    BY <1>1, <2>1
  <2> HIDE DEF here, low
  <2> QED
    BY <2>2, <2>3, <2>4, <2>5, <2>6
<1>8. Accounted'
  BY <1>6, <1>7 DEF Accounted
<1>9. refs' \in [Backings -> Nat]
  <2>1. refs' = [b \in Backings |-> refs'[b]]
    BY <1>1
  <2> QED
    BY <1>7, <2>1
<1>10. TypeOK'
  BY <1>0, <1>1, <1>2, <1>3, <1>4, <1>6, <1>9 DEF TypeOK, handleVars
<1> QED
  BY <1>5, <1>8, <1>10 DEF MemoryInv

----------------------------------------------------------------------------
LEMMA InitMemory == Init => MemoryInv
<1> SUFFICES ASSUME Init PROVE MemoryInv
  OBVIOUS
<1> USE DEF Init
<1>1. TypeOK
  BY ObjectsAssumption DEF TypeOK
<1>2. HandlesIssued /\ HandlesApart
  BY HandlesFacts, FS_EmptySet DEF HandlesIssued, HandlesApart
<1>3. \A B : At(mapped, B) = {}
  BY DEF At
<1>4. \A b \in Backings : OtherRefs(b) = 0
  <2>1. ASSUME NEW b \in LowPages PROVE OtherRefs(b) = 0
    <3>1. b[1] \in Files
      BY LowPagesFacts
    <3> QED
      BY <3>1 DEF OtherRefs
  <2> QED
    BY <2>1 DEF OtherRefs
<1>5. Accounted
  <2>1. \A B : IsFiniteSet(At(mapped, B)) /\ Cardinality(At(mapped, B)) = 0
    BY <1>3, FS_EmptySet
  <2>2. \A b \in Backings : refs[b] = 0
    OBVIOUS
  <2>3. structs = 0 /\ dmabuf_failures = 0
    OBVIOUS
  <2> HIDE DEF Init
  <2> QED
    BY <1>4, <2>1, <2>2, <2>3 DEF Accounted
<1> QED
  BY <1>1, <1>2, <1>5 DEF MemoryInv

LEMMA NextMemory == MemoryInv /\ [Next]_vars => MemoryInv'
<1> SUFFICES ASSUME MemoryInv, [Next]_vars PROVE MemoryInv'
  OBVIOUS
<1>1. ASSUME NEW f \in Files, BufferOps(f) PROVE MemoryInv'
  BY <1>1, MapBufferStep, MapFailsStep, UnmapBufferStep DEF BufferOps
<1>2. ASSUME NEW f \in Files, DriverOps(f) PROVE MemoryInv'
  BY <1>2, DescListStep, LowMemoryStep, ContinuousStep DEF DriverOps
<1>3. ASSUME NEW f \in Files, ChannelOps(f) \/ Close(f) PROVE MemoryInv'
  BY <1>3, ChannelStep, CloseStep
<1>4. CASE \E c \in Channels, n \in 1 .. MaxOngoing : ReapTransfers(c, n)
  BY <1>4, ChannelStep
<1>5. CASE UNCHANGED vars
  <2>1. Accounted'
    BY <1>5, AccountFramed DEF vars, bufferVars, driverVars
  <2> QED
    BY <1>5, <2>1 DEF vars, handleVars, bufferVars, driverVars, channelVars, MemoryInv, TypeOK,
       HandlesIssued, HandlesApart
<1> QED
  BY <1>1, <1>2, <1>3, <1>4, <1>5 DEF Next

LEMMA MemoryInvariant == Spec => []MemoryInv
BY InitMemory, NextMemory, PTL DEF Spec

(* Whatever the clients do, the driver gives back what mapping took, on    *)
(* every path of hailo_vdma_buffer_map and at a file's end, but for the    *)
(* leaks counted in dmabuf_failures, fds and sg_failures; and a handle of  *)
(* a file names one list, low-memory or continuous buffer.                 *)
THEOREM ResourcesCorrect == Spec => []ResourcesAccounted
<1>1. MemoryInv => ResourcesAccounted
  <2> SUFFICES ASSUME MemoryInv PROVE ResourcesAccounted
    OBVIOUS
  <2>0. TypeOK /\ HandlesApart /\ Accounted
    BY DEF MemoryInv
  <2>1. ASSUME NEW f \in Files PROVE HandlesDistinct(f)
    <3> DEFINE lists == {d.handle : d \in desc_lists[f]}
               name == [d \in desc_lists[f] |-> d.handle]
    <3>1. /\ name \in [desc_lists[f] -> lists]
          /\ \A d, e \in desc_lists[f] : name[d] = name[e] => d = e
          /\ \A h \in lists : \E d \in desc_lists[f] : name[d] = h
      BY <2>0 DEF HandlesApart
    <3>2. IsFiniteSet(desc_lists[f])
      BY <2>0 DEF HandlesApart
    <3>3. lists \intersect (low_memory[f] \union continuous[f]) = {}
          /\ low_memory[f] \intersect continuous[f] = {}
      BY <2>0 DEF HandlesApart
    <3>4. Cardinality(lists) = Cardinality(desc_lists[f])
      <4> HIDE DEF lists, name
      <4> QED
        BY <3>1, <3>2, SameSize
    <3> QED
      BY <3>3, <3>4 DEF HandlesDistinct
  <2>2. /\ \A b : Mapped(b) = At(mapped, {b})
        /\ UNION {Mapped(b) : b \in Backings} = At(mapped, Backings)
    BY <2>0, MappedAt DEF TypeOK
  <2>3. structs = Cardinality(UNION {Mapped(b) : b \in Backings}) + dmabuf_failures
    BY <2>0, <2>2 DEF Accounted
  <2>4. /\ refs[<<"user">>] = Cardinality(Mapped(<<"user">>))
        /\ refs[<<"dmabuf">>] = Cardinality(Mapped(<<"dmabuf">>)) + fds
    <3>1. /\ <<"user">> \in Backings /\ <<"dmabuf">> \in Backings
          /\ OtherRefs(<<"user">>) = 0 /\ OtherRefs(<<"dmabuf">>) = fds
      <4>1. <<"user">> # <<"dmabuf">>
        OBVIOUS
      <4> QED
        BY <4>1, LowPagesFacts DEF Backings, OtherRefs
    <3>2. \A b \in Backings :
            /\ refs[b] = Cardinality(At(mapped, {b})) + OtherRefs(b)
            /\ Cardinality(At(mapped, {b})) \in Nat
      BY <2>0, FS_CardinalityType DEF Accounted
    <3>3. /\ refs[<<"user">>] = Cardinality(At(mapped, {<<"user">>})) + 0
          /\ Cardinality(At(mapped, {<<"user">>})) \in Nat
          /\ refs[<<"dmabuf">>] = Cardinality(At(mapped, {<<"dmabuf">>})) + fds
      BY <3>1, <3>2
    <3> QED
      BY <2>2, <3>3
  <2>5. ASSUME NEW p \in LowPages
        PROVE  refs[p] = Cardinality(Mapped(p)) + sg_failures[p]
                         + (IF p[2] \in low_memory[p[1]] THEN 1 ELSE 0)
    <3>1. p \in Backings /\ sg_failures[p] \in Nat
      BY <2>0, ObjectsAssumption DEF Backings, TypeOK
    <3>2. /\ Cardinality(At(mapped, {p})) \in Nat
          /\ refs[p] = Cardinality(At(mapped, {p}))
                       + (sg_failures[p] + (IF p[2] \in low_memory[p[1]] THEN 1 ELSE 0))
      BY <2>0, <3>1, FS_CardinalityType DEF Accounted, OtherRefs
    <3> QED
      BY <2>2, <3>1, <3>2
  <2> QED
    BY <2>0, <2>1, <2>3, <2>4, <2>5 DEF ResourcesAccounted
<1> QED
  BY <1>1, MemoryInvariant, PTL

----------------------------------------------------------------------------
(* Transfers and the memory they use.                                      *)

LEMMA OngoingFiles ==
  ASSUME TypeOK
  PROVE  \A t \in AllOngoing : t.file \in Files
<1>1. \A c \in Channels : ongoing_transfers[c] \in Seq(Transfers)
  BY DEF TypeOK
<1>2. \A c \in Channels : \A i \in 1 .. Len(ongoing_transfers[c]) :
        ongoing_transfers[c][i] \in Transfers
  BY <1>1
<1> QED
  BY <1>2 DEF AllOngoing, Ongoing, Transfers

(* A file's mapped buffer with that handle.                                *)
HasBuffer(m, f, h) == \E i \in 1 .. Len(m[f]) : m[f][i].handle = h

(* Steps that leave the channels alone keep what transfers use.            *)
LEMMA TransfersKeep ==
  ASSUME TypeOK, TransferInv, UNCHANGED channelVars,
         "idle" \in Contract =>
           \A t \in AllOngoing :
             /\ \A h \in t.buffers : HasBuffer(mapped, t.file, h) => HasBuffer(mapped', t.file, h)
             /\ \A d \in desc_lists[t.file] : d.handle = t.list => d \in desc_lists'[t.file]
  PROVE  TransferInv'
<1>1. \A c : Ongoing(c)' = Ongoing(c)
  BY DEF Ongoing, channelVars
<1>2. ChannelsOwned' /\ DetachedWhenDisabled' /\ TransfersOwned'
  BY <1>1 DEF TransferInv, ChannelsOwned, DetachedWhenDisabled, TransfersOwned, channelVars
<1>3. ASSUME "idle" \in Contract PROVE TransfersFindMemory'
  <2> SUFFICES ASSUME NEW c \in Channels, NEW t \in Ongoing(c)
               PROVE  /\ \A h \in t.buffers : HasBuffer(mapped', t.file, h)
                      /\ [handle |-> t.list, at |-> last_desc_list[c]] \in desc_lists'[t.file]
    BY <1>1 DEF TransfersFindMemory, HasBuffer, channelVars
  <2>1. /\ \A h \in t.buffers : HasBuffer(mapped, t.file, h)
        /\ [handle |-> t.list, at |-> last_desc_list[c]] \in desc_lists[t.file]
    BY <1>3 DEF TransferInv, TransfersFindMemory, HasBuffer
  <2>2. t \in AllOngoing
    BY DEF AllOngoing
  <2> QED
    BY <1>3, <2>1, <2>2
<1> QED
  BY <1>2, <1>3 DEF TransferInv

LEMMA BufferTransfers ==
  ASSUME MemoryInv, TransferInv, NEW f \in Files, BufferOps(f)
  PROVE  TransferInv'
<1>0. TypeOK /\ UNCHANGED channelVars
  BY DEF MemoryInv, BufferOps, MapBuffer, MapCopyFails, MapSgFails, MapDmabufFails, UnmapBuffer
<1>1. UNCHANGED desc_lists
  BY DEF BufferOps, MapBuffer, MapCopyFails, MapSgFails, MapDmabufFails, UnmapBuffer, driverVars
<1>t. \A t \in AllOngoing : t.file \in Files
  BY <1>0, OngoingFiles
<1>2. CASE UNCHANGED mapped
  BY <1>0, <1>1, <1>2, TransfersKeep
<1>3. ASSUME NEW request \in MapRequests, NEW low, MapBuffer(f, request, low)
      PROVE  TransferInv'
  <2>1. PICK b : mapped' = [mapped EXCEPT ![f] = <<b>> \o mapped[f]]
    BY <1>3 DEF MapBuffer
  <2>2. ASSUME NEW g \in Files, NEW h, HasBuffer(mapped, g, h) PROVE HasBuffer(mapped', g, h)
    <3>1. mapped[f] \in Seq(Buffers)
      BY <1>0 DEF TypeOK
    <3>2. CASE g = f
      <4>1. PICK i \in 1 .. Len(mapped[f]) : mapped[f][i].handle = h
        BY <2>2, <3>2 DEF HasBuffer
      <4>2. mapped'[f] = <<b>> \o mapped[f]
        BY <1>0, <2>1 DEF TypeOK
      <4>3. i + 1 \in 1 .. Len(<<b>> \o mapped[f])
            /\ (<<b>> \o mapped[f])[i + 1] = mapped[f][i]
        BY <3>1
      <4> QED
        BY <3>2, <4>1, <4>2, <4>3 DEF HasBuffer
    <3>3. CASE g # f
      BY <1>0, <2>1, <2>2, <3>3 DEF TypeOK, HasBuffer
    <3> QED
      BY <3>2, <3>3
  <2> QED
    BY <1>0, <1>1, <1>t, <2>2, TransfersKeep
<1>4. ASSUME NEW h \in Handles, UnmapBuffer(f, h)
      PROVE  TransferInv'
  <2>1. PICK i \in 1 .. Len(mapped[f]) :
          /\ mapped[f][i].handle = h
          /\ mapped' = [mapped EXCEPT ![f] =
               SubSeq(mapped[f], 1, i - 1) \o SubSeq(mapped[f], i + 1, Len(mapped[f]))]
    BY <1>4 DEF UnmapBuffer
  <2>2. ASSUME NEW g \in Files, NEW k, HasBuffer(mapped, g, k), g # f \/ k # h
        PROVE  HasBuffer(mapped', g, k)
    <3> DEFINE s == mapped[f]
               u == SubSeq(s, 1, i - 1) \o SubSeq(s, i + 1, Len(s))
    <3>1. s \in Seq(Buffers) /\ i \in 1 .. Len(s)
      BY <1>0 DEF TypeOK
    <3>2. /\ u \in Seq(Buffers) /\ Len(u) = Len(s) - 1
          /\ \A j \in 1 .. i - 1 : u[j] = s[j]
          /\ \A j \in i .. Len(s) - 1 : u[j] = s[j + 1]
      BY <3>1, Cut
    <3>3. mapped' = [mapped EXCEPT ![f] = u]
      BY <2>1
    <3> HIDE DEF u
    <3>4. CASE g = f
      <4>1. PICK j \in 1 .. Len(s) : s[j].handle = k /\ j # i
        BY <2>1, <2>2, <3>4 DEF HasBuffer
      <4>2. mapped'[f] = u
        BY <1>0, <3>3 DEF TypeOK
      <4>3. CASE j < i
        <5>1. j \in 1 .. i - 1 /\ j \in 1 .. Len(u)
          BY <3>1, <3>2, <4>1, <4>3
        <5> QED
          BY <3>2, <3>4, <4>1, <4>2, <5>1 DEF HasBuffer
      <4>4. CASE j > i
        <5>1. j - 1 \in i .. Len(s) - 1 /\ j - 1 \in 1 .. Len(u) /\ (j - 1) + 1 = j
          BY <3>1, <3>2, <4>1, <4>4
        <5>2. u[j - 1] = s[j]
          BY <3>2, <5>1
        <5> QED
          BY <3>4, <4>1, <4>2, <5>1, <5>2 DEF HasBuffer
      <4> QED
        BY <4>1, <4>3, <4>4
    <3>5. CASE g # f
      BY <1>0, <2>2, <3>3, <3>5 DEF TypeOK, HasBuffer
    <3> QED
      BY <3>4, <3>5
  <2>3. "idle" \in Contract => \A t \in AllOngoing : t.file = f => h \notin t.buffers
    BY <1>4 DEF UnmapBuffer, BufferInUse
  <2> QED
    BY <1>0, <1>1, <1>t, <2>2, <2>3, TransfersKeep
<1> QED
  BY <1>2, <1>3, <1>4 DEF BufferOps, MapCopyFails, MapSgFails, MapDmabufFails, bufferVars

LEMMA DriverTransfers ==
  ASSUME MemoryInv, TransferInv, NEW f \in Files, DriverOps(f)
  PROVE  TransferInv'
<1>0. TypeOK /\ UNCHANGED channelVars /\ UNCHANGED mapped
  BY DEF MemoryInv, DriverOps, CreateDescList, AllocLowMemory, AllocContinuous, CreateFails,
     ReleaseDescList, FreeLowMemory, FreeContinuous, bufferVars
<1>1. CASE UNCHANGED desc_lists
  BY <1>0, <1>1, TransfersKeep
<1>2. ASSUME NEW slot \in Slots, CreateDescList(f, slot) PROVE TransferInv'
  <2>1. \A g \in Files : \A d \in desc_lists[g] : d \in desc_lists'[g]
    BY <1>0, <1>2 DEF CreateDescList, TypeOK
  <2> QED
    BY <1>0, <2>1, OngoingFiles, TransfersKeep
<1>3. ASSUME NEW h \in Handles, ReleaseDescList(f, h) PROVE TransferInv'
  <2>1. \A g \in Files : \A d \in desc_lists[g] : g # f \/ d.handle # h => d \in desc_lists'[g]
    BY <1>0, <1>3 DEF ReleaseDescList, FindDescLists, TypeOK
  <2>2. "idle" \in Contract => \A t \in AllOngoing : t.file = f => t.list # h
    BY <1>3 DEF ReleaseDescList, ListInUse
  <2> QED
    BY <1>0, <2>1, <2>2, OngoingFiles, TransfersKeep
<1> QED
  BY <1>1, <1>2, <1>3 DEF DriverOps, AllocLowMemory, AllocContinuous, CreateFails,
     FreeLowMemory, FreeContinuous, driverVars

(* Channels that are dropped keep nothing, the others everything.          *)
LEMMA DropFacts ==
  ASSUME TypeOK, NEW channels, DropTransfers(channels)
  PROVE  \A c \in Channels :
           /\ c \in enabled_channels' <=> c \in enabled_channels /\ c \notin channels
           /\ c \in channels => /\ last_desc_list'[c] = NoList
                                /\ ongoing_transfers'[c] = <<>> /\ Ongoing(c)' = {}
           /\ c \notin channels => /\ last_desc_list'[c] = last_desc_list[c]
                                   /\ ongoing_transfers'[c] = ongoing_transfers[c]
                                   /\ Ongoing(c)' = Ongoing(c)
BY DEF DropTransfers, Ongoing

LEMMA ChannelTransfers ==
  ASSUME MemoryInv, TransferInv, "owned" \in Contract, NEW f \in Files, ChannelOps(f)
  PROVE  TransferInv'
<1>0. TypeOK /\ UNCHANGED <<mapped, desc_lists>>
  BY DEF MemoryInv, ChannelOps, EnableChannel, DisableChannel, LaunchTransfer, Launch,
     bufferVars, driverVars
<1> USE DEF TransferInv
<1>1. ASSUME NEW c \in Channels, EnableChannel(f, c) PROVE TransferInv'
  <2>1. /\ c \notin enabled_channels /\ enabled_channels' = enabled_channels \union {c}
        /\ context_channels' = [context_channels EXCEPT ![f] = context_channels[f] \union {c}]
        /\ UNCHANGED <<last_desc_list, ongoing_transfers>>
    BY <1>1 DEF EnableChannel
  <2>2. \A e : Ongoing(e)' = Ongoing(e)
    BY <2>1 DEF Ongoing
  <2>3. ChannelsOwned'
    BY <1>0, <2>1 DEF TypeOK, ChannelsOwned
  <2>4. DetachedWhenDisabled'
    BY <2>1 DEF DetachedWhenDisabled
  <2>5. TransfersOwned'
    BY <1>0, <2>1, <2>2 DEF TypeOK, TransfersOwned
  <2>6. ASSUME "idle" \in Contract PROVE TransfersFindMemory'
    BY <1>0, <2>1, <2>2, <2>6 DEF TransfersFindMemory
  <2> QED
    BY <2>3, <2>4, <2>5, <2>6
<1>2. ASSUME NEW c \in Channels, DisableChannel(f, c) PROVE TransferInv'
  <2>1. /\ c \in context_channels[f] /\ DropTransfers({c})
        /\ context_channels' = [context_channels EXCEPT ![f] = context_channels[f] \ {c}]
    BY <1>2 DEF DisableChannel
  <2>2. /\ context_channels'[f] = context_channels[f] \ {c}
        /\ \A g \in Files : g # f => context_channels'[g] = context_channels[g]
        /\ \A g \in Files : context_channels'[g] \subseteq Channels
    BY <1>0, <2>1 DEF TypeOK
  <2>3. ChannelsOwned'
    BY <1>0, <2>1, <2>2, DropFacts DEF ChannelsOwned
  <2>4. DetachedWhenDisabled'
    BY <1>0, <2>1, DropFacts DEF DetachedWhenDisabled
  <2>5. TransfersOwned'
    <3>1. ASSUME NEW e \in Channels, NEW t \in Ongoing(e)' PROVE e \in context_channels'[t.file]
      <4>1. e # c /\ t \in Ongoing(e)
        BY <1>0, <2>1, <3>1, DropFacts
      <4>2. e \in context_channels[t.file] /\ t.file \in Files
        BY <1>0, <4>1, OngoingFiles DEF TransfersOwned, AllOngoing
      <4> QED
        BY <2>2, <4>1, <4>2
    <3> QED
      BY <3>1 DEF TransfersOwned
  <2>6. ASSUME "idle" \in Contract PROVE TransfersFindMemory'
    BY <1>0, <2>1, <2>6, DropFacts DEF TransfersFindMemory
  <2> QED
    BY <2>3, <2>4, <2>5, <2>6
<1>3. ASSUME NEW c \in Channels, NEW h \in Handles, NEW wanted \in SUBSET LaunchBuffers,
             LaunchTransfer(f, c, h, wanted)
      PROVE  TransferInv'
  <2>1. PICK d \in desc_lists[f], handles \in SUBSET Handles :
          /\ Launch(f, c, d, handles) /\ d.at \in Slots
          /\ d = [handle |-> d.handle, at |-> d.at]
          /\ \A k \in handles : \E i \in 1 .. Len(mapped[f]) : mapped[f][i].handle = k
    BY <1>0, <1>3, LaunchFacts
  <2> DEFINE t == [file |-> f, list |-> d.handle, buffers |-> handles]
  <2>2. /\ c \in context_channels[f] /\ UNCHANGED <<enabled_channels, context_channels>>
        /\ last_desc_list' = [last_desc_list EXCEPT
             ![c] = IF last_desc_list[c] = NoList THEN d.at ELSE last_desc_list[c]]
        /\ \/ UNCHANGED ongoing_transfers
           \/ /\ last_desc_list[c] \in {NoList, d.at}
              /\ ongoing_transfers' =
                   [ongoing_transfers EXCEPT ![c] = Append(ongoing_transfers[c], t)]
    BY <2>1 DEF Launch
  <2>3. t.file = f /\ t.list = d.handle /\ t.buffers = handles
    OBVIOUS
  <2> HIDE DEF t
  <2>4. /\ \A e \in Channels : e # c => /\ last_desc_list'[e] = last_desc_list[e]
                                        /\ ongoing_transfers'[e] = ongoing_transfers[e]
                                        /\ Ongoing(e)' = Ongoing(e)
        /\ Ongoing(c)' = Ongoing(c)
           \/ /\ Ongoing(c)' = Ongoing(c) \union {t}
              /\ last_desc_list[c] \in {NoList, d.at}
    <3>1. CASE UNCHANGED ongoing_transfers
      BY <1>0, <2>2, <3>1 DEF TypeOK, Ongoing
    <3>2. CASE /\ last_desc_list[c] \in {NoList, d.at}
               /\ ongoing_transfers' =
                    [ongoing_transfers EXCEPT ![c] = Append(ongoing_transfers[c], t)]
      <4> DEFINE s == ongoing_transfers[c]
                 u == Append(s, t)
      <4>1. s \in Seq(Transfers) /\ ongoing_transfers'[c] = u
            /\ \A e \in Channels : e # c => ongoing_transfers'[e] = ongoing_transfers[e]
        BY <1>0, <3>2 DEF TypeOK
      <4>2. Len(u) = Len(s) + 1 /\ u[Len(s) + 1] = t /\ \A i \in 1 .. Len(s) : u[i] = s[i]
        BY <4>1
      <4>3. Len(s) \in Nat /\ 1 .. Len(s) + 1 = (1 .. Len(s)) \union {Len(s) + 1}
        BY <4>1
      <4>4. {u[i] : i \in 1 .. Len(u)} = {s[i] : i \in 1 .. Len(s)} \union {t}
        <5> HIDE DEF s, u
        <5> QED
          BY <4>2, <4>3
      <4>5. Ongoing(c)' = Ongoing(c) \union {t}
        BY <4>1, <4>4 DEF Ongoing
      <4>6. \A e \in Channels : e # c => Ongoing(e)' = Ongoing(e)
        BY <4>1 DEF Ongoing
      <4>7. \A e \in Channels : e # c => last_desc_list'[e] = last_desc_list[e]
        BY <1>0, <2>2 DEF TypeOK
      <4> QED
        BY <3>2, <4>1, <4>5, <4>6, <4>7
    <3> QED
      BY <2>2, <3>1, <3>2
  <2>5. ChannelsOwned'
    BY <2>2 DEF ChannelsOwned
  <2>6. DetachedWhenDisabled'
    <3>1. c \in enabled_channels
      BY <2>2 DEF ChannelsOwned
    <3> QED
      BY <2>2, <2>4, <3>1 DEF DetachedWhenDisabled
  <2>7. TransfersOwned'
    BY <2>2, <2>3, <2>4 DEF TransfersOwned
  <2>8. ASSUME "idle" \in Contract PROVE TransfersFindMemory'
    <3>1. last_desc_list[c] = NoList => Ongoing(c) = {}
      <4> SUFFICES ASSUME last_desc_list[c] = NoList, NEW r \in Ongoing(c) PROVE FALSE
        OBVIOUS
      <4>1. [handle |-> r.list, at |-> NoList] \in desc_lists[r.file] /\ r.file \in Files
        BY <1>0, <2>8, OngoingFiles DEF TransfersFindMemory, AllOngoing
      <4>2. [handle |-> r.list, at |-> NoList] \in DescLists
        BY <1>0, <4>1 DEF TypeOK
      <4> QED
        BY <4>2, ObjectsAssumption DEF DescLists
    <3>2. last_desc_list'[c] = IF last_desc_list[c] = NoList THEN d.at ELSE last_desc_list[c]
      BY <1>0, <2>2 DEF TypeOK
    <3>3. ASSUME NEW r \in Ongoing(c)
          PROVE  /\ \A k \in r.buffers :
                      \E i \in 1 .. Len(mapped[r.file]) : mapped[r.file][i].handle = k
                 /\ [handle |-> r.list, at |-> last_desc_list'[c]] \in desc_lists[r.file]
      BY <2>8, <3>1, <3>2, <3>3 DEF TransfersFindMemory
    <3>4. ASSUME last_desc_list[c] \in {NoList, d.at}
          PROVE  /\ \A k \in t.buffers :
                      \E i \in 1 .. Len(mapped[t.file]) : mapped[t.file][i].handle = k
                 /\ [handle |-> t.list, at |-> last_desc_list'[c]] \in desc_lists[t.file]
      BY <2>1, <2>3, <3>2, <3>4
    <3>5. ASSUME NEW r \in Ongoing(c)'
          PROVE  /\ \A k \in r.buffers :
                      \E i \in 1 .. Len(mapped[r.file]) : mapped[r.file][i].handle = k
                 /\ [handle |-> r.list, at |-> last_desc_list'[c]] \in desc_lists[r.file]
      BY <2>4, <3>3, <3>4, <3>5
    <3>6. ASSUME NEW e \in Channels, e # c, NEW r \in Ongoing(e)'
          PROVE  /\ \A k \in r.buffers :
                      \E i \in 1 .. Len(mapped[r.file]) : mapped[r.file][i].handle = k
                 /\ [handle |-> r.list, at |-> last_desc_list'[e]] \in desc_lists[r.file]
      BY <2>4, <2>8, <3>6 DEF TransfersFindMemory
    <3> QED
      BY <1>0, <3>5, <3>6, ZenonT(40) DEF TransfersFindMemory
  <2> QED
    BY <2>5, <2>6, <2>7, <2>8
<1> QED
  BY <1>1, <1>2, <1>3 DEF ChannelOps

(* A file that goes drops the transfers it launched before its memory.     *)
LEMMA CloseTransfers ==
  ASSUME MemoryInv, TransferInv, NEW f \in Files, Close(f)
  PROVE  TransferInv'
<1>0. TypeOK
  BY DEF MemoryInv
<1> USE DEF TransferInv
<1>1. /\ DropTransfers(context_channels[f])
      /\ context_channels' = [context_channels EXCEPT ![f] = {}]
      /\ mapped' = [mapped EXCEPT ![f] = <<>>]
      /\ desc_lists' = [desc_lists EXCEPT ![f] = {}]
  BY DEF Close, FinalizeChannels, ClearLists
<1>2. /\ context_channels'[f] = {}
      /\ \A g \in Files : g # f => /\ context_channels'[g] = context_channels[g]
                                   /\ mapped'[g] = mapped[g]
                                   /\ desc_lists'[g] = desc_lists[g]
      /\ \A g \in Files : context_channels[g] \subseteq Channels
  BY <1>0, <1>1 DEF TypeOK
<1>3. ChannelsOwned'
  BY <1>0, <1>1, <1>2, DropFacts DEF ChannelsOwned
<1>4. DetachedWhenDisabled'
  BY <1>0, <1>1, DropFacts DEF DetachedWhenDisabled
<1>5. ASSUME NEW c \in Channels, NEW t \in Ongoing(c)'
      PROVE  /\ c \notin context_channels[f] /\ t \in Ongoing(c) /\ t.file \in Files
             /\ t.file # f /\ c \in context_channels[t.file]
  <2>1. c \notin context_channels[f] /\ t \in Ongoing(c)
    BY <1>0, <1>1, <1>5, DropFacts
  <2> QED
    BY <1>0, <2>1, OngoingFiles DEF TransfersOwned, AllOngoing
<1>6. TransfersOwned'
  BY <1>2, <1>5 DEF TransfersOwned
<1>7. ASSUME "idle" \in Contract PROVE TransfersFindMemory'
  <2>1. ASSUME NEW c \in Channels, NEW t \in Ongoing(c)'
        PROVE  /\ \A h \in t.buffers :
                    \E i \in 1 .. Len(mapped'[t.file]) : mapped'[t.file][i].handle = h
               /\ [handle |-> t.list, at |-> last_desc_list'[c]] \in desc_lists'[t.file]
    <3>1. last_desc_list'[c] = last_desc_list[c]
      BY <1>0, <1>1, <1>5, <2>1, DropFacts
    <3> QED
      BY <1>2, <1>5, <1>7, <2>1, <3>1 DEF TransfersFindMemory
  <2> QED
    BY <2>1 DEF TransfersFindMemory
<1> QED
  BY <1>3, <1>4, <1>6, <1>7

LEMMA ReapKeeps ==
  ASSUME MemoryInv, TransferInv, NEW c \in Channels, NEW n \in 1 .. MaxOngoing,
         ReapTransfers(c, n)
  PROVE  TransferInv'
<1>0. TypeOK
  BY DEF MemoryInv
<1> USE DEF TransferInv
<1>1. /\ last_desc_list[c] # NoList /\ n <= Len(ongoing_transfers[c])
      /\ ongoing_transfers' = [ongoing_transfers EXCEPT
           ![c] = SubSeq(ongoing_transfers[c], n + 1, Len(ongoing_transfers[c]))]
      /\ UNCHANGED <<mapped, desc_lists, enabled_channels, context_channels, last_desc_list>>
  BY DEF ReapTransfers, bufferVars, driverVars
<1>2. \A e \in Channels : Ongoing(e)' \subseteq Ongoing(e)
  <2> DEFINE s == ongoing_transfers[c]
             u == SubSeq(s, n + 1, Len(s))
  <2>1. s \in Seq(Transfers) /\ n \in 1 .. Len(s)
    BY <1>0, <1>1 DEF TypeOK
  <2>2. Len(u) = Len(s) - n /\ \A i \in 1 .. Len(s) - n : u[i] = s[i + n]
    BY <2>1
  <2>3. \A i \in 1 .. Len(u) : i + n \in 1 .. Len(s) /\ u[i] = s[i + n]
    BY <2>1, <2>2
  <2>4. ongoing_transfers'[c] = u
        /\ \A e \in Channels : e # c => ongoing_transfers'[e] = ongoing_transfers[e]
    BY <1>0, <1>1 DEF TypeOK
  <2>5. \A i \in 1 .. Len(u) : \E j \in 1 .. Len(s) : u[i] = s[j]
    <3> HIDE DEF u, s
    <3> QED
      BY <2>3
  <2> HIDE DEF u
  <2>6. Ongoing(c)' \subseteq Ongoing(c)
    BY <2>4, <2>5 DEF Ongoing
  <2>7. \A e \in Channels : e # c => Ongoing(e)' = Ongoing(e)
    BY <2>4 DEF Ongoing
  <2> QED
    BY <2>6, <2>7
<1>3. ChannelsOwned' /\ TransfersOwned'
  BY <1>1, <1>2 DEF ChannelsOwned, TransfersOwned
<1>4. DetachedWhenDisabled'
  <2>1. c \in enabled_channels
    BY <1>1 DEF DetachedWhenDisabled
  <2> QED
    BY <1>0, <1>1, <2>1 DEF DetachedWhenDisabled, TypeOK
<1>5. ASSUME "idle" \in Contract PROVE TransfersFindMemory'
  BY <1>1, <1>2, <1>5 DEF TransfersFindMemory
<1> QED
  BY <1>3, <1>4, <1>5

LEMMA InitTransfers == Init => TransferInv
<1> SUFFICES ASSUME Init PROVE TransferInv
  OBVIOUS
<1>1. ChannelsOwned /\ DetachedWhenDisabled
  BY DEF Init, ChannelsOwned, DetachedWhenDisabled
<1>2. \A c \in Channels : Ongoing(c) = {}
  BY DEF Init, Ongoing
<1> QED
  BY <1>1, <1>2 DEF TransferInv, TransfersOwned, TransfersFindMemory

LEMMA NextTransfers ==
  ASSUME "owned" \in Contract
  PROVE  MemoryInv /\ TransferInv /\ [Next]_vars => TransferInv'
<1> SUFFICES ASSUME MemoryInv, TransferInv, [Next]_vars PROVE TransferInv'
  OBVIOUS
<1>1. ASSUME NEW f \in Files, BufferOps(f) \/ DriverOps(f) \/ ChannelOps(f) \/ Close(f)
      PROVE  TransferInv'
  BY <1>1, BufferTransfers, DriverTransfers, ChannelTransfers, CloseTransfers
<1>2. CASE \E c \in Channels, n \in 1 .. MaxOngoing : ReapTransfers(c, n)
  BY <1>2, ReapKeeps
<1>3. CASE UNCHANGED vars
  BY <1>3, TransfersKeep DEF MemoryInv, vars, bufferVars, driverVars
<1> QED
  BY <1>1, <1>2, <1>3 DEF Next

LEMMA TransferInvariant == "owned" \in Contract => (Spec => []TransferInv)
<1> SUFFICES ASSUME "owned" \in Contract PROVE Spec => []TransferInv
  OBVIOUS
<1>1. MemoryInv /\ TransferInv /\ [Next]_vars => TransferInv'
  BY NextTransfers
<1> QED
  BY <1>1, InitTransfers, MemoryInvariant, PTL DEF Spec

(* "desc list may change only after channel deactivation" (vdma_common.c): *)
(* a channel that is not enabled is attached to no list, for any number of *)
(* files that launch on, and disable, only channels they have enabled.     *)
THEOREM DetachedCorrect == "owned" \in Contract => (Spec => []DetachedWhenDisabled)
<1> SUFFICES ASSUME "owned" \in Contract PROVE Spec => []DetachedWhenDisabled
  OBVIOUS
<1>1. Spec => []TransferInv
  BY TransferInvariant
<1>2. TransferInv => DetachedWhenDisabled
  BY DEF TransferInv
<1> QED
  BY <1>1, <1>2, PTL

(* The buffers and the list of a transfer outlive it, though it holds no   *)
(* reference to them: of clients that keep the contract, whoever reaps it  *)
(* (hailo_vdma_engine_fill_irq_data) or drops it finds them, and the order *)
(* of hailo_vdma_file_context_finalize, channels first, does the same when *)
(* a file is closed with transfers under way.                              *)
THEOREM TransfersCorrect == Contract = Clauses => (Spec => []TransfersFindMemory)
<1> SUFFICES ASSUME Contract = Clauses PROVE Spec => []TransfersFindMemory
  OBVIOUS
<1>1. Spec => []TransferInv
  BY TransferInvariant DEF Clauses
<1>2. TransferInv => TransfersFindMemory
  BY DEF TransferInv, Clauses
<1> QED
  BY <1>1, <1>2, PTL

=============================================================================
