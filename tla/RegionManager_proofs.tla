------------------------- MODULE RegionManager_proofs -------------------------
(***************************************************************************)
(* Proofs about RegionManager, for any regions, readers, files and limit.  *)
(***************************************************************************)
EXTENDS RegionManager, FiniteSetTheorems, SequenceTheorems, TLAPS

Elements == [key : Regions, mapped : BOOLEAN]

-----------------------------------------------------------------------------
(* Lists. *)

LEMMA RemoveAtFacts ==
  ASSUME NEW list \in Seq(Elements), NEW n \in 1..Len(list)
  PROVE  /\ RemoveAt(list, n) \in Seq(Elements)
         /\ Len(RemoveAt(list, n)) = Len(list) - 1
         /\ \A i \in 1..(Len(list) - 1) :
              RemoveAt(list, n)[i] = IF i < n THEN list[i] ELSE list[i + 1]
<1> DEFINE a == SubSeq(list, 1, n - 1)
           b == SubSeq(list, n + 1, Len(list))
<1>1. a \in Seq(Elements) /\ Len(a) = n - 1 /\ \A i \in 1..(n - 1) : a[i] = list[i]
  OBVIOUS
<1>2. /\ b \in Seq(Elements) /\ Len(b) = Len(list) - n
      /\ \A i \in 1..(Len(list) - n) : b[i] = list[n + i]
  OBVIOUS
<1>3. RemoveAt(list, n) = a \o b
  BY DEF RemoveAt
<1> HIDE DEF a, b
<1> DEFINE r == a \o b
<1>4. r \in Seq(Elements) /\ Len(r) = Len(a) + Len(b)
  BY <1>1, <1>2, ConcatProperties, Zenon
<1>5. \A i \in 1..(Len(a) + Len(b)) : r[i] = IF i <= Len(a) THEN a[i] ELSE b[i - Len(a)]
  BY <1>1, <1>2, ConcatProperties
<1>6. \A i \in 1..(Len(list) - 1) : r[i] = IF i < n THEN list[i] ELSE list[i + 1]
  BY <1>1, <1>2, <1>5
<1>7. Len(a) + Len(b) = Len(list) - 1
  BY <1>1, <1>2
<1> HIDE DEF r
<1>8. RemoveAt(list, n) = r
  BY <1>3 DEF r
<1> QED BY <1>4, <1>6, <1>7, <1>8

LEMMA UnmappedFacts ==
  ASSUME NEW list \in Seq(Elements), NEW k \in Regions
  PROVE  /\ Unmapped(list, k) \in Seq(Elements)
         /\ Len(Unmapped(list, k)) = Len(list)
         /\ \A i \in 1..Len(list) : /\ Unmapped(list, k)[i].key = list[i].key
                                    /\ list[i].key # k => Unmapped(list, k)[i] = list[i]
<1> DEFINE f(i) == IF list[i].key = k THEN [key |-> k, mapped |-> FALSE] ELSE list[i]
<1>0. [key |-> k, mapped |-> FALSE] \in Elements
  BY DEF Elements
<1>1. \A i \in 1..Len(list) : f(i) \in Elements /\ f(i).key = list[i].key
  BY <1>0
<1>2. Unmapped(list, k) = [i \in 1..Len(list) |-> f(i)]
  BY DEF Unmapped
<1>3. \A i \in 1..Len(list) : list[i].key # k => f(i) = list[i]
  OBVIOUS
<1> HIDE DEF f
<1>4. Len(list) \in Nat
  OBVIOUS
<1> QED BY <1>1, <1>2, <1>3, <1>4

LEMMA PushedFacts ==
  ASSUME NEW list \in Seq(Elements), NEW k \in Regions
  PROVE  /\ Pushed(list, k) \in Seq(Elements)
         /\ Len(Pushed(list, k)) = Len(list) + 1
         /\ Pushed(list, k)[1] = Element(k)
         /\ \A i \in 1..Len(list) :
              /\ Pushed(list, k)[i + 1].key = list[i].key
              /\ list[i].key # k => Pushed(list, k)[i + 1] = list[i]
<1>1. Element(k) \in Elements
  BY DEF Element, Elements
<1> HIDE DEF Element
<1> DEFINE u == Unmapped(list, k)
<1>2. u \in Seq(Elements) /\ Len(u) = Len(list)
  BY UnmappedFacts
<1>3. \A i \in 1..Len(list) : u[i].key = list[i].key /\ (list[i].key # k => u[i] = list[i])
  BY UnmappedFacts
<1> HIDE DEF u
<1>4. Pushed(list, k) = <<Element(k)>> \o u
  BY DEF Pushed, u
<1>5. /\ Pushed(list, k) \in Seq(Elements) /\ Len(Pushed(list, k)) = Len(list) + 1
      /\ Pushed(list, k)[1] = Element(k)
      /\ \A i \in 1..Len(list) : Pushed(list, k)[i + 1] = u[i]
  BY <1>1, <1>2, <1>4
<1> QED BY <1>3, <1>5
-----------------------------------------------------------------------------
(* What the elements of a list say. *)

Has(list, e) == \E i \in 1..Len(list) : list[i] = e

Listed(list, k) == \E i \in 1..Len(list) : list[i].key = k

(* The list is that of the open regions S: lruMap holds each element. *)
Exact(list, S) ==
  /\ \A i \in 1..Len(list) : list[i] = Element(list[i].key) /\ list[i].key \in S
  /\ \A i, j \in 1..Len(list) : list[i].key = list[j].key => i = j

LEMMA PushedKeeps ==
  ASSUME NEW list \in Seq(Elements), NEW k \in Regions
  PROVE  /\ \A l : Listed(Pushed(list, k), l) <=> l = k \/ Listed(list, l)
         /\ \A S : Exact(list, S) /\ ~Listed(list, k) => Exact(Pushed(list, k), S \cup {k})
<1> DEFINE r == Pushed(list, k)
<1>1. /\ Len(list) \in Nat /\ Len(r) = Len(list) + 1 /\ r[1] = Element(k)
      /\ \A i \in 1..Len(list) : /\ r[i + 1].key = list[i].key
                                 /\ list[i].key # k => r[i + 1] = list[i]
  BY PushedFacts
<1>2. Element(k).key = k
  BY DEF Element
<1> HIDE DEF r
<1>3. \A i \in 1..Len(r) : i = 1 \/ (i - 1 \in 1..Len(list) /\ r[i].key = list[i - 1].key
                                      /\ (list[i - 1].key # k => r[i] = list[i - 1]))
  <2> SUFFICES ASSUME NEW i \in 1..Len(r), i # 1
               PROVE  i - 1 \in 1..Len(list) /\ r[i].key = list[i - 1].key
                      /\ (list[i - 1].key # k => r[i] = list[i - 1])
    OBVIOUS
  <2>1. i - 1 \in 1..Len(list) /\ (i - 1) + 1 = i
    BY <1>1
  <2> QED BY <1>1, <2>1
<1>4. \A l : Listed(r, l) <=> l = k \/ Listed(list, l)
  <2>1. \A l : Listed(r, l) => l = k \/ Listed(list, l)
    BY <1>1, <1>2, <1>3 DEF Listed
  <2>2. Listed(r, k)
    BY <1>1, <1>2 DEF Listed
  <2>3. \A l : Listed(list, l) => Listed(r, l)
    <3> SUFFICES ASSUME NEW l, NEW i \in 1..Len(list), list[i].key = l
                 PROVE  Listed(r, l)
      BY DEF Listed
    <3>1. i + 1 \in 1..Len(r)
      BY <1>1
    <3> QED BY <1>1, <3>1 DEF Listed
  <2> QED BY <2>1, <2>2, <2>3
<1>5. ASSUME NEW S, Exact(list, S), ~Listed(list, k)
      PROVE  Exact(r, S \cup {k})
  <2>1. \A i \in 1..Len(list) : list[i].key # k /\ list[i].key \in S
                               /\ list[i] = Element(list[i].key)
    BY <1>5 DEF Exact, Listed
  <2>2. \A i \in 1..Len(r) : r[i] = Element(r[i].key) /\ r[i].key \in S \cup {k}
    BY <1>1, <1>2, <1>3, <2>1
  <2>3. \A i, j \in 1..Len(r) : r[i].key = r[j].key => i = j
    <3> SUFFICES ASSUME NEW i \in 1..Len(r), NEW j \in 1..Len(r), r[i].key = r[j].key
                 PROVE  i = j
      OBVIOUS
    <3>1. CASE i = 1 \/ j = 1
      BY <1>1, <1>2, <1>3, <2>1, <3>1
    <3>2. CASE i # 1 /\ j # 1
      <4>1. i - 1 = j - 1
        BY <1>3, <1>5, <3>2 DEF Exact
      <4> QED BY <1>1, <4>1
    <3> QED BY <3>1, <3>2
  <2> QED BY <2>2, <2>3 DEF Exact
<1> QED BY <1>4, <1>5 DEF r

LEMMA TouchedFacts ==
  ASSUME NEW list \in Seq(Elements), NEW k \in Regions
  PROVE  /\ Touched(list, k) \in Seq(Elements)
         /\ \A l : Listed(list, l) => Listed(Touched(list, k), l)
         /\ \A e \in Elements : Has(list, e) => Has(Touched(list, k), e)
         /\ \A S : Exact(list, S) /\ Listed(list, k) => Exact(Touched(list, k), S)
<1> DEFINE r == Touched(list, k)
<1>0. Len(list) \in Nat /\ DOMAIN list = 1..Len(list) /\ Element(k).key = k
  BY DEF Element
<1>1. CASE Has(list, Element(k))
  <2> DEFINE n == CHOOSE i \in DOMAIN list : list[i] = Element(k)
             t == RemoveAt(list, n)
  <2>1. n \in 1..Len(list) /\ list[n] = Element(k)
    BY <1>0, <1>1 DEF Has
  <2>2. r = <<Element(k)>> \o t
    BY <1>0, <1>1 DEF Touched, Has
  <2> HIDE DEF n
  <2>3. /\ t \in Seq(Elements) /\ Len(t) = Len(list) - 1
        /\ \A i \in 1..(Len(list) - 1) : t[i] = IF i < n THEN list[i] ELSE list[i + 1]
    BY <2>1, RemoveAtFacts
  <2>4. Element(k) \in Elements
    BY DEF Element, Elements
  <2> HIDE DEF t, r, Element
  <2>5. /\ r \in Seq(Elements) /\ Len(r) = Len(list) /\ r[1] = Element(k)
        /\ \A i \in 1..(Len(list) - 1) : r[i + 1] = t[i]
    <3>1. t \in Seq(Elements) /\ Len(t) = Len(list) - 1
      BY <2>3
    <3>2. /\ r \in Seq(Elements) /\ Len(r) = 1 + Len(t) /\ r[1] = Element(k)
          /\ \A i \in 1..Len(t) : r[i + 1] = t[i]
      BY <2>2, <2>4, <3>1
    <3> QED BY <1>0, <3>1, <3>2
  <2>6. ASSUME NEW i \in 1..Len(list) 
        PROVE  \E j \in 1..Len(r) : r[j] = list[i]
    <3>1. CASE i = n
      BY <2>1, <2>5, <3>1
    <3>2. CASE i < n
      <4>1. i \in 1..(Len(list) - 1) /\ i + 1 \in 1..Len(r)
        BY <1>0, <2>1, <2>5, <3>2
      <4> QED BY <2>3, <2>5, <3>2, <4>1
    <3>3. CASE i > n
      <4>1. i - 1 \in 1..(Len(list) - 1) /\ (i - 1) + 1 = i /\ ~(i - 1 < n) /\ i \in 1..Len(r)
        BY <1>0, <2>1, <2>5, <3>3
      <4> QED BY <2>3, <2>5, <4>1
    <3> QED BY <2>1, <3>1, <3>2, <3>3
  <2> DEFINE o(i) == IF i = 1 THEN n ELSE IF i - 1 < n THEN i - 1 ELSE i
  <2>7. \A i \in 1..Len(r) : o(i) \in 1..Len(list) /\ r[i] = list[o(i)]
    <3> SUFFICES ASSUME NEW i \in 1..Len(r) PROVE o(i) \in 1..Len(list) /\ r[i] = list[o(i)]
      OBVIOUS
    <3>1. CASE i = 1
      BY <2>1, <2>5, <3>1
    <3>2. CASE i # 1
      <4>1. i - 1 \in 1..(Len(list) - 1) /\ (i - 1) + 1 = i
        BY <1>0, <2>5, <3>2
      <4>2. r[i] = t[i - 1]
        BY <2>5, <4>1
      <4> QED BY <1>0, <2>1, <2>3, <2>5, <3>2, <4>1, <4>2
    <3> QED BY <3>1, <3>2
  <2>8. \A i, j \in 1..Len(r) : o(i) = o(j) => i = j
    BY <1>0, <2>1, <2>5
  <2> HIDE DEF o
  <2>9. \A S : Exact(list, S) => Exact(r, S)
    BY <2>7, <2>8 DEF Exact
  <2> QED BY <2>5, <2>6, <2>9 DEF Listed, Has, r
<1>2. CASE ~Has(list, Element(k))
  <2>1. r = Pushed(list, k)
    BY <1>0, <1>2 DEF Touched, Has
  <2>2. /\ r \in Seq(Elements) /\ Len(r) = Len(list) + 1
        /\ \A i \in 1..Len(list) : list[i].key # k => r[i + 1] = list[i]
    BY <2>1, PushedFacts
  <2>3. ASSUME NEW i \in 1..Len(list), list[i].key = k
        PROVE  list[i] = [key |-> k, mapped |-> FALSE] /\ Unmapped(list, k)[i] = list[i]
    <3>1. list[i] \in Elements /\ list[i] # Element(k)
      BY <1>2 DEF Has
    <3>2. list[i] = [key |-> k, mapped |-> FALSE]
      BY <2>3, <3>1 DEF Elements, Element
    <3> QED BY <1>0, <3>2 DEF Unmapped
  <2>4. /\ Unmapped(list, k) \in Seq(Elements) /\ Len(Unmapped(list, k)) = Len(list)
    BY UnmappedFacts
  <2>5. Element(k) \in Elements
    BY DEF Element, Elements
  <2>6. \A i \in 1..Len(list) : r[i + 1] = Unmapped(list, k)[i]
    <3> HIDE DEF Element
    <3>1. r = <<Element(k)>> \o Unmapped(list, k)
      BY <2>1 DEF Pushed
    <3> HIDE DEF r
    <3> DEFINE u == Unmapped(list, k)
    <3>2. u \in Seq(Elements) /\ Len(u) = Len(list) /\ r = <<Element(k)>> \o u
      BY <2>4, <3>1
    <3> HIDE DEF u
    <3>3. \A i \in 1..Len(u) : r[i + 1] = u[i]
      BY <1>0, <2>5, <3>2
    <3> QED BY <3>2, <3>3 DEF u
  <2> HIDE DEF r
  <2>7. \A i \in 1..Len(list) : i + 1 \in 1..Len(r) /\ r[i + 1] = list[i]
    BY <1>0, <2>2, <2>3, <2>6
  <2>8. \A S : ~(Exact(list, S) /\ Listed(list, k))
    BY <1>2 DEF Exact, Listed, Has
  <2> QED BY <2>2, <2>7, <2>8 DEF Listed, Has, r
<1> QED BY <1>1, <1>2

(* A set of positions has a last one. *)
LEMMA LastExists ==
  ASSUME NEW n \in Nat, NEW I \in SUBSET (1..n), I # {}
  PROVE  \E i \in I : \A j \in I : j <= i
<1> DEFINE S == 1..n
           T == {i..n : i \in I}
           R == StrictSubsetOrdering(S)
<1>1. IsWellFoundedOn(R, FiniteSubsetsOf(S))
  BY FS_StrictSubsetOrderingWellFounded
<1>2. T \subseteq FiniteSubsetsOf(S) /\ T # {}
  <2>1. \A i \in I : i \in Int /\ n \in Int /\ i..n \in SUBSET S
    OBVIOUS
  <2>2. \A i \in I : IsFiniteSet(i..n)
    BY <2>1, FS_Interval
  <2> QED BY <2>1, <2>2 DEF FiniteSubsetsOf
<1> HIDE DEF R
<1>3. PICK t \in T : \A u \in T : ~ (<<u, t>> \in R)
  BY <1>1, <1>2, WFMin
<1>4. PICK i \in I : t = i..n
  OBVIOUS
<1>5. ASSUME NEW j \in I, ~(j <= i)
      PROVE  FALSE
  <2>1. j..n \in SUBSET S /\ t \in SUBSET S /\ j..n \in T
    BY <1>4
  <2>2. j..n \subseteq t /\ j..n # t
    BY <1>4, <1>5
  <2>3. <<j..n, t>> \in R
    BY <2>1, <2>2 DEF R, StrictSubsetOrdering
  <2> QED BY <1>3, <2>1, <2>3
<1> QED BY <1>5

LEMMA DroppedFacts ==
  ASSUME NEW list \in Seq(Elements), NEW e \in Elements, Has(list, e)
  PROVE  /\ Dropped(list, e) \in Seq(Elements)
         /\ \A l : l # e.key /\ Listed(list, l) => Listed(Dropped(list, e), l)
         /\ \A S : Exact(list, S) => Exact(Dropped(list, e), S \ {e.key})
<1> DEFINE n == LastIndex(list, e)
           t == RemoveAt(list, n)
           r == Dropped(list, e)
<1>0. Len(list) \in Nat /\ DOMAIN list = 1..Len(list) /\ e.key \in Regions
  BY DEF Elements
<1>1. n \in 1..Len(list) /\ list[n] = e
  <2> DEFINE I == {i \in 1..Len(list) : list[i] = e}
  <2>1. I \in SUBSET (1..Len(list)) /\ I # {}
    BY DEF Has
  <2>2. \E i \in I : \A j \in I : j <= i
    BY <1>0, <2>1, LastExists
  <2>3. \E i \in DOMAIN list : list[i] = e /\ \A j \in DOMAIN list : list[j] = e => j <= i
    BY <1>0, <2>2
  <2> QED BY <1>0, <2>3 DEF LastIndex
<1> HIDE DEF n
<1>2. /\ t \in Seq(Elements) /\ Len(t) = Len(list) - 1
      /\ \A i \in 1..(Len(list) - 1) : t[i] = IF i < n THEN list[i] ELSE list[i + 1]
  BY <1>1, RemoveAtFacts
<1>3. r = Unmapped(t, e.key)
  BY DEF Dropped, n
<1> HIDE DEF t, r
<1>4. /\ r \in Seq(Elements) /\ Len(r) = Len(t)
      /\ \A i \in 1..Len(t) : /\ r[i].key = t[i].key
                              /\ t[i].key # e.key => r[i] = t[i]
  BY <1>0, <1>2, <1>3, UnmappedFacts
<1>5. ASSUME NEW i \in 1..Len(list), i # n
      PROVE  \E j \in 1..Len(r) : r[j].key = list[i].key
  <2>1. CASE i < n
    <3>1. i \in 1..(Len(list) - 1)
      BY <1>0, <1>1, <2>1
    <3> QED BY <1>2, <1>4, <2>1, <3>1
  <2>2. CASE i > n
    <3>1. i - 1 \in 1..(Len(list) - 1) /\ (i - 1) + 1 = i /\ ~(i - 1 < n)
      BY <1>0, <1>1, <2>2
    <3>2. t[i - 1] = list[i]
      BY <1>2, <3>1
    <3> QED BY <1>2, <1>4, <3>1, <3>2
  <2> QED BY <1>1, <1>5, <2>1, <2>2
<1> DEFINE o(i) == IF i < n THEN i ELSE i + 1
<1>6. \A i \in 1..Len(r) : o(i) \in 1..Len(list) /\ o(i) # n /\ t[i] = list[o(i)]
                           /\ i \in 1..Len(t)
  <2> SUFFICES ASSUME NEW i \in 1..Len(r)
               PROVE  o(i) \in 1..Len(list) /\ o(i) # n /\ t[i] = list[o(i)] /\ i \in 1..Len(t)
    OBVIOUS
  <2>1. i \in 1..(Len(list) - 1)
    BY <1>2, <1>4
  <2>2. o(i) \in 1..Len(list) /\ o(i) # n
    BY <1>0, <1>1, <2>1
  <2> QED BY <1>2, <2>1, <2>2
<1>7. \A i, j \in 1..Len(r) : o(i) = o(j) => i = j
  BY <1>0, <1>1, <1>2, <1>4
<1> HIDE DEF o
<1>8. ASSUME NEW S, Exact(list, S)
      PROVE  Exact(r, S \ {e.key})
  <2>1. \A i \in 1..Len(r) : t[i].key # e.key /\ t[i].key \in S /\ t[i] = Element(t[i].key)
    BY <1>1, <1>6, <1>8 DEF Exact
  <2>2. \A i \in 1..Len(r) : r[i] = list[o(i)]
    BY <1>4, <1>6, <2>1
  <2>3. \A i, j \in 1..Len(r) : r[i].key = r[j].key => i = j
    BY <1>6, <1>7, <1>8, <2>2 DEF Exact
  <2> QED BY <1>6, <2>1, <2>2, <2>3 DEF Exact
<1> QED BY <1>1, <1>4, <1>5, <1>8 DEF Listed, r

-----------------------------------------------------------------------------
(***************************************************************************)
(* The inductive invariant.  What a caller in openRegion has found while   *)
(* it holds regionsMutex stays as it is until it is done; only the regions *)
(* a save has marked are dirty; Close meets each open file; and an open    *)
(* region is listed, exactly once as long as no closed region was.         *)
(***************************************************************************)
LocalsOK ==
  \A p \in Callers :
    /\ pc[p] # "idle" => key[p] \in Regions
    /\ pc[p] \in {"touch", "mark", "io", "busy", "clear"} => file[p] \in Files
    /\ pc[p] \in {"select", "evict", "create"} => key[p] \notin OpenRegions
    /\ pc[p] = "evict" => victim \in Elements /\ victim.key \in OpenRegions \ dirtyRegions
    /\ file[p] \in openFiles => regionOf[file[p]] = key[p]

FilesOK ==
  /\ OneOpenFile
  /\ \A k \in Regions : regions[k] \in openFiles => regionOf[regions[k]] = k

DirtyOK ==
  /\ closing # "no" => pc[Writer] = "idle"
  /\ dirtyRegions = IF pc[Writer] \in {"io", "busy", "clear"} THEN {key[Writer]} ELSE {}

CloseOK ==
  closing = "closing" =>
    toClose \subseteq OpenRegions /\ \A f \in openFiles : regionOf[f] \in toClose

ListOK ==
  /\ \A k \in OpenRegions : Listed(lruList, k)
  /\ \A p \in Callers : pc[p] = "evict" => Has(lruList, victim)
  /\ ~strayed => Exact(lruList, OpenRegions)

LimitOK ==
  ~strayed => /\ Cardinality(OpenRegions) <= Limit
              /\ \A p \in Callers : pc[p] = "create" => Cardinality(OpenRegions) < Limit

IInv == TypeOK /\ LocalsOK /\ FilesOK /\ DirtyOK /\ CloseOK /\ ListOK /\ LimitOK

(* The initial states satisfy it. *)
LEMMA InitIInv == Init => IInv
<1> SUFFICES ASSUME Init PROVE IInv
  OBVIOUS
<1>1. OpenRegions = {}
  BY DEF Init, OpenRegions
<1>2. TypeOK
  <2>1. Types
    <3>0. MaxCalls \in Nat
      BY ConstantsAssumption
    <3>1. calls \in 0..MaxCalls /\ lruList \in Seq(Elements)
      BY <3>0 DEF Init
    <3>3. strayed \in BOOLEAN
      BY Zenon DEF Init
    <3>2. victim \in Elements \cup {NoVictim}
      BY DEF Init
    <3> QED BY <3>1, <3>2, <3>3 DEF Init, Types, Elements
  <2>2. HolderOK
    BY ConstantsAssumption DEF Init, HolderOK
  <2> QED BY <2>1, <2>2 DEF TypeOK
<1>3. LocalsOK /\ FilesOK /\ DirtyOK /\ CloseOK
  BY ConstantsAssumption DEF Init, LocalsOK, FilesOK, OneOpenFile, DirtyOK, CloseOK, Callers
<1>4. ListOK
  BY <1>1, ConstantsAssumption DEF Init, ListOK, Exact
<1>5. LimitOK
  <2>1. Limit \in Nat /\ Limit > 0
    BY ConstantsAssumption DEF Limit
  <2> QED BY <1>1, <2>1, FS_EmptySet DEF LimitOK
<1> QED BY <1>2, <1>3, <1>4, <1>5 DEF IInv

(* The actions of a call, and the other ones. *)
LEMMA Steps ==
  ASSUME [Next]_vars
  PROVE  \/ \E p \in Callers :
              \/ \E k \in Regions : GetRegion(p, k)
              \/ UpdateLRU(p) \/ OpenedByAnother(p) \/ OpenBegins(p) \/ AllDirty(p)
              \/ RemoveStray(p) \/ SelectVictim(p) \/ CloseVictim(p) \/ CloseVictimFails(p)
              \/ NewRegionFile(p) \/ NewRegionFileFails(p) \/ BeginIO(p) \/ ReadEnds(p)
         \/ MarkDirty \/ WriteEnds \/ ClearDirty
         \/ Tick \/ (\E k \in Regions : NeedsCompaction(k) \/ Compact(k)) \/ ScanEnds
         \/ WorkerStops
         \/ Close \/ CloseLocks \/ (\E k \in Regions : CloseRegion(k)) \/ CloseEnds
         \/ UNCHANGED vars
BY Zenon DEF Next, CallStep, ScanStep, CloseStep

(* The file that NewRegionFile makes. *)
LEMMA NewFile ==
  ASSUME \E f \in Files : Unreachable(f)
  PROVE  LET f == CHOOSE g \in Files : Unreachable(g)
         IN  /\ f \in Files /\ f \notin openFiles
             /\ \A k \in Regions : regions[k] # f
             /\ \A p \in Callers : file[p] # f
BY DEF Unreachable

(* Each step keeps the types. *)
LEMMA TypesStep ==
  ASSUME IInv, [Next]_vars
  PROVE  Types'
<1> USE DEF Goto, Return, Uses
<1>0. Types /\ LocalsOK
  BY DEF IInv, TypeOK
<1>1. ASSUME NEW p \in Callers, NEW k \in Regions, GetRegion(p, k)
      PROVE  Types'
  <2>1. calls + 1 \in 0..MaxCalls
    BY <1>0, <1>1, ConstantsAssumption DEF GetRegion, Types
  <2> QED BY <1>0, <1>1, <2>1 DEF GetRegion, Types, cacheVars, fileVars, workerVars, closeVars
<1>2. ASSUME NEW p \in Callers, UpdateLRU(p)
      PROVE  Types'
  <2>1. lruList' \in Seq(Elements) /\ strayed' \in BOOLEAN
    BY <1>0, <1>2, TouchedFacts DEF UpdateLRU, Types, LocalsOK, Elements
  <2> QED BY <1>0, <1>2, <2>1 DEF UpdateLRU, Types, fileVars, workerVars, closeVars, LocalsOK, Elements
<1>3. ASSUME NEW p \in Callers, OpenedByAnother(p)
      PROVE  Types'
  <2>1. lruList' \in Seq(Elements)
    BY <1>0, <1>3, TouchedFacts DEF OpenedByAnother, Types, LocalsOK, Elements
  <2> QED BY <1>0, <1>3, <2>1
          DEF OpenedByAnother, OpeningUnchanged, Types, fileVars, workerVars, closeVars, OpenRegions, Elements
<1>4. ASSUME NEW p \in Callers, OpenBegins(p) \/ AllDirty(p)
      PROVE  Types'
  BY <1>0, <1>4 DEF OpenBegins, AllDirty, OpeningUnchanged, Types, cacheVars, fileVars,
                    workerVars, closeVars
<1>5. ASSUME NEW p \in Callers, RemoveStray(p)
      PROVE  Types'
  <2>1. PICK e \in Elements : Oldest(e) /\ lruList' = Dropped(lruList, e)
    BY <1>5 DEF RemoveStray, Elements
  <2>2. Has(lruList, e)
    BY <1>0, <2>1 DEF Oldest, Has, Types
  <2>3. lruList' \in Seq(Elements)
    BY <1>0, <2>1, <2>2, DroppedFacts DEF Types, Elements
  <2> QED BY <1>0, <1>5, <2>3
          DEF RemoveStray, OpeningUnchanged, Types, fileVars, workerVars, closeVars, Elements
<1>6. ASSUME NEW p \in Callers, SelectVictim(p)
      PROVE  Types'
  <2>1. victim' \in Elements
    BY <1>6 DEF SelectVictim, Elements, OpenRegions
  <2> QED BY <1>0, <1>6, <2>1
          DEF SelectVictim, OpeningUnchanged, Types, cacheVars, fileVars, workerVars, closeVars, Elements
<1>7. ASSUME NEW p \in Callers, VictimClosed(p)
      PROVE  /\ victim \in Elements /\ victim.key \in Regions /\ Has(lruList, victim)
             /\ regions[victim.key] \in Files
             /\ openFiles' \in SUBSET Files
             /\ regionOf' \in [Files -> Regions \cup {NoRegion}]
             /\ victim' \in Elements \cup {NoVictim}
  BY <1>0, <1>7 DEF VictimClosed, Types, LocalsOK, IInv, ListOK, OpenRegions
<1>8. ASSUME NEW p \in Callers, CloseVictim(p)
      PROVE  Types'
  <2>1. lruList' \in Seq(Elements)
    BY <1>0, <1>7, <1>8, DroppedFacts DEF CloseVictim, Types, Elements
  <2> QED BY <1>0, <1>7, <1>8, <2>1
          DEF CloseVictim, OpeningUnchanged, Types, workerVars, closeVars, Elements
<1>9. ASSUME NEW p \in Callers, CloseVictimFails(p)
      PROVE  Types'
  BY <1>0, <1>7, <1>9 DEF CloseVictimFails, Types, cacheVars, workerVars, closeVars, Elements
<1>10. ASSUME NEW p \in Callers, NewRegionFile(p)
       PROVE  Types'
  <2> DEFINE f == CHOOSE g \in Files : Unreachable(g)
  <2>1. f \in Files
    BY <1>10, NewFile DEF NewRegionFile
  <2> HIDE DEF f
  <2>2. /\ regions' = [regions EXCEPT ![key[p]] = f]
        /\ openFiles' = openFiles \cup {f}
        /\ regionOf' = [regionOf EXCEPT ![f] = key[p]]
        /\ Uses(p, f)
    BY <1>10 DEF NewRegionFile, f
  <2>3. key[p] \in Regions
    BY <1>0, <1>10 DEF NewRegionFile, LocalsOK
  <2>4. lruList' \in Seq(Elements)
    BY <1>0, <1>10, <2>3, PushedFacts DEF NewRegionFile, Types, Elements
  <2> QED BY <1>0, <1>10, <2>1, <2>2, <2>3, <2>4
          DEF NewRegionFile, OpeningUnchanged, Types, workerVars, closeVars, Elements
<1>11. ASSUME NEW p \in Callers, NewRegionFileFails(p)
       PROVE  Types'
  BY <1>0, <1>11 DEF NewRegionFileFails, Types, cacheVars, fileVars, workerVars, closeVars
<1>12. ASSUME NEW p \in Callers, BeginIO(p) \/ ReadEnds(p)
       PROVE  Types'
  BY <1>0, <1>12 DEF BeginIO, ReadEnds, UseUnchanged, Types, cacheVars, fileVars, workerVars,
                     closeVars
<1>13. ASSUME MarkDirty \/ WriteEnds \/ ClearDirty
       PROVE  Types'
  <2>1. Writer \in Callers
    BY DEF Callers
  <2>2. pc[Writer] # "idle"
    BY <1>13 DEF MarkDirty, WriteEnds, ClearDirty
  <2> QED BY <1>0, <1>13, <2>1, <2>2 DEF MarkDirty, WriteEnds, ClearDirty, UseUnchanged, Types,
             LocalsOK, cacheVars, fileVars, workerVars, closeVars
<1>14. ASSUME Tick \/ ScanEnds \/ WorkerStops \/ \E k \in Regions : NeedsCompaction(k) \/ Compact(k)
       PROVE  Types'
  BY <1>0, <1>14 DEF Tick, ScanEnds, WorkerStops, NeedsCompaction, Compact, WorkerUnchanged, Types,
             OpenRegions, cacheVars, fileVars, callVars, closeVars
<1>15. ASSUME Close \/ CloseLocks \/ \E k \in Regions : CloseRegion(k)
       PROVE  Types'
  BY <1>0, <1>15 DEF Close, CloseLocks, CloseRegion, CloseUnchanged, Types, OpenRegions,
             cacheVars, fileVars, callVars, workerVars
<1>16. ASSUME CloseEnds
       PROVE  Types'
  <2>1. lruList' \in Seq(Elements)
    BY <1>16 DEF CloseEnds
  <2> QED BY <1>0, <1>16, <2>1 DEF CloseEnds, CloseUnchanged, Types, fileVars, callVars, workerVars,
             Elements
<1>17. ASSUME UNCHANGED vars
       PROVE  Types'
  BY <1>0, <1>17 DEF vars, Types, cacheVars, fileVars, callVars, workerVars, closeVars
<1> QED BY <1>1, <1>2, <1>3, <1>4, <1>5, <1>6, <1>8, <1>9, <1>10, <1>11, <1>12, <1>13, <1>14,
           <1>15, <1>16, <1>17, Steps

(* Each step keeps regionsMutex with the one who is in a section under it. *)
LEMMA HolderStep ==
  ASSUME IInv, [Next]_vars
  PROVE  HolderOK'
<1> USE DEF Goto, Return, Uses, CanLock
<1>0. Types /\ HolderOK
  BY DEF IInv, TypeOK
<1>1. Closer \notin Callers /\ Nobody \notin Callers /\ Nobody # Closer /\ Writer \in Callers
  BY ConstantsAssumption DEF Callers
<1>2. ASSUME NEW p \in Callers,
             (\E k \in Regions : GetRegion(p, k)) \/ UpdateLRU(p) \/ BeginIO(p) \/ ReadEnds(p)
      PROVE  HolderOK'
  BY <1>0, <1>1, <1>2 DEF GetRegion, UpdateLRU, BeginIO, ReadEnds, UseUnchanged, HolderOK, Types, closeVars
<1>3. ASSUME NEW p \in Callers, OpenedByAnother(p) \/ OpenBegins(p) \/ AllDirty(p)
                                \/ RemoveStray(p) \/ SelectVictim(p)
      PROVE  HolderOK'
  BY <1>0, <1>1, <1>3 DEF OpenedByAnother, OpenBegins, AllDirty, RemoveStray, SelectVictim,
                          OpeningUnchanged, HolderOK, Types, closeVars
<1>4. ASSUME NEW p \in Callers, CloseVictim(p) \/ CloseVictimFails(p) \/ NewRegionFile(p)
                                \/ NewRegionFileFails(p)
      PROVE  HolderOK'
  BY <1>0, <1>1, <1>4 DEF CloseVictim, CloseVictimFails, VictimClosed, NewRegionFile, NewRegionFileFails,
                          OpeningUnchanged, HolderOK, Types, closeVars
<1>5. ASSUME MarkDirty \/ WriteEnds \/ ClearDirty
      PROVE  HolderOK'
  BY <1>0, <1>1, <1>5 DEF MarkDirty, WriteEnds, ClearDirty, UseUnchanged, HolderOK, Types, closeVars
<1>6. ASSUME Tick \/ ScanEnds \/ WorkerStops \/ \E k \in Regions : NeedsCompaction(k) \/ Compact(k)
      PROVE  HolderOK'
  BY <1>0, <1>6 DEF Tick, ScanEnds, WorkerStops, NeedsCompaction, Compact, WorkerUnchanged, HolderOK,
                    callVars, closeVars
<1>7. ASSUME Close \/ CloseLocks \/ CloseEnds \/ \E k \in Regions : CloseRegion(k)
      PROVE  HolderOK'
  BY <1>0, <1>1, <1>7 DEF Close, CloseLocks, CloseRegion, CloseEnds, CloseUnchanged, HolderOK, Types,
                    callVars
<1>8. ASSUME UNCHANGED vars
      PROVE  HolderOK'
  BY <1>0, <1>8 DEF vars, HolderOK, callVars, closeVars
<1> QED BY <1>2, <1>3, <1>4, <1>5, <1>6, <1>7, <1>8, Steps

(* Each step keeps open files cached ones. *)
LEMMA FilesStep ==
  ASSUME IInv, [Next]_vars
  PROVE  FilesOK'
<1>0. Types /\ FilesOK /\ LocalsOK /\ CloseOK /\ NoFile \notin Files
  BY ConstantsAssumption DEF IInv, TypeOK
<1>1. ASSUME UNCHANGED <<regions, regionOf, openFiles>>
      PROVE  FilesOK'
  BY <1>0, <1>1 DEF FilesOK, OneOpenFile
<1>2. ASSUME NEW p \in Callers, CloseVictim(p)
      PROVE  FilesOK'
  BY <1>0, <1>2 DEF CloseVictim, VictimClosed, FilesOK, OneOpenFile, LocalsOK, Types, OpenRegions
<1>3. ASSUME NEW p \in Callers, CloseVictimFails(p)
      PROVE  FilesOK'
  BY <1>0, <1>3 DEF CloseVictimFails, VictimClosed, FilesOK, OneOpenFile, LocalsOK, Types, OpenRegions,
                    cacheVars
<1>4. ASSUME NEW p \in Callers, NewRegionFile(p)
      PROVE  FilesOK'
  <2> DEFINE f == CHOOSE g \in Files : Unreachable(g)
  <2>1. f \in Files /\ f \notin openFiles /\ \A k \in Regions : regions[k] # f
    BY <1>4, NewFile DEF NewRegionFile
  <2>2. /\ regions' = [regions EXCEPT ![key[p]] = f]
        /\ openFiles' = openFiles \cup {f}
        /\ regionOf' = [regionOf EXCEPT ![f] = key[p]]
    BY <1>4 DEF NewRegionFile
  <2>3. key[p] \in Regions /\ regions[key[p]] = NoFile
    BY <1>0, <1>4 DEF NewRegionFile, LocalsOK, OpenRegions
  <2> HIDE DEF f
  <2> QED BY <1>0, <2>1, <2>2, <2>3 DEF FilesOK, OneOpenFile, Types
<1>5. ASSUME NEW k \in Regions, CloseRegion(k)
      PROVE  FilesOK'
  BY <1>0, <1>5 DEF CloseRegion, FilesOK, OneOpenFile, Types, cacheVars
<1>6. ASSUME CloseEnds
      PROVE  FilesOK'
  BY <1>0, <1>6 DEF CloseEnds, FilesOK, OneOpenFile, CloseOK, Types, fileVars
<1>7. \/ UNCHANGED <<regions, regionOf, openFiles>>
      \/ \E p \in Callers : CloseVictim(p) \/ CloseVictimFails(p) \/ NewRegionFile(p)
      \/ \E k \in Regions : CloseRegion(k)
      \/ CloseEnds
  BY Steps DEF GetRegion, UpdateLRU, OpenedByAnother, OpenBegins, AllDirty, RemoveStray, SelectVictim,
     NewRegionFileFails, BeginIO, ReadEnds, UseUnchanged, MarkDirty, WriteEnds, ClearDirty, Tick, ScanEnds,
     WorkerStops, NeedsCompaction, Compact, WorkerUnchanged, Close, CloseLocks, cacheVars, fileVars, vars
<1> QED BY <1>1, <1>2, <1>3, <1>4, <1>5, <1>6, <1>7

(* Each step keeps what a caller has found. *)
LEMMA LocalsStep ==
  ASSUME IInv, [Next]_vars
  PROVE  LocalsOK'
<1> USE DEF Goto, Return, Uses, CanLock, CanRLock
<1>0. Types /\ HolderOK /\ LocalsOK /\ FilesOK
  BY DEF IInv, TypeOK
<1>1. /\ Closer \notin Callers /\ Nobody \notin Callers /\ Writer \in Callers
      /\ NoFile \notin Files /\ NoRegion \notin Regions
  BY ConstantsAssumption DEF Callers
<1>2. ASSUME NEW p \in Callers, NEW k \in Regions, GetRegion(p, k)
      PROVE  LocalsOK'
  BY <1>0, <1>1, <1>2 DEF GetRegion, LocalsOK, FilesOK, Types, OpenRegions, cacheVars, fileVars
<1>3. ASSUME NEW p \in Callers, UpdateLRU(p) \/ BeginIO(p) \/ ReadEnds(p)
      PROVE  LocalsOK'
  BY <1>0, <1>1, <1>3 DEF UpdateLRU, BeginIO, ReadEnds, UseUnchanged, LocalsOK, Types, OpenRegions,
                          cacheVars, fileVars
<1>4. ASSUME NEW p \in Callers, OpenedByAnother(p)
      PROVE  LocalsOK'
  BY <1>0, <1>1, <1>4 DEF OpenedByAnother, OpeningUnchanged, LocalsOK, FilesOK, Types, OpenRegions, fileVars
<1>5. ASSUME NEW p \in Callers, OpenBegins(p) \/ AllDirty(p) \/ RemoveStray(p)
      PROVE  LocalsOK'
  BY <1>0, <1>1, <1>5 DEF OpenBegins, AllDirty, RemoveStray, OpeningUnchanged, LocalsOK, Types, OpenRegions,
                          cacheVars, fileVars
<1>6. ASSUME NEW p \in Callers, SelectVictim(p)
      PROVE  LocalsOK'
  <2>1. victim' \in Elements /\ victim'.key \in OpenRegions \ dirtyRegions
    BY <1>6 DEF SelectVictim, Oldest, Elements, OpenRegions
  <2>2. \A q \in Callers \ {p} : pc[q] # "evict"
    BY <1>0, <1>6 DEF SelectVictim, HolderOK
  <2> QED BY <1>0, <1>6, <2>1, <2>2 DEF SelectVictim, OpeningUnchanged, LocalsOK, Types, OpenRegions,
             cacheVars, fileVars
<1>7. ASSUME NEW p \in Callers, CloseVictim(p) \/ CloseVictimFails(p)
      PROVE  LocalsOK'
  <2>1. \A q \in Callers \ {p} : pc[q] \notin {"select", "evict", "create"}
    BY <1>0, <1>7 DEF CloseVictim, CloseVictimFails, VictimClosed, HolderOK
  <2>2. victim.key \in Regions /\ regions[victim.key] \in Files
    BY <1>0, <1>7 DEF CloseVictim, CloseVictimFails, VictimClosed, LocalsOK, OpenRegions, Types
  <2> QED BY <1>0, <1>1, <1>7, <2>1, <2>2 DEF CloseVictim, CloseVictimFails, VictimClosed, OpeningUnchanged,
             LocalsOK, Types, OpenRegions, cacheVars
<1>8. ASSUME NEW p \in Callers, NewRegionFile(p)
      PROVE  LocalsOK'
  <2> DEFINE f == CHOOSE g \in Files : Unreachable(g)
  <2>1. f \in Files /\ f \notin openFiles /\ \A q \in Callers : file[q] # f
    BY <1>8, NewFile DEF NewRegionFile
  <2>2. /\ regions' = [regions EXCEPT ![key[p]] = f]
        /\ openFiles' = openFiles \cup {f}
        /\ regionOf' = [regionOf EXCEPT ![f] = key[p]]
        /\ Uses(p, f)
    BY <1>8 DEF NewRegionFile
  <2> HIDE DEF f
  <2>3. \A q \in Callers \ {p} : pc[q] \notin {"select", "evict", "create"}
    BY <1>0, <1>8 DEF NewRegionFile, HolderOK
  <2>4. pc[p] = "create" /\ key[p] \in Regions /\ UNCHANGED <<dirtyRegions, key>>
    BY <1>0, <1>8 DEF NewRegionFile, OpeningUnchanged, LocalsOK
  <2> SUFFICES ASSUME NEW q \in Callers
               PROVE  /\ pc'[q] # "idle" => key'[q] \in Regions
                      /\ pc'[q] \in {"touch", "mark", "io", "busy", "clear"} => file'[q] \in Files
                      /\ pc'[q] \notin {"select", "evict", "create"}
                      /\ file'[q] \in openFiles' => regionOf'[file'[q]] = key'[q]
    BY DEF LocalsOK
  <2>5. CASE q = p
    BY <1>0, <2>1, <2>2, <2>4, <2>5 DEF Types
  <2>6. CASE q # p
    BY <1>0, <2>1, <2>2, <2>3, <2>4, <2>6 DEF LocalsOK, Types
  <2> QED BY <2>5, <2>6
<1>9. ASSUME NEW p \in Callers, NewRegionFileFails(p)
      PROVE  LocalsOK'
  BY <1>0, <1>1, <1>9 DEF NewRegionFileFails, LocalsOK, Types, OpenRegions, cacheVars, fileVars
<1>10. ASSUME MarkDirty \/ WriteEnds \/ ClearDirty
       PROVE  LocalsOK'
  <2>1. MarkDirty => \A q \in Callers : pc[q] # "evict"
    BY <1>0, <1>1 DEF MarkDirty, HolderOK
  <2> QED BY <1>0, <1>1, <1>10, <2>1 DEF MarkDirty, WriteEnds, ClearDirty, UseUnchanged, LocalsOK, Types,
             OpenRegions, cacheVars, fileVars
<1>11. ASSUME Tick \/ ScanEnds \/ WorkerStops \/ \E k \in Regions : NeedsCompaction(k) \/ Compact(k)
       PROVE  LocalsOK'
  BY <1>0, <1>11 DEF Tick, ScanEnds, WorkerStops, NeedsCompaction, Compact, WorkerUnchanged, LocalsOK,
     OpenRegions, cacheVars, fileVars, callVars
<1>12. ASSUME Close \/ CloseLocks \/ UNCHANGED vars
       PROVE  LocalsOK'
  BY <1>0, <1>12 DEF Close, CloseLocks, CloseUnchanged, LocalsOK, OpenRegions, cacheVars, fileVars,
     callVars, vars
<1>13. ASSUME (\E k \in Regions : CloseRegion(k)) \/ CloseEnds
       PROVE  LocalsOK'
  <2>1. \A q \in Callers : pc[q] \notin {"select", "evict", "create"}
    BY <1>0, <1>1, <1>13 DEF CloseRegion, CloseEnds, HolderOK
  <2> QED BY <1>0, <1>13, <2>1 DEF CloseRegion, CloseEnds, CloseUnchanged, LocalsOK, Types, OpenRegions,
             cacheVars, fileVars, callVars
<1> QED BY <1>2, <1>3, <1>4, <1>5, <1>6, <1>7, <1>8, <1>9, <1>10, <1>11, <1>12, <1>13, Steps

(* Each step keeps the dirty regions those of the save, and the ones Close has to meet. *)
LEMMA DirtyStep ==
  ASSUME IInv, [Next]_vars
  PROVE  DirtyOK' /\ CloseOK'
<1> USE DEF Goto, Return, Uses, CanLock
<1>0. Types /\ HolderOK /\ DirtyOK /\ CloseOK /\ FilesOK /\ LocalsOK
  BY DEF IInv, TypeOK
<1>1. /\ Closer \notin Callers /\ Nobody \notin Callers \cup {Closer} /\ Writer \in Callers
      /\ NoFile \notin Files
  BY ConstantsAssumption DEF Callers
<1>2. ASSUME NEW p \in Callers,
             (\E k \in Regions : GetRegion(p, k)) \/ UpdateLRU(p) \/ BeginIO(p) \/ ReadEnds(p)
      PROVE  DirtyOK' /\ CloseOK'
  BY <1>0, <1>1, <1>2 DEF GetRegion, UpdateLRU, BeginIO, ReadEnds, UseUnchanged, DirtyOK, CloseOK, Types,
     OpenRegions, cacheVars, fileVars, closeVars
<1>3. ASSUME NEW p \in Callers, OpenedByAnother(p) \/ OpenBegins(p) \/ AllDirty(p)
                                \/ RemoveStray(p) \/ SelectVictim(p)
      PROVE  DirtyOK' /\ CloseOK'
  BY <1>0, <1>1, <1>3 DEF OpenedByAnother, OpenBegins, AllDirty, RemoveStray, SelectVictim, OpeningUnchanged,
     DirtyOK, CloseOK, Types, OpenRegions, cacheVars, fileVars, closeVars
<1>4. ASSUME NEW p \in Callers, CloseVictim(p) \/ CloseVictimFails(p) \/ NewRegionFile(p)
                                \/ NewRegionFileFails(p)
      PROVE  DirtyOK' /\ CloseOK'
  <2>1. closing # "closing" /\ UNCHANGED closing
    BY <1>0, <1>1, <1>4 DEF CloseVictim, CloseVictimFails, VictimClosed, NewRegionFile, NewRegionFileFails,
       OpeningUnchanged, HolderOK, closeVars
  <2>2. /\ pc[p] \in {"evict", "create"} /\ UNCHANGED dirtyRegions
        /\ pc'[p] \in {"idle", "create", "io", "mark"} /\ (p = Writer => pc'[p] # "io")
        /\ \A q \in Callers \ {p} : pc'[q] = pc[q] /\ key'[q] = key[q]
    BY <1>0, <1>4 DEF CloseVictim, CloseVictimFails, VictimClosed, NewRegionFile, NewRegionFileFails,
       OpeningUnchanged, Types
  <2>3. DirtyOK'
    BY <1>0, <1>1, <2>1, <2>2 DEF DirtyOK
  <2> QED BY <2>1, <2>3 DEF CloseOK
<1>5. ASSUME MarkDirty \/ WriteEnds \/ ClearDirty
      PROVE  DirtyOK' /\ CloseOK'
  BY <1>0, <1>1, <1>5 DEF MarkDirty, WriteEnds, ClearDirty, UseUnchanged, DirtyOK, CloseOK, Types,
     OpenRegions, cacheVars, fileVars, closeVars
<1>6. ASSUME \/ Tick \/ ScanEnds \/ WorkerStops \/ UNCHANGED vars
             \/ \E k \in Regions : NeedsCompaction(k) \/ Compact(k)
      PROVE  DirtyOK' /\ CloseOK'
  BY <1>0, <1>6 DEF Tick, ScanEnds, WorkerStops, NeedsCompaction, Compact, WorkerUnchanged, DirtyOK, CloseOK,
     OpenRegions, cacheVars, fileVars, callVars, closeVars, vars
<1>7. ASSUME Close \/ CloseEnds
      PROVE  DirtyOK' /\ CloseOK'
  BY <1>0, <1>7 DEF Close, CloseEnds, CloseUnchanged, DirtyOK, CloseOK, callVars
<1>8. ASSUME CloseLocks
      PROVE  DirtyOK' /\ CloseOK'
  BY <1>0, <1>1, <1>8 DEF CloseLocks, CloseUnchanged, DirtyOK, CloseOK, FilesOK, OneOpenFile, OpenRegions,
     cacheVars, fileVars, callVars, Types
<1>9. ASSUME NEW k \in Regions, CloseRegion(k)
      PROVE  DirtyOK' /\ CloseOK'
  BY <1>0, <1>9 DEF CloseRegion, CloseUnchanged, DirtyOK, CloseOK, FilesOK, OneOpenFile, OpenRegions,
     cacheVars, callVars, Types
<1> QED BY <1>2, <1>3, <1>4, <1>5, <1>6, <1>7, <1>8, <1>9, Steps

(* How a step changes the set of open regions. *)
LEMMA OpenRegionsChange ==
  ASSUME IInv
  PROVE  /\ \A p \in Callers : CloseVictim(p) =>
              victim.key \in OpenRegions /\ OpenRegions' = OpenRegions \ {victim.key}
         /\ \A p \in Callers : NewRegionFile(p) =>
              key[p] \in Regions \ OpenRegions /\ OpenRegions' = OpenRegions \cup {key[p]}
         /\ CloseEnds => OpenRegions' = {}
         /\ UNCHANGED regions => OpenRegions' = OpenRegions
<1>0. Types /\ LocalsOK /\ NoFile \notin Files
  BY ConstantsAssumption DEF IInv, TypeOK
<1>1. ASSUME NEW p \in Callers, CloseVictim(p)
      PROVE  victim.key \in OpenRegions /\ OpenRegions' = OpenRegions \ {victim.key}
  BY <1>0, <1>1 DEF CloseVictim, VictimClosed, LocalsOK, Types, OpenRegions
<1>2. ASSUME NEW p \in Callers, NewRegionFile(p)
      PROVE  key[p] \in Regions \ OpenRegions /\ OpenRegions' = OpenRegions \cup {key[p]}
  <2> DEFINE f == CHOOSE g \in Files : Unreachable(g)
  <2>1. f \in Files
    BY <1>2, NewFile DEF NewRegionFile
  <2>2. regions' = [regions EXCEPT ![key[p]] = f] /\ pc[p] = "create"
    BY <1>2 DEF NewRegionFile
  <2> HIDE DEF f
  <2> QED BY <1>0, <2>1, <2>2 DEF LocalsOK, Types, OpenRegions
<1>3. CloseEnds => OpenRegions' = {}
  BY DEF CloseEnds, OpenRegions
<1>4. UNCHANGED regions => OpenRegions' = OpenRegions
  BY DEF OpenRegions
<1> QED BY <1>1, <1>2, <1>3, <1>4

(* Each step keeps every open region listed. *)
LEMMA ListStep ==
  ASSUME IInv, [Next]_vars
  PROVE  ListOK'
<1> USE DEF Goto, Return, Uses
<1>0. Types /\ HolderOK /\ LocalsOK /\ ListOK /\ lruList \in Seq(Elements)
  BY DEF IInv, TypeOK, Types, Elements
<1>1. /\ Closer \notin Callers /\ Writer \in Callers
  BY ConstantsAssumption DEF Callers
<1>2. ASSUME UNCHANGED <<regions, lruList, strayed, victim>>,
             \A q \in Callers : pc'[q] = "evict" => pc[q] = "evict"
      PROVE  ListOK'
  BY <1>0, <1>2 DEF ListOK, OpenRegions
<1>3. ASSUME NEW p \in Callers, UpdateLRU(p) \/ OpenedByAnother(p)
      PROVE  ListOK'
  <2>1. /\ lruList' = Touched(lruList, key[p]) /\ key[p] \in Regions /\ UNCHANGED <<regions, victim>>
        /\ \A q \in Callers : pc'[q] = "evict" => pc[q] = "evict"
    BY <1>0, <1>3 DEF UpdateLRU, OpenedByAnother, OpeningUnchanged, LocalsOK, Types
  <2>2. OpenRegions' = OpenRegions
    BY <2>1 DEF OpenRegions
  <2>3. ~strayed' => ~strayed /\ key[p] \in OpenRegions
    BY <1>3 DEF UpdateLRU, OpenedByAnother
  <2>4. /\ \A l : Listed(lruList, l) => Listed(lruList', l)
        /\ \A e \in Elements : Has(lruList, e) => Has(lruList', e)
        /\ \A S : Exact(lruList, S) /\ Listed(lruList, key[p]) => Exact(lruList', S)
    BY <1>0, <2>1, TouchedFacts
  <2>5. \A q \in Callers : pc'[q] = "evict" => Has(lruList', victim')
    BY <1>0, <2>1, <2>4 DEF ListOK, LocalsOK
  <2>6. ~strayed' => Exact(lruList', OpenRegions')
    BY <1>0, <2>2, <2>3, <2>4 DEF ListOK
  <2> QED BY <1>0, <2>2, <2>4, <2>5, <2>6 DEF ListOK
<1>4. ASSUME NEW p \in Callers, RemoveStray(p)
      PROVE  ListOK'
  <2>1. PICK e \in Elements : Oldest(e) /\ e.key \notin OpenRegions /\ lruList' = Dropped(lruList, e)
    BY <1>4 DEF RemoveStray, Elements
  <2>2. Has(lruList, e)
    BY <1>0, <2>1 DEF Oldest, Has
  <2>3. UNCHANGED <<regions, strayed>> /\ \A q \in Callers : pc'[q] # "evict"
    BY <1>0, <1>4 DEF RemoveStray, OpeningUnchanged, HolderOK, Types
  <2>4. OpenRegions' = OpenRegions
    BY <2>3 DEF OpenRegions
  <2>5. \A k \in OpenRegions : Listed(lruList', k)
    BY <1>0, <2>1, <2>2, DroppedFacts DEF ListOK
  <2>6. strayed
    BY <1>0, <2>1, <2>2 DEF ListOK, Exact, Has
  <2> QED BY <2>3, <2>4, <2>5, <2>6 DEF ListOK
<1>5. ASSUME NEW p \in Callers, SelectVictim(p)
      PROVE  ListOK'
  <2>1. Has(lruList, victim')
    BY <1>0, <1>5 DEF SelectVictim, Oldest, Has
  <2>2. UNCHANGED <<regions, strayed, lruList>>
    BY <1>5 DEF SelectVictim, cacheVars
  <2> QED BY <1>0, <2>1, <2>2 DEF ListOK, OpenRegions
<1>6. ASSUME NEW p \in Callers, CloseVictim(p)
      PROVE  ListOK'
  <2>1. victim \in Elements /\ Has(lruList, victim)
    BY <1>0, <1>6 DEF CloseVictim, VictimClosed, LocalsOK, ListOK
  <2>2. lruList' = Dropped(lruList, victim) /\ UNCHANGED strayed /\ \A q \in Callers : pc'[q] # "evict"
    BY <1>0, <1>6 DEF CloseVictim, VictimClosed, HolderOK, Types
  <2>3. OpenRegions' = OpenRegions \ {victim.key}
    BY <1>6, OpenRegionsChange
  <2>4. /\ \A l : l # victim.key /\ Listed(lruList, l) => Listed(lruList', l)
        /\ \A S : Exact(lruList, S) => Exact(lruList', S \ {victim.key})
    BY <1>0, <2>1, <2>2, DroppedFacts
  <2> QED BY <1>0, <2>2, <2>3, <2>4 DEF ListOK
<1>7. ASSUME NEW p \in Callers, CloseVictimFails(p)
      PROVE  ListOK'
  <2>1. UNCHANGED <<regions, lruList, strayed>> /\ \A q \in Callers : pc'[q] # "evict"
    BY <1>0, <1>7 DEF CloseVictimFails, VictimClosed, HolderOK, Types, cacheVars
  <2> QED BY <1>0, <2>1 DEF ListOK, OpenRegions
<1>8. ASSUME NEW p \in Callers, NewRegionFile(p)
      PROVE  ListOK'
  <2>1. lruList' = Pushed(lruList, key[p]) /\ UNCHANGED <<strayed, victim>> /\ pc[p] = "create"
    BY <1>8 DEF NewRegionFile
  <2>2. pc' = [pc EXCEPT ![p] = IF p = Writer THEN "mark" ELSE "io"]
    BY <1>8 DEF NewRegionFile
  <2>3. \A q \in Callers : pc'[q] # "evict"
    BY <1>0, <2>1, <2>2 DEF HolderOK, Types
  <2>4. key[p] \in Regions \ OpenRegions /\ OpenRegions' = OpenRegions \cup {key[p]}
    BY <1>8, OpenRegionsChange
  <2>5. /\ \A l : Listed(lruList', l) <=> l = key[p] \/ Listed(lruList, l)
        /\ \A S : Exact(lruList, S) /\ ~Listed(lruList, key[p]) => Exact(lruList', S \cup {key[p]})
    BY <1>0, <2>1, <2>4, PushedKeeps
  <2>6. ~strayed => ~Listed(lruList, key[p])
    BY <1>0, <2>4 DEF ListOK, Exact, Listed
  <2> QED BY <1>0, <2>1, <2>3, <2>4, <2>5, <2>6 DEF ListOK
<1>9. ASSUME CloseEnds
      PROVE  ListOK'
  <2>1. OpenRegions' = {} /\ lruList' = <<>>
    BY <1>9, OpenRegionsChange DEF CloseEnds
  <2>2. \A q \in Callers : pc'[q] # "evict"
    BY <1>0, <1>1, <1>9 DEF CloseEnds, CloseUnchanged, HolderOK, callVars
  <2> QED BY <2>1, <2>2 DEF ListOK, Exact
<1>10. ASSUME NEW p \in Callers,
              \/ \E k \in Regions : GetRegion(p, k)
              \/ OpenBegins(p) \/ AllDirty(p) \/ NewRegionFileFails(p) \/ BeginIO(p) \/ ReadEnds(p)
       PROVE  ListOK'
  BY <1>0, <1>2, <1>10 DEF GetRegion, OpenBegins, AllDirty, NewRegionFileFails, BeginIO, ReadEnds, Types,
     OpeningUnchanged, UseUnchanged, cacheVars
<1>11. ASSUME MarkDirty \/ WriteEnds \/ ClearDirty
       PROVE  ListOK'
  BY <1>0, <1>1, <1>2, <1>11 DEF MarkDirty, WriteEnds, ClearDirty, UseUnchanged, Types, cacheVars
<1>12. ASSUME \/ Tick \/ ScanEnds \/ WorkerStops \/ UNCHANGED vars \/ Close \/ CloseLocks
              \/ \E k \in Regions : NeedsCompaction(k) \/ Compact(k) \/ CloseRegion(k)
       PROVE  ListOK'
  BY <1>2, <1>12 DEF Tick, ScanEnds, WorkerStops, NeedsCompaction, Compact, WorkerUnchanged, Close, CloseLocks,
     CloseRegion, CloseUnchanged, cacheVars, callVars, vars
<1> QED BY <1>3, <1>4, <1>5, <1>6, <1>7, <1>8, <1>9, <1>10, <1>11, <1>12, Steps

(* Each step keeps the limit: of two open regions one is clean, and the    *)
(* list has an element for it.                                             *)
LEMMA LimitStep ==
  ASSUME IInv, [Next]_vars
  PROVE  LimitOK'
<1> USE DEF Goto, Return, Uses
<1>0. Types /\ HolderOK /\ LocalsOK /\ ListOK /\ DirtyOK /\ LimitOK
  BY DEF IInv, TypeOK
<1>1. IsFiniteSet(OpenRegions) /\ Cardinality(OpenRegions) \in Nat
  <2>1. OpenRegions \in SUBSET Regions
    BY DEF OpenRegions
  <2> QED BY <2>1, ConstantsAssumption, FS_Subset, FS_CardinalityType
<1>2. Limit \in Nat /\ Limit > 1 /\ Limit >= MaxOpen /\ MaxOpen \in Nat
  BY ConstantsAssumption DEF Limit
<1>3. ASSUME UNCHANGED regions, strayed => strayed',
             \A q \in Callers : pc'[q] = "create" => pc[q] = "create"
      PROVE  LimitOK'
  <2>1. OpenRegions' = OpenRegions
    BY <1>3, OpenRegionsChange
  <2> QED BY <1>0, <1>3, <2>1 DEF LimitOK
<1>4. ASSUME NEW p \in Callers, OpenBegins(p)
      PROVE  LimitOK'
  <2>1. UNCHANGED <<regions, strayed>>
    BY <1>4 DEF OpenBegins, cacheVars
  <2>2. OpenRegions' = OpenRegions
    BY <2>1, OpenRegionsChange
  <2>3. \A q \in Callers : pc'[q] = "create" => pc[q] = "create" \/ Cardinality(OpenRegions) < MaxOpen
    BY <1>0, <1>1, <1>2, <1>4 DEF OpenBegins, Types
  <2>4. \A q \in Callers : ~strayed /\ pc'[q] = "create" => Cardinality(OpenRegions) < Limit
    BY <1>0, <1>1, <1>2, <2>3 DEF LimitOK
  <2> QED BY <1>0, <2>1, <2>2, <2>4 DEF LimitOK
<1>5. ASSUME NEW p \in Callers, AllDirty(p)
      PROVE  LimitOK'
  <2>1. UNCHANGED <<regions, strayed>>
    BY <1>5 DEF AllDirty, cacheVars
  <2>2. OpenRegions' = OpenRegions
    BY <2>1, OpenRegionsChange
  <2>3. OpenRegions \subseteq dirtyRegions
    BY <1>0, <1>5 DEF AllDirty, ListOK, Listed, Types
  <2>4. OpenRegions \in SUBSET {key[Writer]}
    BY <1>0, <2>3 DEF DirtyOK
  <2>5. Cardinality(OpenRegions) <= 1
    <3>1. IsFiniteSet({key[Writer]}) /\ Cardinality({key[Writer]}) = 1
      BY FS_Singleton
    <3>2. Cardinality(OpenRegions) <= Cardinality({key[Writer]})
      BY <2>4, <3>1, FS_Subset, Zenon
    <3> QED BY <3>1, <3>2
  <2>6. Cardinality(OpenRegions) < Limit
    BY <1>1, <1>2, <2>5
  <2> QED BY <1>0, <2>1, <2>2, <2>6 DEF LimitOK
<1>6. ASSUME NEW p \in Callers, RemoveStray(p)
      PROVE  LimitOK'
  <2>1. PICK e \in Elements : Oldest(e) /\ e.key \notin OpenRegions
    BY <1>6 DEF RemoveStray, Elements
  <2>2. strayed
    BY <1>0, <2>1 DEF Oldest, ListOK, Exact, Types
  <2> QED BY <1>6, <2>2 DEF RemoveStray, LimitOK
<1>7. ASSUME NEW p \in Callers, CloseVictim(p)
      PROVE  LimitOK'
  <2>1. victim.key \in OpenRegions /\ OpenRegions' = OpenRegions \ {victim.key}
    BY <1>7, OpenRegionsChange
  <2>2. Cardinality(OpenRegions') = Cardinality(OpenRegions) - 1
    BY <1>1, <2>1, FS_RemoveElement
  <2> QED BY <1>0, <1>1, <1>2, <1>7, <2>2 DEF CloseVictim, LimitOK
<1>8. ASSUME NEW p \in Callers, NewRegionFile(p)
      PROVE  LimitOK'
  <2>1. key[p] \notin OpenRegions /\ OpenRegions' = OpenRegions \cup {key[p]}
    BY <1>8, OpenRegionsChange
  <2>2. Cardinality(OpenRegions') = Cardinality(OpenRegions) + 1
    BY <1>1, <2>1, FS_AddElement
  <2>3. pc[p] = "create" /\ UNCHANGED strayed
        /\ pc' = [pc EXCEPT ![p] = IF p = Writer THEN "mark" ELSE "io"]
    BY <1>8 DEF NewRegionFile
  <2>4. \A q \in Callers : pc'[q] # "create"
    BY <1>0, <2>3 DEF HolderOK, Types
  <2> QED BY <1>0, <1>1, <1>2, <2>2, <2>3, <2>4 DEF LimitOK
<1>9. ASSUME CloseEnds
      PROVE  LimitOK'
  <2>1. OpenRegions' = {} /\ Cardinality(OpenRegions') = 0
    BY <1>9, OpenRegionsChange, FS_EmptySet
  <2> QED BY <1>2, <2>1 DEF LimitOK
<1>10. ASSUME NEW p \in Callers,
              \/ \E k \in Regions : GetRegion(p, k)
              \/ UpdateLRU(p) \/ OpenedByAnother(p) \/ SelectVictim(p) \/ CloseVictimFails(p)
              \/ NewRegionFileFails(p) \/ BeginIO(p) \/ ReadEnds(p)
       PROVE  LimitOK'
  BY <1>0, <1>3, <1>10 DEF GetRegion, UpdateLRU, OpenedByAnother, SelectVictim, CloseVictimFails, VictimClosed,
     NewRegionFileFails, BeginIO, ReadEnds, Types, OpeningUnchanged, UseUnchanged, cacheVars
<1>11. ASSUME MarkDirty \/ WriteEnds \/ ClearDirty
       PROVE  LimitOK'
  <2>1. Writer \in Callers
    BY DEF Callers
  <2> QED BY <1>0, <1>3, <1>11, <2>1 DEF MarkDirty, WriteEnds, ClearDirty, UseUnchanged, Types, cacheVars
<1>12. ASSUME \/ Tick \/ ScanEnds \/ WorkerStops \/ UNCHANGED vars \/ Close \/ CloseLocks
              \/ \E k \in Regions : NeedsCompaction(k) \/ Compact(k) \/ CloseRegion(k)
       PROVE  LimitOK'
  BY <1>3, <1>12 DEF Tick, ScanEnds, WorkerStops, NeedsCompaction, Compact, WorkerUnchanged, Close, CloseLocks,
     CloseRegion, CloseUnchanged, cacheVars, callVars, vars
<1> QED BY <1>4, <1>5, <1>6, <1>7, <1>8, <1>9, <1>10, <1>11, <1>12, Steps

-----------------------------------------------------------------------------
(* The invariant holds for ever. *)
THEOREM Invariance == Spec => []IInv
<1>1. Init => IInv
  BY InitIInv
<1>2. IInv /\ [Next]_vars => IInv'
  BY TypesStep, HolderStep, LocalsStep, FilesStep, DirtyStep, ListStep, LimitStep DEF IInv, TypeOK
<1> QED BY <1>1, <1>2, PTL DEF Spec

(* Every variable keeps its type, and one caller at most is in openRegion  *)
(* (region_manager.go:98).                                                 *)
THEOREM TypeCorrect == Spec => []TypeOK
<1>1. IInv => TypeOK
  BY DEF IInv
<1> QED BY <1>1, Invariance, PTL

(* An open file is the cached one of its region, whatever is evicted or    *)
(* fails (region_manager.go:102).                                          *)
THEOREM NeverTwoFiles == Spec => []OneOpenFile
<1>1. IInv => OneOpenFile
  BY DEF IInv, FilesOK
<1> QED BY <1>1, Invariance, PTL

(* Until updateLRU has listed a closed region, the limit of open files is  *)
(* kept (region_manager.go:108).                                           *)
THEOREM LimitIsKept == Spec => []LimitKept
<1>1. IInv => LimitKept
  BY DEF IInv, LimitOK, LimitKept
<1> QED BY <1>1, Invariance, PTL

(* Neither an eviction nor Close takes a file from under the save that has *)
(* marked its region (region_manager.go:148, 230).                         *)
THEOREM WritesKeepTheirFile == Spec => WriteKeepsFile
<1>1. ASSUME IInv, [Next]_vars
      PROVE  [Saving /\ pc'[Writer] \in {"io", "busy"} => Saving']_vars
  <2> SUFFICES ASSUME Saving, pc'[Writer] \in {"io", "busy"}
               PROVE  Saving'
    OBVIOUS
  <2> USE DEF Goto, Return, Uses
  <2>0. /\ Types /\ LocalsOK /\ FilesOK /\ DirtyOK /\ HolderOK /\ Writer \in Callers
        /\ file[Writer] \in openFiles /\ pc[Writer] \in {"io", "busy"}
    BY <1>1 DEF IInv, TypeOK, Callers, Saving
  <2>1. regionOf[file[Writer]] = key[Writer] /\ dirtyRegions = {key[Writer]}
    BY <2>0 DEF LocalsOK, DirtyOK
  <2>2. ASSUME NEW p \in Callers, CloseVictim(p) \/ CloseVictimFails(p)
        PROVE  Saving'
    <3>1. VictimClosed(p) /\ p # Writer /\ pc[p] = "evict"
      BY <2>0, <2>2 DEF CloseVictim, CloseVictimFails, VictimClosed
    <3>2. victim.key \in Regions /\ victim.key # key[Writer]
      BY <2>0, <2>1, <3>1 DEF LocalsOK, OpenRegions
    <3>3. regions[victim.key] # file[Writer]
      BY <2>0, <2>1, <3>2 DEF FilesOK
    <3>4. file'[Writer] = file[Writer]
      BY <2>0, <2>2, <3>1 DEF CloseVictim, CloseVictimFails, OpeningUnchanged, Types
    <3> QED BY <2>0, <3>1, <3>3, <3>4 DEF VictimClosed, Saving
  <2>3. ASSUME NEW p \in Callers, NewRegionFile(p)
        PROVE  Saving'
    <3> DEFINE f == CHOOSE g \in Files : Unreachable(g)
    <3>1. openFiles' = openFiles \cup {f} /\ file' = [file EXCEPT ![p] = f] /\ pc[p] = "create"
      BY <2>3 DEF NewRegionFile
    <3> HIDE DEF f
    <3> QED BY <2>0, <3>1 DEF Saving, Types
  <2>4. ASSUME NEW k \in Regions, CloseRegion(k)
        PROVE  Saving'
    BY <2>0, <2>4 DEF CloseRegion, DirtyOK
  <2>5. ASSUME NEW p \in Callers,
               \/ \E k \in Regions : GetRegion(p, k)
               \/ UpdateLRU(p) \/ OpenedByAnother(p) \/ OpenBegins(p) \/ AllDirty(p) \/ RemoveStray(p)
               \/ SelectVictim(p) \/ NewRegionFileFails(p) \/ BeginIO(p) \/ ReadEnds(p)
        PROVE  Saving'
    BY <2>0, <2>5 DEF GetRegion, UpdateLRU, OpenedByAnother, OpenBegins, AllDirty, RemoveStray, SelectVictim,
       NewRegionFileFails, BeginIO, ReadEnds, OpeningUnchanged, UseUnchanged, fileVars, Saving, Types
  <2>6. ASSUME MarkDirty \/ WriteEnds \/ ClearDirty
        PROVE  Saving'
    BY <2>0, <2>6 DEF MarkDirty, WriteEnds, ClearDirty, UseUnchanged, fileVars, Saving, Types
  <2>7. ASSUME \/ Tick \/ ScanEnds \/ WorkerStops \/ UNCHANGED vars \/ Close \/ CloseLocks \/ CloseEnds
               \/ \E k \in Regions : NeedsCompaction(k) \/ Compact(k)
        PROVE  Saving'
    BY <2>0, <2>7 DEF Tick, ScanEnds, WorkerStops, NeedsCompaction, Compact, WorkerUnchanged, Close, CloseLocks,
       CloseEnds, CloseUnchanged, fileVars, callVars, vars, Saving
  <2> QED BY <1>1, <2>2, <2>3, <2>4, <2>5, <2>6, <2>7, Steps
<1> QED BY <1>1, Invariance, PTL DEF Spec, WriteKeepsFile
=============================================================================
