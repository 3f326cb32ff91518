---------------------------- MODULE MemoryStoreProofs ----------------------------
(***************************************************************************)
(* Proofs about MemoryStore, for any ids, rows and mutations: its Vecs are *)
(* well formed and hold an id once, and it implements KeyedStore.          *)
(*                                                                         *)
(* The library's induction theorems take an operator for a parameter;      *)
(* LeastNumber and NatSetInduction say the same of sets.                   *)
(***************************************************************************)
EXTENDS MemoryStore, SequenceTheorems, WellFoundedInduction, TLAPS

-----------------------------------------------------------------------------
(* Induction.                                                               *)

(* < is well founded on Nat, as a set of pairs.                             *)
LEMMA LessWellFounded ==
    IsWellFoundedOn({p \in Nat \X Nat : p[1] < p[2]}, Nat)
  BY NatLessThanWellFounded, Zenon DEF OpToRel

(* A non-empty set of natural numbers has a least element.                  *)
LEMMA LeastNumber ==
    ASSUME NEW T \in SUBSET Nat, T # {}
    PROVE  \E x \in T : \A y \in T : x <= y
<1> DEFINE R == {p \in Nat \X Nat : p[1] < p[2]}
<1>1. PICK x \in T : \A y \in T : <<y, x>> \notin R
  <2>1. IsWellFoundedOn(R, Nat)
    BY LessWellFounded
  <2> HIDE DEF R
  <2> QED BY <2>1, WFMin, Zenon
<1>2. \A y \in T : ~(y < x)
  BY <1>1
<1> QED BY <1>2

(* Induction over the natural numbers.                                      *)
LEMMA NatSetInduction ==
    ASSUME NEW T, 0 \in T, \A n \in Nat : n \in T => n + 1 \in T
    PROVE  \A n \in Nat : n \in T
<1> SUFFICES ASSUME NEW m \in Nat \ T PROVE FALSE
  OBVIOUS
<1> DEFINE U == Nat \ T
<1>1. PICK x \in U : \A y \in U : x <= y
  <2>1. U \in SUBSET Nat /\ U # {}
    OBVIOUS
  <2> HIDE DEF U
  <2> QED BY <2>1, LeastNumber
<1>2. x # 0 /\ x - 1 \in Nat
  BY <1>1
<1>3. x - 1 \in T
  BY <1>1, <1>2
<1> QED BY <1>1, <1>2, <1>3

-----------------------------------------------------------------------------
(* Vecs.                                                                    *)

(* No two elements of a Vec have one id.                                    *)
Unique(vec) == \A i, j \in 1..Len(vec) : vec[i].id = vec[j].id => i = j

(* `find` returns the index of an element with the id, or 0 for None.       *)
LEMMA FindFinds ==
    ASSUME NEW S, NEW vec \in Seq(S), NEW id
    PROVE  \/ /\ Find(vec, id) \in 1..Len(vec)
              /\ vec[Find(vec, id)].id = id
           \/ /\ Find(vec, id) = 0
              /\ \A i \in 1..Len(vec) : vec[i].id # id
<1> DEFINE I == {i \in 1..Len(vec) : vec[i].id = id}
<1>1. Find(vec, id) = IF I # {} THEN Min(I) ELSE 0
  BY DEF Find, SelectInSeq
<1>2. CASE I # {}
  <2>1. I \in SUBSET Nat
    OBVIOUS
  <2>2. Min(I) \in I
    <3> HIDE DEF I
    <3>1. PICK x \in I : \A y \in I : x <= y
      BY <2>1, <1>2, LeastNumber
    <3> QED BY <3>1 DEF Min
  <2> QED BY <1>1, <1>2, <2>2
<1>3. CASE I = {}
  BY <1>1, <1>3
<1> QED BY <1>2, <1>3

(* In a Vec of unique ids RowOf(vec, id) is the row of the element with the *)
(* id.                                                                      *)
LEMMA RowOfElement ==
    ASSUME NEW Id, NEW Row, NEW vec \in Vec(Id, Row), Unique(vec)
    PROVE  \A i \in 1..Len(vec) : RowOf(vec, vec[i].id) = vec[i].row
<1> TAKE i \in 1..Len(vec)
<1>1. vec \in Seq([id : Id, row : Row])
  BY DEF Vec
<1>2. /\ Find(vec, vec[i].id) \in 1..Len(vec)
      /\ vec[Find(vec, vec[i].id)].id = vec[i].id
  BY <1>1, FindFinds
<1>3. Find(vec, vec[i].id) = i
  BY <1>2 DEF Unique
<1> QED BY <1>1, <1>3 DEF RowOf

(* Where no element has the id, RowOf(vec, id) is None.                     *)
LEMMA RowOfNothing ==
    ASSUME NEW S, NEW vec \in Seq(S), NEW id,
           \A i \in 1..Len(vec) : vec[i].id # id
    PROVE  RowOf(vec, id) = None
  BY FindFinds DEF RowOf

(* The elements of a Vec.                                                   *)
Element(Id, Row) == [id : Id, row : Row]

(* `*existing = r`, at the index find returned.                             *)
Overwritten(vec, i, r) == [vec EXCEPT ![i] = r]

(* An element put in the place of one with its id: rows, as a table of ids, *)
(* are as after an assignment to the table.                                 *)
LEMMA OverwrittenVec ==
    ASSUME NEW Id, NEW Row, NEW vec \in Vec(Id, Row), Unique(vec)
    PROVE  \A i \in 1..Len(vec), r \in Element(Id, Row) :
              r.id = vec[i].id =>
                 /\ Overwritten(vec, i, r) \in Vec(Id, Row)
                 /\ Unique(Overwritten(vec, i, r))
                 /\ \A x \in Id : RowOf(Overwritten(vec, i, r), x)
                                  = IF x = r.id THEN r.row ELSE RowOf(vec, x)
<1> TAKE i \in 1..Len(vec), r \in Element(Id, Row)
<1> HAVE r.id = vec[i].id
<1> DEFINE new == Overwritten(vec, i, r)
<1>1. vec \in Seq([id : Id, row : Row])
  BY DEF Vec
<1>2. /\ new \in Seq([id : Id, row : Row])
      /\ Len(new) = Len(vec)
      /\ \A j \in 1..Len(vec) : new[j] = IF j = i THEN r ELSE vec[j]
  <2> DEFINE S == [id : Id, row : Row]
  <2>1. vec \in Seq(S) /\ r \in S /\ new = [vec EXCEPT ![i] = r]
    BY <1>1 DEF Overwritten, Element
  <2> HIDE DEF S, new
  <2>2. new \in Seq(S) /\ Len(new) = Len(vec)
    BY <2>1
  <2>3. \A j \in 1..Len(vec) : new[j] = IF j = i THEN r ELSE vec[j]
    BY <2>1
  <2> QED BY <2>2, <2>3 DEF S
<1> HIDE DEF new
<1>3. \A j \in 1..Len(vec) : new[j].id = vec[j].id
  BY <1>2
<1>4. Unique(new)
  BY <1>2, <1>3 DEF Unique
<1>5. new \in Vec(Id, Row)
  BY <1>2 DEF Vec
<1>6. ASSUME NEW x \in Id
      PROVE  RowOf(new, x) = IF x = r.id THEN r.row ELSE RowOf(vec, x)
  <2>1. CASE \E j \in 1..Len(vec) : vec[j].id = x
    <3>1. PICK j \in 1..Len(vec) : vec[j].id = x
      BY <2>1
    <3>2. RowOf(vec, x) = vec[j].row
      BY <3>1, RowOfElement
    <3>3. RowOf(new, new[j].id) = new[j].row
      <4>1. \A k \in 1..Len(new) : RowOf(new, new[k].id) = new[k].row
        BY <1>4, <1>5, RowOfElement
      <4> QED BY <4>1, <1>2
    <3>4. new[j].id = x
      BY <3>1, <1>3
    <3>5. new[j] = IF j = i THEN r ELSE vec[j]
      BY <3>1, <1>2
    <3>6. CASE j = i
      BY <3>1, <3>3, <3>4, <3>5, <3>6
    <3>7. CASE j # i
      BY <3>1, <3>2, <3>3, <3>4, <3>5, <3>7 DEF Unique
    <3> QED BY <3>6, <3>7
  <2>2. CASE \A j \in 1..Len(vec) : vec[j].id # x
    <3>1. RowOf(vec, x) = None
      BY <2>2, <1>1, RowOfNothing
    <3>2. \A j \in 1..Len(new) : new[j].id # x
      BY <2>2, <1>2, <1>3
    <3>3. RowOf(new, x) = None
      BY <3>2, <1>2, RowOfNothing
    <3> QED BY <2>2, <3>1, <3>3
  <2> QED BY <2>1, <2>2
<1> QED BY <1>4, <1>5, <1>6 DEF new

(* An upsert: the same, whether the id was there or not.                    *)
LEMMA UpsertedVec ==
    ASSUME NEW Id, NEW Row, NEW vec \in Vec(Id, Row), Unique(vec),
           NEW id \in Id, NEW row \in Row,
           NEW new, new = Upserted(vec, [id |-> id, row |-> row])
    PROVE  /\ new \in Vec(Id, Row)
           /\ Unique(new)
           /\ \A x \in Id : RowOf(new, x) = IF x = id THEN row ELSE RowOf(vec, x)
<1> DEFINE r == [id |-> id, row |-> row]
           i == Find(vec, id)
<1>1. vec \in Seq([id : Id, row : Row])
  BY DEF Vec
<1>2. r \in [id : Id, row : Row] /\ r.id = id /\ r.row = row
  OBVIOUS
<1>3. new = IF i # 0 THEN [vec EXCEPT ![i] = r] ELSE Append(vec, r)
  BY DEF Upserted
<1>4. \/ i \in 1..Len(vec) /\ vec[i].id = id
      \/ i = 0 /\ \A j \in 1..Len(vec) : vec[j].id # id
  BY <1>1, FindFinds
<1> HIDE DEF r, i
<1>5. CASE i \in 1..Len(vec) /\ vec[i].id = id
  <2>1. new = Overwritten(vec, i, r)
    BY <1>1, <1>3, <1>5 DEF Overwritten
  <2>2. r.id = vec[i].id
    BY <1>2, <1>5
  <2>3. /\ new \in Vec(Id, Row)
        /\ Unique(new)
        /\ \A x \in Id : RowOf(new, x) = IF x = r.id THEN r.row ELSE RowOf(vec, x)
    <3>1. r \in Element(Id, Row)
      BY <1>2 DEF Element
    <3>2. \A k \in 1..Len(vec) :
             r.id = vec[k].id =>
                /\ Overwritten(vec, k, r) \in Vec(Id, Row)
                /\ Unique(Overwritten(vec, k, r))
                /\ \A x \in Id : RowOf(Overwritten(vec, k, r), x)
                                 = IF x = r.id THEN r.row ELSE RowOf(vec, x)
      BY <3>1, OverwrittenVec
    <3>3. i \in 1..Len(vec)
      BY <1>5
    <3> QED BY <3>2, <3>3, <2>1, <2>2
  <2> QED BY <2>3, <1>2
<1>6. CASE i = 0 /\ \A j \in 1..Len(vec) : vec[j].id # id
  <2>1. /\ new \in Seq([id : Id, row : Row])
        /\ Len(new) = Len(vec) + 1
        /\ \A j \in 1..Len(vec) : new[j] = vec[j]
        /\ new[Len(new)] = r
    <3> DEFINE S == [id : Id, row : Row]
    <3>1. vec \in Seq(S) /\ r \in S /\ new = Append(vec, r)
      BY <1>1, <1>2, <1>3, <1>6
    <3> HIDE DEF S
    <3>2. new \in Seq(S) /\ Len(new) = Len(vec) + 1 /\ new[Len(new)] = r
      BY <3>1, AppendProperties
    <3>3. \A j \in 1..Len(vec) : new[j] = vec[j]
      BY <3>1, AppendProperties
    <3> QED BY <3>2, <3>3 DEF S
  <2>2. Len(vec) \in Nat
    BY <1>1
  <2>3. \A j \in 1..Len(new) : j \in 1..Len(vec) \/ j = Len(new)
    BY <2>1, <2>2
  <2>4. Unique(new)
    BY <2>1, <2>2, <2>3, <1>2, <1>6 DEF Unique
  <2>5. new \in Vec(Id, Row)
    BY <2>1 DEF Vec
  <2>6. ASSUME NEW x \in Id
        PROVE  RowOf(new, x) = IF x = id THEN row ELSE RowOf(vec, x)
    <3>1. CASE x = id
      <4>1. Len(new) \in 1..Len(new)
        BY <2>1, <2>2
      <4> QED BY <3>1, <4>1, <2>1, <2>4, <2>5, <1>2, RowOfElement
    <3>2. CASE x # id /\ \E j \in 1..Len(vec) : vec[j].id = x
      <4>1. PICK j \in 1..Len(vec) : vec[j].id = x
        BY <3>2
      <4>2. RowOf(vec, x) = vec[j].row
        BY <4>1, RowOfElement
      <4>3. j \in 1..Len(new) /\ new[j] = vec[j]
        BY <4>1, <2>1, <2>2
      <4>4. RowOf(new, new[j].id) = new[j].row
        BY <4>3, <2>4, <2>5, RowOfElement
      <4> QED BY <3>2, <4>1, <4>2, <4>3, <4>4
    <3>3. CASE x # id /\ \A j \in 1..Len(vec) : vec[j].id # x
      <4>1. RowOf(vec, x) = None
        BY <3>3, <1>1, RowOfNothing
      <4>2. \A j \in 1..Len(new) : new[j].id # x
        BY <3>3, <2>1, <2>3, <1>2
      <4>3. RowOf(new, x) = None
        BY <4>2, <2>1, RowOfNothing
      <4> QED BY <3>3, <4>1, <4>3
    <3> QED BY <3>1, <3>2, <3>3
  <2> QED BY <2>4, <2>5, <2>6
<1> QED BY <1>4, <1>5, <1>6

-----------------------------------------------------------------------------
(* retain and filter.                                                       *)

(* One step of Retained's recursion: what follows `prev` at the ith element.*)
KeptNext(vec, keep, prev, i) ==
    IF vec[i] \in keep THEN Append(prev, vec[i]) ELSE prev

(* f is Retained's recursive function up to the nth element.                *)
KeptUpTo(f, n, vec, keep) ==
    f = [i \in 0..n |-> IF i = 0 THEN <<>> ELSE KeptNext(vec, keep, f[i - 1], i)]

(* The recursion has a solution, however long the Vec is.                   *)
LEMMA KeptExists ==
    ASSUME NEW vec, NEW keep, NEW n \in Nat
    PROVE  \E f : KeptUpTo(f, n, vec, keep)
<1> DEFINE T == {m \in Nat : \E f : KeptUpTo(f, m, vec, keep)}
<1>1. 0 \in T
  <2>1. KeptUpTo([i \in {0} |-> <<>>], 0, vec, keep)
    BY DEF KeptUpTo
  <2> QED BY <2>1
<1>2. ASSUME NEW m \in Nat, m \in T PROVE m + 1 \in T
  <2>1. PICK f : KeptUpTo(f, m, vec, keep)
    BY <1>2
  <2> DEFINE g == [i \in 0..(m + 1) |->
                      IF i = m + 1 THEN KeptNext(vec, keep, f[m], m + 1) ELSE f[i]]
  <2>2. \A i \in 0..m :
           f[i] = IF i = 0 THEN <<>> ELSE KeptNext(vec, keep, f[i - 1], i)
    BY <2>1 DEF KeptUpTo
  <2>3. ASSUME NEW i \in 0..(m + 1)
        PROVE  g[i] = IF i = 0 THEN <<>> ELSE KeptNext(vec, keep, g[i - 1], i)
    <3>1. CASE i = m + 1
      <4>1. i # 0 /\ i - 1 = m /\ m \in 0..(m + 1) /\ m # m + 1
        BY <3>1
      <4>2. g[i - 1] = f[m] /\ g[i] = KeptNext(vec, keep, f[m], m + 1)
        BY <3>1, <4>1
      <4> QED BY <3>1, <4>1, <4>2
    <3>2. CASE i # m + 1
      <4>1. i \in 0..m /\ g[i] = f[i]
        BY <3>2
      <4>2. i # 0 => g[i - 1] = f[i - 1]
        BY <3>2
      <4> QED BY <2>2, <4>1, <4>2
    <3> QED BY <3>1, <3>2
  <2>4. KeptUpTo(g, m + 1, vec, keep)
    <3>1. g = [i \in 0..(m + 1) |-> g[i]]
      OBVIOUS
    <3> HIDE DEF g
    <3> QED BY <3>1, <2>3 DEF KeptUpTo
  <2> QED BY <2>4
<1>3. \A m \in Nat : m \in T
  <2> HIDE DEF T
  <2> QED BY <1>1, <1>2, NatSetInduction
<1> QED BY <1>3

(* kept is made of the first n elements of vec that are in `keep`.          *)
KeptOf(kept, n, S, vec, keep) ==
    /\ kept \in Seq(S)
    /\ \A j \in 1..Len(kept) :
          kept[j] \in keep /\ \E i \in 1..n : kept[j] = vec[i]
    /\ \A i \in 1..n : vec[i] \in keep => \E j \in 1..Len(kept) : kept[j] = vec[i]
    /\ Unique(vec) => Unique(kept)

(* One step of the recursion keeps to that.                                 *)
LEMMA KeptStep ==
    ASSUME NEW S, NEW vec \in Seq(S), NEW keep, NEW n \in Nat, n + 1 <= Len(vec),
           NEW kept, KeptOf(kept, n, S, vec, keep),
           NEW new, new = KeptNext(vec, keep, kept, n + 1)
    PROVE  KeptOf(new, n + 1, S, vec, keep)
<1> DEFINE v == vec[n + 1]
<1>1. n + 1 \in 1..Len(vec) /\ v \in S /\ Len(vec) \in Nat
  BY ElementOfSeq
<1>2. \A i \in 1..(n + 1) : i \in 1..n \/ i = n + 1
  OBVIOUS
<1>3. kept \in Seq(S) /\ Len(kept) \in Nat
  BY DEF KeptOf
<1>4. CASE v \in keep
  <2>1. new = Append(kept, v)
    BY <1>4 DEF KeptNext
  <2> HIDE DEF v
  <2>2. /\ new \in Seq(S)
        /\ Len(new) = Len(kept) + 1
        /\ new[Len(new)] = v
    <3>1. kept \in Seq(S) /\ v \in S
      BY <1>1, <1>3
    <3>2. Append(kept, v) \in Seq(S) /\ Len(Append(kept, v)) = Len(kept) + 1
      BY <3>1, AppendProperties
    <3>3. Append(kept, v)[Len(kept) + 1] = v
      BY <3>1, AppendProperties
    <3> QED BY <2>1, <3>2, <3>3
  <2>3. \A j \in 1..Len(kept) : new[j] = kept[j]
    <3>1. kept \in Seq(S) /\ v \in S
      BY <1>1, <1>3
    <3>2. \A j \in 1..Len(kept) : Append(kept, v)[j] = kept[j]
      BY <3>1, AppendProperties
    <3> QED BY <2>1, <3>2
  <2>4. \A j \in 1..Len(new) : j \in 1..Len(kept) \/ j = Len(new)
    BY <2>2, <1>3
  <2>5. ASSUME NEW j \in 1..Len(new)
        PROVE  new[j] \in keep /\ \E i \in 1..(n + 1) : new[j] = vec[i]
    <3>1. CASE j \in 1..Len(kept)
      <4>1. PICK i \in 1..n : kept[j] = vec[i]
        BY <3>1 DEF KeptOf
      <4>2. i \in 1..(n + 1)
        OBVIOUS
      <4>3. kept[j] \in keep
        BY <3>1 DEF KeptOf
      <4> QED BY <3>1, <4>1, <4>2, <4>3, <2>3
    <3>2. CASE j = Len(new)
      <4>1. n + 1 \in 1..(n + 1)
        OBVIOUS
      <4> QED BY <3>2, <4>1, <2>2, <1>4 DEF v
    <3> QED BY <3>1, <3>2, <2>4
  <2>6. ASSUME NEW i \in 1..(n + 1), vec[i] \in keep
        PROVE  \E j \in 1..Len(new) : new[j] = vec[i]
    <3>1. CASE i \in 1..n
      <4>1. PICK j \in 1..Len(kept) : kept[j] = vec[i]
        BY <3>1, <2>6 DEF KeptOf
      <4>2. j \in 1..Len(new) /\ new[j] = vec[i]
        BY <4>1, <2>2, <2>3, <1>3
      <4> QED BY <4>2
    <3>2. CASE i = n + 1
      <4>1. Len(new) \in 1..Len(new)
        BY <2>2, <1>3
      <4> QED BY <3>2, <4>1, <2>2 DEF v
    <3> QED BY <3>1, <3>2, <1>2
  <2>7. ASSUME Unique(vec) PROVE Unique(new)
    <3>1. Unique(kept)
      BY <2>7 DEF KeptOf
    <3>2. ASSUME NEW j \in 1..Len(kept) PROVE new[j].id # v.id
      <4>1. PICK i \in 1..n : kept[j] = vec[i]
        BY <3>2 DEF KeptOf
      <4>2. i \in 1..Len(vec) /\ i # n + 1
        BY <1>1
      <4>3. vec[i].id # vec[n + 1].id
        BY <4>2, <2>7, <1>1 DEF Unique
      <4> QED BY <3>2, <4>1, <4>3, <2>3 DEF v
    <3> QED BY <3>1, <3>2, <2>2, <2>3, <2>4 DEF Unique
  <2> QED BY <2>2, <2>5, <2>6, <2>7 DEF KeptOf
<1>5. CASE v \notin keep
  <2>1. new = kept
    BY <1>5 DEF KeptNext
  <2>2. \A i \in 1..(n + 1) : vec[i] \in keep => i \in 1..n
    BY <1>2, <1>5
  <2>3. \A i \in 1..n : i \in 1..(n + 1)
    OBVIOUS
  <2> QED BY <2>1, <2>2, <2>3 DEF KeptOf
<1> QED BY <1>4, <1>5

(* retain and filter leave the elements in `keep`, no other, and each once. *)
LEMMA RetainedVec ==
    ASSUME NEW S, NEW vec \in Seq(S), NEW keep
    PROVE  KeptOf(Retained(vec, keep), Len(vec), S, vec, keep)
<1> DEFINE f == CHOOSE f : KeptUpTo(f, Len(vec), vec, keep)
<1>1. Len(vec) \in Nat
  OBVIOUS
<1>2. Retained(vec, keep) = f[Len(vec)]
  BY DEF Retained, KeptUpTo, KeptNext
<1>3. KeptUpTo(f, Len(vec), vec, keep)
  BY <1>1, KeptExists
<1> HIDE DEF f
<1>4. \A i \in 0..Len(vec) :
         f[i] = IF i = 0 THEN <<>> ELSE KeptNext(vec, keep, f[i - 1], i)
  BY <1>3 DEF KeptUpTo
<1> DEFINE T == {n \in Nat : n <= Len(vec) => KeptOf(f[n], n, S, vec, keep)}
<1>5. 0 \in T
  <2>1. f[0] = <<>>
    BY <1>1, <1>4
  <2>2. <<>> \in Seq(S) /\ Len(<<>>) = 0
    OBVIOUS
  <2>3. KeptOf(<<>>, 0, S, vec, keep)
    BY <2>2 DEF KeptOf, Unique
  <2> QED BY <2>1, <2>3
<1>6. ASSUME NEW n \in Nat, n \in T PROVE n + 1 \in T
  <2> SUFFICES ASSUME n + 1 <= Len(vec) PROVE KeptOf(f[n + 1], n + 1, S, vec, keep)
    OBVIOUS
  <2>1. KeptOf(f[n], n, S, vec, keep)
    BY <1>1, <1>6
  <2>2. f[n + 1] = KeptNext(vec, keep, f[n], n + 1)
    <3>1. n + 1 \in 0..Len(vec) /\ n + 1 # 0 /\ (n + 1) - 1 = n
      BY <1>1
    <3> QED BY <3>1, <1>4
  <2> QED BY <2>1, <2>2, KeptStep
<1>7. \A n \in Nat : n \in T
  <2> HIDE DEF T
  <2> QED BY <1>5, <1>6, NatSetInduction
<1> QED BY <1>1, <1>2, <1>7

-----------------------------------------------------------------------------
(* Vecs as tables of ids.                                                   *)

(* The table a Vec stands for.                                              *)
TableOfVec(vec, Id) == [x \in Id |-> RowOf(vec, x)]

(* The <<id, row>> of the elements of a Vec.                                *)
Pairs(vec) == {<<r.id, r.row>> : r \in ToSet(vec)}

(* An upsert assigns to the table.                                          *)
LEMMA UpsertedTable ==
    ASSUME NEW Id, NEW Row, NEW vec \in Vec(Id, Row), Unique(vec),
           NEW id \in Id, NEW row \in Row
    PROVE  LET new == Upserted(vec, [id |-> id, row |-> row])
           IN  /\ new \in Vec(Id, Row)
               /\ Unique(new)
               /\ TableOfVec(new, Id) = [TableOfVec(vec, Id) EXCEPT ![id] = row]
<1> DEFINE new == Upserted(vec, [id |-> id, row |-> row])
<1>1. /\ new \in Vec(Id, Row)
      /\ Unique(new)
      /\ \A x \in Id : RowOf(new, x) = IF x = id THEN row ELSE RowOf(vec, x)
  <2>1. new = Upserted(vec, [id |-> id, row |-> row])
    OBVIOUS
  <2> HIDE DEF new
  <2> QED BY <2>1, UpsertedVec
<1> HIDE DEF new
<1>2. TableOfVec(new, Id) = [TableOfVec(vec, Id) EXCEPT ![id] = row]
  BY <1>1 DEF TableOfVec
<1> QED BY <1>1, <1>2 DEF new

(* The flip of a pre-auth key assigns to its row.                           *)
LEMMA FlippedTable ==
    ASSUME NEW vec \in Vec(PreAuthKeyId, PreAuthKey), Unique(vec),
           NEW i \in 1..Len(vec)
    PROVE  LET new == [vec EXCEPT ![i].row.used = TRUE]
           IN  /\ new \in Vec(PreAuthKeyId, PreAuthKey)
               /\ Unique(new)
               /\ TableOfVec(new, PreAuthKeyId)
                    = [TableOfVec(vec, PreAuthKeyId) EXCEPT
                          ![vec[i].id] = [vec[i].row EXCEPT !.used = TRUE]]
<1> DEFINE row == [vec[i].row EXCEPT !.used = TRUE]
           new == [vec EXCEPT ![i].row.used = TRUE]
<1>1. vec[i] \in [id : PreAuthKeyId, row : PreAuthKey]
  BY ElementOfSeq DEF Vec
<1>2. row \in PreAuthKey
  <2>1. vec[i].row \in PreAuthKey
    BY <1>1
  <2> QED BY <2>1 DEF PreAuthKey
<1> DEFINE r == [vec[i] EXCEPT !.row = row]
<1>3. new = Overwritten(vec, i, r)
  BY DEF Overwritten
<1> HIDE DEF row, new
<1>4. r \in [id : PreAuthKeyId, row : PreAuthKey] /\ r.id = vec[i].id /\ r.row = row
  BY <1>1, <1>2
<1> HIDE DEF r
<1>5. /\ new \in Vec(PreAuthKeyId, PreAuthKey)
      /\ Unique(new)
      /\ \A x \in PreAuthKeyId :
            RowOf(new, x) = IF x = r.id THEN r.row ELSE RowOf(vec, x)
  <2>1. r \in Element(PreAuthKeyId, PreAuthKey)
    BY <1>4 DEF Element
  <2> QED BY <2>1, <1>3, <1>4, OverwrittenVec
<1>6. TableOfVec(new, PreAuthKeyId)
        = [TableOfVec(vec, PreAuthKeyId) EXCEPT ![vec[i].id] = row]
  BY <1>4, <1>5 DEF TableOfVec
<1> QED BY <1>5, <1>6 DEF new, row

(* delete_node's retain takes the id out of the table.                      *)
LEMMA DeletedTable ==
    ASSUME NEW Id, NEW Row, NEW vec \in Vec(Id, Row), Unique(vec), NEW id \in Id
    PROVE  LET new == Retained(vec, {r \in ToSet(vec) : r.id # id})
           IN  /\ new \in Vec(Id, Row)
               /\ Unique(new)
               /\ TableOfVec(new, Id) = [TableOfVec(vec, Id) EXCEPT ![id] = None]
<1> DEFINE S == [id : Id, row : Row]
           keep == {r \in ToSet(vec) : r.id # id}
           new == Retained(vec, keep)
<1>1. vec \in Seq(S)
  BY DEF Vec
<1>2. \A i \in 1..Len(vec) : vec[i] \in keep <=> vec[i].id # id
  BY <1>1 DEF ToSet
<1>3. KeptOf(new, Len(vec), S, vec, keep)
  <2> HIDE DEF S, keep
  <2> QED BY <1>1, RetainedVec
<1> HIDE DEF new, keep
<1>4. new \in Seq(S) /\ new \in Vec(Id, Row) /\ Unique(new)
  BY <1>3 DEF KeptOf, Vec
<1>5. ASSUME NEW x \in Id
      PROVE  RowOf(new, x) = IF x = id THEN None ELSE RowOf(vec, x)
  <2>1. CASE \E j \in 1..Len(new) : new[j].id = x
    <3>1. PICK j \in 1..Len(new) : new[j].id = x
      BY <2>1
    <3>2. PICK i \in 1..Len(vec) : new[j] = vec[i] /\ vec[i] \in keep
      BY <3>1, <1>3 DEF KeptOf
    <3>3. vec[i].id = x /\ x # id
      BY <3>1, <3>2, <1>2
    <3>4. RowOf(vec, x) = vec[i].row
      BY <3>2, <3>3, RowOfElement
    <3>5. RowOf(new, x) = new[j].row
      BY <3>1, <1>4, RowOfElement
    <3> QED BY <3>2, <3>3, <3>4, <3>5
  <2>2. CASE \A j \in 1..Len(new) : new[j].id # x
    <3>1. RowOf(new, x) = None
      BY <2>2, <1>4, RowOfNothing
    <3>2. ASSUME x # id, NEW i \in 1..Len(vec) PROVE vec[i].id # x
      <4> SUFFICES ASSUME vec[i].id = x PROVE FALSE
        OBVIOUS
      <4>1. vec[i] \in keep
        BY <3>2, <1>2
      <4>2. PICK j \in 1..Len(new) : new[j] = vec[i]
        BY <4>1, <1>3 DEF KeptOf
      <4> QED BY <4>2, <2>2
    <3>3. x # id => RowOf(vec, x) = None
      BY <3>2, <1>1, RowOfNothing
    <3> QED BY <3>1, <3>3
  <2> QED BY <2>1, <2>2
<1>6. TableOfVec(new, Id) = [TableOfVec(vec, Id) EXCEPT ![id] = None]
  BY <1>5 DEF TableOfVec
<1> QED BY <1>4, <1>6 DEF new, keep

(* The elements of a Vec are the entries of its table.                      *)
LEMMA EntriesOfVec ==
    ASSUME NEW Id, NEW Row, None \notin Row,
           NEW vec \in Vec(Id, Row), Unique(vec)
    PROVE  Keyed!Entries(TableOfVec(vec, Id)) = Pairs(vec)
<1> DEFINE table == TableOfVec(vec, Id)
<1>1. vec \in Seq([id : Id, row : Row])
  BY DEF Vec
<1>2. \A i \in 1..Len(vec) : vec[i].id \in Id /\ vec[i].row \in Row
  <2>1. \A i \in 1..Len(vec) : vec[i] \in [id : Id, row : Row]
    BY <1>1, ElementOfSeq
  <2> QED BY <2>1
<1>3. DOMAIN table = Id /\ \A x \in Id : table[x] = RowOf(vec, x)
  BY DEF TableOfVec
<1> HIDE DEF table
<1>4. Pairs(vec) = {<<vec[i].id, vec[i].row>> : i \in 1..Len(vec)}
  BY <1>1 DEF Pairs, ToSet
<1>5. ASSUME NEW x \in Id, table[x] # None
      PROVE  <<x, table[x]>> \in Pairs(vec)
  <2>1. PICK i \in 1..Len(vec) : vec[i].id = x
    BY <1>1, <1>3, <1>5, RowOfNothing
  <2>2. table[x] = vec[i].row
    BY <2>1, <1>3, RowOfElement
  <2> QED BY <2>1, <2>2, <1>4
<1>6. ASSUME NEW i \in 1..Len(vec)
      PROVE  /\ vec[i].id \in Id
             /\ table[vec[i].id] # None
             /\ vec[i].row = table[vec[i].id]
  <2>1. RowOf(vec, vec[i].id) = vec[i].row
    BY RowOfElement
  <2> QED BY <2>1, <1>2, <1>3
<1>7. Keyed!Entries(table) = {<<x, table[x]>> : x \in {y \in Id : table[y] # None}}
  BY <1>3 DEF Keyed!Entries
<1> QED BY <1>4, <1>5, <1>6, <1>7 DEF table

(* The list_ methods: the elements of a network are its entries.            *)
LEMMA FilteredEntries ==
    ASSUME NEW Id, NEW Row, NEW vec \in Vec(Id, Row), NEW n
    PROVE  Keyed!InNetwork(Pairs(vec), n) = Pairs(Filtered(vec, n))
<1> DEFINE S == [id : Id, row : Row]
           keep == {r \in ToSet(vec) : r.row.network_id = n}
           new == Retained(vec, keep)
<1>1. vec \in Seq(S)
  BY DEF Vec
<1>2. KeptOf(new, Len(vec), S, vec, keep)
  <2> HIDE DEF S, keep
  <2> QED BY <1>1, RetainedVec
<1>3. Filtered(vec, n) = new
  BY DEF Filtered
<1>4. ToSet(vec) = {vec[i] : i \in 1..Len(vec)}
  BY <1>1 DEF ToSet
<1> HIDE DEF new
<1>5. ToSet(new) = {new[j] : j \in 1..Len(new)}
  BY <1>2 DEF KeptOf, ToSet
<1>6. ToSet(new) = keep
  <2> HIDE DEF keep
  <2>1. keep \subseteq ToSet(vec)
    BY DEF keep
  <2>2. ASSUME NEW r \in keep PROVE r \in ToSet(new)
    <3>1. PICK i \in 1..Len(vec) : vec[i] = r
      BY <2>1, <1>4
    <3>2. PICK j \in 1..Len(new) : new[j] = r
      BY <3>1, <1>2 DEF KeptOf
    <3> QED BY <3>2, <1>5
  <2>3. ASSUME NEW r \in ToSet(new) PROVE r \in keep
    BY <1>5, <1>2 DEF KeptOf
  <2> QED BY <2>2, <2>3
<1>7. Pairs(new) = {<<r.id, r.row>> : r \in keep}
  BY <1>6 DEF Pairs
<1>8. Keyed!InNetwork(Pairs(vec), n) = {<<r.id, r.row>> : r \in keep}
  BY DEF Keyed!InNetwork, Pairs
<1> QED BY <1>3, <1>7, <1>8

-----------------------------------------------------------------------------
(* The inductive invariant.                                                 *)

(* The documents the types of document.rs allow.                            *)
VecDocument ==
    [version : Nat,
     networks : Vec(NetworkId, Network),
     users : Vec(UserId, User),
     nodes : Vec(NodeId, Node),
     preauth_keys : Vec(PreAuthKeyId, PreAuthKey),
     policies : Table(NetworkId, Data)]

(* A document whose Vecs hold an id once.                                   *)
Sound(d) ==
    /\ d \in VecDocument
    /\ Unique(d.networks) /\ Unique(d.users)
    /\ Unique(d.nodes) /\ Unique(d.preauth_keys)

(* UniqueIds is not inductive alone: a Replace installs `saved`.            *)
Inv ==
    /\ Sound(inner)
    /\ Sound(saved)
    /\ answer.ok \in BOOLEAN
    /\ now \in Time

(* Inv says TypeOK and UniqueIds.                                           *)
LEMMA InvImplies == Inv => TypeOK /\ UniqueIds
<1> SUFFICES ASSUME Inv PROVE TypeOK /\ UniqueIds
  OBVIOUS
<1>1. inner \in VecDocument /\ saved \in VecDocument
  BY DEF Inv, Sound
<1>2. TypeOK
  BY <1>1 DEF Inv, TypeOK, VecDocument
<1>3. ASSUME NEW S, NEW vec \in Seq(S), Unique(vec)
      PROVE  \A i, j \in DOMAIN vec : vec[i].id = vec[j].id => i = j
  BY <1>3 DEF Unique
<1>4. /\ inner.networks \in Seq([id : NetworkId, row : Network])
      /\ inner.users \in Seq([id : UserId, row : User])
      /\ inner.nodes \in Seq([id : NodeId, row : Node])
      /\ inner.preauth_keys \in Seq([id : PreAuthKeyId, row : PreAuthKey])
  BY <1>1 DEF VecDocument, Vec
<1>5. /\ Unique(inner.networks) /\ Unique(inner.users)
      /\ Unique(inner.nodes) /\ Unique(inner.preauth_keys)
  BY DEF Inv, Sound
<1>6. UniqueIds
  <2> SUFFICES ASSUME NEW t \in Tables
               PROVE  \A i, j \in DOMAIN inner[t] :
                         inner[t][i].id = inner[t][j].id => i = j
    BY DEF UniqueIds
  <2>1. CASE t = "networks"
    BY <2>1, <1>3, <1>4, <1>5
  <2>2. CASE t = "users"
    BY <2>2, <1>3, <1>4, <1>5
  <2>3. CASE t = "nodes"
    BY <2>3, <1>3, <1>4, <1>5
  <2>4. CASE t = "preauth_keys"
    BY <2>4, <1>3, <1>4, <1>5
  <2> QED BY <2>1, <2>2, <2>3, <2>4 DEF Tables
<1> QED BY <1>2, <1>6

(* The tables of a document one of whose fields is replaced.                *)
LEMMA AsTablesOf ==
    ASSUME NEW d \in VecDocument, NEW vec
    PROVE  /\ AsTables([d EXCEPT !.networks = vec])
                 = [AsTables(d) EXCEPT !.networks = TableOfVec(vec, NetworkId)]
           /\ AsTables([d EXCEPT !.users = vec])
                 = [AsTables(d) EXCEPT !.users = TableOfVec(vec, UserId)]
           /\ AsTables([d EXCEPT !.nodes = vec])
                 = [AsTables(d) EXCEPT !.nodes = TableOfVec(vec, NodeId)]
           /\ AsTables([d EXCEPT !.preauth_keys = vec])
                 = [AsTables(d) EXCEPT !.preauth_keys = TableOfVec(vec, PreAuthKeyId)]
           /\ AsTables([d EXCEPT !.policies = vec]) = [AsTables(d) EXCEPT !.policies = vec]
<1>1. \A e : AsTables(e) =
              [version |-> e.version,
               networks |-> TableOfVec(e.networks, NetworkId),
               users |-> TableOfVec(e.users, UserId),
               nodes |-> TableOfVec(e.nodes, NodeId),
               preauth_keys |-> TableOfVec(e.preauth_keys, PreAuthKeyId),
               policies |-> e.policies]
  BY DEF AsTables, TableOfVec
<1>2. AsTables([d EXCEPT !.networks = vec])
        = [AsTables(d) EXCEPT !.networks = TableOfVec(vec, NetworkId)]
  BY <1>1 DEF VecDocument
<1>3. AsTables([d EXCEPT !.users = vec])
        = [AsTables(d) EXCEPT !.users = TableOfVec(vec, UserId)]
  BY <1>1 DEF VecDocument
<1>4. AsTables([d EXCEPT !.nodes = vec])
        = [AsTables(d) EXCEPT !.nodes = TableOfVec(vec, NodeId)]
  BY <1>1 DEF VecDocument
<1>5. AsTables([d EXCEPT !.preauth_keys = vec])
        = [AsTables(d) EXCEPT !.preauth_keys = TableOfVec(vec, PreAuthKeyId)]
  BY <1>1 DEF VecDocument
<1>6. AsTables([d EXCEPT !.policies = vec]) = [AsTables(d) EXCEPT !.policies = vec]
  BY <1>1 DEF VecDocument
<1> QED BY <1>2, <1>3, <1>4, <1>5, <1>6

(* An upsert keeps the document sound and assigns to the table.             *)
LEMMA UpsertStep ==
    ASSUME Sound(inner), NEW m \in Mutation, Upsert(m)
    PROVE  Sound(inner') /\ AsTables(inner') = Keyed!Apply(AsTables(inner), m)
<1>1. inner \in VecDocument
  BY DEF Sound
<1>2. CASE m.op = "upsert_network"
  <2> DEFINE new == Upserted(inner.networks, [id |-> m.id, row |-> m.row])
  <2>1. m.id \in NetworkId /\ m.row \in Network
    BY <1>2 DEF Mutation, RowMutation
  <2>2. inner' = [inner EXCEPT !.networks = new]
    <3>1. TableOf[m.op] = "networks"
      BY <1>2 DEF TableOf
    <3> QED BY <3>1 DEF Upsert
  <2>3. /\ new \in Vec(NetworkId, Network)
        /\ Unique(new)
        /\ TableOfVec(new, NetworkId)
             = [TableOfVec(inner.networks, NetworkId) EXCEPT ![m.id] = m.row]
    BY <1>1, <2>1, UpsertedTable DEF Sound, VecDocument
  <2> HIDE DEF new
  <2>4. Sound(inner')
    BY <1>1, <2>2, <2>3 DEF Sound, VecDocument
  <2>5. AsTables(inner')
          = [AsTables(inner) EXCEPT !.networks = TableOfVec(new, NetworkId)]
    BY <1>1, <2>2, AsTablesOf
  <2>6. AsTables(inner).networks = TableOfVec(inner.networks, NetworkId)
    BY DEF AsTables, TableOfVec
  <2>7. Keyed!Apply(AsTables(inner), m)
          = [AsTables(inner) EXCEPT !.networks[m.id] = m.row]
    BY <1>2 DEF Keyed!Apply
  <2> QED BY <2>3, <2>4, <2>5, <2>6, <2>7
<1>3. CASE m.op = "upsert_user"
  <2> DEFINE new == Upserted(inner.users, [id |-> m.id, row |-> m.row])
  <2>1. m.id \in UserId /\ m.row \in User
    BY <1>3 DEF Mutation, RowMutation
  <2>2. inner' = [inner EXCEPT !.users = new]
    <3>1. TableOf[m.op] = "users"
      BY <1>3 DEF TableOf
    <3> QED BY <3>1 DEF Upsert
  <2>3. /\ new \in Vec(UserId, User)
        /\ Unique(new)
        /\ TableOfVec(new, UserId)
             = [TableOfVec(inner.users, UserId) EXCEPT ![m.id] = m.row]
    BY <1>1, <2>1, UpsertedTable DEF Sound, VecDocument
  <2> HIDE DEF new
  <2>4. Sound(inner')
    BY <1>1, <2>2, <2>3 DEF Sound, VecDocument
  <2>5. AsTables(inner')
          = [AsTables(inner) EXCEPT !.users = TableOfVec(new, UserId)]
    BY <1>1, <2>2, AsTablesOf
  <2>6. AsTables(inner).users = TableOfVec(inner.users, UserId)
    BY DEF AsTables, TableOfVec
  <2>7. Keyed!Apply(AsTables(inner), m)
          = [AsTables(inner) EXCEPT !.users[m.id] = m.row]
    BY <1>3 DEF Keyed!Apply
  <2> QED BY <2>3, <2>4, <2>5, <2>6, <2>7
<1>4. CASE m.op = "upsert_node"
  <2> DEFINE new == Upserted(inner.nodes, [id |-> m.id, row |-> m.row])
  <2>1. m.id \in NodeId /\ m.row \in Node
    BY <1>4 DEF Mutation, RowMutation
  <2>2. inner' = [inner EXCEPT !.nodes = new]
    <3>1. TableOf[m.op] = "nodes"
      BY <1>4 DEF TableOf
    <3> QED BY <3>1 DEF Upsert
  <2>3. /\ new \in Vec(NodeId, Node)
        /\ Unique(new)
        /\ TableOfVec(new, NodeId)
             = [TableOfVec(inner.nodes, NodeId) EXCEPT ![m.id] = m.row]
    BY <1>1, <2>1, UpsertedTable DEF Sound, VecDocument
  <2> HIDE DEF new
  <2>4. Sound(inner')
    BY <1>1, <2>2, <2>3 DEF Sound, VecDocument
  <2>5. AsTables(inner')
          = [AsTables(inner) EXCEPT !.nodes = TableOfVec(new, NodeId)]
    BY <1>1, <2>2, AsTablesOf
  <2>6. AsTables(inner).nodes = TableOfVec(inner.nodes, NodeId)
    BY DEF AsTables, TableOfVec
  <2>7. Keyed!Apply(AsTables(inner), m)
          = [AsTables(inner) EXCEPT !.nodes[m.id] = m.row]
    BY <1>4 DEF Keyed!Apply
  <2> QED BY <2>3, <2>4, <2>5, <2>6, <2>7
<1>5. CASE m.op = "upsert_preauth_key"
  <2> DEFINE new == Upserted(inner.preauth_keys, [id |-> m.id, row |-> m.row])
  <2>1. m.id \in PreAuthKeyId /\ m.row \in PreAuthKey
    BY <1>5 DEF Mutation, RowMutation
  <2>2. inner' = [inner EXCEPT !.preauth_keys = new]
    <3>1. TableOf[m.op] = "preauth_keys"
      BY <1>5 DEF TableOf
    <3> QED BY <3>1 DEF Upsert
  <2>3. /\ new \in Vec(PreAuthKeyId, PreAuthKey)
        /\ Unique(new)
        /\ TableOfVec(new, PreAuthKeyId)
             = [TableOfVec(inner.preauth_keys, PreAuthKeyId) EXCEPT ![m.id] = m.row]
    BY <1>1, <2>1, UpsertedTable DEF Sound, VecDocument
  <2> HIDE DEF new
  <2>4. Sound(inner')
    BY <1>1, <2>2, <2>3 DEF Sound, VecDocument
  <2>5. AsTables(inner')
          = [AsTables(inner) EXCEPT !.preauth_keys = TableOfVec(new, PreAuthKeyId)]
    BY <1>1, <2>2, AsTablesOf
  <2>6. AsTables(inner).preauth_keys = TableOfVec(inner.preauth_keys, PreAuthKeyId)
    BY DEF AsTables, TableOfVec
  <2>7. Keyed!Apply(AsTables(inner), m)
          = [AsTables(inner) EXCEPT !.preauth_keys[m.id] = m.row]
    BY <1>5 DEF Keyed!Apply
  <2> QED BY <2>3, <2>4, <2>5, <2>6, <2>7
<1> QED BY <1>2, <1>3, <1>4, <1>5 DEF Upsert, TableOf

(* delete_node keeps the document sound and takes the id out of the table.  *)
LEMMA DeleteNodeStep ==
    ASSUME Sound(inner), NEW m \in Mutation, DeleteNode(m)
    PROVE  Sound(inner') /\ AsTables(inner') = Keyed!Apply(AsTables(inner), m)
<1> DEFINE new == Retained(inner.nodes, {r \in ToSet(inner.nodes) : r.id # m.id})
<1>1. inner \in VecDocument
  BY DEF Sound
<1>2. m.op = "delete_node" /\ m.id \in NodeId /\ m.row = None
  BY DEF DeleteNode, Mutation, RowMutation
<1>3. inner' = [inner EXCEPT !.nodes = new]
  BY DEF DeleteNode
<1>4. /\ new \in Vec(NodeId, Node)
      /\ Unique(new)
      /\ TableOfVec(new, NodeId)
           = [TableOfVec(inner.nodes, NodeId) EXCEPT ![m.id] = None]
  <2>1. inner.nodes \in Vec(NodeId, Node) /\ Unique(inner.nodes) /\ m.id \in NodeId
    BY <1>1, <1>2 DEF Sound, VecDocument
  <2> QED BY <2>1, DeletedTable
<1> HIDE DEF new
<1>5. Sound(inner')
  BY <1>1, <1>3, <1>4 DEF Sound, VecDocument
<1>6. AsTables(inner') = [AsTables(inner) EXCEPT !.nodes = TableOfVec(new, NodeId)]
  BY <1>1, <1>3, AsTablesOf
<1>7. AsTables(inner).nodes = TableOfVec(inner.nodes, NodeId)
  BY DEF AsTables, TableOfVec
<1>8. Keyed!Apply(AsTables(inner), m)
        = [AsTables(inner) EXCEPT !.nodes[m.id] = m.row]
  BY <1>2 DEF Keyed!Apply
<1> QED BY <1>2, <1>4, <1>5, <1>6, <1>7, <1>8

(* set_policy assigns to the map of policies, which is a table already.     *)
LEMMA SetPolicyStep ==
    ASSUME Sound(inner), NEW m \in Mutation, SetPolicy(m)
    PROVE  Sound(inner') /\ AsTables(inner') = Keyed!Apply(AsTables(inner), m)
<1>1. inner \in VecDocument
  BY DEF Sound
<1>2. m.op = "set_policy" /\ m.id \in NetworkId /\ m.row \in Data
  BY DEF SetPolicy, Mutation, RowMutation
<1> DEFINE new == [inner.policies EXCEPT ![m.id] = m.row]
<1>3. inner' = [inner EXCEPT !.policies = new]
  BY DEF SetPolicy
<1>4. new \in Table(NetworkId, Data)
  BY <1>1, <1>2 DEF VecDocument, Table
<1>5. AsTables(inner).policies = inner.policies
  BY DEF AsTables
<1>6. Keyed!Apply(AsTables(inner), m) = [AsTables(inner) EXCEPT !.policies = new]
  BY <1>2, <1>5 DEF Keyed!Apply
<1> HIDE DEF new
<1>7. Sound(inner')
  BY <1>1, <1>3, <1>4 DEF Sound, VecDocument
<1>8. AsTables(inner') = [AsTables(inner) EXCEPT !.policies = new]
  BY <1>1, <1>3, AsTablesOf
<1> QED BY <1>6, <1>7, <1>8

(* consume_preauth_key answers and flips as the redemption of the one key   *)
(* with the id does.                                                        *)
LEMMA ConsumeStep ==
    ASSUME Sound(inner), now \in Time, NEW id \in PreAuthKeyId,
           ConsumePreauthKey(id)
    PROVE  /\ Sound(inner')
           /\ IF Keyed!Consumable(AsTables(inner), id, now)
              THEN /\ AsTables(inner') = Keyed!Consumed(AsTables(inner), id)
                   /\ Answer(TRUE, <<>>)
              ELSE inner' = inner /\ Answer(FALSE, <<>>)
<1> DEFINE vec == inner.preauth_keys
           i == Find(vec, id)
           key == vec[i].row
           refused == i = 0 \/ preauth_key_expired(key)
           flipped == ~refused /\ ~key.reusable /\ ~key.used
<1>1. inner \in VecDocument
  BY DEF Sound
<1>2. vec \in Vec(PreAuthKeyId, PreAuthKey) /\ Unique(vec)
  BY <1>1 DEF Sound, VecDocument
<1>3. vec \in Seq([id : PreAuthKeyId, row : PreAuthKey])
  BY <1>2 DEF Vec
<1>4. /\ Answer(~refused /\ (key.reusable \/ flipped), <<>>)
      /\ inner' = IF flipped
                  THEN [inner EXCEPT !.preauth_keys[i].row.used = TRUE]
                  ELSE inner
  BY DEF ConsumePreauthKey
<1>5. \/ i \in 1..Len(vec) /\ vec[i].id = id
      \/ i = 0 /\ \A j \in 1..Len(vec) : vec[j].id # id
  BY <1>3, FindFinds
<1>6. AsTables(inner).preauth_keys = TableOfVec(vec, PreAuthKeyId)
  BY DEF AsTables, TableOfVec
<1>7. TableOfVec(vec, PreAuthKeyId)[id] = RowOf(vec, id)
  BY DEF TableOfVec
<1> HIDE DEF vec, i
<1>8. CASE i = 0 /\ \A j \in 1..Len(vec) : vec[j].id # id
  <2>1. RowOf(vec, id) = None
    BY <1>3, <1>8, RowOfNothing
  <2>2. ~Keyed!Consumable(AsTables(inner), id, now)
    BY <2>1, <1>6, <1>7 DEF Keyed!Consumable
  <2>3. inner' = inner /\ Answer(FALSE, <<>>)
    BY <1>4, <1>8 DEF Answer
  <2> QED BY <2>2, <2>3
<1>9. CASE i \in 1..Len(vec) /\ vec[i].id = id
  <2>1. i # 0 /\ key \in PreAuthKey
    <3>1. vec[i] \in [id : PreAuthKeyId, row : PreAuthKey]
      BY <1>3, <1>9, ElementOfSeq
    <3> QED BY <3>1, <1>9
  <2>2. AsTables(inner).preauth_keys[id] = key
    BY <1>2, <1>6, <1>7, <1>9, RowOfElement
  <2>3. preauth_key_expired(key) <=> ~Keyed!Unexpired(key, now)
    <3> HIDE DEF key
    <3>1. key.expires_at \in Time \cup {None, Malformed}
      BY <2>1 DEF PreAuthKey
    <3>2. \A t \in Time : t \in Int
      BY NoneAssumption
    <3>3. CASE key.expires_at \in Time
      <4>1. key.expires_at # None /\ key.expires_at # Malformed
        BY <3>3, NoneAssumption
      <4> QED BY <3>2, <3>3, <4>1 DEF preauth_key_expired, Keyed!Unexpired
    <3>4. CASE key.expires_at \in {None, Malformed}
      BY <3>4, NoneAssumption DEF preauth_key_expired, Keyed!Unexpired
    <3> QED BY <3>1, <3>3, <3>4
  <2>4. key # None
    BY <2>1, RowAssumption
  <2>5. Keyed!Consumable(AsTables(inner), id, now)
          <=> ~refused /\ (key.reusable \/ ~key.used)
    BY <2>1, <2>2, <2>3, <2>4 DEF Keyed!Consumable
  <2>6. CASE flipped
    <3> DEFINE row == [key EXCEPT !.used = TRUE]
               new == [vec EXCEPT ![i].row.used = TRUE]
    <3>1. i \in 1..Len(vec)
      BY <1>9
    <3>2. inner' = [inner EXCEPT !.preauth_keys = new]
      BY <1>4, <2>6 DEF vec
    <3>3. /\ new \in Vec(PreAuthKeyId, PreAuthKey)
          /\ Unique(new)
          /\ TableOfVec(new, PreAuthKeyId)
               = [TableOfVec(vec, PreAuthKeyId) EXCEPT ![vec[i].id] = row]
      BY <3>1, <1>2, FlippedTable
    <3> HIDE DEF new
    <3>4. Sound(inner')
      BY <3>2, <3>3, <1>1 DEF Sound, VecDocument
    <3>5. TableOfVec(new, PreAuthKeyId)
            = [TableOfVec(vec, PreAuthKeyId) EXCEPT ![id] = row]
      BY <3>3, <1>9
    <3>6. AsTables(inner')
            = [AsTables(inner) EXCEPT !.preauth_keys = TableOfVec(new, PreAuthKeyId)]
      BY <3>2, <1>1, AsTablesOf
    <3>7. Keyed!Consumed(AsTables(inner), id)
            = [AsTables(inner) EXCEPT !.preauth_keys[id].used = TRUE]
      BY <2>2, <2>6 DEF Keyed!Consumed
    <3>8. AsTables(inner') = Keyed!Consumed(AsTables(inner), id)
      BY <3>5, <3>6, <3>7, <1>6, <2>2
    <3>9. Answer(TRUE, <<>>)
      BY <1>4, <2>6 DEF Answer
    <3> QED BY <3>4, <3>8, <3>9, <2>5, <2>6
  <2>7. CASE ~flipped
    <3>1. inner' = inner
      BY <1>4, <2>7
    <3>2. CASE ~refused /\ key.reusable
      <4>1. Keyed!Consumed(AsTables(inner), id) = AsTables(inner)
        BY <3>2, <2>2 DEF Keyed!Consumed
      <4>2. Answer(TRUE, <<>>)
        BY <3>2, <1>4, <2>7 DEF Answer
      <4> QED BY <3>1, <3>2, <4>1, <4>2, <2>5
    <3>3. CASE refused \/ ~key.reusable
      <4>1. Answer(FALSE, <<>>)
        BY <3>3, <1>4, <2>7 DEF Answer
      <4>2. ~Keyed!Consumable(AsTables(inner), id, now)
        BY <3>3, <2>5, <2>7
      <4> QED BY <3>1, <4>1, <4>2
    <3> QED BY <3>2, <3>3
  <2> QED BY <2>6, <2>7
<1> QED BY <1>5, <1>8, <1>9

-----------------------------------------------------------------------------
(* Answers.                                                                 *)

(* The pairs of no element and of one.                                      *)
LEMMA PairsOfFew ==
    /\ Pairs(<<>>) = {}
    /\ \A r : Pairs(<<r>>) = {<<r.id, r.row>>}
<1>1. Pairs(<<>>) = {}
  BY DEF Pairs, ToSet
<1>2. ASSUME NEW r PROVE Pairs(<<r>>) = {<<r.id, r.row>>}
  <2>1. ToSet(<<r>>) = {r}
    BY DEF ToSet
  <2> QED BY <2>1 DEF Pairs
<1> QED BY <1>1, <1>2

(* The entry of one id.                                                     *)
LEMMA EntryOf ==
    ASSUME NEW table, NEW x \in DOMAIN table
    PROVE  Keyed!Entry(table, x) =
              IF table[x] = None THEN {} ELSE {<<x, table[x]>>}
<1>1. Keyed!Entries(table) =
        {<<y, table[y]>> : y \in {z \in DOMAIN table : table[z] # None}}
  BY DEF Keyed!Entries
<1>2. Keyed!Entry(table, x) = {e \in Keyed!Entries(table) : e[1] = x}
  BY DEF Keyed!Entry
<1>3. \A e \in Keyed!Entry(table, x) : table[x] # None /\ e = <<x, table[x]>>
  BY <1>1, <1>2
<1>4. table[x] # None => <<x, table[x]>> \in Keyed!Entry(table, x)
  BY <1>1, <1>2
<1> QED BY <1>3, <1>4

(* Every read answers with the rows the tables hold.                        *)
LEMMA ReadStep ==
    ASSUME Sound(inner), Read
    PROVE  Keyed!Read
<1> DEFINE tables == AsTables(inner)
<1>1. inner \in VecDocument
  BY DEF Sound
<1>2. /\ tables.networks = TableOfVec(inner.networks, NetworkId)
      /\ tables.users = TableOfVec(inner.users, UserId)
      /\ tables.nodes = TableOfVec(inner.nodes, NodeId)
      /\ tables.preauth_keys = TableOfVec(inner.preauth_keys, PreAuthKeyId)
      /\ tables.policies = inner.policies
  BY DEF AsTables, TableOfVec
<1>3. /\ inner.networks \in Vec(NetworkId, Network)
      /\ inner.users \in Vec(UserId, User)
      /\ inner.nodes \in Vec(NodeId, Node)
      /\ inner.preauth_keys \in Vec(PreAuthKeyId, PreAuthKey)
      /\ DOMAIN inner.policies = NetworkId
  BY <1>1 DEF VecDocument, Table
<1>4. /\ Keyed!Entries(tables.networks) = Pairs(inner.networks)
      /\ Keyed!Entries(tables.users) = Pairs(inner.users)
      /\ Keyed!Entries(tables.nodes) = Pairs(inner.nodes)
      /\ Keyed!Entries(tables.preauth_keys) = Pairs(inner.preauth_keys)
  <2>1. /\ None \notin Network /\ None \notin User
        /\ None \notin Node /\ None \notin PreAuthKey
    BY RowAssumption
  <2>2. /\ Unique(inner.networks) /\ Unique(inner.users)
        /\ Unique(inner.nodes) /\ Unique(inner.preauth_keys)
    BY DEF Sound
  <2>3. Keyed!Entries(TableOfVec(inner.networks, NetworkId)) = Pairs(inner.networks)
    BY <2>1, <2>2, <1>3, EntriesOfVec
  <2>4. Keyed!Entries(TableOfVec(inner.users, UserId)) = Pairs(inner.users)
    BY <2>1, <2>2, <1>3, EntriesOfVec
  <2>5. Keyed!Entries(TableOfVec(inner.nodes, NodeId)) = Pairs(inner.nodes)
    BY <2>1, <2>2, <1>3, EntriesOfVec
  <2>6. Keyed!Entries(TableOfVec(inner.preauth_keys, PreAuthKeyId))
          = Pairs(inner.preauth_keys)
    BY <2>1, <2>2, <1>3, EntriesOfVec
  <2> QED BY <2>3, <2>4, <2>5, <2>6, <1>2
<1>5. UNCHANGED <<tables, AsTables(saved), now>>
  BY DEF Read
<1> HIDE DEF tables
<1>6. CASE ListNetworks
  <2>1. Keyed!Answer(TRUE, Keyed!Entries(tables.networks))
    BY <1>4, <1>6 DEF ListNetworks, Answer, Keyed!Answer, Pairs
  <2> QED BY <2>1, <1>5 DEF Keyed!Read, tables
<1>7. ASSUME NEW n \in NetworkId, ListUsers(n) PROVE Keyed!Read
  <2>1. Keyed!Answer(TRUE, Keyed!InNetwork(Keyed!Entries(tables.users), n))
    <3>1. Keyed!InNetwork(Pairs(inner.users), n) = Pairs(Filtered(inner.users, n))
      BY <1>3, FilteredEntries
    <3> QED BY <3>1, <1>4, <1>7 DEF ListUsers, Answer, Keyed!Answer, Pairs
  <2> QED BY <2>1, <1>5 DEF Keyed!Read, tables
<1>8. ASSUME NEW n \in NetworkId, ListNodes(n) PROVE Keyed!Read
  <2>1. Keyed!Answer(TRUE, Keyed!InNetwork(Keyed!Entries(tables.nodes), n))
    <3>1. Keyed!InNetwork(Pairs(inner.nodes), n) = Pairs(Filtered(inner.nodes, n))
      BY <1>3, FilteredEntries
    <3> QED BY <3>1, <1>4, <1>8 DEF ListNodes, Answer, Keyed!Answer, Pairs
  <2> QED BY <2>1, <1>5 DEF Keyed!Read, tables
<1>9. ASSUME NEW n \in NetworkId, ListPreauthKeys(n) PROVE Keyed!Read
  <2>1. Keyed!Answer(TRUE, Keyed!InNetwork(Keyed!Entries(tables.preauth_keys), n))
    <3>1. Keyed!InNetwork(Pairs(inner.preauth_keys), n)
            = Pairs(Filtered(inner.preauth_keys, n))
      BY <1>3, FilteredEntries
    <3> QED BY <3>1, <1>4, <1>9 DEF ListPreauthKeys, Answer, Keyed!Answer, Pairs
  <2> QED BY <2>1, <1>5 DEF Keyed!Read, tables
<1>10. ASSUME NEW n \in NetworkId, GetPolicy(n) PROVE Keyed!Read
  <2> DEFINE row == inner.policies[n]
             rows == IF row = None THEN <<>> ELSE <<[id |-> n, row |-> row]>>
  <2>1. Keyed!Entry(tables.policies, n) = IF row = None THEN {} ELSE {<<n, row>>}
    BY <1>2, <1>3, EntryOf
  <2>2. Pairs(rows) = IF row = None THEN {} ELSE {<<n, row>>}
    BY PairsOfFew
  <2>3. Answer(TRUE, rows)
    BY <1>10 DEF GetPolicy
  <2> HIDE DEF rows
  <2>4. Keyed!Answer(TRUE, Keyed!Entry(tables.policies, n))
    BY <2>1, <2>2, <2>3 DEF Answer, Keyed!Answer, Pairs
  <2> QED BY <2>4, <1>5 DEF Keyed!Read, tables
<1>11. ASSUME NEW id \in NodeId, GetNode(id) PROVE Keyed!Read
  <2> DEFINE vec == inner.nodes
             i == Find(vec, id)
             rows == IF i = 0 THEN <<>> ELSE <<vec[i]>>
  <2>1. Answer(TRUE, rows)
    BY <1>11 DEF GetNode
  <2>2. vec \in Vec(NodeId, Node) /\ Unique(vec)
    BY <1>3 DEF Sound
  <2>3. vec \in Seq([id : NodeId, row : Node])
    BY <2>2 DEF Vec
  <2>4. \/ i \in 1..Len(vec) /\ vec[i].id = id
        \/ i = 0 /\ \A j \in 1..Len(vec) : vec[j].id # id
    BY <2>3, FindFinds
  <2>5. Keyed!Entry(tables.nodes, id)
          = IF RowOf(vec, id) = None THEN {} ELSE {<<id, RowOf(vec, id)>>}
    <3>1. id \in DOMAIN TableOfVec(vec, NodeId)
      BY DEF TableOfVec
    <3>2. TableOfVec(vec, NodeId)[id] = RowOf(vec, id)
      BY DEF TableOfVec
    <3>3. Keyed!Entry(TableOfVec(vec, NodeId), id)
            = IF TableOfVec(vec, NodeId)[id] = None THEN {}
              ELSE {<<id, TableOfVec(vec, NodeId)[id]>>}
      BY <3>1, EntryOf
    <3> QED BY <3>2, <3>3, <1>2
  <2>6. Pairs(rows) = Keyed!Entry(tables.nodes, id)
    <3> HIDE DEF vec, i
    <3>1. CASE i \in 1..Len(vec) /\ vec[i].id = id
      <4>1. RowOf(vec, id) = vec[i].row
        BY <3>1, <2>2, RowOfElement
      <4>2. vec[i].row # None
        <5>1. vec[i] \in [id : NodeId, row : Node]
          BY <3>1, <2>3, ElementOfSeq
        <5> QED BY <5>1, RowAssumption
      <4>3. Pairs(<<vec[i]>>) = {<<vec[i].id, vec[i].row>>}
        BY PairsOfFew
      <4>4. i # 0
        BY <3>1
      <4> QED BY <3>1, <4>1, <4>2, <4>3, <4>4, <2>5
    <3>2. CASE i = 0 /\ \A j \in 1..Len(vec) : vec[j].id # id
      <4>1. RowOf(vec, id) = None
        BY <3>2, <2>3, RowOfNothing
      <4> QED BY <3>2, <4>1, <2>5, PairsOfFew
    <3> QED BY <3>1, <3>2, <2>4
  <2> HIDE DEF vec, i, rows
  <2>7. Keyed!Answer(TRUE, Keyed!Entry(tables.nodes, id))
    BY <2>1, <2>6 DEF Answer, Keyed!Answer, Pairs
  <2>8. \E x \in NodeId : Keyed!Answer(TRUE, Keyed!Entry(tables.nodes, x))
    BY <2>7 DEF Keyed!Answer
  <2> QED BY <2>8, <1>5 DEF Keyed!Read, tables
<1> QED BY <1>6, <1>7, <1>8, <1>9, <1>10, <1>11 DEF Read

-----------------------------------------------------------------------------
(* Steps.                                                                   *)

(* MemoryStore::new is sound and stands for the empty tables.               *)
LEMMA InitMaps == Init => Inv /\ Keyed!Init
<1> SUFFICES ASSUME Init PROVE Inv /\ Keyed!Init
  OBVIOUS
<1>1. inner = New /\ saved = New /\ answer = [ok |-> TRUE, rows |-> <<>>]
      /\ now \in Time
  BY DEF Init
<1>2. \A S : <<>> \in Seq(S)
  OBVIOUS
<1>3. Unique(<<>>) /\ \A x : RowOf(<<>>, x) = None
  <2>1. \A i : i \notin 1..Len(<<>>)
    OBVIOUS
  <2>2. ASSUME NEW x PROVE RowOf(<<>>, x) = None
    BY <1>2, <2>1, RowOfNothing
  <2> QED BY <2>1, <2>2 DEF Unique
<1>4. Sound(New)
  <2>1. New \in VecDocument
    BY <1>2 DEF New, VecDocument, Vec, Table
  <2> QED BY <2>1, <1>3 DEF Sound, New
<1>5. AsTables(New) = Keyed!NewDocument
  BY <1>3 DEF AsTables, New, Keyed!NewDocument
<1>6. {<<r.id, r.row>> : r \in ToSet(<<>>)} = {}
  BY PairsOfFew DEF Pairs
<1>7. Inv
  BY <1>1, <1>4 DEF Inv
<1>8. Keyed!Init
  BY <1>1, <1>5, <1>6 DEF Keyed!Init
<1> QED BY <1>7, <1>8

(* A mutation is one of KeyedStore, whichever its table.                    *)
LEMMA MutationStep ==
    ASSUME Inv, NEW m \in Mutations, Upsert(m) \/ DeleteNode(m) \/ SetPolicy(m)
    PROVE  Inv' /\ Keyed!Mutate
<1>1. m \in Mutation /\ Sound(inner) /\ Sound(saved) /\ now \in Time
  BY MutationsAssumption DEF Inv
<1>2. Sound(inner') /\ AsTables(inner') = Keyed!Apply(AsTables(inner), m)
  BY <1>1, UpsertStep, DeleteNodeStep, SetPolicyStep
<1>3. answer' = [ok |-> TRUE, rows |-> <<>>] /\ saved' = saved /\ now' = now
  BY DEF Upsert, DeleteNode, SetPolicy, Answer
<1>4. {<<r.id, r.row>> : r \in ToSet(<<>>)} = {}
  BY PairsOfFew DEF Pairs
<1>5. Inv'
  BY <1>1, <1>2, <1>3 DEF Inv
<1>6. Keyed!Answer(TRUE, {})
  BY <1>3, <1>4 DEF Keyed!Answer
<1>7. AsTables(saved)' = AsTables(saved)
  BY <1>3
<1> QED BY <1>2, <1>3, <1>5, <1>6, <1>7 DEF Keyed!Mutate

(* A redemption is one of KeyedStore.                                       *)
LEMMA RedemptionStep ==
    ASSUME Inv, NEW id \in PreAuthKeyId, ConsumePreauthKey(id)
    PROVE  Inv' /\ Keyed!Consume
<1> DEFINE tables == AsTables(inner)
           good == Keyed!Consumable(tables, id, now)
<1>1. Sound(inner) /\ Sound(saved) /\ now \in Time
  BY DEF Inv
<1>2. /\ Sound(inner')
      /\ IF good THEN AsTables(inner') = Keyed!Consumed(tables, id) /\ Answer(TRUE, <<>>)
                 ELSE inner' = inner /\ Answer(FALSE, <<>>)
  BY <1>1, ConsumeStep
<1>3. saved' = saved /\ now' = now /\ AsTables(saved)' = AsTables(saved)
  BY DEF ConsumePreauthKey
<1>4. {<<r.id, r.row>> : r \in ToSet(<<>>)} = {}
  BY PairsOfFew DEF Pairs
<1>5. CASE good
  <2>1. answer' = [ok |-> TRUE, rows |-> <<>>]
    BY <1>2, <1>5 DEF Answer
  <2>2. Keyed!Answer(TRUE, {})
    BY <2>1, <1>4 DEF Keyed!Answer
  <2>3. Inv'
    BY <2>1, <1>1, <1>2, <1>3 DEF Inv
  <2>4. tables' = Keyed!Consumed(tables, id)
    BY <1>2, <1>5
  <2> QED BY <2>2, <2>3, <2>4, <1>3, <1>5 DEF Keyed!Consume
<1>6. CASE ~good
  <2>1. answer' = [ok |-> FALSE, rows |-> <<>>]
    BY <1>2, <1>6 DEF Answer
  <2>2. Keyed!Answer(FALSE, {})
    BY <2>1, <1>4 DEF Keyed!Answer
  <2>3. Inv'
    BY <2>1, <1>1, <1>2, <1>3 DEF Inv
  <2>4. tables' = tables
    BY <1>2, <1>6
  <2> QED BY <2>2, <2>3, <2>4, <1>3, <1>6 DEF Keyed!Consume
<1> QED BY <1>5, <1>6

(* Every step keeps the invariant and is a step of KeyedStore.              *)
LEMMA NextStep == Inv /\ [Next]_vars => Inv' /\ [Keyed!Next]_(Keyed!vars)
<1> SUFFICES ASSUME Inv, [Next]_vars PROVE Inv' /\ [Keyed!Next]_(Keyed!vars)
  OBVIOUS
<1>1. ASSUME NEW m \in Mutations, Upsert(m) \/ DeleteNode(m) \/ SetPolicy(m)
      PROVE  Inv' /\ Keyed!Next
  BY <1>1, MutationStep DEF Keyed!Next
<1>2. ASSUME NEW id \in PreAuthKeyId, ConsumePreauthKey(id)
      PROVE  Inv' /\ Keyed!Next
  BY <1>2, RedemptionStep DEF Keyed!Next
<1>3. CASE Read
  <2>1. Keyed!Read
    BY <1>3, ReadStep DEF Inv
  <2>2. answer'.ok = TRUE
    BY <1>3 DEF Read, ListNetworks, ListUsers, ListNodes, ListPreauthKeys,
                GetNode, GetPolicy, Answer
  <2>3. Inv'
    BY <2>2, <1>3 DEF Inv, Read
  <2> QED BY <2>1, <2>3 DEF Keyed!Next
<1>4. CASE Snapshot
  <2>1. Inv'
    BY <1>4 DEF Inv, Snapshot
  <2>2. Keyed!Snapshot
    BY <1>4 DEF Snapshot, Keyed!Snapshot
  <2> QED BY <2>1, <2>2 DEF Keyed!Next
<1>5. CASE Replace
  <2>1. Inv'
    BY <1>5 DEF Inv, Replace
  <2>2. Keyed!Replace
    BY <1>5 DEF Replace, Keyed!Replace
  <2> QED BY <2>1, <2>2 DEF Keyed!Next
<1>6. CASE Tick
  <2>1. Inv'
    BY <1>6 DEF Inv, Tick
  <2>2. Keyed!Tick
    BY <1>6 DEF Tick, Keyed!Tick
  <2> QED BY <2>1, <2>2 DEF Keyed!Next
<1>7. CASE UNCHANGED vars
  <2>1. Inv'
    BY <1>7 DEF Inv, vars
  <2>2. UNCHANGED Keyed!vars
    BY <1>7 DEF vars, Keyed!vars
  <2> QED BY <2>1, <2>2
<1> QED BY <1>1, <1>2, <1>3, <1>4, <1>5, <1>6, <1>7 DEF Next

-----------------------------------------------------------------------------
(* Theorems.                                                                *)

(* The invariant holds of every state of MemoryStore.                       *)
LEMMA Invariance == Spec => []Inv
<1>1. Init => Inv
  BY InitMaps
<1>2. Inv /\ [Next]_vars => Inv'
  BY NextStep
<1> QED BY <1>1, <1>2, PTL DEF Spec

(* The rows of the Vecs and of the snapshot keep the types of store/types.rs*)
(* in every call: no method of memory.rs puts a row into the Vec of another *)
(* kind.                                                                    *)
THEOREM TypeCorrect == Spec => []TypeOK
<1>1. Inv => TypeOK
  BY InvImplies
<1> QED BY <1>1, Invariance, PTL

(* No Vec ever holds two rows of one id, whatever the host upserts, deletes,*)
(* snapshots and replaces, so that the first row `find` returns is the only *)
(* one.                                                                     *)
THEOREM IdsStayUnique == Spec => []UniqueIds
<1>1. Inv => UniqueIds
  BY InvImplies
<1> QED BY <1>1, Invariance, PTL

(* MemoryStore implements KeyedStore: each method of memory.rs has, in one  *)
(* step, the effect and the answer it has on tables of ids, for any ids,    *)
(* rows, mutations and clock.                                               *)
THEOREM MemoryStoreIsKeyed == Spec => ImplementsKeyedStore
<1>1. Init => Keyed!Init
  BY InitMaps
<1>2. Inv /\ [Next]_vars => [Keyed!Next]_(Keyed!vars)
  BY NextStep
<1> QED BY <1>1, <1>2, Invariance, PTL DEF Spec, ImplementsKeyedStore, Keyed!Spec
================================================================================
