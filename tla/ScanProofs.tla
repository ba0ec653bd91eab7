----------------------------- MODULE ScanProofs -----------------------------
(***************************************************************************)
(* Theorems about Scan, for every catalog, server, cap, limit and ceiling. *)
(*                                                                         *)
(* First what a page contributes (Ordered to KeepOf): which of its entries   *)
(* are kept, how many and in which order.  Counting the entries of a page  *)
(* needs induction, which is done here by least counterexample (LeastNat). *)
(* Then the inductive invariant SInv, whose heart is Covered: how far into *)
(* the catalog the pages of a scan have come.                              *)
(***************************************************************************)
EXTENDS Scan, Induction, FiniteSetTheorems, SequenceTheorems, TLAPS

-----------------------------------------------------------------------------
(* Positions in order *)

Increasing(f) == \A j, k \in DOMAIN f : j < k => f[j] < f[k]

(* Any set of positions can be listed in increasing order. *)
LEMMA Listable ==
    \A n \in Nat : \A S \in SUBSET (1..n) : \E f \in [1..Cardinality(S) -> S] : Increasing(f)
<1> DEFINE Bad == {n \in Nat : \E S \in SUBSET (1..n) :
                        \A f \in [1..Cardinality(S) -> S] : ~Increasing(f)}
<1> SUFFICES ASSUME Bad # {} PROVE FALSE
  OBVIOUS
<1>1. PICK n \in Bad : \A m \in Bad : n <= m
  <2>1. Bad \subseteq Nat
    OBVIOUS
  <2> HIDE DEF Bad
  <2> QED BY <2>1, LeastNat
<1>2. PICK S \in SUBSET (1..n) : \A f \in [1..Cardinality(S) -> S] : ~Increasing(f)
  BY <1>1
<1>3. n \in Nat /\ (n # 0 => \A T \in SUBSET (1..(n - 1)) :
                       \E f \in [1..Cardinality(T) -> T] : Increasing(f))
  BY <1>1
<1> HIDE DEF Bad
<1>4. IsFiniteSet(S) /\ Cardinality(S) \in Nat
  <2>1. IsFiniteSet(1..n)
    BY <1>3, FS_Interval
  <2>2. IsFiniteSet(S)
    BY <2>1, FS_Subset
  <2> QED BY <2>2, FS_CardinalityType
<1>5. n # 0
  <2> SUFFICES ASSUME n = 0 PROVE FALSE
    OBVIOUS
  <2>1. S = {}
    OBVIOUS
  <2>2. Cardinality(S) = 0
    BY <2>1, FS_EmptySet
  <2>3. [k \in 1..0 |-> k] \in [1..Cardinality(S) -> S] /\ Increasing([k \in 1..0 |-> k])
    BY <2>2 DEF Increasing
  <2> QED BY <1>2, <2>3
<1>6. n \in S
  <2> SUFFICES ASSUME n \notin S PROVE FALSE
    OBVIOUS
  <2>1. S \in SUBSET (1..(n - 1))
    BY <1>3
  <2> QED BY <1>2, <1>3, <1>5, <2>1
<1> DEFINE R == S \ {n}
<1>7. R \in SUBSET (1..(n - 1)) /\ IsFiniteSet(R) /\ Cardinality(R) = Cardinality(S) - 1
  BY <1>3, <1>4, <1>6, FS_RemoveElement
<1>8. PICK g \in [1..Cardinality(R) -> R] : Increasing(g)
  BY <1>3, <1>5, <1>7
<1> DEFINE c == Cardinality(S)
           f == [k \in 1..c |-> IF k = c THEN n ELSE g[k]]
<1>9. c \in Nat \ {0} /\ g \in [1..(c - 1) -> R]
  <2>1. Cardinality(R) \in Nat
    BY <1>7, FS_CardinalityType
  <2>2. c \in Nat \ {0} /\ Cardinality(R) = c - 1
    BY <2>1, <1>4, <1>7
  <2> QED BY <2>2, <1>8
<1> HIDE DEF c
<1>10. \A k \in 1..(c - 1) : g[k] \in S /\ g[k] \in 1..(n - 1)
  BY <1>7, <1>9
<1>11. \A j, k \in 1..(c - 1) : j < k => g[j] < g[k]
  BY <1>8, <1>9 DEF Increasing
<1> HIDE DEF R
<1>12. f \in [1..c -> S]
  BY <1>6, <1>9, <1>10
<1>13. \A j, k \in 1..c : j < k => f[j] < f[k]
  BY <1>3, <1>9, <1>10, <1>11
<1>14. Increasing(f)
  BY <1>13 DEF Increasing
<1> QED BY <1>2, <1>12, <1>14 DEF c

(* InOrder lists all of a set of positions, in increasing order. *)
LEMMA Ordered ==
    ASSUME NEW n \in Nat, NEW S \in SUBSET (1..n)
    PROVE  /\ IsFiniteSet(S) /\ Cardinality(S) \in 0..n
           /\ Cardinality(S) = n => S = 1..n
           /\ InOrder(S) \in [1..Cardinality(S) -> S]
           /\ Increasing(InOrder(S))
           /\ \A x \in S : \E k \in 1..Cardinality(S) : InOrder(S)[k] = x
<1>1. IsFiniteSet(1..n) /\ Cardinality(1..n) = n
  BY FS_Interval
<1>2. IsFiniteSet(S) /\ Cardinality(S) \in 0..n /\ (Cardinality(S) = n => S = 1..n)
  <2>1. IsFiniteSet(S) /\ Cardinality(S) <= Cardinality(1..n)
           /\ (Cardinality(1..n) = Cardinality(S) => 1..n = S)
    BY <1>1, FS_Subset
  <2>2. Cardinality(S) \in Nat
    BY <2>1, FS_CardinalityType
  <2> QED BY <1>1, <2>1, <2>2
<1> DEFINE c == Cardinality(S)
           f == InOrder(S)
<1>3. f \in [1..c -> S] /\ Increasing(f)
  BY Listable DEF InOrder, Increasing
<1>4. f \in Injection(1..c, S)
  <2> HIDE DEF f
  <2> SUFFICES ASSUME NEW j \in 1..c, NEW k \in 1..c, j < k PROVE f[j] # f[k]
    BY <1>2, <1>3 DEF Injection, IsInjective
  <2>1. f[j] \in S /\ f[k] \in S
    BY <1>3
  <2>2. f[j] < f[k]
    BY <1>3 DEF Increasing
  <2>3. f[j] \in Int /\ f[k] \in Int
    <3>1. S \subseteq Int
      OBVIOUS
    <3> QED BY <2>1, <3>1
  <2> HIDE DEF f
  <2> QED BY <2>2, <2>3
<1>5. Cardinality(1..c) = c
  BY <1>2, FS_Interval
<1>6. f \in Surjection(1..c, S)
  <2> HIDE DEF f
  <2> QED BY <1>2, <1>4, <1>5, FS_Injection
<1> QED BY <1>2, <1>3, <1>6 DEF Surjection

-----------------------------------------------------------------------------
(* What a page contributes *)

(* The entries at a set of positions: as many, no others, and in order.     *)
ListsEntries(page, S) ==
    /\ Cardinality(S) \in 0..Len(page)
    /\ Cardinality(S) = Len(page) => S = DOMAIN page
    /\ S # {} => Cardinality(S) > 0
    /\ Entries(page, S) \in Seq({page[k] : k \in S})
    /\ Len(Entries(page, S)) = Cardinality(S)
    /\ ToSet(Entries(page, S)) = {page[k] : k \in S}
    /\ \A j, k \in 1..Cardinality(S) : j < k =>
          \E p, q \in S : p < q /\ Entries(page, S)[j] = page[p] /\ Entries(page, S)[k] = page[q]

LEMMA EntriesOf ==
    ASSUME NEW T, NEW page \in Seq(T), NEW S \in SUBSET DOMAIN page
    PROVE  ListsEntries(page, S)
<1> DEFINE c == Cardinality(S)
           V == {page[k] : k \in S}
           e == Entries(page, S)
<1>1. Len(page) \in Nat /\ DOMAIN page = 1..Len(page)
  BY LenProperties
<1>2. /\ IsFiniteSet(S) /\ c \in 0..Len(page)
      /\ c = Len(page) => S = DOMAIN page
      /\ InOrder(S) \in [1..c -> S]
      /\ Increasing(InOrder(S))
      /\ \A x \in S : \E k \in 1..c : InOrder(S)[k] = x
  BY <1>1, Ordered
<1>3. S # {} => c > 0
  BY <1>2
<1>4. e = [k \in 1..c |-> page[InOrder(S)[k]]]
  BY DEF Entries
<1>5. e \in [1..c -> V]
  BY <1>2, <1>4
<1>6. e \in Seq(V) /\ Len(e) = c
  BY <1>2, <1>5, SeqDef, LenProperties
<1>7. ToSet(e) = V
  <2>1. DOMAIN e = 1..c /\ \A k \in 1..c : e[k] \in V
    BY <1>5
  <2>2. ASSUME NEW x \in S PROVE \E k \in 1..c : e[k] = page[x]
    BY <1>2, <1>4
  <2> HIDE DEF c, e
  <2> QED BY <2>1, <2>2 DEF ToSet
<1>8. \A j, k \in 1..c : j < k =>
        \E p, q \in S : p < q /\ e[j] = page[p] /\ e[k] = page[q]
  <2> SUFFICES ASSUME NEW j \in 1..c, NEW k \in 1..c, j < k
               PROVE  \E p, q \in S : p < q /\ e[j] = page[p] /\ e[k] = page[q]
    OBVIOUS
  <2>1. InOrder(S)[j] \in S /\ InOrder(S)[k] \in S /\ InOrder(S)[j] < InOrder(S)[k]
    BY <1>2 DEF Increasing
  <2> QED BY <1>4, <2>1
<1> QED BY <1>2, <1>3, <1>6, <1>7, <1>8 DEF ListsEntries

Kinds == Ids \cup {Blank, Junk}
Kept == Ids \cup {Blank}

(* A page is what the catalog has from its first position on, as far as the *)
(* page and the catalog reach.                                              *)
LEMMA ServedFrom ==
    ASSUME catalog \in Seq(Kinds), server.base \in Bases, NEW from \in Nat, NEW count \in Nat \ {0}
    PROVE  LET first == FirstServed(from)
               upto  == IF first + count - 1 < Len(catalog) THEN first + count - 1 ELSE Len(catalog)
           IN  /\ first \in Nat \ {0}
               /\ Served(from, count) \in Seq(Kinds)
               /\ Len(Served(from, count)) = IF first <= upto THEN upto - first + 1 ELSE 0
               /\ ToSet(Served(from, count)) = {catalog[k] : k \in first..upto}
<1> DEFINE first == FirstServed(from)
           upto  == IF first + count - 1 < Len(catalog) THEN first + count - 1 ELSE Len(catalog)
<1>1. first \in Nat \ {0}
  BY DEF FirstServed, Bases
<1>2. Len(catalog) \in Nat /\ upto \in Nat /\ upto <= Len(catalog)
  BY <1>1, LenProperties
<1>3. Served(from, count) = SubSeq(catalog, first, upto)
  BY DEF Served
<1> HIDE DEF first, upto
<1>4. \A k \in first..upto : catalog[k] \in Kinds
  BY <1>1, <1>2, ElementOfSeq
<1>5. /\ SubSeq(catalog, first, upto) \in Seq(Kinds)
      /\ Len(SubSeq(catalog, first, upto)) = IF first <= upto THEN upto - first + 1 ELSE 0
      /\ \A j \in 1..(upto - first + 1) : SubSeq(catalog, first, upto)[j] = catalog[first + j - 1]
  BY <1>1, <1>2, <1>4, SubSeqProperties
<1> DEFINE s == SubSeq(catalog, first, upto)
<1> HIDE DEF s
<1>6. DOMAIN s = 1..Len(s)
  BY <1>5, LenProperties DEF s
<1>7. ToSet(s) = {catalog[k] : k \in first..upto}
  <2>1. ASSUME NEW j \in DOMAIN s PROVE s[j] \in {catalog[k] : k \in first..upto}
    BY <1>1, <1>2, <1>5, <1>6 DEF s
  <2>2. ASSUME NEW k \in first..upto PROVE catalog[k] \in ToSet(s)
    <3>1. (k - first + 1) \in DOMAIN s /\ s[k - first + 1] = catalog[k]
      BY <1>1, <1>2, <1>5, <1>6 DEF s
    <3> QED BY <3>1 DEF ToSet
  <2> QED BY <2>1, <2>2 DEF ToSet
<1> QED BY <1>1, <1>3, <1>5, <1>7 DEF first, upto, s

(* Of what was served the objects are left, and the page is as long as that *)
(* only if nothing else was in it.                                          *)
LEMMA PageOf ==
    ASSUME catalog \in Seq(Kinds), server.base \in Bases, NEW from \in Nat, NEW count \in Nat \ {0}
    PROVE  LET raw  == Served(from, count)
               page == Page(from, count)
           IN  /\ page \in Seq(Kept) /\ Len(page) \in 0..Len(raw)
               /\ ToSet(page) = ToSet(raw) \ {Junk}
               /\ Len(page) = Len(raw) <=> Junk \notin ToSet(raw)
<1> DEFINE raw  == Served(from, count)
           S    == {k \in DOMAIN raw : raw[k] # Junk}
           page == Page(from, count)
<1>1. raw \in Seq(Kinds)
  BY ServedFrom
<1>2. page = Entries(raw, S)
  BY DEF Page
<1>0. S \in SUBSET DOMAIN raw
  OBVIOUS
<1> HIDE DEF raw, page
<1>3. Len(raw) \in Nat /\ DOMAIN raw = 1..Len(raw) /\ \A k \in DOMAIN raw : raw[k] \in Kinds
  BY <1>1, LenProperties, ElementOfSeq
<1>4. /\ Cardinality(S) \in 0..Len(raw)
      /\ Cardinality(S) = Len(raw) => S = DOMAIN raw
      /\ page \in Seq({raw[k] : k \in S})
      /\ Len(page) = Cardinality(S)
      /\ ToSet(page) = {raw[k] : k \in S}
  <2>1. ListsEntries(raw, S)
    BY <1>0, <1>1, EntriesOf
  <2> QED BY <1>2, <2>1 DEF ListsEntries
<1>5. {raw[k] : k \in S} \subseteq Kept
  BY <1>3 DEF Kinds, Kept
<1>6. page \in Seq(Kept)
  BY <1>4, <1>5, SeqMonotonic
<1>7. ToSet(page) = ToSet(raw) \ {Junk}
  BY <1>4 DEF ToSet
<1>8. Junk \notin ToSet(raw) => S = DOMAIN raw
  BY DEF ToSet
<1>9. S = DOMAIN raw => Junk \notin ToSet(raw) /\ Cardinality(S) = Len(raw)
  <2>1. \A n \in Nat : Cardinality(1..n) = n
    BY FS_Interval
  <2> QED BY <1>3, <2>1 DEF ToSet
<1> QED BY <1>4, <1>6, <1>7, <1>8, <1>9 DEF raw, page

OnceEach(s) == \A j, k \in DOMAIN s : j # k /\ s[j] = s[k] => s[j] = Blank

(* Every value of a page has a place where it comes first.                  *)
LEMMA FirstPlace ==
    ASSUME NEW page \in Seq(Kept), NEW r \in ToSet(page)
    PROVE  \E k \in DOMAIN page : page[k] = r /\ \A j \in 1..(k - 1) : page[j] # r
<1> DEFINE P == {k \in DOMAIN page : page[k] = r}
<1>1. DOMAIN page = 1..Len(page) /\ Len(page) \in Nat
  BY LenProperties
<1>2. P \subseteq Nat /\ P # {}
  BY <1>1 DEF ToSet
<1> HIDE DEF P
<1>3. PICK k \in P : \A j \in P : k <= j
  BY <1>2, LeastNat
<1>4. k \in DOMAIN page /\ k \in Nat
  BY <1>1 DEF P
<1>5. ASSUME NEW j \in 1..(k - 1), page[j] = r PROVE FALSE
  <2>1. j \in P /\ j < k
    BY <1>1, <1>4, <1>5 DEF P
  <2> QED BY <1>3, <1>4, <2>1
<1> QED BY <1>4, <1>5 DEF P

(* What a page adds: nothing it held is missing afterwards, no id is there  *)
(* twice, and a record without an id, or one not seen before, is progress.  *)
LEMMA KeepOf ==
    ASSUME NEW kept \in Seq(Kept), NEW page \in Seq(Kept)
    PROVE  LET all == Keep(kept, page)
           IN  /\ all \in Seq(Kept)
               /\ Len(all) \in Len(kept)..(Len(kept) + Len(page))
               /\ ToSet(all) = ToSet(kept) \cup ToSet(page)
               /\ OnceEach(kept) => OnceEach(all)
               /\ (\E r \in ToSet(page) : r = Blank \/ r \notin ToSet(kept)) => Len(all) > Len(kept)
<1> DEFINE S   == New(kept, page)
           c   == Cardinality(S)
           e   == Entries(page, S)
           all == Keep(kept, page)
<1>1. /\ Len(kept) \in Nat /\ DOMAIN kept = 1..Len(kept)
      /\ Len(page) \in Nat /\ DOMAIN page = 1..Len(page)
      /\ \A k \in DOMAIN page : page[k] \in Kept
  BY LenProperties, ElementOfSeq
<1>2. S \in SUBSET DOMAIN page
  BY DEF New
<1> HIDE DEF S
<1>3. /\ c \in 0..Len(page) /\ (S # {} => c > 0)
      /\ e \in Seq({page[k] : k \in S}) /\ Len(e) = c
      /\ ToSet(e) = {page[k] : k \in S}
      /\ \A j, k \in 1..c : j < k => \E p, q \in S : p < q /\ e[j] = page[p] /\ e[k] = page[q]
  <2>1. ListsEntries(page, S)
    BY <1>2, EntriesOf
  <2> QED BY <2>1 DEF ListsEntries
<1>4. all = kept \o e
  BY DEF Keep, S
<1> HIDE DEF c, e, all
<1>5. e \in Seq(Kept)
  <2>1. {page[k] : k \in S} \subseteq Kept
    BY <1>1, <1>2
  <2> QED BY <1>3, <2>1, SeqMonotonic
<1>6. /\ all \in Seq(Kept) /\ Len(all) = Len(kept) + c
      /\ DOMAIN all = 1..(Len(kept) + c)
      /\ \A k \in DOMAIN all : all[k] = IF k <= Len(kept) THEN kept[k] ELSE e[k - Len(kept)]
  <2>1. /\ all \in Seq(Kept) /\ Len(all) = Len(kept) + Len(e)
        /\ \A k \in 1..(Len(kept) + Len(e)) : all[k] = IF k <= Len(kept) THEN kept[k] ELSE e[k - Len(kept)]
    BY <1>4, <1>5, ConcatProperties
  <2> QED BY <1>3, <2>1, LenProperties
<1>7. DOMAIN e = 1..c
  BY <1>3, <1>5, LenProperties
<1>8. ToSet(all) = ToSet(kept) \cup ToSet(e)
  <2>1. \A k \in DOMAIN kept : k \in DOMAIN all /\ all[k] = kept[k]
    BY <1>1, <1>3, <1>6
  <2>2. \A k \in DOMAIN e : (k + Len(kept)) \in DOMAIN all /\ all[k + Len(kept)] = e[k]
    BY <1>1, <1>3, <1>6, <1>7
  <2>3. \A k \in DOMAIN all : \/ k \in DOMAIN kept /\ all[k] = kept[k]
                              \/ (k - Len(kept)) \in DOMAIN e /\ all[k] = e[k - Len(kept)]
    BY <1>1, <1>3, <1>6, <1>7
  <2> QED BY <2>1, <2>2, <2>3 DEF ToSet
<1>9. ASSUME NEW r \in ToSet(page), r = Blank \/ r \notin ToSet(kept)
      PROVE  r \in ToSet(e) /\ S # {}
  <2>1. PICK k \in DOMAIN page : page[k] = r /\ \A j \in 1..(k - 1) : page[j] # r
    BY FirstPlace
  <2>2. k \in S
    BY <1>9, <2>1 DEF S, New
  <2> QED BY <2>1, <2>2, <1>3
<1>10. ToSet(all) = ToSet(kept) \cup ToSet(page)
  <2>1. ToSet(e) \subseteq ToSet(page)
    BY <1>2, <1>3 DEF ToSet
  <2> QED BY <1>8, <1>9, <2>1
<1>11. ASSUME OnceEach(kept) PROVE OnceEach(all)
  <2> SUFFICES ASSUME NEW j \in DOMAIN all, NEW k \in DOMAIN all, j < k, all[j] = all[k]
               PROVE  all[j] = Blank
    BY <1>3, <1>1, <1>6 DEF OnceEach
  <2>1. CASE k <= Len(kept)
    BY <2>1, <1>1, <1>3, <1>6, <1>11 DEF OnceEach
  <2>2. CASE j <= Len(kept) /\ k > Len(kept)
    <3>1. all[j] \in ToSet(kept) /\ all[k] = e[k - Len(kept)] /\ (k - Len(kept)) \in 1..c
      BY <2>2, <1>1, <1>3, <1>6 DEF ToSet
    <3>2. PICK q \in S : all[k] = page[q]
      BY <3>1, <1>3, <1>7 DEF ToSet
    <3> QED BY <3>1, <3>2 DEF S, New
  <2>3. CASE j > Len(kept) /\ k > Len(kept)
    <3> DEFINE m == j - Len(kept)
               n == k - Len(kept)
    <3>1. m \in 1..c /\ n \in 1..c /\ m < n /\ all[j] = e[m] /\ all[k] = e[n]
      BY <2>3, <1>1, <1>3, <1>6
    <3>2. PICK p \in S, q \in S : p < q /\ e[m] = page[p] /\ e[n] = page[q]
      BY <3>1, <1>3
    <3>3. p \in 1..(q - 1)
      BY <3>2, <1>1, <1>2
    <3> QED BY <3>1, <3>2, <3>3 DEF S, New
  <2> QED BY <2>1, <2>2, <2>3, <1>1, <1>3, <1>6
<1> QED BY <1>1, <1>3, <1>6, <1>9, <1>10, <1>11 DEF all

-----------------------------------------------------------------------------
(* The inductive invariant *)

(* Between two pages each page so far has brought a record, and no bound of *)
(* the loop is reached.                                                     *)
Bounded ==
    stop = "none" =>
        /\ pages <= Len(items) /\ Len(items) < Ceiling
        /\ pages = 0 => items = <<>> /\ start = ScanStart(ask.declared)
        /\ ~Exhaustive /\ pages > 0 => Len(items) < EffectiveLimit

Seen(m, n) == {catalog[k] : k \in (m..n) \cap DOMAIN catalog}

(* While the catalog holds still, between two pages: there are no more      *)
(* records than positions asked for, and how far the full pages have come.  *)
(* A server that clamps 0 to 1 has come one position less far, unless it    *)
(* has served one page only; one that ignores start, never past the first.  *)
Covered ==
    stop = "none" /\ drift = 0 =>
        /\ start >= ScanStart(ask.declared)
        /\ Len(items) <= start - ScanStart(ask.declared)
        /\ pages > 0 /\ server.base = "zero" =>
              /\ start <= Len(catalog)
              /\ ToSet(items) = Seen(ScanStart(ask.declared) + 1, start)
        /\ pages > 0 /\ server.base = "one" =>
              /\ start - 1 <= Len(catalog)
              /\ Seen(1, start - 1) \subseteq ToSet(items)
              /\ ToSet(items) \subseteq Seen(1, start)
        /\ pages > 0 /\ server.base = "stuck" =>
              Count <= Len(catalog) /\ Junk \notin Seen(1, Count)

SInv == /\ STypeOK /\ Bounded /\ WorkBounded /\ Covered /\ OnceEach(items)
        /\ NoIdTwice /\ NoSilentLoss /\ GapFree /\ CappedOrWhole

-----------------------------------------------------------------------------
(* Types *)

LEMMA CatalogSeq ==
    ASSUME NEW c
    PROVE  c \in Catalogs <=> c \in Seq(Kinds) /\ Len(c) <= MaxRecords
<1>1. ASSUME c \in Catalogs PROVE c \in Seq(Kinds) /\ Len(c) <= MaxRecords
  <2>1. PICK n \in 0..MaxRecords : c \in [1..n -> Kinds]
    BY <1>1 DEF Catalogs, Kinds
  <2>2. n \in Nat /\ n <= MaxRecords
    BY <2>1, ScanAssumption
  <2>3. c \in Seq(Kinds)
    BY <2>1, <2>2, SeqDef
  <2>4. Len(c) = n
    BY <2>1, <2>2, <2>3, LenProperties
  <2> QED BY <2>2, <2>3, <2>4
<1>2. ASSUME c \in Seq(Kinds), Len(c) <= MaxRecords PROVE c \in Catalogs
  <2>1. Len(c) \in 0..MaxRecords /\ c \in [1..Len(c) -> Kinds]
    BY <1>2, LenProperties, ScanAssumption
  <2> QED BY <2>1 DEF Catalogs, Kinds
<1> QED BY <1>1, <1>2

LEMMA AskIs == ASSUME STypeOK
               PROVE  EffectiveLimit \in Int /\ Count \in Nat \ {0} /\ (Exhaustive => EffectiveLimit = Count)
<1>1. ask.cap \in Nat \ {0} /\ (~Exhaustive => ask.limit \in Int)
  <2>1. ask.cap \in Caps /\ ask.limit \in Limits
    BY DEF STypeOK
  <2> QED BY <2>1, ScanAssumption DEF Exhaustive
<1>2. EffectiveLimit \in Int /\ (Exhaustive => EffectiveLimit = ask.cap)
  BY <1>1 DEF EffectiveLimit
<1> QED BY <1>1, <1>2 DEF Count

-----------------------------------------------------------------------------
(* One turn of the loop *)

First == FirstServed(start)
End == First + Count - 1
Got == Len(Page(start, Count))

(* What came, told by positions: a full page is one that the catalog fills, *)
(* a short one reaches its end unless something in it was passed over.      *)
Turn ==
    /\ First \in Nat \ {0} /\ Len(catalog) \in Nat
    /\ Got \in 0..Count /\ Page(start, Count) \in Seq(Kept)
    /\ Got <= IF First <= Len(catalog) THEN Len(catalog) - First + 1 ELSE 0
    /\ ToSet(Page(start, Count)) = Seen(First, End) \ {Junk}
    /\ Got = Count => End <= Len(catalog) /\ Junk \notin Seen(First, End)
    /\ Got < Count /\ Junk \notin Seen(First, End) => End > Len(catalog)

LEMMA TurnHolds == ASSUME STypeOK PROVE Turn
<1> DEFINE raw  == Served(start, Count)
           upto == IF End < Len(catalog) THEN End ELSE Len(catalog)
<1>1. /\ catalog \in Seq(Kinds) /\ server.base \in Bases
      /\ start \in Nat /\ Count \in Nat \ {0}
  BY CatalogSeq, AskIs DEF STypeOK
<1>2. /\ First \in Nat \ {0}
      /\ Len(raw) = IF First <= upto THEN upto - First + 1 ELSE 0
      /\ ToSet(raw) = {catalog[k] : k \in First..upto}
  BY <1>1, ServedFrom DEF First, End
<1>3. /\ Page(start, Count) \in Seq(Kept) /\ Got \in 0..Len(raw)
      /\ ToSet(Page(start, Count)) = ToSet(raw) \ {Junk}
      /\ Got = Len(raw) <=> Junk \notin ToSet(raw)
  BY <1>1, PageOf DEF Got
<1>4. Len(catalog) \in Nat /\ DOMAIN catalog = 1..Len(catalog)
  BY <1>1, LenProperties
<1>5. End \in Nat /\ End = First + Count - 1
  BY <1>1, <1>2 DEF End
<1>6. First..upto = (First..End) \cap DOMAIN catalog
  BY <1>2, <1>4, <1>5
<1>7. ToSet(raw) = Seen(First, End)
  BY <1>2, <1>6 DEF Seen
<1>8. Len(raw) \in 0..Count /\ (Len(raw) = Count <=> End <= Len(catalog))
  BY <1>1, <1>2, <1>4, <1>5
<1> HIDE DEF raw
<1>9. Got \in 0..Count
  BY <1>1, <1>3, <1>8
<1>10. Got <= IF First <= Len(catalog) THEN Len(catalog) - First + 1 ELSE 0
  BY <1>1, <1>2, <1>3, <1>4, <1>5
<1>11. Got = Count => End <= Len(catalog) /\ Junk \notin Seen(First, End)
  BY <1>1, <1>3, <1>7, <1>8
<1>12. Got < Count /\ Junk \notin Seen(First, End) => End > Len(catalog)
  BY <1>1, <1>3, <1>4, <1>5, <1>7, <1>8
<1> QED BY <1>2, <1>3, <1>4, <1>7, <1>9, <1>10, <1>11, <1>12 DEF Turn

(* What becomes of it.                                                      *)
Took ==
    /\ items' \in Seq(Kept) /\ Len(items) \in Nat
    /\ Len(items') \in Len(items)..(Len(items) + Got)
    /\ ToSet(items') = ToSet(items) \cup ToSet(Page(start, Count))
    /\ OnceEach(items) => OnceEach(items')
    /\ (\E r \in ToSet(Page(start, Count)) : r = Blank \/ r \notin ToSet(items))
          => Len(items') > Len(items)
    /\ stop' = StopReason(Got, Len(items), Len(items'))
    /\ start' = IF stop' = "none" THEN start + Count ELSE start
    /\ pages' = pages + 1
    /\ total' = ReportedTotal
    /\ result' = IF stop' = "none" THEN result
                 ELSE [items      |-> Truncate(items'),
                       capped     |-> \/ stop' = "capped"
                                      \/ ~Exhaustive /\ Len(items') > EffectiveLimit,
                       incomplete |-> Incomplete(stop', Len(items'), total')]
    /\ stop = "none" /\ pages < MaxPages
    /\ UNCHANGED <<catalog, drift, server, ask>>

LEMMA TookHolds == ASSUME STypeOK, NextPage PROVE Took
<1> DEFINE page == Page(start, Count)
<1>1. page \in Seq(Kept) /\ items \in Seq(Kept)
  BY TurnHolds DEF Turn, STypeOK, Kept
<1>2. items' = Keep(items, page)
  BY DEF NextPage
<1>3. /\ items' \in Seq(Kept)
      /\ Len(items') \in Len(items)..(Len(items) + Len(page))
      /\ ToSet(items') = ToSet(items) \cup ToSet(page)
      /\ OnceEach(items) => OnceEach(items')
      /\ (\E r \in ToSet(page) : r = Blank \/ r \notin ToSet(items)) => Len(items') > Len(items)
  BY <1>1, <1>2, KeepOf
<1>4. Len(items) \in Nat
  BY <1>1, LenProperties
<1> QED BY <1>3, <1>4 DEF NextPage, Took, Got

(* The result is a prefix of what was kept, all of it for an exhaustive     *)
(* scan, and never longer than a limit that is not negative.                *)
LEMMA TruncateIs ==
    ASSUME STypeOK, NEW all \in Seq(Kept)
    PROVE  /\ Truncate(all) \in Seq(Kept)
           /\ Len(Truncate(all)) \in 0..Len(all)
           /\ \A k \in 1..Len(Truncate(all)) : Truncate(all)[k] = all[k]
           /\ Exhaustive \/ Len(all) <= EffectiveLimit => Truncate(all) = all
           /\ ~Exhaustive /\ Len(all) > EffectiveLimit =>
                 Len(Truncate(all)) =
                     IF EffectiveLimit >= 0 THEN EffectiveLimit
                     ELSE IF Len(all) + EffectiveLimit > 0 THEN Len(all) + EffectiveLimit ELSE 0
<1>1. Len(all) \in Nat /\ EffectiveLimit \in Int
  BY LenProperties, AskIs
<1>2. CASE Exhaustive \/ Len(all) <= EffectiveLimit
  BY <1>1, <1>2 DEF Truncate
<1>3. CASE ~Exhaustive /\ Len(all) > EffectiveLimit
  <2> DEFINE n == IF EffectiveLimit >= 0 THEN EffectiveLimit ELSE Len(all) + EffectiveLimit
  <2>1. n \in Int /\ n <= Len(all)
    BY <1>1, <1>3
  <2>2. Truncate(all) = SubSeq(all, 1, n)
    BY <1>1, <1>3 DEF Truncate
  <2> HIDE DEF n
  <2>3. \A k \in 1..n : all[k] \in Kept
    BY <1>1, <2>1, ElementOfSeq
  <2>4. /\ SubSeq(all, 1, n) \in Seq(Kept)
        /\ Len(SubSeq(all, 1, n)) = IF 1 <= n THEN n - 1 + 1 ELSE 0
        /\ \A k \in 1..(n - 1 + 1) : SubSeq(all, 1, n)[k] = all[1 + k - 1]
    BY <2>1, <2>3, SubSeqProperties
  <2>5. Len(Truncate(all)) = IF 1 <= n THEN n ELSE 0
    BY <2>1, <2>2, <2>4
  <2>6. \A k \in 1..Len(Truncate(all)) : Truncate(all)[k] = all[k]
    BY <2>1, <2>2, <2>4, <2>5
  <2> QED BY <1>1, <1>3, <2>1, <2>2, <2>4, <2>5, <2>6 DEF n
<1> QED BY <1>1, <1>2, <1>3

LEMMA TypesInit == SInit => STypeOK
<1> SUFFICES ASSUME SInit PROVE STypeOK
  OBVIOUS
<1>1. items \in Seq(Ids \cup {Blank}) /\ items = <<>> /\ NoResult.items = <<>>
  BY EmptySeq DEF SInit, NoResult
<1>2. result \in [items : Seq(Ids \cup {Blank}), capped : BOOLEAN, incomplete : BOOLEAN]
  BY <1>1 DEF SInit, NoResult
<1>3. ToSet(result.items) \subseteq ToSet(items)
  BY <1>1 DEF SInit
<1> QED BY <1>1, <1>2, <1>3, ScanAssumption DEF SInit, STypeOK, ScanStart

LEMMA TypesPage == ASSUME STypeOK, NextPage PROVE STypeOK'
<1>1. Took /\ Turn
  BY TookHolds, TurnHolds
<1>2. items' \in Seq(Ids \cup {Blank}) /\ Len(items') \in Nat
  BY <1>1, LenProperties DEF Took, Kept
<1>3. total' \in Nat \cup {Unreported}
  BY <1>1 DEF Took, Turn, ReportedTotal, STypeOK, Totals
<1>4. stop' \in {"none", "short_page", "capped", "stalled", "ceiling", "raised"}
  BY <1>1 DEF Took, StopReason
<1>5. start' \in Nat /\ pages' \in 0..MaxPages
  BY <1>1, AskIs, ScanAssumption DEF Took, STypeOK
<1>6. result' \in [items : Seq(Ids \cup {Blank}), capped : BOOLEAN, incomplete : BOOLEAN]
      /\ ToSet(result'.items) \subseteq ToSet(items')
  <2>1. CASE stop' = "none"
    BY <2>1, <1>1 DEF Took, STypeOK
  <2>2. CASE stop' # "none"
    <3> DEFINE t == Truncate(items')
    <3>1. /\ t \in Seq(Kept) /\ Len(t) \in 0..Len(items')
          /\ \A k \in 1..Len(t) : t[k] = items'[k]
      BY <1>1, TruncateIs DEF Took
    <3>2. result'.items = t /\ result' \in [items : {t}, capped : BOOLEAN, incomplete : BOOLEAN]
      <4>1. Incomplete(stop', Len(items'), total') \in BOOLEAN
        BY DEF Incomplete
      <4> QED BY <1>1, <2>2, <4>1 DEF Took
    <3> HIDE DEF t
    <3>3. DOMAIN t = 1..Len(t) /\ DOMAIN items' = 1..Len(items')
      BY <1>1, <3>1, LenProperties DEF Took
    <3>4. ToSet(t) \subseteq ToSet(items')
      BY <1>2, <3>1, <3>3 DEF ToSet
    <3> QED BY <3>1, <3>2, <3>4 DEF Kept
  <2> QED BY <2>1, <2>2
<1> QED BY <1>1, <1>2, <1>3, <1>4, <1>5, <1>6 DEF Took, STypeOK

(* Records come and go, and the catalog stays one.                          *)
LEMMA TypesDrift == ASSUME STypeOK, Drift PROVE STypeOK'
<1>1. catalog \in Seq(Kinds) /\ Len(catalog) \in Nat /\ Len(catalog) <= MaxRecords
  BY CatalogSeq, LenProperties DEF STypeOK
<1>2. \A k \in 1..Len(catalog) : catalog[k] \in Kinds
  BY <1>1, ElementOfSeq
<1>3. ASSUME NEW m \in Nat, m <= Len(catalog) + 1, NEW n \in Nat, n <= Len(catalog), m > 0
      PROVE  /\ SubSeq(catalog, m, n) \in Seq(Kinds)
             /\ Len(SubSeq(catalog, m, n)) = IF m <= n THEN n - m + 1 ELSE 0
  <2>1. \A k \in m..n : catalog[k] \in Kinds
    BY <1>2, <1>1, <1>3
  <2> QED BY <2>1, <1>3, SubSeqProperties
<1>4. ASSUME NEW k \in DOMAIN catalog, catalog' = RemoveAt(catalog, k)
      PROVE  catalog' \in Catalogs
  <2>1. k \in 1..Len(catalog)
    BY <1>1, LenProperties
  <2>2. SubSeq(catalog, 1, k - 1) \in Seq(Kinds) /\ Len(SubSeq(catalog, 1, k - 1)) = k - 1
    BY <1>1, <2>1, <1>3
  <2>3. SubSeq(catalog, k + 1, Len(catalog)) \in Seq(Kinds)
        /\ Len(SubSeq(catalog, k + 1, Len(catalog))) = Len(catalog) - k
    BY <1>1, <2>1, <1>3
  <2> DEFINE left  == SubSeq(catalog, 1, k - 1)
             right == SubSeq(catalog, k + 1, Len(catalog))
  <2>4. catalog' = left \o right
    BY <1>4 DEF RemoveAt
  <2> HIDE DEF left, right
  <2>5. left \o right \in Seq(Kinds) /\ Len(left \o right) = Len(left) + Len(right)
    BY <2>2, <2>3, ConcatProperties DEF left, right
  <2>6. Len(left) = k - 1 /\ Len(right) = Len(catalog) - k
    BY <2>2, <2>3 DEF left, right
  <2>7. catalog' \in Seq(Kinds) /\ Len(catalog') <= MaxRecords
    BY <1>1, <2>1, <2>4, <2>5, <2>6, ScanAssumption
  <2> QED BY <2>7, CatalogSeq
<1>5. ASSUME Len(catalog) < MaxRecords, NEW k \in 1..(Len(catalog) + 1), NEW r \in Ids \cup {Blank},
             catalog' = InsertAt(catalog, k, r)
      PROVE  catalog' \in Catalogs
  <2>1. SubSeq(catalog, 1, k - 1) \in Seq(Kinds) /\ Len(SubSeq(catalog, 1, k - 1)) = k - 1
    BY <1>1, <1>3
  <2>2. SubSeq(catalog, k, Len(catalog)) \in Seq(Kinds)
        /\ Len(SubSeq(catalog, k, Len(catalog))) = Len(catalog) - k + 1
    BY <1>1, <1>3
  <2>3. <<r>> \in Seq(Kinds) /\ Len(<<r>>) = 1
    BY DEF Kinds
  <2>4. /\ SubSeq(catalog, 1, k - 1) \o <<r>> \in Seq(Kinds)
        /\ Len(SubSeq(catalog, 1, k - 1) \o <<r>>) = k
    BY <1>1, <2>1, <2>3, ConcatProperties
  <2> DEFINE left  == SubSeq(catalog, 1, k - 1) \o <<r>>
             right == SubSeq(catalog, k, Len(catalog))
  <2>5. catalog' = left \o right
    BY <1>5 DEF InsertAt
  <2> HIDE DEF left, right
  <2>6. left \o right \in Seq(Kinds) /\ Len(left \o right) = Len(left) + Len(right)
    BY <2>2, <2>4, ConcatProperties DEF left, right
  <2>7. Len(left) = k /\ Len(right) = Len(catalog) - k + 1
    BY <2>2, <2>4 DEF left, right
  <2>8. catalog' \in Seq(Kinds) /\ Len(catalog') <= MaxRecords
    BY <1>1, <1>5, <2>5, <2>6, <2>7, ScanAssumption
  <2> QED BY <2>8, CatalogSeq
<1>6. catalog' \in Catalogs
  BY <1>4, <1>5 DEF Drift
<1>7. drift' \in 0..MaxDrift
  BY ScanAssumption DEF Drift, STypeOK
<1> QED BY <1>6, <1>7 DEF Drift, STypeOK

LEMMA TypesNext == ASSUME STypeOK, [SNext]_svars PROVE STypeOK'
<1>1. CASE NextPage
  BY <1>1, TypesPage
<1>2. CASE RequestRaises
  BY <1>2 DEF RequestRaises, STypeOK
<1>3. CASE Drift
  BY <1>3, TypesDrift
<1>4. CASE UNCHANGED svars
  BY <1>4 DEF svars, STypeOK
<1> QED BY <1>1, <1>2, <1>3, <1>4 DEF SNext

-----------------------------------------------------------------------------
(* Work *)

(* A turn that is not the last one was a full page and brought a record.    *)
LEMMA GoesOn ==
    ASSUME Took, STypeOK, stop' = "none"
    PROVE  /\ Got >= Count /\ Len(items') > Len(items) /\ Len(items') < Ceiling
           /\ ~Exhaustive => Len(items') < EffectiveLimit
<1>1. Len(items') \in Int /\ Len(items) \in Int /\ Got \in Int /\ Count \in Int /\ EffectiveLimit \in Int
  BY AskIs, TurnHolds, LenProperties DEF Took, Turn
<1>2. StopReason(Got, Len(items), Len(items')) = "none"
  BY DEF Took
<1>3. Len(items') >= Len(items)
  BY <1>1 DEF Took
<1> QED BY <1>1, <1>2, <1>3, ScanAssumption DEF StopReason

LEMMA BoundedPage ==
    ASSUME STypeOK, Bounded, WorkBounded, NextPage PROVE Bounded' /\ WorkBounded'
<1>1. Took /\ Turn
  BY TookHolds, TurnHolds
<1>2. /\ pages \in Nat /\ pages' = pages + 1 /\ stop = "none"
      /\ Len(items) \in Nat /\ Len(items') \in Nat /\ Len(items') <= Len(items) + Count
      /\ Count \in Nat /\ Ceiling \in Nat /\ EffectiveLimit \in Int
      /\ UNCHANGED ask
  BY <1>1, AskIs, ScanAssumption, LenProperties DEF Took, Turn, STypeOK
<1>3. pages <= Len(items) /\ Len(items) < Ceiling
  BY <1>2 DEF Bounded
<1>4. Count' = Count /\ Exhaustive' = Exhaustive /\ EffectiveLimit' = EffectiveLimit
  BY <1>2 DEF Count, EffectiveLimit, Exhaustive
<1>5. stop' = "none" => /\ Len(items') > Len(items) /\ Len(items') < Ceiling
                        /\ ~Exhaustive => Len(items') < EffectiveLimit
  BY <1>1, GoesOn
<1>6. Bounded'
  BY <1>2, <1>3, <1>4, <1>5 DEF Bounded
<1>7. WorkBounded'
  BY <1>2, <1>3, <1>4, <1>5 DEF WorkBounded
<1> QED BY <1>6, <1>7

LEMMA BoundedNext ==
    ASSUME STypeOK, Bounded, WorkBounded, [SNext]_svars PROVE Bounded' /\ WorkBounded'
<1>1. CASE NextPage
  BY <1>1, BoundedPage
<1>2. CASE RequestRaises
  BY <1>2 DEF RequestRaises, Bounded, WorkBounded, Count, EffectiveLimit, Exhaustive
<1>3. CASE Drift
  BY <1>3 DEF Drift, Bounded, WorkBounded, Count, EffectiveLimit, Exhaustive
<1>4. CASE UNCHANGED svars
  BY <1>4 DEF svars, Bounded, WorkBounded, Count, EffectiveLimit, Exhaustive
<1> QED BY <1>1, <1>2, <1>3, <1>4 DEF SNext

-----------------------------------------------------------------------------
(* No id twice *)

LEMMA OnceNext ==
    ASSUME STypeOK, OnceEach(items), NoIdTwice, [SNext]_svars
    PROVE  OnceEach(items)' /\ NoIdTwice'
<1>1. CASE NextPage
  <2>1. Took
    BY <1>1, TookHolds
  <2>2. OnceEach(items')
    BY <2>1 DEF Took
  <2>3. CASE stop' = "none"
    BY <2>1, <2>2, <2>3 DEF Took, NoIdTwice
  <2>4. CASE stop' # "none"
    <3> DEFINE t == Truncate(items')
    <3>1. result'.items = t /\ items' \in Seq(Kept)
      BY <2>1, <2>4 DEF Took
    <3>2. t \in Seq(Kept) /\ Len(t) \in 0..Len(items') /\ \A k \in 1..Len(t) : t[k] = items'[k]
      BY <3>1, TruncateIs
    <3> HIDE DEF t
    <3>3. DOMAIN t = 1..Len(t) /\ DOMAIN items' = 1..Len(items') /\ Len(items') \in Nat
      BY <3>1, <3>2, LenProperties
    <3>4. \A k \in DOMAIN t : k \in DOMAIN items' /\ t[k] = items'[k]
      BY <3>2, <3>3
    <3>5. OnceEach(t)
      BY <2>2, <3>4 DEF OnceEach
    <3> QED BY <2>2, <3>1, <3>5 DEF OnceEach, NoIdTwice
  <2> QED BY <2>3, <2>4
<1>2. CASE RequestRaises
  BY <1>2 DEF RequestRaises, OnceEach, NoIdTwice
<1>3. CASE Drift
  BY <1>3 DEF Drift, OnceEach, NoIdTwice
<1>4. CASE UNCHANGED svars
  BY <1>4 DEF svars, OnceEach, NoIdTwice
<1> QED BY <1>1, <1>2, <1>3, <1>4 DEF SNext

-----------------------------------------------------------------------------
(* How far a scan has come *)

LEMMA SeenTogether ==
    ASSUME NEW a \in Int, NEW b \in Int, NEW c \in Int, NEW d \in Int, a <= d, b <= c, d = b + 1
    PROVE  Seen(a, b) \cup Seen(d, c) = Seen(a, c)
<1>1. (a..b) \cup (d..c) = a..c
  OBVIOUS
<1> QED BY <1>1 DEF Seen

LEMMA SeenGrows ==
    ASSUME NEW a \in Int, NEW b \in Int, NEW c \in Int, NEW d \in Int, c <= a, b <= d
    PROVE  Seen(a, b) \subseteq Seen(c, d)
<1>1. a..b \subseteq c..d
  OBVIOUS
<1> QED BY <1>1 DEF Seen

LEMMA SeenFurther ==
    ASSUME NEW f \in Nat \ {0}, NEW e \in Nat, NEW s \in Nat, NEW n \in Nat, NEW l \in Nat,
           f <= e + 1, n <= e + 1, e <= n, s <= n, e <= l
    PROVE  /\ n - 1 <= l
           /\ Seen(1, n - 1) \subseteq Seen(1, f - 1) \cup Seen(f, e)
           /\ Seen(f, e) \subseteq Seen(1, n)
           /\ Seen(1, s) \subseteq Seen(1, n)
<1>1. 1..(n - 1) \subseteq (1..(f - 1)) \cup (f..e) /\ f..e \subseteq 1..n /\ 1..s \subseteq 1..n
  OBVIOUS
<1>2. n - 1 <= l
  OBVIOUS
<1> QED BY <1>1, <1>2 DEF Seen

LEMMA SeenAll == ASSUME STypeOK PROVE Seen(1, Len(catalog)) = ToSet(catalog)
<1>1. DOMAIN catalog = 1..Len(catalog)
  BY CatalogSeq, LenProperties DEF STypeOK
<1> QED BY <1>1 DEF Seen, ToSet

(* What the numbers are.                                                    *)
Numbers ==
    /\ start \in Nat /\ Count \in Nat \ {0} /\ Len(catalog) \in Nat /\ Len(items) \in Nat
    /\ ScanStart(ask.declared) \in 0..1 /\ pages \in Nat
    /\ First \in Nat \ {0} /\ End = First + Count - 1 /\ Got \in 0..Count
    /\ server.base = "zero" => First = start + 1
    /\ server.base = "one" => First = IF start = 0 THEN 1 ELSE start
    /\ server.base = "stuck" => First = 1
    /\ server.base \in {"zero", "one", "stuck"}

LEMMA NumbersAre == ASSUME STypeOK PROVE Numbers
<1>1. items \in Seq(Kept)
  BY DEF STypeOK, Kept
<1> QED BY <1>1, TurnHolds, AskIs, LenProperties, ScanAssumption
        DEF Turn, STypeOK, Numbers, End, First, FirstServed, ScanStart, Bases

(* Under a base the scan knows, everything before the next page is kept,    *)
(* and nothing from beyond start.                                           *)
LEMMA Behind ==
    ASSUME STypeOK, Bounded, Covered, stop = "none", drift = 0,
           \/ server.base = "one"
           \/ server.base = "zero" /\ ScanStart(ask.declared) = 0
    PROVE  Seen(1, First - 1) \subseteq ToSet(items) /\ ToSet(items) \subseteq Seen(1, start)
<1>1. Numbers
  BY NumbersAre
<1>2. CASE pages = 0
  <2>1. ToSet(items) = {} /\ start = ScanStart(ask.declared)
    BY <1>2 DEF Bounded, ToSet
  <2>2. First = 1
    BY <1>1, <2>1 DEF Numbers
  <2>3. Seen(1, First - 1) = {}
    BY <2>2 DEF Seen
  <2> QED BY <2>1, <2>3
<1>3. CASE pages > 0 /\ server.base = "zero"
  BY <1>1, <1>3 DEF Covered, Numbers
<1>4. CASE pages > 0 /\ server.base = "one"
  <2>1. Seen(1, start - 1) \subseteq ToSet(items) /\ ToSet(items) \subseteq Seen(1, start)
    BY <1>4 DEF Covered
  <2>2. CASE start = 0
    <3>1. Seen(1, First - 1) = {}
      BY <1>1, <1>4, <2>2 DEF Numbers, Seen
    <3> QED BY <2>1, <3>1
  <2>3. CASE start # 0
    BY <1>1, <1>4, <2>1, <2>3 DEF Numbers
  <2> QED BY <2>2, <2>3
<1> QED BY <1>1, <1>2, <1>3, <1>4 DEF Numbers

LEMMA CoveredPage == ASSUME SInv, NextPage PROVE Covered'
<1> SUFFICES ASSUME stop' = "none", drift = 0 PROVE Covered'
  BY DEF Covered, NextPage
<1> DEFINE s0 == ScanStart(ask.declared)
<1>1. Took /\ Turn /\ Numbers
  BY TookHolds, TurnHolds, NumbersAre DEF SInv
<1>2. Got = Count
  BY <1>1, GoesOn DEF SInv, Numbers
<1>3. /\ stop = "none" /\ UNCHANGED <<catalog, server, ask>>
      /\ start' = start + Count /\ pages' = pages + 1
      /\ Len(items') \in Nat /\ Len(items') <= Len(items) + Count
      /\ Count' = Count /\ ScanStart(ask'.declared) = s0
  BY <1>1, <1>2 DEF Took, Numbers, Count, EffectiveLimit, Exhaustive, ScanStart
<1>4. start >= s0 /\ Len(items) <= start - s0
  BY <1>3 DEF SInv, Covered
<1>5. End <= Len(catalog) /\ Junk \notin Seen(First, End)
      /\ ToSet(items') = ToSet(items) \cup Seen(First, End)
  BY <1>1, <1>2 DEF Turn, Took
<1>6. pages = 0 => ToSet(items) = {} /\ start = s0
  BY <1>3 DEF SInv, Bounded, ToSet
<1>7. start' >= s0 /\ Len(items') <= start' - s0
  BY <1>1, <1>3, <1>4 DEF Numbers
<1>8. ASSUME server.base = "zero"
      PROVE  start' <= Len(catalog) /\ ToSet(items') = Seen(s0 + 1, start')
  <2>1. First = start + 1 /\ End = start'
    BY <1>1, <1>3, <1>8 DEF Numbers
  <2>2. ToSet(items) = Seen(s0 + 1, start)
    <3>1. CASE pages = 0
      <4>1. Seen(s0 + 1, s0) = {}
        BY <1>1 DEF Numbers, Seen
      <4> QED BY <1>6, <3>1, <4>1
    <3>2. CASE pages # 0
      BY <1>1, <1>3, <1>8, <3>2 DEF SInv, Covered, Numbers
    <3> QED BY <3>1, <3>2
  <2>3. Seen(s0 + 1, start) \cup Seen(start + 1, start') = Seen(s0 + 1, start')
    <3>1. /\ s0 + 1 \in Int /\ start \in Int /\ start + 1 \in Int /\ start' \in Int
          /\ s0 + 1 <= start + 1 /\ start <= start'
      BY <1>1, <1>3, <1>4 DEF Numbers
    <3> HIDE DEF s0
    <3> QED BY <3>1, SeenTogether
  <2> QED BY <1>5, <2>1, <2>2, <2>3
<1>9. ASSUME server.base = "one"
      PROVE  /\ start' - 1 <= Len(catalog)
             /\ Seen(1, start' - 1) \subseteq ToSet(items')
             /\ ToSet(items') \subseteq Seen(1, start')
  <2>1. Seen(1, First - 1) \subseteq ToSet(items) /\ ToSet(items) \subseteq Seen(1, start)
    BY <1>3, <1>9, Behind, <1>1 DEF SInv, Numbers
  <2>2. /\ First \in Nat \ {0} /\ End \in Nat /\ start' \in Nat /\ start \in Nat /\ Len(catalog) \in Nat
        /\ First <= End + 1 /\ start' <= End + 1 /\ End <= start' /\ start <= start' /\ End <= Len(catalog)
    BY <1>1, <1>3, <1>5, <1>9 DEF Numbers
  <2>3. /\ start' - 1 <= Len(catalog)
        /\ Seen(1, start' - 1) \subseteq Seen(1, First - 1) \cup Seen(First, End)
        /\ Seen(First, End) \subseteq Seen(1, start')
        /\ Seen(1, start) \subseteq Seen(1, start')
    BY <2>2, SeenFurther
  <2>4. Seen(1, start' - 1) \subseteq ToSet(items')
    BY <1>5, <2>1, <2>3
  <2>5. ToSet(items') \subseteq Seen(1, start')
    BY <1>5, <2>1, <2>3
  <2> QED BY <2>3, <2>4, <2>5
<1>10. ASSUME server.base = "stuck"
       PROVE  Count <= Len(catalog) /\ Junk \notin Seen(1, Count)
  BY <1>1, <1>5, <1>10 DEF Numbers
<1>11. \A m, n : Seen(m, n)' = {catalog[k] : k \in (m..n) \cap DOMAIN catalog}
  BY <1>3 DEF Seen
<1> HIDE DEF s0
<1> QED BY <1>3, <1>7, <1>8, <1>9, <1>10 DEF Covered, Seen

LEMMA CoveredNext == ASSUME SInv, [SNext]_svars PROVE Covered'
<1>1. CASE NextPage
  BY <1>1, CoveredPage
<1>2. CASE RequestRaises
  BY <1>2 DEF RequestRaises, Covered
<1>3. CASE Drift
  BY <1>3 DEF Drift, Covered, SInv, STypeOK
<1>4. CASE UNCHANGED svars
  BY <1>4 DEF svars, SInv, Covered, Seen, Count, EffectiveLimit, Exhaustive, ScanStart
<1> QED BY <1>1, <1>2, <1>3, <1>4 DEF SNext

-----------------------------------------------------------------------------
(* What a returned scan has *)

(* Whatever is before a page and in it reaches the end of the catalog once  *)
(* the page does.                                                           *)
LEMMA Reached ==
    ASSUME SInv, NextPage, Seen(1, First - 1) \subseteq ToSet(items), Len(catalog) <= End
    PROVE  Records(catalog) \subseteq ToSet(items')
<1>1. Took /\ Turn /\ Numbers
  BY TookHolds, TurnHolds, NumbersAre DEF SInv
<1>2. First \in Nat \ {0} /\ End \in Nat /\ Len(catalog) \in Nat /\ First <= End + 1
  BY <1>1 DEF Numbers
<1>3. Seen(1, Len(catalog)) \subseteq Seen(1, First - 1) \cup Seen(First, End)
  <2>1. 1..Len(catalog) \subseteq (1..(First - 1)) \cup (First..End)
    BY <1>2
  <2> QED BY <2>1 DEF Seen
<1>4. ToSet(items') = ToSet(items) \cup (Seen(First, End) \ {Junk})
  BY <1>1 DEF Took, Turn
<1> QED BY <1>3, <1>4, SeenAll DEF SInv, Records

LEMMA SeenWithin == ASSUME NEW m, NEW n PROVE Seen(m, n) \subseteq ToSet(catalog)
BY DEF Seen, ToSet

(* A short page ends a scan from a known base at the end of the catalog.    *)
LEMMA EndReached ==
    ASSUME SInv, NextPage, drift = 0, BaseKnown, Junk \notin ToSet(catalog), Got < Count
    PROVE  ToSet(items') = ToSet(catalog)
<1>1. Took /\ Turn /\ Numbers /\ stop = "none"
  BY TookHolds, TurnHolds, NumbersAre DEF SInv, Took
<1>2. Seen(1, First - 1) \subseteq ToSet(items) /\ ToSet(items) \subseteq Seen(1, start)
  BY <1>1, Behind DEF SInv, BaseKnown, ScanStart
<1>3. Junk \notin Seen(First, End)
  BY SeenWithin
<1>4. Len(catalog) <= End
  BY <1>1, <1>3 DEF Turn, Numbers
<1>5. Records(catalog) \subseteq ToSet(items')
  BY <1>2, <1>4, Reached
<1>6. ToSet(items') \subseteq ToSet(catalog)
  BY <1>1, <1>2, SeenWithin DEF Took, Turn
<1> QED BY <1>5, <1>6 DEF Records

(* The numbers agree only if the pages did: a page that stopped short of    *)
(* the end passed something over, and then too few were kept.               *)
LEMMA CountTells ==
    ASSUME SInv, NextPage, drift = 0, Got < Count, Len(items') = Len(catalog)
    PROVE  Records(catalog) \subseteq ToSet(items')
<1> DEFINE s0 == ScanStart(ask.declared)
<1>1. Took /\ Turn /\ Numbers /\ stop = "none"
  BY TookHolds, TurnHolds, NumbersAre DEF SInv, Took
<1>2. /\ s0 \in 0..1 /\ start \in Nat /\ s0 <= start /\ Len(items) + s0 <= start
      /\ pages = 0 => ToSet(items) = {} /\ start = s0 /\ Len(items) = 0
  BY <1>1 DEF SInv, Bounded, Covered, ToSet, Numbers
<1>3. /\ Len(items) \in Nat /\ Len(items') \in Nat /\ Len(catalog) \in Nat
      /\ First \in Nat \ {0} /\ Count \in Nat \ {0} /\ End + 1 = First + Count /\ End \in Nat
      /\ Got \in Nat /\ Got + 1 <= Count
      /\ Len(catalog) <= Len(items) + Got
      /\ First <= Len(catalog) => Got + First <= Len(catalog) + 1
      /\ First > Len(catalog) => Got = 0
  BY <1>1 DEF Numbers, Took, Turn
<1>4. CASE server.base = "zero"
  <2>1. First = start + 1
    BY <1>1, <1>4 DEF Numbers
  <2>2. CASE s0 = 0
    <3>1. Seen(1, First - 1) \subseteq ToSet(items)
      BY <1>1, <1>4, <2>2, Behind DEF SInv
    <3>2. Len(catalog) <= End
      BY <1>2, <1>3, <2>1, <2>2
    <3> QED BY <3>1, <3>2, Reached
  <2>3. CASE s0 = 1
    <3>1. pages = 0 /\ Len(catalog) = 0
      <4>1. pages # 0 => start <= Len(catalog)
        BY <1>1, <1>4 DEF SInv, Covered, Numbers
      <4> QED BY <1>2, <1>3, <2>1, <2>3, <4>1
    <3>2. ToSet(catalog) = {}
      BY <3>1, SeenAll DEF SInv, Seen
    <3> QED BY <3>2 DEF Records
  <2> QED BY <1>2, <2>2, <2>3
<1>5. CASE server.base = "one"
  <2>1. Seen(1, First - 1) \subseteq ToSet(items)
    BY <1>1, <1>5, Behind DEF SInv
  <2>2. First = IF start = 0 THEN 1 ELSE start
    BY <1>1, <1>5 DEF Numbers
  <2>3. Len(catalog) <= End
    BY <1>2, <1>3, <2>2
  <2> QED BY <2>1, <2>3, Reached
<1>6. CASE server.base = "stuck"
  <2>1. First = 1 /\ End = Count
    BY <1>1, <1>3, <1>6 DEF Numbers
  <2>2. pages = 0
    <3> SUFFICES ASSUME pages # 0 PROVE FALSE
      OBVIOUS
    <3>1. Count <= Len(catalog) /\ Junk \notin Seen(First, End)
      BY <1>1, <1>6, <2>1 DEF SInv, Covered, Numbers
    <3> QED BY <1>1, <1>3, <2>1, <3>1 DEF Turn
  <2>3. Seen(1, First - 1) \subseteq ToSet(items)
    BY <2>1 DEF Seen
  <2>4. Len(catalog) <= End
    BY <1>2, <1>3, <2>1, <2>2
  <2> QED BY <2>3, <2>4, Reached
<1> QED BY <1>1, <1>4, <1>5, <1>6 DEF Numbers

(* What a turn that ends the scan makes of the result.                      *)
LEMMA Ends ==
    ASSUME SInv, NextPage, stop' # "none"
    PROVE  /\ stop' \in {"short_page", "capped", "stalled", "ceiling"}
           /\ stop' = "short_page" <=> Got < Count
           /\ stop' = "capped" => ~Exhaustive
           /\ stop' = "stalled" => Len(items') = Len(items)
           /\ Exhaustive \/ Len(items') <= EffectiveLimit => result'.items = items'
           /\ result'.incomplete = Incomplete(stop', Len(items'), total')
           /\ result'.capped <=> \/ stop' = "capped"
                                 \/ ~Exhaustive /\ Len(items') > EffectiveLimit
           /\ items' \in Seq(Kept)
<1>1. Took /\ Numbers
  BY TookHolds, NumbersAre DEF SInv
<1>2. Got \in Int /\ Count \in Int /\ stop' = StopReason(Got, Len(items), Len(items'))
  BY <1>1 DEF Took, Numbers
<1>3. Exhaustive \/ Len(items') <= EffectiveLimit => Truncate(items') = items'
  BY <1>1, TruncateIs DEF Took, SInv
<1>4. Incomplete(stop', Len(items'), total') \in BOOLEAN
  BY DEF Incomplete
<1> QED BY <1>1, <1>2, <1>3, <1>4 DEF StopReason, Took

LEMMA LossPage == ASSUME SInv, NextPage PROVE NoSilentLoss'
<1> SUFFICES ASSUME stop' # "none", Exhaustive, drift = 0, server.total = "true", ~result'.incomplete
             PROVE  Records(catalog) \subseteq ToSet(result'.items)
  BY DEF NoSilentLoss, Returned, NextPage, Exhaustive, Records, ToSet
<1>1. Took
  BY TookHolds DEF SInv
<1>2. total' = Len(catalog) /\ Len(catalog) \in Nat
  BY <1>1, NumbersAre DEF Took, ReportedTotal, Numbers, SInv
<1>3. stop' = "short_page" /\ Got < Count /\ Len(items') = Len(catalog) /\ result'.items = items'
  <2>1. ~Incomplete(stop', Len(items'), total')
    BY Ends
  <2>2. Len(catalog) # Unreported
    BY <1>2 DEF Unreported
  <2> QED BY <1>2, <2>1, <2>2, Ends DEF Incomplete
<1> QED BY <1>3, CountTells

(* A full page of two and more ends beyond everything kept so far.          *)
LEMMA NeverStalls ==
    ASSUME SInv, NextPage, Stable, BaseKnown, Junk \notin ToSet(catalog), Count > 1, Got >= Count
    PROVE  Len(items') > Len(items)
<1>1. Took /\ Turn /\ Numbers /\ stop = "none" /\ drift = 0
  BY TookHolds, TurnHolds, NumbersAre DEF SInv, Took, Stable
<1>2. ToSet(items) \subseteq Seen(1, start)
  BY <1>1, Behind DEF SInv, BaseKnown, ScanStart
<1>3. End <= Len(catalog) /\ End \in Nat \ {0} /\ First <= End /\ start < End /\ First \in Nat
  <2>1. Got = Count /\ start < End
    BY <1>1 DEF Numbers, BaseKnown
  <2> QED BY <1>1, <2>1 DEF Numbers, Turn
<1>4. DOMAIN catalog = 1..Len(catalog) /\ Len(catalog) \in Nat
  BY CatalogSeq, LenProperties DEF SInv, STypeOK
<1>5. End \in DOMAIN catalog /\ End \in First..End
  BY <1>3, <1>4
<1>6. catalog[End] \in ToSet(Page(start, Count))
  <2>1. catalog[End] \in Seen(First, End) /\ catalog[End] \in ToSet(catalog)
    BY <1>5 DEF Seen, ToSet
  <2> QED BY <1>1, <2>1 DEF Turn
<1>7. catalog[End] = Blank \/ catalog[End] \notin ToSet(items)
  <2> SUFFICES ASSUME catalog[End] \in ToSet(items) PROVE catalog[End] = Blank
    OBVIOUS
  <2>1. PICK k \in (1..start) \cap DOMAIN catalog : catalog[k] = catalog[End]
    BY <1>2 DEF Seen
  <2>2. k # End
    BY <1>1, <1>3, <2>1 DEF Numbers
  <2> QED BY <1>5, <2>1, <2>2 DEF Stable
<1> QED BY <1>1, <1>6, <1>7 DEF Took

LEMMA GapPage == ASSUME SInv, NextPage PROVE GapFree'
<1>1. UNCHANGED <<catalog, drift, server, ask>>
  BY DEF NextPage
<1>2. (Count' = Count) /\ (Exhaustive' = Exhaustive) /\ (Stable' = Stable) /\ (BaseKnown' = BaseKnown)
  BY <1>1 DEF Count, EffectiveLimit, Exhaustive, Stable, BaseKnown
<1> SUFFICES ASSUME stop' # "none", Exhaustive, Stable, BaseKnown, Junk \notin ToSet(catalog),
                    Count > 1, stop' # "ceiling"
             PROVE  stop' = "short_page" /\ ToSet(result'.items) = ToSet(catalog)
  BY <1>1, <1>2 DEF GapFree, Returned, ToSet
<1>3. Got \in Int /\ Count \in Int /\ Len(items) \in Int /\ drift = 0
  BY NumbersAre DEF Numbers, SInv, Stable
<1>4. stop' # "stalled"
  <2> SUFFICES ASSUME stop' = "stalled" PROVE FALSE
    OBVIOUS
  <2>1. Got >= Count /\ Len(items') = Len(items)
    BY <1>3, Ends
  <2> QED BY <1>3, <2>1, NeverStalls
<1>5. stop' = "short_page" /\ Got < Count /\ result'.items = items'
  BY <1>4, Ends
<1> QED BY <1>3, <1>5, EndReached

LEMMA WholePage == ASSUME SInv, NextPage PROVE CappedOrWhole'
<1>1. UNCHANGED <<catalog, drift, server, ask>>
  BY DEF NextPage
<1>2. (EffectiveLimit' = EffectiveLimit) /\ (Exhaustive' = Exhaustive) /\ (Stable' = Stable) /\ (BaseKnown' = BaseKnown)
  BY <1>1 DEF EffectiveLimit, Exhaustive, Stable, BaseKnown
<1> SUFFICES ASSUME stop' # "none", ~Exhaustive
             PROVE  /\ Len(result'.items) <= IF EffectiveLimit < 0 THEN 0 ELSE EffectiveLimit
                    /\ ~result'.capped /\ ~result'.incomplete /\ Stable /\ BaseKnown /\ Junk \notin ToSet(catalog)
                          => ToSet(result'.items) = ToSet(catalog)
  BY <1>1, <1>2 DEF CappedOrWhole, Returned, ToSet
<1>3. Took /\ Numbers /\ items' \in Seq(Kept) /\ EffectiveLimit \in Int
  BY TookHolds, NumbersAre, AskIs DEF SInv, Took
<1>4. /\ Len(items) \in Nat /\ Len(items') \in Nat /\ Len(items') <= Len(items) + Got
      /\ Got \in 0..Count /\ pages \in Nat /\ stop = "none"
      /\ result'.items = Truncate(items')
  BY <1>3 DEF Took, Numbers
<1>5. EffectiveLimit < 0 => Len(items') <= 1
  <2> SUFFICES ASSUME EffectiveLimit < 0 PROVE Len(items') <= 1
    OBVIOUS
  <2>1. pages = 0 /\ Len(items) = 0
    BY <1>3, <1>4 DEF SInv, Bounded
  <2>2. Count = 1
    BY <1>3 DEF Count
  <2> QED BY <1>4, <2>1, <2>2
<1>6. Len(result'.items) <= IF EffectiveLimit < 0 THEN 0 ELSE EffectiveLimit
  <2>1. /\ Len(items') <= EffectiveLimit => Truncate(items') = items'
        /\ Len(items') > EffectiveLimit =>
              Len(Truncate(items')) =
                  IF EffectiveLimit >= 0 THEN EffectiveLimit
                  ELSE IF Len(items') + EffectiveLimit > 0 THEN Len(items') + EffectiveLimit ELSE 0
    BY <1>3, TruncateIs DEF SInv
  <2> QED BY <1>3, <1>4, <1>5, <2>1
<1>7. ASSUME ~result'.capped, ~result'.incomplete, Stable, BaseKnown, Junk \notin ToSet(catalog)
      PROVE  ToSet(result'.items) = ToSet(catalog)
  <2>1. stop' = "short_page" /\ Got < Count /\ Len(items') <= EffectiveLimit
    <3>1. ~Incomplete(stop', Len(items'), total') /\ stop' # "capped" /\ ~(Len(items') > EffectiveLimit)
      BY <1>7, Ends
    <3> QED BY <1>3, <1>4, <3>1, Ends DEF Incomplete
  <2>2. result'.items = items' /\ drift = 0
    BY <1>7, <2>1, Ends DEF Stable
  <2> QED BY <1>7, <2>1, <2>2, EndReached
<1> QED BY <1>6, <1>7

(* Nothing is returned yet, or no longer: only a turn makes a result.       *)
LEMMA ReturnedNext ==
    ASSUME SInv, [SNext]_svars PROVE NoSilentLoss' /\ GapFree' /\ CappedOrWhole'
<1>1. CASE NextPage
  BY <1>1, LossPage, GapPage, WholePage
<1>2. CASE RequestRaises \/ Drift
  BY <1>2 DEF RequestRaises, Drift, NoSilentLoss, GapFree, CappedOrWhole, Returned
<1>3. CASE UNCHANGED svars
  <2>1. /\ (Returned' = Returned) /\ (Exhaustive' = Exhaustive) /\ (EffectiveLimit' = EffectiveLimit)
        /\ (Count' = Count) /\ (Stable' = Stable) /\ (BaseKnown' = BaseKnown)
        /\ UNCHANGED <<catalog, drift, server, stop, result>>
    BY <1>3 DEF svars, Returned, Exhaustive, EffectiveLimit, Count, Stable, BaseKnown
  <2>2. NoSilentLoss'
    BY <2>1 DEF SInv, NoSilentLoss, Records, ToSet
  <2>3. GapFree'
    BY <2>1 DEF SInv, GapFree, ToSet
  <2>4. CappedOrWhole'
    BY <2>1 DEF SInv, CappedOrWhole, ToSet
  <2> QED BY <2>2, <2>3, <2>4
<1> QED BY <1>1, <1>2, <1>3 DEF SNext

-----------------------------------------------------------------------------
(* Theorems *)

LEMMA SInvInit == SInit => SInv
<1> SUFFICES ASSUME SInit PROVE SInv
  OBVIOUS
<1>1. STypeOK
  BY TypesInit
<1>2. items = <<>> /\ Len(items) = 0 /\ pages = 0 /\ start = ScanStart(ask.declared)
      /\ result.items = <<>> /\ stop = "none"
  BY DEF SInit, NoResult
<1>3. Count \in Nat \ {0} /\ start \in 0..1
  BY <1>1, <1>2, AskIs DEF ScanStart
<1>4. Bounded /\ WorkBounded
  BY <1>2, <1>3, ScanAssumption DEF Bounded, WorkBounded
<1>5. Covered
  BY <1>2, <1>3 DEF Covered
<1>6. OnceEach(items) /\ NoIdTwice
  BY <1>2 DEF OnceEach, NoIdTwice
<1>7. NoSilentLoss /\ GapFree /\ CappedOrWhole
  BY <1>2 DEF NoSilentLoss, GapFree, CappedOrWhole, Returned
<1> QED BY <1>1, <1>4, <1>5, <1>6, <1>7 DEF SInv

LEMMA SInvNext == SInv /\ [SNext]_svars => SInv'
<1> SUFFICES ASSUME SInv, [SNext]_svars PROVE SInv'
  OBVIOUS
<1>1. STypeOK'
  BY TypesNext DEF SInv
<1>2. Bounded' /\ WorkBounded'
  BY BoundedNext DEF SInv
<1>3. Covered'
  BY CoveredNext
<1>4. OnceEach(items)' /\ NoIdTwice'
  BY OnceNext DEF SInv
<1>5. NoSilentLoss' /\ GapFree' /\ CappedOrWhole'
  BY ReturnedNext
<1> QED BY <1>1, <1>2, <1>3, <1>4, <1>5 DEF SInv

LEMMA SInvAlways == SSpec => []SInv
BY SInvInit, SInvNext, PTL DEF SSpec

(* Every variable of a scan, and its result, stays within its type, however *)
(* the catalog changes under it.                                            *)
THEOREM ScanTyped == SSpec => []STypeOK
<1>1. SInv => STypeOK
  BY DEF SInv
<1> QED BY <1>1, SInvAlways, PTL

(* ADR-0024: whatever the server does, scan makes no more requests than the *)
(* ceiling has records, and keeps at most a page more than the ceiling.     *)
THEOREM ScanWorkBounded == SSpec => []WorkBounded
<1>1. SInv => WorkBounded
  BY DEF SInv
<1> QED BY <1>1, SInvAlways, PTL

(* _check_completeness and the two bounds of the loop miss nothing: an      *)
(* exhaustive result that is not marked incomplete has every record, if the *)
(* catalog held still and the total was true, whatever base the server has. *)
THEOREM ScanNoSilentLoss == SSpec => []NoSilentLoss
<1>1. SInv => NoSilentLoss
  BY DEF SInv
<1> QED BY <1>1, SInvAlways, PTL

(* DESIGN 4.5: starting at SCAN_START is gap-free under both hypotheses on  *)
(* the base, for pages of two records and more.                             *)
THEOREM ScanGapFree == SSpec => []GapFree
<1>1. SInv => GapFree
  BY DEF SInv
<1> QED BY <1>1, SInvAlways, PTL

(* The seen set holds across pages: no identified record is returned twice, *)
(* though pages overlap and records move between them.                      *)
THEOREM ScanNoIdTwice == SSpec => []NoIdTwice
<1>1. SInv => NoIdTwice
  BY DEF SInv
<1> QED BY <1>1, SInvAlways, PTL

(* A bounded call returns at most what was asked for, and the whole         *)
(* resource when it neither says it was cut nor that it is incomplete.      *)
THEOREM ScanCappedOrWhole == SSpec => []CappedOrWhole
<1>1. SInv => CappedOrWhole
  BY DEF SInv
<1> QED BY <1>1, SInvAlways, PTL

=============================================================================
