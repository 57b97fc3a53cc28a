---------------------------- MODULE MManProofs ----------------------------
(***************************************************************************)
(* Theorems about MMan, for all page tables, tasks and requests.  Of the   *)
(* frames that no task has mapped by their physical address: a page is     *)
(* never given out while an entry refers to it, its count covers its       *)
(* entries, a page table is in one place, and no page is lost that was not *)
(* mapped over.                                                            *)
(***************************************************************************)
EXTENDS MMan, FiniteSetTheorems, WellFoundedInduction, TLAPS

----------------------------------------------------------------------------
(* The invariant of the page tables, the counts and the free list. *)

MemType ==
    /\ entry \in [Roots -> [Places -> Frames \cup {0}]]
    /\ page_refcount \in [Frames -> Nat]
    /\ free \in Seq(Frames)
    /\ overwritten \subseteq Frames \cup {0}
    /\ exposed \subseteq Frames /\ heap \subseteq Frames

\* Of all frames, as a frame on the list is not put there again: see Spoils.
FreeOnce == \A i, j \in 1..Len(free) : free[i] = free[j] => i = j

\* What NothingLost says of a frame without entries.
Kept == \A f \in Ram \ (overwritten \cup exposed \cup heap) :
            Refs(f) = {} /\ Extra(f) = 0 => f \in Range(free)

HeapKept == \A f \in heap \ exposed : Refs(f) = {}

SharedStay == \A r \in Roots, t \in SharedTables : entry[r][t] = Boot[Own][t]

MInv ==
    /\ MemType /\ FreeOnce /\ FreeIsUnmapped /\ CountsAreRefs /\ TablesPrivate
    /\ Kept /\ HeapKept /\ SharedStay

\* Where the entry of a page is.
Cell(r, a) == <<Holder(r, a), a>>

\* A range is the set of the elements.
LEMMA RangeIs ==
    ASSUME NEW S, NEW s \in Seq(S), NEW f
    PROVE  f \in Range(s) <=> \E i \in 1..Len(s) : s[i] = f
<1>1. DOMAIN s = 1..Len(s)
    OBVIOUS
<1>2. QED
    BY <1>1 DEF Range

\* Only finitely many entries hold a frame.
LEMMA RefsFinite ==
    \A f : /\ IsFiniteSet(Refs(f)) /\ Cardinality(Refs(f)) \in Nat
           /\ IsFiniteSet(Refs(f)') /\ Cardinality(Refs(f)') \in Nat
<1> SUFFICES ASSUME NEW f
             PROVE  /\ IsFiniteSet(Refs(f)) /\ Cardinality(Refs(f)) \in Nat
                    /\ IsFiniteSet(Refs(f)') /\ Cardinality(Refs(f)') \in Nat
    OBVIOUS
<1>1. IsFiniteSet(Places)
    BY MManAssumption, FS_Union DEF Places
<1>2. IsFiniteSet(Roots \X Places)
    BY <1>1, MManAssumption, FS_Product
<1>3. Refs(f) \in SUBSET (Roots \X Places) /\ Refs(f)' \in SUBSET (Roots \X Places)
    BY DEF Refs
<1>4. IsFiniteSet(Refs(f)) /\ IsFiniteSet(Refs(f)')
    BY <1>2, <1>3, FS_Subset
<1>5. QED
    BY <1>4, FS_CardinalityType

\* The entries that hold a frame, one by one.
LEMMA InRefs ==
    ASSUME NEW f, NEW r \in Roots, NEW x \in Places
    PROVE  /\ <<r, x>> \in Refs(f) <=> entry[r][x] = f
           /\ <<r, x>> \in Refs(f)' <=> entry'[r][x] = f
BY DEF Refs

\* Two sets of entries are equal when they have the same places.
LEMMA RefsEqual ==
    ASSUME NEW S, NEW T, S \subseteq Roots \X Places, T \subseteq Roots \X Places,
           \A r \in Roots, x \in Places : <<r, x>> \in S <=> <<r, x>> \in T
    PROVE  S = T
OBVIOUS

----------------------------------------------------------------------------
(* The tables that paging_addr_create adds. *)

\* The number of the missing table i among those missing.
Nth(r, a, i) == Cardinality({j \in Missing(r, a) : j <= i})

\* The missing tables get the first frames of the list, each its own, and no
\* frame is left over.
LEMMA NthBijection ==
    ASSUME NEW r \in Roots, NEW a \in Addrs
    PROVE  /\ Tabled(r, a) \in Nat
           /\ \A i \in Missing(r, a) : Nth(r, a, i) \in 1..Tabled(r, a)
           /\ \A i, j \in Missing(r, a) : Nth(r, a, i) = Nth(r, a, j) => i = j
           /\ \A k \in 1..Tabled(r, a) : \E i \in Missing(r, a) : Nth(r, a, i) = k
<1> DEFINE M == Missing(r, a)
           Below(i) == {j \in M : j <= i}
           nth == [i \in M |-> Nth(r, a, i)]
<1>1. Len(Chain[a]) \in Nat
    BY MManAssumption
<1>2. M \subseteq 1..Len(Chain[a])
    BY DEF Missing
<1>3. IsFiniteSet(M)
    <2>1. IsFiniteSet(1..Len(Chain[a]))
        BY <1>1, FS_Interval
    <2>2. QED
        BY <1>2, <2>1, FS_Subset
<1>4. \A i \in M : IsFiniteSet(Below(i)) /\ Cardinality(Below(i)) \in Nat
    <2>1. \A i \in M : Below(i) \in SUBSET M
        OBVIOUS
    <2>2. \A i \in M : IsFiniteSet(Below(i))
        BY <1>3, <2>1, FS_Subset
    <2>3. QED
        BY <2>2, FS_CardinalityType
<1>5. Tabled(r, a) \in Nat /\ Tabled(r, a) = Cardinality(M)
    BY <1>3, FS_CardinalityType DEF Tabled
<1>6. \A i \in M : Nth(r, a, i) = Cardinality(Below(i))
    BY DEF Nth
<1>7. \A i \in M : Cardinality(Below(i)) \in 1..Tabled(r, a)
    <2> TAKE i \in M
    <2>1. Below(i) \in SUBSET M
        OBVIOUS
    <2>2. Cardinality(Below(i)) <= Cardinality(M)
        BY <1>3, <2>1, FS_Subset
    <2>3. i \in Below(i)
        BY <1>1, <1>2
    <2>4. Cardinality(Below(i)) # 0
        BY <1>4, <2>3, FS_EmptySet
    <2>5. QED
        BY <1>4, <1>5, <2>2, <2>4
<1>8. \A i, j \in M : i < j => Cardinality(Below(i)) # Cardinality(Below(j))
    <2> SUFFICES ASSUME NEW i \in M, NEW j \in M, i < j,
                        Cardinality(Below(i)) = Cardinality(Below(j))
                 PROVE  FALSE
        OBVIOUS
    <2>1. i \in Int /\ j \in Int /\ \A k \in M : k \in Int
        BY <1>1, <1>2
    <2>6. \A k \in M : k <= i => k <= j
        BY <2>1
    <2>2. Below(i) \in SUBSET Below(j)
        BY <2>6
    <2>3. Below(i) = Below(j)
        BY <1>4, <2>2, FS_Subset
    <2>4. j \in Below(j) /\ j \notin Below(i)
        BY <2>1
    <2>5. QED
        BY <2>3, <2>4
<1>9. \A i, j \in M : Cardinality(Below(i)) = Cardinality(Below(j)) => i = j
    <2>1. \A i, j \in M : i # j => i < j \/ j < i
        BY <1>1, <1>2
    <2>2. QED
        BY <1>8, <2>1
<1>10. nth \in Injection(M, 1..Tabled(r, a))
    <2> HIDE DEF M, Below
    <2>1. nth \in [M -> 1..Tabled(r, a)]
        BY <1>6, <1>7
    <2>2. \A i, j \in M : nth[i] = nth[j] => i = j
        BY <1>6, <1>9
    <2>3. QED
        BY <2>1, <2>2 DEF Injection, IsInjective
<1>11. IsFiniteSet(1..Tabled(r, a)) /\ Cardinality(1..Tabled(r, a)) = Tabled(r, a)
    BY <1>5, FS_Interval
<1>12. nth \in Surjection(M, 1..Tabled(r, a))
    BY <1>5, <1>10, <1>11, FS_Injection
<1>13. \A k \in 1..Tabled(r, a) : \E i \in M : nth[i] = k
    BY <1>12 DEF Surjection
<1>14. QED
    BY <1>5, <1>6, <1>7, <1>9, <1>13

\* The places of the tables that are added.
Added(r, a) == {Chain[a][i] : i \in Missing(r, a)}

\* Where a page of a root is kept.
LEMMA CellFacts ==
    ASSUME NEW r \in Roots, NEW a \in Addrs
    PROVE  /\ Holder(r, a) \in Roots /\ a \in Places /\ a \notin Tables /\ 0 \notin Frames
           /\ Addrs \subseteq Places /\ Tables \subseteq Places /\ Own \in Roots
           /\ Cell(r, a) \in Roots \X Places /\ Cell(r, a)[1] = Holder(r, a) /\ Cell(r, a)[2] = a
           /\ a \notin Shared => Holder(r, a) = r
           /\ MemType => Entry(r, a) \in Frames \cup {0}
           /\ \A f : Cell(r, a) \in Refs(f) <=> Entry(r, a) = f
<1>1. Holder(r, a) \in Roots /\ Own \in Roots /\ (a \notin Shared => Holder(r, a) = r)
    BY MManAssumption DEF Holder
<1>2. a \in Places /\ a \notin Tables /\ Addrs \subseteq Places /\ Tables \subseteq Places
      /\ 0 \notin Frames
    BY MManAssumption DEF Places
<1>3. Cell(r, a) \in Roots \X Places /\ Cell(r, a)[1] = Holder(r, a) /\ Cell(r, a)[2] = a
    BY <1>1, <1>2 DEF Cell
<1>4. MemType => Entry(r, a) \in Frames \cup {0}
    BY <1>1, <1>2 DEF MemType, Entry
<1>5. \A f : Cell(r, a) \in Refs(f) <=> Entry(r, a) = f
    BY <1>1, <1>2, InRefs DEF Cell, Entry
<1>6. QED
    BY <1>1, <1>2, <1>3, <1>4, <1>5

\* What WriteEntry leaves in the page tables.
LEMMA WriteEffect ==
    ASSUME MemType, NEW r \in Roots, NEW a \in Addrs, NEW f \in Frames,
           Tabled(r, a) <= Len(free), WriteEntry(r, a, f)
    PROVE  /\ entry' \in [Roots -> [Places -> Frames \cup {0}]]
           /\ overwritten' = overwritten \cup {Entry(r, a)}
           /\ entry'[Holder(r, a)][a] = f
           /\ Added(r, a) \subseteq Tables
           /\ \A i \in Missing(r, a) :
                  entry[r][Chain[a][i]] = 0 /\ entry'[r][Chain[a][i]] = free[Nth(r, a, i)]
           /\ \A q \in Roots, x \in Places :
                  <<q, x>> # Cell(r, a) /\ ~ (q = r /\ x \in Added(r, a)) =>
                      entry'[q][x] = entry[q][x]
<1> DEFINE new(q, x) == IF q = Holder(r, a) /\ x = a THEN f
                        ELSE IF q = r /\ \E i \in Missing(r, a) : Chain[a][i] = x
                        THEN NewTable(r, a, CHOOSE i \in Missing(r, a) : Chain[a][i] = x)
                        ELSE entry[q][x]
<1>1. entry' = [q \in Roots |-> [x \in Places |-> new(q, x)]]
      /\ overwritten' = overwritten \cup {Entry(r, a)}
    BY DEF WriteEntry
<1>2. a \in Places /\ a \notin Tables /\ Holder(r, a) \in Roots
      /\ Missing(r, a) \subseteq 1..Len(Chain[a])
    BY CellFacts DEF Missing
<1>3. \A i \in 1..Len(Chain[a]) : Chain[a][i] \in Tables /\ Chain[a][i] \in Places
    BY MManAssumption DEF Places
<1>4. Added(r, a) \subseteq Tables
    BY <1>2, <1>3 DEF Added
<1>5. \A i \in Missing(r, a) :
          /\ Chain[a][i] \in Places /\ Chain[a][i] # a
          /\ (CHOOSE j \in Missing(r, a) : Chain[a][j] = Chain[a][i]) = i
    <2>1. \A i, j \in Missing(r, a) : Chain[a][i] = Chain[a][j] => i = j
        BY <1>2, MManAssumption
    <2>2. \A i \in Missing(r, a) : Chain[a][i] \in Places /\ Chain[a][i] # a
        BY <1>2, <1>3
    <2>3. ASSUME NEW i \in Missing(r, a)
          PROVE  (CHOOSE j \in Missing(r, a) : Chain[a][j] = Chain[a][i]) = i
        <3> DEFINE k == CHOOSE j \in Missing(r, a) : Chain[a][j] = Chain[a][i]
        <3>1. k \in Missing(r, a) /\ Chain[a][k] = Chain[a][i]
            OBVIOUS
        <3>2. QED
            BY <2>1, <3>1
    <2>4. QED
        BY <2>2, <2>3
<1>6. \A i \in Missing(r, a) : NewTable(r, a, i) = free[Nth(r, a, i)]
    BY DEF NewTable, Nth
<1>7. \A i \in Missing(r, a) : free[Nth(r, a, i)] \in Frames
    <2>1. \A i \in Missing(r, a) : Nth(r, a, i) \in 1..Len(free)
        BY NthBijection DEF MemType
    <2>2. QED
        BY <2>1 DEF MemType
<1>8. \A i \in Missing(r, a) : new(r, Chain[a][i]) = free[Nth(r, a, i)]
    BY <1>5, <1>6
<1>9. /\ new(Holder(r, a), a) = f
      /\ \A q \in Roots, x \in Places :
             <<q, x>> # Cell(r, a) /\ ~ (q = r /\ x \in Added(r, a)) => new(q, x) = entry[q][x]
    BY DEF Added, Cell
<1>10. \A q \in Roots, x \in Places : new(q, x) \in Frames \cup {0}
    <2> TAKE q \in Roots, x \in Places
    <2>1. CASE <<q, x>> = Cell(r, a)
        BY <1>9, <2>1 DEF Cell
    <2>2. CASE <<q, x>> # Cell(r, a) /\ q = r /\ x \in Added(r, a)
        <3>1. PICK i \in Missing(r, a) : x = Chain[a][i]
            BY <2>2 DEF Added
        <3>2. new(q, x) = free[Nth(r, a, i)]
            BY <1>8, <2>2, <3>1
        <3>3. QED
            BY <1>7, <3>2
    <2>3. CASE <<q, x>> # Cell(r, a) /\ ~ (q = r /\ x \in Added(r, a))
        <3>1. new(q, x) = entry[q][x]
            BY <1>9, <2>3
        <3>2. QED
            BY <3>1 DEF MemType
    <2>4. QED
        BY <2>1, <2>2, <2>3
<1>11. \A i \in Missing(r, a) : entry[r][Chain[a][i]] = 0
    BY DEF Missing
<1> HIDE DEF new
<1>12. \A q \in Roots, x \in Places : entry'[q][x] = new(q, x)
    BY <1>1
<1>13. entry' \in [Roots -> [Places -> Frames \cup {0}]]
    BY <1>1, <1>10
<1>14. \A i \in Missing(r, a) : entry'[r][Chain[a][i]] = free[Nth(r, a, i)]
    BY <1>5, <1>8, <1>12
<1>15. entry'[Holder(r, a)][a] = f
    BY <1>2, <1>9, <1>12
<1>16. QED
    BY <1>1, <1>4, <1>9, <1>11, <1>12, <1>13, <1>14, <1>15

\* Where each frame is after WriteEntry, if no task had mapped it by its address:
\* a frame that was taken for a table is in the place of that table, the page's
\* frame has one more entry, and any other loses the one that is mapped over.
LEMMA RefsAfter ==
    ASSUME MemType, FreeOnce, FreeIsUnmapped,
           NEW r \in Roots, NEW a \in Addrs, NEW f \in Frames,
           Tabled(r, a) <= Len(free), WriteEntry(r, a, f),
           NEW g \in Frames \ exposed, g = f => f \notin Got(Tabled(r, a))
    PROVE  /\ g \in Got(Tabled(r, a)) => \E x \in Added(r, a) : Refs(g)' = {<<r, x>>}
           /\ g = f => Refs(g)' = Refs(g) \cup {Cell(r, a)}
           /\ g # f /\ g \notin Got(Tabled(r, a)) => Refs(g)' = Refs(g) \ {Cell(r, a)}
<1> DEFINE n == Tabled(r, a)
           c == Cell(r, a)
<1>1. /\ entry'[Holder(r, a)][a] = f
      /\ Added(r, a) \subseteq Tables
      /\ \A i \in Missing(r, a) :
             entry[r][Chain[a][i]] = 0 /\ entry'[r][Chain[a][i]] = free[Nth(r, a, i)]
      /\ \A q \in Roots, x \in Places :
             <<q, x>> # c /\ ~ (q = r /\ x \in Added(r, a)) => entry'[q][x] = entry[q][x]
    BY WriteEffect
<1>2. /\ a \in Places /\ a \notin Added(r, a) /\ Added(r, a) \subseteq Places
      /\ c \in Roots \X Places
    BY <1>1, CellFacts
<1>3. /\ n \in Nat
      /\ \A i \in Missing(r, a) : Nth(r, a, i) \in 1..n
      /\ \A i, j \in Missing(r, a) : Nth(r, a, i) = Nth(r, a, j) => i = j
      /\ \A k \in 1..n : \E i \in Missing(r, a) : Nth(r, a, i) = k
    BY NthBijection
<1>4. \A x \in Added(r, a) : entry[r][x] = 0 /\ entry'[r][x] \in Got(n) /\ <<r, x>> # c
    BY <1>1, <1>2, <1>3 DEF Added, Got, Cell
<1>5. g # 0 /\ Refs(g) \subseteq Roots \X Places /\ Refs(g)' \subseteq Roots \X Places
    BY CellFacts DEF Refs
<1>10. \A q \in Roots, x \in Places : <<q, x>> = c => entry'[q][x] = f
    <2> TAKE q \in Roots, x \in Places
    <2> HAVE <<q, x>> = c
    <2>1. q = Holder(r, a) /\ x = a
        BY DEF Cell
    <2>2. QED
        BY <1>1, <2>1
<1>6. CASE g \in Got(n)
    <2>1. PICK k \in 1..n : free[k] = g
        BY <1>6 DEF Got
    <2>2. PICK i \in Missing(r, a) : Nth(r, a, i) = k
        BY <1>3
    <2>3. k \in 1..Len(free) /\ Len(free) \in Nat
        BY <1>3 DEF MemType
    <2>4. Refs(g) = {}
        <3>1. g \in Range(free)
            BY <2>1, <2>3, RangeIs DEF MemType
        <3>2. QED
            BY <3>1 DEF FreeIsUnmapped
    <2>5. Chain[a][i] \in Added(r, a) /\ entry'[r][Chain[a][i]] = g
        BY <1>1, <2>1, <2>2 DEF Added
    <2>6. ASSUME NEW q \in Roots, NEW x \in Places, entry'[q][x] = g
          PROVE  q = r /\ x = Chain[a][i]
        <3>1. entry[q][x] # g
            BY <2>4, InRefs
        <3>2. <<q, x>> = c \/ (q = r /\ x \in Added(r, a))
            BY <1>1, <2>6, <3>1
        <3>3. <<q, x>> # c
            BY <1>6, <1>10, <2>6
        <3>4. PICK j \in Missing(r, a) : x = Chain[a][j]
            BY <3>2, <3>3 DEF Added
        <3>5. free[Nth(r, a, j)] = free[k] /\ Nth(r, a, j) \in 1..Len(free)
            BY <1>1, <1>3, <2>1, <2>3, <2>6, <3>2, <3>3, <3>4
        <3>6. Nth(r, a, j) = k
            BY <2>3, <3>5 DEF FreeOnce
        <3>7. QED
            BY <1>3, <2>2, <3>2, <3>3, <3>4, <3>6
    <2>7. Refs(g)' = {<<r, Chain[a][i]>>}
        <3>1. <<r, Chain[a][i]>> \in Refs(g)'
            BY <1>2, <2>5, InRefs
        <3>2. \A p \in Refs(g)' : p = <<r, Chain[a][i]>>
            <4> TAKE p \in Refs(g)'
            <4>1. p[1] \in Roots /\ p[2] \in Places /\ entry'[p[1]][p[2]] = g /\ p = <<p[1], p[2]>>
                BY DEF Refs
            <4>2. QED
                BY <2>6, <4>1
        <3>3. QED
            BY <3>1, <3>2
    <2>8. QED
        BY <1>6, <2>5, <2>7
<1>7. CASE g = f
    <2>1. \A q \in Roots, x \in Places :
              <<q, x>> \in Refs(g)' <=> <<q, x>> \in Refs(g) \/ <<q, x>> = c
        <3> TAKE q \in Roots, x \in Places
        <3>1. CASE <<q, x>> = c
            BY <1>7, <1>10, <3>1, InRefs
        <3>2. CASE q = r /\ x \in Added(r, a)
            BY <1>4, <1>5, <1>7, <3>2, InRefs
        <3>3. CASE <<q, x>> # c /\ ~ (q = r /\ x \in Added(r, a))
            BY <1>1, <3>3, InRefs
        <3>4. QED
            BY <3>1, <3>2, <3>3
    <2>2. Refs(g)' = Refs(g) \cup {c}
        <3>1. \A q \in Roots, x \in Places : <<q, x>> \in Refs(g)' <=> <<q, x>> \in Refs(g) \cup {c}
            BY <2>1
        <3>2. Refs(g) \cup {c} \subseteq Roots \X Places
            BY <1>2, <1>5
        <3>3. QED
            BY <1>5, <3>1, <3>2, RefsEqual
    <2>3. QED
        BY <1>7, <2>2
<1>8. CASE g # f /\ g \notin Got(n)
    <2>1. \A q \in Roots, x \in Places :
              <<q, x>> \in Refs(g)' <=> <<q, x>> \in Refs(g) /\ <<q, x>> # c
        <3> TAKE q \in Roots, x \in Places
        <3>1. CASE <<q, x>> = c
            <4>1. entry'[q][x] # g
                BY <1>8, <1>10, <3>1
            <4>2. <<q, x>> \notin Refs(g)'
                BY <4>1, InRefs
            <4>3. QED
                BY <3>1, <4>2
        <3>2. CASE q = r /\ x \in Added(r, a)
            BY <1>4, <1>5, <1>8, <3>2, InRefs
        <3>3. CASE <<q, x>> # c /\ ~ (q = r /\ x \in Added(r, a))
            BY <1>1, <3>3, InRefs
        <3>4. QED
            BY <3>1, <3>2, <3>3
    <2>2. Refs(g)' = Refs(g) \ {c}
        <3>1. \A q \in Roots, x \in Places : <<q, x>> \in Refs(g)' <=> <<q, x>> \in Refs(g) \ {c}
            BY <2>1
        <3>2. Refs(g) \ {c} \subseteq Roots \X Places
            BY <1>5
        <3>3. QED
            BY <1>5, <3>1, <3>2, RefsEqual
    <2>3. QED
        BY <1>8, <2>2
<1>9. QED
    BY <1>6, <1>7, <1>8

----------------------------------------------------------------------------
(* The ways the page tables, the counts and the list change. *)

\* What is left of the list when its first k frames are taken.
LEMMA ListAfter ==
    ASSUME MemType, FreeOnce, NEW k \in Nat, k <= Len(free), Getpages(k)
    PROVE  /\ free' \in Seq(Frames) /\ FreeOnce'
           /\ \A g : g \in Range(free') <=> \E i \in k+1..Len(free) : g = free[i]
<1>1. Len(free) \in Nat /\ free \in Seq(Frames)
    BY DEF MemType
<1>2. free' \in Seq(Frames) /\ Len(free') = Len(free) - k
      /\ \A i \in 1..Len(free) - k : free'[i] = free[k + i]
    BY <1>1 DEF Getpages
<1>3. FreeOnce'
    <2> SUFFICES ASSUME NEW i \in 1..Len(free'), NEW j \in 1..Len(free'), free'[i] = free'[j]
                 PROVE  i = j
        BY DEF FreeOnce
    <2>1. k + i \in 1..Len(free) /\ k + j \in 1..Len(free) /\ i \in Nat /\ j \in Nat
        BY <1>1, <1>2
    <2>2. free[k + i] = free[k + j]
        BY <1>2
    <2>3. k + i = k + j
        BY <2>1, <2>2 DEF FreeOnce
    <2>4. QED
        BY <2>1, <2>3
<1>4. \A g : g \in Range(free') <=> \E i \in 1..Len(free') : free'[i] = g
    BY <1>2, RangeIs
<1>5. ASSUME NEW g, NEW i \in 1..Len(free'), free'[i] = g
      PROVE  \E j \in k+1..Len(free) : g = free[j]
    <2>1. k + i \in k+1..Len(free) /\ g = free[k + i]
        BY <1>1, <1>2, <1>5
    <2>2. QED
        BY <2>1
<1>6. ASSUME NEW g, NEW j \in k+1..Len(free), g = free[j]
      PROVE  \E i \in 1..Len(free') : free'[i] = g
    <2>1. j - k \in 1..Len(free') /\ free'[j - k] = g
        BY <1>1, <1>2, <1>6
    <2>2. QED
        BY <2>1
<1>7. QED
    BY <1>2, <1>3, <1>4, <1>5, <1>6

\* increment_page of the frames in S and in T, seen from one frame.
LEMMA Incremented ==
    ASSUME page_refcount \in [Frames -> Nat], NEW S, NEW T, Increment(S, T)
    PROVE  /\ page_refcount' \in [Frames -> Nat]
           /\ \A g \in Frames :
                  page_refcount'[g] = page_refcount[g] + (IF g \in S THEN 1 ELSE 0)
                                                       + (IF g \in T THEN 1 ELSE 0)
<1>1. \A g \in Frames : page_refcount[g] + (IF g \in S THEN 1 ELSE 0)
                                         + (IF g \in T THEN 1 ELSE 0) \in Nat
    OBVIOUS
<1>2. page_refcount' = [g \in Frames |-> page_refcount[g] + (IF g \in S THEN 1 ELSE 0)
                                                          + (IF g \in T THEN 1 ELSE 0)]
    BY DEF Increment
<1>3. QED
    BY <1>1, <1>2

\* What import counted too often is a number.
LEMMA ExtraNat ==
    \A g \in Frames : Extra(g) \in Nat
<1>1. IsFiniteSet(Roots) /\ Own \in Roots
    BY MManAssumption
<1>2. Cardinality(Roots) \in Nat /\ Cardinality(Roots) # 0
    BY <1>1, FS_CardinalityType, FS_EmptySet
<1>3. KmainCounts \in [Frames -> Nat]
    BY BootAssumption
<1>4. QED
    BY <1>2, <1>3 DEF Extra

\* A page is mapped, with k frames taken from the list: those of the tables and,
\* if the page is one of them, that.  If it is not, it is a page that was mapped, or
\* one that a task now has mapped by its address.
LEMMA MapStep ==
    ASSUME MInv, NEW r \in Roots, NEW a \in Addrs, NEW f \in Frames, NEW k \in Nat,
           k <= Len(free), k = Tabled(r, a) \/ (k = Tabled(r, a) + 1 /\ f = free[k]),
           WriteEntry(r, a, f), Getpages(k), page_refcount' \in [Frames -> Nat],
           \A g \in Frames \ exposed' :
               page_refcount'[g] = page_refcount[g]
                                   + (IF g \in Got(Tabled(r, a)) \/ g = f THEN 1 ELSE 0),
           exposed \subseteq exposed', exposed' \subseteq Frames, heap' = heap,
           k = Tabled(r, a) /\ f \notin exposed' =>
               /\ f \notin Range(free) /\ Refs(f) # {}
               /\ \A q \in Roots, t \in Tables : entry[q][t] # f
    PROVE  MInv'
<1> DEFINE n == Tabled(r, a)
           c == Cell(r, a)
<1>1. n \in Nat /\ n <= k /\ k <= Len(free) /\ n <= Len(free) /\ Len(free) \in Nat
    BY NthBijection DEF MInv, MemType
<1>2. \A i \in 1..Len(free) :
          /\ free[i] \in Frames /\ free[i] \in Range(free)
          /\ free[i] \notin exposed => Refs(free[i]) = {} /\ free[i] \notin heap
    <2>1. \A i \in 1..Len(free) : free[i] \in Range(free) /\ free[i] \in Frames
        BY RangeIs DEF MInv, MemType
    <2>2. QED
        BY <2>1 DEF MInv, FreeIsUnmapped
<1>3. f \notin exposed' => f \notin Got(n)
    <2>1. CASE k = n + 1 /\ f = free[k]
        <3>1. \A i \in 1..n : free[i] # free[k]
            BY <1>1, <2>1 DEF MInv, FreeOnce
        <3>2. QED
            BY <2>1, <3>1 DEF Got
    <2>2. CASE k = n
        BY <1>1, <1>2, <2>2 DEF Got
    <2>3. QED
        BY <2>1, <2>2
<1>4. /\ Got(n) \subseteq Range(free) /\ Got(n) \subseteq Frames
      /\ \A g \in Got(n) \ exposed : Refs(g) = {} /\ g \notin heap
    <2>1. \A i \in 1..n : i \in 1..Len(free)
        BY <1>1
    <2>2. \A g \in Got(n) : g \in Range(free) /\ g \in Frames
        BY <1>2, <2>1 DEF Got
    <2>3. QED
        BY <2>2 DEF MInv, FreeIsUnmapped
<1>5. \A g \in Frames \ exposed' :
          /\ g \in Got(n) => \E x \in Added(r, a) : Refs(g)' = {<<r, x>>}
          /\ g = f => Refs(g)' = Refs(g) \cup {c}
          /\ g # f /\ g \notin Got(n) => Refs(g)' = Refs(g) \ {c}
    <2> TAKE g \in Frames \ exposed'
    <2>1. g \in Frames \ exposed /\ (g = f => f \notin Got(n))
        BY <1>3
    <2>2. QED
        BY <1>1, <2>1, RefsAfter DEF MInv
<1>6. /\ entry' \in [Roots -> [Places -> Frames \cup {0}]]
      /\ overwritten' = overwritten \cup {Entry(r, a)}
      /\ Added(r, a) \subseteq Tables
      /\ \A i \in Missing(r, a) :
             entry[r][Chain[a][i]] = 0 /\ entry'[r][Chain[a][i]] = free[Nth(r, a, i)]
      /\ \A q \in Roots, x \in Places :
             <<q, x>> # c /\ ~ (q = r /\ x \in Added(r, a)) => entry'[q][x] = entry[q][x]
    BY <1>1, WriteEffect DEF MInv
<1>7. /\ a \notin Tables /\ Entry(r, a) \in Frames \cup {0} /\ 0 \notin Frames
      /\ Tables \subseteq Places /\ c[2] = a
      /\ \A g : c \in Refs(g) <=> Entry(r, a) = g
    BY CellFacts DEF MInv
<1>8. /\ free' \in Seq(Frames) /\ FreeOnce'
      /\ \A g : g \in Range(free') <=> \E i \in k+1..Len(free) : g = free[i]
    BY <1>1, ListAfter DEF MInv
<1>9. MemType'
    <2>1. overwritten' \subseteq Frames \cup {0}
        BY <1>6, <1>7 DEF MInv, MemType
    <2>2. heap' \subseteq Frames
        BY DEF MInv, MemType
    <2>3. QED
        BY <1>6, <1>8, <2>1, <2>2 DEF MemType
<1>12. \A g \in Range(free') \ exposed' :
           g \in Frames /\ g \notin Got(n) /\ g # f /\ Refs(g) = {} /\ g \notin heap
    <2> TAKE g \in Range(free') \ exposed'
    <2>1. PICK j \in k+1..Len(free) : g = free[j]
        BY <1>8
    <2>2. \A i \in 1..k : free[i] # g
        BY <1>1, <2>1 DEF MInv, FreeOnce
    <2>3. g \notin Got(n)
        BY <1>1, <2>2 DEF Got
    <2>4. j \in 1..Len(free)
        BY <1>1
    <2>5. g \in Frames /\ g \in Range(free) /\ Refs(g) = {} /\ g \notin heap
        BY <1>2, <2>1, <2>4
    <2>6. g # f
        BY <1>1, <2>2, <2>5
    <2>7. QED
        BY <2>3, <2>5, <2>6
<1>13. FreeIsUnmapped'
    <2> SUFFICES ASSUME NEW g \in Range(free') \ exposed' PROVE Refs(g)' = {} /\ g \notin heap'
        BY DEF FreeIsUnmapped
    <2>1. g \in Frames \ exposed' /\ g # f /\ g \notin Got(n) /\ Refs(g) = {} /\ g \notin heap
        BY <1>12
    <2>2. Refs(g)' = Refs(g) \ {c}
        BY <1>5, <2>1
    <2>3. QED
        BY <2>1, <2>2
<1>15. CountsAreRefs'
    <2> SUFFICES ASSUME NEW g \in Frames \ exposed'
                 PROVE  /\ page_refcount'[g] >= Cardinality(Refs(g)') + Extra(g)
                        /\ g \notin overwritten' =>
                               page_refcount'[g] = Cardinality(Refs(g)') + Extra(g)
        BY DEF CountsAreRefs, Extra
    <2>1. /\ page_refcount[g] >= Cardinality(Refs(g)) + Extra(g)
          /\ g \notin overwritten => page_refcount[g] = Cardinality(Refs(g)) + Extra(g)
        BY DEF MInv, CountsAreRefs
    <2>2. page_refcount[g] \in Nat /\ Cardinality(Refs(g)) \in Nat /\ Extra(g) \in Nat
          /\ IsFiniteSet(Refs(g)) /\ (g \notin overwritten' => g \notin overwritten)
        BY <1>6, RefsFinite, ExtraNat DEF MInv, MemType
    <2>6. c \in Refs(g) => g \in overwritten'
        BY <1>6, <1>7
    <2>3. CASE g \in Got(n)
        <3>1. Cardinality(Refs(g)') = 1
            <4>1. PICK x \in Added(r, a) : Refs(g)' = {<<r, x>>}
                BY <1>5, <2>3
            <4>2. QED
                BY <4>1, FS_Singleton
        <3>2. Cardinality(Refs(g)) = 0
            BY <1>4, <2>3, FS_EmptySet
        <3>3. page_refcount'[g] = page_refcount[g] + 1
            BY <2>3
        <3>4. QED
            BY <2>1, <2>2, <3>1, <3>2, <3>3
    <2>4. CASE g = f
        <3>1. Refs(g)' = Refs(g) \cup {c}
            BY <1>5, <2>4
        <3>2. Cardinality(Refs(g)') = IF c \in Refs(g) THEN Cardinality(Refs(g))
                                      ELSE Cardinality(Refs(g)) + 1
            BY <2>2, <3>1, FS_AddElement
        <3>3. page_refcount'[g] = page_refcount[g] + 1
            BY <2>4
        <3>5. QED
            BY <2>1, <2>2, <2>6, <3>2, <3>3
    <2>5. CASE g # f /\ g \notin Got(n)
        <3>1. Refs(g)' = Refs(g) \ {c}
            BY <1>5, <2>5
        <3>2. Cardinality(Refs(g)') = IF c \in Refs(g) THEN Cardinality(Refs(g)) - 1
                                      ELSE Cardinality(Refs(g))
            BY <2>2, <3>1, FS_RemoveElement
        <3>3. page_refcount'[g] = page_refcount[g]
            BY <2>2, <2>5
        <3>5. QED
            BY <2>1, <2>2, <2>6, <3>2, <3>3
    <2>7. QED
        BY <2>3, <2>4, <2>5
<1>17. \A x \in Added(r, a) : entry[r][x] = 0 /\ entry'[r][x] \in Got(n)
    <2> TAKE x \in Added(r, a)
    <2>1. PICK i \in Missing(r, a) : x = Chain[a][i]
        BY DEF Added
    <2>2. Nth(r, a, i) \in 1..n
        BY NthBijection
    <2>3. QED
        BY <1>6, <2>1, <2>2 DEF Got
<1>18. \A q \in Roots, t \in Tables :
           /\ t \in Places /\ <<q, t>> # c
           /\ ~ (q = r /\ t \in Added(r, a)) => entry'[q][t] = entry[q][t]
    <2>1. \A q \in Roots, t \in Tables : t \in Places /\ <<q, t>> # c
        BY <1>7 DEF Cell
    <2>2. QED
        BY <1>6, <2>1
<1>19. SharedStay' /\ \A x \in Added(r, a) : x \notin SharedTables
    <2>1. \A q \in Roots, t \in SharedTables : t \in Tables /\ entry[q][t] = Boot[Own][t] /\ entry[q][t] # 0
        BY MManAssumption, BootAssumption DEF MInv, SharedStay
    <2>2. \A x \in Added(r, a) : x \notin SharedTables
        BY <1>17, <2>1
    <2>3. \A q \in Roots, t \in SharedTables : entry'[q][t] = Boot[Own][t]
        BY <1>18, <2>1, <2>2
    <2>4. QED
        BY <2>2, <2>3 DEF SharedStay
<1>20. TablesPrivate'
    <2> SUFFICES ASSUME NEW q \in Roots, NEW t \in Tables, NEW g, g = entry'[q][t],
                        g \notin exposed', g # 0
                 PROVE  Refs(g)' = (IF t \in SharedTables THEN Roots ELSE {q}) \X {t}
        BY DEF TablesPrivate, Refs
    <2>0. g \in Frames \ exposed' /\ t \in Places /\ t # a
        BY <1>6, <1>7
    <2>1. CASE q = r /\ t \in Added(r, a)
        <3>1. PICK x \in Added(r, a) : Refs(g)' = {<<r, x>>}
            BY <1>5, <1>17, <2>0, <2>1
        <3>2. <<q, t>> \in Refs(g)'
            BY <2>0, InRefs
        <3>3. t \notin SharedTables
            BY <1>19, <2>1
        <3>4. Refs(g)' = {<<q, t>>}
            BY <3>1, <3>2
        <3>5. QED
            BY <3>3, <3>4
    <2>2. CASE ~ (q = r /\ t \in Added(r, a))
        <3>1. g = entry[q][t]
            BY <1>18, <2>2
        <3>2. Refs(g) = (IF t \in SharedTables THEN Roots ELSE {q}) \X {t}
            BY <2>0, <3>1 DEF MInv, TablesPrivate
        <3>6. <<q, t>> \in Refs(g)
            BY <3>2
        <3>3. g \notin Got(n)
            BY <1>4, <2>0, <3>6
        <3>4. g # f
            <4>1. CASE f = free[k] /\ k = n + 1
                <5>1. k \in 1..Len(free)
                    BY <1>1, <4>1
                <5>2. f \notin exposed => Refs(f) = {}
                    BY <1>2, <4>1, <5>1
                <5>3. QED
                    BY <2>0, <3>6, <5>2
            <4>2. CASE k = n
                BY <2>0, <3>1, <4>2
            <4>3. QED
                BY <4>1, <4>2
        <3>5. Refs(g)' = Refs(g) \ {c}
            BY <1>5, <2>0, <3>3, <3>4
        <3>7. c \notin Refs(g)
            BY <1>7, <2>0, <3>2
        <3>8. QED
            BY <3>2, <3>5, <3>7
    <2>3. QED
        BY <2>1, <2>2
<1>21. Kept'
    <2> SUFFICES ASSUME NEW g \in Ram, g \notin overwritten', g \notin exposed', g \notin heap,
                        Extra(g) = 0, Refs(g)' = {}
                 PROVE  g \in Range(free')
        BY DEF Kept, Extra, SharedPages, Shared
    <2>1. g \in Frames \ exposed' /\ g \notin overwritten /\ g \notin exposed /\ Entry(r, a) # g
        BY <1>6, <1>7 DEF Frames
    <2>2. g \notin Got(n) /\ g # f
        <3>1. g \in Got(n) => \E x \in Added(r, a) : Refs(g)' = {<<r, x>>}
            BY <1>5, <2>1
        <3>2. g = f => Refs(g)' = Refs(g) \cup {c}
            BY <1>5, <2>1
        <3>3. QED
            BY <3>1, <3>2
    <2>3. Refs(g)' = Refs(g) \ {c} /\ c \notin Refs(g)
        BY <1>5, <1>7, <2>1, <2>2
    <2>4. g \in Range(free)
        BY <2>1, <2>3 DEF MInv, Kept
    <2>5. PICK i \in 1..Len(free) : free[i] = g
        BY <2>4, RangeIs DEF MInv, MemType
    <2>6. ~ (i \in 1..n)
        BY <2>2, <2>5 DEF Got
    <2>7. i > k
        BY <1>1, <2>2, <2>5, <2>6
    <2>8. QED
        BY <1>1, <1>8, <2>5, <2>7
<1>22. HeapKept'
    <2> SUFFICES ASSUME NEW g \in heap, g \notin exposed' PROVE Refs(g)' = {}
        BY DEF HeapKept
    <2>1. g \in Frames \ exposed' /\ g \notin exposed /\ Refs(g) = {}
        BY DEF MInv, HeapKept, MemType
    <2>2. g \notin Got(n)
        BY <1>4, <2>1
    <2>3. g # f
        <3>1. CASE k = n + 1 /\ f = free[k]
            <4>1. k \in 1..Len(free)
                BY <1>1, <3>1
            <4>2. QED
                BY <1>2, <2>1, <3>1, <4>1
        <3>2. CASE k = n
            BY <2>1, <3>2
        <3>3. QED
            BY <3>1, <3>2
    <2>4. QED
        BY <1>5, <2>1, <2>2, <2>3
<1>23. QED
    BY <1>8, <1>9, <1>13, <1>15, <1>19, <1>20, <1>21, <1>22 DEF MInv

\* Nothing changes.
LEMMA MemoryUnchanged ==
    ASSUME MInv, UNCHANGED memory
    PROVE  MInv'
<1>1. entry' = entry /\ page_refcount' = page_refcount /\ free' = free
      /\ overwritten' = overwritten /\ exposed' = exposed /\ heap' = heap
    BY DEF memory
<1>2. \A f : Refs(f)' = Refs(f)
    BY <1>1 DEF Refs
<1>3. MemType' /\ FreeOnce' /\ SharedStay'
    BY <1>1 DEF MInv, MemType, FreeOnce, SharedStay
<1>4. FreeIsUnmapped' /\ Kept' /\ HeapKept'
    BY <1>1, <1>2 DEF MInv, FreeIsUnmapped, Kept, HeapKept
<1>5. CountsAreRefs'
    BY <1>1, <1>2 DEF MInv, CountsAreRefs
<1>6. TablesPrivate'
    BY <1>1 DEF MInv, TablesPrivate, Refs
<1>7. QED
    BY <1>3, <1>4, <1>5, <1>6 DEF MInv

\* A page is unmapped, and put on the list when its count says that this was its
\* last entry; it must not be there yet.
LEMMA UnmapStep ==
    ASSUME MInv, NEW r \in Roots, NEW a \in Addrs, mman_unmap(r, a),
           /\ Mapped(r, a) /\ Entry(r, a) \in exposed /\ page_refcount[Entry(r, a)] = 1
           => Entry(r, a) \notin Range(free)
    PROVE  MInv'
<1> SUFFICES ASSUME Mapped(r, a) PROVE MInv'
    BY MemoryUnchanged DEF mman_unmap
<1>0. PICK f, h, c : f = Entry(r, a) /\ h = Holder(r, a) /\ c = Cell(r, a)
    OBVIOUS
<1>2. /\ f # 0 /\ Decrement(f) /\ entry' = [entry EXCEPT ![h][a] = 0]
      /\ overwritten' = overwritten /\ exposed' = exposed /\ heap' = heap
    BY <1>0 DEF Mapped, mman_unmap
<1>3. /\ a \in Places /\ a \notin Tables /\ f \in Frames /\ 0 \notin Frames /\ h \in Roots
      /\ c = <<h, a>> /\ Tables \subseteq Places
      /\ \A g : c \in Refs(g) <=> f = g
    BY <1>0, <1>2, CellFacts DEF MInv, Cell
<1>4. /\ entry' \in [Roots -> [Places -> Frames \cup {0}]]
      /\ entry'[h][a] = 0
      /\ \A q \in Roots, x \in Places : ~ (q = h /\ x = a) => entry'[q][x] = entry[q][x]
    BY <1>2, <1>3 DEF MInv, MemType
<1>5. \A g \in Frames : Refs(g)' = Refs(g) \ {c}
    <2> TAKE g \in Frames
    <2>1. \A q \in Roots, x \in Places : <<q, x>> \in Refs(g)' <=> <<q, x>> \in Refs(g) \ {c}
        <3> TAKE q \in Roots, x \in Places
        <3>1. CASE q = h /\ x = a
            <4>1. g # 0 /\ entry'[q][x] # g
                BY <1>3, <1>4, <3>1
            <4>2. <<q, x>> \notin Refs(g)'
                BY <4>1 DEF Refs
            <4>3. QED
                BY <1>3, <3>1, <4>2
        <3>2. CASE ~ (q = h /\ x = a)
            <4>1. <<q, x>> # c
                BY <1>3, <3>2
            <4>2. QED
                BY <1>4, <3>2, <4>1, InRefs
        <3>3. QED
            BY <3>1, <3>2
    <2>2. Refs(g)' \subseteq Roots \X Places /\ Refs(g) \ {c} \subseteq Roots \X Places
        BY DEF Refs
    <2>3. QED
        BY <2>1, <2>2, RefsEqual
<1>6. c \in Refs(f) /\ \A g \in Frames : g # f => c \notin Refs(g)
    BY <1>3
<1>7. \A g \in Frames : g # f => Refs(g)' = Refs(g)
    BY <1>5, <1>6
<1>8. /\ IsFiniteSet(Refs(f)) /\ Cardinality(Refs(f)) \in Nat /\ Cardinality(Refs(f)) # 0
      /\ Cardinality(Refs(f)') = Cardinality(Refs(f)) - 1 /\ Extra(f) \in Nat
    <2>1. IsFiniteSet(Refs(f)) /\ Cardinality(Refs(f)) \in Nat /\ Extra(f) \in Nat
        BY <1>3, RefsFinite, ExtraNat
    <2>2. Cardinality(Refs(f)') = Cardinality(Refs(f)) - 1
        BY <1>3, <1>5, <1>6, <2>1, FS_RemoveElement
    <2>3. Cardinality(Refs(f)) # 0
        BY <1>6, <2>1, FS_EmptySet
    <2>4. QED
        BY <2>1, <2>2, <2>3
<1>9. page_refcount[f] = 1 => f \notin Range(free)
    <2>1. f \notin exposed => f \notin Range(free)
        BY <1>6 DEF MInv, FreeIsUnmapped
    <2>2. QED
        BY <1>0, <2>1
<1>10. /\ page_refcount \in [Frames -> Nat]
       /\ page_refcount' = [page_refcount EXCEPT ![f] = IF @ = 0 THEN 0 ELSE @ - 1]
    BY <1>2 DEF Decrement, MInv, MemType
<1>11. f \notin exposed =>
           /\ page_refcount[f] >= Cardinality(Refs(f)) + Extra(f)
           /\ f \notin overwritten => page_refcount[f] = Cardinality(Refs(f)) + Extra(f)
    BY <1>3 DEF MInv, CountsAreRefs
<1>12. \A i \in 1..Len(free) : free[i] \in Range(free)
    BY RangeIs DEF MInv, MemType
<1>13. /\ free' \in Seq(Frames)
       /\ FreeOnce'
       /\ \A g : g \in Range(free') <=> g \in Range(free) \/ (g = f /\ page_refcount[f] = 1)
    <2>1. CASE page_refcount[f] = 1
        <3>1. free' = <<f>> \o free
            BY <1>2, <2>1 DEF Decrement
        <3>3. free \in Seq(Frames) /\ Len(free) \in Nat
            BY DEF MInv, MemType
        <3>4. /\ free' \in Seq(Frames) /\ Len(free') = Len(free) + 1 /\ free'[1] = f
              /\ \A i \in 2..Len(free) + 1 : free'[i] = free[i - 1] /\ i - 1 \in 1..Len(free)
            BY <1>3, <3>1, <3>3
        <3>5. FreeOnce'
            <4> SUFFICES ASSUME NEW i \in 1..Len(free'), NEW j \in 1..Len(free'),
                                free'[i] = free'[j], i # j
                         PROVE  FALSE
                BY DEF FreeOnce
            <4>1. \A m \in 2..Len(free) + 1 : free'[m] # f
                BY <1>9, <1>12, <2>1, <3>4
            <4>2. CASE i = 1 \/ j = 1
                BY <3>3, <3>4, <4>1, <4>2
            <4>3. CASE i # 1 /\ j # 1
                <5>1. i - 1 \in 1..Len(free) /\ j - 1 \in 1..Len(free) /\ free[i - 1] = free[j - 1]
                    BY <3>3, <3>4, <4>3
                <5>2. i - 1 = j - 1
                    BY <5>1 DEF MInv, FreeOnce
                <5>3. QED
                    BY <3>3, <5>2
            <4>4. QED
                BY <4>2, <4>3
        <3>6. ASSUME NEW g PROVE g \in Range(free') <=> g \in Range(free) \/ g = f
            <4>1. g \in Range(free') <=> \E i \in 1..Len(free') : free'[i] = g
                BY <3>4, RangeIs
            <4>2. g \in Range(free) <=> \E i \in 1..Len(free) : free[i] = g
                BY <3>3, RangeIs
            <4>3. ASSUME NEW i \in 1..Len(free), free[i] = g PROVE g \in Range(free')
                <5>1. i + 1 \in 2..Len(free) + 1 /\ (i + 1) - 1 = i /\ i + 1 \in 1..Len(free')
                    BY <3>3, <3>4
                <5>2. free'[i + 1] = g
                    BY <3>4, <4>3, <5>1
                <5>3. QED
                    BY <4>1, <5>1, <5>2
            <4>4. f \in Range(free')
                <5>1. 1 \in 1..Len(free') /\ free'[1] = f
                    BY <3>3, <3>4
                <5>2. QED
                    BY <3>4, <5>1, RangeIs
            <4>5. ASSUME NEW i \in 1..Len(free'), free'[i] = g
                  PROVE  g \in Range(free) \/ g = f
                <5>1. CASE i = 1
                    BY <3>4, <4>5, <5>1
                <5>2. CASE i # 1
                    <6>1. i \in 2..Len(free) + 1
                        BY <3>3, <3>4, <5>2
                    <6>2. g = free[i - 1] /\ i - 1 \in 1..Len(free)
                        BY <3>4, <4>5, <6>1
                    <6>3. QED
                        BY <1>12, <6>2
                <5>3. QED
                    BY <5>1, <5>2
            <4>6. QED
                BY <4>1, <4>2, <4>3, <4>4, <4>5
        <3>7. QED
            BY <2>1, <3>4, <3>5, <3>6
    <2>2. CASE page_refcount[f] # 1
        BY <1>2, <2>2 DEF Decrement, MInv, MemType, FreeOnce
    <2>3. QED
        BY <2>1, <2>2
<1>14. MemType'
    <2>1. page_refcount' \in [Frames -> Nat]
        <3>1. page_refcount[f] \in Nat
            BY <1>3, <1>10
        <3>2. (IF page_refcount[f] = 0 THEN 0 ELSE page_refcount[f] - 1) \in Nat
            BY <3>1
        <3>3. QED
            BY <1>10, <3>2
    <2>2. QED
        BY <1>2, <1>4, <1>13, <2>1 DEF MInv, MemType
<1>15. FreeIsUnmapped'
    <2> SUFFICES ASSUME NEW g \in Range(free') \ exposed PROVE Refs(g)' = {} /\ g \notin heap
        BY <1>2 DEF FreeIsUnmapped
    <2>1. CASE g \in Range(free)
        <3>1. Refs(g) = {} /\ g \in Frames /\ g \notin heap
            BY <2>1 DEF MInv, FreeIsUnmapped, MemType, Range
        <3>2. QED
            BY <1>5, <3>1
    <2>2. CASE g = f /\ page_refcount[f] = 1
        <3>1. Cardinality(Refs(f)') = 0
            BY <1>8, <1>11, <2>2
        <3>2. IsFiniteSet(Refs(f)')
            BY RefsFinite
        <3>3. f \notin heap
            BY <1>6, <2>2 DEF MInv, HeapKept
        <3>4. QED
            BY <2>2, <3>1, <3>2, <3>3, FS_EmptySet
    <2>3. QED
        BY <1>13, <2>1, <2>2
<1>16. CountsAreRefs'
    <2> SUFFICES ASSUME NEW g \in Frames \ exposed
                 PROVE  /\ page_refcount'[g] >= Cardinality(Refs(g)') + Extra(g)
                        /\ g \notin overwritten =>
                               page_refcount'[g] = Cardinality(Refs(g)') + Extra(g)
        BY <1>2 DEF CountsAreRefs, Extra
    <2>1. /\ page_refcount[g] >= Cardinality(Refs(g)) + Extra(g)
          /\ g \notin overwritten => page_refcount[g] = Cardinality(Refs(g)) + Extra(g)
          /\ page_refcount[g] \in Nat
        BY <1>10 DEF MInv, CountsAreRefs
    <2>2. CASE g = f
        <3>1. page_refcount'[g] = page_refcount[g] - 1
            BY <1>3, <1>8, <1>10, <2>1, <2>2
        <3>2. QED
            BY <1>8, <2>1, <2>2, <3>1
    <2>3. CASE g # f
        <3>1. page_refcount'[g] = page_refcount[g] /\ Refs(g)' = Refs(g)
            BY <1>7, <1>10, <2>3
        <3>2. QED
            BY <2>1, <3>1
    <2>4. QED
        BY <2>2, <2>3
<1>18. \A q \in Roots, t \in Tables : t \in Places /\ entry'[q][t] = entry[q][t]
    BY <1>3, <1>4
<1>19. SharedStay'
    BY <1>18, MManAssumption DEF MInv, SharedStay
<1>20. TablesPrivate'
    <2> SUFFICES ASSUME NEW q \in Roots, NEW t \in Tables, NEW g, g = entry'[q][t],
                        g \notin exposed, g # 0
                 PROVE  Refs(g)' = (IF t \in SharedTables THEN Roots ELSE {q}) \X {t}
        BY <1>2 DEF TablesPrivate, Refs
    <2>1. g \in Frames
        BY <1>18 DEF MInv, MemType
    <2>2. Refs(g) = (IF t \in SharedTables THEN Roots ELSE {q}) \X {t}
        BY <1>18 DEF MInv, TablesPrivate
    <2>3. c \notin Refs(g)
        BY <1>3, <2>2
    <2>4. QED
        BY <1>5, <2>1, <2>2, <2>3
<1>21. Kept'
    <2> SUFFICES ASSUME NEW g \in Ram, g \notin overwritten, g \notin exposed, g \notin heap,
                        Extra(g) = 0, Refs(g)' = {}
                 PROVE  g \in Range(free')
        BY <1>2 DEF Kept, Extra, SharedPages, Shared
    <2>0. g \in Frames
        BY DEF Frames
    <2>1. CASE g # f
        <3>1. Refs(g) = {}
            BY <1>7, <2>0, <2>1
        <3>2. QED
            BY <1>13, <3>1 DEF MInv, Kept
    <2>2. CASE g = f
        <3>1. Cardinality(Refs(f)') = 0
            BY <2>2, FS_EmptySet
        <3>2. page_refcount[f] = Cardinality(Refs(f)) + Extra(f) /\ Extra(f) = 0
            BY <1>11, <2>2
        <3>3. page_refcount[f] = 1
            BY <1>8, <3>1, <3>2
        <3>4. QED
            BY <1>13, <2>2, <3>3
    <2>3. QED
        BY <2>1, <2>2
<1>22. HeapKept'
    <2>1. \A g \in heap \ exposed : g \in Frames /\ Refs(g) = {}
        BY DEF MInv, HeapKept, MemType
    <2>2. QED
        BY <1>2, <1>5, <2>1 DEF HeapKept
<1>23. QED
    BY <1>13, <1>14, <1>15, <1>16, <1>19, <1>20, <1>21, <1>22 DEF MInv

\* The heap takes the first frame of the list, and nothing counts it.
LEMMA HeapStep ==
    ASSUME MInv, free # <<>>, heap' = heap \cup {free[1]}, Getpages(1),
           UNCHANGED <<entry, page_refcount, overwritten, exposed>>
    PROVE  MInv'
<1>1. /\ entry' = entry /\ page_refcount' = page_refcount /\ overwritten' = overwritten
      /\ exposed' = exposed
    OBVIOUS
<1>2. \A f : Refs(f)' = Refs(f)
    BY <1>1 DEF Refs
<1>3. free \in Seq(Frames) /\ Len(free) \in Nat /\ 1 \in 1..Len(free) /\ 1 <= Len(free)
    BY DEF MInv, MemType
<1>4. free[1] \in Frames /\ free[1] \in Range(free)
    BY <1>3, RangeIs
<1>5. /\ free' \in Seq(Frames) /\ FreeOnce'
      /\ \A g : g \in Range(free') <=> \E i \in 2..Len(free) : g = free[i]
    BY <1>3, ListAfter DEF MInv
<1>6. \A g : g \in Range(free') <=> g \in Range(free) /\ g # free[1]
    <2> TAKE g
    <2>1. g \in Range(free) <=> \E i \in 1..Len(free) : free[i] = g
        BY <1>3, RangeIs
    <2>2. \A i \in 1..Len(free) : i = 1 \/ i \in 2..Len(free)
        BY <1>3
    <2>3. \A i \in 2..Len(free) : i \in 1..Len(free) /\ free[i] # free[1]
        BY <1>3 DEF MInv, FreeOnce
    <2>4. QED
        BY <1>5, <2>1, <2>2, <2>3
<1>7. MemType' /\ SharedStay'
    BY <1>1, <1>4, <1>5 DEF MInv, MemType, SharedStay
<1>8. FreeIsUnmapped' /\ Kept' /\ HeapKept'
    BY <1>1, <1>2, <1>4, <1>6 DEF MInv, FreeIsUnmapped, Kept, HeapKept, Extra, SharedPages,
              Shared
<1>9. CountsAreRefs'
    BY <1>1, <1>2 DEF MInv, CountsAreRefs
<1>10. TablesPrivate'
    BY <1>1 DEF MInv, TablesPrivate, Refs
<1>11. QED
    BY <1>5, <1>7, <1>8, <1>9, <1>10 DEF MInv

----------------------------------------------------------------------------
(* The functions of mman.c. *)

\* mman_anonymous keeps the counting invariants.
LEMMA AnonymousStep ==
    ASSUME MInv, NEW r \in Roots, NEW a \in Addrs, mman_anonymous(r, a)
    PROVE  MInv'
<1> DEFINE n == Tabled(r, a)
<1>1. n \in Nat /\ n < Len(free) /\ Len(free) \in Nat
    BY NthBijection DEF mman_anonymous, MInv, MemType
<1>2. n + 1 \in Nat /\ n + 1 \in 1..Len(free) /\ n + 1 <= Len(free)
    BY <1>1
<1>3. PICK f : f = free[n + 1]
    OBVIOUS
<1>4. f \in Frames
    BY <1>2, <1>3 DEF MInv, MemType
<1>5. /\ WriteEntry(r, a, f) /\ Getpages(n + 1) /\ Increment(Got(n + 1), {})
      /\ exposed' = exposed /\ heap' = heap
    BY <1>3 DEF mman_anonymous
<1>6. \A g : g \in Got(n + 1) <=> g \in Got(n) \/ g = f
    <2>1. \A i : i \in 1..n + 1 <=> i \in 1..n \/ i = n + 1
        BY <1>1
    <2>2. QED
        BY <1>3, <2>1 DEF Got
<1>7. /\ page_refcount' \in [Frames -> Nat]
      /\ \A g \in Frames :
             page_refcount'[g] = page_refcount[g] + (IF g \in Got(n + 1) THEN 1 ELSE 0)
                                                  + (IF g \in {} THEN 1 ELSE 0)
    BY <1>5, Incremented DEF MInv, MemType
<1>8. \A g \in Frames :
          page_refcount'[g] = page_refcount[g] + (IF g \in Got(n) \/ g = f THEN 1 ELSE 0)
    BY <1>6, <1>7 DEF MInv, MemType
<1>9. exposed' \subseteq Frames
    BY <1>5 DEF MInv, MemType
<1>10. ~ (n + 1 = n)
    BY <1>1
<1> HIDE DEF n
<1>11. QED
    BY <1>2, <1>3, <1>4, <1>5, <1>7, <1>8, <1>9, <1>10, MapStep DEF n

\* mman_physical keeps the counting invariants: they do not speak of its frame.
LEMMA PhysicalStep ==
    ASSUME MInv, NEW r \in Roots, NEW a \in Addrs, NEW f \in Frames, mman_physical(r, a, f)
    PROVE  MInv'
<1> DEFINE n == Tabled(r, a)
<1>1. n \in Nat /\ n <= Len(free)
    BY NthBijection DEF mman_physical
<1>2. /\ WriteEntry(r, a, f) /\ Getpages(n) /\ Increment(Got(n), {})
      /\ exposed' = exposed \cup {f} /\ heap' = heap
    BY DEF mman_physical
<1>3. /\ page_refcount' \in [Frames -> Nat]
      /\ \A g \in Frames :
             page_refcount'[g] = page_refcount[g] + (IF g \in Got(n) THEN 1 ELSE 0)
                                                  + (IF g \in {} THEN 1 ELSE 0)
    BY <1>2, Incremented DEF MInv, MemType
<1>4. \A g \in Frames \ exposed' :
          page_refcount'[g] = page_refcount[g] + (IF g \in Got(n) \/ g = f THEN 1 ELSE 0)
    BY <1>2, <1>3 DEF MInv, MemType
<1>5. exposed \subseteq exposed' /\ exposed' \subseteq Frames /\ f \in exposed'
    BY <1>2 DEF MInv, MemType
<1> HIDE DEF n
<1>6. QED
    BY <1>1, <1>2, <1>3, <1>4, <1>5, MapStep DEF n

\* mman_mirror keeps the counting invariants.
LEMMA MirrorStep ==
    ASSUME MInv, NEW r \in Roots, NEW a \in Addrs, NEW sr \in Roots, NEW sa \in Addrs,
           mman_mirror(r, a, sr, sa)
    PROVE  MInv'
<1> SUFFICES ASSUME ~ Refused(r, a, sr, sa) PROVE MInv'
    BY MemoryUnchanged DEF mman_mirror
<1> DEFINE n == Tabled(r, a)
<1>1. n \in Nat /\ n <= Len(free)
    BY NthBijection DEF mman_mirror
<1>2. PICK f : f = Entry(sr, sa)
    OBVIOUS
<1>3. f # 0 /\ f \in Frames /\ sa \notin Tables /\ Cell(sr, sa) \in Refs(f) /\ Cell(sr, sa)[2] = sa
    BY <1>2, CellFacts DEF MInv, Refused, Mapped
<1>4. /\ WriteEntry(r, a, f) /\ Getpages(n) /\ Increment(Got(n), {f})
      /\ exposed' = exposed /\ heap' = heap
    BY <1>2 DEF mman_mirror
<1>5. f \notin exposed => f \notin Range(free)
    BY <1>3 DEF MInv, FreeIsUnmapped
<1>6. ASSUME NEW q \in Roots, NEW t \in Tables, f \notin exposed PROVE entry[q][t] # f
    <2>1. entry[q][t] = f => Refs(f) = (IF t \in SharedTables THEN Roots ELSE {q}) \X {t}
        BY <1>3, <1>6 DEF MInv, TablesPrivate
    <2>2. QED
        BY <1>3, <2>1
<1>7. f \notin exposed => f \notin Got(n)
    <2>1. \A i \in 1..n : i \in 1..Len(free)
        BY <1>1 DEF MInv, MemType
    <2>2. \A i \in 1..n : free[i] \in Range(free)
        BY <2>1, RangeIs DEF MInv, MemType
    <2>3. QED
        BY <1>5, <2>2 DEF Got
<1>8. /\ page_refcount' \in [Frames -> Nat]
      /\ \A g \in Frames :
             page_refcount'[g] = page_refcount[g] + (IF g \in Got(n) THEN 1 ELSE 0)
                                                  + (IF g \in {f} THEN 1 ELSE 0)
    BY <1>4, Incremented DEF MInv, MemType
<1>9. \A g \in Frames \ exposed' :
          page_refcount'[g] = page_refcount[g] + (IF g \in Got(n) \/ g = f THEN 1 ELSE 0)
    <2> TAKE g \in Frames \ exposed'
    <2>1. page_refcount[g] \in Nat /\ g \in Frames
        BY DEF MInv, MemType
    <2>2. ~ (g = f /\ g \in Got(n))
        BY <1>4, <1>7
    <2>3. QED
        BY <1>8, <2>1, <2>2
<1>10. exposed' \subseteq Frames /\ Refs(f) # {}
    BY <1>3, <1>4 DEF MInv, MemType
<1> HIDE DEF n
<1>11. QED
    BY <1>1, <1>3, <1>4, <1>5, <1>6, <1>8, <1>9, <1>10, MapStep DEF n

----------------------------------------------------------------------------
(* What those functions do to the entries of pages, and to what is mapped. *)

\* The effect on pages of mapping frame f.  The entries of the pages below shared
\* tables are not the root's own: nothing the proofs need is there.
MappedTo(r, a, f) ==
    /\ entry'[Holder(r, a)][a] = f /\ Mapped(r, a)'
    /\ \A q \in Roots, x \in Addrs \ Shared :
           ~ (q = r /\ x = a) => entry'[q][x] = entry[q][x]
    /\ \A q \in Roots, x \in Addrs : Mapped(q, x) => Mapped(q, x)'
    /\ \A g \in Frames \ exposed :
           g # f /\ Refs(g) # {} /\ Cell(r, a) \notin Refs(g) => Refs(g)' = Refs(g)

\* A page is mapped, with its tables, once its entry is written, and nothing else
\* changes place.
LEMMA WriteMaps ==
    ASSUME MInv, NEW r \in Roots, NEW a \in Addrs, NEW f \in Frames,
           Tabled(r, a) <= Len(free), WriteEntry(r, a, f)
    PROVE  /\ MappedTo(r, a, f)
           /\ f \notin exposed /\ f \notin Got(Tabled(r, a)) =>
                  Refs(f)' = Refs(f) \cup {Cell(r, a)}
<1>1. /\ entry'[Holder(r, a)][a] = f
      /\ Added(r, a) \subseteq Tables
      /\ \A i \in Missing(r, a) : entry'[r][Chain[a][i]] = free[Nth(r, a, i)]
      /\ \A q \in Roots, x \in Places :
             <<q, x>> # Cell(r, a) /\ ~ (q = r /\ x \in Added(r, a)) =>
                 entry'[q][x] = entry[q][x]
    BY WriteEffect DEF MInv
<1>2. /\ f # 0 /\ a \notin Tables /\ Addrs \subseteq Places /\ Tables \subseteq Places
      /\ \A x \in Addrs : x \notin Tables
      /\ 0 \notin Frames /\ \A x \in Addrs : \A i \in 1..Len(Chain[x]) : Chain[x][i] \in Tables
      /\ Cell(r, a) = <<Holder(r, a), a>> /\ Own \in Roots
    BY MManAssumption DEF Places, Cell
<1>3. \A q \in Roots, x \in Addrs : <<q, x>> # Cell(r, a) => entry'[q][x] = entry[q][x]
    BY <1>1, <1>2
<1>4. \A x \in Added(r, a) : entry'[r][x] # 0
    <2> TAKE x \in Added(r, a)
    <2>1. PICK i \in Missing(r, a) : x = Chain[a][i]
        BY DEF Added
    <2>2. Nth(r, a, i) \in 1..Tabled(r, a) /\ Tabled(r, a) \in Nat
        BY NthBijection
    <2>3. Nth(r, a, i) \in 1..Len(free)
        BY <2>2 DEF MInv, MemType
    <2>4. free[Nth(r, a, i)] \in Frames
        BY <2>3 DEF MInv, MemType
    <2>5. QED
        BY <1>1, <1>2, <2>1, <2>4
<1>5. \A q \in Roots, t \in Tables : entry[q][t] # 0 => entry'[q][t] # 0
    <2> TAKE q \in Roots, t \in Tables
    <2>1. CASE q = r /\ t \in Added(r, a)
        BY <1>4, <2>1
    <2>2. CASE ~ (q = r /\ t \in Added(r, a))
        <3>1. <<q, t>> # Cell(r, a) /\ t \in Places
            BY <1>2
        <3>2. QED
            BY <1>1, <2>2, <3>1
    <2>3. QED
        BY <2>1, <2>2
<1>6. \A q \in Roots, x \in Addrs : Missing(q, x) = {} => Missing(q, x)' = {}
    BY <1>2, <1>5 DEF Missing
<1>7. Missing(r, a)' = {}
    <2> SUFFICES ASSUME NEW i \in 1..Len(Chain[a]) PROVE entry'[r][Chain[a][i]] # 0
        BY DEF Missing
    <2>1. CASE i \in Missing(r, a)
        BY <1>4, <2>1 DEF Added
    <2>2. CASE i \notin Missing(r, a)
        BY <1>2, <1>5, <2>2 DEF Missing
    <2>3. QED
        BY <2>1, <2>2
<1>8. Mapped(r, a)'
    BY <1>1, <1>2, <1>7 DEF Mapped, Entry, Holder, Shared
<1>9. \A q \in Roots, x \in Addrs : Mapped(q, x) => Mapped(q, x)'
    <2> SUFFICES ASSUME NEW q \in Roots, NEW x \in Addrs, Mapped(q, x) PROVE Mapped(q, x)'
        OBVIOUS
    <2>1. Missing(q, x)' = {} /\ entry[Holder(q, x)][x] # 0
        BY <1>6 DEF Mapped, Entry
    <2>2. Holder(q, x) \in Roots
        BY CellFacts
    <2>3. entry'[Holder(q, x)][x] # 0
        <3>1. CASE <<Holder(q, x), x>> = Cell(r, a)
            BY <1>1, <1>2, <3>1
        <3>2. CASE <<Holder(q, x), x>> # Cell(r, a)
            BY <1>3, <2>1, <2>2, <3>2
        <3>3. QED
            BY <3>1, <3>2
    <2>4. QED
        BY <2>1, <2>3 DEF Mapped, Entry, Holder, Shared
<1>10. ASSUME NEW g \in Frames \ exposed, g # f, Refs(g) # {}, Cell(r, a) \notin Refs(g)
       PROVE  Refs(g)' = Refs(g)
    <2>1. g \notin Got(Tabled(r, a))
        <3>1. \A i \in 1..Tabled(r, a) : i \in 1..Len(free)
            BY NthBijection DEF MInv, MemType
        <3>2. \A i \in 1..Tabled(r, a) : free[i] \in Range(free)
            BY <3>1, RangeIs DEF MInv, MemType
        <3>3. QED
            BY <1>10, <3>2 DEF Got, MInv, FreeIsUnmapped
    <2>2. Refs(g)' = Refs(g) \ {Cell(r, a)}
        BY <1>10, <2>1, RefsAfter DEF MInv
    <2>3. QED
        BY <1>10, <2>2
<1>11. f \notin exposed /\ f \notin Got(Tabled(r, a)) => Refs(f)' = Refs(f) \cup {Cell(r, a)}
    BY RefsAfter DEF MInv
<1>12. \A q \in Roots, x \in Addrs \ Shared : ~ (q = r /\ x = a) => entry'[q][x] = entry[q][x]
    <2> TAKE q \in Roots, x \in Addrs \ Shared
    <2> HAVE ~ (q = r /\ x = a)
    <2>1. <<q, x>> # Cell(r, a)
        BY <1>2 DEF Holder
    <2>2. QED
        BY <1>3, <2>1
<1>13. QED
    BY <1>1, <1>8, <1>9, <1>10, <1>11, <1>12 DEF MappedTo

\* The page of mman_anonymous is counted, and new unless a task has mapped it by
\* its address: nothing else maps its frame.
LEMMA AnonymousMaps ==
    ASSUME MInv, NEW r \in Roots, NEW a \in Addrs, mman_anonymous(r, a)
    PROVE  \E f \in Frames :
               /\ MappedTo(r, a, f) /\ page_refcount'[f] >= 1
               /\ f \notin exposed => Refs(f) = {} /\ Refs(f)' = {Cell(r, a)}
<1> DEFINE n == Tabled(r, a)
<1>1. n \in Nat /\ n < Len(free) /\ Len(free) \in Nat
    BY NthBijection DEF mman_anonymous, MInv, MemType
<1>2. PICK f : f = free[n + 1]
    OBVIOUS
<1>3. f \in Frames /\ f \in Range(free) /\ n + 1 \in 1..n + 1
    BY <1>1, <1>2, RangeIs DEF MInv, MemType
<1>4. f \notin Got(n)
    <2>1. \A i \in 1..n : free[i] # free[n + 1]
        BY <1>1 DEF MInv, FreeOnce
    <2>2. QED
        BY <1>2, <2>1 DEF Got
<1>5. WriteEntry(r, a, f) /\ Increment(Got(n + 1), {})
    BY <1>2 DEF mman_anonymous
<1>6. MappedTo(r, a, f) /\ (f \notin exposed => Refs(f)' = Refs(f) \cup {Cell(r, a)})
    BY <1>1, <1>3, <1>4, <1>5, WriteMaps
<1>7. f \notin exposed => Refs(f) = {}
    BY <1>3 DEF MInv, FreeIsUnmapped
<1>8. page_refcount'[f] >= 1
    <2>1. f \in Got(n + 1)
        BY <1>2, <1>3 DEF Got
    <2>2. page_refcount'[f] = page_refcount[f] + (IF f \in Got(n + 1) THEN 1 ELSE 0)
                                               + (IF f \in {} THEN 1 ELSE 0)
        BY <1>3, <1>5, Incremented DEF MInv, MemType
    <2>3. QED
        BY <1>3, <2>1, <2>2 DEF MInv, MemType
<1>9. QED
    BY <1>3, <1>6, <1>7, <1>8

\* mman_mirror maps the frame of the page it is given, once more.
LEMMA MirrorMaps ==
    ASSUME MInv, NEW r \in Roots, NEW a \in Addrs, NEW sr \in Roots, NEW sa \in Addrs,
           ~ Refused(r, a, sr, sa), NEW f, f = Entry(sr, sa), mman_mirror(r, a, sr, sa)
    PROVE  /\ f \in Frames /\ MappedTo(r, a, f) /\ page_refcount'[f] >= page_refcount[f] + 1
           /\ \A g \in Frames : page_refcount'[g] >= page_refcount[g]
           /\ f \notin exposed => Refs(f)' = Refs(f) \cup {Cell(r, a)}
<1> DEFINE n == Tabled(r, a)
<1>1. n \in Nat /\ n <= Len(free) /\ WriteEntry(r, a, f) /\ Increment(Got(n), {f})
    BY NthBijection DEF mman_mirror
<1>2. f \in Frames /\ Cell(sr, sa) \in Refs(f)
    BY CellFacts DEF MInv, Refused, Mapped
<1>3. \A i \in 1..n : free[i] \in Range(free)
    <2>1. \A i \in 1..n : i \in 1..Len(free)
        BY <1>1 DEF MInv, MemType
    <2>2. QED
        BY <2>1, RangeIs DEF MInv, MemType
<1>4. f \notin exposed => f \notin Got(n)
    BY <1>2, <1>3 DEF Got, MInv, FreeIsUnmapped
<1>5. \A g \in Frames :
          page_refcount'[g] = page_refcount[g] + (IF g \in Got(n) THEN 1 ELSE 0)
                                               + (IF g \in {f} THEN 1 ELSE 0)
    BY <1>1, Incremented DEF MInv, MemType
<1>6. \A g \in Frames : page_refcount'[g] >= page_refcount[g]
    BY <1>5 DEF MInv, MemType
<1>7. page_refcount'[f] >= page_refcount[f] + 1
    <2>1. f \in {f} /\ page_refcount[f] \in Nat
        BY <1>2 DEF MInv, MemType
    <2>2. QED
        BY <1>2, <1>5, <2>1
<1>8. QED
    BY <1>1, <1>2, <1>4, <1>6, <1>7, WriteMaps

\* mman_anonymous counts no page down.
LEMMA AnonymousCounts ==
    ASSUME MInv, NEW r \in Roots, NEW a \in Addrs, mman_anonymous(r, a)
    PROVE  /\ exposed' = exposed
           /\ \A g \in Frames : page_refcount'[g] >= page_refcount[g]
<1>1. Increment(Got(Tabled(r, a) + 1), {}) /\ exposed' = exposed
    BY DEF mman_anonymous
<1>2. \A g \in Frames :
          page_refcount'[g] = page_refcount[g] + (IF g \in Got(Tabled(r, a) + 1) THEN 1 ELSE 0)
                                               + (IF g \in {} THEN 1 ELSE 0)
    BY <1>1, Incremented DEF MInv, MemType
<1>3. QED
    BY <1>1, <1>2 DEF MInv, MemType

\* mman_unmap takes away the page it names and no other.
LEMMA UnmapUnmaps ==
    ASSUME MInv, NEW r \in Roots, NEW a \in Addrs, mman_unmap(r, a)
    PROVE  /\ exposed' = exposed
           /\ Mapped(r, a) => entry'[Holder(r, a)][a] = 0
           /\ \A q \in Roots, x \in Addrs \ Shared :
                  ~ (q = r /\ x = a) => /\ entry'[q][x] = entry[q][x]
                                        /\ Mapped(q, x) => Mapped(q, x)'
<1>1. CASE ~ Mapped(r, a)
    BY <1>1 DEF mman_unmap, memory, Mapped, Missing, Entry, Holder, Shared
<1>2. CASE Mapped(r, a)
    <2>0. PICK h : h = Holder(r, a)
        OBVIOUS
    <2>1. entry' = [entry EXCEPT ![h][a] = 0] /\ exposed' = exposed
        BY <1>2, <2>0 DEF mman_unmap
    <2>2. a \in Places /\ a \notin Tables /\ Addrs \subseteq Places /\ Tables \subseteq Places
          /\ h \in Roots
          /\ \A x \in Addrs : \A i \in 1..Len(Chain[x]) : Chain[x][i] \in Tables
        BY <2>0, CellFacts, MManAssumption
    <2>3. /\ entry'[h][a] = 0
          /\ \A q \in Roots, x \in Places : ~ (q = h /\ x = a) => entry'[q][x] = entry[q][x]
        BY <2>1, <2>2 DEF MInv, MemType
    <2>4. \A q \in Roots, x \in Addrs : \A i \in 1..Len(Chain[x]) :
              entry'[q][Chain[x][i]] = entry[q][Chain[x][i]]
        BY <2>2, <2>3
    <2>5. \A q \in Roots, x \in Addrs : Missing(q, x)' = Missing(q, x)
        BY <2>4 DEF Missing
    <2>6. ASSUME NEW q \in Roots, NEW x \in Addrs \ Shared, ~ (q = r /\ x = a)
          PROVE  entry'[q][x] = entry[q][x] /\ (Mapped(q, x) => Mapped(q, x)')
        <3>1. ~ (q = h /\ x = a)
            BY <2>0, <2>6 DEF Holder
        <3>2. entry'[q][x] = entry[q][x]
            BY <2>2, <2>3, <3>1
        <3>3. Holder(q, x) = q /\ Holder(q, x)' = q
            BY DEF Holder, Shared
        <3>4. QED
            BY <2>5, <3>2, <3>3 DEF Mapped, Entry
    <2>7. QED
        BY <2>0, <2>1, <2>3, <2>6
<1>3. QED
    BY <1>1, <1>2

\* The search of the loops over addresses finds one that is not mapped.
LEMMA FirstIsUnmapped ==
    ASSUME NEW r \in Roots, NEW S, NEW s \in Seq(S), Unmapped(r, s) # {}
    PROVE  FirstUnmapped(r, s) \in S /\ ~ Mapped(r, FirstUnmapped(r, s))
<1> DEFINE U == Unmapped(r, s)
           R == OpToRel(<, Nat)
<1>1. U \subseteq 1..Len(s) /\ Len(s) \in Nat /\ U \subseteq Nat /\ \A i \in U : ~ Mapped(r, s[i])
    BY DEF Unmapped
<1> HIDE DEF U
<1>2. \A x, y \in Nat : x < y => <<x, y>> \in R
    BY DEF OpToRel
<1>3. IsWellFoundedOn(R, Nat)
    BY NatLessThanWellFounded
<1> HIDE DEF R
<1>4. PICK i \in U : \A j \in U : <<j, i>> \notin R
    BY <1>1, <1>3, WFMin DEF U
<1>5. \A j \in U : i <= j
    <2> TAKE j \in U
    <2>1. i \in Nat /\ j \in Nat /\ ~ (j < i)
        BY <1>1, <1>2, <1>4
    <2>2. QED
        BY <2>1
<1>6. PICK k : k = CHOOSE i_1 \in U : \A j \in U : i_1 <= j
    OBVIOUS
<1>7. k \in U
    BY <1>5, <1>6
<1>8. FirstUnmapped(r, s) = s[k]
    BY <1>6 DEF FirstUnmapped, U
<1>9. QED
    BY <1>1, <1>7, <1>8

----------------------------------------------------------------------------
(* The invariant of task_setup and of the channels. *)

SetupPhases ==
    {"storage", "temporary", "sin page", "sin", "gin page", "gin", "unmap temporary"}
Filling == {"sin page", "sin", "gin page", "gin", "unmap temporary"}

SetupType ==
    /\ phase \in SetupPhases \cup {"idle"} \cup Stopped
    /\ tasks \in 0..MaxTasks
    /\ root_id \in [Tasks -> Roots]
    /\ gs_base \in Addrs \cup {0} /\ addr \in Addrs \cup {0}
    /\ local \in [Tasks -> [Channels -> Addrs \cup {0}]]
    /\ requests \in 0..MaxRequests
    /\ phase \in SetupPhases => tasks \in Tasks
    /\ \A t \in 1..tasks : root_id[t] # Own

\* A page just added to the root of the task: it is counted, and has one entry,
\* unless a task has mapped its frame by the address before.
Fresh(a) ==
    /\ a \in Addrs \ Shared /\ Mapped(Root, a)
    /\ \E f \in Frames : /\ entry[Root][a] = f /\ page_refcount[f] >= 1
                         /\ f \notin exposed => Refs(f) = {<<Root, a>>}

\* The storage that is filled in: what is left to do to it cannot release it.
Filled ==
    /\ gs_base \in Addrs \ Shared
    /\ Mapped(Root, gs_base) /\ Mapped(Own, TEMPORARY_MAP_ADDRESS)
    /\ \E f \in Frames :
           /\ entry[Own][TEMPORARY_MAP_ADDRESS] = f /\ entry[Root][gs_base] = f
           /\ page_refcount[f] >= 2
           /\ f \notin exposed =>
                  Refs(f) = {<<Own, TEMPORARY_MAP_ADDRESS>>, <<Root, gs_base>>}

TemporaryInv ==
    /\ phase \in {"idle", "storage", "temporary"} => entry[Own][TEMPORARY_MAP_ADDRESS] = 0
    /\ phase = "temporary" => Fresh(gs_base)
    /\ phase \in Channels => Fresh(addr)
    /\ phase \in Filling => Filled

\* The channels that the scheduler has an address of.
Used == {p \in Tasks \X Channels : local[p[1]][p[2]] # 0}
At(p) == local[p[1]][p[2]]

ChannelInv ==
    /\ \A p \in Used : /\ At(p) \notin Shared /\ At(p) # TEMPORARY_MAP_ADDRESS
                       /\ Mapped(Own, At(p))
    /\ \A p, q \in Used :
           p # q => /\ At(p) # At(q)
                    /\ entry[Own][At(p)] = entry[Own][At(q)] => entry[Own][At(p)] \in exposed

IInv == MInv /\ SetupType /\ TemporaryInv /\ ChannelInv

\* The scheduler's local addresses in use are pages, each of one channel of a task.
LEMMA UsedAddrs ==
    ASSUME SetupType
    PROVE  /\ \A p \in Used : At(p) \in Addrs /\ p \in Tasks \X Channels
           /\ \A t \in Tasks, ch \in Channels : local[t][ch] # 0 => <<t, ch>> \in Used
BY DEF SetupType, Used, At

\* Import counts a frame once for each way there is to it.
LEMMA ImportCounts ==
    ASSUME entry = Boot, NEW f \in Frames
    PROVE  Cardinality(Walks(f)) + KmainCounts[f] = Cardinality(Refs(f)) + Extra(f)
<1>1. /\ 0 \notin Frames /\ Own \in Roots /\ Shared \subseteq Addrs /\ Addrs \subseteq Places
      /\ \A x \in Addrs : x \notin SharedTables
      /\ IsFiniteSet(Roots)
    BY MManAssumption DEF Places, Shared
<1>2. \A r \in Roots, x \in Places :
          Entry(r, x) = IF x \in Shared THEN Boot[Own][x] ELSE Boot[r][x]
    BY DEF Entry, Holder
<1>3. (\A r \in Roots, x \in Shared : r # Own => Boot[r][x] = 0) /\ KmainCounts[f] \in Nat
    BY BootAssumption
<1>4. CASE f \notin SharedPages
    <2>1. \A x \in Shared : Boot[Own][x] # f
        BY <1>1, <1>4 DEF SharedPages
    <2>2. \A r \in Roots, x \in Places : Entry(r, x) = f <=> entry[r][x] = f
        <3> TAKE r \in Roots, x \in Places
        <3>1. CASE x \in Shared
            BY <1>1, <1>2, <1>3, <2>1, <3>1
        <3>2. CASE x \notin Shared
            BY <1>2, <3>2
        <3>3. QED
            BY <3>1, <3>2
    <2>3. Walks(f) = Refs(f)
        BY <2>2 DEF Walks, Refs
    <2>4. Extra(f) = KmainCounts[f]
        BY <1>3, <1>4 DEF Extra
    <2>5. Cardinality(Refs(f)) \in Nat
        BY RefsFinite
    <2>6. QED
        BY <1>3, <2>3, <2>4, <2>5
<1>5. CASE f \in SharedPages
    <2>1. PICK a \in Shared : Boot[Own][a] = f
        BY <1>5 DEF SharedPages
    <2>2. ASSUME NEW r \in Roots, NEW x \in Places, Boot[r][x] = f
          PROVE  x = a /\ r = Own
        <3>1. a \in Places /\ Boot[r][x] = Boot[Own][a] /\ Boot[r][x] # 0
            BY <1>1, <2>1, <2>2
        <3>2. x = a /\ (r = Own \/ x \in SharedTables)
            BY <1>1, <3>1, BootAssumption
        <3>3. QED
            BY <1>1, <3>2
    <2>3. Refs(f) = {<<Own, a>>}
        <3>1. \A p \in Refs(f) : p = <<Own, a>>
            BY <2>2 DEF Refs
        <3>2. <<Own, a>> \in Refs(f)
            BY <1>1, <2>1 DEF Refs
        <3>3. QED
            BY <3>1, <3>2
    <2>4. \A r \in Roots, x \in Places : Entry(r, x) = f <=> x = a
        <3> TAKE r \in Roots, x \in Places
        <3>1. CASE x \in Shared
            BY <1>1, <1>2, <2>1, <2>2, <3>1
        <3>2. CASE x \notin Shared
            <4>1. x # a /\ Entry(r, x) = Boot[r][x]
                BY <1>2, <3>2
            <4>2. QED
                BY <2>2, <4>1
        <3>3. QED
            BY <3>1, <3>2
    <2>5. Walks(f) = Roots \X {a}
        <3>1. \A p \in Roots \X Places : p \in Walks(f) <=> p[2] = a
            BY <2>4 DEF Walks
        <3>2. Walks(f) \subseteq Roots \X Places /\ a \in Places
            BY <1>1 DEF Walks
        <3>3. QED
            BY <3>1, <3>2
    <2>6. Cardinality({a}) = 1 /\ IsFiniteSet({a}) /\ Cardinality({<<Own, a>>}) = 1
        BY FS_Singleton
    <2>7. Cardinality(Roots) \in Nat
        BY <1>1, FS_CardinalityType
    <2>8. Cardinality(Roots \X {a}) = Cardinality(Roots) * Cardinality({a})
        BY <1>1, <2>6, FS_Product
    <2>9. Cardinality(Walks(f)) = Cardinality(Roots)
        BY <2>5, <2>6, <2>7, <2>8
    <2>10. Cardinality(Refs(f)) = 1 /\ Extra(f) = KmainCounts[f] + (Cardinality(Roots) - 1)
        BY <1>5, <2>3, <2>6 DEF Extra
    <2>11. QED
        BY <1>3, <2>7, <2>9, <2>10
<1>6. QED
    BY <1>4, <1>5

\* What kmain leaves satisfies the invariant.
LEMMA InitInv ==
    Init => IInv
<1> SUFFICES ASSUME Init PROVE IInv
    OBVIOUS
<1>1. /\ entry = Boot /\ free = BootFree /\ overwritten = {} /\ exposed = {} /\ heap = {}
      /\ page_refcount = [f \in Frames |-> Cardinality(Walks(f)) + KmainCounts[f]]
    BY DEF Init
<1>2. /\ Frames = Ram \cup Devices /\ 0 \notin Frames
      /\ Addrs \subseteq Places /\ Tables \subseteq Places /\ SharedTables \subseteq Tables
    BY MManAssumption DEF Frames, Places
<1>3. \A f \in Frames : /\ page_refcount[f] = Cardinality(Refs(f)) + Extra(f)
                        /\ page_refcount[f] \in Nat
    <2> TAKE f \in Frames
    <2>1. page_refcount[f] = Cardinality(Refs(f)) + Extra(f)
        BY <1>1, ImportCounts
    <2>2. Cardinality(Refs(f)) \in Nat /\ Extra(f) \in Nat
        BY RefsFinite, ExtraNat
    <2>3. QED
        BY <2>1, <2>2
<1>4. \A f \in Ram : f \in Range(free) <=> Refs(f) = {}
    <2> TAKE f \in Ram
    <2>1. Refs(f) = {} => \A r \in Roots, x \in Places : entry[r][x] # f
        BY InRefs
    <2>2. (\A r \in Roots, x \in Places : entry[r][x] # f) => Refs(f) = {}
        <3>1. \A p \in Refs(f) : p[1] \in Roots /\ p[2] \in Places /\ entry[p[1]][p[2]] = f
            BY DEF Refs
        <3>2. QED
            BY <3>1
    <2>3. QED
        BY <1>1, <2>1, <2>2, BootAssumption
<1>6. MemType
    <2>1. page_refcount \in [Frames -> Nat]
        BY <1>1, <1>3
    <2>2. free \in Seq(Frames)
        BY <1>1, <1>2, BootAssumption
    <2>3. QED
        BY <1>1, <1>2, <2>1, <2>2, BootAssumption DEF MemType
<1>7. FreeOnce
    BY <1>1, BootAssumption DEF FreeOnce
<1>8. FreeIsUnmapped
    <2>1. free \in Seq(Ram)
        BY <1>1, BootAssumption
    <2>2. \A f \in Range(free) : f \in Ram
        BY <2>1 DEF Range
    <2>3. QED
        BY <1>1, <1>4, <2>2 DEF FreeIsUnmapped
<1>9. CountsAreRefs
    BY <1>3 DEF CountsAreRefs
<1>12. TablesPrivate
    <2> SUFFICES ASSUME NEW r \in Roots, NEW t \in Tables, entry[r][t] # 0
                 PROVE  Refs(entry[r][t]) = (IF t \in SharedTables THEN Roots ELSE {r}) \X {t}
        BY DEF TablesPrivate
    <2>1. t \in Places
        BY <1>2
    <2>2. \A q \in Roots, y \in Places :
              entry[q][y] = entry[r][t] => y = t /\ (q = r \/ t \in SharedTables)
        BY <1>1, <2>1, BootAssumption
    <2>3. t \in SharedTables => \A q \in Roots : entry[q][t] = entry[r][t]
        BY <1>1, BootAssumption
    <2>4. \A q \in Roots, y \in Places :
              <<q, y>> \in Refs(entry[r][t]) <=> y = t /\ (q = r \/ t \in SharedTables)
        BY <2>2, <2>3 DEF Refs
    <2>5. Refs(entry[r][t]) \subseteq Roots \X Places
        BY DEF Refs
    <2>6. (IF t \in SharedTables THEN Roots ELSE {r}) \X {t} \subseteq Roots \X Places
        BY <2>1
    <2>7. \A q \in Roots, y \in Places :
              <<q, y>> \in Refs(entry[r][t]) <=>
                  <<q, y>> \in (IF t \in SharedTables THEN Roots ELSE {r}) \X {t}
        BY <2>4
    <2>8. QED
        BY <2>5, <2>6, <2>7, RefsEqual
<1>13. Kept
    BY <1>4 DEF Kept
<1>14. HeapKept
    BY <1>1 DEF HeapKept
<1>15. SharedStay
    BY <1>1, BootAssumption DEF SharedStay
<1>16. SetupType
    BY MManAssumption DEF Init, SetupType, SetupPhases, Tasks, Channels
<1>17. TemporaryInv
    BY <1>1, BootAssumption DEF Init, TemporaryInv, Channels, Filling
<1>18. ChannelInv
    <2>1. Used = {}
        BY DEF Init, Used, Tasks, Channels
    <2>2. QED
        BY <2>1 DEF ChannelInv
<1>19. QED
    BY <1>6, <1>7, <1>8, <1>9, <1>12, <1>13, <1>14, <1>15, <1>16, <1>17, <1>18 DEF IInv, MInv

\* The channels stay where they are when no entry of the scheduler's pages of
\* channels changes.
LEMMA ChannelsKept ==
    ASSUME SetupType, ChannelInv, local' = local, exposed \subseteq exposed',
           \A x \in Addrs \ Shared : (\E p \in Used : At(p) = x) /\ Mapped(Own, x) =>
               entry'[Own][x] = entry[Own][x] /\ Mapped(Own, x)'
    PROVE  ChannelInv'
<1>1. Used' = Used /\ \A p : At(p)' = At(p)
    BY DEF Used, At
<1>2. ASSUME NEW p \in Used
      PROVE  /\ Mapped(Own, At(p))' /\ At(p) # TEMPORARY_MAP_ADDRESS /\ At(p) \notin Shared
             /\ entry'[Own][At(p)] = entry[Own][At(p)]
    <2>1. PICK x \in Addrs : x = At(p)
        BY UsedAddrs
    <2>2. Mapped(Own, x) /\ x # TEMPORARY_MAP_ADDRESS /\ x \notin Shared
        BY <2>1 DEF ChannelInv
    <2>3. entry'[Own][x] = entry[Own][x] /\ Mapped(Own, x)'
        BY <2>1, <2>2
    <2>4. At(p)' = x
        BY <1>1, <2>1
    <2>5. Mapped(Own, At(p))'
        BY <2>3, <2>4 DEF Mapped, Missing, Entry, Holder, Shared
    <2>6. QED
        BY <2>1, <2>2, <2>3, <2>5
<1>3. \A p, q \in Used :
          p # q => /\ At(p) # At(q)
                   /\ entry'[Own][At(p)] = entry'[Own][At(q)] => entry'[Own][At(p)] \in exposed'
    BY <1>2 DEF ChannelInv
<1>4. \A p \in Used : At(p) \notin Shared'
    BY <1>2 DEF Shared
<1>5. QED
    BY <1>1, <1>2, <1>3, <1>4 DEF ChannelInv

\* A request that works on a root that is not the scheduler's.
LEMMA UserStep ==
    ASSUME IInv, MInv', phase = "idle", NEW r \in Roots, r # Own, exposed \subseteq exposed',
           \A x \in Addrs \ Shared : /\ entry'[Own][x] = entry[Own][x]
                                     /\ Mapped(Own, x) => Mapped(Own, x)',
           Answered, requests < MaxRequests
    PROVE  IInv'
<1>1. SetupType'
    <2>1. /\ SetupType /\ phase' = phase /\ tasks' = tasks /\ root_id' = root_id
          /\ gs_base' = gs_base /\ addr' = addr /\ local' = local /\ requests' = requests + 1
        BY DEF IInv, Answered, taskinfo
    <2>2. requests' \in 0..MaxRequests
        BY <2>1, MManAssumption DEF SetupType
    <2>3. QED
        BY <2>1, <2>2 DEF SetupType
<1>2. TemporaryInv'
    BY MManAssumption DEF IInv, TemporaryInv, Answered, Channels, Filling
<1>3. ChannelInv'
    <2>1. SetupType /\ ChannelInv /\ local' = local
        BY DEF IInv, Answered, taskinfo
    <2>2. QED
        BY <2>1, ChannelsKept
<1>4. QED
    BY <1>1, <1>2, <1>3 DEF IInv

\* The requests of live tasks are about roots that are not the scheduler's.
LEMMA RequestsRoot ==
    ASSUME IInv, NEW r, Requests(r)
    PROVE  r # Own /\ phase = "idle" /\ tasks \in 0..MaxTasks /\ tasks # 0
<1>1. PICK t \in Tasks : Live(t) /\ root_id[t] = r /\ phase = "idle"
    BY DEF Requests
<1>2. t \in 1..tasks /\ tasks \in 0..MaxTasks
    BY <1>1, MManAssumption DEF Live, Tasks, IInv, SetupType
<1>3. QED
    BY <1>1, <1>2 DEF IInv, SetupType

\* The step after which nothing is modelled: only the phase changes.
LEMMA EndStep ==
    ASSUME IInv, UNCHANGED <<memory, taskinfo, requests>>, phase' \in Stopped
    PROVE  IInv'
<1>1. MInv'
    BY MemoryUnchanged DEF IInv
<1>2. SetupType'
    BY DEF IInv, SetupType, SetupPhases, taskinfo, Stopped
<1>3. TemporaryInv'
    BY DEF TemporaryInv, Channels, Filling, Stopped
<1>4. ChannelInv'
    <2>1. \A x : Mapped(Own, x)' = Mapped(Own, x)
        BY DEF memory, Mapped, Missing, Entry, Holder, Shared
    <2>2. SetupType /\ ChannelInv /\ local' = local /\ entry' = entry /\ exposed' = exposed
        BY DEF IInv, memory, taskinfo
    <2>3. QED
        BY <2>1, <2>2, ChannelsKept
<1>5. QED
    BY <1>1, <1>2, <1>3, <1>4 DEF IInv

\* The memory requests of tasks keep the invariant.
LEMMA RequestStep ==
    ASSUME IInv, Request
    PROVE  IInv'
<1>1. PICK r \in Roots, a \in UserAddrs :
          \/ Anonymous(r, a)
          \/ \E f \in UserFrames : Physical(r, a, f)
          \/ \E sr \in Roots, sa \in UserAddrs : Mirror(r, a, sr, sa)
          \/ Unmap(r, a)
    BY DEF Request
<1>2. UserAddrs \subseteq Addrs /\ a \in Addrs
    BY MManAssumption
<1>3. ASSUME MayRequest(r) PROVE r # Own /\ phase = "idle" /\ requests < MaxRequests
    BY <1>3, RequestsRoot DEF MayRequest
<1>4. ASSUME NEW f, MappedTo(r, a, f), r # Own
      PROVE  \A x \in Addrs \ Shared : /\ entry'[Own][x] = entry[Own][x]
                                       /\ Mapped(Own, x) => Mapped(Own, x)'
    BY <1>4, MManAssumption DEF MappedTo
<1>5. CASE Anonymous(r, a)
    <2>1. CASE mman_anonymous(r, a) /\ Answered
        <3>1. MInv' /\ exposed' = exposed /\ \E f \in Frames : MappedTo(r, a, f)
            BY <1>2, <2>1, AnonymousStep, AnonymousMaps, AnonymousCounts DEF IInv
        <3>2. QED
            BY <1>3, <1>4, <1>5, <2>1, <3>1, UserStep DEF Anonymous
    <2>2. CASE Exhausted(Tabled(r, a) + 1)
        BY <2>2, EndStep DEF Exhausted, Stopped
    <2>3. QED
        BY <1>5, <2>1, <2>2 DEF Anonymous
<1>6. ASSUME NEW f \in UserFrames, Physical(r, a, f) PROVE IInv'
    <2>1. CASE mman_physical(r, a, f) /\ Answered
        <3>0. f \in Frames
            BY MManAssumption
        <3>1. MInv'
            BY <1>2, <2>1, <3>0, PhysicalStep DEF IInv
        <3>2. MappedTo(r, a, f)
            <4>1. Tabled(r, a) <= Len(free) /\ WriteEntry(r, a, f)
                BY <2>1 DEF mman_physical
            <4>2. QED
                BY <1>2, <3>0, <4>1, WriteMaps DEF IInv
        <3>3. exposed \subseteq exposed'
            BY <2>1 DEF mman_physical
        <3>4. QED
            BY <1>3, <1>4, <1>6, <2>1, <3>1, <3>2, <3>3, UserStep DEF Physical
    <2>2. CASE Exhausted(Tabled(r, a))
        BY <2>2, EndStep DEF Exhausted, Stopped
    <2>3. QED
        BY <1>6, <2>1, <2>2 DEF Physical
<1>7. ASSUME NEW sr \in Roots, NEW sa \in UserAddrs, Mirror(r, a, sr, sa) PROVE IInv'
    <2>1. CASE mman_mirror(r, a, sr, sa) /\ Answered
        <3>1. MInv'
            BY <1>2, <1>7, <2>1, MirrorStep DEF IInv
        <3>2. CASE Refused(r, a, sr, sa)
            <4>1. UNCHANGED memory
                BY <2>1, <3>2 DEF mman_mirror
            <4>2. \A x \in Addrs \ Shared : /\ entry'[Own][x] = entry[Own][x]
                                            /\ Mapped(Own, x) => Mapped(Own, x)'
                BY <4>1 DEF memory, Mapped, Missing, Entry, Holder, Shared
            <4>3. exposed' = exposed
                BY <4>1 DEF memory
            <4>4. QED
                BY <1>3, <1>7, <2>1, <3>1, <4>2, <4>3, UserStep DEF Mirror
        <3>3. CASE ~ Refused(r, a, sr, sa)
            <4>1. PICK f : f = Entry(sr, sa)
                OBVIOUS
            <4>2. MappedTo(r, a, f)
                BY <1>2, <2>1, <3>3, <4>1, MirrorMaps DEF IInv
            <4>3. exposed' = exposed
                BY <2>1, <3>3 DEF mman_mirror
            <4>4. QED
                BY <1>3, <1>4, <1>7, <2>1, <3>1, <4>2, <4>3, UserStep DEF Mirror
        <3>4. QED
            BY <3>2, <3>3
    <2>2. CASE ~ Refused(r, a, sr, sa) /\ Exhausted(Tabled(r, a))
        BY <2>2, EndStep DEF Exhausted, Stopped
    <2>3. QED
        BY <1>7, <2>1, <2>2 DEF Mirror
<1>8. CASE Unmap(r, a)
    <2>1. mman_unmap(r, a) /\ Answered /\ MayRequest(r) /\ ~ Spoils(r, a)
        BY <1>8 DEF Unmap
    <2>2. MInv'
        BY <1>2, <2>1, UnmapStep DEF IInv, Spoils, Trusted
    <2>3. /\ exposed' = exposed
          /\ \A x \in Addrs \ Shared : /\ entry'[Own][x] = entry[Own][x]
                                       /\ Mapped(Own, x) => Mapped(Own, x)'
        BY <1>2, <1>3, <2>1, MManAssumption, UnmapUnmaps DEF IInv
    <2>4. QED
        BY <1>3, <2>1, <2>2, <2>3, UserStep
<1>9. QED
    BY <1>1, <1>5, <1>6, <1>7, <1>8

\* The heap of the scheduler may grow between any two steps.
LEMMA GrowHeapStep ==
    ASSUME IInv, GrowHeap
    PROVE  IInv'
<1>1. CASE Exhausted(1)
    BY <1>1, EndStep DEF Exhausted, Stopped
<1>2. CASE ~ Exhausted(1)
    <2>1. /\ free # <<>> /\ heap' = heap \cup {free[1]} /\ Getpages(1)
          /\ entry' = entry /\ page_refcount' = page_refcount /\ overwritten' = overwritten
          /\ exposed' = exposed /\ phase' = phase /\ UNCHANGED taskinfo /\ requests' = requests
        BY <1>2 DEF GrowHeap
    <2>2. MInv'
        BY <2>1, HeapStep DEF IInv
    <2>3. SetupType'
        BY <2>1 DEF IInv, SetupType, taskinfo
    <2>4. Root' = Root /\ gs_base' = gs_base /\ addr' = addr /\ local' = local
        BY <2>1 DEF taskinfo, Root
    <2>5. (\A q, x : Mapped(q, x)' = Mapped(q, x)) /\ \A f : Refs(f)' = Refs(f)
        BY <2>1 DEF Mapped, Missing, Refs, Entry, Holder, Shared
    <2>6. TemporaryInv'
        BY <2>1, <2>4, <2>5
           DEF IInv, TemporaryInv, Fresh, Filled, Mapped, Missing, Entry, Holder, Shared
    <2>7. ChannelInv'
        BY <2>1, <2>4, <2>5, ChannelsKept DEF IInv, ChannelInv
    <2>8. QED
        BY <2>2, <2>3, <2>6, <2>7 DEF IInv
<1>3. QED
    BY <1>1, <1>2

\* The root of the task being set up.
LEMMA RootType ==
    ASSUME IInv, phase \in SetupPhases
    PROVE  Root \in Roots /\ Root # Own /\ tasks \in Tasks /\ tasks \in 1..tasks /\ Own \in Roots
<1>1. tasks \in Tasks /\ MaxTasks \in Nat
    BY MManAssumption DEF IInv, SetupType
<1>2. tasks \in 1..tasks
    BY <1>1 DEF Tasks
<1>3. QED
    BY <1>1, <1>2, MManAssumption DEF Root, IInv, SetupType

\* SPAWN: neither the memory nor the addresses of channels change yet.
LEMMA SpawnStep ==
    ASSUME IInv, NEW r \in Roots, Spawn(r)
    PROVE  IInv'
<1>1. /\ entry' = entry /\ exposed' = exposed /\ local' = local
      /\ phase = "idle" /\ phase' = "storage"
    BY DEF Spawn, memory
<1>2. MInv'
    BY MemoryUnchanged DEF IInv, Spawn
<1>3. r # Own
    BY RequestsRoot DEF Spawn
<1>4. SetupType'
    <2>1. tasks \in 0..MaxTasks /\ tasks < MaxTasks /\ MaxTasks \in Nat
        BY MManAssumption DEF IInv, SetupType, Spawn
    <2>2. tasks + 1 \in Tasks /\ tasks + 1 \in 0..MaxTasks /\ 1..tasks + 1 \subseteq Tasks
        BY <2>1 DEF Tasks
    <2>3. root_id' = [root_id EXCEPT ![tasks + 1] = r] /\ tasks' = tasks + 1
        BY DEF Spawn
    <2>4. \A t \in 1..tasks + 1 : t = tasks + 1 \/ t \in 1..tasks
        BY <2>1
    <2>5. \A t \in 1..tasks' : root_id'[t] # Own
        BY <1>3, <2>1, <2>2, <2>3, <2>4 DEF IInv, SetupType
    <2>6. root_id' \in [Tasks -> Roots]
        BY <2>3 DEF IInv, SetupType
    <2>7. QED
        BY <1>1, <2>2, <2>3, <2>5, <2>6 DEF IInv, SetupType, Spawn, SetupPhases
<1>5. TemporaryInv'
    BY <1>1 DEF IInv, TemporaryInv, Channels, Filling
<1>6. ChannelInv'
    <2>1. \A x : Mapped(Own, x)' = Mapped(Own, x)
        BY <1>1 DEF Mapped, Missing, Entry, Holder, Shared
    <2>2. QED
        BY <1>1, <2>1, ChannelsKept DEF IInv
<1>7. QED
    BY <1>2, <1>4, <1>5, <1>6 DEF IInv

\* task_setup's new storage page keeps the invariant.
LEMMA AddStorageStep ==
    ASSUME IInv, AddStorage
    PROVE  IInv'
<1>0. PICK q : q = Root
    OBVIOUS
<1>1. PICK a : a = FirstUnmapped(q, LocalStorage)
    OBVIOUS
<1>2. phase = "storage" /\ mman_anonymous(q, a) /\ gs_base' = a /\ phase' = "temporary"
      /\ tasks' = tasks /\ root_id' = root_id /\ addr' = addr /\ local' = local
      /\ requests' = requests
    BY <1>0, <1>1 DEF AddStorage
<1>3. q \in Roots /\ q # Own /\ tasks \in Tasks /\ Own \in Roots
    BY <1>0, <1>2, RootType DEF SetupPhases
<1>4. a \in Addrs \ Shared /\ TEMPORARY_MAP_ADDRESS \in Addrs \ Shared
    <2>1. LocalStorage \in Seq(Addrs \ Shared) /\ Unmapped(q, LocalStorage) # {}
        BY <1>0, MManAssumption DEF AddStorage
    <2>2. QED
        BY <1>1, <1>3, <2>1, FirstIsUnmapped, MManAssumption
<1>5. MInv' /\ exposed' = exposed
    BY <1>2, <1>3, <1>4, AnonymousStep, AnonymousCounts DEF IInv
<1>6. PICK f \in Frames :
          /\ MappedTo(q, a, f) /\ page_refcount'[f] >= 1
          /\ f \notin exposed => Refs(f)' = {<<q, a>>}
    <2>1. Cell(q, a) = <<q, a>>
        BY <1>4 DEF Cell, Holder
    <2>2. QED
        BY <1>2, <1>3, <1>4, <2>1, AnonymousMaps DEF IInv
<1>7. SetupType'
    BY <1>2, <1>3, <1>4 DEF IInv, SetupType, SetupPhases
<1>8. Root' = q
    BY <1>0, <1>2 DEF Root
<1>9. TemporaryInv'
    <2>1. entry'[Own][TEMPORARY_MAP_ADDRESS] = 0
        BY <1>2, <1>3, <1>4, <1>6 DEF MappedTo, IInv, TemporaryInv
    <2>2. Fresh(gs_base)'
        <3>1. entry'[q][a] = f /\ Mapped(q, a)'
            BY <1>4, <1>6 DEF MappedTo, Holder
        <3>2. Mapped(Root, gs_base)'
            BY <1>2, <1>8, <3>1 DEF Mapped, Missing, Entry, Holder, Shared
        <3>3. gs_base' \in Addrs \ Shared'
            BY <1>2, <1>4 DEF Shared
        <3>4. QED
            BY <1>2, <1>5, <1>6, <1>8, <3>1, <3>2, <3>3 DEF Fresh
    <2>3. QED
        BY <1>2, <2>1, <2>2 DEF TemporaryInv, Channels, Filling
<1>10. ChannelInv'
    BY <1>2, <1>3, <1>5, <1>6, ChannelsKept DEF IInv, MappedTo
<1>11. QED
    BY <1>5, <1>7, <1>9, <1>10 DEF IInv

\* The temporary mapping of the storage keeps the invariant.
LEMMA MapTemporaryStep ==
    ASSUME IInv, MapTemporary
    PROVE  IInv'
<1>0. PICK T, q, b : T = TEMPORARY_MAP_ADDRESS /\ q = Root /\ b = gs_base
    OBVIOUS
<1>1. phase = "temporary" /\ mman_mirror(Own, T, q, b) /\ phase' = "sin page"
      /\ tasks' = tasks /\ root_id' = root_id /\ addr' = addr /\ local' = local
      /\ requests' = requests /\ gs_base' = b
    BY <1>0 DEF MapTemporary, taskinfo
<1>2. q \in Roots /\ q # Own /\ tasks \in Tasks /\ Own \in Roots /\ T \in Addrs \ Shared
    BY <1>0, <1>1, RootType, MManAssumption DEF SetupPhases
<1>3. b \in Addrs \ Shared /\ Mapped(q, b) /\ entry[Own][T] = 0
    BY <1>0, <1>1 DEF IInv, TemporaryInv, Fresh
<1>4. PICK f \in Frames : entry[q][b] = f /\ page_refcount[f] >= 1
                          /\ (f \notin exposed => Refs(f) = {<<q, b>>})
    BY <1>0, <1>1 DEF IInv, TemporaryInv, Fresh
<1>5. /\ ~ Refused(Own, T, q, b) /\ f = Entry(q, b) /\ Cell(Own, T) = <<Own, T>>
      /\ Holder(Own, T) = Own
    BY <1>2, <1>3, <1>4 DEF Refused, Mapped, Entry, Holder, Cell
<1>6. MInv' /\ exposed' = exposed
    <2>1. MInv'
        BY <1>1, <1>2, <1>3, MirrorStep DEF IInv
    <2>2. QED
        BY <1>1, <1>5, <2>1 DEF mman_mirror
<1>7. /\ MappedTo(Own, T, f) /\ page_refcount'[f] >= page_refcount[f] + 1
      /\ f \notin exposed => Refs(f)' = Refs(f) \cup {<<Own, T>>}
    <2>1. /\ MInv /\ Own \in Roots /\ T \in Addrs /\ q \in Roots /\ b \in Addrs
          /\ ~ Refused(Own, T, q, b) /\ f = Entry(q, b) /\ mman_mirror(Own, T, q, b)
        BY <1>1, <1>2, <1>3, <1>5 DEF IInv
    <2>2. /\ MappedTo(Own, T, f) /\ page_refcount'[f] >= page_refcount[f] + 1
          /\ f \notin exposed => Refs(f)' = Refs(f) \cup {Cell(Own, T)}
        BY <2>1, MirrorMaps
    <2>3. QED
        BY <1>5, <2>2
<1>8. SetupType'
    BY <1>0, <1>1, <1>2 DEF IInv, SetupType, SetupPhases
<1>9. Root' = q
    BY <1>0, <1>1 DEF Root
<1>10. Filled'
    <2>1. entry'[Own][T] = f /\ Mapped(Own, T)'
        BY <1>5, <1>7 DEF MappedTo
    <2>2. Mapped(q, b)' /\ entry'[q][b] = f
        BY <1>2, <1>3, <1>4, <1>7 DEF MappedTo
    <2>3. Mapped(Root, gs_base)' /\ Mapped(Own, TEMPORARY_MAP_ADDRESS)'
        BY <1>0, <1>1, <1>9, <2>1, <2>2 DEF Mapped, Missing, Entry, Holder, Shared
    <2>4. f \notin exposed => Refs(f)' = {<<Own, T>>, <<q, b>>}
        BY <1>4, <1>7
    <2>5. page_refcount'[f] >= 2
        BY <1>4, <1>6, <1>7 DEF IInv, MInv, MemType
    <2>6. gs_base' \in Addrs \ Shared'
        BY <1>1, <1>3 DEF Shared
    <2>7. QED
        BY <1>0, <1>1, <1>6, <1>9, <2>1, <2>2, <2>3, <2>4, <2>5, <2>6 DEF Filled
<1>11. TemporaryInv'
    BY <1>1, <1>10 DEF TemporaryInv, Channels, Filling
<1>12. ChannelInv'
    <2>1. \A x \in Addrs \ Shared : (\E p \in Used : At(p) = x) /\ Mapped(Own, x) =>
              entry'[Own][x] = entry[Own][x] /\ Mapped(Own, x)'
        BY <1>0, <1>2, <1>7 DEF IInv, ChannelInv, MappedTo
    <2>2. QED
        BY <1>1, <1>6, <2>1, ChannelsKept DEF IInv
<1>13. QED
    BY <1>6, <1>8, <1>11, <1>12 DEF IInv

\* The page that is filled in stays as it is when another one is mapped.
LEMMA FillingKept ==
    ASSUME IInv, phase \in Filling, NEW r \in Roots, NEW a \in Addrs \ Shared, NEW f \in Frames,
           ~ Mapped(r, a), MappedTo(r, a, f),
           f \notin exposed => entry[Own][TEMPORARY_MAP_ADDRESS] # f,
           \A g \in Frames : page_refcount'[g] >= page_refcount[g], MemType',
           exposed' = exposed, gs_base' = gs_base, tasks' = tasks, root_id' = root_id
    PROVE  Root' = Root /\ Filled'
<1>0. PICK T, q, b : T = TEMPORARY_MAP_ADDRESS /\ q = Root /\ b = gs_base
    OBVIOUS
<1>1. b \in Addrs \ Shared /\ Mapped(q, b) /\ Mapped(Own, T)
    BY <1>0 DEF IInv, TemporaryInv, Filled
<1>2. PICK g \in Frames :
          /\ entry[Own][T] = g /\ entry[q][b] = g /\ page_refcount[g] >= 2
          /\ g \notin exposed => Refs(g) = {<<Own, T>>, <<q, b>>}
    BY <1>0 DEF IInv, TemporaryInv, Filled
<1>3. q \in Roots /\ Own \in Roots /\ T \in Addrs \ Shared
    BY <1>0, RootType, MManAssumption DEF SetupPhases, Filling
<1>4. Root' = q /\ gs_base' = b
    BY <1>0 DEF Root
<1>5. ~ (r = Own /\ a = T) /\ ~ (r = q /\ a = b) /\ Cell(r, a) = <<r, a>>
    BY <1>1 DEF Cell, Holder
<1>6. Mapped(q, b)' /\ Mapped(Own, T)'
    BY <1>1, <1>3 DEF MappedTo
<1>7. Mapped(Root, gs_base)' /\ Mapped(Own, TEMPORARY_MAP_ADDRESS)'
    BY <1>0, <1>4, <1>6 DEF Mapped, Missing, Entry, Holder, Shared
<1>8. entry'[Own][T] = g /\ entry'[q][b] = g
    BY <1>1, <1>2, <1>3, <1>5 DEF MappedTo
<1>9. ASSUME g \notin exposed PROVE Refs(g)' = {<<Own, T>>, <<q, b>>}
    <2>1. Refs(g) = {<<Own, T>>, <<q, b>>} /\ g # f
        BY <1>0, <1>2, <1>9
    <2>2. Cell(r, a) \notin Refs(g) /\ Refs(g) # {}
        BY <1>5, <2>1
    <2>3. Refs(g)' = Refs(g)
        BY <1>2, <1>9, <2>1, <2>2 DEF MappedTo
    <2>4. QED
        BY <2>1, <2>3
<1>10. page_refcount'[g] >= 2
    <2>1. page_refcount[g] \in Nat /\ page_refcount'[g] \in Nat
        BY DEF IInv, MInv, MemType
    <2>2. QED
        BY <1>2, <2>1
<1>11. gs_base' \in Addrs \ Shared'
    BY <1>1, <1>4 DEF Shared
<1>12. QED
    BY <1>0, <1>2, <1>4, <1>7, <1>8, <1>9, <1>10, <1>11 DEF Filled

\* The new pages of sin, sout and gin keep the invariant.
LEMMA AddPageStep ==
    ASSUME IInv, NEW ch \in Channels, AddPage(ch)
    PROVE  IInv'
<1> DEFINE T == TEMPORARY_MAP_ADDRESS
<1>0. PICK q : q = Root
    OBVIOUS
<1>1. PICK a : a = FirstUnmapped(q, TaskChannels)
    OBVIOUS
<1>2. phase \in {"sin page", "gin page"} /\ mman_anonymous(q, a) /\ addr' = a /\ phase' = ch
      /\ tasks' = tasks /\ root_id' = root_id /\ gs_base' = gs_base /\ local' = local
      /\ requests' = requests
    BY <1>0, <1>1 DEF AddPage
<1>3. phase \in SetupPhases /\ phase \in Filling /\ ch \in SetupPhases /\ ch \in Filling
    BY <1>2 DEF SetupPhases, Filling, Channels
<1>4. q \in Roots /\ q # Own /\ tasks \in Tasks /\ Own \in Roots
    BY <1>0, <1>3, RootType
<1>5. a \in Addrs \ Shared /\ ~ Mapped(q, a)
    <2>1. TaskChannels \in Seq(Addrs \ Shared) /\ Unmapped(q, TaskChannels) # {}
        BY <1>0, MManAssumption DEF AddPage
    <2>2. QED
        BY <1>1, <1>4, <2>1, FirstIsUnmapped
<1>6. /\ MInv' /\ exposed' = exposed
      /\ \A g \in Frames : page_refcount'[g] >= page_refcount[g]
    BY <1>2, <1>4, <1>5, AnonymousStep, AnonymousCounts DEF IInv
<1>7. PICK f \in Frames :
          /\ MappedTo(q, a, f) /\ page_refcount'[f] >= 1
          /\ f \notin exposed => Refs(f) = {} /\ Refs(f)' = {<<q, a>>}
    <2>1. Cell(q, a) = <<q, a>>
        BY <1>5 DEF Cell, Holder
    <2>2. QED
        BY <1>2, <1>4, <1>5, <2>1, AnonymousMaps DEF IInv
<1>8. SetupType'
    BY <1>2, <1>3, <1>4, <1>5 DEF IInv, SetupType
<1>9. f \notin exposed => entry[Own][T] # f
    <2>1. T \in Places /\ (entry[Own][T] = f => <<Own, T>> \in Refs(f))
        BY <1>4, MManAssumption, InRefs DEF Places
    <2>2. QED
        BY <1>7, <2>1
<1>10. Root' = Root /\ Filled'
    BY <1>2, <1>3, <1>4, <1>5, <1>6, <1>7, <1>9, FillingKept DEF MInv
<1>11. Fresh(addr)'
    <2>1. entry'[q][a] = f /\ Mapped(q, a)'
        BY <1>5, <1>7 DEF MappedTo, Holder
    <2>2. Mapped(Root, addr)'
        BY <1>0, <1>2, <1>10, <2>1 DEF Mapped, Missing, Entry, Holder, Shared
    <2>3. addr' \in Addrs \ Shared'
        BY <1>2, <1>5 DEF Shared
    <2>4. QED
        BY <1>0, <1>2, <1>6, <1>7, <1>10, <2>1, <2>2, <2>3 DEF Fresh
<1>12. TemporaryInv'
    BY <1>2, <1>3, <1>10, <1>11 DEF TemporaryInv, Channels
<1>13. ChannelInv'
    BY <1>2, <1>4, <1>6, <1>7, ChannelsKept DEF IInv, MappedTo
<1>14. QED
    BY <1>6, <1>8, <1>12, <1>13 DEF IInv

\* Their mirrors in the scheduler's root keep the invariant.
LEMMA MirrorChannelStep ==
    ASSUME IInv, NEW ch \in Channels, MirrorChannel(ch)
    PROVE  IInv'
<1>0. PICK T, q, b, l : T = TEMPORARY_MAP_ADDRESS /\ q = Root /\ b = addr /\ l = LocalAddress
    OBVIOUS
<1>1. phase = ch /\ mman_mirror(Own, l, q, b) /\ phase' \in {"gin page", "unmap temporary"}
      /\ tasks' = tasks /\ root_id' = root_id /\ addr' = addr /\ gs_base' = gs_base
      /\ local' = [local EXCEPT ![tasks][ch] = l] /\ requests' = requests
    BY <1>0 DEF MirrorChannel, Channels
<1>2. phase \in SetupPhases /\ phase \in Filling /\ phase' \in SetupPhases /\ phase' \in Filling
    BY <1>1 DEF SetupPhases, Filling, Channels
<1>3. q \in Roots /\ q # Own /\ tasks \in Tasks /\ Own \in Roots /\ T \in Addrs \ Shared
    BY <1>0, <1>2, RootType, MManAssumption
<1>4. l \in Addrs \ Shared /\ ~ Mapped(Own, l)
    <2>1. LocalChannels \in Seq(Addrs \ Shared) /\ Unmapped(Own, LocalChannels) # {}
        BY MManAssumption DEF MirrorChannel
    <2>2. QED
        BY <1>0, <1>3, <2>1, FirstIsUnmapped DEF LocalAddress
<1>5. b \in Addrs \ Shared /\ Mapped(q, b)
    BY <1>0, <1>1 DEF IInv, TemporaryInv, Fresh
<1>6. PICK f \in Frames : entry[q][b] = f /\ (f \notin exposed => Refs(f) = {<<q, b>>})
    BY <1>0, <1>1 DEF IInv, TemporaryInv, Fresh
<1>7. ~ Refused(Own, l, q, b) /\ f = Entry(q, b)
    BY <1>4, <1>5, <1>6 DEF Refused, Entry, Holder
<1>8. MInv' /\ exposed' = exposed
    <2>1. MInv'
        BY <1>1, <1>3, <1>4, <1>5, MirrorStep DEF IInv
    <2>2. QED
        BY <1>1, <1>7, <2>1 DEF mman_mirror
<1>9. MappedTo(Own, l, f) /\ \A g \in Frames : page_refcount'[g] >= page_refcount[g]
    <2>1. /\ MInv /\ Own \in Roots /\ l \in Addrs /\ q \in Roots /\ b \in Addrs
          /\ ~ Refused(Own, l, q, b) /\ f = Entry(q, b) /\ mman_mirror(Own, l, q, b)
        BY <1>1, <1>3, <1>4, <1>5, <1>7 DEF IInv
    <2>2. QED
        BY <2>1, MirrorMaps
<1>10. f \notin exposed => \A x \in Addrs : entry[Own][x] # f
    <2>1. \A x \in Addrs : x \in Places
        BY DEF Places
    <2>2. f \notin exposed => \A x \in Addrs : <<Own, x>> \notin Refs(f)
        BY <1>3, <1>6
    <2>3. QED
        BY <1>3, <2>1, <2>2, InRefs
<1>11. SetupType'
    <2>1. local' \in [Tasks -> [Channels -> Addrs \cup {0}]]
        BY <1>1, <1>3, <1>4 DEF IInv, SetupType
    <2>2. QED
        BY <1>1, <1>2, <1>3, <2>1 DEF IInv, SetupType
<1>12. Root' = Root /\ Filled'
    <2>1. f \notin exposed => entry[Own][TEMPORARY_MAP_ADDRESS] # f
        BY <1>0, <1>3, <1>10
    <2>2. MemType'
        BY <1>8 DEF MInv
    <2>3. QED
        BY <1>1, <1>2, <1>3, <1>4, <1>8, <1>9, <2>1, <2>2, FillingKept
<1>13. TemporaryInv'
    BY <1>1, <1>2, <1>12 DEF TemporaryInv, Channels
<1>14. ChannelInv'
    <2>1. Mapped(Own, T) /\ l # T
        BY <1>0, <1>2, <1>4 DEF IInv, TemporaryInv, Filled
    <2>2. PICK u : u = <<tasks, ch>>
        OBVIOUS
    <2>3. ASSUME NEW p \in Used' PROVE p \in Tasks \X Channels /\ (p # u => p \in Used)
                                       /\ At(p)' = IF p = u THEN l ELSE At(p)
        <3>1. p \in Tasks \X Channels /\ local'[p[1]][p[2]] # 0
            BY DEF Used
        <3>2. p = <<p[1], p[2]>> /\ p[1] \in Tasks /\ p[2] \in Channels
            BY <3>1
        <3>3. local'[p[1]][p[2]] = IF p = u THEN l ELSE local[p[1]][p[2]]
            <4>1. local'[p[1]][p[2]] = IF p[1] = tasks /\ p[2] = ch THEN l ELSE local[p[1]][p[2]]
                BY <1>1, <1>3, <3>2 DEF IInv, SetupType
            <4>2. p = u <=> p[1] = tasks /\ p[2] = ch
                BY <2>2, <3>2
            <4>3. QED
                BY <4>1, <4>2
        <3>4. QED
            BY <3>1, <3>3 DEF Used, At
    <2>4. \A p \in Used : At(p) \in Addrs /\ Mapped(Own, At(p)) /\ At(p) # l
        BY <1>4, UsedAddrs DEF IInv, ChannelInv
    <2>5. ASSUME NEW p \in Used'
          PROVE  /\ Mapped(Own, At(p))' /\ At(p)' # T /\ At(p)' \notin Shared
                 /\ p = u => At(p)' = l /\ entry'[Own][At(p)'] = f
                 /\ p # u => /\ At(p)' = At(p) /\ At(p) # l
                             /\ entry'[Own][At(p)'] = entry[Own][At(p)]
                             /\ f \notin exposed => entry[Own][At(p)] # f
        <3>1. CASE p = u
            <4>1. At(p)' = l
                BY <2>3, <3>1
            <4>2. entry'[Own][l] = f /\ Mapped(Own, l)'
                BY <1>4, <1>9 DEF MappedTo, Holder
            <4>3. QED
                BY <1>4, <2>1, <3>1, <4>1, <4>2 DEF Mapped, Missing, Entry, Holder, Shared
        <3>2. CASE p # u
            <4>1. p \in Used /\ At(p)' = At(p)
                BY <2>3, <3>2
            <4>2. PICK x \in Addrs : x = At(p)
                BY <2>4, <4>1
            <4>3. Mapped(Own, x) /\ x # l /\ x # T /\ x \notin Shared
                BY <1>0, <2>4, <4>1, <4>2 DEF IInv, ChannelInv
            <4>4. entry'[Own][x] = entry[Own][x] /\ Mapped(Own, x)'
                  /\ (f \notin exposed => entry[Own][x] # f)
                BY <1>3, <1>9, <1>10, <4>3 DEF MappedTo
            <4>5. QED
                BY <3>2, <4>1, <4>2, <4>3, <4>4 DEF Mapped, Missing, Entry, Holder, Shared
        <3>3. QED
            BY <3>1, <3>2
    <2>6. ASSUME NEW p \in Used', NEW r \in Used', p # r
          PROVE  /\ At(p)' # At(r)'
                 /\ entry'[Own][At(p)'] = entry'[Own][At(r)'] => entry'[Own][At(p)'] \in exposed
        <3>1. CASE p # u /\ r # u
            <4>1. p \in Used /\ r \in Used
                BY <2>3, <3>1
            <4>2. /\ At(p) # At(r)
                  /\ entry[Own][At(p)] = entry[Own][At(r)] => entry[Own][At(p)] \in exposed
                BY <2>6, <4>1 DEF IInv, ChannelInv
            <4>3. QED
                BY <2>5, <3>1, <4>2
        <3>2. CASE p = u \/ r = u
            BY <2>5, <2>6, <3>2
        <3>3. QED
            BY <3>1, <3>2
    <2>7. \A p \in Used' : At(p)' \notin Shared'
        BY <2>5 DEF Shared
    <2>8. QED
        BY <1>0, <1>8, <2>5, <2>6, <2>7 DEF ChannelInv
<1>15. QED
    BY <1>8, <1>11, <1>13, <1>14 DEF IInv

\* The end of the temporary mapping keeps the invariant: the page is counted
\* twice.
LEMMA UnmapTemporaryStep ==
    ASSUME IInv, UnmapTemporary
    PROVE  IInv'
<1>0. PICK T : T = TEMPORARY_MAP_ADDRESS
    OBVIOUS
<1>1. phase = "unmap temporary" /\ mman_unmap(Own, T) /\ phase' = "idle" /\ gs_base' = 0
      /\ addr' = 0 /\ tasks' = tasks /\ root_id' = root_id /\ local' = local
      /\ requests' = requests
    BY <1>0 DEF UnmapTemporary
<1>2. Own \in Roots /\ T \in Addrs \ Shared /\ T \in Addrs
    BY <1>0, MManAssumption
<1>3. Mapped(Own, T) /\ Entry(Own, T) \in Frames /\ page_refcount[Entry(Own, T)] # 1
    <2>1. Filled
        BY <1>1 DEF IInv, TemporaryInv, Filling
    <2>2. Entry(Own, T) = entry[Own][T]
        BY <1>2 DEF Entry, Holder
    <2>3. QED
        BY <1>0, <2>1, <2>2 DEF Filled
<1>4. MInv'
    BY <1>1, <1>2, <1>3, UnmapStep DEF IInv
<1>5. /\ entry'[Own][T] = 0 /\ exposed' = exposed
      /\ \A x \in Addrs \ Shared :
             x # T => entry'[Own][x] = entry[Own][x] /\ (Mapped(Own, x) => Mapped(Own, x)')
    <2>1. Holder(Own, T) = Own
        BY <1>2 DEF Holder
    <2>2. MInv /\ Own \in Roots /\ T \in Addrs /\ mman_unmap(Own, T)
        BY <1>1, <1>2 DEF IInv
    <2>3. /\ exposed' = exposed
          /\ Mapped(Own, T) => entry'[Holder(Own, T)][T] = 0
          /\ \A q \in Roots, x \in Addrs \ Shared :
                 ~ (q = Own /\ x = T) => /\ entry'[q][x] = entry[q][x]
                                         /\ Mapped(q, x) => Mapped(q, x)'
        BY <2>2, UnmapUnmaps
    <2>4. entry'[Own][T] = 0
        BY <1>3, <2>1, <2>3
    <2>5. ASSUME NEW x \in Addrs \ Shared, x # T
          PROVE  entry'[Own][x] = entry[Own][x] /\ (Mapped(Own, x) => Mapped(Own, x)')
        BY <1>2, <2>3, <2>5
    <2>6. QED
        BY <2>3, <2>4, <2>5
<1>6. SetupType'
    BY <1>1 DEF IInv, SetupType, SetupPhases
<1>7. TemporaryInv'
    BY <1>0, <1>1, <1>5 DEF TemporaryInv, Channels, Filling
<1>8. ChannelInv'
    <2>1. \A x \in Addrs \ Shared : (\E p \in Used : At(p) = x) /\ Mapped(Own, x) =>
              entry'[Own][x] = entry[Own][x] /\ Mapped(Own, x)'
        BY <1>0, <1>5 DEF IInv, ChannelInv
    <2>2. QED
        BY <1>1, <1>5, <2>1, ChannelsKept DEF IInv
<1>9. QED
    BY <1>4, <1>6, <1>7, <1>8 DEF IInv

\* sched_task_reap, which unmaps gin only, keeps the invariant.
LEMMA ReapStep ==
    ASSUME IInv, NEW t \in Tasks, Reap(t)
    PROVE  IInv'
<1>0. PICK T, l, u : T = TEMPORARY_MAP_ADDRESS /\ l = local[t].gin /\ u = <<t, "gin">>
    OBVIOUS
<1>1. phase = "idle" /\ mman_unmap(Own, l) /\ local' = [local EXCEPT ![t].gin = 0] /\ l # 0
      /\ phase' = phase /\ tasks' = tasks /\ root_id' = root_id /\ gs_base' = gs_base
      /\ addr' = addr /\ requests' = requests /\ ~ Spoils(Own, l)
    BY <1>0 DEF Reap, Live
<1>2. "gin" \in Channels /\ u \in Used /\ At(u) = l
    BY <1>0, <1>1 DEF Used, At, Channels
<1>3. l \in Addrs \ Shared /\ Own \in Roots /\ T \in Addrs \ Shared /\ l # T
    BY <1>0, <1>2, UsedAddrs, MManAssumption DEF IInv, ChannelInv
<1>4. MInv'
    BY <1>1, <1>3, UnmapStep DEF IInv, Spoils, Trusted
<1>5. /\ exposed' = exposed
      /\ \A x \in Addrs \ Shared :
             x # l => entry'[Own][x] = entry[Own][x] /\ (Mapped(Own, x) => Mapped(Own, x)')
    BY <1>1, <1>3, UnmapUnmaps DEF IInv
<1>6. SetupType'
    <2>1. local' \in [Tasks -> [Channels -> Addrs \cup {0}]]
        BY <1>1, <1>2 DEF IInv, SetupType
    <2>2. QED
        BY <1>1, <2>1 DEF IInv, SetupType, SetupPhases
<1>7. TemporaryInv'
    BY <1>0, <1>1, <1>3, <1>5 DEF IInv, TemporaryInv, Channels, Filling
<1>8. ChannelInv'
    <2>1. ASSUME NEW p \in Used' PROVE p \in Used /\ p # u /\ At(p)' = At(p)
        <3>1. p \in Tasks \X Channels /\ local'[p[1]][p[2]] # 0
            BY DEF Used
        <3>2. p = <<p[1], p[2]>> /\ p[1] \in Tasks /\ p[2] \in Channels
            BY <3>1
        <3>3. local'[p[1]][p[2]] = IF p[1] = t /\ p[2] = "gin" THEN 0 ELSE local[p[1]][p[2]]
            BY <1>1, <3>2 DEF IInv, SetupType
        <3>4. ~ (p[1] = t /\ p[2] = "gin")
            BY <3>1, <3>3
        <3>5. p # u
            BY <1>0, <3>2, <3>4
        <3>6. QED
            BY <3>1, <3>3, <3>4, <3>5 DEF Used, At
    <2>2. ASSUME NEW p \in Used'
          PROVE  /\ Mapped(Own, At(p))' /\ At(p)' # T /\ At(p)' \notin Shared
                 /\ At(p)' = At(p) /\ entry'[Own][At(p)'] = entry[Own][At(p)]
        <3>1. p \in Used /\ p # u /\ At(p)' = At(p)
            BY <2>1
        <3>2. PICK x \in Addrs : x = At(p)
            BY <3>1, UsedAddrs DEF IInv
        <3>3. Mapped(Own, x) /\ x # T /\ x \notin Shared /\ x # l
            BY <1>0, <1>2, <3>1, <3>2 DEF IInv, ChannelInv
        <3>4. entry'[Own][x] = entry[Own][x] /\ Mapped(Own, x)'
            BY <1>5, <3>3
        <3>5. QED
            BY <3>1, <3>2, <3>3, <3>4 DEF Mapped, Missing, Entry, Holder, Shared
    <2>3. ASSUME NEW p \in Used', NEW r \in Used', p # r
          PROVE  /\ At(p)' # At(r)'
                 /\ entry'[Own][At(p)'] = entry'[Own][At(r)'] => entry'[Own][At(p)'] \in exposed
        <3>1. p \in Used /\ r \in Used
            BY <2>1
        <3>2. /\ At(p) # At(r)
              /\ entry[Own][At(p)] = entry[Own][At(r)] => entry[Own][At(p)] \in exposed
            BY <2>3, <3>1 DEF IInv, ChannelInv
        <3>3. QED
            BY <2>2, <3>2
    <2>4. \A p \in Used' : At(p)' \notin Shared'
        BY <2>2 DEF Shared
    <2>5. QED
        BY <1>0, <1>5, <2>2, <2>3, <2>4 DEF ChannelInv
<1>9. QED
    BY <1>4, <1>6, <1>7, <1>8 DEF IInv

\* Every step keeps the invariant.
LEMMA NextInv ==
    IInv /\ [Next]_vars => IInv'
<1> SUFFICES ASSUME IInv, [Next]_vars PROVE IInv'
    OBVIOUS
<1>1. CASE Request
    BY <1>1, RequestStep
<1>2. ASSUME NEW r \in Roots, Spawn(r) PROVE IInv'
    BY <1>2, SpawnStep
<1>3. CASE AddStorage
    BY <1>3, AddStorageStep
<1>4. CASE MapTemporary
    BY <1>4, MapTemporaryStep
<1>5. ASSUME NEW ch \in Channels, AddPage(ch) PROVE IInv'
    BY <1>5, AddPageStep
<1>6. ASSUME NEW ch \in Channels, MirrorChannel(ch) PROVE IInv'
    BY <1>6, MirrorChannelStep
<1>7. ASSUME NEW ch \in Channels, NoChannel(ch) PROVE IInv'
    BY <1>7, EndStep DEF NoChannel, Stopped
<1>8. CASE SetupExhausted
    BY <1>8, EndStep DEF SetupExhausted, Exhausted, Stopped
<1>9. CASE UnmapTemporary
    BY <1>9, UnmapTemporaryStep
<1>10. ASSUME NEW t \in Tasks, Reap(t) PROVE IInv'
    BY <1>10, ReapStep
<1>11. CASE GrowHeap
    BY <1>11, GrowHeapStep
<1>12. CASE Corrupt
    BY <1>12, EndStep DEF Corrupt, Stopped
<1>13. CASE UNCHANGED vars
    <2>1. UNCHANGED memory /\ UNCHANGED taskinfo /\ phase' = phase /\ requests' = requests
        BY <1>13 DEF vars
    <2>2. MInv'
        BY <2>1, MemoryUnchanged DEF IInv
    <2>3. SetupType'
        BY <2>1 DEF IInv, SetupType, taskinfo
    <2>4. /\ entry' = entry /\ page_refcount' = page_refcount /\ exposed' = exposed
          /\ Root' = Root /\ gs_base' = gs_base /\ addr' = addr /\ local' = local
        BY <2>1 DEF memory, taskinfo, Root
    <2>5. (\A q, x : Mapped(q, x)' = Mapped(q, x)) /\ \A f : Refs(f)' = Refs(f)
        BY <2>4 DEF Mapped, Missing, Refs, Entry, Holder, Shared
    <2>6. TemporaryInv'
        BY <2>1, <2>4, <2>5
           DEF IInv, TemporaryInv, Fresh, Filled, Mapped, Missing, Entry, Holder, Shared
    <2>7. ChannelInv'
        BY <2>4, <2>5, ChannelsKept DEF IInv, ChannelInv
    <2>8. QED
        BY <2>2, <2>3, <2>6, <2>7 DEF IInv
<1>14. QED
    BY <1>1, <1>2, <1>3, <1>4, <1>5, <1>6, <1>7, <1>8, <1>9, <1>10, <1>11, <1>12, <1>13
       DEF Next, Setup

\* The invariant holds throughout.
THEOREM Invariance ==
    Spec => []IInv
<1>1. Init => IInv
    BY InitInv
<1>2. IInv /\ [Next]_vars => IInv'
    BY NextInv
<1>3. QED
    BY <1>1, <1>2, PTL DEF Spec

\* The types of the variables of mman.c, kmem.c and task.c.
THEOREM TypeCorrect ==
    Spec => []TypeOK
<1>1. IInv => TypeOK
    BY DEF IInv, MInv, MemType, SetupType, SetupPhases, Stopped, TypeOK
<1>2. QED
    BY <1>1, Invariance, PTL

\* kmem_getpage never returns a page that is mapped somewhere, that is a page
\* table or that the heap has, after whatever sequence of mirrors, unmaps and
\* mappings over mappings, unless MAP_PHYSICAL was used on that very page.
THEOREM NeverGivenOutTwice ==
    Spec => []FreeIsUnmapped
<1>1. IInv => FreeIsUnmapped
    BY DEF IInv, MInv
<1>2. QED
    BY <1>1, Invariance, PTL

\* increment_page and decrement_page keep the count of a page that no task has
\* mapped with MAP_PHYSICAL at the number of its entries and of what import counted
\* too often, or above it when one of them was mapped over.
THEOREM CountsCover ==
    Spec => []CountsAreRefs
<1>1. IInv => CountsAreRefs
    BY DEF IInv, MInv
<1>2. QED
    BY <1>1, Invariance, PTL

\* No page that is not mapped is missing from the free list, or on it twice, unless
\* it was mapped over or with MAP_PHYSICAL, the heap has it, or import counted it too
\* often.
THEOREM PagesComeBack ==
    Spec => []NothingLost
<1>1. IInv => NothingLost
    BY DEF IInv, MInv, Kept, FreeOnce, NothingLost
<1>2. QED
    BY <1>1, Invariance, PTL

\* A page table is in one place of one root, or in that of all roots where kmain put
\* it: no request but MAP_PHYSICAL makes it a page.
THEOREM TablesStayPrivate ==
    Spec => []TablesPrivate
<1>1. IInv => TablesPrivate
    BY DEF IInv, MInv
<1>2. QED
    BY <1>1, Invariance, PTL

\* task_setup writes the storage of the task it sets up, which nobody else has,
\* unless a task had mapped that page with MAP_PHYSICAL.
THEOREM StorageIsOwn ==
    Spec => []FillsOwnStorage
<1>1. IInv => FillsOwnStorage
    <2> SUFFICES ASSUME IInv, phase \in Filling
                 PROVE  /\ entry[Own][TEMPORARY_MAP_ADDRESS] # 0
                        /\ entry[Own][TEMPORARY_MAP_ADDRESS] = entry[Root][gs_base]
                        /\ entry[Own][TEMPORARY_MAP_ADDRESS] \notin exposed =>
                               Refs(entry[Own][TEMPORARY_MAP_ADDRESS]) =
                                   {<<Own, TEMPORARY_MAP_ADDRESS>>, <<Root, gs_base>>}
        BY DEF Filling, FillsOwnStorage
    <2>1. Filled /\ 0 \notin Frames
        BY MManAssumption DEF IInv, TemporaryInv
    <2>2. QED
        BY <2>1 DEF Filled
<1>2. QED
    BY <1>1, Invariance, PTL

\* find_available_local and add_channel give every channel an address of its own
\* and a page that another one has only if a task had mapped it with MAP_PHYSICAL,
\* and sched_task_reap takes no other channel's away.
THEOREM ChannelsStayPrivate ==
    Spec => []ChannelsPrivate
<1>1. IInv => ChannelsPrivate
    BY DEF IInv, ChannelInv, Used, At, ChannelsPrivate
<1>2. QED
    BY <1>1, Invariance, PTL

=============================================================================
