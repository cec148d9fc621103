------------------------ MODULE ExpertScoringProofs ------------------------
(* Proofs about ExpertScoring, for any number of ranks, rows and experts.

   The invariant Home says of every rank what it holds between the packing of a
   batch and the end of its update: the chunks that are left are consecutive
   pieces of the rows its pass is about (Pieces), the micro-batches that are left
   and the indices that ran make up the running chunk (Underway), and scores and
   lessons are those of exactly the rows behind it. The invariant March says of every
   rank what collective it meets next (NextCall), and that on even loads it is the same
   for all: on even loads no rank waits for another that meets something else. *)
EXTENDS ExpertScoring, ExpertFusionProofs, FiniteSetTheorems, WellFoundedInduction, TLAPS

-----------------------------------------------------------------------------
(* Sequences, the order of a set of numbers, and division. *)

\* The list of a set of numbers has all of its members and no other.
LEMMA Enumerated ==
    ASSUME NEW n \in Nat, NEW set \in SUBSET (1 .. n)
    PROVE  /\ Cardinality(set) \in 0 .. n
           /\ Ascending(set) \in Seq(set) /\ Len(Ascending(set)) = Cardinality(set)
           /\ \A x \in set : \E k \in 1 .. Cardinality(set) : Ascending(set)[k] = x
  <1> DEFINE c == Cardinality(set)
             below(x) == {j \in set : j <= x}
             place == [x \in set |-> Cardinality(below(x))]
  <1>1. IsFiniteSet(set) /\ c \in Nat /\ c <= n
    <2>1. IsFiniteSet(1 .. n) /\ Cardinality(1 .. n) = n
      BY FS_Interval
    <2> QED
      BY <2>1, FS_Subset, FS_CardinalityType
  <1>2. \A x \in set : IsFiniteSet(below(x)) /\ Cardinality(below(x)) \in 1 .. c
    <2> SUFFICES ASSUME NEW x \in set
                 PROVE  IsFiniteSet(below(x)) /\ Cardinality(below(x)) \in 1 .. c
      OBVIOUS
    <2>1. below(x) \in SUBSET set /\ below(x) # {}
      OBVIOUS
    <2>2. IsFiniteSet(below(x)) /\ Cardinality(below(x)) <= c
      BY <1>1, <2>1, FS_Subset
    <2>3. Cardinality(below(x)) \in Nat /\ Cardinality(below(x)) # 0
      BY <2>1, <2>2, FS_EmptySet, FS_CardinalityType
    <2> QED
      BY <1>1, <2>2, <2>3
  <1>3. \A x, y \in set : x < y => place[x] # place[y]
    <2> SUFFICES ASSUME NEW x \in set, NEW y \in set, x < y, place[x] = place[y]
                 PROVE  FALSE
      OBVIOUS
    <2>1. below(x) \in SUBSET below(y) /\ y \in below(y) /\ y \notin below(x)
      <3>1. x < y /\ x \in Nat /\ y \in Nat /\ \A j \in set : j \in Nat
        OBVIOUS
      <3> HIDE DEF place, c
      <3>2. \A j \in set : j <= x => j <= y
        BY <3>1
      <3>3. y <= y /\ ~(y <= x)
        BY <3>1
      <3> QED
        BY <3>2, <3>3, Zenon
    <2>2. Cardinality(below(x)) = Cardinality(below(y))
      <3>1. \A z \in set : place[z] = Cardinality(below(z))
        OBVIOUS
      <3> HIDE DEF place, below
      <3> QED
        BY <3>1
    <2>3. below(y) = below(x)
      BY <1>2, <2>1, <2>2, FS_Subset
    <2> QED
      BY <2>1, <2>3
  <1>4. place \in [set -> 1 .. c] /\ \A x, y \in set : place[x] = place[y] => x = y
    <2>1. \A x, y \in set : x = y \/ x < y \/ y < x
      OBVIOUS
    <2>2. place \in [set -> 1 .. c]
      BY <1>2
    <2> HIDE DEF place
    <2> QED
      BY <1>3, <2>1, <2>2
  <1>5. \A k \in 1 .. c : \E x \in set : place[x] = k
    <2>1. place \in Injection(set, 1 .. c)
      BY <1>4 DEF Injection, IsInjective
    <2>2. IsFiniteSet(1 .. c) /\ Cardinality(1 .. c) = c
      BY <1>1, FS_Interval
    <2>3. place \in Surjection(set, 1 .. c)
      BY <2>1, <2>2, FS_Injection
    <2> QED
      BY <2>3 DEF Surjection
  <1>6. \A k \in 1 .. c : Ascending(set)[k] \in set /\ place[Ascending(set)[k]] = k
    <2>1. \A x \in set : place[x] = Cardinality(below(x))
      OBVIOUS
    <2>2. Ascending(set) = [k \in 1 .. c |-> CHOOSE x \in set : Cardinality(below(x)) = k]
      BY DEF Ascending
    <2> HIDE DEF place, below, c
    <2>3. SUFFICES ASSUME NEW k \in 1 .. c
                   PROVE  Ascending(set)[k] \in set /\ place[Ascending(set)[k]] = k
      OBVIOUS
    <2>4. \E x \in set : Cardinality(below(x)) = k
      BY <1>5, <2>1
    <2>5. Ascending(set)[k] = CHOOSE x \in set : Cardinality(below(x)) = k
      BY <2>2
    <2>6. Ascending(set)[k] \in set /\ Cardinality(below(Ascending(set)[k])) = k
      BY <2>4, <2>5
    <2> QED
      BY <2>1, <2>6
  <1>7. Ascending(set) \in Seq(set) /\ Len(Ascending(set)) = c
    <2>1. Ascending(set) = [k \in 1 .. c |-> Ascending(set)[k]]
      BY DEF Ascending
    <2> HIDE DEF c, place
    <2>2. [k \in 1 .. c |-> Ascending(set)[k]] \in [1 .. c -> set]
      BY <1>6
    <2> QED
      BY <1>1, <2>1, <2>2
  <1>8. ASSUME NEW x \in set PROVE \E k \in 1 .. c : Ascending(set)[k] = x
    <2>1. place[x] \in 1 .. c
      BY <1>4, <1>8
    <2> HIDE DEF place, c
    <2>2. place[Ascending(set)[place[x]]] = place[x] /\ Ascending(set)[place[x]] \in set
      BY <1>6, <2>1
    <2> QED
      BY <1>4, <1>8, <2>1, <2>2
  <1> QED
    BY <1>1, <1>7, <1>8

\* The piece and the place in it of the i-th of a sequence cut into pieces of n.
LEMMA Division ==
    ASSUME NEW i \in Nat, NEW n \in Nat \ {0}
    PROVE  /\ i \div n \in Nat /\ i % n \in 0 .. n - 1
           /\ (i \div n) * n \in Nat /\ i = (i \div n) * n + (i % n)
  <1>1. i = n * (i \div n) + (i % n)
    OBVIOUS
  <1>2. i \div n \in Nat /\ i % n \in 0 .. n - 1
    OBVIOUS
  <1>3. \A q \in Nat : n * q = q * n /\ q * n \in Nat
    OBVIOUS
  <1> QED
    BY <1>1, <1>2, <1>3

\* A product grows with its factor.
LEMMA Multiples ==
    ASSUME NEW n \in Nat
    PROVE  /\ \A a \in Nat : a * n \in Nat /\ (a + 1) * n = a * n + n
           /\ \A a, b \in Nat : a < b => a * n + n <= b * n
           /\ 0 * n = 0 /\ 1 * n = n
  OBVIOUS

\* One quotient and one remainder make a number.
LEMMA OneQuotient ==
    \A n \in Nat \ {0}, a, b \in Nat : \A x, y \in 0 .. n - 1 :
      a * n + x = b * n + y => a = b /\ x = y
  <1> SUFFICES ASSUME NEW n \in Nat \ {0}, NEW a \in Nat, NEW b \in Nat,
                      NEW x \in 0 .. n - 1, NEW y \in 0 .. n - 1, a * n + x = b * n + y
               PROVE  a = b /\ x = y
    OBVIOUS
  <1>1. a * n \in Nat /\ b * n \in Nat
    BY Multiples
  <1>2. ~(a < b) /\ ~(b < a)
    BY <1>1, Multiples
  <1> QED
    BY <1>1, <1>2

\* The number of pieces.
LEMMA CeilDivision ==
    ASSUME NEW m \in Nat, NEW n \in Nat \ {0}
    PROVE  /\ CeilDiv(m, n) \in Nat /\ m <= CeilDiv(m, n) * n
           /\ \A j \in 1 .. CeilDiv(m, n) : (j - 1) * n < m
           /\ m = 0 <=> CeilDiv(m, n) = 0
  <1> DEFINE i == m + n - 1
             q == i \div n
             x == i % n
  <1>1. i \in Nat /\ CeilDiv(m, n) = q
    BY DEF CeilDiv
  <1>2. q \in Nat /\ x \in 0 .. n - 1 /\ q * n \in Nat /\ i = q * n + x
    BY <1>1, Division
  <1> HIDE DEF q, x
  <1>3. m <= q * n
    BY <1>2
  <1>4. ASSUME NEW j \in 1 .. q PROVE (j - 1) * n < m
    <2>1. (j - 1) * n + n <= q * n
      BY <1>2, <1>4, Multiples
    <2>2. (j - 1) * n \in Nat
      BY <1>2, <1>4, Multiples
    <2> QED
      BY <1>2, <2>1, <2>2
  <1>5. m = 0 => q = 0
    BY <1>2, <1>4, Multiples
  <1>6. q = 0 => m = 0
    BY <1>2, <1>3
  <1> QED
    BY <1>1, <1>2, <1>3, <1>4, <1>5, <1>6

-----------------------------------------------------------------------------
(* The driver's packing and a rank's flat rows. *)

\* Row-major order visits every cell of the mask, and cells only.
LEMMA Cells ==
    ASSUME NEW n \in Nat
    PROVE  /\ n * NumExperts \in Nat
           /\ \A i \in 1 .. n * NumExperts : Grid(n)[i] \in (1 .. n) \X Experts
           /\ \A b \in 1 .. n, e \in Experts :
                \E i \in 1 .. n * NumExperts : Grid(n)[i] = <<b, e>>
  <1> DEFINE w == NumExperts
  <1>1. w \in Nat \ {0} /\ Experts = 1 .. w
    BY FusionAssumption DEF Experts
  <1>2. n * w \in Nat
    BY <1>1, Multiples
  <1>3. Grid(n) = [i \in 1 .. n * w |-> <<((i - 1) \div w) + 1, ((i - 1) % w) + 1>>]
    BY DEF Grid
  <1> HIDE DEF w
  <1>4. ASSUME NEW i \in 1 .. n * w PROVE Grid(n)[i] \in (1 .. n) \X Experts
    <2> DEFINE q == (i - 1) \div w
               x == (i - 1) % w
    <2>0. i - 1 \in Nat
      BY <1>2
    <2>1. /\ q \in Nat /\ x \in 0 .. w - 1 /\ q * w \in Nat
          /\ i - 1 = q * w + x
      BY <1>1, <2>0, Division
    <2>2. Grid(n)[i] = <<q + 1, x + 1>>
      BY <1>3
    <2> HIDE DEF q, x
    <2>3. n = q \/ n < q => n * w <= q * w
      BY <1>1, <1>2, <2>1, Multiples
    <2>4. q < n
      BY <1>1, <1>2, <2>1, <2>3
    <2> QED
      BY <1>1, <2>1, <2>2, <2>4
  <1>5. ASSUME NEW b \in 1 .. n, NEW e \in Experts
        PROVE  \E i \in 1 .. n * w : Grid(n)[i] = <<b, e>>
    <2> DEFINE i == (b - 1) * w + e
               q == (i - 1) \div w
               x == (i - 1) % w
    <2>1. /\ (b - 1) * w \in Nat /\ (b - 1) * w + w = b * w /\ b * w \in Nat
          /\ b < n => b * w + w <= n * w
      BY <1>1, <1>2, Multiples
    <2>2. b * w <= n * w
      BY <1>1, <1>2, <2>1
    <2>3. i \in 1 .. n * w /\ i - 1 \in Nat
      BY <1>1, <1>2, <2>1, <2>2
    <2>4. i - 1 = (b - 1) * w + (e - 1) /\ e - 1 \in 0 .. w - 1 /\ b - 1 \in Nat
      BY <1>1, <2>1
    <2> HIDE DEF i
    <2>5. /\ q \in Nat /\ x \in 0 .. w - 1 /\ i - 1 = q * w + x
      BY <1>1, <2>3, Division
    <2>6. Grid(n)[i] = <<q + 1, x + 1>>
      BY <1>3, <2>3
    <2> HIDE DEF q, x
    <2> DEFINE y == e - 1
               a == b - 1
    <2>8. y \in 0 .. w - 1 /\ a \in Nat /\ a * w + y = q * w + x
      BY <2>4, <2>5
    <2> HIDE DEF y, a
    <2>9. w \in Nat \ {0} /\ q \in Nat /\ x \in 0 .. w - 1
      BY <1>1, <2>5
    <2>10. a = q /\ y = x
      BY <2>8, <2>9, OneQuotient
    <2> QED
      BY <1>1, <2>3, <2>6, <2>10 DEF a, y
  <1> QED
    BY <1>2, <1>4, <1>5 DEF w

\* The cells of a set of places of a mask, in row-major order.
Picked(n, set) == [k \in 1 .. Cardinality(set) |-> Grid(n)[Ascending(set)[k]]]

\* They are cells of places of the set, each of them.
LEMMA PickedCells ==
    ASSUME NEW n \in Nat, NEW set \in SUBSET (1 .. n * NumExperts)
    PROVE  /\ Picked(n, set) \in Seq((1 .. n) \X Experts)
           /\ \A k \in 1 .. Len(Picked(n, set)) : \E i \in set : Picked(n, set)[k] = Grid(n)[i]
           /\ \A i \in set : \E k \in 1 .. Len(Picked(n, set)) : Picked(n, set)[k] = Grid(n)[i]
  <1> DEFINE c == Cardinality(set)
             list == Ascending(set)
  <1>1. /\ n * NumExperts \in Nat
        /\ \A i \in 1 .. n * NumExperts : Grid(n)[i] \in (1 .. n) \X Experts
    BY Cells
  <1>2. /\ c \in 0 .. n * NumExperts /\ list \in Seq(set) /\ Len(list) = c
        /\ \A x \in set : \E k \in 1 .. c : list[k] = x
    BY <1>1, Enumerated
  <1>3. Picked(n, set) = [k \in 1 .. c |-> Grid(n)[list[k]]]
    BY DEF Picked
  <1> HIDE DEF c, list
  <1>4. c \in Nat /\ \A k \in 1 .. c : list[k] \in set
    BY <1>1, <1>2
  <1>5. Picked(n, set) \in Seq((1 .. n) \X Experts) /\ Len(Picked(n, set)) = c
    <2> DEFINE cells == (1 .. n) \X Experts
               f == [k \in 1 .. c |-> Grid(n)[list[k]]]
    <2>1. \A k \in 1 .. c : Grid(n)[list[k]] \in cells
      BY <1>1, <1>4
    <2> HIDE DEF cells
    <2>2. f \in [1 .. c -> cells] /\ f = Picked(n, set)
      BY <1>3, <2>1
    <2> HIDE DEF f
    <2>3. f \in Seq(cells) /\ Len(f) = c
      BY <1>4, <2>2
    <2> QED
      BY <2>2, <2>3 DEF cells
  <1>6. \A k \in 1 .. c : Picked(n, set)[k] = Grid(n)[list[k]]
    BY <1>3
  <1> HIDE DEF Picked
  <1>7. \A i \in set : \E k \in 1 .. c : Picked(n, set)[k] = Grid(n)[i]
    <2>1. SUFFICES ASSUME NEW i \in set PROVE \E k \in 1 .. c : Picked(n, set)[k] = Grid(n)[i]
      OBVIOUS
    <2>2. PICK k \in 1 .. c : list[k] = i
      BY <1>2
    <2> QED
      BY <1>6, <2>2
  <1>8. \A k \in 1 .. c : \E i \in set : Picked(n, set)[k] = Grid(n)[i]
    BY <1>4, <1>6
  <1> QED
    BY <1>5, <1>7, <1>8

\* The places of a rank's enabled pairs, and the pairs, as torch.nonzero lists them.
OnCells(r) ==
    {i \in 1 .. RowsPerRank * NumExperts :
       attached[SampleOf(r, Grid(RowsPerRank)[i][1])][Grid(RowsPerRank)[i][2]].on}
Flat(r) == Picked(RowsPerRank, OnCells(r))

\* A rank's flat rows are its enabled pairs, all of them.
LEMMA FlatCells ==
    ASSUME NEW r \in Ranks
    PROVE  /\ Flat(r) \in Seq(Rows \X Experts)
           /\ \A j \in 1 .. Len(Flat(r)) :
                attached[SampleOf(r, Flat(r)[j][1])][Flat(r)[j][2]].on
           /\ \A b \in Rows, e \in Experts :
                attached[SampleOf(r, b)][e].on => \E j \in 1 .. Len(Flat(r)) : Flat(r)[j] = <<b, e>>
  <1> DEFINE n == RowsPerRank
             set == OnCells(r)
             flat == Picked(n, set)
  <1>1. n \in Nat /\ Rows = 1 .. n /\ set \in SUBSET (1 .. n * NumExperts)
    BY SizesAssumption DEF Rows, OnCells
  <1>2. /\ flat \in Seq(Rows \X Experts)
        /\ \A k \in 1 .. Len(flat) : \E i \in set : flat[k] = Grid(n)[i]
        /\ \A i \in set : \E k \in 1 .. Len(flat) : flat[k] = Grid(n)[i]
    BY <1>1, PickedCells
  <1>3. \A b \in Rows, e \in Experts : \E i \in 1 .. n * NumExperts : Grid(n)[i] = <<b, e>>
    BY <1>1, Cells
  <1>4. \A i \in 1 .. n * NumExperts :
          i \in set <=> attached[SampleOf(r, Grid(n)[i][1])][Grid(n)[i][2]].on
    BY DEF OnCells
  <1>5. Flat(r) = flat
    BY DEF Flat
  <1> HIDE DEF n, set, flat
  <1>6. ASSUME NEW b \in Rows, NEW e \in Experts, attached[SampleOf(r, b)][e].on
        PROVE  \E j \in 1 .. Len(flat) : flat[j] = <<b, e>>
    <2>1. PICK i \in 1 .. n * NumExperts : Grid(n)[i] = <<b, e>>
      BY <1>3
    <2>2. i \in set
      BY <1>4, <1>6, <2>1
    <2> QED
      BY <1>2, <2>1, <2>2
  <1>7. ASSUME NEW j \in 1 .. Len(flat)
        PROVE  attached[SampleOf(r, flat[j][1])][flat[j][2]].on
    <2>1. PICK i \in set : flat[j] = Grid(n)[i]
      BY <1>2
    <2> QED
      BY <1>1, <1>4, <2>1
  <1> QED
    BY <1>2, <1>5, <1>6, <1>7

\* The gather and the scatter read the mask in the same order.
LEMMA FlatRows ==
    ASSUME NEW r, NEW topk
    PROVE  FlatExperts(r, topk) =
             [j \in 1 .. Len(Flat(r)) |->
                [prompt   |-> attached[SampleOf(r, Flat(r)[j][1])][Flat(r)[j][2]].row.prompt,
                 response |-> attached[SampleOf(r, Flat(r)[j][1])][Flat(r)[j][2]].row.response,
                 topk     |-> topk[Flat(r)[j][1]]]]
  BY DEF FlatExperts, NonZero, Flat, OnCells, Picked

\* The scatter too.
LEMMA SpecializedRows ==
    ASSUME NEW r, NEW flatScores
    PROVE  Specialized(r, flatScores) =
             [b \in Rows |-> [e \in Experts |->
                LET at == {j \in 1 .. Len(Flat(r)) : Flat(r)[j] = <<b, e>>}
                IN IF at = {} THEN Blank ELSE flatScores[CHOOSE j \in at : TRUE]]]
  BY DEF Specialized, NonZero, Flat, OnCells, Picked

\* expert_mask and expert_input_ids say of each pair what the sample asks for.
AttachedAs(b, grid) ==
    \A s \in Samples, e \in Experts :
      /\ grid[s][e].on = b[s].experts[e].enabled
      /\ grid[s][e].on => grid[s][e].row = [prompt |-> ExpertPrompt(b, s, e), response |-> s]

LEMMA PackedIsAttached ==
    ASSUME NEW b \in Layouts PROVE AttachedAs(b, Attach(Pack(b)))
  <1> DEFINE n == World * RowsPerRank
             set == {i \in 1 .. n * NumExperts :
                       b[Grid(n)[i][1]].experts[Grid(n)[i][2]].enabled}
             pairs == Picked(n, set)
             packed == [i \in 1 .. Len(pairs) |->
                          [at |-> pairs[i], prompt |-> ExpertPrompt(b, pairs[i][1], pairs[i][2]),
                           response |-> pairs[i][1]]]
  <1>1. Pack(b) = packed
    BY DEF Pack, NonZero, Picked
  <1>2. n \in Nat /\ Samples = 1 .. n
    BY SizesAssumption, Multiples DEF Samples
  <1>3. \A s \in Samples, e \in Experts : b[s].experts[e].enabled \in BOOLEAN
    BY LayoutsAssumption DEF Sample, Context
  <1>4. /\ pairs \in Seq(Samples \X Experts)
        /\ \A k \in 1 .. Len(pairs) : \E i \in set : pairs[k] = Grid(n)[i]
        /\ \A i \in set : \E k \in 1 .. Len(pairs) : pairs[k] = Grid(n)[i]
    <2>1. n \in Nat /\ set \in SUBSET (1 .. n * NumExperts) /\ Samples = 1 .. n
      BY <1>2
    <2> HIDE DEF n, set
    <2> QED
      BY <2>1, PickedCells
  <1>5. \A s \in Samples, e \in Experts : \E i \in 1 .. n * NumExperts : Grid(n)[i] = <<s, e>>
    BY <1>2, Cells
  <1>6. \A i \in 1 .. n * NumExperts : i \in set <=> b[Grid(n)[i][1]].experts[Grid(n)[i][2]].enabled
    OBVIOUS
  <1>7. Len(pairs) \in Nat /\ Len(packed) = Len(pairs)
    <2>1. pairs \in Seq(Samples \X Experts)
      BY <1>4
    <2> HIDE DEF pairs
    <2> QED
      BY <2>1
  <1>8. \A i \in 1 .. Len(pairs) :
          /\ packed[i].at = pairs[i] /\ packed[i].response = pairs[i][1]
          /\ packed[i].prompt = ExpertPrompt(b, pairs[i][1], pairs[i][2])
    OBVIOUS
  <1> HIDE DEF n, set, pairs, packed
  <1>9. ASSUME NEW s \in Samples, NEW e \in Experts
        PROVE  /\ Attach(packed)[s][e].on = b[s].experts[e].enabled
               /\ Attach(packed)[s][e].on =>
                    Attach(packed)[s][e].row = [prompt |-> ExpertPrompt(b, s, e), response |-> s]
    <2> DEFINE rows == {i \in 1 .. Len(packed) : packed[i].at = <<s, e>>}
               k == CHOOSE i \in rows : TRUE
    <2>1. Attach(packed)[s][e] =
            IF rows = {} THEN [on |-> FALSE, row |-> Blank]
            ELSE [on |-> TRUE, row |-> [prompt |-> packed[k].prompt, response |-> packed[k].response]]
      BY DEF Attach
    <2>2. rows = {i \in 1 .. Len(pairs) : pairs[i] = <<s, e>>}
      BY <1>7, <1>8
    <2>3. rows # {} <=> b[s].experts[e].enabled
      <3>1. ASSUME rows # {} PROVE b[s].experts[e].enabled
        <4>1. PICK j \in 1 .. Len(pairs) : pairs[j] = <<s, e>>
          BY <2>2, <3>1
        <4>2. PICK i \in set : <<s, e>> = Grid(n)[i]
          BY <1>4, <4>1
        <4>3. i \in 1 .. n * NumExperts
          BY DEF set
        <4> QED
          BY <1>6, <4>2, <4>3
      <3>2. ASSUME b[s].experts[e].enabled PROVE rows # {}
        <4>1. PICK i \in 1 .. n * NumExperts : Grid(n)[i] = <<s, e>>
          BY <1>5
        <4>2. i \in set
          BY <1>6, <3>2, <4>1
        <4>3. \E j \in 1 .. Len(pairs) : pairs[j] = <<s, e>>
          BY <1>4, <4>1, <4>2
        <4> QED
          BY <2>2, <4>3
      <3> QED
        BY <3>1, <3>2
    <2>4. rows # {} => k \in 1 .. Len(pairs) /\ pairs[k] = <<s, e>>
      BY <2>2
    <2> HIDE DEF rows, k
    <2>5. rows # {} => packed[k].prompt = ExpertPrompt(b, s, e) /\ packed[k].response = s
      BY <1>8, <2>4
    <2>6. CASE rows = {}
      <3>1. Attach(packed)[s][e] = [on |-> FALSE, row |-> Blank]
        BY <2>1, <2>6
      <3>2. b[s].experts[e].enabled = FALSE
        BY <1>3, <2>3, <2>6
      <3>3. Attach(packed)[s][e].on = FALSE
        BY <3>1
      <3> QED
        BY <3>2, <3>3, Zenon
    <2>7. CASE rows # {}
      <3>1. Attach(packed)[s][e] =
              [on |-> TRUE, row |-> [prompt |-> ExpertPrompt(b, s, e), response |-> s]]
        BY <2>1, <2>5, <2>7
      <3>2. b[s].experts[e].enabled = TRUE
        BY <1>3, <2>3, <2>7
      <3>3. /\ Attach(packed)[s][e].on = TRUE
            /\ Attach(packed)[s][e].row = [prompt |-> ExpertPrompt(b, s, e), response |-> s]
        BY <3>1
      <3> QED
        BY <3>2, <3>3, Zenon
    <2> QED
      BY <2>6, <2>7
  <1> QED
    BY <1>1, <1>9 DEF AttachedAs

-----------------------------------------------------------------------------
(* Cutting rows into chunks, and a chunk into micro-batches. *)

\* cs are consecutive pieces of rows after the first k, up to the last row.
Entries(rows) == {rows[i] : i \in 1 .. Len(rows)}
Pieces(cs, rows, k) ==
    /\ cs \in Seq(Seq(Entries(rows)))
    /\ \E cut \in [0 .. Len(cs) -> 0 .. Len(rows)] :
         /\ cut[0] = k /\ cut[Len(cs)] = Len(rows)
         /\ \A j \in 1 .. Len(cs) : /\ cut[j - 1] <= cut[j]
                                    /\ cs[j] = SubSeq(rows, cut[j - 1] + 1, cut[j])

\* A piece of a sequence.
LEMMA SubSequence ==
    ASSUME NEW S, NEW s \in Seq(S), NEW a \in Nat, NEW b \in 0 .. Len(s), a <= b
    PROVE  /\ SubSeq(s, a + 1, b) \in Seq(S) /\ Len(SubSeq(s, a + 1, b)) = b - a
           /\ \A i \in 1 .. b - a : SubSeq(s, a + 1, b)[i] = s[a + i]
  OBVIOUS

\* A sequence is one over its own entries.
LEMMA OwnEntries ==
    ASSUME NEW S, NEW rows \in Seq(S) PROVE rows \in Seq(Entries(rows))
  BY DEF Entries

\* The first piece follows the k entries before it, the others follow it.
LEMMA FirstPiece ==
    ASSUME NEW S, NEW rows \in Seq(S), NEW cs, NEW k, Pieces(cs, rows, k), cs # <<>>
    PROVE  /\ k \in Nat /\ k + Len(Head(cs)) \in k .. Len(rows)
           /\ Head(cs) \in Seq(Entries(rows)) /\ Len(Head(cs)) \in Nat
           /\ \A i \in 1 .. Len(Head(cs)) : Head(cs)[i] = rows[k + i]
           /\ Pieces(Tail(cs), rows, k + Len(Head(cs)))
  <1> DEFINE n == Len(cs)
             E == Entries(rows)
  <1>1. PICK cut \in [0 .. n -> 0 .. Len(rows)] :
          /\ cut[0] = k /\ cut[n] = Len(rows)
          /\ \A j \in 1 .. n : /\ cut[j - 1] <= cut[j]
                               /\ cs[j] = SubSeq(rows, cut[j - 1] + 1, cut[j])
    BY DEF Pieces
  <1>2. cs \in Seq(Seq(E)) /\ rows \in Seq(E)
    BY OwnEntries DEF Pieces
  <1> HIDE DEF E
  <1>3. n \in Nat /\ Len(rows) \in Nat
    BY <1>2
  <1>4. \A j \in 0 .. n : cut[j] \in 0 .. Len(rows)
    BY <1>1
  <1>5. \A j \in 1 .. n : /\ Len(cs[j]) = cut[j] - cut[j - 1]
                          /\ \A i \in 1 .. Len(cs[j]) : cs[j][i] = rows[cut[j - 1] + i]
    <2> SUFFICES ASSUME NEW j \in 1 .. n
                 PROVE  /\ Len(cs[j]) = cut[j] - cut[j - 1]
                        /\ \A i \in 1 .. Len(cs[j]) : cs[j][i] = rows[cut[j - 1] + i]
      OBVIOUS
    <2>1. j \in 0 .. n /\ j - 1 \in 0 .. n
      BY <1>3
    <2> DEFINE a == cut[j - 1]
               z == cut[j]
    <2>2. /\ z \in 0 .. Len(rows) /\ a \in 0 .. Len(rows) /\ a <= z
          /\ cs[j] = SubSeq(rows, a + 1, z)
      BY <1>1, <1>4, <2>1
    <2> HIDE DEF a, z
    <2>3. a \in Nat /\ z \in 0 .. Len(rows) /\ a <= z
      BY <1>3, <2>2
    <2>4. /\ Len(SubSeq(rows, a + 1, z)) = z - a
          /\ \A i \in 1 .. z - a : SubSeq(rows, a + 1, z)[i] = rows[a + i]
      BY <1>2, <2>3, SubSequence
    <2> QED
      BY <2>2, <2>4 DEF a, z
  <1>6. n # 0 /\ Head(cs) = cs[1] /\ Head(cs) \in Seq(E)
    BY <1>2
  <1>7. /\ Tail(cs) \in Seq(Seq(E)) /\ Len(Tail(cs)) = n - 1
        /\ \A j \in 1 .. n - 1 : Tail(cs)[j] = cs[j + 1]
    BY <1>2, <1>6
  <1>8. 1 \in 1 .. n /\ 0 \in 0 .. n /\ 1 \in 0 .. n /\ n - 1 \in Nat /\ n \in 0 .. n
    BY <1>3, <1>6
  <1>9. /\ cut[1] = k + Len(Head(cs)) /\ k \in Nat /\ cut[1] \in k .. Len(rows)
        /\ Len(Head(cs)) \in Nat
        /\ \A i \in 1 .. Len(Head(cs)) : Head(cs)[i] = rows[k + i]
    <2>1. cut[0] = k /\ k \in Nat /\ cut[1] \in 0 .. Len(rows) /\ k <= cut[1]
      BY <1>1, <1>4, <1>8
    <2>2. /\ Len(cs[1]) = cut[1] - k
          /\ \A i \in 1 .. Len(cs[1]) : cs[1][i] = rows[k + i]
      BY <1>5, <1>8, <2>1
    <2> QED
      BY <1>3, <1>6, <2>1, <2>2
  <1>10. Pieces(Tail(cs), rows, cut[1])
    <2> DEFINE later == [j \in 0 .. n - 1 |-> cut[j + 1]]
    <2>1. \A j \in 0 .. n - 1 : j + 1 \in 0 .. n
      BY <1>3
    <2>2. later \in [0 .. n - 1 -> 0 .. Len(rows)]
      BY <1>4, <2>1
    <2>3. later[0] = cut[1] /\ later[n - 1] = Len(rows)
      BY <1>1, <1>8
    <2>4. ASSUME NEW j \in 1 .. n - 1
          PROVE  /\ later[j - 1] <= later[j]
                 /\ Tail(cs)[j] = SubSeq(rows, later[j - 1] + 1, later[j])
      <3>1. j + 1 \in 1 .. n /\ j \in 0 .. n - 1 /\ j - 1 \in 0 .. n - 1 /\ (j + 1) - 1 = j
            /\ (j - 1) + 1 = j
        BY <1>3
      <3>2. later[j] = cut[j + 1] /\ later[j - 1] = cut[j]
        BY <3>1
      <3> QED
        BY <1>1, <1>7, <3>1, <3>2
    <2> HIDE DEF later
    <2> QED
      BY <1>7, <2>2, <2>3, <2>4 DEF Pieces, E
  <1> QED
    BY <1>6, <1>9, <1>10 DEF E

\* When no piece is left, every entry is before the cut.
LEMMA LastPieceDone ==
    ASSUME NEW rows, NEW k, Pieces(<<>>, rows, k) PROVE k = Len(rows)
  BY DEF Pieces

\* One piece may be the whole, and nothing needs none.
LEMMA WholePiece ==
    ASSUME NEW S, NEW rows \in Seq(S)
    PROVE  /\ Pieces(<<rows>>, rows, 0)
           /\ rows = <<>> => Pieces(<<>>, rows, 0)
  <1> DEFINE cut == [j \in 0 .. 1 |-> IF j = 0 THEN 0 ELSE Len(rows)]
  <1>1. Len(rows) \in Nat /\ SubSeq(rows, 1, Len(rows)) = rows
    OBVIOUS
  <1>2. Pieces(<<rows>>, rows, 0)
    <2>1. cut \in [0 .. 1 -> 0 .. Len(rows)] /\ cut[0] = 0 /\ cut[1] = Len(rows)
      BY <1>1
    <2>2. \A j \in 1 .. 1 : j = 1 /\ j - 1 = 0
      OBVIOUS
    <2>3. <<rows>> \in Seq(Seq(Entries(rows))) /\ Len(<<rows>>) = 1 /\ <<rows>>[1] = rows
      BY OwnEntries
    <2> HIDE DEF cut
    <2> QED
      BY <1>1, <2>1, <2>2, <2>3 DEF Pieces
  <1>3. ASSUME rows = <<>> PROVE Pieces(<<>>, rows, 0)
    <2> DEFINE none == [j \in 0 .. 0 |-> 0]
    <2>1. Len(rows) = 0 /\ none \in [0 .. 0 -> 0 .. 0] /\ none[0] = 0
      BY <1>3
    <2>2. <<>> \in Seq(Seq(Entries(rows))) /\ Len(<<>>) = 0 /\ 1 .. 0 = {}
      OBVIOUS
    <2> HIDE DEF none
    <2> QED
      BY <2>1, <2>2 DEF Pieces
  <1> QED
    BY <1>2, <1>3

\* DataProto.split cuts the rows into consecutive pieces.
LEMMA SplitPieces ==
    ASSUME NEW S, NEW rows \in Seq(S), NEW n \in Nat \ {0}
    PROVE  Pieces(Split(rows, n), rows, 0)
  <1> DEFINE c == CeilDiv(Len(rows), n)
             cut == [j \in 0 .. c |-> Least(j * n, Len(rows))]
  <1>1. Len(rows) \in Nat
    OBVIOUS
  <1>2. /\ c \in Nat /\ Len(rows) <= c * n /\ \A j \in 1 .. c : (j - 1) * n < Len(rows)
    BY <1>1, CeilDivision
  <1>3. /\ Split(rows, n) = [j \in 1 .. c |-> SubSeq(rows, (j - 1) * n + 1, Least(j * n, Len(rows)))]
    BY DEF Split
  <1> HIDE DEF c
  <1>4. \A j \in 0 .. c : j * n \in Nat /\ Least(j * n, Len(rows)) \in 0 .. Len(rows)
    BY <1>1, <1>2, Multiples DEF Least
  <1>5. cut \in [0 .. c -> 0 .. Len(rows)] /\ \A j \in 0 .. c : cut[j] = Least(j * n, Len(rows))
    BY <1>4
  <1> HIDE DEF cut
  <1>6. cut[0] = 0 /\ cut[c] = Len(rows)
    <2>1. 0 * n = 0 /\ c \in 0 .. c /\ 0 \in 0 .. c /\ c * n \in Nat
      BY <1>2, <1>4
    <2> QED
      BY <1>1, <1>2, <1>5, <2>1 DEF Least
  <1>7. ASSUME NEW j \in 1 .. c
        PROVE  /\ cut[j - 1] <= cut[j]
               /\ Split(rows, n)[j] = SubSeq(rows, cut[j - 1] + 1, cut[j])
    <2>1. j \in 0 .. c /\ j - 1 \in 0 .. c /\ j - 1 \in Nat /\ (j - 1) + 1 = j
      BY <1>2
    <2>2. (j - 1) * n + n = j * n /\ (j - 1) * n \in Nat /\ (j - 1) * n < Len(rows)
      BY <1>2, <2>1, Multiples
    <2>3. cut[j - 1] = (j - 1) * n
      BY <1>5, <2>1, <2>2 DEF Least
    <2>4. cut[j] = Least(j * n, Len(rows))
      BY <1>5, <2>1
    <2>5. (j - 1) * n <= Least(j * n, Len(rows))
      BY <1>1, <2>2 DEF Least
    <2> QED
      BY <1>3, <2>3, <2>4, <2>5
  <1>8. Split(rows, n) \in Seq(Seq(Entries(rows))) /\ Len(Split(rows, n)) = c
    <2> DEFINE E == Entries(rows)
               f == [j \in 1 .. c |-> SubSeq(rows, (j - 1) * n + 1, Least(j * n, Len(rows)))]
    <2>1. rows \in Seq(E)
      BY OwnEntries
    <2> HIDE DEF E
    <2>2. ASSUME NEW j \in 1 .. c
          PROVE  SubSeq(rows, (j - 1) * n + 1, Least(j * n, Len(rows))) \in Seq(E)
      <3>1. j \in 0 .. c /\ j - 1 \in 0 .. c
        BY <1>2
      <3>2. cut[j - 1] <= cut[j] /\ cut[j - 1] \in Nat /\ cut[j] \in 0 .. Len(rows)
        BY <1>5, <1>7, <3>1
      <3>3. SubSeq(rows, cut[j - 1] + 1, cut[j]) \in Seq(E)
        BY <2>1, <3>2, SubSequence
      <3> QED
        BY <1>3, <1>7, <3>3
    <2>3. f \in [1 .. c -> Seq(E)] /\ Split(rows, n) = f
      BY <1>3, <2>2
    <2> HIDE DEF f
    <2>4. f \in Seq(Seq(E)) /\ Len(f) = c
      BY <1>2, <2>3
    <2> QED
      BY <2>3, <2>4 DEF E
  <1> QED
    BY <1>2, <1>5, <1>6, <1>7, <1>8 DEF Pieces

\* A number is in a list.
Holds(list, i) == \E p \in 1 .. Len(list) : list[p] = i

\* Lists of the indices of n rows, each index in exactly one of them.
Covers(lists, n) ==
    /\ lists \in Seq(Seq(1 .. n))
    /\ \A i \in 1 .. n : \E j \in 1 .. Len(lists) : Holds(lists[j], i)
    /\ \A i \in 1 .. n : \A j, l \in 1 .. Len(lists) :
         Holds(lists[j], i) /\ Holds(lists[l], i) => j = l

\* data.split(size): piece j holds the indices from (j - 1) * size + 1 to j * size.
LEMMA StaticCovers ==
    ASSUME NEW S, NEW rows \in Seq(S), NEW size \in Nat \ {0}
    PROVE  Covers(Split(Indices(rows), size), Len(rows))
  <1> DEFINE m == Len(rows)
             c == CeilDiv(m, size)
             all == Indices(rows)
             lists == Split(all, size)
             from(j) == (j - 1) * size
             to(j) == Least(j * size, m)
  <1>1. m \in Nat /\ all \in Seq(1 .. m) /\ Len(all) = m /\ \A i \in 1 .. m : all[i] = i
    <2>1. m \in Nat /\ all = [i \in 1 .. m |-> i]
      BY DEF Indices
    <2> HIDE DEF m
    <2> QED
      BY <2>1
  <1>2. /\ c \in Nat /\ m <= c * size /\ \A j \in 1 .. c : (j - 1) * size < m
    BY <1>1, CeilDivision
  <1>3. lists = [j \in 1 .. c |-> SubSeq(all, from(j) + 1, to(j))]
    BY <1>1 DEF Split
  <1> HIDE DEF m, c, all, lists
  <1>4. ASSUME NEW j \in 1 .. c
        PROVE  /\ from(j) \in Nat /\ to(j) \in 0 .. m /\ from(j) <= to(j)
               /\ j * size \in Nat /\ from(j) + size = j * size
    <2>1. j \in Nat /\ j - 1 \in Nat /\ (j - 1) + 1 = j
      BY <1>2
    <2>2. from(j) \in Nat /\ from(j) + size = j * size /\ j * size \in Nat
      BY <2>1, Multiples
    <2>3. from(j) < m
      BY <1>2
    <2> HIDE DEF from
    <2> QED
      BY <1>1, <2>2, <2>3 DEF Least
  <1>5. ASSUME NEW j \in 1 .. c
        PROVE  /\ lists[j] \in Seq(1 .. m)
               /\ \A i \in 1 .. m : Holds(lists[j], i) <=> from(j) < i /\ i <= to(j)
    <2> DEFINE a == from(j)
               z == to(j)
    <2>1. a \in Nat /\ z \in 0 .. m /\ a <= z /\ lists[j] = SubSeq(all, a + 1, z)
      BY <1>3, <1>4
    <2> HIDE DEF a, z
    <2>2. /\ lists[j] \in Seq(1 .. m) /\ Len(lists[j]) = z - a
          /\ \A i \in 1 .. z - a : lists[j][i] = all[a + i]
      BY <1>1, <2>1, SubSequence
    <2>3. ASSUME NEW i \in 1 .. z - a PROVE lists[j][i] = a + i
      <3>1. a + i \in 1 .. m
        BY <1>1, <2>1
      <3>2. all[a + i] = a + i
        BY <1>1, <3>1
      <3> QED
        BY <2>2, <3>2
    <2>4. ASSUME NEW i \in 1 .. m PROVE Holds(lists[j], i) <=> a < i /\ i <= z
      <3>1. ASSUME a < i, i <= z PROVE Holds(lists[j], i)
        <4>1. i - a \in 1 .. z - a /\ a + (i - a) = i
          BY <1>1, <2>1, <3>1
        <4>2. lists[j][i - a] = i
          BY <2>3, <4>1
        <4> QED
          BY <2>2, <4>1, <4>2 DEF Holds
      <3>2. ASSUME Holds(lists[j], i) PROVE a < i /\ i <= z
        <4>1. PICK p \in 1 .. z - a : lists[j][p] = i
          BY <2>2, <3>2 DEF Holds
        <4> QED
          BY <1>1, <2>1, <2>3, <4>1
      <3> QED
        BY <3>1, <3>2
    <2> QED
      BY <2>2, <2>4 DEF a, z
  <1>6. lists \in Seq(Seq(1 .. m)) /\ Len(lists) = c
    <2> DEFINE cut == [j \in 1 .. c |-> SubSeq(all, from(j) + 1, to(j))]
    <2>1. cut \in [1 .. c -> Seq(1 .. m)] /\ lists = cut
      BY <1>3, <1>5
    <2> HIDE DEF cut
    <2> QED
      BY <1>2, <2>1
  <1>7. ASSUME NEW i \in 1 .. m PROVE \E j \in 1 .. Len(lists) : Holds(lists[j], i)
    <2> DEFINE q == (i - 1) \div size
               x == (i - 1) % size
    <2>1. i - 1 \in Nat
      BY <1>1
    <2>2. q \in Nat /\ x \in 0 .. size - 1 /\ q * size \in Nat /\ i - 1 = q * size + x
      BY <2>1, Division
    <2> HIDE DEF q, x
    <2>3. q < c
      <3>1. c = q \/ c < q => c * size <= q * size
        BY <1>2, <2>2, Multiples
      <3>2. c * size \in Nat
        BY <1>2, Multiples
      <3> QED
        BY <1>1, <1>2, <2>2, <3>1, <3>2
    <2>4. q + 1 \in 1 .. c /\ (q + 1) - 1 = q
      BY <1>2, <2>2, <2>3
    <2>5. from(q + 1) = q * size /\ (q + 1) * size = q * size + size
      BY <2>2, <2>4, Multiples
    <2>6. from(q + 1) < i /\ i <= to(q + 1)
      BY <1>1, <2>2, <2>5 DEF Least
    <2> HIDE DEF from, to
    <2> QED
      BY <1>5, <1>6, <2>4, <2>6
  <1>8. ASSUME NEW i \in 1 .. m, NEW j \in 1 .. c, NEW l \in 1 .. c, j < l,
               Holds(lists[j], i), Holds(lists[l], i)
        PROVE  FALSE
    <2>1. i <= to(j) /\ from(l) < i
      BY <1>5, <1>8
    <2>2. j * size <= from(l)
      <3>1. l - 1 \in Nat /\ j \in Nat /\ (j = l - 1 \/ j < l - 1)
        BY <1>2, <1>8
      <3>2. j * size \in Nat /\ (l - 1) * size \in Nat
            /\ (j < l - 1 => j * size + size <= (l - 1) * size)
        BY <3>1, Multiples
      <3> QED
        BY <3>1, <3>2
    <2>3. to(j) <= j * size
      BY <1>1, <1>4 DEF Least
    <2>4. from(l) \in Nat /\ to(j) \in Nat /\ j * size \in Nat
      BY <1>1, <1>4
    <2> HIDE DEF from, to
    <2> QED
      BY <1>1, <2>1, <2>2, <2>3, <2>4
  <1>9. \A i \in 1 .. m : \A j, l \in 1 .. c :
          Holds(lists[j], i) /\ Holds(lists[l], i) => j = l
    <2>1. \A j, l \in 1 .. c : j = l \/ j < l \/ l < j
      BY <1>2
    <2> QED
      BY <1>8, <2>1
  <1> QED
    BY <1>6, <1>7, <1>9 DEF Covers, m, all, lists

\* Whatever the balancing assigns, each row is in one micro-batch.
LEMMA DynamicCovers ==
    ASSUME NEW n \in Nat, NEW k \in Nat, NEW lists \in Partitions(n, k)
    PROVE  Covers(lists, n)
  <1>1. PICK f \in [1 .. n -> 1 .. k] :
          /\ \A j \in 1 .. k : \E i \in 1 .. n : f[i] = j
          /\ lists = [j \in 1 .. k |-> Ascending({i \in 1 .. n : f[i] = j})]
    BY DEF Partitions
  <1>2. ASSUME NEW j \in 1 .. k
        PROVE  /\ lists[j] \in Seq(1 .. n)
               /\ \A i \in 1 .. n : Holds(lists[j], i) <=> f[i] = j
    <2> DEFINE set == {i \in 1 .. n : f[i] = j}
    <2>1. set \in SUBSET (1 .. n) /\ lists[j] = Ascending(set) /\ \A i \in 1 .. n : i \in set <=> f[i] = j
      BY <1>1
    <2> HIDE DEF set
    <2>2. /\ Cardinality(set) \in 0 .. n
          /\ lists[j] \in Seq(set) /\ Len(lists[j]) = Cardinality(set)
          /\ \A x \in set : \E p \in 1 .. Cardinality(set) : lists[j][p] = x
      BY <2>1, Enumerated
    <2>3. \A p \in 1 .. Len(lists[j]) : lists[j][p] \in set
      BY <2>2
    <2>4. lists[j] \in Seq(1 .. n)
      BY <2>1, <2>2
    <2> QED
      BY <2>1, <2>2, <2>3, <2>4 DEF Holds
  <1>3. lists \in Seq(Seq(1 .. n)) /\ Len(lists) = k
    <2> DEFINE g == [j \in 1 .. k |-> Ascending({i \in 1 .. n : f[i] = j})]
    <2>1. g \in [1 .. k -> Seq(1 .. n)] /\ lists = g
      BY <1>1, <1>2
    <2> HIDE DEF g
    <2> QED
      BY <2>1
  <1>4. \A i \in 1 .. n : f[i] \in 1 .. k
    OBVIOUS
  <1> QED
    BY <1>2, <1>3, <1>4 DEF Covers

\* done are the indices of a chunk of n rows that have run, lists the
\* micro-batches that have not: each index is in one of these.
Underway(done, lists, n) ==
    /\ done \in Seq(1 .. n) /\ lists \in Seq(Seq(1 .. n))
    /\ \A i \in 1 .. n : Holds(done, i) \/ \E j \in 1 .. Len(lists) : Holds(lists[j], i)
    /\ \A i \in 1 .. n : \A j \in 1 .. Len(lists) : ~(Holds(done, i) /\ Holds(lists[j], i))
    /\ \A i \in 1 .. n : \A j, l \in 1 .. Len(lists) :
         Holds(lists[j], i) /\ Holds(lists[l], i) => j = l

\* What a concatenation holds.
LEMMA JoinedHolds ==
    ASSUME NEW S, NEW s \in Seq(S), NEW t \in Seq(S), NEW i
    PROVE  Holds(s \o t, i) <=> Holds(s, i) \/ Holds(t, i)
  <1>1. /\ Len(s) \in Nat /\ Len(t) \in Nat /\ Len(s \o t) = Len(s) + Len(t)
        /\ \A p \in 1 .. Len(s) : (s \o t)[p] = s[p]
        /\ \A p \in 1 .. Len(t) : (s \o t)[Len(s) + p] = t[p]
    OBVIOUS
  <1>2. ASSUME Holds(s, i) PROVE Holds(s \o t, i)
    <2>1. PICK p \in 1 .. Len(s) : s[p] = i
      BY <1>2 DEF Holds
    <2> QED
      BY <1>1, <2>1 DEF Holds
  <1>3. ASSUME Holds(t, i) PROVE Holds(s \o t, i)
    <2>1. PICK p \in 1 .. Len(t) : t[p] = i
      BY <1>3 DEF Holds
    <2>2. Len(s) + p \in 1 .. Len(s \o t)
      BY <1>1
    <2> QED
      BY <1>1, <2>1, <2>2 DEF Holds
  <1>4. ASSUME Holds(s \o t, i) PROVE Holds(s, i) \/ Holds(t, i)
    <2>1. PICK p \in 1 .. Len(s \o t) : (s \o t)[p] = i
      BY <1>4 DEF Holds
    <2>2. CASE p <= Len(s)
      BY <1>1, <2>1, <2>2 DEF Holds
    <2>3. CASE ~(p <= Len(s))
      <3>1. p - Len(s) \in 1 .. Len(t) /\ Len(s) + (p - Len(s)) = p
        BY <1>1, <2>3
      <3> QED
        BY <1>1, <2>1, <3>1 DEF Holds
    <2> QED
      BY <2>2, <2>3
  <1> QED
    BY <1>2, <1>3, <1>4

\* The next micro-batch runs: its indices had not.
LEMMA MicroRuns ==
    ASSUME NEW n \in Nat, NEW done, NEW lists, Underway(done, lists, n), lists # <<>>
    PROVE  /\ Underway(done \o Head(lists), Tail(lists), n)
           /\ Head(lists) \in Seq(1 .. n)
           /\ \A i \in 1 .. n : ~(Holds(done, i) /\ Holds(Head(lists), i))
  <1> DEFINE head == Head(lists)
             tail == Tail(lists)
             more == done \o head
  <1>1. done \in Seq(1 .. n) /\ lists \in Seq(Seq(1 .. n))
    BY DEF Underway
  <1>2. /\ head \in Seq(1 .. n) /\ head = lists[1] /\ tail \in Seq(Seq(1 .. n))
        /\ Len(lists) \in Nat \ {0} /\ Len(tail) = Len(lists) - 1
        /\ \A j \in 1 .. Len(tail) : tail[j] = lists[j + 1]
    BY <1>1
  <1>3. more \in Seq(1 .. n) /\ \A i : Holds(more, i) <=> Holds(done, i) \/ Holds(head, i)
    BY <1>1, <1>2, JoinedHolds
  <1> HIDE DEF head, tail, more
  <1>4. ASSUME NEW i \in 1 .. n
        PROVE  Holds(more, i) \/ \E j \in 1 .. Len(tail) : Holds(tail[j], i)
    <2>1. CASE Holds(done, i)
      BY <1>3, <2>1
    <2>2. CASE ~Holds(done, i)
      <3>1. PICK j \in 1 .. Len(lists) : Holds(lists[j], i)
        BY <2>2 DEF Underway
      <3>2. CASE j = 1
        BY <1>2, <1>3, <3>1, <3>2
      <3>3. CASE j # 1
        <4>1. j - 1 \in 1 .. Len(tail) /\ (j - 1) + 1 = j
          BY <1>2, <3>3
        <4> QED
          BY <1>2, <3>1, <4>1
      <3> QED
        BY <3>2, <3>3
    <2> QED
      BY <2>1, <2>2
  <1>5. \A j \in 1 .. Len(tail) : j + 1 \in 1 .. Len(lists) /\ j + 1 # 1
    BY <1>2
  <1>6. 1 \in 1 .. Len(lists)
    BY <1>2
  <1>7. ASSUME NEW i \in 1 .. n, NEW j \in 1 .. Len(tail), Holds(more, i), Holds(tail[j], i)
        PROVE  FALSE
    <2>1. Holds(lists[j + 1], i) /\ j + 1 \in 1 .. Len(lists) /\ j + 1 # 1
      BY <1>2, <1>5, <1>7
    <2>2. ~Holds(done, i)
      BY <2>1 DEF Underway
    <2>3. Holds(lists[1], i)
      BY <1>2, <1>3, <1>7, <2>2
    <2>4. j + 1 = 1
      BY <1>6, <2>1, <2>3 DEF Underway
    <2> QED
      BY <2>1, <2>4
  <1>8. ASSUME NEW i \in 1 .. n, NEW j \in 1 .. Len(tail), NEW l \in 1 .. Len(tail),
               Holds(tail[j], i), Holds(tail[l], i)
        PROVE  j = l
    <2>1. Holds(lists[j + 1], i) /\ Holds(lists[l + 1], i)
      BY <1>2, <1>8
    <2>2. j + 1 = l + 1
      BY <1>5, <2>1 DEF Underway
    <2> QED
      BY <1>2, <2>2
  <1>9. \A i \in 1 .. n : ~(Holds(done, i) /\ Holds(head, i))
    BY <1>2, <1>6 DEF Underway
  <1>10. Underway(more, tail, n)
    BY <1>2, <1>3, <1>4, <1>7, <1>8 DEF Underway
  <1> QED
    BY <1>2, <1>9, <1>10 DEF head, tail, more

\* Nothing has run of a chunk just cut.
LEMMA CutUnderway ==
    ASSUME NEW n \in Nat, NEW lists, Covers(lists, n) PROVE Underway(<<>>, lists, n)
  <1>1. <<>> \in Seq(1 .. n) /\ Len(<<>>) = 0 /\ 1 .. 0 = {}
    OBVIOUS
  <1>2. \A i : ~Holds(<<>>, i)
    BY <1>1 DEF Holds
  <1> QED
    BY <1>1, <1>2 DEF Underway, Covers

\* No micro-batch is left: every index has run.
LEMMA AllRun ==
    ASSUME NEW n \in Nat, NEW done, Underway(done, <<>>, n)
    PROVE  done \in Seq(1 .. n) /\ \A i \in 1 .. n : Holds(done, i)
  <1>1. Len(<<>>) = 0 /\ 1 .. 0 = {}
    OBVIOUS
  <1> QED
    BY <1>1 DEF Underway

\* A concatenation, entry by entry.
LEMMA Joining ==
    ASSUME NEW V, NEW a \in Seq(V), NEW b \in Seq(V), NEW c \in Seq(V),
           Len(c) = Len(a) + Len(b), \A p \in 1 .. Len(a) : c[p] = a[p],
           \A p \in 1 .. Len(b) : c[Len(a) + p] = b[p]
    PROVE  a \o b = c
  <1>1. /\ Len(a) \in Nat /\ Len(b) \in Nat /\ a \o b \in Seq(V)
        /\ Len(a \o b) = Len(a) + Len(b)
        /\ \A p \in 1 .. Len(a) : (a \o b)[p] = a[p]
        /\ \A p \in 1 .. Len(b) : (a \o b)[Len(a) + p] = b[p]
    OBVIOUS
  <1>2. ASSUME NEW p \in 1 .. Len(c) PROVE (a \o b)[p] = c[p]
    <2>1. CASE p <= Len(a)
      BY <1>1, <2>1
    <2>2. CASE ~(p <= Len(a))
      <3>1. p - Len(a) \in 1 .. Len(b) /\ Len(a) + (p - Len(a)) = p
        BY <1>1, <2>2
      <3> QED
        BY <1>1, <3>1
    <2> QED
      BY <2>1, <2>2
  <1> QED
    BY <1>1, <1>2

\* What g gives for the indices of a list, in the order of the list.
Along(g, list) == [p \in 1 .. Len(list) |-> g[list[p]]]

\* Along nothing there is nothing.
LEMMA EmptyAlong == \A g : Along(g, <<>>) = <<>>
  BY DEF Along

\* Scores of two micro-batches in turn are those of their indices in turn.
LEMMA AlongJoined ==
    ASSUME NEW S, NEW s \in Seq(S), NEW t \in Seq(S), NEW g
    PROVE  Along(g, s) \o Along(g, t) = Along(g, s \o t)
  <1> DEFINE V == {g[x] : x \in S}
  <1>1. /\ Len(s) \in Nat /\ Len(t) \in Nat /\ s \o t \in Seq(S) /\ Len(s \o t) = Len(s) + Len(t)
        /\ \A p \in 1 .. Len(s) : (s \o t)[p] = s[p]
        /\ \A p \in 1 .. Len(t) : (s \o t)[Len(s) + p] = t[p]
    OBVIOUS
  <1>2. ASSUME NEW u \in Seq(S)
        PROVE  Along(g, u) \in Seq(V) /\ Len(Along(g, u)) = Len(u)
               /\ \A p \in 1 .. Len(u) : Along(g, u)[p] = g[u[p]]
    <2>1. \A p \in 1 .. Len(u) : g[u[p]] \in V
      OBVIOUS
    <2> HIDE DEF V
    <2>2. Along(g, u) \in [1 .. Len(u) -> V] /\ Len(u) \in Nat
      BY <2>1 DEF Along
    <2>3. Along(g, u) \in Seq(V) /\ Len(Along(g, u)) = Len(u)
      BY <2>2
    <2> QED
      BY <2>3 DEF Along
  <1> HIDE DEF V
  <1> DEFINE a == Along(g, s)
             b == Along(g, t)
             c == Along(g, s \o t)
  <1>3. a \in Seq(V) /\ b \in Seq(V) /\ c \in Seq(V)
    BY <1>1, <1>2
  <1>4. Len(a) = Len(s) /\ Len(b) = Len(t) /\ Len(c) = Len(s) + Len(t)
    BY <1>1, <1>2
  <1>5. /\ \A p \in 1 .. Len(s) : a[p] = g[s[p]]
        /\ \A p \in 1 .. Len(t) : b[p] = g[t[p]]
        /\ \A p \in 1 .. Len(s) + Len(t) : c[p] = g[(s \o t)[p]]
    BY <1>1, <1>2
  <1> HIDE DEF a, b, c
  <1>6. /\ \A p \in 1 .. Len(s) : p \in 1 .. Len(s) + Len(t)
        /\ \A p \in 1 .. Len(t) : Len(s) + p \in 1 .. Len(s) + Len(t)
    BY <1>1
  <1>7. ASSUME NEW p \in 1 .. Len(a) PROVE c[p] = a[p]
    <2>1. p \in 1 .. Len(s) /\ p \in 1 .. Len(s) + Len(t)
      BY <1>4, <1>6
    <2> QED
      BY <1>1, <1>5, <2>1
  <1>8. ASSUME NEW p \in 1 .. Len(b) PROVE c[Len(a) + p] = b[p]
    <2> DEFINE q == Len(s) + p
    <2>1. p \in 1 .. Len(t) /\ q \in 1 .. Len(s) + Len(t) /\ (s \o t)[q] = t[p]
      BY <1>1, <1>4, <1>6
    <2> HIDE DEF q
    <2>2. c[q] = g[t[p]] /\ b[p] = g[t[p]]
      BY <1>5, <2>1
    <2> QED
      BY <1>4, <2>2 DEF q
  <1>9. a \o b = c
    <2>1. Len(c) = Len(a) + Len(b)
      BY <1>4
    <2> QED
      BY <1>3, <1>7, <1>8, <2>1, Joining
  <1> QED
    BY <1>9 DEF a, b, c

\* Scores in the order they were computed go back to the rows' own order.
LEMMA RestoredInOrder ==
    ASSUME NEW n \in Nat, NEW g, NEW done, Underway(done, <<>>, n), Len(done) = n
    PROVE  Restored(done, Along(g, done)) = [i \in 1 .. n |-> g[i]]
  <1> DEFINE rows == Along(g, done)
  <1>1. done \in Seq(1 .. n) /\ \A i \in 1 .. n : Holds(done, i)
    BY AllRun
  <1>2. Len(rows) = n /\ \A p \in 1 .. n : rows[p] = g[done[p]]
    BY DEF Along
  <1>3. Restored(done, rows) = [i \in 1 .. Len(rows) |-> rows[CHOOSE p \in 1 .. Len(rows) : done[p] = i]]
    BY DEF Restored
  <1> HIDE DEF rows
  <1>4. ASSUME NEW i \in 1 .. n PROVE rows[CHOOSE p \in 1 .. n : done[p] = i] = g[i]
    <2> DEFINE q == CHOOSE p \in 1 .. n : done[p] = i
    <2>1. q \in 1 .. n /\ done[q] = i
      BY <1>1 DEF Holds
    <2> QED
      BY <1>2, <2>1
  <1>5. Restored(done, rows) = [i \in 1 .. n |-> rows[CHOOSE p \in 1 .. n : done[p] = i]]
    BY <1>2, <1>3
  <1> QED
    BY <1>4, <1>5 DEF rows

\* A prefix and the entries after it make the longer prefix.
LEMMA PrefixGrows ==
    ASSUME NEW g, NEW k \in Nat, NEW n \in Nat
    PROVE  [i \in 1 .. k |-> g[i]] \o [i \in 1 .. n |-> g[k + i]] = [i \in 1 .. k + n |-> g[i]]
  <1> DEFINE V == {g[i] : i \in 1 .. k + n}
             a == [i \in 1 .. k |-> g[i]]
             b == [i \in 1 .. n |-> g[k + i]]
             c == [i \in 1 .. k + n |-> g[i]]
  <1>1. \A i \in 1 .. k : i \in 1 .. k + n
    OBVIOUS
  <1>2. \A i \in 1 .. n : k + i \in 1 .. k + n
    OBVIOUS
  <1>3. \A i \in 1 .. k + n : g[i] \in V
    OBVIOUS
  <1> HIDE DEF V
  <1>4. a \in [1 .. k -> V] /\ b \in [1 .. n -> V] /\ c \in [1 .. k + n -> V]
    BY <1>1, <1>2, <1>3
  <1>5. /\ \A i \in 1 .. k : a[i] = g[i]
        /\ \A i \in 1 .. n : b[i] = g[k + i]
        /\ \A i \in 1 .. k + n : c[i] = g[i]
    OBVIOUS
  <1> HIDE DEF a, b, c
  <1>6. /\ a \in Seq(V) /\ Len(a) = k /\ b \in Seq(V) /\ Len(b) = n
        /\ c \in Seq(V) /\ Len(c) = k + n
    <2>1. k + n \in Nat
      OBVIOUS
    <2> QED
      BY <1>4, <2>1
  <1>7. /\ \A i \in 1 .. k : c[i] = a[i]
        /\ \A i \in 1 .. n : c[k + i] = b[i]
    BY <1>1, <1>2, <1>5
  <1>8. a \o b = c
    BY <1>6, <1>7, Joining
  <1> QED
    BY <1>8 DEF a, b, c

-----------------------------------------------------------------------------
(* The invariant: what every rank holds at every point of a step. *)

Clean == {"student", "base", "teacher"}
Scoring == Clean \cup {"expert"}

\* The rows of a pass of rank r: one per sample of its shard, or one per enabled
\* pair, or the shard of the batch to train on.
CleanRow(p, s) == [prompt |-> CleanPrompt(s), response |-> s,
                   topk |-> IF p = "student" THEN 0 ELSE s]
ExpertRow(s, e) == [prompt |-> ExpertPrompt(batch, s, e), response |-> s, topk |-> s]
PassRows(p, r) ==
    IF p \in Clean THEN [b \in Rows |-> CleanRow(p, SampleOf(r, b))]
    ELSE IF p = "expert"
    THEN [j \in 1 .. Len(Flat(r)) |-> ExpertRow(SampleOf(r, Flat(r)[j][1]), Flat(r)[j][2])]
    ELSE [b \in Rows |-> board[SampleOf(r, b)]]
PassScores(p, r) == [i \in 1 .. Len(PassRows(p, r)) |-> Result(p, PassRows(p, r)[i])]

\* The row of a sample in the batch to train on, and what training on it teaches.
CleanScore(p, s) == [policy |-> Policy(p), prompt |-> CleanPrompt(s), response |-> s, topk |-> s]
ExpertScore(s, e) ==
    IF batch[s].experts[e].enabled
    THEN [policy |-> "ref_policy", prompt |-> ExpertPrompt(batch, s, e),
          response |-> NoResponse, topk |-> s]
    ELSE Blank
BoardRow(s) ==
    [prompt |-> CleanPrompt(s), response |-> s, topk |-> s,
     base |-> CleanScore("base", s), teacher |-> CleanScore("teacher", s),
     specialized |-> [e \in Experts |-> ExpertScore(s, e)],
     mask |-> [e \in Experts |-> attached[s][e].on]]
Lesson(s) == IF Valid(BoardRow(s)) THEN <<Target(BoardRow(s))>> ELSE <<>>

\* The pass is over for a rank that is at one of these.
After(p) ==
    CASE p = "student" -> {"base", "teacher", "expert", "returned", "update", "updated"}
      [] p = "base"    -> {"teacher", "expert", "returned", "update", "updated"}
      [] p = "teacher" -> {"expert", "returned", "update", "updated"}
      [] p = "expert"  -> {"returned", "update", "updated"}

Shapes ==
    /\ batch \in Layouts /\ AttachedAs(batch, attached)
    /\ pass \in [Ranks -> Scoring \cup {"returned", "update", "updated"}]
    /\ DOMAIN chunks = Ranks /\ DOMAIN micro = Ranks /\ DOMAIN order = Ranks
    /\ DOMAIN raw = Ranks /\ DOMAIN out = Ranks /\ DOMAIN scores = Ranks
    /\ \A r \in Ranks : DOMAIN scores[r] = Scoring
    /\ DOMAIN learned = Samples

\* Between the dispatch of the update and the next batch all ranks train on the
\* scored batch; before it nothing was scored in full nor trained.
Phase ==
    \/ /\ \A r \in Ranks : pass[r] \in Scoring \cup {"returned"}
       /\ board = Blank /\ learned = [s \in Samples |-> <<>>]
    \/ /\ \A r \in Ranks : pass[r] \in {"update", "updated"}
       /\ board = [s \in Samples |-> BoardRow(s)]

Kept(r) ==
    \A p \in Scoring :
      scores[r][p] = IF pass[r] \in After(p) THEN PassScores(p, r) ELSE <<>>

\* The running chunk: its scores so far are those of the indices that ran.
Chunk(r) ==
    IF chunks[r] = <<>> THEN micro[r] = <<>> /\ order[r] = <<>> /\ raw[r] = <<>>
    ELSE LET rows == Head(chunks[r])
         IN /\ raw[r] = Along([i \in 1 .. Len(rows) |-> Result(pass[r], rows[i])], order[r])
            /\ \/ micro[r] = <<>> /\ order[r] = <<>>
               \/ Underway(order[r], micro[r], Len(rows))

\* The chunks that are left of a scoring pass, after those whose scores are out.
ScoresOut(r) ==
    IF pass[r] \in Scoring
    THEN \E k \in 0 .. Len(PassRows(pass[r], r)) :
           /\ Pieces(chunks[r], PassRows(pass[r], r), k)
           /\ out[r] = [i \in 1 .. k |-> PassScores(pass[r], r)[i]]
    ELSE /\ out[r] = <<>>
         /\ pass[r] # "update" => chunks[r] = <<>>

\* The first k rows of a shard are behind the optimizer, the others ahead or in
\* the mini-batch that runs.
RowsTrained(r) ==
    /\ pass[r] = "update" =>
         \E k \in 0 .. RowsPerRank :
           /\ Pieces(chunks[r], PassRows("update", r), k)
           /\ \A b \in Rows : learned[SampleOf(r, b)] =
                IF b <= k \/ Holds(order[r], b - k) THEN Lesson(SampleOf(r, b)) ELSE <<>>
    /\ pass[r] = "updated" =>
         \A b \in Rows : learned[SampleOf(r, b)] = Lesson(SampleOf(r, b))

Home == /\ Shapes /\ Phase
        /\ \A r \in Ranks : Kept(r) /\ Chunk(r) /\ ScoresOut(r) /\ RowsTrained(r)

\* The shards are disjoint and cover the batch; ShardRow finds a sample in them.
LEMMA Shards ==
    /\ Rows = 1 .. RowsPerRank /\ RowsPerRank \in Nat \ {0} /\ Ranks # {}
    /\ \A r \in Ranks, b \in Rows : SampleOf(r, b) \in Samples
    /\ \A r, q \in Ranks : \A b, c \in Rows : SampleOf(r, b) = SampleOf(q, c) => r = q /\ b = c
    /\ \A s \in Samples : /\ ShardRow(s).r \in Ranks /\ ShardRow(s).b \in Rows
                          /\ SampleOf(ShardRow(s).r, ShardRow(s).b) = s
  <1> DEFINE n == RowsPerRank
  <1>1. n \in Nat \ {0} /\ World \in Nat \ {0} /\ Rows = 1 .. n /\ Ranks = 1 .. World
        /\ Samples = 1 .. World * n
    BY SizesAssumption DEF Rows, Ranks, Samples
  <1>2. World * n \in Nat /\ \A q \in Nat : q < World => q * n + n <= World * n
    BY <1>1, Multiples
  <1>3. \A r, b : SampleOf(r, b) = (r - 1) * n + b
    BY DEF SampleOf
  <1>4. \A s : ShardRow(s) = [r |-> ((s - 1) \div n) + 1, b |-> ((s - 1) % n) + 1]
    BY DEF ShardRow
  <1> HIDE DEF n
  <1>5. ASSUME NEW r \in Ranks, NEW b \in Rows PROVE SampleOf(r, b) \in Samples
    <2>1. r - 1 \in Nat /\ r - 1 < World
      BY <1>1
    <2>2. (r - 1) * n \in Nat /\ (r - 1) * n + n <= World * n
      BY <1>1, <1>2, <2>1, Multiples
    <2> QED
      BY <1>1, <1>2, <1>3, <2>2
  <1>6. ASSUME NEW r \in Ranks, NEW q \in Ranks, NEW b \in Rows, NEW c \in Rows,
               SampleOf(r, b) = SampleOf(q, c)
        PROVE  r = q /\ b = c
    <2> DEFINE i == r - 1
               j == q - 1
               x == b - 1
               y == c - 1
    <2>1. i \in Nat /\ j \in Nat /\ x \in 0 .. n - 1 /\ y \in 0 .. n - 1
      BY <1>1
    <2>2. i * n + x = j * n + y
      <3>1. i * n \in Nat /\ j * n \in Nat
        BY <1>1, <2>1, Multiples
      <3>2. i * n + b = j * n + c
        BY <1>3, <1>6
      <3> QED
        BY <1>1, <3>1, <3>2
    <2> HIDE DEF i, j, x, y
    <2>3. i = j /\ x = y
      BY <1>1, <2>1, <2>2, OneQuotient
    <2> QED
      BY <1>1, <2>3 DEF i, j, x, y
  <1>7. ASSUME NEW s \in Samples
        PROVE  /\ ShardRow(s).r \in Ranks /\ ShardRow(s).b \in Rows
               /\ SampleOf(ShardRow(s).r, ShardRow(s).b) = s
    <2> DEFINE q == (s - 1) \div n
               x == (s - 1) % n
    <2>1. s - 1 \in Nat /\ s - 1 < World * n
      BY <1>1, <1>2
    <2>2. q \in Nat /\ x \in 0 .. n - 1 /\ q * n \in Nat /\ s - 1 = q * n + x
      BY <1>1, <2>1, Division
    <2>3. ShardRow(s).r = q + 1 /\ ShardRow(s).b = x + 1
      BY <1>4
    <2> HIDE DEF q, x
    <2>4. q < World
      <3>1. World = q \/ World < q => World * n <= q * n
        BY <1>1, <2>2, Multiples
      <3> QED
        BY <1>1, <1>2, <2>1, <2>2, <3>1
    <2>5. q + 1 \in Ranks /\ x + 1 \in Rows
      BY <1>1, <2>2, <2>4
    <2>6. SampleOf(q + 1, x + 1) = q * n + (x + 1)
      <3>1. (q + 1) - 1 = q
        BY <2>2
      <3> QED
        BY <1>3, <3>1
    <2> QED
      BY <1>1, <2>1, <2>2, <2>3, <2>5, <2>6
  <1> QED
    BY <1>1, <1>5, <1>6, <1>7 DEF n

\* A function on the first n numbers is a sequence.
LEMMA Listing ==
    ASSUME NEW n \in Nat, NEW f, f = [i \in 1 .. n |-> f[i]]
    PROVE  f \in Seq(Entries(f)) /\ Len(f) = n
  <1> DEFINE V == {f[i] : i \in 1 .. n}
  <1>1. f \in [1 .. n -> V]
    <2>1. \A i \in 1 .. n : f[i] \in V
      OBVIOUS
    <2> HIDE DEF V
    <2> QED
      BY <2>1
  <1>2. f \in Seq(V) /\ Len(f) = n
    <2> HIDE DEF V
    <2> QED
      BY <1>1
  <1> QED
    BY <1>2 DEF Entries

\* How many rows a pass has.
LEMMA PassLists ==
    ASSUME NEW r \in Ranks, NEW p \in Scoring \cup {"update"}
    PROVE  /\ PassRows(p, r) \in Seq(Entries(PassRows(p, r)))
           /\ Len(PassRows(p, r)) \in Nat
           /\ p # "expert" => Len(PassRows(p, r)) = RowsPerRank
           /\ p = "expert" => Len(PassRows(p, r)) = Len(Flat(r))
           /\ PassScores(p, r) \in Seq(Entries(PassScores(p, r)))
           /\ Len(PassScores(p, r)) = Len(PassRows(p, r))
  <1> DEFINE n == IF p = "expert" THEN Len(Flat(r)) ELSE RowsPerRank
             f == PassRows(p, r)
             g == PassScores(p, r)
  <1>1. n \in Nat
    BY FlatCells, SizesAssumption
  <1>2. DOMAIN f = 1 .. n /\ f = [i \in 1 .. n |-> f[i]]
    <2>1. CASE p = "expert"
      BY <2>1 DEF PassRows, Clean
    <2>2. CASE p \in Clean
      BY <2>2 DEF PassRows, Clean, Rows
    <2>3. CASE p = "update"
      BY <2>3 DEF PassRows, Clean, Rows
    <2> QED
      BY <2>1, <2>2, <2>3 DEF Scoring
  <1> HIDE DEF n, f
  <1>3. f \in Seq(Entries(f)) /\ Len(f) = n
    BY <1>1, <1>2, Listing
  <1>4. g = [i \in 1 .. n |-> Result(p, f[i])]
    BY <1>3 DEF PassScores, f
  <1>5. g = [i \in 1 .. n |-> g[i]]
    BY <1>4
  <1> HIDE DEF g
  <1>6. g \in Seq(Entries(g)) /\ Len(g) = n
    BY <1>1, <1>5, Listing
  <1> QED
    BY <1>1, <1>3, <1>6 DEF n, f, g

\* What the driver packed decides what a pass is about, and the batch to train
\* on what the update is about.
LEMMA SamePacked ==
    ASSUME UNCHANGED <<batch, attached>>
    PROVE  /\ \A p \in Scoring : \A r : PassRows(p, r)' = PassRows(p, r)
           /\ \A p \in Scoring : \A r : PassScores(p, r)' = PassScores(p, r)
           /\ \A s : BoardRow(s)' = BoardRow(s) /\ Lesson(s)' = Lesson(s)
           /\ AttachedAs(batch, attached)' <=> AttachedAs(batch, attached)
  <1>1. \A r : Flat(r)' = Flat(r)
    BY DEF Flat, OnCells
  <1>2. \A s : CleanPrompt(s)' = CleanPrompt(s)
    BY DEF CleanPrompt
  <1>3. \A s, e : ExpertPrompt(batch, s, e)' = ExpertPrompt(batch, s, e)
    BY DEF ExpertPrompt
  <1>4. \A p \in Scoring : \A r : PassRows(p, r)' = PassRows(p, r)
    BY <1>1, <1>2, <1>3 DEF PassRows, CleanRow, ExpertRow, Scoring
  <1>5. \A p \in Scoring : \A r : PassScores(p, r)' = PassScores(p, r)
    BY <1>4 DEF PassScores
  <1>6. \A s : BoardRow(s)' = BoardRow(s)
    BY <1>2, <1>3 DEF BoardRow, CleanScore, ExpertScore
  <1>7. \A s : Lesson(s)' = Lesson(s)
    BY <1>6 DEF Lesson
  <1>8. AttachedAs(batch, attached)' <=> AttachedAs(batch, attached)
    BY <1>3 DEF AttachedAs
  <1> QED
    BY <1>4, <1>5, <1>6, <1>7, <1>8

\* The same when the batch to train on stays too.
LEMMA SamePasses ==
    ASSUME UNCHANGED <<batch, attached, board>>
    PROVE  /\ \A p, r : PassRows(p, r)' = PassRows(p, r)
           /\ \A p, r : PassScores(p, r)' = PassScores(p, r)
           /\ \A s : BoardRow(s)' = BoardRow(s) /\ Lesson(s)' = Lesson(s)
           /\ AttachedAs(batch, attached)' <=> AttachedAs(batch, attached)
  <1>1. \A p \in Scoring : \A r : PassRows(p, r)' = PassRows(p, r)
    BY SamePacked
  <1>2. \A p, r : p \notin Scoring => PassRows(p, r)' = PassRows(p, r)
    BY DEF PassRows, Scoring
  <1>3. \A p, r : PassRows(p, r)' = PassRows(p, r)
    BY <1>1, <1>2
  <1>4. \A p, r : PassScores(p, r)' = PassScores(p, r)
    BY <1>3 DEF PassScores
  <1> QED
    BY <1>3, <1>4, SamePacked

Rank(r) == Kept(r) /\ Chunk(r) /\ ScoresOut(r) /\ RowsTrained(r)

\* A rank that a step leaves alone.
LEMMA Unmoved ==
    ASSUME UNCHANGED <<batch, attached, board>>, NEW q \in Ranks, Rank(q),
           pass'[q] = pass[q], chunks'[q] = chunks[q], micro'[q] = micro[q],
           order'[q] = order[q], raw'[q] = raw[q], out'[q] = out[q], scores'[q] = scores[q],
           \A b \in Rows : learned'[SampleOf(q, b)] = learned[SampleOf(q, b)]
    PROVE  Rank(q)'
  <1>1. /\ \A p, r : PassRows(p, r)' = PassRows(p, r)
        /\ \A p, r : PassScores(p, r)' = PassScores(p, r)
        /\ \A s : Lesson(s)' = Lesson(s)
    BY SamePasses
  <1>2. PassRows(pass[q], q)' = PassRows(pass[q], q)
        /\ PassScores(pass[q], q)' = PassScores(pass[q], q)
    BY <1>1
  <1>3. Kept(q)'
    BY <1>1 DEF Rank, Kept
  <1>4. Chunk(q)'
    BY DEF Rank, Chunk
  <1>5. ScoresOut(q)'
    BY <1>1 DEF Rank, ScoresOut
  <1>6. RowsTrained(q)'
    BY <1>1 DEF Rank, RowsTrained
  <1> QED
    BY <1>3, <1>4, <1>5, <1>6 DEF Rank

\* The running chunk of a rank is a piece of what its pass is about.
LEMMA RunningChunk ==
    ASSUME Shapes, NEW r \in Ranks, Rank(r), chunks[r] # <<>>
    PROVE  /\ pass[r] \in Scoring \cup {"update"}
           /\ Head(chunks[r]) \in Seq(Entries(PassRows(pass[r], r)))
           /\ Len(Head(chunks[r])) \in Nat
           /\ order[r] \in Seq(1 .. Len(Head(chunks[r])))
           /\ Len(raw[r]) = Len(order[r])
           /\ raw[r] = <<>> => order[r] = <<>>
  <1> DEFINE head == Head(chunks[r])
  <1>1. pass[r] \in Scoring \cup {"update"}
    BY DEF Rank, ScoresOut, Shapes
  <1>2. PICK k : Pieces(chunks[r], PassRows(pass[r], r), k)
    <2>1. CASE pass[r] \in Scoring
      BY <2>1 DEF Rank, ScoresOut
    <2>2. CASE pass[r] = "update"
      BY <2>2 DEF Rank, RowsTrained
    <2> QED
      BY <1>1, <2>1, <2>2
  <1>3. PassRows(pass[r], r) \in Seq(Entries(PassRows(pass[r], r)))
    BY <1>1, PassLists
  <1>4. head \in Seq(Entries(PassRows(pass[r], r))) /\ Len(head) \in Nat
    BY <1>2, <1>3, FirstPiece
  <1> HIDE DEF head
  <1>5. order[r] \in Seq(1 .. Len(head))
    <2>1. order[r] = <<>> \/ Underway(order[r], micro[r], Len(head))
      BY DEF Rank, Chunk, head
    <2>2. <<>> \in Seq(1 .. Len(head))
      OBVIOUS
    <2> QED
      BY <2>1, <2>2 DEF Underway
  <1>6. raw[r] = Along([i \in 1 .. Len(head) |-> Result(pass[r], head[i])], order[r])
    BY DEF Rank, Chunk, head
  <1>7. Len(raw[r]) = Len(order[r])
    BY <1>5, <1>6 DEF Along
  <1>8. raw[r] = <<>> => order[r] = <<>>
    BY <1>5, <1>7
  <1> QED
    BY <1>1, <1>4, <1>5, <1>7, <1>8 DEF head

\* A chunk that has not run is cut so that every index is in one micro-batch.
LEMMA SplitKeeps ==
    ASSUME Home, NEW r \in Ranks, chunks[r] # <<>>, raw[r] = <<>>,
           NEW lists, Covers(lists, Len(Head(chunks[r]))),
           micro' = [micro EXCEPT ![r] = lists],
           UNCHANGED <<batch, attached, pass, chunks, order, raw, out, scores, board, learned>>
    PROVE  Home'
  <1>1. Shapes /\ Phase /\ \A q \in Ranks : Rank(q)
    BY DEF Home, Rank
  <1>2. /\ Head(chunks[r]) \in Seq(Entries(PassRows(pass[r], r)))
        /\ Len(Head(chunks[r])) \in Nat /\ order[r] = <<>>
    BY <1>1, RunningChunk
  <1>3. micro'[r] = lists /\ DOMAIN micro' = Ranks
        /\ \A q \in Ranks \ {r} : micro'[q] = micro[q]
    BY <1>1 DEF Shapes
  <1>4. Underway(order[r], lists, Len(Head(chunks[r])))
    BY <1>2, CutUnderway
  <1>5. Chunk(r)'
    BY <1>1, <1>3, <1>4 DEF Rank, Chunk
  <1>6. /\ \A p, q : PassRows(p, q)' = PassRows(p, q)
        /\ \A p, q : PassScores(p, q)' = PassScores(p, q)
        /\ \A s : BoardRow(s)' = BoardRow(s)
        /\ \A s : Lesson(s)' = Lesson(s)
        /\ AttachedAs(batch, attached)' <=> AttachedAs(batch, attached)
    BY SamePasses
  <1>7. Kept(r)'
    BY <1>1, <1>6 DEF Rank, Kept
  <1>8. ScoresOut(r)'
    BY <1>1, <1>6 DEF Rank, ScoresOut
  <1>9. RowsTrained(r)'
    BY <1>1, <1>6 DEF Rank, RowsTrained
  <1>10. \A q \in Ranks \ {r} : Rank(q)'
    BY <1>1, <1>3, Unmoved
  <1>11. Shapes' /\ Phase'
    BY <1>1, <1>3, <1>6 DEF Shapes, Phase
  <1> QED
    BY <1>5, <1>7, <1>8, <1>9, <1>10, <1>11 DEF Home, Rank

\* SplitStatic, SplitDynamic: either cut does that.
LEMMA SplitsHome ==
    ASSUME Home, NEW r \in Ranks, SplitStatic(r) \/ SplitDynamic(r) PROVE Home'
  <1>1. Shapes /\ Rank(r)
    BY DEF Home, Rank
  <1>2. CASE SplitStatic(r)
    <2> DEFINE size == IF pass[r] = "update" THEN UpdateMicro ELSE MicroSize
    <2>1. size \in Nat \ {0}
      BY SizesAssumption
    <2>2. /\ chunks[r] # <<>> /\ raw[r] = <<>>
          /\ micro' = [micro EXCEPT ![r] = Split(Indices(Head(chunks[r])), size)]
      BY <1>2 DEF SplitStatic, Untouched
    <2> HIDE DEF size
    <2>3. Head(chunks[r]) \in Seq(Entries(PassRows(pass[r], r)))
      BY <1>1, <2>2, RunningChunk
    <2>4. Covers(Split(Indices(Head(chunks[r])), size), Len(Head(chunks[r])))
      BY <2>1, <2>3, StaticCovers
    <2> QED
      BY <1>2, <2>2, <2>4, SplitKeeps DEF SplitStatic
  <1>3. CASE SplitDynamic(r)
    <2>1. chunks[r] # <<>> /\ raw[r] = <<>> /\ want[r] \in 1 .. Len(Head(chunks[r]))
      BY <1>3 DEF SplitDynamic
    <2>2. Len(Head(chunks[r])) \in Nat /\ want[r] \in Nat
      BY <1>1, <2>1, RunningChunk
    <2>3. PICK lists \in Partitions(Len(Head(chunks[r])), want[r]) :
            micro' = [micro EXCEPT ![r] = lists]
      BY <1>3 DEF SplitDynamic
    <2>4. Covers(lists, Len(Head(chunks[r])))
      BY <2>2, <2>3, DynamicCovers
    <2> QED
      BY <1>3, <2>1, <2>3, <2>4, SplitKeeps DEF SplitDynamic
  <1> QED
    BY <1>2, <1>3

\* When the micro-batches of a chunk have run, every index of it has.
LEMMA ChunkDone ==
    ASSUME Shapes, NEW r \in Ranks, Rank(r), ChunkRun(r)
    PROVE  Underway(order[r], <<>>, Len(Head(chunks[r])))
  <1> DEFINE n == Len(Head(chunks[r]))
  <1>1. chunks[r] # <<>> /\ micro[r] = <<>> /\ Len(raw[r]) = n
    BY DEF ChunkRun
  <1>2. n \in Nat /\ Len(order[r]) = n
    BY <1>1, RunningChunk
  <1>3. order[r] = <<>> \/ Underway(order[r], micro[r], n)
    BY <1>1 DEF Rank, Chunk
  <1>4. ASSUME order[r] = <<>> PROVE Underway(order[r], <<>>, n)
    <2>1. n = 0 /\ <<>> \in Seq(1 .. n) /\ <<>> \in Seq(Seq(1 .. n)) /\ 1 .. 0 = {}
      BY <1>2, <1>4
    <2> QED
      BY <1>4, <2>1 DEF Underway
  <1> QED
    BY <1>1, <1>3, <1>4

\* EndChunk: the chunk's scores, back in order, follow those that are out.
LEMMA EndChunkHome ==
    ASSUME Home, NEW r \in Ranks, EndChunk(r) PROVE Home'
  <1> DEFINE head == Head(chunks[r])
             n == Len(head)
             p == pass[r]
             rows == PassRows(p, r)
             g == [i \in 1 .. n |-> Result(p, head[i])]
             said == PassScores(p, r)
  <1>1. Shapes /\ Phase /\ \A q \in Ranks : Rank(q)
    BY DEF Home, Rank
  <1>2. /\ chunks[r] # <<>> /\ p # "update" /\ micro[r] = <<>> /\ Len(raw[r]) = n
        /\ out' = [out EXCEPT ![r] = @ \o Restored(order[r], raw[r])]
        /\ chunks' = [chunks EXCEPT ![r] = Tail(@)]
        /\ order' = [order EXCEPT ![r] = <<>>] /\ raw' = [raw EXCEPT ![r] = <<>>]
        /\ UNCHANGED <<batch, attached, pass, micro, scores, board, learned>>
    BY DEF EndChunk, ChunkRun, Popped
  <1>3. /\ p \in Scoring /\ n \in Nat /\ order[r] \in Seq(1 .. n) /\ Len(order[r]) = n
        /\ head \in Seq(Entries(rows))
    BY <1>1, <1>2, RunningChunk
  <1>4. raw[r] = Along(g, order[r])
    BY <1>1, <1>2 DEF Rank, Chunk
  <1>5. Underway(order[r], <<>>, n)
    BY <1>1, <1>2, ChunkDone DEF EndChunk
  <1>6. Restored(order[r], raw[r]) = [i \in 1 .. n |-> Result(p, head[i])]
    <2> HIDE DEF g, n, head
    <2>0. Restored(order[r], Along(g, order[r])) = [i \in 1 .. n |-> g[i]]
      BY <1>3, <1>5, RestoredInOrder
    <2>1. Restored(order[r], raw[r]) = [i \in 1 .. n |-> g[i]]
      BY <1>4, <2>0
    <2>2. [i \in 1 .. n |-> g[i]] = [i \in 1 .. n |-> Result(p, head[i])]
      BY DEF g
    <2> QED
      BY <2>1, <2>2
  <1>7. PICK k \in 0 .. Len(rows) :
          /\ Pieces(chunks[r], rows, k) /\ out[r] = [i \in 1 .. k |-> said[i]]
    BY <1>1, <1>3 DEF Rank, ScoresOut
  <1>8. /\ rows \in Seq(Entries(rows)) /\ Len(rows) \in Nat
    BY <1>3, PassLists
  <1>9. /\ k \in Nat /\ k + n \in k .. Len(rows)
        /\ \A i \in 1 .. n : head[i] = rows[k + i]
        /\ Pieces(Tail(chunks[r]), rows, k + n)
    <2> DEFINE cs == chunks[r]
               E == Entries(rows)
    <2>1. rows \in Seq(E) /\ Pieces(cs, rows, k) /\ cs # <<>>
      BY <1>2, <1>7, <1>8
    <2> HIDE DEF rows, cs, E
    <2>2. /\ k \in Nat /\ k + Len(Head(cs)) \in k .. Len(rows)
          /\ \A i \in 1 .. Len(Head(cs)) : Head(cs)[i] = rows[k + i]
          /\ Pieces(Tail(cs), rows, k + Len(Head(cs)))
      BY <2>1, FirstPiece
    <2> QED
      BY <2>2 DEF cs
  <1>10. \A i \in 1 .. n : Result(p, head[i]) = said[k + i]
    <2>1. said = [i \in 1 .. Len(rows) |-> Result(p, rows[i])]
      BY DEF PassScores
    <2>2. \A i \in 1 .. n : k + i \in 1 .. Len(rows)
      BY <1>3, <1>8, <1>9
    <2> HIDE DEF said, rows, head, n
    <2> QED
      BY <1>9, <2>1, <2>2
  <1>11. out[r] \o Restored(order[r], raw[r]) = [i \in 1 .. k + n |-> said[i]]
    <2>1. [i \in 1 .. n |-> Result(p, head[i])] = [i \in 1 .. n |-> said[k + i]]
      BY <1>10
    <2> HIDE DEF said, head, n
    <2>2. [i \in 1 .. k |-> said[i]] \o [i \in 1 .. n |-> said[k + i]] = [i \in 1 .. k + n |-> said[i]]
      BY <1>3, <1>9, PrefixGrows
    <2> QED
      BY <1>6, <1>7, <2>1, <2>2
  <1>12. /\ out'[r] = [i \in 1 .. k + n |-> said[i]] /\ chunks'[r] = Tail(chunks[r])
         /\ order'[r] = <<>> /\ raw'[r] = <<>> /\ micro'[r] = <<>> /\ pass'[r] = p
         /\ \A q \in Ranks \ {r} : /\ out'[q] = out[q] /\ chunks'[q] = chunks[q]
                                   /\ order'[q] = order[q] /\ raw'[q] = raw[q]
    BY <1>1, <1>2, <1>11 DEF Shapes
  <1>13. /\ \A t, q : PassRows(t, q)' = PassRows(t, q)
         /\ \A t, q : PassScores(t, q)' = PassScores(t, q)
         /\ \A s : BoardRow(s)' = BoardRow(s)
         /\ AttachedAs(batch, attached)' <=> AttachedAs(batch, attached)
    BY <1>2, SamePasses
  <1>14. Kept(r)'
    BY <1>1, <1>2, <1>13 DEF Rank, Kept
  <1>15. Chunk(r)'
    BY <1>12, EmptyAlong DEF Chunk
  <1>16. ScoresOut(r)'
    <2>1. k + n \in 0 .. Len(rows)
      BY <1>3, <1>8, <1>9
    <2> DEFINE m == k + n
    <2>2. /\ Pieces(chunks'[r], rows, m) /\ out'[r] = [i \in 1 .. m |-> said[i]]
          /\ m \in 0 .. Len(rows)
      BY <1>9, <1>12, <2>1
    <2>3. PassRows(pass[r], r)' = rows /\ PassScores(pass[r], r)' = said
      BY <1>12, <1>13
    <2>4. pass'[r] \in Scoring
      BY <1>3, <1>12
    <2> HIDE DEF m, rows, said
    <2> QED
      BY <2>2, <2>3, <2>4 DEF ScoresOut
  <1>17. RowsTrained(r)'
    BY <1>3, <1>12 DEF RowsTrained, Scoring, Clean
  <1>18. \A q \in Ranks \ {r} : Rank(q)'
    BY <1>1, <1>2, <1>12, Unmoved
  <1>19. Shapes' /\ Phase'
    BY <1>1, <1>2, <1>13 DEF Shapes, Phase
  <1> QED
    BY <1>14, <1>15, <1>16, <1>17, <1>18, <1>19 DEF Home, Rank

\* OptimizerStep: on every rank the rows of the mini-batch that ran are behind.
LEMMA PieceTrained ==
    ASSUME NEW n \in Nat, NEW k \in Nat, NEW done, Underway(done, <<>>, n)
    PROVE  \A b \in Nat : (b <= k \/ Holds(done, b - k)) <=> b <= k + n
  <1>1. done \in Seq(1 .. n) /\ \A i \in 1 .. n : Holds(done, i)
    BY AllRun
  <1>2. ASSUME NEW b \in Nat, Holds(done, b - k) PROVE b <= k + n
    <2> DEFINE i == b - k
    <2>1. i \in Int /\ b = i + k
      OBVIOUS
    <2> HIDE DEF i
    <2>2. i \in 1 .. n
      <3>1. PICK p \in 1 .. Len(done) : done[p] = i
        BY <1>2 DEF Holds, i
      <3> QED
        BY <1>1, <3>1
    <2> QED
      BY <2>1, <2>2
  <1>3. ASSUME NEW b \in Nat, ~(b <= k), b <= k + n PROVE Holds(done, b - k)
    <2>1. b - k \in 1 .. n
      BY <1>3
    <2> QED
      BY <1>1, <2>1
  <1> QED
    BY <1>2, <1>3

LEMMA OptimizerStepHome ==
    ASSUME Home, OptimizerStep PROVE Home'
  <1>1. Shapes /\ Phase /\ \A q \in Ranks : Rank(q)
    BY DEF Home, Rank
  <1>2. /\ UNCHANGED <<batch, attached, pass, micro, out, scores, board, learned>>
        /\ chunks' = [r \in Ranks |-> Tail(chunks[r])]
        /\ order' = [r \in Ranks |-> <<>>] /\ raw' = [r \in Ranks |-> <<>>]
    BY DEF OptimizerStep
  <1>3. /\ \A t, q : PassRows(t, q)' = PassRows(t, q)
        /\ \A t, q : PassScores(t, q)' = PassScores(t, q)
        /\ \A s : BoardRow(s)' = BoardRow(s) /\ Lesson(s)' = Lesson(s)
        /\ AttachedAs(batch, attached)' <=> AttachedAs(batch, attached)
    BY <1>2, SamePasses
  <1>4. ASSUME NEW r \in Ranks PROVE Rank(r)'
    <2> DEFINE head == Head(chunks[r])
               n == Len(head)
               rows == PassRows("update", r)
               cs == chunks[r]
               done == order[r]
    <2>1. pass[r] = "update" /\ cs # <<>> /\ ChunkRun(r)
      BY DEF OptimizerStep, ChunkRun
    <2>2. /\ pass'[r] = "update" /\ chunks'[r] = Tail(cs) /\ micro'[r] = <<>>
          /\ order'[r] = <<>> /\ raw'[r] = <<>> /\ out'[r] = out[r] /\ scores'[r] = scores[r]
      BY <1>2, <2>1 DEF ChunkRun
    <2>3. Underway(done, <<>>, n) /\ n \in Nat
      BY <1>1, <2>1, RunningChunk, ChunkDone
    <2>4. PICK k \in 0 .. RowsPerRank :
            /\ Pieces(cs, rows, k)
            /\ \A b \in Rows : learned[SampleOf(r, b)] =
                 IF b <= k \/ Holds(done, b - k) THEN Lesson(SampleOf(r, b)) ELSE <<>>
      BY <1>1, <2>1 DEF Rank, RowsTrained
    <2>5. rows \in Seq(Entries(rows)) /\ Len(rows) = RowsPerRank
      BY PassLists
    <2>6. k \in Nat /\ k + n \in k .. RowsPerRank /\ Pieces(Tail(cs), rows, k + n)
      <3> DEFINE E == Entries(rows)
      <3>1. rows \in Seq(E) /\ Pieces(cs, rows, k) /\ cs # <<>>
        BY <2>1, <2>4, <2>5
      <3> HIDE DEF rows, cs, E
      <3>2. /\ k \in Nat /\ k + Len(Head(cs)) \in k .. Len(rows)
            /\ Pieces(Tail(cs), rows, k + Len(Head(cs)))
        BY <3>1, FirstPiece
      <3> QED
        BY <2>5, <3>2 DEF cs
    <2>7. \A b \in Nat : (b <= k \/ Holds(done, b - k)) <=> b <= k + n
      <3> HIDE DEF done, n
      <3> QED
        BY <2>3, <2>6, PieceTrained
    <2>8. \A i : ~Holds(<<>>, i)
      BY DEF Holds
    <2>9. RowsTrained(r)'
      <3> DEFINE m == k + n
      <3>1. m \in 0 .. RowsPerRank /\ \A b \in Rows : b \in Nat
        BY <2>6, SizesAssumption DEF Rows
      <3>2. Pieces(chunks'[r], PassRows("update", r)', m)
        BY <1>3, <2>2, <2>6
      <3>3. ASSUME NEW b \in Rows
            PROVE  learned'[SampleOf(r, b)] =
                     IF b <= m \/ Holds(order'[r], b - m) THEN Lesson(SampleOf(r, b))' ELSE <<>>
        <4>1. (b <= k \/ Holds(done, b - k)) <=> b <= m
          BY <2>7, <3>1
        <4>2. ~Holds(order'[r], b - m)
          BY <2>2, <2>8
        <4>3. learned'[SampleOf(r, b)] =
                IF b <= k \/ Holds(done, b - k) THEN Lesson(SampleOf(r, b)) ELSE <<>>
          BY <1>2, <2>4
        <4>4. Lesson(SampleOf(r, b))' = Lesson(SampleOf(r, b))
          BY <1>3
        <4> HIDE DEF m, done
        <4> QED
          BY <4>1, <4>2, <4>3, <4>4
      <3> HIDE DEF m
      <3> QED
        BY <2>2, <3>1, <3>2, <3>3 DEF RowsTrained
    <2>10. Kept(r)'
      BY <1>1, <1>2, <1>3 DEF Rank, Kept
    <2>11. Chunk(r)'
      BY <2>2, EmptyAlong DEF Chunk
    <2>12. ScoresOut(r)'
      BY <1>1, <2>1, <2>2 DEF Rank, ScoresOut, Scoring, Clean
    <2> QED
      BY <2>9, <2>10, <2>11, <2>12 DEF Rank
  <1>5. Shapes' /\ Phase'
    BY <1>1, <1>2, <1>3 DEF Shapes, Phase
  <1> QED
    BY <1>4, <1>5 DEF Home, Rank

\* EndUpdate: a rank leaves the update with every row of its shard behind it.
LEMMA EndUpdateHome ==
    ASSUME Home, NEW r \in Ranks, EndUpdate(r) PROVE Home'
  <1>1. Shapes /\ Phase /\ \A q \in Ranks : Rank(q)
    BY DEF Home, Rank
  <1>2. /\ pass[r] = "update" /\ chunks[r] = <<>>
        /\ pass' = [pass EXCEPT ![r] = "updated"]
        /\ UNCHANGED <<batch, attached, local, scores, board, learned>>
    BY DEF EndUpdate
  <1>3. UNCHANGED <<chunks, micro, order, raw, out>>
    BY <1>2 DEF local
  <1>4. /\ \A t, q : PassRows(t, q)' = PassRows(t, q)
        /\ \A t, q : PassScores(t, q)' = PassScores(t, q)
        /\ \A s : BoardRow(s)' = BoardRow(s) /\ Lesson(s)' = Lesson(s)
        /\ AttachedAs(batch, attached)' <=> AttachedAs(batch, attached)
    BY <1>2, SamePasses
  <1>5. pass'[r] = "updated" /\ \A q \in Ranks \ {r} : pass'[q] = pass[q]
    BY <1>1, <1>2 DEF Shapes
  <1>6. RowsTrained(r)'
    <2>1. PICK k \in 0 .. RowsPerRank :
            /\ Pieces(chunks[r], PassRows("update", r), k)
            /\ \A b \in Rows : learned[SampleOf(r, b)] =
                 IF b <= k \/ Holds(order[r], b - k) THEN Lesson(SampleOf(r, b)) ELSE <<>>
      BY <1>1, <1>2 DEF Rank, RowsTrained
    <2>2. k = RowsPerRank
      BY <1>2, <2>1, LastPieceDone, PassLists
    <2>3. \A b \in Rows : b <= k
      BY <2>2, SizesAssumption DEF Rows
    <2>4. \A b \in Rows : learned'[SampleOf(r, b)] = Lesson(SampleOf(r, b))'
      BY <1>2, <1>4, <2>1, <2>3
    <2> QED
      BY <1>5, <2>4 DEF RowsTrained
  <1>7. Chunk(r)'
    BY <1>1, <1>2, <1>3 DEF Rank, Chunk
  <1>8. ScoresOut(r)'
    BY <1>1, <1>2, <1>3, <1>5 DEF Rank, ScoresOut, Scoring, Clean
  <1>9. Kept(r)'
    <2>1. \A p \in Scoring : pass[r] \in After(p) /\ pass'[r] \in After(p)
      BY <1>2, <1>5 DEF After, Scoring, Clean
    <2> QED
      BY <1>1, <1>2, <1>4, <2>1 DEF Rank, Kept
  <1>10. \A q \in Ranks \ {r} : Rank(q)'
    BY <1>1, <1>2, <1>3, <1>5, Unmoved
  <1>11. Shapes' /\ Phase'
    <2>1. board = [s \in Samples |-> BoardRow(s)] /\ \A q \in Ranks : pass[q] \in {"update", "updated"}
      BY <1>1, <1>2 DEF Phase, Scoring, Clean
    <2>2. Phase'
      BY <1>2, <1>4, <1>5, <2>1 DEF Phase
    <2>3. Shapes'
      BY <1>1, <1>2, <1>3, <1>4, <1>5 DEF Shapes
    <2> QED
      BY <2>2, <2>3
  <1> QED
    BY <1>6, <1>7, <1>8, <1>9, <1>10, <1>11 DEF Home, Rank

\* The student's own top-k ids are those of the rows it scored.
LEMMA StudentIds ==
    ASSUME NEW r \in Ranks, NEW b \in Rows
    PROVE  /\ PassScores("student", r) = [i \in Rows |-> [ids |-> SampleOf(r, i)]]
           /\ PassScores("student", r)[b].ids = SampleOf(r, b)
  <1>1. PassRows("student", r) = [i \in Rows |-> CleanRow("student", SampleOf(r, i))]
    BY DEF PassRows, Clean
  <1>2. Len(PassRows("student", r)) = RowsPerRank /\ Rows = 1 .. RowsPerRank
    BY PassLists DEF Rows, Scoring, Clean
  <1>3. PassScores("student", r) = [i \in Rows |-> Result("student", CleanRow("student", SampleOf(r, i)))]
    BY <1>1, <1>2 DEF PassScores
  <1>4. PassScores("student", r) = [i \in Rows |-> [ids |-> SampleOf(r, i)]]
    BY <1>3 DEF Result, CleanRow
  <1> QED
    BY <1>4

\* A rank starts a pass with the rows that the pass is about, all of them.
LEMMA FirstChunks ==
    ASSUME NEW r \in Ranks, NEW done
    PROVE  ChunksOf("student", r, done) = <<PassRows("student", r)>>
  <1>1. ChunksOf("student", r, done) = <<CleanRows(r, LAMBDA b : 0)>>
    BY DEF ChunksOf
  <1>2. CleanRows(r, LAMBDA b : 0) = PassRows("student", r)
    BY DEF CleanRows, PassRows, CleanRow, Clean
  <1> QED
    BY <1>1, <1>2

\* The passes after the student's take its ids from its scores.
LEMMA LaterChunks ==
    ASSUME Shapes, NEW r \in Ranks, NEW p \in {"base", "teacher", "expert"},
           NEW done, done["student"] = PassScores("student", r)
    PROVE  Pieces(ChunksOf(p, r, done), PassRows(p, r), 0)
  <1> DEFINE rows == PassRows(p, r)
             E == Entries(rows)
  <1>1. \A b \in Rows : done["student"][b].ids = SampleOf(r, b)
    BY StudentIds
  <1>2. rows \in Seq(E)
    BY PassLists DEF Scoring, Clean
  <1>3. CASE p \in {"base", "teacher"}
    <2>1. ChunksOf(p, r, done) = <<CleanRows(r, LAMBDA b : done["student"][b].ids)>>
      BY <1>3 DEF ChunksOf
    <2>2. CleanRows(r, LAMBDA b : done["student"][b].ids) = rows
      BY <1>1, <1>3 DEF CleanRows, PassRows, CleanRow, Clean
    <2> HIDE DEF rows, E
    <2>3. Pieces(<<rows>>, rows, 0)
      BY <1>2, WholePiece
    <2> QED
      BY <2>1, <2>2, <2>3 DEF rows
  <1>4. CASE p = "expert"
    <2> DEFINE topk == [b \in Rows |-> done["student"][b].ids]
               flat == FlatExperts(r, topk)
               m == Len(Flat(r))
               cell(j) == attached[SampleOf(r, Flat(r)[j][1])][Flat(r)[j][2]].row
    <2>1. flat = [j \in 1 .. m |-> [prompt |-> cell(j).prompt, response |-> cell(j).response,
                                    topk |-> topk[Flat(r)[j][1]]]]
      BY FlatRows
    <2>2. /\ Flat(r) \in Seq(Rows \X Experts)
          /\ \A j \in 1 .. m : attached[SampleOf(r, Flat(r)[j][1])][Flat(r)[j][2]].on
      BY FlatCells
    <2>3. ASSUME NEW j \in 1 .. m
          PROVE  [prompt |-> cell(j).prompt, response |-> cell(j).response,
                  topk |-> topk[Flat(r)[j][1]]]
                    = ExpertRow(SampleOf(r, Flat(r)[j][1]), Flat(r)[j][2])
      <3>1. PICK b \in Rows, e \in Experts : Flat(r)[j] = <<b, e>>
        BY <2>2
      <3>2. SampleOf(r, b) \in Samples
        BY Shards
      <3>3. attached[SampleOf(r, b)][e].on
        BY <2>2, <3>1
      <3>4. attached[SampleOf(r, b)][e].row =
              [prompt |-> ExpertPrompt(batch, SampleOf(r, b), e), response |-> SampleOf(r, b)]
        BY <3>2, <3>3 DEF Shapes, AttachedAs
      <3>5. topk[b] = SampleOf(r, b)
        BY <1>1
      <3> HIDE DEF topk
      <3> QED
        BY <3>1, <3>4, <3>5 DEF ExpertRow
    <2>4. flat = rows
      <3>1. rows = [j \in 1 .. m |-> ExpertRow(SampleOf(r, Flat(r)[j][1]), Flat(r)[j][2])]
        BY <1>4 DEF PassRows, Clean
      <3> HIDE DEF m, topk, flat, rows
      <3> QED
        BY <2>1, <2>3, <3>1
    <2>5. ChunksOf(p, r, done) = IF flat = <<>> THEN <<>>
                                 ELSE IF ExpertChunk > 0 THEN Split(flat, ExpertChunk)
                                 ELSE <<flat>>
      BY <1>4 DEF ChunksOf
    <2>6. /\ Pieces(<<rows>>, rows, 0)
          /\ rows = <<>> => Pieces(<<>>, rows, 0)
          /\ ExpertChunk > 0 => Pieces(Split(rows, ExpertChunk), rows, 0)
      <3>1. ExpertChunk \in Nat /\ (ExpertChunk > 0 => ExpertChunk \in Nat \ {0})
        BY SizesAssumption
      <3> HIDE DEF rows, E
      <3> QED
        BY <1>2, <3>1, WholePiece, SplitPieces
    <2> HIDE DEF rows, flat
    <2>7. Pieces(ChunksOf(p, r, done), rows, 0)
      BY <2>4, <2>5, <2>6
    <2> QED
      BY <2>7 DEF rows
  <1> QED
    BY <1>3, <1>4

\* EndPass: the scores of the pass are complete, the next pass starts.
LEMMA EndPassHome ==
    ASSUME Home, NEW r \in Ranks, EndPass(r) PROVE Home'
  <1> DEFINE p == pass[r]
             next == Following(p)
             done == [scores[r] EXCEPT ![p] = out[r]]
  <1>1. Shapes /\ Phase /\ \A q \in Ranks : Rank(q)
    BY DEF Home, Rank
  <1>2. /\ p \in Scoring /\ chunks[r] = <<>>
        /\ scores' = [scores EXCEPT ![r] = done] /\ pass' = [pass EXCEPT ![r] = next]
        /\ chunks' = [chunks EXCEPT ![r] = IF p = "expert" THEN <<>> ELSE ChunksOf(next, r, done)]
        /\ out' = [out EXCEPT ![r] = <<>>]
        /\ UNCHANGED <<batch, attached, micro, order, raw, board, learned>>
    BY DEF EndPass, InPass, Scoring, Clean
  <1>3. /\ scores'[r] = done /\ pass'[r] = next /\ out'[r] = <<>>
        /\ chunks'[r] = IF p = "expert" THEN <<>> ELSE ChunksOf(next, r, done)
        /\ \A q \in Ranks \ {r} : /\ scores'[q] = scores[q] /\ pass'[q] = pass[q]
                                  /\ out'[q] = out[q] /\ chunks'[q] = chunks[q]
    BY <1>1, <1>2 DEF Shapes
  <1>4. /\ \A t, q : PassRows(t, q)' = PassRows(t, q)
        /\ \A t, q : PassScores(t, q)' = PassScores(t, q)
        /\ \A s : BoardRow(s)' = BoardRow(s)
        /\ AttachedAs(batch, attached)' <=> AttachedAs(batch, attached)
    BY <1>2, SamePasses
  <1>5. out[r] = PassScores(p, r)
    <2> DEFINE rows == PassRows(p, r)
               said == PassScores(p, r)
    <2>1. PICK k \in 0 .. Len(rows) :
            Pieces(<<>>, rows, k) /\ out[r] = [i \in 1 .. k |-> said[i]]
      BY <1>1, <1>2 DEF Rank, ScoresOut
    <2>2. k = Len(rows)
      BY <2>1, LastPieceDone
    <2>3. said = [i \in 1 .. Len(rows) |-> said[i]]
      BY DEF PassScores
    <2> HIDE DEF said, rows
    <2>4. out[r] = said
      BY <2>1, <2>2, <2>3
    <2> QED
      BY <2>4 DEF said
  <1>6. /\ next \in Scoring \cup {"returned"} /\ next # "student"
        /\ next = "returned" <=> p = "expert"
    BY <1>2 DEF Following, Scoring, Clean
  <1>7. \A t \in Scoring : next \in After(t) <=> (p \in After(t) \/ t = p)
    <2>1. /\ "student" \notin Clean \ {"student"} /\ Scoring = {"student", "base", "teacher", "expert"}
      BY DEF Scoring, Clean
    <2>2. CASE p = "student"
      BY <2>1, <2>2 DEF Following, After
    <2>3. CASE p = "base"
      BY <2>1, <2>3 DEF Following, After
    <2>4. CASE p = "teacher"
      BY <2>1, <2>4 DEF Following, After
    <2>5. CASE p = "expert"
      BY <2>1, <2>5 DEF Following, After
    <2> QED
      BY <1>2, <2>1, <2>2, <2>3, <2>4, <2>5
  <1>8. /\ DOMAIN done = Scoring /\ done[p] = out[r]
        /\ \A t \in Scoring : t # p => done[t] = scores[r][t]
    BY <1>1, <1>2 DEF Shapes
  <1> HIDE DEF done, next
  <1>9. \A t \in Scoring : done[t] = IF next \in After(t) THEN PassScores(t, r) ELSE <<>>
    <2> SUFFICES ASSUME NEW t \in Scoring
                 PROVE  done[t] = IF next \in After(t) THEN PassScores(t, r) ELSE <<>>
      OBVIOUS
    <2>1. CASE t = p
      BY <1>5, <1>7, <1>8, <2>1
    <2>2. CASE t # p
      <3>1. scores[r][t] = IF p \in After(t) THEN PassScores(t, r) ELSE <<>>
        BY <1>1 DEF Rank, Kept
      <3> QED
        BY <1>7, <1>8, <2>2, <3>1
    <2> QED
      BY <2>1, <2>2
  <1>10. Kept(r)'
    BY <1>3, <1>4, <1>9 DEF Kept
  <1>11. Chunk(r)'
    <2>1. micro[r] = <<>> /\ order[r] = <<>> /\ raw[r] = <<>>
      BY <1>1, <1>2 DEF Rank, Chunk
    <2> QED
      BY <1>2, <2>1, EmptyAlong DEF Chunk
  <1>12. ScoresOut(r)'
    <2>1. CASE next = "returned"
      BY <1>3, <1>6, <2>1 DEF ScoresOut, Scoring, Clean
    <2>2. CASE next # "returned"
      <3>1. next \in {"base", "teacher", "expert"}
        BY <1>6, <2>2 DEF Scoring, Clean
      <3>2. done["student"] = PassScores("student", r)
        <4>1. "student" \in Scoring /\ next \in After("student")
          BY <3>1 DEF Scoring, Clean, After
        <4> QED
          BY <1>9, <4>1
      <3>3. Pieces(ChunksOf(next, r, done), PassRows(next, r), 0)
        BY <1>1, <3>1, <3>2, LaterChunks
      <3>4. /\ pass'[r] \in Scoring
            /\ Pieces(chunks'[r], PassRows(pass[r], r)', 0)
        BY <1>3, <1>4, <1>6, <2>2, <3>1, <3>3 DEF Scoring, Clean
      <3>5. Len(PassRows(pass[r], r)') \in Nat
        BY <1>3, <1>4, <1>6, <2>2, PassLists
      <3>6. out'[r] = [i \in 1 .. 0 |-> PassScores(pass[r], r)'[i]]
        BY <1>3
      <3>7. 0 \in 0 .. Len(PassRows(pass[r], r)')
        BY <3>5
      <3> QED
        BY <3>4, <3>6, <3>7 DEF ScoresOut
    <2> QED
      BY <2>1, <2>2
  <1>13. RowsTrained(r)'
    BY <1>3, <1>6 DEF RowsTrained, Scoring, Clean
  <1>14. \A q \in Ranks \ {r} : Rank(q)'
    BY <1>1, <1>2, <1>3, Unmoved
  <1>15. Shapes' /\ Phase'
    <2>1. /\ \A q \in Ranks : pass[q] \in Scoring \cup {"returned"}
          /\ board = Blank /\ learned = [s \in Samples |-> <<>>]
      BY <1>1, <1>2 DEF Phase, Scoring, Clean
    <2>2. \A q \in Ranks : pass'[q] \in Scoring \cup {"returned"}
      BY <1>3, <1>6, <2>1
    <2>3. Phase'
      BY <1>2, <2>1, <2>2 DEF Phase
    <2>4. Shapes'
      <3>1. \A q \in Ranks : DOMAIN scores'[q] = Scoring
        BY <1>1, <1>3, <1>8 DEF Shapes
      <3>2. /\ DOMAIN chunks' = Ranks /\ DOMAIN out' = Ranks /\ DOMAIN scores' = Ranks
            /\ DOMAIN pass' = Ranks /\ pass' = [pass EXCEPT ![r] = next]
        BY <1>1, <1>2 DEF Shapes
      <3>3. pass' \in [Ranks -> Scoring \cup {"returned", "update", "updated"}]
        BY <1>1, <1>6, <3>2 DEF Shapes
      <3> QED
        BY <1>1, <1>2, <1>4, <3>1, <3>2, <3>3 DEF Shapes
    <2> QED
      BY <2>3, <2>4
  <1> QED
    BY <1>10, <1>11, <1>12, <1>13, <1>14, <1>15 DEF Home, Rank

\* The scores that the driver joins are those of the sample and its experts.
LEMMA CleanScores ==
    ASSUME NEW r \in Ranks, NEW b \in Rows, NEW p \in {"base", "teacher"}
    PROVE  /\ PassScores(p, r) = [i \in Rows |-> CleanScore(p, SampleOf(r, i))]
           /\ PassScores(p, r)[b] = CleanScore(p, SampleOf(r, b))
  <1>1. PassRows(p, r) = [i \in Rows |-> CleanRow(p, SampleOf(r, i))]
    BY DEF PassRows, Clean
  <1>2. Len(PassRows(p, r)) = RowsPerRank /\ Rows = 1 .. RowsPerRank
    BY PassLists DEF Rows, Scoring, Clean
  <1>3. PassScores(p, r) = [i \in Rows |-> Result(p, CleanRow(p, SampleOf(r, i)))]
    BY <1>1, <1>2 DEF PassScores
  <1>4. \A i \in Rows : CleanRow(p, SampleOf(r, i)) =
          [prompt |-> CleanPrompt(SampleOf(r, i)), response |-> SampleOf(r, i),
           topk |-> SampleOf(r, i)]
    BY DEF CleanRow
  <1>5. \A i \in Rows : Result(p, CleanRow(p, SampleOf(r, i))) = CleanScore(p, SampleOf(r, i))
    BY <1>4 DEF Result, CleanScore
  <1>6. PassScores(p, r) = [i \in Rows |-> CleanScore(p, SampleOf(r, i))]
    BY <1>3, <1>5
  <1> QED
    BY <1>6

\* The scatter puts the score of each enabled pair at its own place.
LEMMA ExpertScores ==
    ASSUME Shapes, NEW r \in Ranks, NEW b \in Rows
    PROVE  Specialized(r, PassScores("expert", r))[b]
             = [e \in Experts |-> ExpertScore(SampleOf(r, b), e)]
  <1> DEFINE flat == Flat(r)
             said == PassScores("expert", r)
             s == SampleOf(r, b)
  <1>1. /\ flat \in Seq(Rows \X Experts)
        /\ \A j \in 1 .. Len(flat) : attached[SampleOf(r, flat[j][1])][flat[j][2]].on
        /\ \A e \in Experts :
             attached[s][e].on => \E j \in 1 .. Len(flat) : flat[j] = <<b, e>>
    BY FlatCells
  <1>2. s \in Samples
    BY Shards
  <1>3. \A e \in Experts : attached[s][e].on = batch[s].experts[e].enabled
    BY <1>2 DEF Shapes, AttachedAs
  <1>4. \A j \in 1 .. Len(flat) :
          said[j] = Result("expert", ExpertRow(SampleOf(r, flat[j][1]), flat[j][2]))
    <2>1. PassRows("expert", r)
            = [j \in 1 .. Len(flat) |-> ExpertRow(SampleOf(r, flat[j][1]), flat[j][2])]
      BY DEF PassRows, Clean
    <2>2. Len(PassRows("expert", r)) = Len(flat)
      BY PassLists DEF Scoring
    <2> HIDE DEF flat
    <2> QED
      BY <2>1, <2>2 DEF PassScores
  <1> HIDE DEF flat, said, s
  <1>5. Specialized(r, said)[b] =
          [e \in Experts |->
             IF {j \in 1 .. Len(flat) : flat[j] = <<b, e>>} = {} THEN Blank
             ELSE said[CHOOSE j \in {j \in 1 .. Len(flat) : flat[j] = <<b, e>>} : TRUE]]
    BY SpecializedRows DEF flat
  <1>6. ASSUME NEW e \in Experts
        PROVE  (IF {j \in 1 .. Len(flat) : flat[j] = <<b, e>>} = {} THEN Blank
                ELSE said[CHOOSE j \in {j \in 1 .. Len(flat) : flat[j] = <<b, e>>} : TRUE])
                  = ExpertScore(s, e)
    <2> DEFINE at == {j \in 1 .. Len(flat) : flat[j] = <<b, e>>}
               k == CHOOSE j \in at : TRUE
    <2>1. CASE at = {}
      <3>1. ~attached[s][e].on
        BY <1>1, <2>1
      <3>2. ~batch[s].experts[e].enabled
        BY <1>3, <3>1
      <3> QED
        BY <2>1, <3>2 DEF ExpertScore
    <2>2. CASE at # {}
      <3>1. k \in 1 .. Len(flat) /\ flat[k] = <<b, e>>
        BY <2>2
      <3> HIDE DEF k
      <3>2. attached[s][e].on
        BY <1>1, <3>1 DEF s
      <3>3. batch[s].experts[e].enabled
        BY <1>3, <3>2
      <3>4. said[k] = Result("expert", ExpertRow(s, e))
        BY <1>4, <3>1 DEF s
      <3>5. said[k] = ExpertScore(s, e)
        BY <3>3, <3>4 DEF ExpertScore, ExpertRow, Result, Policy
      <3> QED
        BY <2>2, <3>5 DEF k
    <2> QED
      BY <2>1, <2>2
  <1> QED
    BY <1>5, <1>6 DEF said, s

\* The joined batch holds for each sample what was asked about it.
LEMMA JoinedRows ==
    ASSUME Shapes, \A r \in Ranks : Kept(r) /\ pass[r] = "returned"
    PROVE  Joined = [s \in Samples |-> BoardRow(s)]
  <1>1. \A r \in Ranks, t \in Scoring : scores[r][t] = PassScores(t, r)
    BY DEF Kept, After, Scoring, Clean
  <1>2. ASSUME NEW s \in Samples PROVE Joined[s] = BoardRow(s)
    <2> DEFINE r == ShardRow(s).r
               b == ShardRow(s).b
    <2>1. r \in Ranks /\ b \in Rows /\ SampleOf(r, b) = s
      BY Shards
    <2> HIDE DEF r, b
    <2>2. /\ scores[r]["student"] = PassScores("student", r)
          /\ scores[r]["base"] = PassScores("base", r)
          /\ scores[r]["teacher"] = PassScores("teacher", r)
          /\ scores[r]["expert"] = PassScores("expert", r)
      BY <1>1, <2>1 DEF Scoring, Clean
    <2>3. scores[r]["student"][b].ids = s
      BY <2>1, <2>2, StudentIds
    <2>4. scores[r]["base"][b] = CleanScore("base", s)
      BY <2>1, <2>2, CleanScores
    <2>5. scores[r]["teacher"][b] = CleanScore("teacher", s)
      BY <2>1, <2>2, CleanScores
    <2>6. Specialized(r, scores[r]["expert"])[b] = [e \in Experts |-> ExpertScore(s, e)]
      BY <2>1, <2>2, ExpertScores
    <2>7. Joined[s] =
            [prompt |-> CleanPrompt(s), response |-> s,
             topk |-> scores[r]["student"][b].ids, base |-> scores[r]["base"][b],
             teacher |-> scores[r]["teacher"][b],
             specialized |-> Specialized(r, scores[r]["expert"])[b],
             mask |-> [e \in Experts |-> attached[s][e].on]]
      BY DEF Joined, r, b
    <2> QED
      BY <2>3, <2>4, <2>5, <2>6, <2>7 DEF BoardRow
  <1>3. Joined = [s \in Samples |-> Joined[s]]
    BY DEF Joined
  <1> QED
    BY <1>2, <1>3

\* DispatchUpdate: every rank starts on its shard of the scored batch.
LEMMA DispatchUpdateHome ==
    ASSUME Home, DispatchUpdate PROVE Home'
  <1>1. Shapes /\ Phase /\ \A q \in Ranks : Rank(q)
    BY DEF Home, Rank
  <1>2. /\ \A r \in Ranks : pass[r] = "returned"
        /\ board' = Joined /\ pass' = [r \in Ranks |-> "update"]
        /\ chunks' = [r \in Ranks |-> Split([b \in Rows |-> Joined[SampleOf(r, b)]], MiniSize)]
        /\ UNCHANGED <<batch, attached, micro, order, raw, out, scores, learned>>
    BY DEF DispatchUpdate
  <1>3. Joined = [s \in Samples |-> BoardRow(s)]
    BY <1>1, <1>2, JoinedRows DEF Rank
  <1>4. /\ \A s : BoardRow(s)' = BoardRow(s)
        /\ \A p \in Scoring : \A r : PassScores(p, r)' = PassScores(p, r)
        /\ AttachedAs(batch, attached)' <=> AttachedAs(batch, attached)
    BY <1>2, SamePacked
  <1>5. learned = [s \in Samples |-> <<>>]
    <2>1. PICK r \in Ranks : TRUE
      BY Shards
    <2>2. ~(pass[r] \in {"update", "updated"})
      BY <1>2
    <2> QED
      BY <1>1, <2>2 DEF Phase
  <1>6. ASSUME NEW r \in Ranks PROVE Rank(r)'
    <2> DEFINE rows == [b \in Rows |-> Joined[SampleOf(r, b)]]
    <2>1. /\ pass'[r] = "update" /\ pass[r] = "returned"
          /\ chunks'[r] = Split(rows, MiniSize) /\ scores'[r] = scores[r] /\ out'[r] = out[r]
          /\ micro'[r] = micro[r] /\ order'[r] = order[r] /\ raw'[r] = raw[r]
      BY <1>2
    <2>2. out[r] = <<>> /\ chunks[r] = <<>>
      BY <1>1, <2>1 DEF Rank, ScoresOut, Scoring, Clean
    <2>3. micro[r] = <<>> /\ order[r] = <<>> /\ raw[r] = <<>>
      BY <1>1, <2>2 DEF Rank, Chunk
    <2>4. Kept(r)'
      <3>1. \A t \in Scoring : "returned" \in After(t) /\ "update" \in After(t)
        BY DEF After, Scoring, Clean
      <3> QED
        BY <1>1, <1>4, <2>1, <3>1 DEF Rank, Kept
    <2>5. Chunk(r)'
      BY <2>1, <2>3, EmptyAlong DEF Chunk
    <2>6. ScoresOut(r)'
      BY <2>1, <2>2 DEF ScoresOut, Scoring, Clean
    <2>7. RowsTrained(r)'
      <3>1. PassRows("update", r)' = rows
        BY <1>2 DEF PassRows, Clean
      <3>2. Pieces(Split(rows, MiniSize), rows, 0)
        <4>1. RowsPerRank \in Nat /\ rows = [i \in 1 .. RowsPerRank |-> rows[i]]
          BY Shards DEF Rows
        <4> DEFINE E == Entries(rows)
        <4> HIDE DEF rows
        <4>2. rows \in Seq(E)
          BY <4>1, Listing
        <4>3. MiniSize \in Nat \ {0}
          BY SizesAssumption
        <4> HIDE DEF E
        <4> QED
          BY <4>2, <4>3, SplitPieces
      <3>3. \A i : ~Holds(<<>>, i)
        BY DEF Holds
      <3>4. ASSUME NEW b \in Rows PROVE learned'[SampleOf(r, b)] = <<>> /\ ~(b <= 0)
        <4>1. SampleOf(r, b) \in Samples /\ b \in 1 .. RowsPerRank
          BY Shards
        <4>2. learned'[SampleOf(r, b)] = <<>>
          BY <1>2, <1>5, <4>1
        <4> QED
          BY <4>1, <4>2, SizesAssumption
      <3>5. 0 \in 0 .. RowsPerRank
        BY SizesAssumption
      <3> HIDE DEF rows
      <3>6. Pieces(chunks'[r], PassRows("update", r)', 0) /\ \A i : ~Holds(order'[r], i)
        BY <2>1, <2>3, <3>1, <3>2, <3>3
      <3> QED
        BY <2>1, <3>4, <3>5, <3>6 DEF RowsTrained
    <2> QED
      BY <2>4, <2>5, <2>6, <2>7 DEF Rank
  <1>7. Phase'
    BY <1>2, <1>3, <1>4 DEF Phase
  <1>8. Shapes'
    BY <1>1, <1>2, <1>4 DEF Shapes
  <1> QED
    BY <1>6, <1>7, <1>8 DEF Home, Rank

\* In the update a micro-batch is made of rows of the rank's own shard.
LEMMA MicroBoard ==
    ASSUME Shapes, board = [s \in Samples |-> BoardRow(s)],
           NEW r \in Ranks, Rank(r), Waiting(r), pass[r] = "update",
           NEW k \in 0 .. RowsPerRank, Pieces(chunks[r], PassRows("update", r), k)
    PROVE  /\ \A row \in MicroRows(r) : \E c \in Rows :
                row = BoardRow(SampleOf(r, c)) /\ Holds(Head(micro[r]), c - k)
           /\ \A c \in Rows :
                Holds(Head(micro[r]), c - k) => BoardRow(SampleOf(r, c)) \in MicroRows(r)
  <1> DEFINE head == Head(chunks[r])
             n == Len(head)
             hm == Head(micro[r])
             rows == PassRows("update", r)
  <1>1. chunks[r] # <<>> /\ micro[r] # <<>>
    BY DEF Waiting
  <1>2. n \in Nat /\ Underway(order[r], micro[r], n)
    BY <1>1, RunningChunk DEF Rank, Chunk
  <1>3. hm \in Seq(1 .. n)
    <2> HIDE DEF n
    <2> QED
      BY <1>1, <1>2, MicroRuns
  <1>4. rows \in Seq(Entries(rows)) /\ Len(rows) = RowsPerRank
    BY PassLists
  <1>5. /\ k \in Nat /\ k + n \in k .. RowsPerRank
        /\ \A i \in 1 .. n : head[i] = rows[k + i]
    <2> DEFINE cs == chunks[r]
               E == Entries(rows)
    <2>1. rows \in Seq(E) /\ Pieces(cs, rows, k) /\ cs # <<>>
      BY <1>1, <1>4
    <2> HIDE DEF rows, cs, E
    <2>2. /\ k \in Nat /\ k + Len(Head(cs)) \in k .. Len(rows)
          /\ \A i \in 1 .. Len(Head(cs)) : Head(cs)[i] = rows[k + i]
      BY <2>1, FirstPiece
    <2> QED
      BY <1>4, <2>2 DEF cs
  <1>6. \A c \in Rows : rows[c] = BoardRow(SampleOf(r, c))
    <2>1. \A c \in Rows : SampleOf(r, c) \in Samples
      BY Shards
    <2>2. \A c \in Rows : rows[c] = board[SampleOf(r, c)]
      BY DEF PassRows, Clean
    <2> HIDE DEF rows
    <2> QED
      BY <2>1, <2>2
  <1>7. Rows = 1 .. RowsPerRank /\ RowsPerRank \in Nat
    BY Shards
  <1>8. \A i \in 1 .. n : k + i \in Rows /\ head[i] = BoardRow(SampleOf(r, k + i))
    <2>1. \A i \in 1 .. n : k + i \in Rows
      BY <1>2, <1>5, <1>7
    <2> QED
      BY <1>5, <1>6, <2>1
  <1>9. /\ \A row \in MicroRows(r) : \E p \in 1 .. Len(hm) : row = head[hm[p]]
        /\ \A p \in 1 .. Len(hm) : head[hm[p]] \in MicroRows(r)
    BY DEF MicroRows
  <1> HIDE DEF head, n, hm, rows
  <1>10. \A p \in 1 .. Len(hm) : hm[p] \in 1 .. n
    <2> DEFINE S == 1 .. n
    <2>1. hm \in Seq(S)
      BY <1>3
    <2> HIDE DEF S
    <2>2. \A p \in 1 .. Len(hm) : hm[p] \in S
      BY <2>1
    <2> QED
      BY <2>2 DEF S
  <1>11. ASSUME NEW row \in MicroRows(r)
         PROVE  \E c \in Rows : row = BoardRow(SampleOf(r, c)) /\ Holds(hm, c - k)
    <2>1. PICK p \in 1 .. Len(hm) : row = head[hm[p]]
      BY <1>9
    <2> DEFINE i == hm[p]
    <2>2. i \in 1 .. n /\ Holds(hm, i)
      BY <1>10 DEF Holds
    <2>3. row = head[i]
      BY <2>1
    <2> HIDE DEF i
    <2>4. (k + i) - k = i /\ k + i \in Rows
      BY <1>2, <1>5, <1>8, <2>2
    <2> QED
      BY <1>8, <2>2, <2>3, <2>4
  <1>12. ASSUME NEW c \in Rows, Holds(hm, c - k) PROVE BoardRow(SampleOf(r, c)) \in MicroRows(r)
    <2>1. PICK p \in 1 .. Len(hm) : hm[p] = c - k
      BY <1>12 DEF Holds
    <2> DEFINE i == hm[p]
    <2>2. i \in 1 .. n /\ i = c - k
      BY <1>10, <2>1
    <2>3. head[i] \in MicroRows(r)
      BY <1>9
    <2> HIDE DEF i
    <2>4. k + i = c
      BY <1>2, <1>5, <1>7, <2>2
    <2> QED
      BY <1>8, <2>2, <2>3, <2>4
  <1> QED
    BY <1>11, <1>12 DEF hm

\* What a forward of the update teaches of a sample: its lesson when its row is in
\* its rank's micro-batch, nothing otherwise.
LEMMA TaughtOnce ==
    ASSUME Shapes, board = [s \in Samples |-> BoardRow(s)],
           \A q \in Ranks : Rank(q) /\ Waiting(q) /\ pass[q] = "update",
           NEW r \in Ranks, NEW b \in Rows,
           NEW k \in 0 .. RowsPerRank, Pieces(chunks[r], PassRows("update", r), k)
    PROVE  TrainedBy(UNION {MicroRows(q) : q \in Ranks}, SampleOf(r, b))
             = IF Holds(Head(micro[r]), b - k) THEN Lesson(SampleOf(r, b)) ELSE <<>>
  <1> DEFINE s == SampleOf(r, b)
             all == UNION {MicroRows(q) : q \in Ranks}
             here == Holds(Head(micro[r]), b - k)
             own == {row \in all : row.prompt.sample = s /\ Valid(row)}
  <1>1. \A t : BoardRow(t).prompt.sample = t
    BY DEF BoardRow, CleanPrompt
  <1>2. ASSUME NEW row \in all, row.prompt.sample = s PROVE row = BoardRow(s) /\ here
    <2>1. PICK q \in Ranks : row \in MicroRows(q)
      OBVIOUS
    <2>2. PICK l \in 0 .. RowsPerRank : Pieces(chunks[q], PassRows("update", q), l)
      BY DEF Rank, RowsTrained
    <2>3. PICK c \in Rows : row = BoardRow(SampleOf(q, c))
      BY <2>1, <2>2, MicroBoard
    <2>4. SampleOf(q, c) = s
      BY <1>1, <1>2, <2>3
    <2>5. q = r
      BY <2>4, Shards
    <2>6. PICK d \in Rows : row = BoardRow(SampleOf(r, d)) /\ Holds(Head(micro[r]), d - k)
      BY <2>1, <2>5, MicroBoard
    <2>7. SampleOf(r, d) = SampleOf(r, b)
      BY <1>1, <1>2, <2>6
    <2>8. d = b
      BY <2>7, Shards
    <2> QED
      BY <2>6, <2>8
  <1>3. here => BoardRow(s) \in all
    <2>1. here => BoardRow(s) \in MicroRows(r)
      BY MicroBoard
    <2> QED
      BY <2>1
  <1>4. TrainedBy(all, s) =
          IF own = {} THEN <<>> ELSE <<Target(CHOOSE row \in own : TRUE)>>
    BY DEF TrainedBy
  <1> HIDE DEF all, s, here
  <1>5. CASE here /\ Valid(BoardRow(s))
    <2>1. own = {BoardRow(s)}
      BY <1>1, <1>2, <1>3, <1>5
    <2>2. own # {} /\ (CHOOSE row \in own : TRUE) = BoardRow(s)
      <3> HIDE DEF own
      <3> QED
        BY <2>1
    <2>3. TrainedBy(all, s) = Lesson(s)
      BY <1>4, <1>5, <2>2 DEF Lesson
    <2> QED
      BY <1>5, <2>3 DEF all, s, here
  <1>6. CASE ~here
    <2>1. own = {}
      BY <1>2, <1>6
    <2>2. TrainedBy(all, s) = <<>>
      BY <1>4, <2>1
    <2> QED
      BY <1>6, <2>2 DEF all, s, here
  <1>7. CASE here /\ ~Valid(BoardRow(s))
    <2>1. own = {}
      BY <1>2, <1>7
    <2>2. TrainedBy(all, s) = <<>> /\ Lesson(s) = <<>>
      BY <1>4, <1>7, <2>1 DEF Lesson
    <2> QED
      BY <1>7, <2>2 DEF all, s, here
  <1> QED
    BY <1>5, <1>6, <1>7

\* A micro-batch adds its scores in the order of its indices.
LEMMA ForwardChunk ==
    ASSUME Shapes, NEW r \in Ranks, Rank(r), Waiting(r), Forward
    PROVE  /\ Chunk(r)'
           /\ Head(micro[r]) \in Seq(1 .. Len(Head(chunks[r])))
           /\ \A i \in 1 .. Len(Head(chunks[r])) : ~(Holds(order[r], i) /\ Holds(Head(micro[r]), i))
  <1> DEFINE head == Head(chunks[r])
             n == Len(head)
             hm == Head(micro[r])
             g == [i \in 1 .. n |-> Result(pass[r], head[i])]
             ran == order[r]
  <1>1. /\ chunks[r] # <<>> /\ micro[r] # <<>>
        /\ raw'[r] = raw[r] \o [j \in 1 .. Len(hm) |-> Result(pass[r], head[hm[j]])]
        /\ order'[r] = ran \o hm /\ micro'[r] = Tail(micro[r])
        /\ pass'[r] = pass[r] /\ chunks'[r] = chunks[r]
    BY DEF Waiting, Forward
  <1>2. /\ n \in Nat /\ Underway(ran, micro[r], n) /\ ran \in Seq(1 .. n)
        /\ raw[r] = Along(g, ran)
    BY <1>1, RunningChunk DEF Rank, Chunk
  <1>3. /\ Underway(ran \o hm, Tail(micro[r]), n) /\ hm \in Seq(1 .. n)
        /\ \A i \in 1 .. n : ~(Holds(ran, i) /\ Holds(hm, i))
    <2> HIDE DEF n, ran
    <2> QED
      BY <1>1, <1>2, MicroRuns
  <1>4. [j \in 1 .. Len(hm) |-> Result(pass[r], head[hm[j]])] = Along(g, hm)
    <2>1. \A j \in 1 .. Len(hm) : hm[j] \in 1 .. n
      BY <1>3
    <2>2. \A i \in 1 .. n : g[i] = Result(pass[r], head[i])
      OBVIOUS
    <2> HIDE DEF g, n, head, hm
    <2>3. \A j \in 1 .. Len(hm) : Result(pass[r], head[hm[j]]) = g[hm[j]]
      BY <2>1, <2>2
    <2> QED
      BY <2>3 DEF Along
  <1>5. raw'[r] = Along(g, order'[r])
    <2>1. Along(g, ran) \o Along(g, hm) = Along(g, ran \o hm)
      <3> DEFINE S == 1 .. n
      <3>1. ran \in Seq(S) /\ hm \in Seq(S)
        BY <1>2, <1>3
      <3> HIDE DEF g, n, ran, hm, S
      <3> QED
        BY <3>1, AlongJoined
    <2> HIDE DEF g
    <2> QED
      BY <1>1, <1>2, <1>4, <2>1
  <1>6. Chunk(r)'
    <2>1. /\ raw'[r] = Along([i \in 1 .. Len(Head(chunks'[r])) |->
                                Result(pass'[r], Head(chunks'[r])[i])], order'[r])
          /\ Underway(order'[r], micro'[r], Len(Head(chunks'[r])))
          /\ chunks'[r] # <<>>
      BY <1>1, <1>3, <1>5
    <2> QED
      BY <2>1 DEF Chunk
  <1> QED
    BY <1>3, <1>6

\* Forward: all ranks run a micro-batch, in the update they learn from it.
LEMMA ForwardHome ==
    ASSUME Home, Forward PROVE Home'
  <1>1. Shapes /\ Phase /\ \A q \in Ranks : Rank(q)
    BY DEF Home, Rank
  <1>2. /\ \A q \in Ranks : Waiting(q)
        /\ UNCHANGED <<batch, attached, pass, chunks, want, out, scores, board, failed>>
        /\ raw' = [r \in Ranks |->
                     raw[r] \o [j \in 1 .. Len(Head(micro[r])) |->
                                  Result(pass[r], Head(chunks[r])[Head(micro[r])[j]])]]
        /\ order' = [r \in Ranks |-> order[r] \o Head(micro[r])]
        /\ micro' = [r \in Ranks |-> Tail(micro[r])]
        /\ learned' = IF Updating
                      THEN [s \in Samples |-> learned[s] \o
                              TrainedBy(UNION {MicroRows(r) : r \in Ranks}, s)]
                      ELSE learned
    BY DEF Forward
  <1>3. /\ \A t, q : PassRows(t, q)' = PassRows(t, q)
        /\ \A t, q : PassScores(t, q)' = PassScores(t, q)
        /\ \A s : BoardRow(s)' = BoardRow(s) /\ Lesson(s)' = Lesson(s)
        /\ AttachedAs(batch, attached)' <=> AttachedAs(batch, attached)
    BY <1>2, SamePasses
  <1>4. ASSUME NEW r \in Ranks PROVE Kept(r)' /\ Chunk(r)' /\ ScoresOut(r)'
    <2>1. Kept(r)'
      BY <1>1, <1>2, <1>3 DEF Rank, Kept
    <2>2. ScoresOut(r)'
      BY <1>1, <1>2, <1>3 DEF Rank, ScoresOut
    <2>3. Chunk(r)'
      BY <1>1, <1>2, ForwardChunk
    <2> QED
      BY <2>1, <2>2, <2>3
  <1>5. \A r \in Ranks : pass[r] \in Scoring \cup {"update"} /\ pass[r] # "updated"
                         /\ pass[r] # "returned"
    BY <1>2 DEF Waiting, InPass, Scoring, Clean
  <1>6. Shapes'
    BY <1>1, <1>2, <1>3 DEF Shapes
  <1>7. CASE \A r \in Ranks : pass[r] = "update"
    <2>1. Updating
      BY <1>7 DEF Updating
    <2>2. board = [s \in Samples |-> BoardRow(s)]
      <3>1. PICK r \in Ranks : TRUE
        BY Shards
      <3>2. pass[r] \notin Scoring \cup {"returned"}
        BY <1>7 DEF Scoring, Clean
      <3> QED
        BY <1>1, <3>2 DEF Phase
    <2>3. ASSUME NEW r \in Ranks PROVE RowsTrained(r)'
      <3> DEFINE hm == Head(micro[r])
                 ran == order[r]
                 n == Len(Head(chunks[r]))
                 trained(b) == TrainedBy(UNION {MicroRows(q) : q \in Ranks}, SampleOf(r, b))
      <3>1. PICK k \in 0 .. RowsPerRank :
              /\ Pieces(chunks[r], PassRows("update", r), k)
              /\ \A b \in Rows : learned[SampleOf(r, b)] =
                   IF b <= k \/ Holds(ran, b - k) THEN Lesson(SampleOf(r, b)) ELSE <<>>
        BY <1>1, <1>7 DEF Rank, RowsTrained
      <3>2. /\ hm \in Seq(1 .. n) /\ n \in Nat /\ ran \in Seq(1 .. n) /\ order'[r] = ran \o hm
            /\ \A i \in 1 .. n : ~(Holds(ran, i) /\ Holds(hm, i))
        <4>1. chunks[r] # <<>>
          BY <1>2 DEF Waiting
        <4> QED
          BY <1>1, <1>2, <4>1, ForwardChunk, RunningChunk
      <3>3. \A b \in Rows : trained(b) = IF Holds(hm, b - k) THEN Lesson(SampleOf(r, b)) ELSE <<>>
        BY <1>1, <1>2, <1>7, <2>2, <3>1, TaughtOnce
      <3>4. ASSUME NEW b \in Rows
            PROVE  learned'[SampleOf(r, b)] = learned[SampleOf(r, b)] \o trained(b)
        <4>1. SampleOf(r, b) \in Samples
          BY Shards
        <4> QED
          BY <1>2, <2>1, <4>1
      <3> HIDE DEF hm, ran, n, trained
      <3>5. \A i : Holds(order'[r], i) <=> Holds(ran, i) \/ Holds(hm, i)
        <4> DEFINE S == 1 .. n
        <4>1. hm \in Seq(S) /\ ran \in Seq(S)
          BY <3>2
        <4> HIDE DEF S
        <4> QED
          BY <3>2, <4>1, JoinedHolds
      <3>6. ASSUME NEW b \in Rows
            PROVE  ~((b <= k \/ Holds(ran, b - k)) /\ Holds(hm, b - k))
        <4> DEFINE i == b - k
        <4>1. b <= k <=> i <= 0
          BY SizesAssumption DEF Rows
        <4> HIDE DEF i
        <4>2. Holds(hm, i) => i \in 1 .. n
          BY <3>2 DEF Holds
        <4>3. ~((i <= 0 \/ Holds(ran, i)) /\ Holds(hm, i))
          BY <3>2, <4>2
        <4> QED
          BY <4>1, <4>3 DEF i
      <3>7. \A s : Lesson(s) \o <<>> = Lesson(s) /\ <<>> \o Lesson(s) = Lesson(s)
        BY DEF Lesson
      <3>8. <<>> \o <<>> = <<>>
        OBVIOUS
      <3>9. ASSUME NEW b \in Rows
            PROVE  learned'[SampleOf(r, b)] =
                     IF b <= k \/ Holds(order'[r], b - k) THEN Lesson(SampleOf(r, b))' ELSE <<>>
        <4> DEFINE was == b <= k \/ Holds(ran, b - k)
                   now == Holds(hm, b - k)
                   s == SampleOf(r, b)
        <4>1. learned'[s] = (IF was THEN Lesson(s) ELSE <<>>) \o (IF now THEN Lesson(s) ELSE <<>>)
          BY <3>1, <3>3, <3>4
        <4>2. ~(was /\ now)
          BY <3>6
        <4>3. (b <= k \/ Holds(order'[r], b - k)) <=> (was \/ now)
          BY <3>5
        <4>4. Lesson(s)' = Lesson(s)
          BY <1>3
        <4> HIDE DEF was, now
        <4>5. learned'[s] = IF was \/ now THEN Lesson(s) ELSE <<>>
          BY <3>7, <3>8, <4>1, <4>2
        <4> QED
          BY <4>3, <4>4, <4>5
      <3>10. Pieces(chunks'[r], PassRows("update", r)', k)
        BY <1>2, <1>3, <3>1
      <3> QED
        BY <1>2, <1>7, <3>9, <3>10 DEF RowsTrained
    <2>4. Phase'
      BY <1>2, <1>3, <1>7, <2>2 DEF Phase
    <2> QED
      BY <1>4, <1>6, <2>3, <2>4 DEF Home
  <1>8. CASE ~(\A r \in Ranks : pass[r] = "update")
    <2>1. learned' = learned
      BY <1>2, <1>8 DEF Updating
    <2>2. /\ \A r \in Ranks : pass[r] \in Scoring \cup {"returned"}
          /\ board = Blank /\ learned = [s \in Samples |-> <<>>]
      BY <1>1, <1>5, <1>8 DEF Phase
    <2>3. Phase'
      BY <1>2, <2>1, <2>2 DEF Phase
    <2>4. ASSUME NEW r \in Ranks PROVE RowsTrained(r)'
      <3>1. pass'[r] # "update" /\ pass'[r] # "updated"
        BY <1>2, <2>2 DEF Scoring, Clean
      <3> QED
        BY <3>1 DEF RowsTrained
    <2> QED
      BY <1>4, <1>6, <2>3, <2>4 DEF Home
  <1> QED
    BY <1>7, <1>8

\* What a batch that has just arrived finds: nothing scored, nothing running.
Started ==
    /\ batch \in Layouts /\ attached = Attach(Pack(batch))
    /\ pass = [r \in Ranks |-> "student"]
    /\ chunks = [r \in Ranks |-> ChunksOf("student", r, NoScores)]
    /\ DOMAIN micro = Ranks /\ DOMAIN order = Ranks /\ DOMAIN raw = Ranks /\ DOMAIN out = Ranks
    /\ \A r \in Ranks : micro[r] = <<>> /\ order[r] = <<>> /\ raw[r] = <<>> /\ out[r] = <<>>
    /\ scores = [r \in Ranks |-> NoScores]
    /\ board = Blank /\ learned = [s \in Samples |-> <<>>]

\* Init, and the state after NextBatch.
LEMMA StartedHome == Started => Home
  <1> SUFFICES ASSUME Started PROVE Home
    OBVIOUS
  <1>1. AttachedAs(batch, attached)
    BY PackedIsAttached DEF Started
  <1>2. /\ DOMAIN NoScores = Scoring
        /\ \A p \in Scoring : NoScores[p] = <<>>
    BY DEF NoScores, Scoring, Clean
  <1>3. Shapes
    BY <1>1, <1>2 DEF Started, Shapes, Scoring, Clean
  <1>4. Phase
    BY DEF Started, Phase, Scoring, Clean
  <1>5. ASSUME NEW r \in Ranks PROVE Rank(r)
    <2>1. /\ pass[r] = "student" /\ scores[r] = NoScores
          /\ chunks[r] = <<PassRows("student", r)>>
          /\ micro[r] = <<>> /\ order[r] = <<>> /\ raw[r] = <<>> /\ out[r] = <<>>
      BY FirstChunks DEF Started
    <2>2. Kept(r)
      <3>1. \A p \in Scoring : "student" \notin After(p)
        BY DEF After, Scoring, Clean
      <3> QED
        BY <1>2, <2>1, <3>1 DEF Kept
    <2>3. Chunk(r)
      BY <2>1, EmptyAlong DEF Chunk
    <2>4. ScoresOut(r)
      <3> DEFINE rows == PassRows("student", r)
                 E == Entries(rows)
      <3>1. rows \in Seq(E) /\ Len(rows) \in Nat
        BY PassLists DEF Scoring, Clean
      <3> HIDE DEF rows, E
      <3>2. Pieces(<<rows>>, rows, 0) /\ 0 \in 0 .. Len(rows)
        BY <3>1, WholePiece
      <3>3. out[r] = [i \in 1 .. 0 |-> PassScores("student", r)[i]]
        BY <2>1
      <3> QED
        BY <2>1, <3>2, <3>3 DEF ScoresOut, Scoring, Clean, rows
    <2>5. RowsTrained(r)
      BY <2>1 DEF RowsTrained
    <2> QED
      BY <2>2, <2>3, <2>4, <2>5 DEF Rank
  <1> QED
    BY <1>3, <1>4, <1>5 DEF Home, Rank

\* NextBatch: every rank has left the update with nothing behind.
LEMMA NextBatchHome ==
    ASSUME Home, NextBatch PROVE Home'
  <1>1. Shapes /\ \A q \in Ranks : Rank(q) /\ pass[q] = "updated"
    BY DEF Home, Rank, NextBatch
  <1>2. \A r \in Ranks : chunks[r] = <<>> /\ out[r] = <<>>
    BY <1>1 DEF Rank, ScoresOut, Scoring, Clean
  <1>3. \A r \in Ranks : micro[r] = <<>> /\ order[r] = <<>> /\ raw[r] = <<>>
    BY <1>1, <1>2 DEF Rank, Chunk
  <1>4. /\ \E b \in Layouts : batch' = b /\ attached' = Attach(Pack(b))
        /\ pass' = [r \in Ranks |-> "student"]
        /\ chunks' = [r \in Ranks |-> ChunksOf("student", r, NoScores)']
        /\ scores' = [r \in Ranks |-> NoScores]
        /\ board' = Blank /\ learned' = [s \in Samples |-> <<>>]
        /\ UNCHANGED <<micro, order, raw, out>>
    BY DEF NextBatch
  <1>5. batch' \in Layouts /\ attached' = Attach(Pack(batch'))
    BY <1>4
  <1>6. Started'
    BY <1>1, <1>2, <1>3, <1>4, <1>5 DEF Started, Shapes
  <1> QED
    BY <1>6, StartedHome, PTL

\* Every step keeps what the ranks hold.
LEMMA HomeKept ==
    ASSUME Home, [Next]_vars PROVE Home'
  <1>1. CASE \E r \in Ranks : SplitStatic(r) \/ SplitDynamic(r)
    BY <1>1, SplitsHome
  <1>2. CASE \E r \in Ranks : EndChunk(r)
    BY <1>2, EndChunkHome
  <1>3. CASE \E r \in Ranks : EndPass(r)
    BY <1>3, EndPassHome
  <1>4. CASE \E r \in Ranks : EndUpdate(r)
    BY <1>4, EndUpdateHome
  <1>5. CASE Forward
    BY <1>5, ForwardHome
  <1>6. CASE OptimizerStep
    BY <1>6, OptimizerStepHome
  <1>7. CASE DispatchUpdate
    BY <1>7, DispatchUpdateHome
  <1>8. CASE NextBatch
    BY <1>8, NextBatchHome
  <1>9. ASSUME UNCHANGED <<batch, attached, pass, chunks, micro, order, raw, out, scores,
                           board, learned>>
        PROVE  Home'
    <2>1. Shapes /\ Phase /\ \A q \in Ranks : Rank(q)
      BY DEF Home, Rank
    <2>2. /\ \A s : BoardRow(s)' = BoardRow(s)
          /\ AttachedAs(batch, attached)' <=> AttachedAs(batch, attached)
      BY <1>9, SamePasses
    <2>3. Shapes' /\ Phase'
      BY <1>9, <2>1, <2>2 DEF Shapes, Phase
    <2>4. \A q \in Ranks : Rank(q)'
      BY <1>9, <2>1, Unmoved
    <2> QED
      BY <2>3, <2>4 DEF Home, Rank
  <1>10. CASE \/ \E r \in Ranks : \/ FailWidthAssert(r) \/ FailCountAssert(r)
                                  \/ FailNarrow(r) \/ FailTarget(r)
              \/ FailLoss
    BY <1>9, <1>10 DEF FailWidthAssert, FailCountAssert, FailNarrow, FailTarget, FailLoss, local
  <1>11. CASE AgreeOnCount
    BY <1>9, <1>11 DEF AgreeOnCount
  <1>12. CASE UNCHANGED vars
    BY <1>9, <1>12 DEF vars, local
  <1> QED
    BY <1>1, <1>2, <1>3, <1>4, <1>5, <1>6, <1>7, <1>8, <1>10, <1>11, <1>12 DEF Next, Work

\* The invariant holds in every state.
LEMMA AlwaysHome == Spec => []Home
  <1>1. Init => Home
    <2> SUFFICES ASSUME Init PROVE Started
      BY StartedHome
    <2> QED
      BY DEF Init, Started
  <1>2. Home /\ [Next]_vars => Home'
    BY HomeKept
  <1> QED
    BY <1>1, <1>2, PTL DEF Spec

-----------------------------------------------------------------------------
(* What a micro-batch may teach, and what an optimizer step drops. *)

\* A micro-batch that passes the checks of update_policy_mpopd teaches nothing
\* about a sample whose target or loss is non-finite.
LEMMA CheckedTeachesFinite ==
    ASSUME NEW s \in Samples, batch[s].overflow \in {"target", "loss"},
           \A r \in Ranks : ~Refused(MicroRows(r))
    PROVE  TrainedBy(UNION {MicroRows(r) : r \in Ranks}, s) = <<>>
  <1> DEFINE rows == UNION {MicroRows(r) : r \in Ranks}
  <1>1. ASSUME NEW row \in rows, row.prompt.sample = s, Valid(row)
        PROVE  FALSE
    <2>1. PICK r \in Ranks : row \in MicroRows(r)
      OBVIOUS
    <2>2. NonFinite(row, "target") \/ NonFinite(row, "loss")
      BY <1>1 DEF NonFinite
    <2> QED
      BY <2>1, <2>2 DEF Refused, BadTarget, BadLoss
  <1>2. {row \in rows : row.prompt.sample = s /\ Valid(row)} = {}
    BY <1>1
  <1> QED
    BY <1>2 DEF TrainedBy

\* In the update a mini-batch is made of rows of the batch to train on.
LEMMA MiniBoard ==
    ASSUME Home, NEW r \in Ranks, pass[r] = "update", chunks[r] # <<>>, NEW row \in MiniRows(r)
    PROVE  row.prompt.sample \in Samples /\ row = BoardRow(row.prompt.sample)
  <1> DEFINE rows == PassRows("update", r)
             head == Head(chunks[r])
  <1>1. Shapes /\ Rank(r)
    BY DEF Home, Rank
  <1>2. board = [s \in Samples |-> BoardRow(s)]
    BY DEF Home, Phase, Scoring, Clean
  <1>3. head \in Seq(Entries(rows))
    BY <1>1, RunningChunk
  <1>4. rows = [b \in Rows |-> board[SampleOf(r, b)]] /\ Len(rows) = RowsPerRank
    BY PassLists DEF PassRows, Clean
  <1>5. row \in Entries(rows)
    <2> DEFINE E == Entries(rows)
    <2>1. \E i \in 1 .. Len(head) : row = head[i]
      BY DEF MiniRows
    <2>2. head \in Seq(E)
      BY <1>3
    <2> HIDE DEF E, head, rows
    <2> QED
      BY <2>1, <2>2 DEF E
  <1>6. PICK b \in Rows : row = BoardRow(SampleOf(r, b))
    <2>1. PICK b \in 1 .. Len(rows) : row = rows[b]
      BY <1>5 DEF Entries
    <2>2. b \in Rows /\ SampleOf(r, b) \in Samples
      BY <1>4, <2>1, Shards
    <2>3. rows[b] = board[SampleOf(r, b)]
      BY <1>4, <2>2
    <2> QED
      BY <1>2, <2>1, <2>2, <2>3
  <1>7. row.prompt.sample = SampleOf(r, b) /\ SampleOf(r, b) \in Samples
    BY <1>6, Shards DEF BoardRow, CleanPrompt
  <1> QED
    BY <1>6, <1>7

\* What was learned of a sample was its lesson, and it has an active expert.
LEMMA TaughtValid ==
    ASSUME Home, NEW s \in Samples, learned[s] # <<>>
    PROVE  Valid(BoardRow(s))
  <1>1. PICK r \in Ranks, b \in Rows : SampleOf(r, b) = s
    BY Shards
  <1>2. pass[r] \in {"update", "updated"}
    BY DEF Home, Phase
  <1>3. learned[s] \in {Lesson(s), <<>>}
    BY <1>1, <1>2 DEF Home, RowsTrained
  <1> QED
    BY <1>3 DEF Lesson

\* A micro-batch is part of the running mini-batch.
LEMMA MicroInMini ==
    ASSUME Home, Forward, NEW r \in Ranks
    PROVE  MicroRows(r) \subseteq MiniRows(r) /\ chunks[r] # <<>>
  <1>1. Shapes /\ Rank(r) /\ Waiting(r)
    BY DEF Home, Rank, Forward
  <1>2. Head(micro[r]) \in Seq(1 .. Len(Head(chunks[r])))
    BY <1>1, ForwardChunk
  <1>3. \A j \in 1 .. Len(Head(micro[r])) : Head(micro[r])[j] \in 1 .. Len(Head(chunks[r]))
    <2> DEFINE S == 1 .. Len(Head(chunks[r]))
               hm == Head(micro[r])
    <2>1. hm \in Seq(S)
      BY <1>2
    <2> HIDE DEF S, hm
    <2>2. \A j \in 1 .. Len(hm) : hm[j] \in S
      BY <2>1
    <2> QED
      BY <2>2 DEF S, hm
  <1> QED
    BY <1>1, <1>3 DEF MicroRows, MiniRows, Waiting

\* A sample with a row in a mini-batch that runs.
InMini(s) == \E r \in Ranks : /\ chunks[r] # <<>>
                              /\ \E row \in MiniRows(r) : row.prompt.sample = s

\* A step leaves what was learned and dropped alone, starts a batch or is still in its
\* scoring, learns from micro-batches that passed the checks, or ends mini-batches.
LEMMA LearningSteps ==
    ASSUME Home, [Next]_vars
    PROVE  \/ UNCHANGED <<batch, chunks, learned, dropped>>
           \/ /\ learned' = [s \in Samples |-> <<>>]
              /\ dropped' = {} \/ UNCHANGED <<batch, dropped>>
           \/ /\ Forward
              /\ \A r \in Ranks : ~Refused(MicroRows(r))
              /\ UNCHANGED <<batch, chunks, dropped>>
              /\ learned' = [s \in Samples |-> learned[s] \o
                               TrainedBy(UNION {MicroRows(r) : r \in Ranks}, s)]
           \/ OptimizerStep
  <1>1. CASE \E r \in Ranks : SplitStatic(r) \/ SplitDynamic(r) \/ EndUpdate(r)
    BY <1>1 DEF SplitStatic, SplitDynamic, EndUpdate, local
  <1>2. CASE \E r \in Ranks : FailWidthAssert(r) \/ FailCountAssert(r) \/ FailNarrow(r) \/ FailTarget(r)
    BY <1>2 DEF FailWidthAssert, FailCountAssert, FailNarrow, FailTarget, local
  <1>3. CASE AgreeOnCount \/ FailLoss
    BY <1>3 DEF AgreeOnCount, FailLoss, local
  <1>4. ASSUME NEW r \in Ranks, EndChunk(r) \/ EndPass(r) PROVE learned = [s \in Samples |-> <<>>]
    <2>1. pass[r] \notin {"update", "updated"}
      BY <1>4 DEF EndChunk, EndPass, ChunkRun, InPass
    <2> QED
      BY <2>1 DEF Home, Phase
  <1>5. CASE \E r \in Ranks : EndChunk(r) \/ EndPass(r)
    BY <1>4, <1>5 DEF EndChunk, EndPass
  <1>6. CASE DispatchUpdate
    <2>1. PICK r \in Ranks : pass[r] = "returned"
      BY <1>6, Shards DEF DispatchUpdate
    <2>2. learned = [s \in Samples |-> <<>>]
      BY <2>1 DEF Home, Phase
    <2> QED
      BY <1>6, <2>2 DEF DispatchUpdate
  <1>7. CASE Forward
    BY <1>7 DEF Forward
  <1>8. CASE NextBatch
    BY <1>8 DEF NextBatch
  <1>9. CASE UNCHANGED vars
    BY <1>9 DEF vars, local
  <1> QED
    BY <1>1, <1>2, <1>3, <1>5, <1>6, <1>7, <1>8, <1>9 DEF Next, Work

\* A mini-batch is dropped only for a gradient that overflowed.
SkippedForOverflow == dropped # {} => \E q \in Samples : batch[q].overflow = "gradient"

LEMMA DroppedForOverflow == Spec => []SkippedForOverflow
  <1>1. Init => SkippedForOverflow
    BY DEF Init, SkippedForOverflow
  <1>2. Home /\ SkippedForOverflow /\ [Next]_vars => SkippedForOverflow'
    <2> SUFFICES ASSUME Home, SkippedForOverflow, [Next]_vars PROVE SkippedForOverflow'
      OBVIOUS
    <2>1. CASE OptimizerStep
      <3> DEFINE mini == UNION {MiniRows(r) : r \in Ranks}
      <3>1. /\ UNCHANGED batch
            /\ dropped' = IF \E row \in mini : NonFinite(row, "gradient")
                          THEN dropped \cup {row.prompt.sample : row \in mini} ELSE dropped
        BY <2>1 DEF OptimizerStep
      <3>2. ASSUME NEW row \in mini, NonFinite(row, "gradient")
            PROVE  row.prompt.sample \in Samples /\ batch[row.prompt.sample].overflow = "gradient"
        <4>1. PICK r \in Ranks : row \in MiniRows(r)
          OBVIOUS
        <4>2. pass[r] = "update" /\ chunks[r] # <<>>
          BY <2>1 DEF OptimizerStep, ChunkRun
        <4> QED
          BY <3>2, <4>1, <4>2, MiniBoard DEF NonFinite
      <3> HIDE DEF mini
      <3> QED
        BY <3>1, <3>2 DEF SkippedForOverflow
    <2>2. CASE dropped' = {} \/ UNCHANGED <<batch, dropped>>
      BY <2>2 DEF SkippedForOverflow
    <2> QED
      BY <2>1, <2>2, LearningSteps
  <1> QED
    BY <1>1, <1>2, AlwaysHome, PTL DEF Spec

-----------------------------------------------------------------------------
(* What holds of every step. *)

\* Scores stay with their own row through packing, sharding, flattening,
\* chunking, dynamic reordering and scattering back, for any number of ranks,
\* rows and experts and any split into chunks and micro-batches.
THEOREM ScoresComeHome == Spec => []OwnScores
  <1>1. Home => OwnScores
    <2> SUFFICES ASSUME Home PROVE OwnScores
      OBVIOUS
    <2>1. \A r \in Ranks : Kept(r)
      BY DEF Home
    <2>2. \E b : b \in Rows
      BY Shards
    <2>3. ASSUME NEW r \in Ranks, scores[r]["student"] # <<>>
          PROVE  scores[r]["student"] = [b \in Rows |-> [ids |-> SampleOf(r, b)]]
      BY <2>1, <2>2, <2>3, StudentIds DEF Kept, Scoring, Clean
    <2>4. ASSUME NEW r \in Ranks, NEW p \in {"base", "teacher"}, scores[r][p] # <<>>
          PROVE  scores[r][p] = [b \in Rows |->
                   [policy |-> Policy(p), prompt |-> CleanPrompt(SampleOf(r, b)),
                    response |-> SampleOf(r, b), topk |-> SampleOf(r, b)]]
      <3>1. scores[r][p] = PassScores(p, r)
        BY <2>1, <2>4 DEF Kept, Scoring, Clean
      <3>2. PassScores(p, r) = [b \in Rows |-> CleanScore(p, SampleOf(r, b))]
        BY <2>2, CleanScores
      <3> QED
        BY <3>1, <3>2 DEF CleanScore
    <2>5. ASSUME board # Blank, NEW s \in Samples, NEW e \in Experts
          PROVE  board[s].specialized[e] = ExpertScore(s, e)
      <3>1. board[s] = BoardRow(s)
        BY <2>5 DEF Home, Phase
      <3> QED
        BY <3>1 DEF BoardRow
    <2> QED
      BY <2>3, <2>4, <2>5 DEF OwnScores, ExpertScore
  <1> QED
    BY <1>1, AlwaysHome, PTL

\* When the update is over, every sample with an enabled expert has been trained
\* on once, against its own enabled experts anchored at its own base scores, and
\* a sample without one has not: no mini-batch or micro-batch loses a row,
\* repeats one or takes another's, and a mini-batch was dropped only when a gradient
\* of the batch overflowed.
THEOREM EachSampleTrainsOnce == Spec => []TrainedOnEnabledExperts
  <1>1. Home /\ SkippedForOverflow => TrainedOnEnabledExperts
    <2> SUFFICES ASSUME Home, \A r \in Ranks : pass[r] = "updated", NEW s \in Samples
                 PROVE  LET on == {e \in Experts : batch[s].experts[e].enabled}
                        IN IF on = {} THEN learned[s] = <<>>
                           ELSE /\ Len(learned[s]) = 1
                                /\ {f[1] : f \in learned[s][1].fused} = on
                                /\ \A f \in learned[s][1].fused : f[2].prompt.sample = s
                                /\ learned[s][1].anchor.prompt.sample = s
                                /\ learned[s][1].reference.prompt.sample = s
      BY DEF TrainedOnEnabledExperts, SkippedForOverflow
    <2> DEFINE on == {e \in Experts : batch[s].experts[e].enabled}
               row == BoardRow(s)
    <2>1. learned[s] = Lesson(s)
      <3>1. PICK r \in Ranks, b \in Rows : SampleOf(r, b) = s
        BY Shards
      <3> QED
        BY <3>1 DEF Home, RowsTrained
    <2>2. Active(row) = on
      <3>1. \A e \in Experts : attached[s][e].on = batch[s].experts[e].enabled
        BY DEF Home, Shapes, AttachedAs
      <3>2. \A e \in Experts : row.mask[e] = attached[s][e].on
        BY DEF BoardRow
      <3> HIDE DEF row
      <3> QED
        BY <3>1, <3>2, Zenon DEF Active
    <2>3. /\ \A e \in on : row.specialized[e].prompt.sample = s
          /\ row.base.prompt.sample = s /\ row.teacher.prompt.sample = s
      <3>1. \A e \in Experts : row.specialized[e] = ExpertScore(s, e)
        BY DEF BoardRow
      <3>2. \A e \in on : ExpertScore(s, e).prompt.sample = s
        BY DEF ExpertScore, ExpertPrompt
      <3>3. row.base = CleanScore("base", s) /\ row.teacher = CleanScore("teacher", s)
        BY DEF BoardRow
      <3>4. \A p : CleanScore(p, s).prompt.sample = s
        BY DEF CleanScore, CleanPrompt
      <3> HIDE DEF row
      <3> QED
        BY <3>1, <3>2, <3>3, <3>4
    <2> HIDE DEF row, on
    <2>4. CASE on = {}
      <3>1. learned[s] = <<>>
        BY <2>1, <2>2, <2>4 DEF Lesson, Valid, row
      <3> QED
        BY <2>4, <3>1 DEF on
    <2>5. CASE on # {}
      <3> DEFINE target == Target(row)
      <3>1. learned[s] = <<target>>
        BY <2>1, <2>2, <2>5 DEF Lesson, Valid, row
      <3>2. /\ target.fused = {<<e, row.specialized[e]>> : e \in Active(row)}
            /\ target.anchor = row.base /\ target.reference = row.teacher
        BY DEF Target
      <3> HIDE DEF target
      <3>3. {f[1] : f \in target.fused} = on
        <4>1. \A e \in on : <<e, row.specialized[e]>> \in target.fused
          BY <2>2, <3>2
        <4>2. \A f \in target.fused : \E e \in on : f = <<e, row.specialized[e]>>
          BY <2>2, <3>2
        <4>3. \A f \in target.fused : f[1] \in on
          BY <4>2
        <4>4. \A e \in on : <<e, row.specialized[e]>>[1] = e
          OBVIOUS
        <4>5. \A e \in on : \E f \in target.fused : f[1] = e
          BY <4>1, <4>4
        <4> QED
          BY <4>3, <4>5
      <3>4. \A f \in target.fused : f[2].prompt.sample = s
        BY <2>2, <2>3, <3>2
      <3>5. Len(learned[s]) = 1 /\ learned[s][1] = target
        BY <3>1
      <3> QED
        BY <2>3, <2>5, <3>2, <3>3, <3>4, <3>5 DEF on
    <2> QED
      BY <2>4, <2>5
  <1> QED
    BY <1>1, AlwaysHome, DroppedForOverflow, PTL

\* A sample whose target or loss came out non-finite leaves no gradient, for the checks
\* of update_policy_mpopd come before the backward on every rank; one whose gradient
\* overflowed is in a mini-batch that still runs or in one that was dropped.
THEOREM NonFiniteNeverTrained == Spec => []OverflowNeverTrained
  <1>1. Init => OverflowNeverTrained
    BY DEF Init, OverflowNeverTrained
  <1>2. Home /\ OverflowNeverTrained /\ [Next]_vars => OverflowNeverTrained'
    <2> SUFFICES ASSUME Home, OverflowNeverTrained, [Next]_vars,
                        NEW s \in Samples, learned'[s] # <<>>
                 PROVE  /\ batch'[s].overflow \notin {"target", "loss"}
                        /\ batch'[s].overflow = "gradient" => s \in dropped' \/ InMini(s)'
      BY DEF OverflowNeverTrained, InMini
    <2>1. learned[s] # <<>> => /\ batch[s].overflow \notin {"target", "loss"}
                               /\ batch[s].overflow = "gradient" => s \in dropped \/ InMini(s)
      BY DEF OverflowNeverTrained, InMini
    <2>2. CASE UNCHANGED <<batch, chunks, learned, dropped>>
      <3>1. InMini(s)' <=> InMini(s)
        BY <2>2 DEF InMini, MiniRows
      <3> QED
        BY <2>1, <2>2, <3>1
    <2>3. CASE learned' = [q \in Samples |-> <<>>]
      BY <2>3
    <2>4. CASE /\ Forward
               /\ \A r \in Ranks : ~Refused(MicroRows(r))
               /\ UNCHANGED <<batch, chunks, dropped>>
               /\ learned' = [q \in Samples |-> learned[q] \o
                                TrainedBy(UNION {MicroRows(r) : r \in Ranks}, q)]
      <3> DEFINE taught == TrainedBy(UNION {MicroRows(r) : r \in Ranks}, s)
      <3>1. learned'[s] = learned[s] \o taught
        BY <2>4
      <3>2. InMini(s)' <=> InMini(s)
        BY <2>4 DEF InMini, MiniRows
      <3>3. CASE learned[s] # <<>>
        BY <2>1, <2>4, <3>2, <3>3
      <3>4. CASE learned[s] = <<>>
        <4>1. taught # <<>>
          BY <3>1, <3>4
        <4>2. batch[s].overflow \notin {"target", "loss"}
          BY <2>4, <4>1, CheckedTeachesFinite
        <4>3. PICK r \in Ranks : \E row \in MicroRows(r) : row.prompt.sample = s
          BY <4>1 DEF TrainedBy
        <4>4. InMini(s)
          BY <2>4, <4>3, MicroInMini DEF InMini
        <4> QED
          BY <2>4, <3>2, <4>2, <4>4
      <3> QED
        BY <3>3, <3>4
    <2>5. CASE OptimizerStep
      <3> DEFINE mini == UNION {MiniRows(r) : r \in Ranks}
      <3>1. /\ UNCHANGED <<batch, learned>>
            /\ dropped' = IF \E row \in mini : NonFinite(row, "gradient")
                          THEN dropped \cup {row.prompt.sample : row \in mini} ELSE dropped
        BY <2>5 DEF OptimizerStep
      <3>2. ASSUME batch[s].overflow = "gradient", InMini(s) PROVE s \in dropped'
        <4>1. PICK r \in Ranks : \E row \in MiniRows(r) : row.prompt.sample = s
          BY <3>2 DEF InMini
        <4> PICK row \in MiniRows(r) : row.prompt.sample = s
          BY <4>1
        <4>2. pass[r] = "update" /\ chunks[r] # <<>>
          BY <2>5 DEF OptimizerStep, ChunkRun
        <4>3. row = BoardRow(s)
          BY <4>1, <4>2, MiniBoard
        <4>4. Valid(row)
          BY <3>1, <4>3, TaughtValid
        <4>5. NonFinite(row, "gradient") /\ row \in mini
          BY <3>2, <4>1, <4>4 DEF NonFinite
        <4> HIDE DEF mini
        <4> QED
          BY <3>1, <4>1, <4>5
      <3> HIDE DEF mini
      <3> QED
        BY <2>1, <3>1, <3>2
    <2> QED
      BY <2>2, <2>3, <2>4, <2>5, LearningSteps
  <1> QED
    BY <1>1, <1>2, AlwaysHome, PTL DEF Spec

\* Priors that stay above the clamp of the renormalized sum give every sample a fused
\* delta that is the average over the experts it came with enabled, at every token and
\* for any number of experts.
THEOREM ScoredBatchAveragesEnabled == ASSUME ModeratePriors PROVE Spec => []FusedOverEnabled
  <1>1. Home => FusedOverEnabled
    <2> SUFFICES ASSUME Home, board # Blank, NEW s \in Samples
                 PROVE  {e \in Experts : batch[s].experts[e].enabled} \in Averaged[board[s].mask]
      BY DEF FusedOverEnabled
    <2> DEFINE m == [e \in Experts |-> attached[s][e].on]
    <2>1. board[s].mask = m
      <3>1. board[s] = BoardRow(s)
        BY DEF Home, Phase
      <3> QED
        BY <3>1 DEF BoardRow
    <2>2. \A e \in Experts : attached[s][e].on = batch[s].experts[e].enabled
      BY DEF Home, Shapes, AttachedAs
    <2>3. \A e \in Experts : batch[s].experts[e].enabled \in BOOLEAN
      BY LayoutsAssumption DEF Home, Shapes, Sample, Context
    <2>4. m \in [Experts -> BOOLEAN]
      BY <2>2, <2>3
    <2>5. {e \in Experts : m[e]} = {e \in Experts : batch[s].experts[e].enabled}
      BY <2>2
    <2> HIDE DEF m
    <2>6. {e \in Experts : m[e]} \in Averaged[m]
      BY <2>4, FusionAveragesEnabled
    <2> QED
      BY <2>1, <2>5, <2>6
  <1> QED
    BY <1>1, AlwaysHome, PTL

-----------------------------------------------------------------------------
(* What the ranks meet: counting tokens, distinct indices and enabled pairs. *)

\* Numbers that stay below a bound have a greatest.
LEMMA Greatest ==
    ASSUME NEW S \in SUBSET Nat, S # {}, NEW m \in Nat, \A x \in S : x <= m
    PROVE  \E n \in S : \A x \in S : x <= n
  <1> DEFINE over == {k \in Nat : \A x \in S : x <= k}
  <1>1. over \in SUBSET Nat /\ m \in over
    OBVIOUS
  <1>2. PICK n \in over : \A k \in over : <<k, n>> \notin OpToRel(<, Nat)
    BY <1>1, NatLessThanWellFounded, WFMin
  <1>3. n \in Nat /\ \A x \in S : x <= n
    OBVIOUS
  <1>4. \A k \in over : ~(k < n)
    BY <1>1, <1>2, <1>3 DEF OpToRel
  <1>5. ASSUME n \notin S PROVE FALSE
    <2>1. \A x \in S : x \in Nat /\ x <= n - 1
      BY <1>3, <1>5
    <2>2. n - 1 \in Nat
      <3>1. PICK x \in S : TRUE
        OBVIOUS
      <3>2. x \in Nat /\ x <= n - 1
        BY <2>1
      <3> HIDE DEF over
      <3> QED
        BY <1>3, <3>2
    <2>3. n - 1 \in over
      BY <2>1, <2>2
    <2> HIDE DEF over
    <2> QED
      BY <1>3, <1>4, <2>2, <2>3
  <1> QED
    BY <1>3, <1>5

\* A sum of positive counts is positive.
LEMMA TokensCounted ==
    ASSUME NEW rows, Len(rows) \in Nat \ {0},
           \A i \in 1 .. Len(rows) : Tokens(rows[i]) \in Nat \ {0}
    PROVE  TotalTokens(rows) \in Nat \ {0}
  <1> DEFINE m == Len(rows)
             t(i) == Tokens(rows[i])
             Step(g) == [i \in 0 .. m |-> IF i = 0 THEN 0 ELSE g[i - 1] + t(i)]
             upTo == CHOOSE g : g = Step(g)
             Fits(g, k) == /\ g \in [0 .. k -> Nat] /\ g[0] = 0
                           /\ \A i \in 1 .. k : g[i] = g[i - 1] + t(i)
             fitted == {k \in Nat : k <= m => \E g : Fits(g, k)}
             summed == {k \in Nat : k \in 1 .. m => upTo[k] \in Nat \ {0}}
  <1>1. TotalTokens(rows) = upTo[m]
    BY DEF TotalTokens
  <1>2. m \in Nat \ {0} /\ \A i \in 1 .. m : t(i) \in Nat \ {0}
    OBVIOUS
  <1> HIDE DEF m, t
  <1>3. 0 \in fitted
    <2>1. Fits([i \in 0 .. 0 |-> 0], 0)
      OBVIOUS
    <2> HIDE DEF Fits
    <2> QED
      BY <2>1
  <1>4. ASSUME NEW k \in Nat, k \in fitted PROVE k + 1 \in fitted
    <2>1. ASSUME k + 1 <= m PROVE \E g : Fits(g, k + 1)
      <3>1. PICK g : Fits(g, k)
        <4>1. k <= m
          BY <1>2, <2>1
        <4> HIDE DEF Fits
        <4> QED
          BY <1>4, <4>1
      <3> DEFINE more == [i \in 0 .. k + 1 |-> IF i <= k THEN g[i] ELSE g[k] + t(k + 1)]
      <3>2. t(k + 1) \in Nat /\ g[k] \in Nat
        BY <1>2, <2>1, <3>1
      <3>3. more \in [0 .. k + 1 -> Nat] /\ more[0] = 0
        <4>1. \A i \in 0 .. k + 1 : i <= k => i \in 0 .. k
          OBVIOUS
        <4>2. \A i \in 0 .. k : g[i] \in Nat
          BY <3>1
        <4>3. 0 \in 0 .. k + 1 /\ 0 <= k /\ g[0] = 0
          BY <3>1
        <4> HIDE DEF Fits
        <4> QED
          BY <3>2, <4>1, <4>2, <4>3
      <3>4. ASSUME NEW i \in 1 .. k + 1 PROVE more[i] = more[i - 1] + t(i)
        <4>1. CASE i <= k
          BY <3>1, <4>1
        <4>2. CASE ~(i <= k)
          <5>1. i = k + 1 /\ i - 1 = k
            BY <4>2
          <5> QED
            BY <5>1
        <4> QED
          BY <4>1, <4>2
      <3> HIDE DEF more
      <3> QED
        BY <3>3, <3>4
    <2> HIDE DEF Fits
    <2> QED
      BY <2>1
  <1>5. m \in fitted
    <2> HIDE DEF fitted
    <2> QED
      BY <1>2, <1>3, <1>4, Successors
  <1>6. PICK sum : Fits(sum, m)
    <2> HIDE DEF Fits
    <2> QED
      BY <1>2, <1>5
  <1>7. sum = Step(sum)
    <2>1. sum = [i \in 0 .. m |-> sum[i]]
      BY <1>6
    <2>2. \A i \in 0 .. m : sum[i] = IF i = 0 THEN 0 ELSE sum[i - 1] + t(i)
      BY <1>2, <1>6
    <2> QED
      BY <2>1, <2>2, Zenon
  <1>8. upTo = Step(upTo)
    <2> HIDE DEF Step
    <2> QED
      BY <1>7
  <1>9. \A i \in 0 .. m : upTo[i] = IF i = 0 THEN 0 ELSE upTo[i - 1] + t(i)
    <2> HIDE DEF upTo
    <2> QED
      BY <1>8
  <1> HIDE DEF upTo
  <1>10. 0 \in summed
    OBVIOUS
  <1>11. ASSUME NEW k \in Nat, k \in summed PROVE k + 1 \in summed
    <2> SUFFICES ASSUME k + 1 \in 1 .. m PROVE upTo[k + 1] \in Nat \ {0}
      OBVIOUS
    <2>1. upTo[k + 1] = upTo[k] + t(k + 1) /\ t(k + 1) \in Nat \ {0}
      BY <1>2, <1>9
    <2>2. upTo[k] \in Nat
      BY <1>2, <1>9, <1>11
    <2> QED
      BY <2>1, <2>2
  <1>12. m \in summed
    <2> HIDE DEF summed
    <2> QED
      BY <1>2, <1>10, <1>11, Successors
  <1> QED
    BY <1>1, <1>2, <1>12

\* No index is listed twice.
Distinct(list) == \A p, q \in 1 .. Len(list) : list[p] = list[q] => p = q

\* The list of a set has each of its members once.
LEMMA AscendingDistinct ==
    ASSUME NEW n \in Nat, NEW set \in SUBSET (1 .. n)
    PROVE  Distinct(Ascending(set))
  <1> DEFINE list == Ascending(set)
             c == Cardinality(set)
  <1>1. /\ c \in 0 .. n /\ list \in Seq(set) /\ Len(list) = c
        /\ \A x \in set : \E k \in 1 .. c : list[k] = x
    BY Enumerated
  <1> HIDE DEF list
  <1>2. c \in Nat
    BY <1>1
  <1> HIDE DEF c
  <1>3. list \in Surjection(1 .. c, set)
    BY <1>1, <1>2 DEF Surjection
  <1>4. IsFiniteSet(1 .. c) /\ Cardinality(1 .. c) = c
    BY <1>2, FS_Interval
  <1>5. list \in Injection(1 .. c, set)
    BY <1>3, <1>4, FS_SurjSameCardinalityImpliesInj DEF c
  <1>6. \A p, q \in 1 .. c : list[p] = list[q] => p = q
    BY <1>5 DEF Injection, IsInjective
  <1> QED
    BY <1>1, <1>6 DEF list, Distinct

\* A static cut.
LEMMA StaticDistinct ==
    ASSUME NEW S, NEW rows \in Seq(S), NEW size \in Nat \ {0}
    PROVE  /\ Len(Split(Indices(rows), size)) = CeilDiv(Len(rows), size)
           /\ \A j \in 1 .. Len(Split(Indices(rows), size)) : Distinct(Split(Indices(rows), size)[j])
  <1> DEFINE m == Len(rows)
             c == CeilDiv(m, size)
             all == Indices(rows)
             lists == Split(all, size)
  <1>1. m \in Nat
    OBVIOUS
  <1>2. all \in Seq(Nat) /\ Len(all) = m /\ \A i \in 1 .. m : all[i] = i
    BY <1>1 DEF Indices
  <1>3. c \in Nat /\ \A j \in 1 .. c : (j - 1) * size < m
    BY <1>1, CeilDivision
  <1> HIDE DEF m, all
  <1>4. lists = [j \in 1 .. c |-> SubSeq(all, (j - 1) * size + 1, Least(j * size, m))]
    BY <1>2 DEF Split
  <1> HIDE DEF lists, c
  <1>5. Len(lists) = c
    BY <1>3, <1>4
  <1>6. ASSUME NEW j \in 1 .. c PROVE Distinct(lists[j])
    <2> DEFINE a == (j - 1) * size
               b == Least(j * size, m)
    <2>1. j - 1 \in Nat /\ j \in Nat /\ (j - 1) + 1 = j
      BY <1>3
    <2>2. a \in Nat /\ j * size = a + size /\ j * size \in Nat /\ a < m
      BY <1>3, <2>1, Multiples
    <2>3. b \in 0 .. Len(all) /\ a <= b
      BY <1>1, <1>2, <2>2 DEF Least
    <2>4. lists[j] = SubSeq(all, a + 1, b)
      BY <1>4
    <2> HIDE DEF a, b
    <2>5. Len(lists[j]) = b - a /\ \A i \in 1 .. b - a : lists[j][i] = all[a + i]
      BY <1>2, <2>2, <2>3, <2>4, SubSequence
    <2>6. \A i \in 1 .. b - a : lists[j][i] = a + i
      BY <1>1, <1>2, <2>2, <2>3, <2>5
    <2> QED
      BY <2>2, <2>3, <2>5, <2>6 DEF Distinct
  <1> QED
    BY <1>5, <1>6 DEF m, all, lists, c

\* Disjoint lists one after the other.
LEMMA JoinedDistinct ==
    ASSUME NEW S, NEW s \in Seq(S), NEW t \in Seq(S), Distinct(s), Distinct(t),
           \A i \in S : ~(Holds(s, i) /\ Holds(t, i))
    PROVE  Distinct(s \o t)
  <1>1. /\ Len(s) \in Nat /\ Len(t) \in Nat /\ Len(s \o t) = Len(s) + Len(t)
        /\ \A p \in 1 .. Len(s) : (s \o t)[p] = s[p] /\ s[p] \in S
        /\ \A p \in 1 .. Len(s) + Len(t) :
             p > Len(s) => (s \o t)[p] = t[p - Len(s)] /\ p - Len(s) \in 1 .. Len(t)
    OBVIOUS
  <1>2. \A p \in 1 .. Len(s), q \in 1 .. Len(t) : s[p] # t[q]
    BY <1>1 DEF Holds
  <1>3. ASSUME NEW p \in 1 .. Len(s) + Len(t), NEW q \in 1 .. Len(s) + Len(t),
               (s \o t)[p] = (s \o t)[q]
        PROVE  p = q
    <2>1. CASE p <= Len(s) /\ q <= Len(s)
      BY <1>1, <1>3, <2>1 DEF Distinct
    <2>2. CASE p > Len(s) /\ q > Len(s)
      <3>1. p - Len(s) = q - Len(s)
        BY <1>1, <1>3, <2>2 DEF Distinct
      <3> QED
        BY <1>1, <3>1
    <2>3. CASE p <= Len(s) /\ q > Len(s)
      BY <1>1, <1>2, <1>3, <2>3
    <2>4. CASE p > Len(s) /\ q <= Len(s)
      BY <1>1, <1>2, <1>3, <2>4
    <2> QED
      BY <1>1, <2>1, <2>2, <2>3, <2>4
  <1> QED
    BY <1>1, <1>3 DEF Distinct

\* Every index of a chunk has run, once: as many ran as there are rows.
LEMMA RunOnce ==
    ASSUME NEW n \in Nat, NEW done, Underway(done, <<>>, n), Distinct(done)
    PROVE  Len(done) = n
  <1> DEFINE c == Len(done)
  <1>1. done \in Seq(1 .. n) /\ \A i \in 1 .. n : Holds(done, i)
    BY AllRun
  <1>2. c \in Nat /\ done \in [1 .. c -> 1 .. n]
    BY <1>1
  <1> HIDE DEF c
  <1>3. done \in Bijection(1 .. c, 1 .. n)
    BY <1>1, <1>2 DEF c, Holds, Distinct, Bijection, Injection, Surjection, IsInjective
  <1>4. /\ IsFiniteSet(1 .. c) /\ Cardinality(1 .. c) = c
        /\ IsFiniteSet(1 .. n) /\ Cardinality(1 .. n) = n
    BY <1>2, FS_Interval
  <1>5. ExistsBijection(1 .. c, 1 .. n)
    BY <1>3 DEF ExistsBijection
  <1>6. Cardinality(1 .. c) = Cardinality(1 .. n)
    BY <1>4, <1>5, FS_Bijection
  <1> QED
    BY <1>4, <1>6 DEF c
\* How many rows a rank's expert pass has.
Load(r) == Len(Flat(r))

\* Counting the pairs by row and expert or by place is the same.
LEMMA LoadIsPairs ==
    ASSUME Shapes, NEW r \in Ranks
    PROVE  Load(r) \in Nat /\ Load(r) = Cardinality(EnabledPairs(r))
  <1> DEFINE n == RowsPerRank
             set == OnCells(r)
             f == [i \in set |-> Grid(n)[i]]
             w == NumExperts
  <1>1. n \in Nat /\ Rows = 1 .. n /\ set \in SUBSET (1 .. n * w) /\ w \in Nat \ {0}
    BY SizesAssumption, FusionAssumption DEF Rows, OnCells
  <1>2. /\ n * w \in Nat
        /\ \A i \in 1 .. n * w : Grid(n)[i] \in (1 .. n) \X Experts
        /\ \A b \in 1 .. n, e \in Experts : \E i \in 1 .. n * w : Grid(n)[i] = <<b, e>>
    BY <1>1, Cells
  <1>3. /\ Cardinality(set) \in 0 .. n * w
        /\ Ascending(set) \in Seq(set) /\ Len(Ascending(set)) = Cardinality(set)
    BY <1>1, <1>2, Enumerated
  <1>4. Load(r) = Cardinality(set) /\ Load(r) \in Nat
    <2>1. Flat(r) = [k \in 1 .. Cardinality(set) |-> Grid(n)[Ascending(set)[k]]]
      BY DEF Flat, Picked
    <2> HIDE DEF set, n
    <2> QED
      BY <1>2, <1>3, <2>1 DEF Load
  <1>5. IsFiniteSet(set)
    <2>1. IsFiniteSet(1 .. n * w)
      <3> HIDE DEF set, n, w
      <3> QED
        BY <1>2, FS_Interval
    <2> QED
      BY <1>1, <2>1, FS_Subset
  <1>6. \A b \in Rows, e \in Experts :
          attached[SampleOf(r, b)][e].on = batch[SampleOf(r, b)].experts[e].enabled
    <2>1. \A b \in Rows : SampleOf(r, b) \in Samples
      BY Shards
    <2> QED
      BY <2>1 DEF Shapes, AttachedAs
  <1>7. \A i \in 1 .. n * w : i \in set <=> attached[SampleOf(r, Grid(n)[i][1])][Grid(n)[i][2]].on
    BY DEF OnCells
  <1>8. Grid(n) = [i \in 1 .. n * w |-> <<((i - 1) \div w) + 1, ((i - 1) % w) + 1>>]
    BY DEF Grid
  <1> HIDE DEF n, set, w
  <1>9. ASSUME NEW i \in 1 .. n * w
        PROVE  i \in set <=> Grid(n)[i] \in EnabledPairs(r)
    <2>0. Grid(n)[i] \in Rows \X Experts
      BY <1>1, <1>2
    <2> HIDE DEF f
    <2>1. PICK b \in Rows, e \in Experts : Grid(n)[i] = <<b, e>>
      BY <2>0
    <2>2. <<b, e>> \in EnabledPairs(r) <=> batch[SampleOf(r, b)].experts[e].enabled
      BY DEF EnabledPairs
    <2> QED
      BY <1>6, <1>7, <2>1, <2>2
  <1>10. ASSUME NEW i \in 1 .. n * w, NEW j \in 1 .. n * w, Grid(n)[i] = Grid(n)[j]
         PROVE  i = j
    <2> DEFINE a == (i - 1) \div w
               b == (j - 1) \div w
               x == (i - 1) % w
               y == (j - 1) % w
    <2>1. i - 1 \in Nat /\ j - 1 \in Nat
      BY <1>2
    <2>2. /\ a \in Nat /\ b \in Nat /\ x \in 0 .. w - 1 /\ y \in 0 .. w - 1
          /\ i - 1 = a * w + x /\ j - 1 = b * w + y
      BY <1>1, <2>1, Division
    <2>3. <<a + 1, x + 1>> = <<b + 1, y + 1>>
      BY <1>8, <1>10
    <2> HIDE DEF a, b, x, y
    <2>4. a = b /\ x = y
      BY <1>1, <2>2, <2>3
    <2> QED
      BY <1>2, <2>1, <2>2, <2>4
  <1>11. ASSUME NEW c \in EnabledPairs(r) PROVE \E i \in set : Grid(n)[i] = c
    <2>1. PICK b \in Rows, e \in Experts : c = <<b, e>>
      BY DEF EnabledPairs
    <2>2. PICK i \in 1 .. n * w : Grid(n)[i] = <<b, e>>
      BY <1>1, <1>2
    <2> QED
      BY <1>9, <2>1, <2>2
  <1>12. f \in Bijection(set, EnabledPairs(r))
    <2>1. f \in [set -> EnabledPairs(r)]
      BY <1>1, <1>9
    <2>2. \A i, j \in set : f[i] = f[j] => i = j
      BY <1>1, <1>10
    <2>3. \A c \in EnabledPairs(r) : \E i \in set : f[i] = c
      BY <1>11
    <2> HIDE DEF f
    <2> QED
      BY <2>1, <2>2, <2>3 DEF Bijection, Injection, Surjection, IsInjective
  <1>13. ExistsBijection(set, EnabledPairs(r))
    BY <1>12 DEF ExistsBijection
  <1>14. Cardinality(set) = Cardinality(EnabledPairs(r))
    BY <1>5, <1>13, FS_Bijection
  <1> QED
    BY <1>4, <1>14

\* The sizes of what a split makes.
LEMMA SplitSizes ==
    ASSUME NEW S, NEW rows \in Seq(S), NEW c \in Nat \ {0}
    PROVE  /\ Len(Split(rows, c)) = CeilDiv(Len(rows), c) /\ CeilDiv(Len(rows), c) \in Nat
           /\ Len(rows) # 0 <=> CeilDiv(Len(rows), c) # 0
           /\ \A i \in 1 .. CeilDiv(Len(rows), c) :
                /\ Len(Split(rows, c)[i]) \in Nat \ {0}
                /\ Len(Split(rows, c)[i]) =
                     IF i < CeilDiv(Len(rows), c) THEN c
                     ELSE Len(rows) - (CeilDiv(Len(rows), c) - 1) * c
  <1> DEFINE m == Len(rows)
             q == CeilDiv(m, c)
  <1>1. m \in Nat
    OBVIOUS
  <1>2. /\ q \in Nat /\ m <= q * c /\ \A j \in 1 .. q : (j - 1) * c < m
        /\ m = 0 <=> q = 0
    BY <1>1, CeilDivision
  <1>3. Split(rows, c) = [j \in 1 .. q |-> SubSeq(rows, (j - 1) * c + 1, Least(j * c, m))]
    BY DEF Split
  <1> HIDE DEF m, q
  <1>4. ASSUME NEW i \in 1 .. q
        PROVE  /\ Len(Split(rows, c)[i]) \in Nat \ {0}
               /\ Len(Split(rows, c)[i]) = IF i < q THEN c ELSE m - (q - 1) * c
    <2> DEFINE a == (i - 1) * c
               b == Least(i * c, m)
    <2>1. i - 1 \in Nat /\ i \in Nat /\ (i - 1) + 1 = i /\ q \in Nat
      BY <1>2
    <2>2. a \in Nat /\ i * c = a + c /\ i * c \in Nat /\ a < m
      BY <1>2, <2>1, Multiples
    <2>3. b \in 0 .. m /\ a < b
      BY <1>1, <2>2 DEF Least
    <2>4. i < q => i * c < m
      <3>1. i < q => i + 1 \in 1 .. q /\ (i + 1) - 1 = i
        BY <2>1
      <3> QED
        BY <1>2, <3>1
    <2>5. Split(rows, c)[i] = SubSeq(rows, a + 1, b)
      BY <1>3
    <2> HIDE DEF a, b
    <2>6. Len(SubSeq(rows, a + 1, b)) = b - a
      BY <2>2, <2>3, SubSequence DEF m
    <2>7. i < q => b = a + c
      BY <1>1, <2>2, <2>4 DEF b, Least
    <2>8. ~(i < q) => b = m /\ a = (q - 1) * c
      <3>1. ~(i < q) => i = q
        BY <2>1
      <3> QED
        BY <1>1, <1>2, <2>2, <3>1 DEF b, a, Least
    <2> QED
      BY <1>1, <2>2, <2>3, <2>5, <2>6, <2>7, <2>8
  <1>5. Len(Split(rows, c)) = q
    BY <1>2, <1>3
  <1> QED
    BY <1>2, <1>4, <1>5 DEF m, q

-----------------------------------------------------------------------------
(* What each rank meets next, and the sizes of what it still has to run. *)

\* n pairs are enabled on a rank: the rows of a pass, the size they are cut to, how many
\* pieces that makes and how many rows the piece has before which k are left.
Lot(p, n)  == IF p = "expert" THEN n ELSE RowsPerRank
Size(p, n) == IF p = "update" THEN MiniSize
              ELSE IF p = "expert" /\ ExpertChunk > 0 THEN ExpertChunk ELSE Lot(p, n)
Cuts(p, n) == IF Lot(p, n) = 0 THEN 0 ELSE CeilDiv(Lot(p, n), Size(p, n))
Piece(p, n, k) == IF k > 1 THEN Size(p, n) ELSE Lot(p, n) - (Cuts(p, n) - 1) * Size(p, n)

\* cs are the last pieces of a pass.
Fit(cs, p, n) ==
    \A i \in 1 .. Len(cs) : /\ Len(cs[i]) = Piece(p, n, Len(cs) - i + 1)
                            /\ Len(cs[i]) \in Nat \ {0}

\* The collectives a rank meets, and the ends of its calls.
Forwards(p, k, m) == [call |-> "forward", pass |-> p, left |-> k, micros |-> m]
Agrees(p, k)      == [call |-> "agree", pass |-> p, left |-> k, micros |-> 0]
Steps(k)          == [call |-> "step", pass |-> "update", left |-> k, micros |-> 0]
Back(p)           == [call |-> "return", pass |-> p, left |-> 0, micros |-> 0]

\* What comes first in a chunk, the k-th from the end, and after one.
MicroOf(p) == IF p = "update" THEN UpdateMicro ELSE MicroSize
Fresh(p, n, k) == IF Dynamic(p) THEN Agrees(p, k)
                  ELSE Forwards(p, k, CeilDiv(Piece(p, n, k), MicroOf(p)))
Enter(p, n) == IF p = "returned" THEN Back(p)
               ELSE IF Cuts(p, n) = 0 THEN Back("returned") ELSE Fresh(p, n, Cuts(p, n))
Onward(p, n, k) == IF k > 0 THEN Fresh(p, n, k)
                   ELSE IF p = "update" THEN Back("updated") ELSE Enter(Following(p), n)

\* The collective a rank meets next, whatever it still does by itself before.
NextCall(r) ==
    LET p == pass[r]
        k == Len(chunks[r])
    IN IF p \in {"returned", "updated"} THEN Back(p)
       ELSE IF k = 0 THEN Onward(p, Load(r), 0)
       ELSE IF micro[r] # <<>> THEN Forwards(p, k, Len(micro[r]))
       ELSE IF raw[r] # <<>> THEN IF p = "update" THEN Steps(k) ELSE Onward(p, Load(r), k - 1)
       ELSE IF want[r] # 0 THEN Forwards(p, k, want[r])
       ELSE Fresh(p, Load(r), k)

\* What is left to run has the sizes of its pass, and no row runs twice.
Sized(r) ==
    /\ want[r] \in Nat /\ (chunks[r] = <<>> => want[r] = 0)
    /\ Fit(chunks[r], pass[r], Load(r))
    /\ Distinct(order[r]) /\ \A j \in 1 .. Len(micro[r]) : Distinct(micro[r][j])

Abreast == /\ \A r, q \in Ranks : NextCall(r) = NextCall(q)
           /\ \A r \in Ranks : want[r] # 0 => want[r] <= Len(Head(chunks[r]))

March == /\ DOMAIN want = Ranks /\ \A r \in Ranks : Sized(r)
         /\ ~failed /\ EvenLoads => Abreast

\* Calls are the same only when all about them is.
LEMMA SameCalls ==
    /\ \A p, q, k, l, m, n : Forwards(p, k, m) = Forwards(q, l, n) => p = q /\ k = l /\ m = n
    /\ \A p, q, k, l : Agrees(p, k) = Agrees(q, l) => p = q /\ k = l
    /\ \A k, l : Steps(k) = Steps(l) => k = l
    /\ \A p, q : Back(p) = Back(q) => p = q
    /\ \A p, q, k, l, m : /\ Forwards(p, k, m) # Agrees(q, l) /\ Forwards(p, k, m) # Steps(l)
                          /\ Forwards(p, k, m) # Back(q) /\ Agrees(p, k) # Steps(l)
                          /\ Agrees(p, k) # Back(q) /\ Steps(k) # Back(q)
  <1> DEFINE R(c, p, k, m) == [call |-> c, pass |-> p, left |-> k, micros |-> m]
  <1>1. \A c, p, k, m : /\ R(c, p, k, m).call = c /\ R(c, p, k, m).pass = p
                        /\ R(c, p, k, m).left = k /\ R(c, p, k, m).micros = m
    OBVIOUS
  <1>2. /\ \A p, k, m : Forwards(p, k, m) = R("forward", p, k, m)
        /\ \A p, k : Agrees(p, k) = R("agree", p, k, 0)
        /\ \A k : Steps(k) = R("step", "update", k, 0)
        /\ \A p : Back(p) = R("return", p, 0, 0)
    BY DEF Forwards, Agrees, Steps, Back
  <1> HIDE DEF R
  <1>3. \A p, q, k, l, m, n : Forwards(p, k, m) = Forwards(q, l, n) => p = q /\ k = l /\ m = n
    BY <1>1, <1>2
  <1>4. \A p, q, k, l : Agrees(p, k) = Agrees(q, l) => p = q /\ k = l
    BY <1>1, <1>2
  <1>5. \A k, l : Steps(k) = Steps(l) => k = l
    BY <1>1, <1>2
  <1>6. \A p, q : Back(p) = Back(q) => p = q
    BY <1>1, <1>2
  <1>7. "forward" # "agree" /\ "forward" # "step" /\ "forward" # "return"
        /\ "agree" # "step" /\ "agree" # "return" /\ "step" # "return"
    OBVIOUS
  <1>8. \A p, q, k, l, m : /\ Forwards(p, k, m) # Agrees(q, l) /\ Forwards(p, k, m) # Steps(l)
                           /\ Forwards(p, k, m) # Back(q) /\ Agrees(p, k) # Steps(l)
                           /\ Agrees(p, k) # Back(q) /\ Steps(k) # Back(q)
    BY <1>1, <1>2, <1>7
  <1> QED
    BY <1>3, <1>4, <1>5, <1>6, <1>8

\* All rows at once are one piece.
LEMMA OnePiece ==
    ASSUME NEW m \in Nat \ {0} PROVE CeilDiv(m, m) = 1
  <1> DEFINE c == CeilDiv(m, m)
  <1>1. c \in Nat /\ m <= c * m /\ c # 0 /\ \A j \in 1 .. c : (j - 1) * m < m
    BY CeilDivision
  <1> HIDE DEF c
  <1>2. c > 1 => 1 * m + m <= c * m
    BY <1>1, Multiples
  <1>3. (c - 1) * m < m
    BY <1>1
  <1>4. c - 1 \in Nat
    BY <1>1
  <1>5. 0 < c - 1 => 0 * m + m <= (c - 1) * m
    BY <1>4, Multiples
  <1>6. ~(0 < c - 1)
    BY <1>3, <1>4, <1>5, Multiples
  <1> QED
    BY <1>1, <1>4, <1>6 DEF c

\* Cutting the rows of a pass makes pieces of these sizes.
LEMMA CutSizes ==
    ASSUME NEW S, NEW rows \in Seq(S), NEW p, NEW n,
           Len(rows) = Lot(p, n), Lot(p, n) # 0, Size(p, n) \in Nat \ {0}
    PROVE  /\ Fit(Split(rows, Size(p, n)), p, n)
           /\ Len(Split(rows, Size(p, n))) = Cuts(p, n) /\ Cuts(p, n) \in Nat \ {0}
  <1> DEFINE c == Size(p, n)
             q == CeilDiv(Len(rows), c)
             cs == Split(rows, c)
  <1>1. /\ Len(cs) = q /\ q \in Nat /\ q # 0
        /\ \A i \in 1 .. q : /\ Len(cs[i]) \in Nat \ {0}
                             /\ Len(cs[i]) = IF i < q THEN c ELSE Len(rows) - (q - 1) * c
    BY SplitSizes
  <1>2. Cuts(p, n) = q
    BY DEF Cuts
  <1> HIDE DEF c, cs, q
  <1>3. ASSUME NEW i \in 1 .. q PROVE Len(cs[i]) = Piece(p, n, q - i + 1)
    <2>1. (i < q => q - i + 1 > 1) /\ (~(i < q) => ~(q - i + 1 > 1))
      BY <1>1
    <2> QED
      BY <1>1, <1>2, <2>1 DEF Piece, c
  <1> QED
    BY <1>1, <1>2, <1>3 DEF Fit, cs, c

\* The rows of a pass as one piece.
LEMMA WholeSizes ==
    ASSUME NEW rows, NEW p, NEW n, Len(rows) = Lot(p, n), Lot(p, n) \in Nat \ {0},
           Size(p, n) = Lot(p, n)
    PROVE  Fit(<<rows>>, p, n) /\ Len(<<rows>>) = Cuts(p, n) /\ Cuts(p, n) = 1
  <1>1. Cuts(p, n) = 1
    BY OnePiece DEF Cuts
  <1>2. Piece(p, n, 1) = Lot(p, n)
    BY <1>1 DEF Piece
  <1> QED
    BY <1>1, <1>2 DEF Fit

\* The sizes that are left after a piece.
LEMMA LaterSizes ==
    ASSUME NEW V, NEW cs \in Seq(V), cs # <<>>, NEW p, NEW n, Fit(cs, p, n)
    PROVE  /\ Len(cs) \in Nat \ {0} /\ Len(Head(cs)) = Piece(p, n, Len(cs))
           /\ Len(Head(cs)) \in Nat \ {0}
           /\ Len(Tail(cs)) = Len(cs) - 1 /\ Fit(Tail(cs), p, n)
  <1> DEFINE m == Len(cs)
             tail == Tail(cs)
  <1>1. /\ m \in Nat \ {0} /\ Head(cs) = cs[1] /\ tail \in Seq(V) /\ Len(tail) = m - 1
        /\ \A i \in 1 .. m - 1 : tail[i] = cs[i + 1]
    OBVIOUS
  <1>2. \A i \in 1 .. m : Len(cs[i]) = Piece(p, n, m - i + 1) /\ Len(cs[i]) \in Nat \ {0}
    BY DEF Fit
  <1> HIDE DEF m, tail
  <1>3. 1 \in 1 .. m /\ m - 1 + 1 = m
    BY <1>1
  <1>4. \A i \in 1 .. m - 1 : i + 1 \in 1 .. m /\ m - (i + 1) + 1 = (m - 1) - i + 1
    BY <1>1
  <1>5. ASSUME NEW i \in 1 .. m - 1
        PROVE  Len(tail[i]) = Piece(p, n, (m - 1) - i + 1) /\ Len(tail[i]) \in Nat \ {0}
    <2> DEFINE j == i + 1
    <2>1. j \in 1 .. m /\ tail[i] = cs[j] /\ m - j + 1 = (m - 1) - i + 1
      BY <1>1, <1>4
    <2> HIDE DEF j
    <2>2. Len(cs[j]) = Piece(p, n, m - j + 1) /\ Len(cs[j]) \in Nat \ {0}
      BY <1>2, <2>1
    <2> QED
      BY <2>1, <2>2
  <1>6. Fit(tail, p, n)
    BY <1>1, <1>5 DEF Fit
  <1> QED
    BY <1>1, <1>2, <1>3, <1>6 DEF m, tail

\* A rank's flat rows and the chunks of a pass.
LEMMA PassSizes ==
    ASSUME NEW r \in Ranks, NEW p \in Scoring, NEW done
    PROVE  /\ Fit(ChunksOf(p, r, done), p, Load(r))
           /\ Len(ChunksOf(p, r, done)) = Cuts(p, Load(r)) /\ Cuts(p, Load(r)) \in Nat
           /\ p # "expert" => Cuts(p, Load(r)) = 1
  <1> DEFINE n == Load(r)
             cs == ChunksOf(p, r, done)
  <1>1. n \in Nat /\ Rows = 1 .. RowsPerRank /\ RowsPerRank \in Nat \ {0}
    BY FlatCells, Shards DEF Load
  <1>2. CASE p = "expert"
    <2> DEFINE topk == [b \in Rows |-> done["student"][b].ids]
               flat == FlatExperts(r, topk)
    <2>1. flat = [j \in 1 .. n |->
                    [prompt   |-> attached[SampleOf(r, Flat(r)[j][1])][Flat(r)[j][2]].row.prompt,
                     response |-> attached[SampleOf(r, Flat(r)[j][1])][Flat(r)[j][2]].row.response,
                     topk     |-> topk[Flat(r)[j][1]]]]
      BY FlatRows DEF Load
    <2>2. cs = IF flat = <<>> THEN <<>>
               ELSE IF ExpertChunk > 0 THEN Split(flat, ExpertChunk) ELSE <<flat>>
      BY <1>2 DEF ChunksOf
    <2> HIDE DEF topk
    <2>3. flat = [j \in 1 .. n |-> flat[j]]
      BY <2>1
    <2> HIDE DEF n, flat, cs
    <2>4. flat \in Seq(Entries(flat)) /\ Len(flat) = n
      BY <1>1, <2>3, Listing
    <2>5. Lot(p, n) = n /\ Size(p, n) = IF ExpertChunk > 0 THEN ExpertChunk ELSE n
      BY <1>2 DEF Lot, Size
    <2>6. flat = <<>> <=> n = 0
      BY <1>1, <2>4
    <2>7. Fit(cs, p, n) /\ Len(cs) = Cuts(p, n) /\ Cuts(p, n) \in Nat
      <3>1. CASE n = 0
        <4>1. cs = <<>> /\ Cuts(p, n) = 0
          BY <2>2, <2>5, <2>6, <3>1 DEF Cuts
        <4> QED
          BY <4>1 DEF Fit
      <3>2. CASE n # 0 /\ ExpertChunk > 0
        <4>1. ExpertChunk \in Nat \ {0}
          BY <3>2, SizesAssumption
        <4>2. cs = Split(flat, Size(p, n))
          BY <2>2, <2>5, <2>6, <3>2
        <4> QED
          BY <2>4, <2>5, <3>2, <4>1, <4>2, CutSizes
      <3>3. CASE n # 0 /\ ~(ExpertChunk > 0)
        <4>1. cs = <<flat>>
          BY <2>2, <2>6, <3>3
        <4> QED
          BY <1>1, <2>4, <2>5, <3>3, <4>1, WholeSizes
      <3> QED
        BY <3>1, <3>2, <3>3
    <2> QED
      BY <1>2, <2>7 DEF n, cs
  <1>3. CASE p # "expert"
    <2>1. \E rows : cs = <<rows>> /\ Len(rows) = RowsPerRank
      <3>1. CASE p = "student"
        <4>1. cs = <<CleanRows(r, LAMBDA b : 0)>>
          BY <3>1 DEF ChunksOf
        <4>2. Len(CleanRows(r, LAMBDA b : 0)) = RowsPerRank
          BY <1>1 DEF CleanRows
        <4> QED
          BY <4>1, <4>2
      <3>2. CASE p # "student"
        <4>1. p \in {"base", "teacher"}
          BY <1>3, <3>2 DEF Scoring, Clean
        <4>2. cs = <<CleanRows(r, LAMBDA b : done["student"][b].ids)>>
          BY <4>1 DEF ChunksOf
        <4>3. Len(CleanRows(r, LAMBDA b : done["student"][b].ids)) = RowsPerRank
          BY <1>1 DEF CleanRows
        <4> QED
          BY <4>2, <4>3
      <3> QED
        BY <3>1, <3>2
    <2>2. PICK rows : cs = <<rows>> /\ Len(rows) = RowsPerRank
      BY <2>1
    <2>3. Lot(p, n) = RowsPerRank /\ Size(p, n) = RowsPerRank
      BY <1>3 DEF Lot, Size, Scoring, Clean
    <2> HIDE DEF n, cs
    <2> QED
      BY <1>1, <1>3, <2>2, <2>3, WholeSizes DEF n, cs
  <1> QED
    BY <1>2, <1>3

-----------------------------------------------------------------------------
(* Ranks that march abreast meet. *)

\* Where a rank stands: a scoring pass or the update with pieces left, or the end of a call.
LEMMA Standing ==
    ASSUME Home, NEW r \in Ranks
    PROVE  /\ pass[r] \in Scoring \cup {"returned", "update", "updated"}
           /\ \E V : chunks[r] \in Seq(V)
           /\ pass[r] \in {"returned", "updated"} => chunks[r] = <<>>
           /\ chunks[r] = <<>> => micro[r] = <<>> /\ order[r] = <<>> /\ raw[r] = <<>>
           /\ chunks[r] # <<>> =>
                /\ \/ micro[r] = <<>> /\ order[r] = <<>>
                   \/ Underway(order[r], micro[r], Len(Head(chunks[r])))
                /\ Len(Head(chunks[r])) \in Nat
                /\ order[r] \in Seq(1 .. Len(Head(chunks[r])))
                /\ micro[r] \in Seq(Seq(1 .. Len(Head(chunks[r]))))
                /\ Len(raw[r]) = Len(order[r])
                /\ raw[r] = <<>> <=> order[r] = <<>>
  <1>1. Shapes /\ Rank(r)
    BY DEF Home, Rank
  <1>2. pass[r] \in Scoring \cup {"returned", "update", "updated"}
    BY <1>1 DEF Shapes
  <1>3. pass[r] \in {"returned", "updated"} => chunks[r] = <<>>
    BY <1>1 DEF Rank, ScoresOut, Scoring, Clean
  <1>4. \E V : chunks[r] \in Seq(V)
    <2>1. CASE chunks[r] = <<>>
      <3>1. <<>> \in Seq({})
        OBVIOUS
      <3> QED
        BY <2>1, <3>1
    <2>2. CASE pass[r] \in Scoring
      BY <1>1, <2>2 DEF Rank, ScoresOut, Pieces
    <2>3. CASE pass[r] = "update"
      BY <1>1, <2>3 DEF Rank, RowsTrained, Pieces
    <2> QED
      BY <1>2, <1>3, <2>1, <2>2, <2>3
  <1>5. chunks[r] = <<>> => micro[r] = <<>> /\ order[r] = <<>> /\ raw[r] = <<>>
    BY <1>1 DEF Rank, Chunk
  <1>6. ASSUME chunks[r] # <<>>
        PROVE  /\ \/ micro[r] = <<>> /\ order[r] = <<>>
                  \/ Underway(order[r], micro[r], Len(Head(chunks[r])))
               /\ Len(Head(chunks[r])) \in Nat
               /\ order[r] \in Seq(1 .. Len(Head(chunks[r])))
               /\ micro[r] \in Seq(Seq(1 .. Len(Head(chunks[r]))))
               /\ Len(raw[r]) = Len(order[r])
               /\ raw[r] = <<>> <=> order[r] = <<>>
    <2> DEFINE n == Len(Head(chunks[r]))
    <2>1. \/ micro[r] = <<>> /\ order[r] = <<>>
          \/ Underway(order[r], micro[r], n)
      BY <1>1, <1>6 DEF Rank, Chunk
    <2>2. /\ n \in Nat /\ order[r] \in Seq(1 .. n) /\ Len(raw[r]) = Len(order[r])
          /\ raw[r] = <<>> => order[r] = <<>>
      BY <1>1, <1>6, RunningChunk
    <2>3. order[r] = <<>> => raw[r] = <<>>
      BY <1>1, <1>6, EmptyAlong DEF Rank, Chunk
    <2> HIDE DEF n
    <2>4. <<>> \in Seq(Seq(1 .. n))
      OBVIOUS
    <2>5. micro[r] \in Seq(Seq(1 .. n))
      BY <2>1, <2>4 DEF Underway
    <2> QED
      BY <2>1, <2>2, <2>3, <2>5 DEF n
  <1> QED
    BY <1>2, <1>3, <1>4, <1>5, <1>6

\* What is left of a prompt counts in tokens, and no row is empty.
LEMMA RowTokens ==
    ASSUME Shapes, Phase, NEW r \in Ranks, pass[r] \in Scoring \cup {"update"},
           NEW i \in 1 .. Len(PassRows(pass[r], r))
    PROVE  Tokens(PassRows(pass[r], r)[i]) \in Nat \ {0}
  <1> DEFINE p == pass[r]
             rows == PassRows(p, r)
  <1>1. /\ batch \in [Samples -> Sample] /\ Budget \in Nat \ {0} /\ Response \in Nat \ {0}
        /\ \A b \in Rows : SampleOf(r, b) \in Samples
        /\ Rows = 1 .. RowsPerRank /\ RowsPerRank \in Nat
    BY Shards, SizesAssumption, LayoutsAssumption DEF Shapes
  <1>2. \A s \in Samples : /\ batch[s].user \in Nat
                           /\ \A e \in Experts : batch[s].experts[e].direction \in Nat \ {0}
    <2>1. \A s \in Samples : batch[s] \in Sample
      BY <1>1
    <2>2. MaxPrompt \in Nat
      BY SizesAssumption
    <2> QED
      BY <2>1, <2>2 DEF Sample, Context
  <1>3. \A s \in Samples : /\ CleanPrompt(s).user \in Nat /\ CleanPrompt(s).direction = 0
                           /\ CleanPrompt(s).expert = 0
    BY <1>2 DEF CleanPrompt
  <1>4. ASSUME NEW s \in Samples, NEW e \in Experts
        PROVE  /\ ExpertPrompt(batch, s, e).user \in Nat
               /\ ExpertPrompt(batch, s, e).direction \in Nat \ {0}
               /\ ExpertPrompt(batch, s, e).expert # 0
    <2> DEFINE u == batch[s].user
               d == batch[s].experts[e].direction
    <2>1. u \in Nat /\ d \in Nat \ {0}
      BY <1>2
    <2>2. /\ ExpertPrompt(batch, s, e).user = LeftCut(u, d).user
          /\ ExpertPrompt(batch, s, e).direction = LeftCut(u, d).direction
          /\ ExpertPrompt(batch, s, e).expert = e
      BY DEF ExpertPrompt
    <2> HIDE DEF u, d
    <2>3. LeftCut(u, d).user \in Nat /\ LeftCut(u, d).direction \in Nat \ {0}
      BY <1>1, <2>1 DEF LeftCut, Least
    <2>4. e # 0
      BY FusionAssumption DEF Experts
    <2> QED
      BY <2>2, <2>3, <2>4
  <1>5. CASE p \in Clean
    <2>1. rows = [b \in Rows |-> CleanRow(p, SampleOf(r, b))] /\ Len(rows) = RowsPerRank
      BY <1>5, PassLists DEF PassRows, Clean, Scoring
    <2>2. i \in Rows
      BY <1>1, <2>1
    <2>3. rows[i].prompt = CleanPrompt(SampleOf(r, i))
      BY <2>1, <2>2 DEF CleanRow
    <2> HIDE DEF rows
    <2> QED
      BY <1>1, <1>3, <2>2, <2>3 DEF Tokens, rows
  <1>6. CASE p = "expert"
    <2>1. /\ rows = [j \in 1 .. Len(Flat(r)) |-> ExpertRow(SampleOf(r, Flat(r)[j][1]), Flat(r)[j][2])]
          /\ Len(rows) = Len(Flat(r))
      BY <1>6, PassLists DEF PassRows, Clean, Scoring
    <2>2. Flat(r) \in Seq(Rows \X Experts)
      BY FlatCells
    <2>3. Flat(r)[i] \in Rows \X Experts
      BY <2>1, <2>2
    <2>4. PICK b \in Rows, e \in Experts : Flat(r)[i] = <<b, e>>
      BY <2>3
    <2>5. rows[i].prompt = ExpertPrompt(batch, SampleOf(r, b), e)
      BY <2>1, <2>4 DEF ExpertRow
    <2> HIDE DEF rows
    <2> QED
      BY <1>1, <1>4, <2>5 DEF Tokens, rows
  <1>7. CASE p = "update"
    <2>1. board = [s \in Samples |-> BoardRow(s)]
      BY <1>7 DEF Phase, Scoring, Clean
    <2>2. rows = [b \in Rows |-> board[SampleOf(r, b)]] /\ Len(rows) = RowsPerRank
      BY <1>7, PassLists DEF PassRows, Clean, Scoring
    <2>3. i \in Rows
      BY <1>1, <2>2
    <2>4. rows[i].prompt = CleanPrompt(SampleOf(r, i))
      BY <1>1, <2>1, <2>2, <2>3 DEF BoardRow
    <2> HIDE DEF rows
    <2> QED
      BY <1>1, <1>3, <2>3, <2>4 DEF Tokens, rows
  <1> QED
    BY <1>5, <1>6, <1>7 DEF Scoring

\* rearrange_micro_batches asks for at least one micro-batch and at most one per row.
LEMMA OwnCounts ==
    ASSUME Home, NEW r \in Ranks, chunks[r] # <<>>, Len(Head(chunks[r])) \in Nat \ {0}
    PROVE  OwnCount(r) \in 1 .. Len(Head(chunks[r]))
  <1> DEFINE head == Head(chunks[r])
             cap == Cap(pass[r])
             rows == PassRows(pass[r], r)
  <1>1. Shapes /\ Phase /\ Rank(r)
    BY DEF Home, Rank
  <1>2. pass[r] \in Scoring \cup {"update"} /\ head \in Seq(Entries(rows))
    BY <1>1, RunningChunk
  <1>3. \A x \in Entries(rows) : Tokens(x) \in Nat \ {0}
    <2>1. ASSUME NEW i \in 1 .. Len(rows) PROVE Tokens(rows[i]) \in Nat \ {0}
      BY <1>1, <1>2, RowTokens
    <2> HIDE DEF rows
    <2> QED
      BY <2>1 DEF Entries
  <1>4. cap \in Nat \ {0}
    BY SizesAssumption DEF Cap
  <1> HIDE DEF cap, rows, head
  <1>5. Len(head) \in Nat \ {0} /\ \A i \in 1 .. Len(head) : head[i] \in Entries(rows)
    BY <1>2 DEF head
  <1>6. TotalTokens(head) \in Nat \ {0}
    BY <1>3, <1>5, TokensCounted
  <1>7. CeilDiv(TotalTokens(head), cap) \in Nat \ {0}
    BY <1>4, <1>6, CeilDivision
  <1>8. OwnCount(r) = Least(Len(head), CeilDiv(TotalTokens(head), cap))
    BY DEF OwnCount, head, cap
  <1> QED
    BY <1>5, <1>7, <1>8 DEF Least, head

\* On even loads the ranks hold as many flat rows each.
LEMMA EvenlyLoaded ==
    ASSUME Shapes, EvenLoads PROVE \A r, q \in Ranks : Load(r) = Load(q)
  BY LoadIsPairs DEF EvenLoads

\* What decides the loads.
LEMMA SameLoads ==
    ASSUME UNCHANGED <<batch, attached>>
    PROVE  /\ EvenLoads' <=> EvenLoads
           /\ \A r : Load(r)' = Load(r)
  BY DEF EvenLoads, EnabledPairs, Load, Flat, OnCells

\* Ranks that march abreast meet.
LEMMA MarchMeets ==
    ASSUME Home, March PROVE EvenRanksMeet
  <1> SUFFICES ASSUME EvenLoads, ~failed
               PROVE  /\ Together \/ \E r \in Ranks : CanMove(r)
                      /\ \A r \in Ranks : want[r] # 0 => want[r] <= Len(Head(chunks[r]))
                      /\ NoRankStranded
    BY DEF EvenRanksMeet, RanksMeet
  <1>1. /\ \A r, q \in Ranks : NextCall(r) = NextCall(q)
        /\ \A r \in Ranks : want[r] # 0 => want[r] <= Len(Head(chunks[r]))
        /\ \A r \in Ranks : Sized(r)
    BY DEF March, Abreast
  <1>2. ASSUME NEW r \in Ranks, pass[r] \in {"returned", "updated"}
        PROVE  NextCall(r) = Back(pass[r]) /\ ~AtCollective(r)
    BY <1>2 DEF NextCall, AtCollective, Waiting, Untouched, InPass
  <1>3. ASSUME NEW r \in Ranks, Waiting(r)
        PROVE  NextCall(r) = Forwards(pass[r], Len(chunks[r]), Len(micro[r]))
    <2>1. chunks[r] # <<>> /\ micro[r] # <<>> /\ pass[r] \notin {"returned", "updated"}
      BY <1>3 DEF Waiting, InPass
    <2>2. Len(chunks[r]) # 0
      BY <2>1, Standing
    <2> QED
      BY <2>1, <2>2 DEF NextCall
  <1>4. ASSUME NEW r \in Ranks, Untouched(r), Dynamic(pass[r])
        PROVE  NextCall(r) = Agrees(pass[r], Len(chunks[r]))
    <2>1. /\ chunks[r] # <<>> /\ micro[r] = <<>> /\ raw[r] = <<>> /\ want[r] = 0
          /\ pass[r] \notin {"returned", "updated"}
      BY <1>4 DEF Untouched, InPass
    <2>2. Len(chunks[r]) # 0
      BY <2>1, Standing
    <2> QED
      BY <1>4, <2>1, <2>2 DEF NextCall, Fresh
  <1>5. ASSUME NEW r \in Ranks, ChunkRun(r), pass[r] = "update"
        PROVE  NextCall(r) = Steps(Len(chunks[r]))
    <2>1. /\ chunks[r] # <<>> /\ micro[r] = <<>> /\ Len(raw[r]) = Len(Head(chunks[r]))
      BY <1>5 DEF ChunkRun
    <2>2. PICK V : chunks[r] \in Seq(V)
      BY Standing
    <2>3. Len(chunks[r]) # 0 /\ Len(Head(chunks[r])) \in Nat \ {0}
      BY <1>1, <2>1, <2>2, LaterSizes DEF Sized
    <2>4. raw[r] # <<>>
      BY <2>1, <2>3
    <2> QED
      BY <1>5, <2>1, <2>3, <2>4 DEF NextCall
  <1>6. ASSUME NEW r \in Ranks, ~CanMove(r)
        PROVE  \/ pass[r] \in {"returned", "updated"} \/ Waiting(r)
               \/ Untouched(r) /\ Dynamic(pass[r])
               \/ ChunkRun(r) /\ pass[r] = "update"
    <2> SUFFICES ASSUME pass[r] \notin {"returned", "updated"}, ~Waiting(r)
                 PROVE  \/ Untouched(r) /\ Dynamic(pass[r])
                        \/ ChunkRun(r) /\ pass[r] = "update"
      OBVIOUS
    <2>1. InPass(r)
      BY Standing DEF InPass, Scoring, Clean
    <2>2. chunks[r] # <<>>
      BY <1>6, <2>1 DEF CanMove
    <2>3. micro[r] = <<>>
      BY <2>1, <2>2 DEF Waiting
    <2> DEFINE n == Len(Head(chunks[r]))
    <2>4. /\ n \in Nat /\ Len(raw[r]) = Len(order[r])
          /\ raw[r] = <<>> <=> order[r] = <<>>
          /\ order[r] = <<>> \/ Underway(order[r], <<>>, n)
      BY <2>2, <2>3, Standing
    <2> HIDE DEF n
    <2>5. CASE raw[r] # <<>>
      <3>1. Len(order[r]) = n
        BY <1>1, <2>4, <2>5, RunOnce DEF Sized
      <3>2. ChunkRun(r)
        BY <2>1, <2>2, <2>3, <2>4, <3>1 DEF ChunkRun, n
      <3> QED
        BY <1>6, <3>2 DEF CanMove
    <2>6. CASE raw[r] = <<>>
      <3>1. ASSUME want[r] # 0 PROVE FALSE
        <4>1. want[r] \in 1 .. n
          BY <1>1, <2>4, <3>1 DEF Sized, n
        <4> QED
          BY <1>6, <2>2, <2>3, <2>6, <4>1 DEF CanMove, n
      <3>2. Untouched(r)
        BY <2>1, <2>2, <2>3, <2>6, <3>1 DEF Untouched
      <3> QED
        BY <1>6, <3>2 DEF CanMove
    <2> QED
      BY <2>5, <2>6
  <1>7. NoRankStranded
    <2> SUFFICES ASSUME NEW r \in Ranks, NEW q \in Ranks, pass[q] \in {"returned", "updated"},
                        AtCollective(r)
                 PROVE  FALSE
      BY DEF NoRankStranded
    <2>1. NextCall(r) = Back(pass[q])
      BY <1>1, <1>2
    <2>2. CASE Waiting(r)
      BY <1>3, <2>1, <2>2, SameCalls
    <2>3. CASE Dynamic(pass[r]) /\ Untouched(r)
      BY <1>4, <2>1, <2>3, SameCalls
    <2> QED
      BY <2>2, <2>3 DEF AtCollective
  <1>8. ASSUME \A r \in Ranks : ~CanMove(r) PROVE Together
    <2>1. PICK r \in Ranks : TRUE
      BY Shards
    <2>2. \A q \in Ranks : NextCall(q) = NextCall(r)
      BY <1>1
    <2>3. CASE pass[r] \in {"returned", "updated"}
      <3>1. \A q \in Ranks : NextCall(q) = Back(pass[r])
        BY <1>2, <2>2, <2>3
      <3>2. ASSUME NEW q \in Ranks PROVE pass[q] = pass[r]
        <4>1. NextCall(q) = Back(pass[r])
          BY <3>1
        <4>2. ~Waiting(q)
          BY <1>3, <4>1, SameCalls
        <4>3. ~(Untouched(q) /\ Dynamic(pass[q]))
          BY <1>4, <4>1, SameCalls
        <4>4. ~(ChunkRun(q) /\ pass[q] = "update")
          BY <1>5, <4>1, SameCalls
        <4>5. pass[q] \in {"returned", "updated"}
          BY <1>6, <1>8, <4>2, <4>3, <4>4
        <4> QED
          BY <1>2, <4>1, <4>5, SameCalls
      <3> QED
        BY <2>3, <3>2 DEF Together
    <2>4. CASE Waiting(r)
      <3>1. \A q \in Ranks : NextCall(q) = Forwards(pass[r], Len(chunks[r]), Len(micro[r]))
        BY <1>3, <2>2, <2>4
      <3>2. ASSUME NEW q \in Ranks PROVE Waiting(q) /\ pass[q] = pass[r]
        <4>1. Waiting(q)
          BY <1>2, <1>4, <1>5, <1>6, <1>8, <3>1, SameCalls
        <4> QED
          BY <1>3, <3>1, <4>1, SameCalls
      <3> QED
        BY <3>2 DEF Together
    <2>5. CASE Untouched(r) /\ Dynamic(pass[r])
      <3>1. \A q \in Ranks : NextCall(q) = Agrees(pass[r], Len(chunks[r]))
        BY <1>4, <2>2, <2>5
      <3>2. ASSUME NEW q \in Ranks PROVE Untouched(q) /\ Dynamic(pass[q])
        BY <1>2, <1>3, <1>5, <1>6, <1>8, <3>1, SameCalls
      <3> QED
        BY <3>2 DEF Together
    <2>6. CASE ChunkRun(r) /\ pass[r] = "update"
      <3>1. \A q \in Ranks : NextCall(q) = Steps(Len(chunks[r]))
        BY <1>5, <2>2, <2>6
      <3>2. ASSUME NEW q \in Ranks PROVE ChunkRun(q) /\ pass[q] = "update"
        BY <1>2, <1>3, <1>4, <1>6, <1>8, <3>1, SameCalls
      <3> QED
        BY <3>2 DEF Together
    <2> QED
      BY <1>6, <1>8, <2>3, <2>4, <2>5, <2>6
  <1> QED
    BY <1>1, <1>7, <1>8

-----------------------------------------------------------------------------
(* What one rank does by itself changes nothing in what it meets next. *)

\* A step of one rank that does not change what it meets next.
LEMMA Alone ==
    ASSUME March, NEW r \in Ranks, UNCHANGED <<batch, attached, failed>>, DOMAIN want' = Ranks,
           \A q \in Ranks \ {r} :
             /\ pass'[q] = pass[q] /\ chunks'[q] = chunks[q] /\ want'[q] = want[q]
             /\ micro'[q] = micro[q] /\ order'[q] = order[q] /\ raw'[q] = raw[q],
           Sized(r)', NextCall(r)' = NextCall(r),
           want'[r] # 0 => want'[r] <= Len(Head(chunks'[r]))
    PROVE  March'
  <1>1. (EvenLoads' <=> EvenLoads) /\ \A q : Load(q)' = Load(q)
    BY SameLoads
  <1>2. \A q \in Ranks : Sized(q)'
    <2>1. ASSUME NEW q \in Ranks \ {r} PROVE Sized(q)'
      BY <1>1 DEF March, Sized
    <2> QED
      BY <2>1
  <1>3. \A q \in Ranks : NextCall(q)' = NextCall(q)
    <2>1. ASSUME NEW q \in Ranks \ {r} PROVE NextCall(q)' = NextCall(q)
      BY <1>1 DEF NextCall
    <2> QED
      BY <2>1
  <1>4. ASSUME ~failed', EvenLoads' PROVE Abreast'
    <2>1. Abreast
      BY <1>1, <1>4 DEF March
    <2>2. \A q \in Ranks : want'[q] # 0 => want'[q] <= Len(Head(chunks'[q]))
      BY <2>1 DEF Abreast
    <2>3. \A p, q \in Ranks : NextCall(p)' = NextCall(q)'
      BY <1>3, <2>1 DEF Abreast
    <2> QED
      BY <2>2, <2>3 DEF Abreast
  <1> QED
    BY <1>2, <1>4 DEF March

\* SplitStatic, SplitDynamic.
LEMMA SplitMarch ==
    ASSUME Home, March, NEW r \in Ranks, SplitStatic(r) \/ SplitDynamic(r) PROVE March'
  <1> DEFINE head == Head(chunks[r])
             k == Len(chunks[r])
             p == pass[r]
  <1>1. /\ chunks[r] # <<>> /\ micro[r] = <<>> /\ raw[r] = <<>>
        /\ p \notin {"returned", "updated"}
        /\ UNCHANGED <<batch, attached, pass, chunks, want, order, raw, failed>>
    <2>1. chunks[r] # <<>>
      BY DEF SplitStatic, SplitDynamic, Untouched
    <2> QED
      BY <2>1, Standing DEF SplitStatic, SplitDynamic, Untouched
  <1>2. Shapes /\ Rank(r) /\ Sized(r) /\ DOMAIN want = Ranks
    BY DEF Home, Rank, March
  <1>3. /\ k \in Nat \ {0} /\ Len(head) = Piece(p, Load(r), k) /\ Len(head) \in Nat \ {0}
    <2>1. PICK V : chunks[r] \in Seq(V)
      BY Standing
    <2> QED
      BY <1>1, <1>2, <2>1, LaterSizes DEF Sized
  <1>4. \E lists : /\ micro' = [micro EXCEPT ![r] = lists] /\ lists # <<>>
                   /\ \A j \in 1 .. Len(lists) : Distinct(lists[j])
                   /\ NextCall(r) = Forwards(p, k, Len(lists))
    <2>1. CASE SplitStatic(r)
      <3> DEFINE lists == Split(Indices(head), MicroOf(p))
      <3>1. MicroOf(p) \in Nat \ {0}
        BY SizesAssumption DEF MicroOf
      <3>2. head \in Seq(Entries(PassRows(p, r)))
        BY <1>1, <1>2, RunningChunk
      <3>3. /\ micro' = [micro EXCEPT ![r] = lists] /\ ~Dynamic(p) /\ want[r] = 0
        BY <2>1 DEF SplitStatic, Untouched, MicroOf
      <3>4. NextCall(r) = Forwards(p, k, CeilDiv(Len(head), MicroOf(p)))
        BY <1>1, <1>3, <3>3 DEF NextCall, Fresh
      <3> HIDE DEF head
      <3>5. /\ Len(lists) = CeilDiv(Len(head), MicroOf(p))
            /\ \A j \in 1 .. Len(lists) : Distinct(lists[j])
        BY <3>1, <3>2, StaticDistinct
      <3>6. CeilDiv(Len(head), MicroOf(p)) # 0
        BY <1>3, <3>1, CeilDivision
      <3> HIDE DEF lists
      <3>7. lists # <<>>
        BY <3>5, <3>6
      <3> QED
        BY <3>3, <3>4, <3>5, <3>7
    <2>2. CASE SplitDynamic(r)
      <3> DEFINE n == Len(head)
                 w == want[r]
      <3>1. w \in 1 .. n
        BY <2>2 DEF SplitDynamic
      <3>2. PICK lists \in Partitions(n, w) : micro' = [micro EXCEPT ![r] = lists]
        BY <2>2 DEF SplitDynamic
      <3>3. n \in Nat /\ w \in Nat \ {0}
        BY <1>3, <3>1
      <3> HIDE DEF n
      <3>4. PICK f \in [1 .. n -> 1 .. w] :
              lists = [j \in 1 .. w |-> Ascending({i \in 1 .. n : f[i] = j})]
        BY <3>2 DEF Partitions
      <3>5. NextCall(r) = Forwards(p, k, w)
        BY <1>1, <1>3, <3>3 DEF NextCall
      <3> HIDE DEF w
      <3>6. Len(lists) = w
        BY <3>3, <3>4
      <3>7. ASSUME NEW j \in 1 .. w PROVE Distinct(lists[j])
        <4> DEFINE set == {i \in 1 .. n : f[i] = j}
        <4>1. set \in SUBSET (1 .. n) /\ lists[j] = Ascending(set)
          BY <3>4
        <4> HIDE DEF set
        <4> QED
          BY <3>3, <4>1, AscendingDistinct
      <3>8. lists # <<>>
        BY <3>3, <3>6
      <3> QED
        BY <3>2, <3>5, <3>6, <3>7, <3>8
    <2> QED
      BY <2>1, <2>2
  <1>5. PICK lists : /\ micro' = [micro EXCEPT ![r] = lists] /\ lists # <<>>
                     /\ \A j \in 1 .. Len(lists) : Distinct(lists[j])
                     /\ NextCall(r) = Forwards(p, k, Len(lists))
    BY <1>4
  <1>6. /\ micro'[r] = lists /\ \A q \in Ranks \ {r} : micro'[q] = micro[q]
    BY <1>2, <1>5 DEF Shapes
  <1>7. Load(r)' = Load(r)
    BY <1>1, SameLoads
  <1>8. Sized(r)'
    BY <1>1, <1>2, <1>5, <1>6, <1>7 DEF Sized
  <1>9. NextCall(r)' = Forwards(p, k, Len(lists))
    BY <1>1, <1>3, <1>5, <1>6 DEF NextCall
  <1>10. want'[r] # 0 => want'[r] <= Len(Head(chunks'[r]))
    <2>1. CASE SplitStatic(r)
      BY <1>1, <2>1 DEF SplitStatic, Untouched
    <2>2. CASE SplitDynamic(r)
      BY <1>1, <1>3, <2>2 DEF SplitDynamic
    <2> QED
      BY <2>1, <2>2
  <1> QED
    BY <1>1, <1>2, <1>5, <1>6, <1>8, <1>9, <1>10, Alone

\* Nothing is listed twice in an empty list.
LEMMA NoneTwice == Distinct(<<>>)
  BY DEF Distinct

\* EndChunk.
LEMMA EndChunkMarch ==
    ASSUME Home, March, NEW r \in Ranks, EndChunk(r) PROVE March'
  <1> DEFINE k == Len(chunks[r])
             p == pass[r]
             n == Load(r)
  <1>1. /\ chunks[r] # <<>> /\ micro[r] = <<>> /\ Len(raw[r]) = Len(Head(chunks[r]))
        /\ InPass(r) /\ p # "update" /\ UNCHANGED <<batch, attached, pass, micro, failed>>
        /\ chunks' = [chunks EXCEPT ![r] = Tail(@)] /\ want' = [want EXCEPT ![r] = 0]
        /\ order' = [order EXCEPT ![r] = <<>>] /\ raw' = [raw EXCEPT ![r] = <<>>]
    BY DEF EndChunk, ChunkRun, Popped
  <1>2. Shapes /\ Sized(r) /\ DOMAIN want = Ranks
    BY DEF Home, March
  <1>3. /\ chunks'[r] = Tail(chunks[r]) /\ want'[r] = 0 /\ order'[r] = <<>> /\ raw'[r] = <<>>
        /\ DOMAIN want' = Ranks
        /\ \A q \in Ranks \ {r} : /\ chunks'[q] = chunks[q] /\ want'[q] = want[q]
                                  /\ order'[q] = order[q] /\ raw'[q] = raw[q]
    BY <1>1, <1>2 DEF Shapes
  <1>4. /\ k \in Nat \ {0} /\ Len(Head(chunks[r])) \in Nat \ {0}
        /\ Len(Tail(chunks[r])) = k - 1 /\ Fit(Tail(chunks[r]), p, n)
    <2>1. PICK V : chunks[r] \in Seq(V)
      BY Standing
    <2> QED
      BY <1>1, <1>2, <2>1, LaterSizes DEF Sized
  <1>5. raw[r] # <<>> /\ p \notin {"returned", "updated"}
    BY <1>1, <1>4 DEF InPass
  <1>6. NextCall(r) = Onward(p, n, k - 1)
    BY <1>1, <1>4, <1>5 DEF NextCall
  <1>7. Load(r)' = n /\ pass'[r] = p /\ micro'[r] = <<>> /\ Len(chunks'[r]) = k - 1
    BY <1>1, <1>3, <1>4, SameLoads
  <1>8. NextCall(r)' = Onward(p, n, k - 1)
    <2> HIDE DEF k, p, n
    <2>1. CASE k - 1 = 0
      BY <1>3, <1>5, <1>7, <2>1 DEF NextCall
    <2>2. CASE k - 1 # 0
      <3>1. k - 1 > 0
        BY <1>4, <2>2
      <3>2. Onward(p, n, k - 1) = Fresh(p, n, k - 1)
        BY <3>1 DEF Onward
      <3> QED
        BY <1>3, <1>5, <1>7, <2>2, <3>2 DEF NextCall
    <2> QED
      BY <2>1, <2>2
  <1>9. Sized(r)'
    BY <1>1, <1>2, <1>3, <1>4, <1>7, NoneTwice DEF Sized
  <1> QED
    BY <1>1, <1>3, <1>6, <1>8, <1>9, Alone

\* EndUpdate.
LEMMA EndUpdateMarch ==
    ASSUME Home, March, NEW r \in Ranks, EndUpdate(r) PROVE March'
  <1>1. /\ pass[r] = "update" /\ chunks[r] = <<>> /\ pass' = [pass EXCEPT ![r] = "updated"]
        /\ UNCHANGED <<batch, attached, chunks, want, micro, order, raw, failed>>
    BY DEF EndUpdate, local
  <1>2. Shapes /\ Sized(r) /\ DOMAIN want = Ranks
    BY DEF Home, March
  <1>3. pass'[r] = "updated" /\ \A q \in Ranks \ {r} : pass'[q] = pass[q]
    BY <1>1, <1>2 DEF Shapes
  <1>4. Len(chunks[r]) = 0
    BY <1>1
  <1>5. NextCall(r) = Back("updated")
    BY <1>1, <1>4 DEF NextCall, Onward
  <1>6. NextCall(r)' = Back("updated")
    BY <1>3 DEF NextCall
  <1>7. Sized(r)'
    BY <1>1, <1>2, <1>4 DEF Sized, Fit
  <1>8. want'[r] = 0
    BY <1>1, <1>2 DEF Sized
  <1> QED
    BY <1>1, <1>2, <1>3, <1>5, <1>6, <1>7, <1>8, Alone

\* EndPass.
LEMMA EndPassMarch ==
    ASSUME Home, March, NEW r \in Ranks, EndPass(r) PROVE March'
  <1> DEFINE p == pass[r]
             next == Following(p)
             n == Load(r)
             done == [scores[r] EXCEPT ![p] = out[r]]
             cs == IF p = "expert" THEN <<>> ELSE ChunksOf(next, r, done)
  <1>1. /\ InPass(r) /\ p # "update" /\ chunks[r] = <<>>
        /\ pass' = [pass EXCEPT ![r] = next] /\ chunks' = [chunks EXCEPT ![r] = cs]
        /\ UNCHANGED <<batch, attached, want, micro, order, raw, failed>>
    BY DEF EndPass
  <1>2. Shapes /\ Sized(r) /\ DOMAIN want = Ranks
    BY DEF Home, March
  <1>3. p \in Scoring
    BY <1>1 DEF InPass, Scoring, Clean
  <1>4. micro[r] = <<>> /\ order[r] = <<>> /\ raw[r] = <<>> /\ want[r] = 0
    BY <1>1, <1>2, Standing DEF Sized
  <1>5. NextCall(r) = Enter(next, n)
    <2>1. Len(chunks[r]) = 0 /\ ~(0 > 0)
      BY <1>1
    <2>2. p \notin {"returned", "updated"}
      BY <1>3 DEF Scoring, Clean
    <2> QED
      BY <1>1, <2>1, <2>2 DEF NextCall, Onward
  <1> HIDE DEF done
  <1>6. CASE p = "expert"
    <2>1. next = "returned" /\ cs = <<>>
      BY <1>6 DEF Following
    <2>2. Fit(cs, next, n)
      BY <2>1 DEF Fit
    <2>3. NextCall(r) = Back("returned")
      BY <1>5, <2>1 DEF Enter
    <2> HIDE DEF cs, next, p, n
    <2>4. pass'[r] = next /\ chunks'[r] = cs /\ \A q \in Ranks \ {r} : pass'[q] = pass[q] /\ chunks'[q] = chunks[q]
      BY <1>1, <1>2 DEF Shapes
    <2>5. NextCall(r)' = Back("returned")
      BY <2>1, <2>4 DEF NextCall
    <2>6. Load(r)' = n
      BY <1>1, SameLoads DEF n
    <2>7. Sized(r)'
      BY <1>1, <1>2, <1>4, <2>2, <2>4, <2>6 DEF Sized
    <2> QED
      BY <1>1, <1>2, <1>4, <2>3, <2>4, <2>5, <2>7, Alone
  <1>7. CASE p # "expert"
    <2>1. next \in {"base", "teacher", "expert"} /\ next \in Scoring
      BY <1>3, <1>7 DEF Following, Scoring, Clean
    <2>2. cs = ChunksOf(next, r, done)
      BY <1>7
    <2> HIDE DEF cs, next, p
    <2>3. /\ Fit(cs, next, n) /\ Len(cs) = Cuts(next, n) /\ Cuts(next, n) \in Nat
          /\ next # "expert" => Cuts(next, n) = 1
      BY <2>1, <2>2, PassSizes
    <2>4. pass'[r] = next /\ chunks'[r] = cs /\ \A q \in Ranks \ {r} : pass'[q] = pass[q] /\ chunks'[q] = chunks[q]
      BY <1>1, <1>2 DEF Shapes
    <2>5. Load(r)' = n
      BY <1>1, SameLoads
    <2> HIDE DEF n
    <2>6. Sized(r)'
      BY <1>1, <1>2, <1>4, <2>3, <2>4, <2>5 DEF Sized
    <2>7. next \notin {"returned", "updated", "update"}
      BY <2>1
    <2>8. NextCall(r)' = Enter(next, n)
      <3>1. CASE Cuts(next, n) = 0
        <4>1. next = "expert"
          BY <2>3, <3>1
        <4>2. Enter(next, n) = Back("returned")
          BY <2>7, <3>1 DEF Enter
        <4>3. Onward(next, n, 0) = Back("returned")
          BY <4>1 DEF Onward, Enter, Following
        <4> QED
          BY <2>3, <2>4, <2>5, <2>7, <3>1, <4>2, <4>3 DEF NextCall
      <3>2. CASE Cuts(next, n) # 0
        <4>1. Enter(next, n) = Fresh(next, n, Cuts(next, n))
          BY <2>7, <3>2 DEF Enter
        <4> QED
          BY <1>1, <1>4, <2>3, <2>4, <2>5, <2>7, <3>2, <4>1 DEF NextCall
      <3> QED
        BY <3>1, <3>2
    <2> QED
      BY <1>1, <1>2, <1>4, <1>5, <2>4, <2>6, <2>8, Alone
  <1> QED
    BY <1>6, <1>7

-----------------------------------------------------------------------------
(* At a collective all go on together to the next one. *)

\* Finitely many numbers have a bound.
LEMMA Bounded ==
    ASSUME NEW n \in Nat, NEW f, \A i \in 1 .. n : f[i] \in Nat
    PROVE  \E m \in Nat : \A i \in 1 .. n : f[i] <= m
  <1> DEFINE under(k, m) == \A i \in 1 .. k : f[i] <= m
             set == {k \in Nat : k <= n => \E m \in Nat : under(k, m)}
  <1>1. 0 \in set
    <2>1. under(0, 0)
      OBVIOUS
    <2> HIDE DEF under
    <2> QED
      BY <2>1
  <1>2. ASSUME NEW k \in Nat, k \in set PROVE k + 1 \in set
    <2>1. ASSUME k + 1 <= n PROVE \E m \in Nat : under(k + 1, m)
      <3>1. k <= n
        BY <2>1
      <3>2. PICK m \in Nat : under(k, m)
        <4> HIDE DEF under
        <4> QED
          BY <1>2, <3>1
      <3>3. f[k + 1] \in Nat
        BY <2>1
      <3>4. PICK l \in Nat : m <= l /\ f[k + 1] <= l
        <4>1. m <= m + f[k + 1] /\ f[k + 1] <= m + f[k + 1] /\ m + f[k + 1] \in Nat
          BY <3>3
        <4> QED
          BY <4>1
      <3>5. under(k + 1, l)
        <4> SUFFICES ASSUME NEW i \in 1 .. k + 1 PROVE f[i] <= l
          OBVIOUS
        <4>1. CASE i = k + 1
          BY <3>4, <4>1
        <4>2. CASE i # k + 1
          <5>1. i \in 1 .. k /\ f[i] \in Nat
            BY <2>1, <4>2
          <5>2. f[i] <= m
            BY <3>2, <5>1
          <5> QED
            BY <3>4, <5>1, <5>2
        <4> QED
          BY <4>1, <4>2
      <3> HIDE DEF under
      <3> QED
        BY <3>5
    <2> HIDE DEF under
    <2> QED
      BY <2>1
  <1>3. n \in set
    <2> HIDE DEF set
    <2> QED
      BY <1>1, <1>2, Successors
  <1>4. \E m \in Nat : under(n, m)
    <2> HIDE DEF under
    <2> QED
      BY <1>3
  <1> QED
    BY <1>4

\* AgreeOnCount: all ask for as many micro-batches, no more than the rows of each.
LEMMA AgreeMarch ==
    ASSUME Home, March, AgreeOnCount PROVE March'
  <1> DEFINE counts == {OwnCount(q) : q \in Ranks}
             most == CHOOSE n \in counts : \A q \in Ranks : OwnCount(q) <= n
  <1>1. /\ \A r \in Ranks : Untouched(r) /\ Dynamic(pass[r])
        /\ want' = [r \in Ranks |-> most]
        /\ UNCHANGED <<batch, attached, pass, chunks, micro, order, raw, failed>>
    BY DEF AgreeOnCount, AgreedCount
  <1>2. Shapes /\ \A r \in Ranks : Rank(r) /\ Sized(r)
    BY DEF Home, Rank, March
  <1>3. ASSUME NEW r \in Ranks
        PROVE  /\ Len(chunks[r]) \in Nat \ {0} /\ chunks[r] # <<>>
               /\ micro[r] = <<>> /\ raw[r] = <<>> /\ want[r] = 0
               /\ pass[r] \notin {"returned", "updated"}
               /\ Len(Head(chunks[r])) = Piece(pass[r], Load(r), Len(chunks[r]))
               /\ Len(Head(chunks[r])) \in Nat \ {0}
               /\ OwnCount(r) \in 1 .. Len(Head(chunks[r]))
    <2>1. /\ chunks[r] # <<>> /\ micro[r] = <<>> /\ raw[r] = <<>> /\ want[r] = 0
          /\ pass[r] \notin {"returned", "updated"}
      BY <1>1 DEF Untouched, InPass
    <2>2. PICK V : chunks[r] \in Seq(V)
      BY Standing
    <2>3. /\ Len(chunks[r]) \in Nat \ {0}
          /\ Len(Head(chunks[r])) = Piece(pass[r], Load(r), Len(chunks[r]))
          /\ Len(Head(chunks[r])) \in Nat \ {0}
      BY <1>2, <2>1, <2>2, LaterSizes DEF Sized
    <2>4. OwnCount(r) \in 1 .. Len(Head(chunks[r]))
      BY <2>1, <2>3, OwnCounts
    <2> QED
      BY <2>1, <2>3, <2>4
  <1>4. PICK one \in Ranks : TRUE
    BY Shards
  <1>5. most \in counts /\ \A r \in Ranks : OwnCount(r) <= most
    <2>1. counts \in SUBSET Nat /\ counts # {}
      BY <1>3, <1>4
    <2>2. \E m \in Nat : \A x \in counts : x <= m
      <3> DEFINE f == [r \in Ranks |-> OwnCount(r)]
      <3>1. World \in Nat /\ Ranks = 1 .. World
        BY SizesAssumption DEF Ranks
      <3>2. \A r \in Ranks : f[r] = OwnCount(r) /\ f[r] \in Nat
        BY <1>3
      <3> HIDE DEF f
      <3>3. PICK m \in Nat : \A r \in Ranks : f[r] <= m
        BY <3>1, <3>2, Bounded
      <3> QED
        BY <3>2, <3>3
    <2>3. \E n \in counts : \A x \in counts : x <= n
      BY <2>1, <2>2, Greatest
    <2>4. \E n \in counts : \A r \in Ranks : OwnCount(r) <= n
      BY <2>3
    <2> HIDE DEF counts
    <2> QED
      BY <2>4
  <1>6. PICK top \in Ranks : most = OwnCount(top)
    <2> HIDE DEF most
    <2> QED
      BY <1>5
  <1>7. most \in Nat \ {0}
    <2> HIDE DEF most
    <2> QED
      BY <1>3, <1>6
  <1> HIDE DEF most, counts
  <1>8. /\ \A r \in Ranks : Load(r)' = Load(r)
        /\ EvenLoads' <=> EvenLoads
    BY <1>1, SameLoads
  <1>9. \A r \in Ranks : Sized(r)'
    BY <1>1, <1>2, <1>3, <1>7, <1>8 DEF Sized
  <1>10. ASSUME NEW r \in Ranks
         PROVE  /\ NextCall(r) = Agrees(pass[r], Len(chunks[r]))
                /\ NextCall(r)' = Forwards(pass[r], Len(chunks[r]), most)
    <2>1. NextCall(r) = Agrees(pass[r], Len(chunks[r]))
      BY <1>1, <1>3 DEF NextCall, Fresh
    <2>2. want'[r] = most /\ most # 0
      BY <1>1, <1>7
    <2> QED
      BY <1>1, <1>3, <2>1, <2>2 DEF NextCall
  <1>11. ASSUME ~failed', EvenLoads' PROVE Abreast'
    <2>1. /\ \A r, q \in Ranks : NextCall(r) = NextCall(q)
          /\ \A r, q \in Ranks : Load(r) = Load(q)
      BY <1>1, <1>2, <1>8, <1>11, EvenlyLoaded DEF March, Abreast
    <2>2. \A r, q \in Ranks : pass[r] = pass[q] /\ Len(chunks[r]) = Len(chunks[q])
      BY <1>10, <2>1, SameCalls
    <2>3. \A r, q \in Ranks : NextCall(r)' = NextCall(q)'
      BY <1>10, <2>2
    <2>4. \A r \in Ranks : Len(Head(chunks[r])) = Len(Head(chunks[top]))
      BY <1>3, <2>1, <2>2
    <2>5. \A r \in Ranks : want'[r] <= Len(Head(chunks'[r]))
      BY <1>1, <1>3, <1>6, <2>4
    <2> QED
      BY <2>3, <2>5 DEF Abreast
  <1> QED
    BY <1>1, <1>9, <1>11 DEF March

\* Scores are there as soon as indices have run.
ScoredAsRun == \A r \in Ranks : chunks[r] # <<>> => (raw[r] = <<>> <=> order[r] = <<>>)

\* What has run has its scores kept, in every state Home allows.
LEMMA RunIsScored == Home => ScoredAsRun
  BY Standing DEF ScoredAsRun

\* A chunk of which something has to run does not end without.
LEMMA NotNone ==
    ASSUME NEW n \in Nat \ {0}, NEW done, Underway(done, <<>>, n)
    PROVE  done # <<>>
  <1>1. Holds(done, 1)
    BY AllRun
  <1>2. PICK p \in 1 .. Len(done) : done[p] = 1
    BY <1>1 DEF Holds
  <1>3. done \in Seq(1 .. n)
    BY AllRun
  <1> QED
    BY <1>2, <1>3

\* Nothing follows the only one.
LEMMA TheLast ==
    ASSUME NEW S, NEW s \in Seq(S), Len(s) = 1 PROVE Tail(s) = <<>>
  <1>1. Tail(s) \in Seq(S) /\ Len(Tail(s)) = 0
    OBVIOUS
  <1>2. \A t \in Seq(S) : Len(t) = 0 => t = <<>>
    OBVIOUS
  <1> QED
    BY <1>1, <1>2

\* Forward.
LEMMA ForwardMarch ==
    ASSUME Home, Home', March, Forward PROVE March'
  <1>1. /\ \A r \in Ranks : Waiting(r)
        /\ order' = [r \in Ranks |-> order[r] \o Head(micro[r])]
        /\ micro' = [r \in Ranks |-> Tail(micro[r])]
        /\ UNCHANGED <<batch, attached, pass, chunks, want, failed>>
    BY DEF Forward
  <1>2. Shapes /\ \A r \in Ranks : Rank(r) /\ Sized(r)
    BY DEF Home, Rank, March
  <1>3. ASSUME NEW r \in Ranks
        PROVE  /\ Len(chunks[r]) \in Nat \ {0} /\ chunks[r] # <<>>
               /\ micro[r] # <<>> /\ pass[r] \notin {"returned", "updated"}
               /\ Len(Head(chunks[r])) \in Nat \ {0}
               /\ micro[r] \in Seq(Seq(1 .. Len(Head(chunks[r]))))
               /\ order[r] \in Seq(1 .. Len(Head(chunks[r])))
               /\ Underway(order[r], micro[r], Len(Head(chunks[r])))
    <2>1. chunks[r] # <<>> /\ micro[r] # <<>> /\ pass[r] \notin {"returned", "updated"}
      BY <1>1 DEF Waiting, InPass
    <2>2. PICK V : chunks[r] \in Seq(V)
      BY Standing
    <2>3. Len(chunks[r]) \in Nat \ {0} /\ Len(Head(chunks[r])) \in Nat \ {0}
      BY <1>2, <2>1, <2>2, LaterSizes DEF Sized
    <2> QED
      BY <2>1, <2>3, Standing
  <1>4. ASSUME NEW r \in Ranks
        PROVE  /\ Distinct(order'[r]) /\ \A j \in 1 .. Len(micro'[r]) : Distinct(micro'[r][j])
               /\ Len(micro[r]) \in Nat \ {0} /\ Len(micro'[r]) = Len(micro[r]) - 1
               /\ Len(micro[r]) = 1 => micro'[r] = <<>>
               /\ micro'[r] = <<>> => raw'[r] # <<>>
    <2> DEFINE n == Len(Head(chunks[r]))
               lists == micro[r]
               done == order[r]
    <2>1. /\ n \in Nat \ {0} /\ lists \in Seq(Seq(1 .. n)) /\ done \in Seq(1 .. n)
          /\ Underway(done, lists, n) /\ lists # <<>>
      BY <1>3
    <2>2. /\ Distinct(done) /\ \A j \in 1 .. Len(lists) : Distinct(lists[j])
      BY <1>2 DEF Sized
    <2>3. order'[r] = done \o Head(lists) /\ micro'[r] = Tail(lists)
      BY <1>1
    <2> HIDE DEF n, lists, done
    <2>4. /\ Underway(done \o Head(lists), Tail(lists), n) /\ Head(lists) \in Seq(1 .. n)
          /\ \A i \in 1 .. n : ~(Holds(done, i) /\ Holds(Head(lists), i))
      BY <2>1, MicroRuns
    <2>5. /\ Len(lists) \in Nat \ {0} /\ Head(lists) = lists[1] /\ Len(Tail(lists)) = Len(lists) - 1
          /\ \A j \in 1 .. Len(Tail(lists)) : Tail(lists)[j] = lists[j + 1] /\ j + 1 \in 1 .. Len(lists)
      BY <2>1
    <2>9. Len(lists) = 1 => Tail(lists) = <<>>
      BY <2>1, TheLast
    <2>6. Distinct(Head(lists)) /\ \A j \in 1 .. Len(Tail(lists)) : Distinct(Tail(lists)[j])
      BY <2>2, <2>5
    <2>7. Distinct(done \o Head(lists))
      BY <2>1, <2>2, <2>4, <2>6, JoinedDistinct
    <2>8. ASSUME micro'[r] = <<>> PROVE raw'[r] # <<>>
      <3>1. order'[r] # <<>>
        BY <2>1, <2>3, <2>4, <2>8, NotNone
      <3>2. chunks'[r] # <<>>
        BY <1>1, <1>3
      <3>3. ScoredAsRun'
        BY RunIsScored, PTL
      <3> QED
        BY <3>1, <3>2, <3>3 DEF ScoredAsRun
    <2> QED
      BY <2>3, <2>5, <2>6, <2>7, <2>8, <2>9 DEF lists
  <1>5. /\ \A r \in Ranks : Load(r)' = Load(r)
        /\ EvenLoads' <=> EvenLoads
    BY <1>1, SameLoads
  <1>6. \A r \in Ranks : Sized(r)'
    BY <1>1, <1>2, <1>4, <1>5 DEF Sized
  <1> DEFINE Then(p, n, k, m) == IF m > 1 THEN Forwards(p, k, m - 1)
                                 ELSE IF p = "update" THEN Steps(k) ELSE Onward(p, n, k - 1)
  <1>7. ASSUME NEW r \in Ranks
        PROVE  /\ NextCall(r) = Forwards(pass[r], Len(chunks[r]), Len(micro[r]))
               /\ NextCall(r)' = Then(pass[r], Load(r), Len(chunks[r]), Len(micro[r]))
    <2>1. NextCall(r) = Forwards(pass[r], Len(chunks[r]), Len(micro[r]))
      BY <1>3 DEF NextCall
    <2>2. CASE Len(micro[r]) > 1
      <3>1. micro'[r] # <<>>
        BY <1>4, <2>2
      <3> QED
        BY <1>1, <1>3, <1>4, <2>1, <2>2, <3>1 DEF NextCall
    <2>3. CASE ~(Len(micro[r]) > 1)
      <3>1. Len(micro[r]) = 1
        <4>1. Len(micro[r]) \in Nat \ {0}
          BY <1>4
        <4>2. \A m \in Nat \ {0} : ~(m > 1) => m = 1
          OBVIOUS
        <4> QED
          BY <2>3, <4>1, <4>2
      <3>2. micro'[r] = <<>>
        BY <1>4, <3>1
      <3>3. raw'[r] # <<>>
        BY <1>4, <3>2
      <3> QED
        BY <1>1, <1>3, <1>5, <2>1, <2>3, <3>2, <3>3 DEF NextCall
    <2> QED
      BY <2>2, <2>3
  <1> HIDE DEF Then
  <1>8. ASSUME ~failed', EvenLoads' PROVE Abreast'
    <2>1. /\ \A r, q \in Ranks : NextCall(r) = NextCall(q)
          /\ \A r, q \in Ranks : Load(r) = Load(q)
          /\ \A r \in Ranks : want[r] # 0 => want[r] <= Len(Head(chunks[r]))
      BY <1>1, <1>2, <1>5, <1>8, EvenlyLoaded DEF March, Abreast
    <2>2. \A r, q \in Ranks : /\ pass[r] = pass[q] /\ Len(chunks[r]) = Len(chunks[q])
                              /\ Len(micro[r]) = Len(micro[q])
      BY <1>7, <2>1, SameCalls
    <2>3. \A r, q \in Ranks : NextCall(r)' = NextCall(q)'
      BY <1>7, <2>1, <2>2
    <2> QED
      BY <1>1, <2>1, <2>3 DEF Abreast
  <1> QED
    BY <1>1, <1>6, <1>8 DEF March

\* OptimizerStep.
LEMMA OptimizerStepMarch ==
    ASSUME Home, March, OptimizerStep PROVE March'
  <1>1. /\ \A r \in Ranks : ChunkRun(r) /\ pass[r] = "update"
        /\ chunks' = [r \in Ranks |-> Tail(chunks[r])] /\ want' = [r \in Ranks |-> 0]
        /\ order' = [r \in Ranks |-> <<>>] /\ raw' = [r \in Ranks |-> <<>>]
        /\ UNCHANGED <<batch, attached, pass, micro, failed>>
    BY DEF OptimizerStep
  <1>2. Shapes /\ \A r \in Ranks : Sized(r)
    BY DEF Home, March
  <1>3. ASSUME NEW r \in Ranks
        PROVE  /\ Len(chunks[r]) \in Nat \ {0} /\ micro[r] = <<>> /\ raw[r] # <<>>
               /\ Len(chunks'[r]) = Len(chunks[r]) - 1 /\ Fit(chunks'[r], "update", Load(r))
    <2>1. chunks[r] # <<>> /\ micro[r] = <<>> /\ Len(raw[r]) = Len(Head(chunks[r]))
      BY <1>1 DEF ChunkRun
    <2>2. PICK V : chunks[r] \in Seq(V)
      BY Standing
    <2>3. Fit(chunks[r], "update", Load(r))
      BY <1>1, <1>2 DEF Sized
    <2>4. /\ Len(chunks[r]) \in Nat \ {0} /\ Len(Head(chunks[r])) \in Nat \ {0}
          /\ Len(Tail(chunks[r])) = Len(chunks[r]) - 1 /\ Fit(Tail(chunks[r]), "update", Load(r))
      BY <2>1, <2>2, <2>3, LaterSizes
    <2>5. raw[r] # <<>>
      BY <2>1, <2>4
    <2> QED
      BY <1>1, <2>1, <2>4, <2>5
  <1>4. /\ \A r \in Ranks : Load(r)' = Load(r)
        /\ EvenLoads' <=> EvenLoads
    BY <1>1, SameLoads
  <1>5. ASSUME NEW r \in Ranks PROVE Sized(r)'
    <2>1. /\ want'[r] = 0 /\ order'[r] = <<>> /\ micro'[r] = <<>> /\ Load(r)' = Load(r)
          /\ pass'[r] = "update"
      BY <1>1, <1>3, <1>4
    <2> QED
      BY <1>3, <2>1, NoneTwice DEF Sized
  <1>6. ASSUME NEW r \in Ranks
        PROVE  /\ NextCall(r) = Steps(Len(chunks[r]))
               /\ NextCall(r)' = Onward("update", Load(r), Len(chunks[r]) - 1)
    <2>1. NextCall(r) = Steps(Len(chunks[r]))
      BY <1>1, <1>3 DEF NextCall
    <2>2. /\ want'[r] = 0 /\ raw'[r] = <<>> /\ micro'[r] = <<>> /\ Load(r)' = Load(r)
          /\ pass'[r] = "update" /\ Len(chunks'[r]) = Len(chunks[r]) - 1
      BY <1>1, <1>3, <1>4
    <2> DEFINE k == Len(chunks[r])
    <2>3. k \in Nat \ {0}
      BY <1>3
    <2>4. Len(chunks'[r]) = k - 1
      BY <2>2
    <2> HIDE DEF k
    <2>5. NextCall(r)' = Onward("update", Load(r), k - 1)
      <3>1. CASE k - 1 = 0
        BY <2>2, <2>4, <3>1 DEF NextCall
      <3>2. CASE k - 1 # 0
        <4>1. Onward("update", Load(r), k - 1) = Fresh("update", Load(r), k - 1)
          BY <2>3, <3>2 DEF Onward
        <4> QED
          BY <2>2, <2>4, <3>2, <4>1 DEF NextCall
      <3> QED
        BY <3>1, <3>2
    <2> QED
      BY <2>1, <2>5 DEF k
  <1>7. ASSUME ~failed', EvenLoads' PROVE Abreast'
    <2>1. /\ \A r, q \in Ranks : NextCall(r) = NextCall(q)
          /\ \A r, q \in Ranks : Load(r) = Load(q)
      BY <1>1, <1>2, <1>4, <1>7, EvenlyLoaded DEF March, Abreast
    <2>2. \A r, q \in Ranks : Len(chunks[r]) = Len(chunks[q])
      BY <1>6, <2>1, SameCalls
    <2>3. \A r, q \in Ranks : NextCall(r)' = NextCall(q)'
      BY <1>6, <2>1, <2>2
    <2> QED
      BY <1>1, <2>3 DEF Abreast
  <1> QED
    BY <1>1, <1>5, <1>7 DEF March

\* DispatchUpdate.
LEMMA DispatchUpdateMarch ==
    ASSUME Home, March, DispatchUpdate PROVE March'
  <1>1. /\ \A r \in Ranks : pass[r] = "returned"
        /\ pass' = [r \in Ranks |-> "update"]
        /\ chunks' = [r \in Ranks |-> Split([b \in Rows |-> Joined[SampleOf(r, b)]], MiniSize)]
        /\ UNCHANGED <<batch, attached, want, micro, order, raw, failed>>
    BY DEF DispatchUpdate
  <1>2. Shapes /\ DOMAIN want = Ranks /\ \A r \in Ranks : Sized(r)
    BY DEF Home, March
  <1>3. \A r \in Ranks : micro[r] = <<>> /\ order[r] = <<>> /\ raw[r] = <<>> /\ want[r] = 0
    BY <1>1, <1>2, Standing DEF Sized
  <1>4. ASSUME NEW r \in Ranks
        PROVE  /\ Fit(chunks'[r], "update", Load(r))
               /\ Len(chunks'[r]) = Cuts("update", Load(r)) /\ Len(chunks'[r]) \in Nat \ {0}
    <2> DEFINE rows == [b \in Rows |-> Joined[SampleOf(r, b)]]
    <2>1. /\ Lot("update", Load(r)) = RowsPerRank /\ Size("update", Load(r)) = MiniSize
          /\ RowsPerRank \in Nat \ {0} /\ MiniSize \in Nat \ {0} /\ Rows = 1 .. RowsPerRank
      BY Shards, SizesAssumption DEF Lot, Size
    <2>2. rows = [i \in 1 .. RowsPerRank |-> rows[i]] /\ chunks'[r] = Split(rows, MiniSize)
      BY <1>1, <2>1
    <2> HIDE DEF rows
    <2>3. rows \in Seq(Entries(rows)) /\ Len(rows) = RowsPerRank
      BY <2>1, <2>2, Listing
    <2>4. /\ Fit(Split(rows, Size("update", Load(r))), "update", Load(r))
          /\ Len(Split(rows, Size("update", Load(r)))) = Cuts("update", Load(r))
          /\ Cuts("update", Load(r)) \in Nat \ {0}
      BY <2>1, <2>3, CutSizes
    <2> QED
      BY <2>1, <2>2, <2>4
  <1>5. /\ \A r \in Ranks : Load(r)' = Load(r)
        /\ EvenLoads' <=> EvenLoads
    BY <1>1, SameLoads
  <1>6. \A r \in Ranks : Sized(r)'
    BY <1>1, <1>3, <1>4, <1>5, NoneTwice DEF Sized
  <1>7. ASSUME NEW r \in Ranks
        PROVE  NextCall(r)' = Fresh("update", Load(r), Cuts("update", Load(r)))
    BY <1>1, <1>3, <1>4, <1>5 DEF NextCall
  <1>8. ASSUME ~failed', EvenLoads' PROVE Abreast'
    <2>1. \A r, q \in Ranks : Load(r) = Load(q)
      BY <1>2, <1>5, <1>8, EvenlyLoaded
    <2>2. \A r, q \in Ranks : NextCall(r)' = NextCall(q)'
      BY <1>7, <2>1
    <2> QED
      BY <1>1, <1>3, <2>2 DEF Abreast
  <1> QED
    BY <1>1, <1>2, <1>6, <1>8 DEF March

\* Init, and the state after NextBatch.
NoneAgreed == DOMAIN want = Ranks /\ \A r \in Ranks : want[r] = 0

\* A batch starts with every rank at its first student forward.
LEMMA StartedMarch == Started /\ NoneAgreed => March
  <1> SUFFICES ASSUME Started, NoneAgreed PROVE March
    OBVIOUS
  <1>0. DOMAIN want = Ranks /\ \A r \in Ranks : want[r] = 0
    BY DEF NoneAgreed
  <1>1. Shapes
    BY StartedHome DEF Home
  <1>2. ASSUME NEW r \in Ranks
        PROVE  /\ pass[r] = "student" /\ chunks[r] = ChunksOf("student", r, NoScores)
               /\ micro[r] = <<>> /\ order[r] = <<>> /\ raw[r] = <<>>
    BY DEF Started
  <1>3. ASSUME NEW r \in Ranks
        PROVE  Fit(chunks[r], "student", Load(r)) /\ Len(chunks[r]) = 1
    <2>1. "student" \in Scoring /\ "student" # "expert"
      BY DEF Scoring, Clean
    <2>2. /\ Fit(ChunksOf("student", r, NoScores), "student", Load(r))
          /\ Len(ChunksOf("student", r, NoScores)) = Cuts("student", Load(r))
          /\ Cuts("student", Load(r)) = 1
      BY <2>1, PassSizes
    <2> QED
      BY <1>2, <2>2
  <1>4. \A r \in Ranks : Sized(r)
    BY <1>0, <1>2, <1>3, NoneTwice DEF Sized
  <1>5. ASSUME NEW r \in Ranks PROVE NextCall(r) = Fresh("student", Load(r), 1)
    <2>1. /\ pass[r] = "student" /\ Len(chunks[r]) = 1 /\ want[r] = 0
          /\ micro[r] = <<>> /\ raw[r] = <<>>
      BY <1>0, <1>2, <1>3
    <2> QED
      BY <2>1 DEF NextCall
  <1>6. ASSUME EvenLoads PROVE Abreast
    <2>1. \A r, q \in Ranks : Load(r) = Load(q)
      BY <1>1, <1>6, EvenlyLoaded
    <2>2. \A r, q \in Ranks : NextCall(r) = NextCall(q)
      BY <1>5, <2>1
    <2> QED
      BY <1>0, <2>2 DEF Abreast
  <1> QED
    BY <1>0, <1>4, <1>6 DEF March

\* NextBatch.
LEMMA NextBatchMarch ==
    ASSUME Home, March, NextBatch PROVE March'
  <1>1. Shapes /\ DOMAIN want = Ranks /\ \A q \in Ranks : Sized(q) /\ pass[q] = "updated"
    BY DEF Home, March, NextBatch
  <1>2. \A r \in Ranks : chunks[r] = <<>> /\ micro[r] = <<>> /\ order[r] = <<>> /\ raw[r] = <<>>
    BY <1>1, Standing
  <1>3. \A r \in Ranks : out[r] = <<>>
    BY <1>1 DEF Home, ScoresOut, Scoring, Clean
  <1>4. \A r \in Ranks : want[r] = 0
    BY <1>1, <1>2 DEF Sized
  <1>5. /\ \E b \in Layouts : batch' = b /\ attached' = Attach(Pack(b))
        /\ pass' = [r \in Ranks |-> "student"]
        /\ chunks' = [r \in Ranks |-> ChunksOf("student", r, NoScores)']
        /\ scores' = [r \in Ranks |-> NoScores]
        /\ board' = Blank /\ learned' = [s \in Samples |-> <<>>]
        /\ UNCHANGED <<want, micro, order, raw, out>>
    BY DEF NextBatch
  <1>6. batch' \in Layouts /\ attached' = Attach(Pack(batch'))
    BY <1>5
  <1>7. Started'
    BY <1>1, <1>2, <1>3, <1>5, <1>6 DEF Started, Shapes
  <1>8. NoneAgreed'
    BY <1>1, <1>4, <1>5 DEF NoneAgreed
  <1> QED
    BY <1>7, <1>8, StartedMarch, PTL

\* Every step keeps the ranks abreast.
LEMMA MarchKept ==
    ASSUME Home, Home', March, [Next]_vars PROVE March'
  <1>1. CASE \E r \in Ranks : SplitStatic(r) \/ SplitDynamic(r)
    BY <1>1, SplitMarch
  <1>2. CASE \E r \in Ranks : EndChunk(r)
    BY <1>2, EndChunkMarch
  <1>3. CASE \E r \in Ranks : EndPass(r)
    BY <1>3, EndPassMarch
  <1>4. CASE \E r \in Ranks : EndUpdate(r)
    BY <1>4, EndUpdateMarch
  <1>5. CASE AgreeOnCount
    BY <1>5, AgreeMarch
  <1>6. CASE Forward
    BY <1>6, ForwardMarch
  <1>7. CASE OptimizerStep
    BY <1>7, OptimizerStepMarch
  <1>8. CASE DispatchUpdate
    BY <1>8, DispatchUpdateMarch
  <1>9. CASE NextBatch
    BY <1>9, NextBatchMarch
  <1>10. ASSUME UNCHANGED <<batch, attached, pass, chunks, want, micro, order, raw>>,
                failed => failed'
         PROVE  March'
    <2>1. (EvenLoads' <=> EvenLoads) /\ \A r : Load(r)' = Load(r)
      BY <1>10, SameLoads
    <2>2. \A r \in Ranks : Sized(r)'
      BY <1>10, <2>1 DEF March, Sized
    <2>3. \A r \in Ranks : NextCall(r)' = NextCall(r)
      BY <1>10, <2>1 DEF NextCall
    <2>4. Abreast => Abreast'
      BY <1>10, <2>3 DEF Abreast
    <2> QED
      BY <1>10, <2>1, <2>2, <2>4 DEF March
  <1>11. CASE \/ \E r \in Ranks : \/ FailWidthAssert(r) \/ FailCountAssert(r)
                                  \/ FailNarrow(r) \/ FailTarget(r)
              \/ FailLoss
    BY <1>10, <1>11 DEF FailWidthAssert, FailCountAssert, FailNarrow, FailTarget, FailLoss, local
  <1>12. CASE UNCHANGED vars
    BY <1>10, <1>12 DEF vars, local
  <1> QED
    BY <1>1, <1>2, <1>3, <1>4, <1>5, <1>6, <1>7, <1>8, <1>9, <1>11, <1>12 DEF Next, Work

\* For any number of ranks, rows and experts, any token counts and any chunk and
\* micro-batch sizes: on even loads some rank can go on or all are at one collective or end
\* of a call, no rank has agreed on more micro-batches than it has rows, and none waits in a
\* forward for a rank that has returned (prepare_mpopd_log_probs, update_actor_mpopd).
THEOREM EvenRanksMeetAlways == Spec => []EvenRanksMeet
  <1>1. Init => March
    <2> SUFFICES ASSUME Init PROVE March
      OBVIOUS
    <2>1. Started /\ NoneAgreed
      BY DEF Init, Started, NoneAgreed
    <2> QED
      BY <2>1, StartedMarch
  <1>2. Home /\ Home' /\ March /\ [Next]_vars => March'
    BY MarchKept
  <1>3. Home /\ March => EvenRanksMeet
    BY MarchMeets
  <1> QED
    BY <1>1, <1>2, <1>3, AlwaysHome, PTL DEF Spec

=============================================================================
