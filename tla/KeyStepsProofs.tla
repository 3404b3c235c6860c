--------------------------- MODULE KeyStepsProofs ---------------------------
(***************************************************************************)
(* The properties of KeySteps for every worksheet, of any length and over  *)
(* any rows.  The steps and the applications of a master are sorted   *)
(* listings: that there is one, and that it misses no row, is a matter of  *)
(* counting, in the first part.  The invariant then says of each variable  *)
(* which listing it is, and the properties compare the listings.           *)
(***************************************************************************)
EXTENDS KeySteps, FiniteSetTheorems, TLAPS

(* Every set of natural numbers has a least element.                       *)
LEMMA LeastElement ==
    ASSUME NEW T, T \subseteq Nat, T # {}
    PROVE  \E n \in T : \A m \in T : n <= m
<1> DEFINE R == OpToRel(<, Nat)
<1>1. IsWellFoundedOn(R, Nat)
  BY NatLessThanWellFounded
<1> HIDE DEF R
<1>2. PICK n \in T : \A m \in T : <<m, n>> \notin R
  BY <1>1, WFMin
<1>3. \A m \in T : ~ (m < n)
  BY <1>2 DEF R, OpToRel
<1>4. QED
  BY <1>2, <1>3
-----------------------------------------------------------------------------
(* R[i] are those after i: R puts the members of S one after another.      *)
Orders(R, S) ==
    /\ \A i \in S : i \notin R[i]
    /\ \A i, j \in S : i # j => j \in R[i] \/ i \in R[j]
    /\ \A i, j, k \in S : j \in R[i] /\ k \in R[j] => k \in R[i]

Sorted(order, S, R) ==
    /\ order \in [1..Cardinality(S) -> S]
    /\ \A k, l \in 1..Cardinality(S) : k < l => order[l] \in R[order[k]]

(* A sorted listing of a finite set exists: every member stands at its     *)
(* rank, the number of those that do not come after it.                    *)
LEMMA SortedExists ==
    ASSUME NEW S, IsFiniteSet(S), NEW R, Orders(R, S)
    PROVE  \E order : Sorted(order, S, R)
<1> DEFINE n == Cardinality(S)
           upTo(i) == {j \in S : j = i \/ i \in R[j]}
           rank(i) == Cardinality(upTo(i))
           Rank == [i \in S |-> rank(i)]
<1>1. n \in Nat
  BY FS_CardinalityType
<1>2. ASSUME NEW i \in S
      PROVE  IsFiniteSet(upTo(i)) /\ rank(i) \in 1..n
  <2>1. IsFiniteSet(upTo(i)) /\ rank(i) <= n
    BY FS_Subset
  <2>2. rank(i) \in Nat
    BY <2>1, FS_CardinalityType
  <2>3. rank(i) # 0
    BY <2>1, FS_EmptySet
  <2> HIDE DEF rank
  <2>4. QED
    BY <1>1, <2>1, <2>2, <2>3
<1>3. ASSUME NEW i \in S, NEW j \in S, j \in R[i]
      PROVE  rank(i) < rank(j)
  <2>1. upTo(i) \subseteq upTo(j) /\ upTo(i) # upTo(j)
    <3>1. j \in upTo(j) /\ j \notin upTo(i)
      BY <1>3 DEF Orders
    <3>2. upTo(i) \subseteq upTo(j)
      BY <1>3 DEF Orders
    <3>3. QED
      BY <3>1, <3>2
  <2>2. IsFiniteSet(upTo(j)) /\ rank(i) \in Nat /\ rank(j) \in Nat
    BY <1>2
  <2> HIDE DEF upTo
  <2>3. rank(i) <= rank(j) /\ rank(i) # rank(j)
    BY <2>1, <2>2, FS_Subset
  <2>4. QED
    BY <2>2, <2>3
<1>4. \A i \in S : rank(i) \in 1..n
  BY <1>2
<1> HIDE DEF rank, n
<1>5. ASSUME NEW i \in S, NEW j \in S, i # j
      PROVE  rank(i) # rank(j)
  <2>1. j \in R[i] \/ i \in R[j]
    BY <1>5 DEF Orders
  <2>2. rank(i) < rank(j) \/ rank(j) < rank(i)
    BY <1>3, <2>1
  <2>3. QED
    BY <1>4, <2>2
<1>6. Rank \in Injection(S, 1..n)
  BY <1>4, <1>5 DEF Injection, IsInjective
<1>7. \A k \in 1..n : \E i \in S : rank(i) = k
  <2>1. IsFiniteSet(1..n) /\ Cardinality(1..n) = n
    BY <1>1, FS_Interval
  <2>2. Rank \in Surjection(S, 1..n)
    BY <1>6, <2>1, FS_Injection DEF n
  <2>3. QED
    BY <2>2 DEF Surjection
<1> DEFINE order == [k \in 1..n |-> CHOOSE i \in S : rank(i) = k]
<1>8. \A k \in 1..n : order[k] \in S /\ rank(order[k]) = k
  BY <1>7
<1> HIDE DEF order
<1>9. \A k, l \in 1..n : k < l => order[l] \in R[order[k]]
  <2> SUFFICES ASSUME NEW k \in 1..n, NEW l \in 1..n, k < l
               PROVE  order[l] \in R[order[k]]
    OBVIOUS
  <2>1. order[k] # order[l] /\ ~ (order[k] \in R[order[l]])
    <3>1. order[k] \in S /\ order[l] \in S /\ rank(order[k]) = k /\ rank(order[l]) = l
      BY <1>8
    <3>2. order[k] \in R[order[l]] => rank(order[l]) < rank(order[k])
      BY <1>3, <3>1
    <3>3. QED
      BY <1>1, <3>1, <3>2
  <2>2. QED
    BY <1>8, <2>1 DEF Orders
<1>10. order \in [1..n -> S]
  BY <1>8 DEF order
<1>11. QED
  BY <1>9, <1>10 DEF Sorted, n

(* A sorted listing has every member, at one place.                        *)
LEMMA SortedListsAll ==
    ASSUME NEW S, IsFiniteSet(S), NEW R, Orders(R, S),
           NEW order, Sorted(order, S, R)
    PROVE  /\ \A i \in S : \E k \in 1..Cardinality(S) : order[k] = i
           /\ \A k, l \in 1..Cardinality(S) : order[k] = order[l] => k = l
<1> DEFINE n == Cardinality(S)
<1>1. n \in Nat /\ IsFiniteSet(1..n) /\ Cardinality(1..n) = n
  BY FS_CardinalityType, FS_Interval
<1>2. ASSUME NEW k \in 1..n, NEW l \in 1..n, k # l
      PROVE  order[k] # order[l]
  <2>1. k < l \/ l < k
    BY <1>1, <1>2
  <2>2. order[l] \in R[order[k]] \/ order[k] \in R[order[l]]
    BY <2>1 DEF Sorted
  <2>3. order[k] \in S
    BY DEF Sorted
  <2>4. QED
    BY <2>2, <2>3 DEF Orders
<1>3. order \in Injection(1..n, S)
  BY <1>2 DEF Sorted, Injection, IsInjective
<1>4. order \in Surjection(1..n, S)
  BY <1>1, <1>3, FS_Injection
<1>5. QED
  BY <1>2, <1>4 DEF Surjection
-----------------------------------------------------------------------------
(* The cells of a row, and what the comparisons of the code make of them.  *)
LEMMA RowCells ==
    ASSUME sheet \in Seq(RowValues), NEW i \in DOMAIN sheet
    PROVE  /\ i \in Nat \ {0}
           /\ sheet[i] \in RowValues
           /\ \A cell \in {sheet[i].sequence, sheet[i].batch, sheet[i].application} :
                 IsNumber(cell) => cell[2] \in Int
<1>1. i \in Nat \ {0} /\ sheet[i] \in RowValues
  OBVIOUS
<1>2. {sheet[i].sequence, sheet[i].batch, sheet[i].application} \subseteq Cells
  BY <1>1, RowsAssumption
<1>3. \A cell \in Cells : IsNumber(cell) => cell[2] \in Int
  BY DEF Cells, IsNumber
<1>4. QED
  BY <1>1, <1>2, <1>3

LEMMA RowsAreFinite ==
    ASSUME sheet \in Seq(RowValues), NEW S, S \subseteq DOMAIN sheet
    PROVE  IsFiniteSet(S)
<1>1. IsFiniteSet(1..Len(sheet)) /\ DOMAIN sheet = 1..Len(sheet)
  BY FS_Interval
<1>2. QED
  BY <1>1, FS_Subset

(* The rows after each row, for each comparison.                           *)
PandasOrder == [i \in DOMAIN sheet |-> {j \in DOMAIN sheet : PandasPrecedes(i, j)}]
DecimalOrder == [i \in DOMAIN sheet |-> {j \in DOMAIN sheet : Precedes(i, j)}]
AllNumbers(S) == \A i \in S : IsNumber(sheet[i].sequence)

(* pandas orders all rows, numbers or not.                                 *)
LEMMA PandasOrders ==
    ASSUME sheet \in Seq(RowValues), NEW S, S \subseteq DOMAIN sheet
    PROVE  Orders(PandasOrder, S)
<1> DEFINE number(i) == IsNumber(sheet[i].sequence)
           value(i) == sheet[i].sequence[2]
<1>1. \A i \in S : i \in Nat /\ (number(i) => value(i) \in Int)
  BY RowCells
<1>2. \A i, j \in S : j \in PandasOrder[i] <=>
          \/ number(i) /\ ~ number(j)
          \/ number(i) /\ number(j) /\ (value(i) < value(j) \/ (value(i) = value(j) /\ i < j))
          \/ ~ number(i) /\ ~ number(j) /\ i < j
  BY DEF PandasOrder, PandasPrecedes, IsNumber
<1> HIDE DEF number, value
<1>3. QED
  BY <1>1, <1>2 DEF Orders

(* Decimal orders the rows whose Sequences are numbers, as pandas does.    *)
LEMMA DecimalOrders ==
    ASSUME sheet \in Seq(RowValues), NEW S, S \subseteq DOMAIN sheet, AllNumbers(S)
    PROVE  /\ Orders(DecimalOrder, S)
           /\ \A i, j \in S : Precedes(i, j) <=> PandasPrecedes(i, j)
<1> DEFINE value(i) == sheet[i].sequence[2]
<1>1. \A i \in S : i \in Nat /\ value(i) \in Int
  BY RowCells DEF AllNumbers
<1>2. \A i, j \in S : /\ j \in DecimalOrder[i] <=> Precedes(i, j)
                      /\ Precedes(i, j) <=>
                            (value(i) < value(j) \/ (value(i) = value(j) /\ i < j))
  BY DEF DecimalOrder, Precedes
<1>3. \A i, j \in S : PandasPrecedes(i, j) <=>
                          (value(i) < value(j) \/ (value(i) = value(j) /\ i < j))
  BY DEF PandasPrecedes, AllNumbers, IsNumber
<1> HIDE DEF value
<1>4. QED
  BY <1>1, <1>2, <1>3 DEF Orders

(* What InOrder returns, for each of its uses.                             *)
Listing(order, S) ==
    /\ order \in [1..Cardinality(S) -> S]
    /\ \A i \in S : \E k \in 1..Cardinality(S) : order[k] = i

LEMMA PandasListing ==
    ASSUME sheet \in Seq(RowValues), NEW S, S \subseteq DOMAIN sheet,
           NEW order, order = InOrder(S, PandasPrecedes)
    PROVE  /\ Listing(order, S)
           /\ \A k, l \in 1..Cardinality(S) : k < l => PandasPrecedes(order[k], order[l])
<1>1. IsFiniteSet(S) /\ Orders(PandasOrder, S)
  BY RowsAreFinite, PandasOrders
<1>2. \E o \in [1..Cardinality(S) -> S] :
          \A k, l \in DOMAIN o : k < l => PandasPrecedes(o[k], o[l])
  <2>1. PICK o : Sorted(o, S, PandasOrder)
    BY <1>1, SortedExists
  <2>2. o \in [1..Cardinality(S) -> S]
    BY <2>1 DEF Sorted
  <2>3. ASSUME NEW k \in DOMAIN o, NEW l \in DOMAIN o, k < l
        PROVE  PandasPrecedes(o[k], o[l])
    <3>1. o[l] \in PandasOrder[o[k]] /\ o[k] \in DOMAIN sheet /\ o[l] \in DOMAIN sheet
      BY <2>1, <2>2, <2>3 DEF Sorted
    <3>2. QED
      BY <3>1 DEF PandasOrder
  <2>4. QED
    BY <2>2, <2>3
<1>3. /\ order \in [1..Cardinality(S) -> S]
      /\ \A k, l \in DOMAIN order : k < l => PandasPrecedes(order[k], order[l])
  BY <1>2 DEF InOrder
<1>4. Sorted(order, S, PandasOrder)
  BY <1>3 DEF Sorted, PandasOrder
<1>5. \A i \in S : \E k \in 1..Cardinality(S) : order[k] = i
  BY <1>1, <1>4, SortedListsAll
<1>6. QED
  BY <1>3, <1>5 DEF Listing

LEMMA DecimalListing ==
    ASSUME sheet \in Seq(RowValues), NEW S, S \subseteq DOMAIN sheet, AllNumbers(S),
           NEW order, order = InOrder(S, Precedes)
    PROVE  /\ Listing(order, S)
           /\ \A k, l \in 1..Cardinality(S) : k < l => Precedes(order[k], order[l])
<1>1. IsFiniteSet(S) /\ Orders(DecimalOrder, S)
  BY RowsAreFinite, DecimalOrders
<1>2. \E o \in [1..Cardinality(S) -> S] :
          \A k, l \in DOMAIN o : k < l => Precedes(o[k], o[l])
  <2>1. PICK o : Sorted(o, S, DecimalOrder)
    BY <1>1, SortedExists
  <2>2. o \in [1..Cardinality(S) -> S]
    BY <2>1 DEF Sorted
  <2>3. ASSUME NEW k \in DOMAIN o, NEW l \in DOMAIN o, k < l
        PROVE  Precedes(o[k], o[l])
    <3>1. o[l] \in DecimalOrder[o[k]] /\ o[k] \in DOMAIN sheet /\ o[l] \in DOMAIN sheet
      BY <2>1, <2>2, <2>3 DEF Sorted
    <3>2. QED
      BY <3>1 DEF DecimalOrder
  <2>4. QED
    BY <2>2, <2>3
<1>3. /\ order \in [1..Cardinality(S) -> S]
      /\ \A k, l \in DOMAIN order : k < l => Precedes(order[k], order[l])
  BY <1>2 DEF InOrder
<1>4. Sorted(order, S, DecimalOrder)
  BY <1>3 DEF Sorted, DecimalOrder
<1>5. \A i \in S : \E k \in 1..Cardinality(S) : order[k] = i
  BY <1>1, <1>4, SortedListsAll
<1>6. QED
  BY <1>3, <1>5 DEF Listing

(* Distinct keeps the first of each, and their order.                      *)
MarksFirsts(first, apps, n) ==
    /\ first \in [DOMAIN Distinct(apps) -> 1..n]
    /\ \A m \in DOMAIN first :
          /\ Distinct(apps)[m] = apps[first[m]]
          /\ \A l \in 1..(first[m] - 1) : apps[l] # apps[first[m]]
    /\ \A l, m \in DOMAIN first : l < m => first[l] < first[m]

LEMMA DistinctListing ==
    ASSUME NEW n \in Nat, NEW A, NEW apps \in [1..n -> A]
    PROVE  /\ Distinct(apps) \in Seq(A)
           /\ \A k \in 1..n : \E m \in DOMAIN Distinct(apps) : Distinct(apps)[m] = apps[k]
           /\ \E first : MarksFirsts(first, apps, n)
<1> DEFINE F == {k \in DOMAIN apps : \A l \in 1..(k - 1) : apps[l] # apps[k]}
           R == [k \in F |-> {l \in F : k < l}]
           firsts == InOrder(F, LAMBDA k, l : k < l)
           c == Cardinality(F)
<1>1. IsFiniteSet(F) /\ F \subseteq 1..n
  BY FS_Interval, FS_Subset
<1>2. Orders(R, F)
  BY <1>1 DEF Orders
<1>3. c \in Nat
  BY <1>1, FS_CardinalityType
<1>4. firsts \in [1..c -> F] /\ \A k, l \in DOMAIN firsts : k < l => firsts[k] < firsts[l]
  <2> HIDE DEF F
  <2>1. \E o \in [1..c -> F] : \A k, l \in DOMAIN o : k < l => o[k] < o[l]
    <3>1. PICK o : Sorted(o, F, R)
      BY <1>1, <1>2, SortedExists
    <3>2. QED
      BY <3>1 DEF Sorted
  <2>2. QED
    BY <2>1 DEF InOrder
<1>5. \A i \in F : \E m \in 1..c : firsts[m] = i
  <2> HIDE DEF F, firsts
  <2>1. Sorted(firsts, F, R)
    BY <1>4 DEF Sorted
  <2>2. QED
    BY <1>1, <1>2, <2>1, SortedListsAll
<1>6. Distinct(apps) = [m \in DOMAIN firsts |-> apps[firsts[m]]]
  BY DEF Distinct
<1> HIDE DEF firsts, c
<1>7. Distinct(apps) \in Seq(A)
  <2>1. \A m \in 1..c : apps[firsts[m]] \in A
    BY <1>1, <1>4
  <2>2. QED
    BY <1>3, <1>4, <1>6, <2>1
<1>8. ASSUME NEW k \in 1..n
      PROVE  \E m \in DOMAIN Distinct(apps) : Distinct(apps)[m] = apps[k]
  <2> DEFINE T == {l \in 1..n : apps[l] = apps[k]}
  <2>1. PICK l \in T : \A m \in T : l <= m
    <3>1. T \subseteq Nat /\ k \in T
      OBVIOUS
    <3>2. QED
      BY <3>1, LeastElement
  <2>2. l \in F
    BY <2>1
  <2>3. PICK m \in 1..c : firsts[m] = l
    BY <1>5, <2>2
  <2>4. QED
    BY <1>4, <1>6, <2>1, <2>3
<1>9. /\ firsts \in [DOMAIN Distinct(apps) -> 1..n]
      /\ \A m \in DOMAIN firsts : \A l \in 1..(firsts[m] - 1) : apps[l] # apps[firsts[m]]
  BY <1>1, <1>4, <1>6
<1>10. MarksFirsts(firsts, apps, n)
  BY <1>4, <1>6, <1>9 DEF MarksFirsts
<1>11. QED
  BY <1>7, <1>8, <1>10
-----------------------------------------------------------------------------
(* The inductive invariant.                                                *)
Proc == RowsOf("PROCESS_TRANSACTION")

(* The run has begun, and may have ended.                                  *)
Started == {"ready", "ended"}

SheetIsTyped ==
    /\ columns \in BOOLEAN
    /\ sheet \in Seq(RowValues) /\ Len(sheet) <= MaxRows
    /\ phase \in {"edit", "refused"} \cup Started

(* The sheet is not written any more when there is something to compare    *)
(* with it.                                                                *)
NothingBeforeReady ==
    phase \notin Started =>
        queued = <<"none", <<>>>> /\ called = NothingCalled /\ active = 0

ListsSteps(s) ==
    /\ s \in [1..Cardinality(Proc) -> [row : Proc, app : Nat \ {0}, limit : Nat]]
    /\ \A i \in Proc : \E k \in DOMAIN s : s[k].row = i
    /\ \A k \in DOMAIN s : s[k].app = AppOf(s[k].row)
    /\ \A k, l \in DOMAIN s : k < l => PandasPrecedes(s[k].row, s[l].row)

StepsAreListed ==
    \/ phase \notin Started /\ steps = <<>>
    \/ phase # "edit" /\ StepsAreValid /\ ListsSteps(steps)

(* The first row of its application, for the master.                       *)
IsFirst(i) ==
    i \in Proc /\ \A j \in Proc : AppOf(j) = AppOf(i) => j = i \/ Precedes(i, j)

ListsApps(apps) ==
    /\ apps \in Seq(Nat \ {0})
    /\ \A n \in DOMAIN apps : \E i \in Proc : apps[n] = AppOf(i)
    /\ \A i \in Proc : \E n \in DOMAIN apps : apps[n] = AppOf(i)
    /\ \A m, n \in DOMAIN apps : m < n =>
          \E i, j \in Proc : /\ IsFirst(i) /\ AppOf(i) = apps[m]
                             /\ IsFirst(j) /\ AppOf(j) = apps[n]
                             /\ Precedes(i, j)

QueuedAreListed ==
    \/ queued = <<"none", <<>>>>
    \/ queued = <<"raised", <<>>>> /\ phase \in Started /\ ~ AllNumbers(Proc)
    \/ /\ phase \in Started /\ queued[1] = "apps"
       /\ AllNumbers(Proc) /\ ListsApps(queued[2])

CalledAreRows ==
    /\ called.app \in Nat
    /\ {called.reset, called.login, called.process} \subseteq DOMAIN sheet \cup {None, Raised}

(* As long as the run goes on, the last session was the active step's.     *)
SessionIsActive ==
    /\ phase \in Started => active \in DOMAIN steps
    /\ phase = "ready" => called.app \in {None, steps[active].app}

KeyStepsInvariant ==
    /\ SheetIsTyped
    /\ NothingBeforeReady
    /\ StepsAreListed
    /\ QueuedAreListed
    /\ CalledAreRows
    /\ SessionIsActive
-----------------------------------------------------------------------------
(* What the parsers return, one lemma each.                                *)

LEMMA RowsAreInSheet ==
    ASSUME SheetIsTyped, NEW state
    PROVE  RowsOf(state) \subseteq DOMAIN sheet /\ IsFiniteSet(RowsOf(state))
<1>1. RowsOf(state) \subseteq DOMAIN sheet
  BY DEF RowsOf
<1>2. QED
  BY <1>1, RowsAreFinite DEF SheetIsTyped

(* What load_process_steps accepts: applications and limits are numbers.   *)
LEMMA ValidCells ==
    ASSUME SheetIsTyped, StepsAreValid, NEW i \in Proc
    PROVE  /\ AppOf(i) \in Nat \ {0}
           /\ sheet[i].application[2] = 2 * AppOf(i)
           /\ sheet[i].module
           /\ LimitOf(sheet[i].batch) \in Nat
<1>1. /\ IsApplication(sheet[i].application) /\ sheet[i].module
      /\ IsBatchCount(sheet[i].batch)
  BY DEF StepsAreValid, Proc
<1>2. i \in DOMAIN sheet
  BY RowsAreInSheet DEF Proc
<1>3. \A cell \in {sheet[i].batch, sheet[i].application} : IsNumber(cell) => cell[2] \in Int
  BY <1>2, RowCells DEF SheetIsTyped
<1>4. sheet[i].application[2] \in Int /\ sheet[i].application[2] > 0
      /\ sheet[i].application[2] % 2 = 0
  BY <1>1, <1>3 DEF IsApplication, IsInteger
<1>5. AppOf(i) \in Nat \ {0} /\ sheet[i].application[2] = 2 * AppOf(i)
  BY <1>4 DEF AppOf
<1>6. LimitOf(sheet[i].batch) \in Nat
  <2>1. CASE IsBlank(sheet[i].batch)
    BY <2>1 DEF LimitOf
  <2>2. CASE ~ IsBlank(sheet[i].batch)
    <3>1. sheet[i].batch[2] \in Int /\ sheet[i].batch[2] >= 0
      BY <1>1, <1>3, <2>2 DEF IsBatchCount, IsInteger
    <3>2. QED
      BY <2>2, <3>1 DEF LimitOf
  <2>3. QED
    BY <2>1, <2>2
<1>7. QED
  BY <1>1, <1>5, <1>6

(* load_process_steps lists every process row, sorted.                     *)
LEMMA ProcessStepsListed ==
    ASSUME SheetIsTyped, StepsAreValid
    PROVE  ListsSteps(ProcessSteps)
<1> DEFINE order == InOrder(Proc, PandasPrecedes)
           n == Cardinality(Proc)
<1>1. /\ Listing(order, Proc)
      /\ \A k, l \in 1..n : k < l => PandasPrecedes(order[k], order[l])
  BY RowsAreInSheet, PandasListing DEF SheetIsTyped, Proc
<1>2. ProcessSteps = [k \in DOMAIN order |-> [row |-> order[k], app |-> AppOf(order[k]),
                                              limit |-> LimitOf(sheet[order[k]].batch)]]
  BY DEF ProcessSteps, Proc
<1> HIDE DEF order
<1>3. order \in [1..n -> Proc] /\ \A i \in Proc : \E k \in 1..n : order[k] = i
  BY <1>1 DEF Listing
<1>4. \A k \in 1..n : AppOf(order[k]) \in Nat \ {0} /\ LimitOf(sheet[order[k]].batch) \in Nat
  BY <1>3, ValidCells
<1>5. /\ DOMAIN ProcessSteps = 1..n
      /\ \A k \in 1..n : ProcessSteps[k] = [row |-> order[k], app |-> AppOf(order[k]),
                                            limit |-> LimitOf(sheet[order[k]].batch)]
  BY <1>2, <1>3
<1>6. ProcessSteps \in [1..n -> [row : Proc, app : Nat \ {0}, limit : Nat]]
  BY <1>2, <1>3, <1>4
<1>7. /\ \A i \in Proc : \E k \in DOMAIN ProcessSteps : ProcessSteps[k].row = i
      /\ \A k \in DOMAIN ProcessSteps : ProcessSteps[k].app = AppOf(ProcessSteps[k].row)
      /\ \A k, l \in DOMAIN ProcessSteps :
            k < l => PandasPrecedes(ProcessSteps[k].row, ProcessSteps[l].row)
  BY <1>1, <1>3, <1>5
<1>8. QED
  BY <1>6, <1>7 DEF ListsSteps

(* _extract_distinct_process_applications lists every application at its   *)
(* first row.                                                              *)
LEMMA AppsListed ==
    ASSUME SheetIsTyped, StepsAreValid, AllNumbers(Proc),
           NEW order, order = InOrder(Proc, Precedes)
    PROVE  ListsApps(Distinct([k \in DOMAIN order |-> AppOf(order[k])]))
<1> DEFINE n == Cardinality(Proc)
           all == [k \in DOMAIN order |-> AppOf(order[k])]
           apps == Distinct(all)
           Ids == Nat \ {0}
<1>1. Proc \subseteq DOMAIN sheet /\ n \in Nat
  BY RowsAreInSheet, FS_CardinalityType DEF Proc
<1>2. /\ order \in [1..n -> Proc] /\ \A i \in Proc : \E k \in 1..n : order[k] = i
      /\ \A k, l \in 1..n : k < l => Precedes(order[k], order[l])
  <2>1. /\ Listing(order, Proc)
        /\ \A k, l \in 1..n : k < l => Precedes(order[k], order[l])
    BY <1>1, DecimalListing DEF SheetIsTyped
  <2>2. QED
    BY <2>1 DEF Listing
<1>3. /\ all \in [1..n -> Ids]
      /\ \A k \in 1..n : all[k] = AppOf(order[k])
  BY <1>2, ValidCells
<1> HIDE DEF all, n, Ids
<1>4. /\ apps \in Seq(Ids)
      /\ \A k \in 1..n : \E m \in DOMAIN apps : apps[m] = all[k]
  BY <1>1, <1>3, DistinctListing
<1>5. PICK first : MarksFirsts(first, all, n)
  BY <1>1, <1>3, DistinctListing
<1>6. /\ first \in [DOMAIN apps -> 1..n]
      /\ \A m \in DOMAIN apps :
            /\ apps[m] = all[first[m]]
            /\ \A l \in 1..(first[m] - 1) : all[l] # all[first[m]]
      /\ \A l, m \in DOMAIN apps : l < m => first[l] < first[m]
  BY <1>5 DEF MarksFirsts
<1> HIDE DEF apps
<1>7. ASSUME NEW m \in DOMAIN apps
      PROVE  /\ order[first[m]] \in Proc /\ AppOf(order[first[m]]) = apps[m]
             /\ IsFirst(order[first[m]])
  <2>1. first[m] \in 1..n /\ order[first[m]] \in Proc /\ AppOf(order[first[m]]) = apps[m]
    BY <1>2, <1>3, <1>6
  <2>2. ASSUME NEW j \in Proc, AppOf(j) = AppOf(order[first[m]])
        PROVE  j = order[first[m]] \/ Precedes(order[first[m]], j)
    <3>1. PICK k \in 1..n : order[k] = j
      BY <1>2
    <3>2. all[k] = all[first[m]]
      BY <1>3, <2>1, <2>2, <3>1
    <3>3. k \notin 1..(first[m] - 1)
      BY <1>6, <3>2
    <3>4. k = first[m] \/ first[m] < k
      BY <1>1, <2>1, <3>3
    <3>5. QED
      BY <1>2, <2>1, <3>1, <3>4
  <2>3. QED
    BY <2>1, <2>2 DEF IsFirst
<1>8. \A i \in Proc : \E m \in DOMAIN apps : apps[m] = AppOf(i)
  BY <1>2, <1>3, <1>4
<1>9. ASSUME NEW l \in DOMAIN apps, NEW m \in DOMAIN apps, l < m
      PROVE  Precedes(order[first[l]], order[first[m]])
  BY <1>2, <1>6, <1>9
<1>10. QED
  <2>1. \A m \in DOMAIN apps : \E i \in Proc : apps[m] = AppOf(i)
    BY <1>7
  <2>2. \A l, m \in DOMAIN apps : l < m =>
            \E i, j \in Proc : /\ IsFirst(i) /\ AppOf(i) = apps[l]
                               /\ IsFirst(j) /\ AppOf(j) = apps[m]
                               /\ Precedes(i, j)
    BY <1>7, <1>9
  <2>3. ListsApps(apps)
    BY <1>4, <1>8, <2>1, <2>2 DEF ListsApps, Ids
  <2>4. QED
    BY <2>3 DEF apps, all
-----------------------------------------------------------------------------
(* The first step of an application runs its earliest process row.         *)
FirstStep(app) == CHOOSE k \in DOMAIN steps :
                      steps[k].app = app /\ \A l \in 1..(k - 1) : steps[l].app # app

LEMMA FirstStepIsEarliest ==
    ASSUME ListsSteps(steps), SheetIsTyped, NEW i \in Proc,
           NEW first, first = FirstStep(AppOf(i))
    PROVE  /\ first \in DOMAIN steps
           /\ steps[first].row \in Proc
           /\ steps[first].app = AppOf(i)
           /\ AppOf(steps[first].row) = AppOf(i)
           /\ \A j \in Proc : AppOf(j) = AppOf(i) =>
                 j = steps[first].row \/ PandasPrecedes(steps[first].row, j)
<1> DEFINE n == Cardinality(Proc)
           app == AppOf(i)
           T == {k \in 1..n : steps[k].app = app}
<1>1. n \in Nat
  BY RowsAreInSheet, FS_CardinalityType DEF Proc
<1>2. /\ DOMAIN steps = 1..n
      /\ \A k \in 1..n : steps[k].row \in Proc /\ steps[k].app = AppOf(steps[k].row)
      /\ \A j \in Proc : \E k \in 1..n : steps[k].row = j
      /\ \A k, l \in 1..n : k < l => PandasPrecedes(steps[k].row, steps[l].row)
  BY DEF ListsSteps
<1> HIDE DEF app, n
<1>3. T \subseteq Nat /\ T # {}
  BY <1>2 DEF app
<1>4. PICK k \in T : \A l \in T : k <= l
  BY <1>3, LeastElement
<1>5. /\ k \in DOMAIN steps /\ steps[k].app = app
      /\ \A l \in 1..(k - 1) : steps[l].app # app
  BY <1>1, <1>2, <1>4
<1>6. /\ first \in DOMAIN steps /\ steps[first].app = app
      /\ \A l \in 1..(first - 1) : steps[l].app # app
  BY <1>5 DEF FirstStep, app
<1>7. ASSUME NEW j \in Proc, AppOf(j) = app
      PROVE  j = steps[first].row \/ PandasPrecedes(steps[first].row, j)
  <2>1. PICK l \in 1..n : steps[l].row = j
    BY <1>2
  <2>2. l \notin 1..(first - 1)
    BY <1>2, <1>6, <1>7, <2>1
  <2>3. l = first \/ first < l
    BY <1>1, <1>2, <1>6, <2>2
  <2>4. QED
    BY <1>2, <1>6, <2>1, <2>3
<1>8. QED
  BY <1>2, <1>6, <1>7 DEF app

(* A hook that is found, and the process module, are the application's own.*)
LEMMA HookIsOwn ==
    ASSUME SheetIsTyped, NEW state, NEW app \in Nat
    PROVE  LET i == Hook(state, app)
           IN  i \in {None, Raised} \/ (i \in DOMAIN sheet /\ OwnModule(i, app))
<1> DEFINE rows == HookRows(state, app)
           first == CHOOSE i \in rows : \A j \in rows : i = j \/ Precedes(i, j)
           hook == Hook(state, app)
<1>1. /\ rows \subseteq RowsOf(state) /\ RowsOf(state) \subseteq DOMAIN sheet
      /\ \A i \in rows : sheet[i].state = state /\ sheet[i].application[2] = 2 * app
  BY RowsAreInSheet DEF HookRows, RowsOf
<1>2. \/ hook \in {None, Raised}
      \/ rows # {} /\ AllNumbers(rows) /\ sheet[first].module /\ hook = first
  BY DEF Hook, AllNumbers
<1>3. ASSUME rows # {}, AllNumbers(rows), sheet[first].module, hook = first
      PROVE  hook \in DOMAIN sheet /\ OwnModule(hook, app)
  <2> DEFINE order == InOrder(rows, Precedes)
             n == Cardinality(rows)
  <2> HIDE DEF first, rows, hook
  <2>1. /\ Listing(order, rows)
        /\ \A k, l \in 1..n : k < l => Precedes(order[k], order[l])
    BY <1>1, <1>3, DecimalListing DEF SheetIsTyped
  <2>2. n \in Nat
    BY <1>1, RowsAreInSheet, FS_Subset, FS_CardinalityType
  <2> HIDE DEF order
  <2>3. /\ \A k \in 1..n : order[k] \in rows
        /\ \A i \in rows : \E k \in 1..n : order[k] = i
    BY <2>1 DEF Listing
  <2>4. 1 \in 1..n /\ order[1] \in rows
    BY <1>3, <2>2, <2>3
  <2>5. \A j \in rows : order[1] = j \/ Precedes(order[1], j)
    <3>1. ASSUME NEW k \in 1..n PROVE order[1] = order[k] \/ Precedes(order[1], order[k])
      <4>1. k = 1 \/ 1 < k
        BY <2>2
      <4>2. QED
        BY <2>1, <2>4, <4>1
    <3>2. QED
      BY <2>3, <3>1
  <2>6. first \in rows /\ \A j \in rows : first = j \/ Precedes(first, j)
    BY <2>4, <2>5 DEF first
  <2>7. /\ hook \in DOMAIN sheet /\ sheet[hook].state = state
        /\ sheet[hook].application[2] = 2 * app /\ sheet[hook].module
    BY <1>1, <1>3, <2>6
  <2>8. AppOf(hook) = app
    BY <2>7 DEF AppOf
  <2>9. ASSUME NEW j \in RowsOf(state), sheet[j].application = sheet[hook].application
        PROVE  /\ IsNumber(sheet[hook].sequence)
               /\ sheet[hook].sequence[2] <= sheet[j].sequence[2]
    <3>1. j \in rows
      BY <1>3, <2>6, <2>9 DEF rows, HookRows
    <3>2. \A i \in rows : IsNumber(sheet[i].sequence) /\ sheet[i].sequence[2] \in Int
      BY <1>1, <1>3, RowCells DEF AllNumbers, SheetIsTyped
    <3>3. QED
      BY <1>3, <2>6, <3>1, <3>2 DEF Precedes
  <2>10. QED
    BY <2>7, <2>8, <2>9 DEF OwnModule
<1>4. QED
  BY <1>2, <1>3

LEMMA ProcessStepIsOwn ==
    ASSUME SheetIsTyped, StepsAreValid, ListsSteps(steps), NEW k \in DOMAIN steps
    PROVE  LET i == ProcessStep(steps[k].app)
           IN  i \in DOMAIN sheet /\ OwnModule(i, steps[k].app)
<1> DEFINE app == steps[k].app
           row == ProcessStep(app)
<1>1. steps[k].row \in Proc /\ app = AppOf(steps[k].row)
  BY DEF ListsSteps
<1>2. row = steps[FirstStep(app)].row
  BY DEF ProcessStep, FirstStep
<1> HIDE DEF row
<1>3. /\ row \in Proc /\ AppOf(row) = app
      /\ \A j \in Proc : AppOf(j) = app => j = row \/ PandasPrecedes(row, j)
  BY <1>1, <1>2, FirstStepIsEarliest
<1>4. Proc \subseteq DOMAIN sheet /\ sheet[row].state = "PROCESS_TRANSACTION"
  BY <1>3, RowsAreInSheet DEF Proc, RowsOf
<1>5. ASSUME NEW j \in Proc, sheet[j].application = sheet[row].application,
             IsNumber(sheet[j].sequence)
      PROVE  /\ IsNumber(sheet[row].sequence)
             /\ sheet[row].sequence[2] <= sheet[j].sequence[2]
  <2>1. AppOf(j) = app
    BY <1>3, <1>5 DEF AppOf
  <2>2. sheet[j].sequence[2] \in Int
    BY <1>4, <1>5, RowCells DEF SheetIsTyped
  <2>3. CASE j = row
    BY <1>5, <2>2, <2>3
  <2>4. CASE PandasPrecedes(row, j)
    <3>1. IsNumber(sheet[row].sequence)
      BY <1>5, <2>4 DEF PandasPrecedes, IsNumber
    <3>2. sheet[row].sequence[2] \in Int
      BY <1>3, <1>4, <3>1, RowCells DEF SheetIsTyped
    <3>3. QED
      BY <1>5, <2>2, <2>4, <3>1, <3>2 DEF PandasPrecedes, IsNumber
  <2>5. QED
    BY <1>3, <2>1, <2>3, <2>4
<1>6. sheet[row].module
  BY <1>3, ValidCells
<1>7. QED
  BY <1>3, <1>4, <1>5, <1>6 DEF OwnModule, Proc, row
-----------------------------------------------------------------------------
(* Each action keeps the invariant.  First what a step leaves alone.       *)
LEMMA ValidStays ==
    ASSUME StepsAreValid, UNCHANGED <<columns, sheet>>
    PROVE  StepsAreValid'
BY DEF StepsAreValid, RowsOf

LEMMA ListStays ==
    ASSUME ListsSteps(steps), UNCHANGED <<sheet, steps>>
    PROVE  ListsSteps(steps)'
<1>1. Proc' = Proc /\ Cardinality(Proc)' = Cardinality(Proc)
  BY DEF Proc, RowsOf
<1>2. \A i, j : AppOf(i)' = AppOf(i) /\ (PandasPrecedes(i, j)' <=> PandasPrecedes(i, j))
  BY DEF AppOf, PandasPrecedes
<1>3. QED
  BY <1>1, <1>2 DEF ListsSteps

LEMMA StepsStay ==
    ASSUME StepsAreListed, UNCHANGED <<columns, sheet, phase, steps>>
    PROVE  StepsAreListed'
BY ValidStays, ListStays DEF StepsAreListed

LEMMA QueuedStay ==
    ASSUME QueuedAreListed, UNCHANGED <<sheet, phase, queued>>
    PROVE  QueuedAreListed'
BY DEF QueuedAreListed, ListsApps, IsFirst, AllNumbers, Proc, RowsOf, AppOf, Precedes

LEMMA CalledStay ==
    ASSUME CalledAreRows, UNCHANGED <<sheet, called>>
    PROVE  CalledAreRows'
BY DEF CalledAreRows

(* As long as no run or session was seen there is nothing to compare.      *)
LEMMA NothingIsFine ==
    ASSUME queued = <<"none", <<>>>>, called = NothingCalled
    PROVE  QueuedAreListed /\ CalledAreRows
BY DEF QueuedAreListed, CalledAreRows, NothingCalled, None, Raised

LEMMA InitKeySteps == Init => KeyStepsInvariant
<1> SUFFICES ASSUME Init PROVE KeyStepsInvariant
  OBVIOUS
<1>1. SheetIsTyped /\ NothingBeforeReady /\ StepsAreListed /\ SessionIsActive
  BY RowsAssumption
     DEF Init, SheetIsTyped, NothingBeforeReady, StepsAreListed, SessionIsActive, Started
<1>2. QED
  BY <1>1, NothingIsFine DEF Init, KeyStepsInvariant

LEMMA WriteRowKeeps == KeyStepsInvariant /\ WriteRow => KeyStepsInvariant'
<1> SUFFICES ASSUME KeyStepsInvariant, WriteRow PROVE KeyStepsInvariant'
  OBVIOUS
<1> USE DEF Started
<1>1. /\ phase = "edit" /\ phase' = phase /\ Len(sheet) < MaxRows
      /\ columns' = columns /\ steps' = steps /\ queued' = queued /\ called' = called
      /\ active' = active
      /\ \E row \in RowValues : sheet' = Append(sheet, row)
  BY DEF WriteRow
<1>2. queued = <<"none", <<>>>> /\ called = NothingCalled /\ active = 0 /\ steps = <<>>
  BY <1>1 DEF KeyStepsInvariant, NothingBeforeReady, StepsAreListed
<1>3. SheetIsTyped'
  BY <1>1, RowsAssumption DEF KeyStepsInvariant, SheetIsTyped
<1>4. NothingBeforeReady' /\ StepsAreListed' /\ SessionIsActive'
  BY <1>1, <1>2 DEF NothingBeforeReady, StepsAreListed, SessionIsActive, NothingCalled
<1>5. QueuedAreListed' /\ CalledAreRows'
  BY <1>1, <1>2 DEF QueuedAreListed, CalledAreRows, NothingCalled, None, Raised
<1>6. QED
  BY <1>3, <1>4, <1>5 DEF KeyStepsInvariant

LEMMA FrameworkInitKeeps == KeyStepsInvariant /\ FrameworkInit => KeyStepsInvariant'
<1> SUFFICES ASSUME KeyStepsInvariant, FrameworkInit PROVE KeyStepsInvariant'
  OBVIOUS
<1> USE DEF Started
<1>1. /\ phase = "edit"
      /\ columns' = columns /\ sheet' = sheet /\ queued' = queued /\ called' = called
      /\ phase' \in {"ready", "refused"} /\ (phase' = "ready" => StepsAreValid)
      /\ steps' = IF StepsAreValid THEN ProcessSteps ELSE <<>>
      /\ active' = IF phase' = "ready" THEN 1 ELSE 0
  BY DEF FrameworkInit
<1>2. queued = <<"none", <<>>>> /\ called = NothingCalled
  BY <1>1 DEF KeyStepsInvariant, NothingBeforeReady
<1>3. SheetIsTyped'
  BY <1>1 DEF KeyStepsInvariant, SheetIsTyped
<1>4. NothingBeforeReady'
  BY <1>1, <1>2 DEF NothingBeforeReady, NothingCalled
<1>5. StepsAreListed' /\ SessionIsActive'
  <2>1. CASE StepsAreValid
    <3>1. ListsSteps(steps')
      BY <1>1, <2>1, ProcessStepsListed DEF KeyStepsInvariant
    <3>2. ListsSteps(steps)'
      BY <1>1, <3>1 DEF ListsSteps, Proc, RowsOf, AppOf, PandasPrecedes
    <3>3. StepsAreValid'
      BY <1>1, <2>1 DEF StepsAreValid, RowsOf
    <3>4. StepsAreListed'
      BY <1>1, <3>2, <3>3 DEF StepsAreListed
    <3>5. Cardinality(Proc) \in Nat \ {0}
      BY <2>1, RowsAreInSheet, FS_CardinalityType, FS_EmptySet
         DEF KeyStepsInvariant, Proc, StepsAreValid
    <3>6. 1 \in DOMAIN steps'
      BY <3>1, <3>5 DEF ListsSteps
    <3>7. SessionIsActive'
      BY <1>1, <1>2, <3>6 DEF SessionIsActive, NothingCalled
    <3>8. QED
      BY <3>4, <3>7
  <2>2. CASE ~ StepsAreValid
    BY <1>1, <2>2 DEF StepsAreListed, SessionIsActive
  <2>3. QED
    BY <2>1, <2>2
<1>6. QueuedAreListed' /\ CalledAreRows'
  BY <1>1, <1>2 DEF QueuedAreListed, CalledAreRows, NothingCalled, None, Raised
<1>7. QED
  BY <1>3, <1>4, <1>5, <1>6 DEF KeyStepsInvariant

LEMMA MasterQueueCreatorKeeps ==
    KeyStepsInvariant /\ MasterQueueCreator => KeyStepsInvariant'
<1> SUFFICES ASSUME KeyStepsInvariant, MasterQueueCreator PROVE KeyStepsInvariant'
  OBVIOUS
<1> USE DEF KeyStepsInvariant, Started
<1>1. /\ phase = "ready" /\ phase' \in Started /\ StepsAreValid /\ ListsSteps(steps)
      /\ UNCHANGED <<columns, sheet, steps, active, called>>
      /\ SheetIsTyped
  BY DEF MasterQueueCreator, StepsAreListed
<1>2. ListsSteps(steps)' /\ StepsAreValid'
  BY <1>1, ValidStays, ListStays
<1>3. SheetIsTyped' /\ NothingBeforeReady' /\ StepsAreListed' /\ SessionIsActive'
      /\ CalledAreRows'
  BY <1>1, <1>2, CalledStay
     DEF SheetIsTyped, NothingBeforeReady, StepsAreListed, SessionIsActive
<1>4. QueuedAreListed'
  <2> DEFINE order == InOrder(Proc, Precedes)
             apps == Distinct([k \in DOMAIN order |-> AppOf(order[k])])
  <2>1. \/ queued' = <<"raised", <<>>>> /\ ~ AllNumbers(Proc)
        \/ AllNumbers(Proc) /\ queued' = <<"apps", apps>>
    <3>1. \A i \in Proc : IsApplication(sheet[i].application)
      BY <1>1 DEF StepsAreValid, Proc
    <3>2. QED
      BY <3>1 DEF MasterQueueCreator, AllNumbers, Proc
  <2>2. AllNumbers(Proc) => ListsApps(apps)
    BY <1>1, AppsListed
  <2> HIDE DEF apps
  <2>3. AllNumbers(Proc)' <=> AllNumbers(Proc)
    BY <1>1 DEF AllNumbers, Proc, RowsOf
  <2>4. CASE queued' = <<"raised", <<>>>> /\ ~ AllNumbers(Proc)
    BY <1>1, <2>3, <2>4 DEF QueuedAreListed
  <2>5. CASE AllNumbers(Proc) /\ queued' = <<"apps", apps>>
    <3>1. queued[2]' = apps /\ queued[1]' = "apps"
      BY <2>5
    <3>2. ListsApps(queued[2])'
      BY <1>1, <2>2, <2>5, <3>1 DEF ListsApps, IsFirst, Proc, RowsOf, AppOf, Precedes
    <3>3. QED
      BY <1>1, <2>3, <2>5, <3>1, <3>2 DEF QueuedAreListed
  <2>6. QED
    BY <2>1, <2>4, <2>5
<1>5. QED
  BY <1>3, <1>4

(* What a session calls: the reset hook of the step it leaves, and the     *)
(* login hook and the module of the one it begins.                         *)
LEMMA SessionCalls ==
    ASSUME KeyStepsInvariant, Session
    PROVE  /\ active' \in DOMAIN steps /\ phase' \in Started
           /\ called'.app \in Nat
           /\ phase' = "ready" => called'.app = steps[active'].app
           /\ {called'.reset, called'.login, called'.process}
                  \subseteq DOMAIN sheet \cup {None, Raised}
           /\ RunsFor(called'.reset, called.app)
           /\ RunsFor(called'.login, called'.app)
           /\ RunsFor(called'.process, called'.app)
<1> USE DEF KeyStepsInvariant, Started
<1>1. /\ phase = "ready" /\ SheetIsTyped /\ StepsAreValid /\ ListsSteps(steps)
      /\ active \in DOMAIN steps /\ called.app \in {None, steps[active].app}
  BY DEF Session, StepsAreListed, SessionIsActive
<1>2. /\ \A k \in DOMAIN steps : steps[k].app \in Nat \ {0}
      /\ Cardinality(Proc) \in Nat /\ DOMAIN steps = 1..Cardinality(Proc)
      /\ Len(steps) = Cardinality(Proc)
  <2>1. Cardinality(Proc) \in Nat
    BY <1>1, RowsAreInSheet, FS_CardinalityType DEF Proc
  <2>2. /\ \A k \in DOMAIN steps : steps[k].app \in Nat \ {0}
        /\ DOMAIN steps = 1..Cardinality(Proc)
    BY <1>1 DEF ListsSteps
  <2>3. QED
    BY <2>1, <2>2
<1>3. NextStep \in DOMAIN steps
  BY <1>1, <1>2 DEF NextStep
<1>4. /\ \A state, app : app \in Nat =>
             \/ Hook(state, app) \in {None, Raised}
             \/ Hook(state, app) \in DOMAIN sheet /\ OwnModule(Hook(state, app), app)
      /\ \A k \in DOMAIN steps : /\ ProcessStep(steps[k].app) \in DOMAIN sheet
                                 /\ OwnModule(ProcessStep(steps[k].app), steps[k].app)
  BY <1>1, HookIsOwn, ProcessStepIsOwn
<1>5. ASSUME NEW step \in DOMAIN steps, NEW reset, NEW row \in BOOLEAN, Begin(step, reset, row),
             reset \in DOMAIN sheet \cup {None, Raised}, RunsFor(reset, called.app)
      PROVE  /\ active' \in DOMAIN steps /\ phase' \in Started
             /\ called'.app \in Nat
             /\ phase' = "ready" => called'.app = steps[active'].app
             /\ {called'.reset, called'.login, called'.process}
                    \subseteq DOMAIN sheet \cup {None, Raised}
             /\ RunsFor(called'.reset, called.app)
             /\ RunsFor(called'.login, called'.app)
             /\ RunsFor(called'.process, called'.app)
  <2> DEFINE app == steps[step].app
  <2>1. /\ active' = step /\ phase' = phase
        /\ called'.app = app /\ called'.reset = reset
        /\ called'.login \in {None, Hook("LOGIN_APPLICATION", app)}
        /\ called'.process \in {None, ProcessStep(app)}
    BY <1>5 DEF Begin
  <2>2. app \in Nat
    BY <1>2
  <2>3. /\ called'.login \in DOMAIN sheet \cup {None, Raised} /\ RunsFor(called'.login, app)
        /\ called'.process \in DOMAIN sheet \cup {None, Raised}
        /\ RunsFor(called'.process, app)
    BY <1>4, <2>1, <2>2 DEF RunsFor
  <2>4. QED
    BY <1>1, <1>5, <2>1, <2>2, <2>3
<1>6. CASE KeepSession
  BY <1>1, <1>5, <1>6 DEF KeepSession, RunsFor
<1>7. CASE Reset
  <2>1. called.app = steps[active].app /\ called.app \in Nat
    BY <1>1, <1>2, <1>7 DEF Reset
  <2>2. /\ ResetHook \in DOMAIN sheet \cup {None, Raised}
        /\ RunsFor(ResetHook, called.app)
    BY <1>4, <2>1 DEF ResetHook, RunsFor
  <2>3. CASE AbandonReset
    BY <1>1, <2>1, <2>3 DEF AbandonReset, CalledAreRows, RunsFor
  <2>4. CASE \E row \in BOOLEAN : \E step \in {active, NextStep} : Begin(step, ResetHook, row)
    BY <1>1, <1>3, <1>5, <2>2, <2>4
  <2>5. QED
    BY <1>7, <2>3, <2>4 DEF Reset
<1>8. QED
  BY <1>6, <1>7 DEF Session

LEMMA SessionKeeps == KeyStepsInvariant /\ Session => KeyStepsInvariant'
<1> SUFFICES ASSUME KeyStepsInvariant, Session PROVE KeyStepsInvariant'
  OBVIOUS
<1> USE DEF KeyStepsInvariant, Started
<1>1. /\ phase = "ready" /\ StepsAreValid /\ ListsSteps(steps) /\ SheetIsTyped
      /\ UNCHANGED <<columns, sheet, steps, queued>>
  BY DEF Session, StepsAreListed
<1>2. active' \in DOMAIN steps /\ phase' \in Started
      /\ called'.app \in Nat /\ (phase' = "ready" => called'.app = steps[active'].app)
      /\ {called'.reset, called'.login, called'.process} \subseteq DOMAIN sheet \cup {None, Raised}
  BY SessionCalls
<1>3. ListsSteps(steps)' /\ StepsAreValid'
  BY <1>1, ValidStays, ListStays
<1>4. SheetIsTyped' /\ NothingBeforeReady' /\ StepsAreListed' /\ SessionIsActive'
      /\ CalledAreRows'
  BY <1>1, <1>2, <1>3
     DEF SheetIsTyped, NothingBeforeReady, StepsAreListed, SessionIsActive, CalledAreRows
<1>5. QueuedAreListed'
  BY <1>1, <1>2
     DEF QueuedAreListed, ListsApps, IsFirst, AllNumbers, Proc, RowsOf, AppOf, Precedes
<1>6. QED
  BY <1>4, <1>5

(* The invariant, for every worksheet.                                     *)
THEOREM KeyStepsInvariantHolds == Spec => []KeyStepsInvariant
<1>1. KeyStepsInvariant /\ [Next]_stepVars => KeyStepsInvariant'
  <2> SUFFICES ASSUME KeyStepsInvariant, [Next]_stepVars PROVE KeyStepsInvariant'
    OBVIOUS
  <2>1. CASE UNCHANGED stepVars
    BY <2>1, StepsStay, QueuedStay, CalledStay
       DEF stepVars, KeyStepsInvariant, SheetIsTyped, NothingBeforeReady, SessionIsActive
  <2>2. QED
    BY <2>1, WriteRowKeeps, FrameworkInitKeeps, MasterQueueCreatorKeeps, SessionKeeps
       DEF Next
<1>2. QED
  BY <1>1, InitKeySteps, PTL DEF Spec
-----------------------------------------------------------------------------
(* When there are steps there is a process row for every step, and the     *)
(* other way round.                                                        *)
LEMMA StepsAndRows ==
    ASSUME SheetIsTyped, StepsAreValid, ListsSteps(steps)
    PROVE  /\ Cardinality(Proc) \in Nat \ {0}
           /\ steps \in [1..Cardinality(Proc) -> [row : Proc, app : Nat \ {0}, limit : Nat]]
           /\ Len(steps) = Cardinality(Proc)
           /\ {steps[k].row : k \in DOMAIN steps} = Proc
           /\ {steps[k].app : k \in DOMAIN steps} = {AppOf(i) : i \in Proc}
<1>1. IsFiniteSet(Proc) /\ Proc # {}
  BY RowsAreInSheet DEF Proc, StepsAreValid
<1>2. Cardinality(Proc) \in Nat \ {0}
  BY <1>1, FS_CardinalityType, FS_EmptySet
<1>3. /\ steps \in [1..Cardinality(Proc) -> [row : Proc, app : Nat \ {0}, limit : Nat]]
      /\ \A i \in Proc : \E k \in DOMAIN steps : steps[k].row = i
      /\ \A k \in DOMAIN steps : steps[k].app = AppOf(steps[k].row)
  BY DEF ListsSteps
<1>4. Len(steps) = Cardinality(Proc)
  BY <1>2, <1>3
<1>5. QED
  BY <1>2, <1>3, <1>4

(* The types, for any worksheet: the steps that the scheduler is given     *)
(* have an application and a limit that suit it.                           *)
THEOREM KeyStepsTypes == Spec => []TypeOK
<1>1. KeyStepsInvariant => TypeOK
  <2> SUFFICES ASSUME KeyStepsInvariant PROVE TypeOK
    OBVIOUS
  <2> USE DEF KeyStepsInvariant
  <2>1. /\ steps \in Seq([row : DOMAIN sheet, app : Nat \ {0}, limit : Nat])
        /\ active \in (IF phase \in Started THEN DOMAIN steps ELSE {0})
    <3>1. CASE steps = <<>> /\ phase \notin Started
      BY <3>1 DEF NothingBeforeReady
    <3>2. CASE StepsAreValid /\ ListsSteps(steps)
      <4>1. /\ Cardinality(Proc) \in Nat \ {0} /\ Len(steps) = Cardinality(Proc)
            /\ steps \in [1..Cardinality(Proc) -> [row : Proc, app : Nat \ {0}, limit : Nat]]
        BY <3>2, StepsAndRows
      <4>2. Proc \subseteq DOMAIN sheet
        BY RowsAreInSheet DEF Proc
      <4>3. steps \in [1..Cardinality(Proc) -> [row : DOMAIN sheet, app : Nat \ {0},
                                                limit : Nat]]
        BY <4>1, <4>2
      <4>4. active \in (IF phase \in Started THEN DOMAIN steps ELSE {0})
        BY DEF SessionIsActive, NothingBeforeReady
      <4>5. steps \in Seq([row : DOMAIN sheet, app : Nat \ {0}, limit : Nat])
        <5> DEFINE n == Cardinality(Proc)
                   Steps == [row : DOMAIN sheet, app : Nat \ {0}, limit : Nat]
        <5> HIDE DEF n, Steps
        <5>1. n \in Nat /\ steps \in [1..n -> Steps]
          BY <4>1, <4>3 DEF n, Steps
        <5>2. steps \in Seq(Steps)
          BY <5>1
        <5>3. QED
          BY <5>2 DEF Steps
      <4>6. QED
        BY <4>4, <4>5
    <3>3. QED
      BY <3>1, <3>2 DEF StepsAreListed
  <2>2. queued[1] \in {"none", "apps", "raised"} /\ queued[2] \in Seq(Nat \ {0})
    <3>1. CASE queued \in {<<"none", <<>>>>, <<"raised", <<>>>>}
      <4>1. <<>> \in Seq(Nat \ {0})
        OBVIOUS
      <4>2. queued[1] \in {"none", "raised"} /\ queued[2] = <<>>
        BY <3>1
      <4>3. QED
        BY <4>1, <4>2
    <3>2. CASE queued[1] = "apps" /\ ListsApps(queued[2])
      BY <3>2 DEF ListsApps
    <3>3. QED
      BY <3>1, <3>2 DEF QueuedAreListed
  <2>3. QED
    BY <2>1, <2>2 DEF TypeOK, SheetIsTyped, CalledAreRows, Started
<1>2. QED
  BY <1>1, KeyStepsInvariantHolds, PTL

(* pandas and Decimal sort alike wherever the master accepts the sheet, so *)
(* it queues for the applications of the steps, in their order; and a sheet*)
(* that it alone refuses has a blank Sequence.                             *)
THEOREM ParsersAlwaysAgree == Spec => []ParsersAgree
<1>1. KeyStepsInvariant /\ queued[1] = "apps" =>
          /\ {queued[2][i] : i \in DOMAIN queued[2]} = {steps[k].app : k \in DOMAIN steps}
          /\ \A m, n \in DOMAIN queued[2] :
                m < n => FirstStep(queued[2][m]) < FirstStep(queued[2][n])
  <2> SUFFICES ASSUME KeyStepsInvariant, queued[1] = "apps"
               PROVE  /\ {queued[2][i] : i \in DOMAIN queued[2]}
                             = {steps[k].app : k \in DOMAIN steps}
                      /\ \A m, n \in DOMAIN queued[2] :
                            m < n => FirstStep(queued[2][m]) < FirstStep(queued[2][n])
    OBVIOUS
  <2> DEFINE apps == queued[2]
  <2>1. /\ SheetIsTyped /\ StepsAreValid /\ ListsSteps(steps)
        /\ AllNumbers(Proc) /\ ListsApps(apps)
    BY DEF KeyStepsInvariant, QueuedAreListed, StepsAreListed
  <2>2. {apps[i] : i \in DOMAIN apps} = {steps[k].app : k \in DOMAIN steps}
    <3>1. {steps[k].app : k \in DOMAIN steps} = {AppOf(i) : i \in Proc}
      BY <2>1, StepsAndRows
    <3>2. /\ \A n \in DOMAIN apps : \E i \in Proc : apps[n] = AppOf(i)
          /\ \A i \in Proc : \E n \in DOMAIN apps : apps[n] = AppOf(i)
      BY <2>1 DEF ListsApps
    <3>3. {apps[i] : i \in DOMAIN apps} = {AppOf(i) : i \in Proc}
      BY <3>2
    <3>4. QED
      BY <3>1, <3>3
  <2>3. Proc \subseteq DOMAIN sheet
    BY <2>1, RowsAreInSheet DEF Proc
  <2>4. /\ Orders(DecimalOrder, Proc)
        /\ \A i, j \in Proc : /\ Precedes(i, j) <=> PandasPrecedes(i, j)
                              /\ Precedes(i, j) <=> j \in DecimalOrder[i]
    BY <2>1, <2>3, DecimalOrders DEF SheetIsTyped, DecimalOrder
  <2>5. \A i \in Proc : ~ Precedes(i, i)
    BY <2>4 DEF Orders
  <2>6. \A i, j \in Proc : ~ (Precedes(i, j) /\ Precedes(j, i))
    BY <2>4, <2>5 DEF Orders
  <2>7. ASSUME NEW i, IsFirst(i)
        PROVE  /\ FirstStep(AppOf(i)) \in DOMAIN steps
               /\ steps[FirstStep(AppOf(i))].row = i
    <3> DEFINE first == FirstStep(AppOf(i))
    <3>1. i \in Proc /\ \A j \in Proc : AppOf(j) = AppOf(i) => j = i \/ Precedes(i, j)
      BY <2>7 DEF IsFirst
    <3>2. /\ first \in DOMAIN steps
          /\ steps[first].row \in Proc /\ AppOf(steps[first].row) = AppOf(i)
          /\ i = steps[first].row \/ PandasPrecedes(steps[first].row, i)
      BY <2>1, <3>1, FirstStepIsEarliest
    <3>3. QED
      BY <2>4, <2>6, <3>1, <3>2
  <2>8. ASSUME NEW m \in DOMAIN apps, NEW n \in DOMAIN apps, m < n
        PROVE  FirstStep(apps[m]) < FirstStep(apps[n])
    <3>1. PICK i \in Proc, j \in Proc :
              /\ IsFirst(i) /\ AppOf(i) = apps[m]
              /\ IsFirst(j) /\ AppOf(j) = apps[n]
              /\ Precedes(i, j)
      BY <2>1, <2>8 DEF ListsApps
    <3> DEFINE k == FirstStep(apps[m])
               l == FirstStep(apps[n])
    <3>2. /\ k \in DOMAIN steps /\ steps[k].row = i
          /\ l \in DOMAIN steps /\ steps[l].row = j
      BY <2>7, <3>1
    <3> HIDE DEF k, l
    <3>3. ~ (l < k)
      <4>1. l < k => PandasPrecedes(j, i)
        BY <2>1, <3>2 DEF ListsSteps
      <4>2. QED
        BY <2>4, <2>6, <3>1, <4>1
    <3>4. l # k
      BY <2>5, <3>1, <3>2
    <3>5. k \in Nat /\ l \in Nat
      BY <2>1, <3>2 DEF ListsSteps
    <3>6. QED
      BY <3>3, <3>4, <3>5 DEF k, l
  <2>9. QED
    BY <2>2, <2>8
<1>2. KeyStepsInvariant /\ queued[1] = "raised" =>
          \E i \in RowsOf("PROCESS_TRANSACTION") : IsBlank(sheet[i].sequence)
  <2> SUFFICES ASSUME KeyStepsInvariant, queued[1] = "raised"
               PROVE  \E i \in Proc : IsBlank(sheet[i].sequence)
    BY DEF Proc
  <2>1. StepsAreValid /\ ~ AllNumbers(Proc)
    BY DEF KeyStepsInvariant, QueuedAreListed, StepsAreListed
  <2>2. QED
    BY <2>1 DEF AllNumbers, StepsAreValid, Proc
<1>3. KeyStepsInvariant => ParsersAgree
  BY <1>1, <1>2 DEF ParsersAgree, FirstStep
<1>4. QED
  BY <1>3, KeyStepsInvariantHolds, PTL

(* A session is ended with the reset hook of its own application, and works*)
(* with the login hook and the module of its own, each the earliest.       *)
THEOREM SessionsRunTheirOwnModules == Spec => SessionRunsItsOwnModules
<1>1. ASSUME KeyStepsInvariant, [Next]_stepVars
      PROVE  [called' # called => /\ RunsFor(called'.reset, called.app)
                                  /\ RunsFor(called'.login, called'.app)
                                  /\ RunsFor(called'.process, called'.app)]_stepVars
  <2>1. called' = called \/ Session
    BY <1>1 DEF Next, WriteRow, FrameworkInit, MasterQueueCreator, stepVars
  <2>2. QED
    BY <1>1, <2>1, SessionCalls
<1>2. QED
  BY <1>1, KeyStepsInvariantHolds, PTL DEF Spec, SessionRunsItsOwnModules
=============================================================================
