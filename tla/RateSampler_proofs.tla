------------------------- MODULE RateSampler_proofs -------------------------
(***************************************************************************)
(* The safety properties of RateSampler for any number of names, any       *)
(* identities and any counters.                                            *)
(***************************************************************************)
EXTENDS RateSampler, WellFoundedInduction, TLAPS

(* The baseline knows nothing of entities the last sample did not see.     *)
BaselineIsSeen == DOMAIN previous \subseteq seen

(* Rows and indexes are of the names as they are, until names move.        *)
RowsAreOfNames ==
  pc = "index" /\ torn = FALSE => \A n \in DOMAIN rows : rows[n].of = names[n]
IndexIsOfRows ==
  pc = "index" /\ torn = FALSE => \A n \in DOMAIN index : index[n] = 0 \/ index[n] = rows[n].of
BaselineIsOfIds ==
  \A id \in DOMAIN previous : previous[id].of = id \/ previous[id].torn = TRUE

(* MixedRateNeedsAMove, without the Boolean field as a formula.            *)
RatesAreOfOne ==
  \A n \in DOMAIN rates : rates[n].from = rates[n].to \/ rates[n].torn = TRUE

IInv ==
  /\ TypeOK /\ RatesAddUp /\ BaselineIsSeen
  /\ RowsAreOfNames /\ IndexIsOfRows /\ BaselineIsOfIds /\ RatesAreOfOne

(* A set of numbers that is not empty has a smallest member, and a set of  *)
(* names a last one.                                                       *)
LEMMA Smallest ==
  ASSUME NEW T \in SUBSET Nat, T # {}
  PROVE  \E x \in T : \A y \in T : x <= y
<1> DEFINE Less == {pair \in Nat \X Nat : pair[1] < pair[2]}
<1>1. IsWellFoundedOn(Less, Nat)
  BY NatLessThanWellFounded DEF OpToRel
<1>2. \A x, y \in Nat : y < x => <<y, x>> \in Less
  OBVIOUS
<1> HIDE DEF Less
<1>3. PICK x \in T : \A y \in T : ~(<<y, x>> \in Less)
  BY <1>1, WFMin
<1>4. ASSUME NEW y \in T PROVE x <= y
  <2>1. x \in Nat /\ y \in Nat
    OBVIOUS
  <2>2. ~(y < x)
    BY <1>2, <1>3, <2>1
  <2> QED BY <2>1, <2>2
<1> QED BY <1>4

LEMMA LastName ==
  ASSUME NEW S \in SUBSET Names, S # {}
  PROVE  \E n \in S : \A m \in S : m <= n
<1> DEFINE T == {MaxName - n : n \in S}
<1>1. T \in SUBSET Nat /\ T # {}
  <2>1. ASSUME NEW n \in S PROVE MaxName - n \in Nat
    <3>1. n \in 1..MaxName /\ MaxName \in Nat
      BY RateConstants DEF Names
    <3> QED BY <3>1
  <2> QED BY <2>1
<1> HIDE DEF T
<1>2. PICK x \in T : \A y \in T : x <= y
  BY <1>1, Smallest
<1> USE DEF T
<1>3. PICK n \in S : x = MaxName - n
  BY <1>2
<1>4. ASSUME NEW m \in S PROVE m <= n
  <2>1. m \in Nat /\ n \in Nat /\ MaxName \in Nat
    BY RateConstants DEF Names
  <2>2. x <= MaxName - m
    BY <1>2
  <2> QED BY <1>3, <2>1, <2>2
<1> QED BY <1>4

(* The row of an identity is one.                                          *)
LEMMA RowOfIndexed ==
  ASSUME TypeOK, NEW id \in Indexed
  PROVE  RowOf(id) \in DOMAIN index /\ index[RowOf(id)] = id
<1> DEFINE S == {n \in DOMAIN index : index[n] = id}
<1>1. S \in SUBSET Names /\ S # {}
  BY DEF TypeOK, Indexed
<1>2. PICK n \in S : \A m \in S : m <= n
  BY <1>1, LastName
<1>3. \E r \in DOMAIN index : index[r] = id /\ \A m \in DOMAIN index : index[m] = id => m <= r
  BY <1>2
<1> QED BY <1>3 DEF RowOf

(* What a sample does, whichever the sampler.                              *)
LEMMA SampleCases ==
  ASSUME TypeOK, NEW elapsed \in BOOLEAN, Commit(elapsed)
  PROVE  \/ sampled /\ elapsed /\ rates' = Rates /\ previous' = Current
         \/ ~sampled /\ rates' = Nothing /\ previous' = Current
         \/ sampled /\ ~elapsed /\ rates' = Nothing /\ previous' = Kept
<1>1. CASE kind = "network"
  BY <1>1 DEF Commit, SampleNetwork
<1>2. CASE kind = "block"
  BY <1>2 DEF Commit, SampleBlock
<1>3. CASE kind = "cpu"
  BY <1>3 DEF Commit, SampleCPU
<1>4. CASE kind = "freebsd"
  BY <1>4 DEF Commit, SampleFreeBSD
<1> QED BY <1>1, <1>2, <1>3, <1>4 DEF TypeOK, Kinds

LEMMA CurrentType ==
  ASSUME TypeOK, DOMAIN index = DOMAIN rows
  PROVE  /\ Indexed \subseteq Ids
         /\ DOMAIN Current = Indexed /\ \A id \in Indexed : Current[id] \in Reading
         /\ DOMAIN Kept \subseteq Ids /\ \A id \in DOMAIN Kept : Kept[id] = previous[id]
<1>1. Indexed \subseteq Ids
  BY DEF TypeOK, Indexed
<1>2. ASSUME NEW id \in Indexed PROVE Current[id] \in Reading
  <2>1. RowOf(id) \in DOMAIN rows
    BY RowOfIndexed
  <2>2. rows[RowOf(id)] \in [count: 0..MaxCount, of: Ids] /\ torn \in BOOLEAN
    BY <2>1 DEF TypeOK
  <2> QED BY <2>2 DEF Current, Reading
<1> QED BY <1>1, <1>2 DEF Current, Kept

LEMMA RatesType ==
  ASSUME TypeOK, DOMAIN index = DOMAIN rows
  PROVE  /\ DOMAIN Rates \subseteq DOMAIN rows
         /\ \A n \in DOMAIN Rates :
              /\ Rates[n] \in [delta: 0..MaxCount, from: Ids, to: Ids, torn: BOOLEAN]
              /\ index[n] \in DOMAIN previous
              /\ previous[index[n]].count + Rates[n].delta = rows[n].count
<1>1. DOMAIN Rates \subseteq DOMAIN rows
  BY DEF Rates, Comparable
<1>2. ASSUME NEW n \in DOMAIN Rates
      PROVE  /\ Rates[n] \in [delta: 0..MaxCount, from: Ids, to: Ids, torn: BOOLEAN]
             /\ index[n] \in DOMAIN previous
             /\ previous[index[n]].count + Rates[n].delta = rows[n].count
  <2>1. /\ n \in DOMAIN rows /\ index[n] \in DOMAIN previous
        /\ rows[n].count >= previous[index[n]].count
    BY DEF Rates, Comparable
  <2>2. rows[n] \in [count: 0..MaxCount, of: Ids] /\ previous[index[n]] \in Reading
    BY <2>1 DEF TypeOK
  <2>3. Rates[n] = [delta |-> rows[n].count - previous[index[n]].count,
                    from |-> previous[index[n]].of, to |-> rows[n].of,
                    torn |-> torn \/ previous[index[n]].torn]
    BY DEF Rates
  <2>4. (torn \/ previous[index[n]].torn) \in BOOLEAN
    OBVIOUS
  <2>5. /\ rows[n].count - previous[index[n]].count \in 0..MaxCount
        /\ previous[index[n]].count + (rows[n].count - previous[index[n]].count) = rows[n].count
    BY <2>1, <2>2, RateConstants DEF Reading
  <2> QED BY <2>1, <2>2, <2>3, <2>4, <2>5 DEF Reading
<1> QED BY <1>1, <1>2

(* A complete sample keeps the sum of the rates at the baseline.           *)
LEMMA CommitAddsUp ==
  ASSUME IInv, NEW elapsed \in BOOLEAN, Commit(elapsed)
  PROVE  RatesAddUp'
<1> USE DEF IInv
<1>1. DOMAIN index = DOMAIN rows
  BY DEF Commit
<1>2. told' = [id \in Indexed \cap (IF ~sampled \/ elapsed THEN Ids ELSE DOMAIN told) |->
        IF RowOf(id) \in DOMAIN rates' /\ id \in DOMAIN told
        THEN told[id] + rates'[RowOf(id)].delta
        ELSE IF ~sampled \/ elapsed THEN rows[RowOf(id)].count
        ELSE told[id]]
  BY DEF Commit, Tell
<1>3. Indexed \subseteq Ids
  BY <1>1, CurrentType
<1>4. CASE sampled /\ elapsed /\ rates' = Rates /\ previous' = Current
  <2>1. DOMAIN previous' = DOMAIN told'
    BY <1>1, <1>2, <1>3, <1>4, CurrentType
  <2>2. ASSUME NEW id \in DOMAIN told' PROVE previous'[id].count = told'[id]
    <3>1. id \in Indexed /\ previous'[id].count = rows[RowOf(id)].count
      BY <1>2, <1>3, <1>4, <2>2 DEF Current
    <3>2. CASE RowOf(id) \in DOMAIN rates' /\ id \in DOMAIN told
      <4>1. told'[id] = told[id] + Rates[RowOf(id)].delta
        BY <1>2, <1>3, <1>4, <3>1, <3>2
      <4>2. index[RowOf(id)] = id /\ told[id] = previous[id].count
        BY <3>1, <3>2, RowOfIndexed DEF RatesAddUp
      <4>3. previous[id].count + Rates[RowOf(id)].delta = rows[RowOf(id)].count
        BY <1>1, <1>4, <3>2, <4>2, RatesType
      <4> QED BY <3>1, <4>1, <4>2, <4>3
    <3>3. CASE ~(RowOf(id) \in DOMAIN rates' /\ id \in DOMAIN told)
      BY <1>2, <1>3, <1>4, <3>1, <3>3
    <3> QED BY <3>2, <3>3
  <2> QED BY <2>1, <2>2 DEF RatesAddUp
<1>5. CASE ~sampled /\ rates' = Nothing /\ previous' = Current
  <2>1. DOMAIN previous' = DOMAIN told'
    BY <1>1, <1>2, <1>3, <1>5, CurrentType
  <2>2. ASSUME NEW id \in DOMAIN told' PROVE previous'[id].count = told'[id]
    <3>1. id \in Indexed /\ previous'[id].count = rows[RowOf(id)].count
      BY <1>2, <1>3, <1>5, <2>2 DEF Current
    <3>2. RowOf(id) \notin DOMAIN rates'
      BY <1>5 DEF Nothing
    <3> QED BY <1>2, <1>3, <1>5, <3>1, <3>2
  <2> QED BY <2>1, <2>2 DEF RatesAddUp
<1>6. CASE sampled /\ ~elapsed /\ rates' = Nothing /\ previous' = Kept
  <2>1. DOMAIN told' = Indexed \cap DOMAIN told
    BY <1>2, <1>6
  <2>2. DOMAIN previous' = DOMAIN told'
    BY <1>6, <2>1 DEF Kept, RatesAddUp
  <2>3. ASSUME NEW id \in DOMAIN told' PROVE previous'[id].count = told'[id]
    <3>1. RowOf(id) \notin DOMAIN rates'
      BY <1>6 DEF Nothing
    <3>2. told'[id] = told[id]
      BY <1>2, <1>6, <2>1, <2>3, <3>1
    <3>3. previous'[id] = previous[id]
      BY <1>6, <2>1, <2>3 DEF Kept, RatesAddUp
    <3> QED BY <2>1, <2>3, <3>2, <3>3 DEF RatesAddUp
  <2> QED BY <2>2, <2>3 DEF RatesAddUp
<1> QED BY <1>4, <1>5, <1>6, SampleCases

LEMMA CommitType ==
  ASSUME IInv, NEW elapsed \in BOOLEAN, Commit(elapsed)
  PROVE  TypeOK'
<1> USE DEF IInv
<1>1. DOMAIN index = DOMAIN rows
  BY DEF Commit
<1>2. /\ pc' = "idle" /\ rows' = Nothing /\ index' = Nothing /\ sampled' = TRUE /\ seen' = Indexed
      /\ UNCHANGED <<kind, names, counter, used, torn>>
  BY DEF Commit, kernelVars
<1>3. /\ DOMAIN previous' \subseteq Ids /\ \A id \in DOMAIN previous' : previous'[id] \in Reading
  <2>1. CASE previous' = Current
    BY <1>1, <2>1, CurrentType
  <2>2. CASE previous' = Kept
    <3>1. DOMAIN Kept \subseteq DOMAIN previous
      BY DEF Kept
    <3> QED BY <1>1, <2>2, <3>1, CurrentType DEF TypeOK
  <2> QED BY <2>1, <2>2, SampleCases
<1>4. /\ DOMAIN rates' \subseteq Names
      /\ \A n \in DOMAIN rates' :
           rates'[n] \in [delta: 0..MaxCount, from: Ids, to: Ids, torn: BOOLEAN]
  <2>1. CASE rates' = Rates
    <3>1. DOMAIN rows \subseteq Names
      BY DEF TypeOK
    <3> QED BY <1>1, <2>1, <3>1, RatesType
  <2>2. CASE rates' = Nothing
    BY <2>2 DEF Nothing
  <2> QED BY <2>1, <2>2, SampleCases
<1>5. /\ DOMAIN told' \subseteq Ids /\ \A id \in DOMAIN told' : told'[id] \in 0..MaxCount
  BY <1>3, CommitAddsUp DEF RatesAddUp, Reading
<1>6. Indexed \subseteq Ids
  BY <1>1, CurrentType
<1>7. DOMAIN rows' = {} /\ DOMAIN index' = {}
  BY <1>2 DEF Nothing
<1>8. /\ sampled' \in BOOLEAN /\ torn' \in BOOLEAN /\ kind' \in Kinds
  BY <1>2 DEF TypeOK
<1> QED BY <1>2, <1>3, <1>4, <1>5, <1>6, <1>7, <1>8 DEF TypeOK

LEMMA CommitKeeps ==
  ASSUME IInv, NEW elapsed \in BOOLEAN, Commit(elapsed)
  PROVE  IInv'
<1> USE DEF IInv
<1>1. DOMAIN index = DOMAIN rows /\ pc = "index" /\ pc' = "idle" /\ seen' = Indexed /\ torn' = torn
  BY DEF Commit
<1>2. BaselineIsSeen'
  <2>1. DOMAIN Current = Indexed /\ DOMAIN Kept \subseteq Indexed
    BY DEF Current, Kept
  <2> QED BY <1>1, <2>1, SampleCases DEF BaselineIsSeen
<1>3. BaselineIsOfIds'
  <2>1. CASE previous' = Kept
    <3>1. DOMAIN Kept \subseteq DOMAIN previous /\ \A id \in DOMAIN Kept : Kept[id] = previous[id]
      BY DEF Kept
    <3> QED BY <2>1, <3>1 DEF BaselineIsOfIds
  <2>2. CASE previous' = Current
    <3>1. ASSUME NEW id \in Indexed
          PROVE  Current[id].of = id \/ Current[id].torn = TRUE
      <4>1. Current[id].of = rows[RowOf(id)].of /\ Current[id].torn = torn
        BY DEF Current
      <4>2. index[RowOf(id)] = id /\ id # 0 /\ RowOf(id) \in DOMAIN index
        BY RowOfIndexed DEF Indexed
      <4>3. torn = FALSE => rows[RowOf(id)].of = id
        BY <1>1, <4>2 DEF IndexIsOfRows
      <4>4. torn = TRUE \/ torn = FALSE
        BY DEF TypeOK
      <4> QED BY <4>1, <4>3, <4>4
    <3>2. DOMAIN Current = Indexed
      BY DEF Current
    <3> QED BY <2>2, <3>1, <3>2 DEF BaselineIsOfIds
  <2> QED BY <2>1, <2>2, SampleCases
<1>4. RatesAreOfOne'
  <2>1. CASE rates' = Nothing
    BY <2>1 DEF Nothing, RatesAreOfOne
  <2>2. CASE rates' = Rates
    <3>1. ASSUME NEW n \in DOMAIN Rates
          PROVE  Rates[n].from = Rates[n].to \/ Rates[n].torn = TRUE
      <4>1. /\ Rates[n].from = previous[index[n]].of /\ Rates[n].to = rows[n].of
            /\ Rates[n].torn = (torn \/ previous[index[n]].torn)
        BY DEF Rates
      <4>2. n \in DOMAIN index /\ index[n] \in DOMAIN previous /\ index[n] # 0
        BY <1>1, RatesType, RateConstants DEF TypeOK
      <4>3. torn = FALSE => rows[n].of = index[n]
        BY <1>1, <4>2 DEF IndexIsOfRows
      <4>4. previous[index[n]].of = index[n] \/ previous[index[n]].torn = TRUE
        BY <4>2 DEF BaselineIsOfIds
      <4>5. torn = TRUE \/ torn = FALSE
        BY DEF TypeOK
      <4>6. torn = TRUE \/ previous[index[n]].torn = TRUE => Rates[n].torn = TRUE
        BY <4>1
      <4> QED BY <4>1, <4>3, <4>4, <4>5, <4>6
    <3> QED BY <2>2, <3>1 DEF RatesAreOfOne
  <2> QED BY <2>1, <2>2, SampleCases
<1>5. RowsAreOfNames' /\ IndexIsOfRows'
  BY <1>1 DEF RowsAreOfNames, IndexIsOfRows
<1> QED BY <1>2, <1>3, <1>4, <1>5, CommitType, CommitAddsUp

(* Whatever the kernel does, it leaves the sampler alone and marks a table *)
(* that is being read when names move.                                     *)
LEMMA KernelKeeps ==
  ASSUME IInv, Kernel
  PROVE  IInv'
<1> USE DEF IInv
<1>1. UNCHANGED <<kind, pc, rows, index, sampled, previous, rates, seen, told>>
  BY DEF Kernel
<1>2. /\ names' \in [Names -> Ids \cup {0}] /\ counter' \in [Ids -> 0..MaxCount]
      /\ used' \subseteq Ids
      /\ (names' = names /\ torn' = torn) \/ Moves
  <2>1. ASSUME NEW id \in Ids, Count(id) \/ Clear(id)
        PROVE  counter' \in [Ids -> 0..MaxCount] /\ UNCHANGED <<names, used, torn>>
    BY <2>1, RateConstants DEF TypeOK, Count, Clear
  <2>2. ASSUME NEW n \in Names, NEW id \in Ids, Appear(n, id)
        PROVE  /\ names' \in [Names -> Ids \cup {0}] /\ counter' \in [Ids -> 0..MaxCount]
               /\ used' \subseteq Ids /\ Moves
    BY <2>2, RateConstants DEF TypeOK, Appear
  <2>3. ASSUME NEW n \in Names, Vanish(n)
        PROVE  names' \in [Names -> Ids \cup {0}] /\ UNCHANGED <<counter, used>> /\ Moves
    BY <2>3 DEF TypeOK, Vanish
  <2>4. ASSUME NEW n \in Names, NEW m \in Names, Rename(n, m)
        PROVE  names' \in [Names -> Ids \cup {0}] /\ UNCHANGED <<counter, used>> /\ Moves
    BY <2>4 DEF TypeOK, Rename
  <2> QED BY <2>1, <2>2, <2>3, <2>4 DEF Kernel, TypeOK
<1>3. torn' \in BOOLEAN /\ (torn = TRUE => torn' = TRUE)
      /\ (names' # names /\ pc = "index" => torn' = TRUE)
  BY <1>2 DEF Moves, TypeOK
<1>4. TypeOK'
  BY <1>1, <1>2, <1>3 DEF TypeOK
<1>5. pc = "index" /\ torn' = FALSE => torn = FALSE /\ names' = names
  BY <1>3 DEF TypeOK
<1>6. RowsAreOfNames' /\ IndexIsOfRows'
  BY <1>1, <1>5 DEF RowsAreOfNames, IndexIsOfRows
<1>7. RatesAddUp' /\ BaselineIsSeen' /\ BaselineIsOfIds' /\ RatesAreOfOne'
  BY <1>1 DEF RatesAddUp, BaselineIsSeen, BaselineIsOfIds, RatesAreOfOne
<1> QED BY <1>4, <1>6, <1>7

LEMMA ReadTableKeeps ==
  ASSUME IInv, ReadTable
  PROVE  IInv'
<1> USE DEF IInv
<1>1. /\ rows' = [n \in Here |-> [count |-> counter[names[n]], of |-> names[n]]]
      /\ index' = IF kind = "network" THEN Nothing ELSE [n \in Here |-> names[n]]
      /\ torn' = FALSE /\ rates' = Nothing /\ pc' = "index"
      /\ UNCHANGED <<kind, names, counter, used, sampled, previous, seen, told>>
  BY DEF ReadTable, kernelVars
<1>2. Here \subseteq Names /\ \A n \in Here : names[n] \in Ids /\ counter[names[n]] \in 0..MaxCount
  BY DEF Here, TypeOK
<1>3. DOMAIN rows' = Here /\ \A n \in Here : rows'[n] \in [count: 0..MaxCount, of: Ids]
  BY <1>1, <1>2
<1>4. /\ DOMAIN index' \subseteq Here
      /\ \A n \in DOMAIN index' : index'[n] = names[n]
  BY <1>1 DEF Nothing
<1>5. DOMAIN rates' = {}
  BY <1>1 DEF Nothing
<1>6. /\ kind' \in Kinds /\ sampled' \in BOOLEAN /\ torn' \in BOOLEAN
  BY <1>1 DEF TypeOK
<1>7. TypeOK'
  BY <1>1, <1>2, <1>3, <1>4, <1>5, <1>6 DEF TypeOK
<1>8. RowsAreOfNames' /\ IndexIsOfRows'
  BY <1>1, <1>4, <1>2 DEF RowsAreOfNames, IndexIsOfRows
<1>9. RatesAddUp' /\ BaselineIsSeen' /\ BaselineIsOfIds' /\ RatesAreOfOne'
  BY <1>1, <1>5 DEF RatesAddUp, BaselineIsSeen, BaselineIsOfIds, RatesAreOfOne
<1> QED BY <1>7, <1>8, <1>9

LEMMA ReadIndexKeeps ==
  ASSUME IInv, NEW n \in Names, NEW readable \in BOOLEAN, ReadIndex(n, readable)
  PROVE  IInv'
<1> USE DEF IInv
<1>1. /\ pc = "index" /\ n \in DOMAIN rows
      /\ DOMAIN index' = DOMAIN index \cup {n}
      /\ index'[n] \in {0, names[n]}
      /\ \A m \in DOMAIN index \ {n} : index'[m] = index[m]
  BY DEF ReadIndex
<1>2. UNCHANGED <<kind, names, counter, used, pc, rows, sampled, previous, rates, torn, seen, told>>
  BY DEF ReadIndex, kernelVars
<1>3. DOMAIN index' \subseteq DOMAIN rows /\ \A m \in DOMAIN index' : index'[m] \in Ids \cup {0}
  BY <1>1 DEF TypeOK
<1>4. TypeOK'
  BY <1>2, <1>3 DEF TypeOK
<1>5. RowsAreOfNames' /\ IndexIsOfRows'
  BY <1>1, <1>2 DEF RowsAreOfNames, IndexIsOfRows
<1>6. RatesAddUp' /\ BaselineIsSeen' /\ BaselineIsOfIds' /\ RatesAreOfOne'
  BY <1>2 DEF RatesAddUp, BaselineIsSeen, BaselineIsOfIds, RatesAreOfOne
<1> QED BY <1>4, <1>5, <1>6

LEMMA FailKeeps ==
  ASSUME IInv, Fail
  PROVE  IInv'
<1> USE DEF IInv
<1>1. /\ pc' = "idle" /\ DOMAIN rows' = {} /\ DOMAIN index' = {}
      /\ UNCHANGED <<kind, names, counter, used, sampled, previous, rates, torn, seen, told>>
  BY DEF Fail, kernelVars, Nothing
<1>2. TypeOK'
  BY <1>1 DEF TypeOK
<1> QED BY <1>1, <1>2 DEF RowsAreOfNames, IndexIsOfRows,
             RatesAddUp, BaselineIsSeen, BaselineIsOfIds, RatesAreOfOne

LEMMA StutterKeeps ==
  ASSUME IInv, UNCHANGED vars
  PROVE  IInv'
<1>1. UNCHANGED <<kind, names, counter, used, pc, rows, index, sampled, previous, rates, torn, seen, told>>
  BY DEF vars, kernelVars
<1> QED BY <1>1 DEF IInv, TypeOK, RowsAreOfNames, IndexIsOfRows,
             RatesAddUp, BaselineIsSeen, BaselineIsOfIds, RatesAreOfOne

LEMMA Start == Init => IInv
<1> SUFFICES ASSUME Init PROVE IInv
  OBVIOUS
<1>1. /\ pc = "idle" /\ used = {} /\ seen = {} /\ sampled = FALSE /\ torn = FALSE
      /\ kind \in Kinds
  BY DEF Init
<1>2. /\ DOMAIN rows = {} /\ DOMAIN index = {} /\ DOMAIN previous = {}
      /\ DOMAIN rates = {} /\ DOMAIN told = {}
  BY DEF Init, Nothing
<1>3. names \in [Names -> Ids \cup {0}]
  BY DEF Init
<1>4. 0 \in 0..MaxCount
  BY RateConstants
<1>5. counter \in [Ids -> 0..MaxCount]
  BY <1>4 DEF Init
<1>6. TypeOK
  BY <1>1, <1>2, <1>3, <1>5 DEF TypeOK
<1> QED BY <1>1, <1>2, <1>6 DEF IInv, RowsAreOfNames, IndexIsOfRows,
             RatesAddUp, BaselineIsSeen, BaselineIsOfIds, RatesAreOfOne

LEMMA Step == IInv /\ [Next]_vars => IInv'
<1> SUFFICES ASSUME IInv, [Next]_vars PROVE IInv'
  OBVIOUS
<1>1. CASE Kernel
  BY <1>1, KernelKeeps
<1>2. CASE ReadTable
  BY <1>2, ReadTableKeeps
<1>3. ASSUME NEW n \in Names, NEW readable \in BOOLEAN, ReadIndex(n, readable) PROVE IInv'
  BY <1>3, ReadIndexKeeps
<1>4. ASSUME NEW elapsed \in BOOLEAN, Commit(elapsed) PROVE IInv'
  BY <1>4, CommitKeeps
<1>5. CASE Fail
  BY <1>5, FailKeeps
<1>6. CASE UNCHANGED vars
  BY <1>6, StutterKeeps
<1> QED BY <1>1, <1>2, <1>3, <1>4, <1>5, <1>6 DEF Next

(* The invariant of the samplers.                                          *)
THEOREM Invariant == Spec => []IInv
BY Start, Step, PTL DEF Spec

(* The state of the samplers keeps its types.                              *)
THEOREM Typed == Spec => []TypeOK
<1>1. IInv => TypeOK
  BY DEF IInv
<1> QED BY <1>1, Invariant, PTL

(* No sample, failed sample or sample without elapsed time makes the rates *)
(* of an identity lose or repeat what its counter counted.                 *)
THEOREM AddUp == Spec => []RatesAddUp
<1>1. IInv => RatesAddUp
  BY DEF IInv
<1> QED BY <1>1, Invariant, PTL

(* A rate whose counters are of two interfaces was taken while names       *)
(* moved.                                                                  *)
THEOREM MixedRates == Spec => []MixedRateNeedsAMove
<1>1. IInv => MixedRateNeedsAMove
  BY DEF IInv, RatesAreOfOne, MixedRateNeedsAMove
<1> QED BY <1>1, Invariant, PTL

(* An entity that a sample missed has no rate in the next one.             *)
THEOREM NoGap == Spec => NoRateAcrossAGap
<1>1. IInv /\ [Next]_vars =>
        [\A elapsed \in BOOLEAN : Commit(elapsed) =>
           \A n \in DOMAIN rates' : index[n] \in seen]_vars
  <2> SUFFICES ASSUME IInv, NEW elapsed \in BOOLEAN, Commit(elapsed), NEW n \in DOMAIN rates'
               PROVE  index[n] \in seen
    OBVIOUS
  <2>1. rates' = Rates \/ rates' = Nothing
    BY SampleCases DEF IInv
  <2>2. rates' = Rates
    BY <2>1 DEF Nothing
  <2>3. index[n] \in DOMAIN previous
    BY <2>2 DEF Rates, Comparable
  <2> QED BY <2>3 DEF IInv, BaselineIsSeen
<1> QED BY <1>1, Invariant, PTL DEF Spec, NoRateAcrossAGap
=============================================================================
