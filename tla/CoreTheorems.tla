---------------------------- MODULE CoreTheorems ----------------------------
(***************************************************************************)
(* What the proofs about every component share: what the engines and the   *)
(* Policy compute, for every price, multiplier, factor and word width; the *)
(* Registry's storage; and totals of positions, debts and balances.        *)
(***************************************************************************)
EXTENDS Registry, Token, FiniteSetTheorems, TLAPS

(***************************************************************************)
(* The engines' truncating fixed point arithmetic.                         *)
(***************************************************************************)
(* Truncating division, on naturals: typing and monotonicity. *)
LEMMA DivNat ==
    ASSUME NEW a \in Nat, NEW d \in Nat \ {0}
    PROVE  a \div d \in Nat
  OBVIOUS

LEMMA DivMonotone ==
    ASSUME NEW a \in Nat, NEW b \in Nat, NEW d \in Nat \ {0}, a <= b
    PROVE  a \div d <= b \div d
  BY SMTT(30)

LEMMA DivAtMost ==
    ASSUME NEW a \in Nat, NEW d \in Nat \ {0}
    PROVE  a \div d <= a
  BY SMTT(30)

(* Scaling by at most the denominator never increases a number. *)
LEMMA ScaleDown ==
    ASSUME NEW a \in Nat, NEW d \in Nat \ {0}, NEW f \in 0..d
    PROVE  (a * f) \div d <= a
  <1>1. f \in Nat /\ a * f \in Nat /\ a * d \in Nat /\ a * f <= a * d
    BY SMTT(30)
  <1>2. (a * f) \div d <= (a * d) \div d
    BY <1>1, DivMonotone
  <1>3. (a * d) \div d = a
    BY SMTT(30)
  <1> QED
    BY <1>2, <1>3

LEMMA TimesMonotone ==
    ASSUME NEW a \in Nat, NEW b \in Nat, NEW f \in Nat, a <= b
    PROVE  /\ a * f \in Nat
           /\ b * f \in Nat
           /\ a * f <= b * f
  BY SMTT(30)

-----------------------------------------------------------------------------
(* The engines return naturals. *)
LEMMA ValueNat ==
    ASSUME NEW a \in AssetState, NEW r \in Nat
    PROVE  ValueOf(a, r) \in Nat
  <1>1. a.price \in Nat /\ a.multiplier \in Nat
    BY EngineAssumption DEF AssetState, Word
  <1>2. ScaledValue(r, a.price) \in Nat
    BY <1>1, DivNat, EngineAssumption, r * a.price \in Nat DEF ScaledValue
  <1>3. ScaledValue(r, a.price) * a.multiplier \in Nat
    BY <1>1, <1>2
  <1> QED
    BY <1>3, DivNat, EngineAssumption DEF ValueOf, PositionValue

LEMMA ThresholdNat ==
    ASSUME NEW a \in AssetState, NEW r \in Nat
    PROVE  ThresholdOf(a, r) \in Nat
  <1>1. ValueOf(a, r) * a.collateralFactorBps \in Nat
    BY ValueNat, EngineAssumption DEF AssetState, Bps
  <1> QED
    BY <1>1, DivNat, EngineAssumption DEF ThresholdOf, LiquidationThreshold

LEMMA CapacityNat ==
    ASSUME NEW a \in AssetState, NEW r \in Nat
    PROVE  CapacityOf(a, r) \in Nat
  <1>1. ThresholdOf(a, r) * a.riskAdjustmentBps \in Nat
    BY ThresholdNat, EngineAssumption DEF AssetState, Bps
  <1> QED
    BY <1>1, DivNat, EngineAssumption
    DEF CapacityOf, BorrowingCapacity, ThresholdOf

-----------------------------------------------------------------------------
(***************************************************************************)
(* The capacity is never above the maintenance threshold: a user who       *)
(* borrows all that is permitted is not liquidatable by that.  This is why *)
(* the risk engine takes the risk adjustment off the capacity only         *)
(* (stylus/risk-engine: maintenance_threshold_never_below_...).            *)
(***************************************************************************)
THEOREM CapacityAtMostThreshold ==
    ASSUME NEW a \in AssetState, NEW r \in Nat
    PROVE  CapacityOf(a, r) <= ThresholdOf(a, r)
  <1>1. a.riskAdjustmentBps \in 0..BPS_DENOMINATOR
    BY DEF AssetState, Bps
  <1> QED
    BY <1>1, ThresholdNat, ScaleDown, EngineAssumption
    DEF CapacityOf, BorrowingCapacity, ThresholdOf

(***************************************************************************)
(* More collateral of the same asset never allows less: threshold and      *)
(* capacity are monotone in the raw balance, through the truncating        *)
(* divisions.                                                              *)
(***************************************************************************)
THEOREM CapacityMonotone ==
    ASSUME NEW a \in AssetState, NEW r \in Nat, NEW s \in Nat, r <= s
    PROVE  /\ ThresholdOf(a, r) <= ThresholdOf(a, s)
           /\ CapacityOf(a, r) <= CapacityOf(a, s)
  <1> DEFINE sv(x) == ScaledValue(x, a.price)
  <1>0. /\ a.price \in Nat /\ a.multiplier \in Nat
        /\ a.collateralFactorBps \in Nat /\ a.riskAdjustmentBps \in Nat
    BY EngineAssumption DEF AssetState, Bps, Word
  <1>1. sv(r) \in Nat /\ sv(s) \in Nat /\ sv(r) <= sv(s)
    BY <1>0, TimesMonotone, DivMonotone, DivNat, EngineAssumption DEF ScaledValue
  <1>2. ValueOf(a, r) <= ValueOf(a, s)
    <2>1. /\ sv(r) * a.multiplier \in Nat /\ sv(s) * a.multiplier \in Nat
          /\ sv(r) * a.multiplier <= sv(s) * a.multiplier
      BY <1>0, <1>1, TimesMonotone
    <2> QED
      BY <2>1, DivMonotone, EngineAssumption DEF ValueOf, PositionValue
  <1>3. ThresholdOf(a, r) <= ThresholdOf(a, s)
    <2>1. /\ ValueOf(a, r) * a.collateralFactorBps \in Nat
          /\ ValueOf(a, s) * a.collateralFactorBps \in Nat
          /\ ValueOf(a, r) * a.collateralFactorBps <= ValueOf(a, s) * a.collateralFactorBps
      BY <1>0, <1>2, ValueNat, TimesMonotone
    <2> QED
      BY <2>1, DivMonotone, EngineAssumption DEF ThresholdOf, LiquidationThreshold
  <1>4. /\ ThresholdOf(a, r) * a.riskAdjustmentBps \in Nat
        /\ ThresholdOf(a, s) * a.riskAdjustmentBps \in Nat
        /\ ThresholdOf(a, r) * a.riskAdjustmentBps <= ThresholdOf(a, s) * a.riskAdjustmentBps
    BY <1>0, <1>3, ThresholdNat, TimesMonotone
  <1>5. CapacityOf(a, r) <= CapacityOf(a, s)
    BY <1>4, DivMonotone, EngineAssumption
    DEF CapacityOf, BorrowingCapacity, ThresholdOf
  <1> QED
    BY <1>3, <1>5

-----------------------------------------------------------------------------
(***************************************************************************)
(* What it means not to be turned down by the Policy.  A BORROW that is    *)
(* not BLOCKed carries the capacity as its permitted amount; a LIQUIDATE   *)
(* that is not BLOCKed names a debt above the threshold; nothing passes    *)
(* unless the asset is ACTIVE.                                             *)
(***************************************************************************)
THEOREM PolicyPermits ==
    ASSUME NEW a \in AssetState, NEW r \in Nat, NEW action \in Action, NEW m \in Nat,
           ~Blocked(CanExecute(a, r, action, m))
    PROVE  /\ a.lifecycle = "ACTIVE"
           /\ action = "BORROW" =>
                CanExecute(a, r, action, m).permittedAmount = CapacityOf(a, r)
           /\ action = "LIQUIDATE" => m > ThresholdOf(a, r)
  <1>1. a.lifecycle = "ACTIVE"
    BY DEF CanExecute, Blocked, Answer
  <1>2. CASE action = "BORROW"
    <2>1. CanExecute(a, r, action, m) = CapacityAnswer(CapacityOf(a, r), m)
      BY <1>1, <1>2 DEF CanExecute
    <2> QED
      BY <1>1, <1>2, <2>1 DEF CapacityAnswer, Answer, Blocked
  <1>3. CASE action = "LIQUIDATE"
    <2>1. CanExecute(a, r, action, m) = LiquidateAnswer(a, r, m)
      BY <1>1, <1>3 DEF CanExecute
    <2>2. IsLiquidatable(ValueOf(a, r), a.collateralFactorBps, m)
      BY <2>1 DEF LiquidateAnswer, Answer, Blocked
    <2> QED
      BY <1>1, <1>3, <2>2 DEF IsLiquidatable, ThresholdOf
  <1> QED
    BY <1>1, <1>2, <1>3

(***************************************************************************)
(* What a client may do with a LIMIT: the same request for the permitted   *)
(* amount, on the same asset state and position, is an ALLOW.  This is     *)
(* what suggestRetryIntent of the SDK and of the frontend relies on.       *)
(***************************************************************************)
THEOREM LimitRetryIsAllowed ==
    ASSUME NEW a \in AssetState, NEW r \in Nat, NEW m \in Nat, NEW retry,
           CanExecute(a, r, "BORROW", m).decision = "LIMIT",
           retry = CanExecute(a, r, "BORROW", m).permittedAmount
    PROVE  CanExecute(a, r, "BORROW", retry).decision = "ALLOW"
  <1>1. a.lifecycle = "ACTIVE"
    BY DEF CanExecute, Answer
  <1>2. \A x \in Nat : CanExecute(a, r, "BORROW", x) = CapacityAnswer(CapacityOf(a, r), x)
    BY <1>1 DEF CanExecute
  <1>3. CapacityOf(a, r) # 0 /\ retry = CapacityOf(a, r)
    BY <1>2 DEF CapacityAnswer, Answer
  <1> QED
    BY <1>2, <1>3, CapacityNat DEF CapacityAnswer, Answer

-----------------------------------------------------------------------------
(***************************************************************************)
(* The Registry, and the Policy's answers on what it stores.               *)
(***************************************************************************)
(* The checks of the two parameter setters keep the stored state typed. *)
LEMMA ParametersType ==
    ASSUME NEW p \in Parameters, NEW s \in LifecycleState, ValidBps(p)
    PROVE  WithParameters(s, p) \in AssetState
  BY RegistryAssumption, EngineAssumption
  DEF ValidBps, WithParameters, AssetState, Word, Bps

(* The owner's calls keep the Registry typed. *)
LEMMA RegistryOwnerType ==
    ASSUME RegistryTypeOK, RegistryOwnerNext
    PROVE  RegistryTypeOK'
  <1> USE DEF RegistryTypeOK
  <1>1. ASSUME NEW w \in Writers, SetPositionWriter(w)
        PROVE  RegistryTypeOK'
    BY <1>1 DEF SetPositionWriter
  <1>2. ASSUME NEW p \in Parameters, InitializeAsset(p)
        PROVE  RegistryTypeOK'
    BY <1>2, ParametersType DEF InitializeAsset, LifecycleState
  <1>3. ASSUME NEW p \in Parameters, UpdateAssetParameters(p)
        PROVE  RegistryTypeOK'
    BY <1>3, ParametersType DEF UpdateAssetParameters, AssetState
  <1>4. ASSUME NEW s \in LifecycleState, TransitionLifecycle(s)
        PROVE  RegistryTypeOK'
    BY <1>4 DEF TransitionLifecycle, AssetState
  <1> QED
    BY <1>1, <1>2, <1>3, <1>4 DEF RegistryOwnerNext

(* An answer to BORROW that can be computed is well typed. *)
LEMMA BorrowAnswerType ==
    ASSUME NEW a \in AssetState, NEW r \in Nat, NEW m \in Nat,
           CanExecuteFits(a, r, "BORROW")
    PROVE  CanExecute(a, r, "BORROW", m) \in PolicyResponse
  <1>0. 0 \in Word
    BY EngineAssumption DEF Word
  <1>1. CASE a.lifecycle # "ACTIVE"
    <2>1. CanExecute(a, r, "BORROW", m) = Answer("BLOCK", 0, a.lifecycle)
      BY <1>1 DEF CanExecute
    <2>2. a.lifecycle \in Reason
      BY <1>1 DEF AssetState, LifecycleState, Reason
    <2> QED
      BY <1>0, <2>1, <2>2 DEF Answer, PolicyResponse, Decision
  <1>2. CASE a.lifecycle = "ACTIVE"
    <2>1. CanExecute(a, r, "BORROW", m) = CapacityAnswer(CapacityOf(a, r), m)
      BY <1>2 DEF CanExecute
    <2>2. CapacityOf(a, r) \in Word
      <3>1. ThresholdOf(a, r) * a.riskAdjustmentBps <= MaxWord
        BY <1>2 DEF CanExecuteFits, CapacityOfFits, BorrowingCapacityFits,
                    ThresholdOf, Fits
      <3>2. ThresholdOf(a, r) * a.riskAdjustmentBps \in Nat
        BY ThresholdNat, EngineAssumption DEF AssetState, Bps
      <3>3. CapacityOf(a, r) <= ThresholdOf(a, r) * a.riskAdjustmentBps
        BY <3>2, DivAtMost, EngineAssumption DEF CapacityOf, BorrowingCapacity, ThresholdOf
      <3> QED
        BY <3>1, <3>2, <3>3, CapacityNat, EngineAssumption DEF Word
    <2> QED
      BY <1>0, <2>1, <2>2 DEF CapacityAnswer, Answer, PolicyResponse, Decision, Reason
  <1> QED
    BY <1>1, <1>2

-----------------------------------------------------------------------------
(***************************************************************************)
(* Totals.  A total is a fold over a finite set, so what it is worth is    *)
(* proved by induction on the size of the set.  The induction principle is *)
(* stated with sets in the place of predicates: the naturals outside a set *)
(* that holds 0 and is closed under successor have no least element, which *)
(* the order on the naturals being well-founded excludes.                  *)
(***************************************************************************)
LEMMA NaturalsFrom ==
    ASSUME NEW S, 0 \in S, \A n \in Nat : n \in S => n + 1 \in S
    PROVE  Nat \subseteq S
  <1> DEFINE R == OpToRel(<, Nat)
             T == Nat \ S
  <1> SUFFICES ASSUME T # {} PROVE FALSE
    OBVIOUS
  <1>1. PICK n \in T : \A k \in T : <<k, n>> \notin R
    <2> HIDE DEF R
    <2>1. IsWellFoundedOn(R, Nat)
      BY NatLessThanWellFounded DEF R
    <2>2. T \subseteq Nat
      OBVIOUS
    <2> HIDE DEF T
    <2> QED
      BY <2>1, <2>2, WFMin
  <1>2. n \in Nat /\ n # 0
    OBVIOUS
  <1>3. n - 1 \in Nat /\ n - 1 < n
    BY <1>2
  <1>4. n - 1 \notin T
    <2>1. \A k \in Nat : k < n => <<k, n>> \in R
      BY <1>2 DEF OpToRel
    <2> QED
      BY <1>1, <1>3, <2>1
  <1>5. n - 1 \in S /\ (n - 1) + 1 = n
    BY <1>3, <1>4
  <1> QED
    BY <1>3, <1>5

(* The member a fold takes out of a set first, and what it leaves.         *)
Chosen(s) == CHOOSE x \in s : TRUE
Less(s) == s \ {Chosen(s)}

LEMMA LessSmaller ==
    ASSUME NEW S, IsFiniteSet(S), NEW s \in SUBSET S, s # {}
    PROVE  /\ Chosen(s) \in s
           /\ Chosen(s) \in S
           /\ Less(s) \in SUBSET S
           /\ Cardinality(s) \in Nat
           /\ Cardinality(Less(s)) = Cardinality(s) - 1
  <1>1. IsFiniteSet(s) /\ Chosen(s) \in s
    BY FS_Subset DEF Chosen
  <1> QED
    BY <1>1, FS_RemoveElement, FS_CardinalityType DEF Less

(* Induction over the subsets of a finite set, one member at a time.       *)
LEMMA SubsetsFrom ==
    ASSUME NEW S, IsFiniteSet(S), NEW T, {} \in T,
           \A s \in SUBSET S : s # {} /\ Less(s) \in T => s \in T
    PROVE  SUBSET S \subseteq T
  <1> DEFINE N == {n \in Nat : \A s \in SUBSET S : Cardinality(s) = n => s \in T}
  <1>1. \A s \in SUBSET S : IsFiniteSet(s) /\ Cardinality(s) \in Nat
    BY FS_Subset, FS_CardinalityType
  <1>2. 0 \in N
    BY <1>1, FS_EmptySet
  <1>3. ASSUME NEW n \in Nat, n \in N
        PROVE  n + 1 \in N
    <2> SUFFICES ASSUME NEW s \in SUBSET S, Cardinality(s) = n + 1 PROVE s \in T
      OBVIOUS
    <2>1. s # {}
      BY FS_EmptySet
    <2>2. Less(s) \in SUBSET S /\ Cardinality(Less(s)) = n
      BY <2>1, LessSmaller
    <2> QED
      BY <1>3, <2>1, <2>2
  <1>4. Nat \subseteq N
    <2> HIDE DEF N
    <2> QED
      BY <1>2, <1>3, NaturalsFrom
  <1> QED
    BY <1>1, <1>4

(* The recursion of the sum of f, for a g that claims to be that sum.      *)
SumRule(f, g, s) == g[s] = IF s = {} THEN 0 ELSE f[Chosen(s)] + g[Less(s)]

(* Such a g exists: by induction on the size up to which it is right.      *)
LEMMA SumsExist ==
    ASSUME NEW S, IsFiniteSet(S), NEW f \in [S -> Nat]
    PROVE  \E g \in [SUBSET S -> Nat] : \A s \in SUBSET S : SumRule(f, g, s)
  <1> DEFINE Upto(n) == \E g \in [SUBSET S -> Nat] :
                          \A s \in SUBSET S : Cardinality(s) <= n => SumRule(f, g, s)
             N == {n \in Nat : Upto(n)}
  <1>0. \A s \in SUBSET S : IsFiniteSet(s) /\ Cardinality(s) \in Nat
    BY FS_Subset, FS_CardinalityType
  <1>1. 0 \in N
    <2> DEFINE z == [s \in SUBSET S |-> 0]
    <2>1. \A s \in SUBSET S : Cardinality(s) <= 0 => s = {}
      BY <1>0, FS_EmptySet
    <2>2. z \in [SUBSET S -> Nat] /\ \A s \in SUBSET S : Cardinality(s) <= 0 => SumRule(f, z, s)
      BY <2>1 DEF SumRule
    <2> QED
      BY <2>2
  <1>2. ASSUME NEW n \in Nat, n \in N
        PROVE  n + 1 \in N
    <2>1. PICK g \in [SUBSET S -> Nat] :
             \A s \in SUBSET S : Cardinality(s) <= n => SumRule(f, g, s)
      BY <1>2
    <2> DEFINE h == [s \in SUBSET S |-> IF s = {} THEN 0 ELSE f[Chosen(s)] + g[Less(s)]]
    <2>2. h \in [SUBSET S -> Nat]
      BY LessSmaller
    <2>3. \A s \in SUBSET S : Cardinality(s) <= n => h[s] = g[s]
      BY <2>1 DEF SumRule
    <2>4. ASSUME NEW s \in SUBSET S, Cardinality(s) <= n + 1
          PROVE  SumRule(f, h, s)
      <3>1. CASE s = {}
        BY <3>1 DEF SumRule
      <3>2. CASE s # {}
        <4>1. Less(s) \in SUBSET S /\ Cardinality(Less(s)) <= n
          BY <1>0, <2>4, <3>2, LessSmaller
        <4> QED
          BY <2>3, <3>2, <4>1 DEF SumRule
      <3> QED
        BY <3>1, <3>2
    <2> HIDE DEF h
    <2> QED
      BY <2>2, <2>4
  <1>3. Nat \subseteq N
    <2> HIDE DEF N
    <2> QED
      BY <1>1, <1>2, NaturalsFrom
  <1>4. PICK g \in [SUBSET S -> Nat] :
             \A s \in SUBSET S : Cardinality(s) <= Cardinality(S) => SumRule(f, g, s)
    BY <1>0, <1>3
  <1>5. \A s \in SUBSET S : Cardinality(s) <= Cardinality(S)
    BY FS_Subset
  <1> QED
    BY <1>4, <1>5

(* Total is defined by choosing a function that obeys the recursion.       *)
LEMMA TotalIsSum ==
    ASSUME NEW S, IsFiniteSet(S), NEW f \in [S -> Nat]
    PROVE  \E g \in [SUBSET S -> Nat] :
              /\ \A s \in SUBSET S : SumRule(f, g, s)
              /\ Total(f) = g[S]
  <1> DEFINE Rule(iter) == iter = [s \in SUBSET S |->
                 IF s = {} THEN 0 ELSE f[CHOOSE x \in s : TRUE]
                                       + iter[s \ {CHOOSE x \in s : TRUE}]]
             g == CHOOSE iter : Rule(iter)
  <1>1. Total(f) = g[S]
    BY DEF Total, SumFunction, SumFunctionOnSet, FoldFunctionOnSet, MapThenFoldSet
  <1>2. Rule(g)
    <2>1. PICK k \in [SUBSET S -> Nat] : \A s \in SUBSET S : SumRule(f, k, s)
      BY SumsExist
    <2>2. Rule(k)
      BY <2>1 DEF SumRule, Chosen, Less
    <2> HIDE DEF Rule
    <2> QED
      BY <2>2
  <1> HIDE DEF g
  <1>3. \A s \in SUBSET S : SumRule(f, g, s)
    BY <1>2 DEF SumRule, Chosen, Less
  <1> DEFINE T == {s \in SUBSET S : g[s] \in Nat}
  <1>4. SUBSET S \subseteq T
    <2>1. {} \in T
      BY <1>3 DEF SumRule
    <2>2. ASSUME NEW s \in SUBSET S, s # {}, Less(s) \in T
          PROVE  s \in T
      BY <1>3, <2>2, LessSmaller DEF SumRule
    <2> HIDE DEF T
    <2> QED
      BY <2>1, <2>2, SubsetsFrom
  <1>5. g \in [SUBSET S -> Nat]
    BY <1>2, <1>4
  <1> QED
    BY <1>1, <1>3, <1>5

(* What is known of totals from here on: they are naturals, an empty book  *)
(* has none, and writing one entry changes the total by what it changes    *)
(* that entry.                                                             *)
LEMMA TotalNat ==
    ASSUME NEW S, IsFiniteSet(S), NEW f \in [S -> Nat]
    PROVE  Total(f) \in Nat
  <1>1. PICK g \in [SUBSET S -> Nat] : Total(f) = g[S]
    BY TotalIsSum
  <1> QED
    BY <1>1

LEMMA TotalZero ==
    ASSUME NEW S, IsFiniteSet(S)
    PROVE  Total([u \in S |-> 0]) = 0
  <1> DEFINE f == [u \in S |-> 0]
  <1>1. PICK g \in [SUBSET S -> Nat] :
              /\ \A s \in SUBSET S : SumRule(f, g, s)
              /\ Total(f) = g[S]
    BY TotalIsSum
  <1> DEFINE T == {s \in SUBSET S : g[s] = 0}
  <1>2. {} \in T
    BY <1>1 DEF SumRule
  <1>3. ASSUME NEW s \in SUBSET S, s # {}, Less(s) \in T
        PROVE  s \in T
    BY <1>1, <1>3, LessSmaller DEF SumRule
  <1>4. SUBSET S \subseteq T
    <2> HIDE DEF T
    <2> QED
      BY <1>2, <1>3, SubsetsFrom
  <1> QED
    BY <1>1, <1>4

(***************************************************************************)
(* When one entry of a record changes, the total moves by as much: the     *)
(* step every argument about the market's books and loans comes down to.   *)
(***************************************************************************)
THEOREM TotalUpdate ==
    ASSUME NEW S, IsFiniteSet(S), NEW f \in [S -> Nat], NEW u \in S, NEW v \in Nat
    PROVE  Total([f EXCEPT ![u] = v]) = Total(f) - f[u] + v
  <1> DEFINE h == [f EXCEPT ![u] = v]
  <1>1. PICK g \in [SUBSET S -> Nat] :
              /\ \A s \in SUBSET S : SumRule(f, g, s)
              /\ Total(f) = g[S]
    BY TotalIsSum
  <1>2. PICK k \in [SUBSET S -> Nat] :
              /\ \A s \in SUBSET S : SumRule(h, k, s)
              /\ Total(h) = k[S]
    BY TotalIsSum
  <1>3. /\ h[u] = v /\ \A w \in S \ {u} : h[w] = f[w]
        /\ \A w \in S : f[w] \in Nat /\ h[w] \in Nat
    OBVIOUS
  <1> HIDE DEF h
  <1> DEFINE T == {s \in SUBSET S : k[s] = IF u \in s THEN g[s] - f[u] + v ELSE g[s]}
  <1>4. {} \in T
    BY <1>1, <1>2 DEF SumRule
  <1>5. ASSUME NEW s \in SUBSET S, s # {}, Less(s) \in T
        PROVE  s \in T
    <2>0. /\ Less(s) \in SUBSET S /\ Chosen(s) \in S
          /\ g[s] \in Nat /\ g[Less(s)] \in Nat /\ k[s] \in Nat /\ k[Less(s)] \in Nat
      BY <1>5, LessSmaller
    <2>1. /\ g[s] = f[Chosen(s)] + g[Less(s)]
          /\ k[s] = h[Chosen(s)] + k[Less(s)]
      BY <1>1, <1>2, <1>5 DEF SumRule
    <2>2. CASE Chosen(s) = u
      <3>1. u \in s /\ u \notin Less(s)
        BY <1>5, <2>2, LessSmaller DEF Less
      <3>2. k[Less(s)] = g[Less(s)]
        BY <1>5, <3>1
      <3> QED
        BY <1>3, <2>0, <2>1, <2>2, <3>1, <3>2
    <2>3. CASE Chosen(s) # u
      <3>1. u \in s <=> u \in Less(s)
        BY <2>3 DEF Less
      <3>2. h[Chosen(s)] = f[Chosen(s)] /\ f[Chosen(s)] \in Nat
        BY <1>3, <2>0, <2>3
      <3> QED
        BY <1>3, <1>5, <2>0, <2>1, <3>1, <3>2
    <2> QED
      BY <2>2, <2>3
  <1>6. SUBSET S \subseteq T
    <2> HIDE DEF T
    <2> QED
      BY <1>4, <1>5, SubsetsFrom
  <1>7. k[S] = g[S] - f[u] + v
    BY <1>6
  <1> QED
    BY <1>1, <1>2, <1>7 DEF h

(* One entry, or two together, are no more than the total. *)
LEMMA EntryWithinTotal ==
    ASSUME NEW S, IsFiniteSet(S), NEW f \in [S -> Nat], NEW u \in S
    PROVE  /\ Total([f EXCEPT ![u] = 0]) = Total(f) - f[u]
           /\ f[u] <= Total(f)
  <1> DEFINE rest == [f EXCEPT ![u] = 0]
  <1>1. rest \in [S -> Nat] /\ f[u] \in Nat
    OBVIOUS
  <1>2. Total(rest) = Total(f) - f[u] + 0
    <2>1. \A v \in Nat : Total([f EXCEPT ![u] = v]) = Total(f) - f[u] + v
      BY TotalUpdate
    <2> QED
      BY <2>1
  <1> HIDE DEF rest
  <1>3. Total(rest) \in Nat /\ Total(f) \in Nat
    BY <1>1, TotalNat
  <1>4. Total(rest) = Total(f) - f[u] /\ f[u] <= Total(f)
    BY <1>1, <1>2, <1>3
  <1> QED
    BY <1>4 DEF rest

LEMMA TwoEntriesWithinTotal ==
    ASSUME NEW S, IsFiniteSet(S), NEW f \in [S -> Nat], NEW u \in S, NEW v \in S, u # v
    PROVE  f[u] + f[v] <= Total(f)
  <1> DEFINE rest == [f EXCEPT ![u] = 0]
  <1>1. rest \in [S -> Nat] /\ rest[v] = f[v] /\ f[u] \in Nat /\ f[v] \in Nat
    OBVIOUS
  <1>2. Total(rest) = Total(f) - f[u]
    BY EntryWithinTotal
  <1> HIDE DEF rest
  <1>3. rest[v] <= Total(rest) /\ Total(f) \in Nat
    BY <1>1, EntryWithinTotal, TotalNat
  <1> QED
    BY <1>1, <1>2, <1>3

(***************************************************************************)
(* A token transfer, to oneself too, neither mints nor burns: what all the *)
(* wallets and contracts hold together stays what it was.                  *)
(***************************************************************************)
THEOREM MoveConserves ==
    ASSUME NEW S, IsFiniteSet(S), NEW b \in [S -> Nat], NEW from \in S, NEW to \in S,
           NEW amount \in Nat, CanMove(b, from, amount)
    PROVE  Total(Move(b, from, to, amount)) = Total(b)
  <1> DEFINE left == b[from] - amount
             debited == [b EXCEPT ![from] = left]
             credit == debited[to] + amount
  <1>1. b[from] \in Nat /\ left \in Nat /\ debited \in [S -> Nat]
    BY DEF CanMove
  <1>2. Total(debited) = Total(b) - b[from] + left
    <2>1. \A v \in Nat : Total([b EXCEPT ![from] = v]) = Total(b) - b[from] + v
      BY TotalUpdate
    <2> HIDE DEF left
    <2> QED
      BY <1>1, <2>1
  <1>3. Move(b, from, to, amount) = [debited EXCEPT ![to] = credit]
    BY DEF Move
  <1>4. left = b[from] - amount
    OBVIOUS
  <1> HIDE DEF left, debited
  <1>5. debited[to] \in Nat /\ credit \in Nat /\ credit = debited[to] + amount
    BY <1>1
  <1> HIDE DEF credit
  <1>6. Total([debited EXCEPT ![to] = credit]) = Total(debited) - debited[to] + credit
    BY <1>1, <1>5, TotalUpdate
  <1>7. Total(b) \in Nat /\ Total(debited) \in Nat
    BY <1>1, TotalNat
  <1> QED
    BY <1>1, <1>2, <1>3, <1>4, <1>5, <1>6, <1>7

=============================================================================
