---------------------------- MODULE MenusProofs ----------------------------
(***************************************************************************)
(* The safety of Menus for every list of items, any caps and any bounds.   *)
(* A digit is handled in two writes, so what has to be added to the        *)
(* properties is what stands between them: whose menu it hit and what was  *)
(* done to it.  That the two tables tell the same story needs the whole    *)
(* history: while nothing has crashed, the charges are, in their order,    *)
(* the menus of origin cobranca, answered ones included.                   *)
(***************************************************************************)
EXTENDS Menus, FiniteSetTheorems, SequenceTheorems, WellFoundedInduction, TLAPS

MenuRow == [origin : Origins, item : Items, resolved : BOOLEAN,
            done : {"no", "applied", "moot"}]
ChargeRow == [item : Items, day : 1 .. MaxDays, responded : BOOLEAN]

\* A review under way has a question, and never a charge's.
ReviewInv ==
  review # NoReview =>
    review.origin \in {"revisao", "higiene"} /\ review.item \in Items

ChargesInv == (\A c \in DOMAIN charges : charges[c].day <= day) /\ OncePerDay

\* What a digit has done by each of its phases: nothing when it arrives,
\* unless it is a replay; at the half, that the newest pending menu is still
\* the charge it hit, or that the decision it hit has been resolved.
AnswerInv ==
  /\ IsFiniteSet(answer.acted)
  /\ answer.phase # "none" => answer.digit \in 1 .. 3
  /\ answer.phase = "arrived" =>
       answer.menu = 0 /\ (~answer.replayed => answer.acted = {})
  /\ answer.phase = "half" =>
       /\ answer.menu \in DOMAIN menus
       /\ menus[answer.menu].origin = "cobranca" =>
            answer.menu = FindMostRecentPending
       /\ menus[answer.menu].origin # "cobranca" =>
            /\ menus[answer.menu].resolved
            /\ ~answer.replayed => answer.acted = {}
  /\ \/ answer.phase = "arrived"
     \/ answer.phase = "half" /\ menus[answer.menu].origin # "cobranca"
     => Cardinality(answer.acted) <= crashes
  /\ AnswerActsOnItsMenu

\* f pairs the charges with the menus of origin cobranca, in order.
Pairs(f) ==
  /\ f \in [DOMAIN charges -> DOMAIN menus]
  /\ \A c, e \in DOMAIN charges : c < e => f[c] < f[e]
  /\ \A c \in DOMAIN charges :
       /\ menus[f[c]].origin = "cobranca"
       /\ menus[f[c]].item = charges[c].item
       /\ menus[f[c]].resolved = charges[c].responded
  /\ \A m \in DOMAIN menus :
       menus[m].origin = "cobranca" => \E c \in DOMAIN charges : f[c] = m

Matched == crashes = 0 => \E f : Pairs(f)

IInv ==
  TypeOK /\ ReviewInv /\ ChargesInv /\ AnswerInv /\ Matched
         /\ DecisionLostOnlyByCrash

-----------------------------------------------------------------------------
(* Extremes of sets of naturals.                                           *)

LEMMA LeastNat ==
  ASSUME NEW S, S \subseteq Nat, S # {}
  PROVE  \E x \in S : \A y \in S : x <= y
<1>1. IsWellFoundedOn(OpToRel(<, Nat), Nat)
  BY NatLessThanWellFounded
<1>2. PICK x \in S : \A y \in S : ~(<<y, x>> \in OpToRel(<, Nat))
  BY <1>1, WFMin
<1>3. ASSUME NEW y \in S  PROVE  x <= y
  <2>1. ~(y < x)
    BY <1>2 DEF OpToRel
  <2>. QED
    BY <2>1
<1>. QED
  BY <1>3

LEMMA MinIsLeast ==
  ASSUME NEW S, S \subseteq Nat, S # {}
  PROVE  Min(S) \in S /\ \A y \in S : Min(S) <= y
  BY LeastNat DEF Min

LEMMA MaxIsGreatest ==
  ASSUME NEW S, S \subseteq Nat, S # {}, NEW n \in Nat, \A x \in S : x <= n
  PROVE  Max(S) \in S /\ \A y \in S : Max(S) >= y
<1>. DEFINE B == {k \in Nat : \A x \in S : x <= k}
<1>1. B \subseteq Nat /\ n \in B
  OBVIOUS
<1>. HIDE DEF B
<1>2. PICK k \in B : \A j \in B : k <= j
  BY <1>1, LeastNat
<1>3. k \in Nat /\ \A x \in S : x <= k
  BY <1>2 DEF B
<1>4. k \in S
  <2>. SUFFICES ASSUME k \notin S  PROVE  FALSE
    OBVIOUS
  <2>1. PICK x \in S : TRUE
    OBVIOUS
  <2>2. k > 0 /\ k - 1 \in Nat
    BY <1>3, <2>1
  <2>3. \A y \in S : y <= k - 1
    BY <1>3, <2>2
  <2>. QED
    BY <1>2, <1>3, <2>2, <2>3 DEF B
<1>5. \A y \in S : k >= y
  BY <1>3
<1>. QED
  BY <1>4, <1>5 DEF Max

-----------------------------------------------------------------------------
(* Sequences.                                                              *)

LEMMA Appended ==
  ASSUME NEW S, NEW s \in Seq(S), NEW x \in S
  PROVE  /\ Append(s, x) \in Seq(S)
         /\ DOMAIN s = 1 .. Len(s) /\ Len(s) \in Nat
         /\ DOMAIN Append(s, x) = 1 .. Len(s) + 1
         /\ Len(Append(s, x)) = Len(s) + 1
         /\ \A i \in DOMAIN s : Append(s, x)[i] = s[i]
         /\ Append(s, x)[Len(s) + 1] = x
  OBVIOUS

LEMMA Concatenated ==
  ASSUME NEW S, NEW s \in Seq(S), NEW n \in Nat, NEW f \in [1 .. n -> S]
  PROVE  /\ s \o f \in Seq(S)
         /\ DOMAIN s = 1 .. Len(s) /\ Len(s) \in Nat
         /\ Len(s \o f) = Len(s) + n
         /\ DOMAIN (s \o f) = 1 .. Len(s) + n
         /\ \A i \in DOMAIN s : (s \o f)[i] = s[i]
         /\ \A k \in 1 .. n : (s \o f)[Len(s) + k] = f[k]
<1>1. f \in Seq(S) /\ Len(f) = n
  OBVIOUS
<1>. QED
  BY <1>1

LEMMA Rewritten ==
  ASSUME NEW S, NEW s \in Seq(S), NEW i \in DOMAIN s, NEW x \in S
  PROVE  LET t == [s EXCEPT ![i] = x]
         IN  /\ t \in Seq(S) /\ Len(t) = Len(s) /\ DOMAIN t = DOMAIN s
             /\ t[i] = x /\ \A j \in DOMAIN s \ {i} : t[j] = s[j]
  OBVIOUS

LEMMA Widened ==
  ASSUME NEW S, NEW T, S \subseteq T, NEW s \in Seq(S)
  PROVE  s \in Seq(T)
  OBVIOUS

LEMMA TablesTyped ==
  ASSUME TypeOK
  PROVE  /\ menus \in Seq(MenuRow) /\ charges \in Seq(ChargeRow)
         /\ \A m \in DOMAIN menus : menus[m] \in MenuRow
         /\ \A c \in DOMAIN charges : charges[c] \in ChargeRow
         /\ DOMAIN menus = 1 .. Len(menus) /\ Len(menus) \in Nat
         /\ DOMAIN charges = 1 .. Len(charges) /\ Len(charges) \in Nat
<1>1. menus \in Seq(MenuRow) /\ charges \in Seq(ChargeRow)
  BY DEF TypeOK, MenuRow, ChargeRow
<1>. QED
  BY <1>1

-----------------------------------------------------------------------------
(* Queries.                                                                *)

LEMMA MinOfTwo ==
  ASSUME NEW a \in Nat, NEW b \in Nat
  PROVE  Min({a, b}) \in Nat /\ Min({a, b}) <= a /\ Min({a, b}) <= b
                             /\ Min({a, b}) \in {a, b}
<1>. DEFINE S == {a, b}
<1>1. S \subseteq Nat /\ S # {}
  OBVIOUS
<1>2. Min(S) \in S /\ \A y \in S : Min(S) <= y
  BY <1>1, MinIsLeast
<1>. QED
  BY <1>2

\* The newest pending menu is pending, and nothing pending is newer.
LEMMA NewestMenu ==
  ASSUME TypeOK
  PROVE  /\ FindMostRecentPending \in 0 .. Len(menus)
         /\ FindMostRecentPending # 0 => FindMostRecentPending \in PendingMenus
         /\ \A m \in PendingMenus :
              FindMostRecentPending # 0 /\ m <= FindMostRecentPending
<1>1. Len(menus) \in Nat /\ DOMAIN menus = 1 .. Len(menus)
  BY DEF TypeOK
<1>2. PendingMenus \subseteq 1 .. Len(menus)
  BY <1>1 DEF PendingMenus
<1>3. CASE PendingMenus = {}
  BY <1>1, <1>3 DEF FindMostRecentPending, Newest
<1>4. CASE PendingMenus # {}
  <2>1. PendingMenus \subseteq Nat /\ \A m \in PendingMenus : m <= Len(menus)
    BY <1>1, <1>2
  <2>2. /\ Max(PendingMenus) \in PendingMenus
        /\ \A m \in PendingMenus : Max(PendingMenus) >= m
    BY ONLY <1>1, <1>4, <2>1, MaxIsGreatest
  <2>3. FindMostRecentPending = Max(PendingMenus)
    BY <1>4 DEF FindMostRecentPending, Newest
  <2>4. Max(PendingMenus) \in 1 .. Len(menus)
    BY <1>2, <2>2
  <2>. QED
    BY <1>1, <1>2, <2>2, <2>3, <2>4
<1>. QED
  BY <1>3, <1>4

LEMMA NewestCharge ==
  ASSUME TypeOK, PendingCharges # {}
  PROVE  /\ Newest(PendingCharges) \in PendingCharges
         /\ \A c \in PendingCharges : c <= Newest(PendingCharges)
<1>1. Len(charges) \in Nat /\ DOMAIN charges = 1 .. Len(charges)
  BY DEF TypeOK
<1>2. PendingCharges \subseteq 1 .. Len(charges)
  BY <1>1 DEF PendingCharges
<1>3. /\ PendingCharges \subseteq Nat /\ PendingCharges # {}
      /\ \A c \in PendingCharges : c <= Len(charges)
  BY <1>1, <1>2
<1>4. /\ Max(PendingCharges) \in PendingCharges
      /\ \A c \in PendingCharges : Max(PendingCharges) >= c
  BY ONLY <1>1, <1>3, MaxIsGreatest
<1>5. Newest(PendingCharges) = Max(PendingCharges)
  BY <1>3 DEF Newest
<1>. QED
  BY <1>3, <1>4, <1>5

LEMMA ChargedOnFinite ==
  ASSUME TypeOK, NEW d
  PROVE  IsFiniteSet(ChargedOn(d)) /\ Cardinality(ChargedOn(d)) \in Nat
<1>1. Len(charges) \in Nat /\ DOMAIN charges = 1 .. Len(charges)
  BY DEF TypeOK
<1>2. IsFiniteSet(1 .. Len(charges))
  BY <1>1, FS_Interval
<1>3. ChargedOn(d) \in SUBSET (1 .. Len(charges))
  BY <1>1 DEF ChargedOn
<1>. QED
  BY <1>2, <1>3, FS_Subset, FS_CardinalityType

LEMMA OldestIsItem ==
  ASSUME NEW S, S \subseteq Items, Oldest(S) # 0
  PROVE  Oldest(S) \in Items
<1>1. S # {}
  BY DEF Oldest
<1>2. S \subseteq Nat
  BY MenusAssumption
<1>. QED
  BY <1>1, <1>2, MinIsLeast DEF Oldest

\* What the caps leave fits in the day.
LEMMA BudgetFits ==
  ASSUME TypeOK, Budget > 0
  PROVE  /\ Budget \in Nat
         /\ Cardinality(ChargedOn(day)) + Budget <= DailyChargeCap
<1>. DEFINE n == Cardinality(ChargedOn(day))
            a == DailyChargeCap - Min({DailyChargeCap, n})
            b == DailyProactiveCap - Min({DailyProactiveCap, CommittedToday})
            c == Cardinality(Chargeable)
<1>1. n \in Nat /\ CommittedToday \in Nat /\ c \in Nat
  <2>1. n \in Nat
    BY ChargedOnFinite
  <2>2. IsFiniteSet(DOMAIN outbox)
    BY FS_Interval DEF TypeOK
  <2>3. CommittedToday \in Nat
    BY <2>2, FS_Subset, FS_CardinalityType DEF CommittedToday
  <2>4. Chargeable \in SUBSET Items
    BY DEF Chargeable, Open
  <2>5. c \in Nat
    BY <2>4, MenusAssumption, FS_Subset, FS_CardinalityType
  <2>. QED
    BY <2>1, <2>3, <2>5
<1>2. DailyChargeCap \in Nat /\ DailyProactiveCap \in Nat
  BY MenusAssumption
<1>3. a \in Nat /\ (n <= DailyChargeCap => a = DailyChargeCap - n)
               /\ (n > DailyChargeCap => a = 0)
  BY <1>1, <1>2, MinOfTwo
<1>4. b \in Nat
  BY <1>1, <1>2, MinOfTwo
<1>5. Budget = Min({a, b, c})
  BY DEF Budget, ChargesLeft
<1>. HIDE DEF a, b, c
<1>. DEFINE S == {a, b, c}
<1>6. S \subseteq Nat /\ S # {}
  BY <1>1, <1>3, <1>4
<1>7. Min(S) \in S /\ \A y \in S : Min(S) <= y
  BY <1>6, MinIsLeast
<1>8. Budget \in Nat /\ Budget <= a
  BY <1>5, <1>6, <1>7
<1>. QED
  BY <1>1, <1>2, <1>3, <1>8

-----------------------------------------------------------------------------
(* What the updates do to the tables.                                      *)

MenusSame ==
  /\ menus' \in Seq(MenuRow) /\ Len(menus') = Len(menus)
  /\ DOMAIN menus' = DOMAIN menus
  /\ \A m \in DOMAIN menus : /\ menus'[m].origin = menus[m].origin
                             /\ menus'[m].item = menus[m].item

ChargesSame ==
  /\ charges' \in Seq(ChargeRow) /\ DOMAIN charges' = DOMAIN charges
  /\ \A c \in DOMAIN charges : /\ charges'[c].item = charges[c].item
                               /\ charges'[c].day = charges[c].day

LEMMA ResolvedRows ==
  ASSUME TypeOK, NEW m \in DOMAIN menus, NEW what \in {"applied", "moot"},
         menus' = Resolved(m, what)
  PROVE  /\ MenusSame
         /\ menus'[m].resolved /\ menus'[m].done # "no"
         /\ \A k \in DOMAIN menus \ {m} : menus'[k] = menus[k]
<1>. DEFINE row == [menus[m] EXCEPT !.resolved = TRUE,
                                   !.done = IF @ = "no" THEN what ELSE @]
<1>1. menus \in Seq(MenuRow) /\ menus[m] \in MenuRow
  BY TablesTyped
<1>2. /\ row \in MenuRow /\ row.resolved /\ row.done # "no"
      /\ row.origin = menus[m].origin /\ row.item = menus[m].item
  BY <1>1 DEF MenuRow
<1>3. menus' = [menus EXCEPT ![m] = row]
  BY <1>1 DEF Resolved, MenuRow
<1>. HIDE DEF row
<1>4. /\ menus' \in Seq(MenuRow) /\ Len(menus') = Len(menus)
      /\ DOMAIN menus' = DOMAIN menus /\ menus'[m] = row
      /\ \A k \in DOMAIN menus \ {m} : menus'[k] = menus[k]
  BY <1>1, <1>2, <1>3, Rewritten
<1>. QED
  BY <1>2, <1>4 DEF MenusSame

LEMMA RespondedRows ==
  ASSUME TypeOK, NEW e \in DOMAIN charges,
         charges' = [charges EXCEPT ![e].responded = TRUE]
  PROVE  /\ ChargesSame
         /\ charges'[e].responded
         /\ \A c \in DOMAIN charges \ {e} : charges'[c] = charges[c]
<1>. DEFINE row == [charges[e] EXCEPT !.responded = TRUE]
<1>1. charges \in Seq(ChargeRow) /\ charges[e] \in ChargeRow
  BY TablesTyped
<1>2. /\ row \in ChargeRow /\ row.responded
      /\ row.item = charges[e].item /\ row.day = charges[e].day
  BY <1>1 DEF ChargeRow
<1>3. charges' = [charges EXCEPT ![e] = row]
  BY <1>1 DEF ChargeRow
<1>. HIDE DEF row
<1>4. /\ charges' \in Seq(ChargeRow)
      /\ DOMAIN charges' = DOMAIN charges /\ charges'[e] = row
      /\ \A c \in DOMAIN charges \ {e} : charges'[c] = charges[c]
  BY ONLY e \in DOMAIN charges, <1>1, <1>2, <1>3, Rewritten
<1>. QED
  BY <1>2, <1>4 DEF ChargesSame

\* The records of a response: of the newest menu and of the newest charge.
LEMMA Recorded ==
  ASSUME TypeOK, RecordResponse, FindMostRecentPending # 0
  PROVE  /\ MenusSame /\ ChargesSame
         /\ menus'[FindMostRecentPending].resolved
         /\ menus'[FindMostRecentPending].done # "no"
         /\ \A k \in DOMAIN menus \ {FindMostRecentPending} :
              menus'[k] = menus[k]
         /\ PendingCharges = {} => charges' = charges
         /\ PendingCharges # {} =>
              /\ charges'[Newest(PendingCharges)].responded
              /\ \A c \in DOMAIN charges \ {Newest(PendingCharges)} :
                   charges'[c] = charges[c]
<1>1. FindMostRecentPending \in DOMAIN menus
  BY NewestMenu DEF PendingMenus
<1>2. menus' = Resolved(FindMostRecentPending, "moot")
  BY DEF RecordResponse
<1>3. CASE PendingCharges = {}
  <2>1. charges' = charges
    BY <1>3 DEF RecordResponse
  <2>2. ChargesSame
    BY <2>1 DEF ChargesSame, TypeOK, ChargeRow
  <2>. QED
    BY <1>1, <1>2, <1>3, <2>1, <2>2, ResolvedRows
<1>4. CASE PendingCharges # {}
  <2>1. charges' = [charges EXCEPT ![Newest(PendingCharges)].responded = TRUE]
    BY <1>4 DEF RecordResponse
  <2>2. Newest(PendingCharges) \in DOMAIN charges
    BY <1>4, NewestCharge DEF PendingCharges
  <2>. QED
    BY <1>1, <1>2, <1>4, <2>1, <2>2, ResolvedRows, RespondedRows
<1>. QED
  BY <1>3, <1>4

-----------------------------------------------------------------------------
(* The charges of a day.                                                   *)

\* Responding to charges changes neither their days nor their items.
LEMMA ChargesKept ==
  ASSUME TypeOK, ChargesInv, ChargesSame, day \in Nat, day' \in Nat, day' >= day
  PROVE  ChargesInv'
<1>1. \A d : ChargedOn(d)' = ChargedOn(d)
  BY DEF ChargesSame, ChargedOn
<1>2. \A d : ChargedOn(d) \subseteq DOMAIN charges
  BY DEF ChargedOn
<1>3. OncePerDay'
  BY <1>1, <1>2 DEF ChargesInv, OncePerDay, ChargesSame
<1>4. \A c \in DOMAIN charges : charges[c].day \in Nat
  BY TablesTyped DEF ChargeRow
<1>5. \A c \in DOMAIN charges' : charges'[c].day <= day'
  BY <1>4 DEF ChargesInv, ChargesSame
<1>. QED
  BY <1>3, <1>5 DEF ChargesInv

LEMMA ChargeRows ==
  ASSUME TypeOK, NEW n \in Nat, NEW q \in [1 .. n -> Chargeable],
         charges' = Charge(q)
  PROVE  /\ charges' \in Seq(ChargeRow)
         /\ DOMAIN charges' = 1 .. Len(charges) + n
         /\ \A c \in DOMAIN charges : charges'[c] = charges[c]
         /\ \A k \in 1 .. n :
              charges'[Len(charges) + k] =
                [item |-> q[k], day |-> day, responded |-> FALSE]
<1>. DEFINE new == [k \in 1 .. n |->
                      [item |-> q[k], day |-> day, responded |-> FALSE]]
<1>1. charges' = charges \o new
  BY DEF Charge
<1>2. day \in 1 .. MaxDays
  BY DEF TypeOK
<1>3. Chargeable \subseteq Items
  BY DEF Chargeable, Open
<1>4. new \in [1 .. n -> ChargeRow]
  BY <1>2, <1>3 DEF ChargeRow
<1>5. \A k \in 1 .. n :
        new[k] = [item |-> q[k], day |-> day, responded |-> FALSE]
  OBVIOUS
<1>6. charges \in Seq(ChargeRow)
  BY TablesTyped
<1>. HIDE DEF new
<1>7. /\ charges \o new \in Seq(ChargeRow)
      /\ DOMAIN (charges \o new) = 1 .. Len(charges) + n
      /\ \A c \in DOMAIN charges : (charges \o new)[c] = charges[c]
      /\ \A k \in 1 .. n : (charges \o new)[Len(charges) + k] = new[k]
  BY ONLY <1>4, <1>6, n \in Nat, Concatenated
<1>. QED
  BY <1>1, <1>5, <1>7

\* Charges of items not charged today yet, as many as the cap leaves.
LEMMA ChargesAdded ==
  ASSUME TypeOK, ChargesInv, NEW n \in Nat, NEW q \in [1 .. n -> Chargeable],
         IsInjective(q), charges' = Charge(q), day' = day,
         Cardinality(ChargedOn(day)) + n <= DailyChargeCap
  PROVE  ChargesInv'
<1>. DEFINE l == Len(charges)
            New == l + 1 .. l + n
<1>1. /\ l \in Nat /\ DOMAIN charges = 1 .. l /\ day \in 1 .. MaxDays
      /\ DailyChargeCap \in Nat
  BY TablesTyped, MenusAssumption DEF TypeOK
<1>2. DOMAIN charges' = 1 .. l + n
  BY ChargeRows
<1>3. \A c \in DOMAIN charges : charges'[c] = charges[c]
  BY ChargeRows
<1>4. \A c \in New :
        /\ c - l \in 1 .. n
        /\ charges'[c].day = day /\ charges'[c].item = q[c - l]
  <2>. SUFFICES ASSUME NEW c \in New
       PROVE  /\ c - l \in 1 .. n
              /\ charges'[c].day = day /\ charges'[c].item = q[c - l]
    OBVIOUS
  <2>1. c - l \in 1 .. n /\ l + (c - l) = c
    BY <1>1
  <2>2. charges'[l + (c - l)] =
          [item |-> q[c - l], day |-> day, responded |-> FALSE]
    BY <2>1, ChargeRows
  <2>. QED
    BY <2>1, <2>2
<1>5. \A c \in DOMAIN charges' : c \in DOMAIN charges \/ c \in New
  BY <1>1, <1>2
<1>6. \A c \in DOMAIN charges' : charges'[c].day <= day'
  BY <1>1, <1>3, <1>4, <1>5 DEF ChargesInv
<1>7. ASSUME NEW d \in 1 .. MaxDays, d # day  PROVE  ChargedOn(d)' = ChargedOn(d)
  BY <1>1, <1>2, <1>3, <1>4, <1>5, <1>7 DEF ChargedOn
<1>8. ChargedOn(day)' = ChargedOn(day) \cup New
  BY <1>1, <1>2, <1>3, <1>4, <1>5 DEF ChargedOn
<1>9. ASSUME NEW d \in 1 .. MaxDays
      PROVE  Cardinality(ChargedOn(d)') <= DailyChargeCap
  <2>1. CASE d # day
    BY <1>7, <2>1 DEF ChargesInv, OncePerDay
  <2>2. CASE d = day
    <3>1. IsFiniteSet(New) /\ Cardinality(New) = n
      <4>1. l + 1 \in Int /\ l + n \in Int
        BY <1>1
      <4>2. /\ IsFiniteSet(New)
            /\ Cardinality(New) =
                 IF l + 1 > l + n THEN 0 ELSE l + n - (l + 1) + 1
        BY ONLY <4>1, FS_Interval
      <4>. QED
        BY <1>1, <4>2
    <3>2. IsFiniteSet(ChargedOn(day)) /\ Cardinality(ChargedOn(day)) \in Nat
      BY ChargedOnFinite
    <3>3. ChargedOn(day) \cap New = {}
      BY <1>1 DEF ChargedOn
    <3>4. Cardinality(ChargedOn(day) \cup New) = Cardinality(ChargedOn(day)) + n
      <4>1. Cardinality(ChargedOn(day) \cup New) =
              Cardinality(ChargedOn(day)) + Cardinality(New)
                - Cardinality(ChargedOn(day) \cap New)
        BY ONLY <3>1, <3>2, FS_Union
      <4>2. Cardinality(ChargedOn(day) \cap New) = 0
        BY <3>3, FS_EmptySet
      <4>. QED
        BY <3>1, <3>2, <4>1, <4>2
    <3>. QED
      BY <1>8, <2>2, <3>4
  <2>. QED
    BY <2>1, <2>2
<1>10. ASSUME NEW d \in 1 .. MaxDays,
              NEW c \in ChargedOn(d)', NEW e \in ChargedOn(d)',
              charges'[c].item = charges'[e].item
       PROVE  c = e
  <2>1. CASE d # day
    <3>1. c \in ChargedOn(d) /\ e \in ChargedOn(d)
      BY <1>7, <2>1
    <3>2. charges[c].item = charges[e].item
      BY <1>3, <1>10, <3>1 DEF ChargedOn
    <3>. QED
      BY <3>1, <3>2 DEF ChargesInv, OncePerDay
  <2>2. CASE d = day
    <3>1. \A x \in ChargedOn(day), y \in New : charges'[x].item # charges'[y].item
      BY <1>1, <1>3, <1>4 DEF ChargedOn, Chargeable
    <3>2. CASE c \in ChargedOn(day) /\ e \in ChargedOn(day)
      BY <1>1, <1>3, <1>10, <3>2 DEF ChargesInv, OncePerDay, ChargedOn
    <3>3. CASE c \in New /\ e \in New
      <4>1. q[c - l] = q[e - l] /\ c - l \in 1 .. n /\ e - l \in 1 .. n
        BY <1>4, <1>10, <3>3
      <4>2. c - l = e - l
        BY <4>1 DEF IsInjective
      <4>. QED
        BY <1>1, <3>3, <4>2
    <3>. QED
      BY <1>8, <1>10, <2>2, <3>1, <3>2, <3>3
  <2>. QED
    BY <2>1, <2>2
<1>. QED
  BY <1>6, <1>9, <1>10 DEF ChargesInv, OncePerDay

-----------------------------------------------------------------------------
(* The two tables.                                                         *)

\* A step on the menus that leaves alone whether a charge's is resolved.
LEMMA PairsKept ==
  ASSUME TypeOK, Matched, MenusSame, UNCHANGED <<charges, crashes>>,
         \A m \in DOMAIN menus : menus[m].origin = "cobranca" =>
           menus'[m].resolved = menus[m].resolved
  PROVE  Matched'
<1>. SUFFICES ASSUME crashes' = 0  PROVE  \E f : Pairs(f)'
  BY DEF Matched
<1>1. PICK f : Pairs(f)
  BY DEF Matched
<1>2. /\ f \in [DOMAIN charges' -> DOMAIN menus']
      /\ \A c, e \in DOMAIN charges' : c < e => f[c] < f[e]
  BY <1>1 DEF Pairs, MenusSame
<1>3. \A c \in DOMAIN charges' :
        /\ menus'[f[c]].origin = "cobranca"
        /\ menus'[f[c]].item = charges'[c].item
        /\ menus'[f[c]].resolved = charges'[c].responded
  BY <1>1 DEF Pairs, MenusSame
<1>4. \A m \in DOMAIN menus' :
        menus'[m].origin = "cobranca" => \E c \in DOMAIN charges' : f[c] = m
  BY <1>1 DEF Pairs, MenusSame
<1>5. Pairs(f)'
  BY <1>2, <1>3, <1>4 DEF Pairs
<1>. QED
  BY <1>5

\* The heart of recordResponse: when the newest pending menu is a charge's,
\* the newest pending charge is the one it asked about.
LEMMA NewestPair ==
  ASSUME TypeOK, NEW f, Pairs(f), FindMostRecentPending # 0,
         menus[FindMostRecentPending].origin = "cobranca"
  PROVE  /\ PendingCharges # {}
         /\ Newest(PendingCharges) \in DOMAIN charges
         /\ f[Newest(PendingCharges)] = FindMostRecentPending
<1>. DEFINE m == FindMostRecentPending
            top == Newest(PendingCharges)
<1>1. m \in PendingMenus /\ \A k \in PendingMenus : k <= m
  BY NewestMenu
<1>2. m \in DOMAIN menus /\ menus[m].resolved = FALSE
  <2>1. m \in DOMAIN menus /\ ~menus[m].resolved
    BY <1>1 DEF PendingMenus
  <2>2. menus[m].resolved \in BOOLEAN
    BY <2>1, TablesTyped DEF MenuRow
  <2>. QED
    BY <2>1, <2>2
<1>3. PICK c \in DOMAIN charges : f[c] = m
  BY <1>2 DEF Pairs
<1>4. c \in PendingCharges
  BY <1>2, <1>3 DEF Pairs, PendingCharges
<1>5. top \in PendingCharges /\ c <= top
  BY <1>4, NewestCharge
<1>6. top \in DOMAIN charges /\ ~charges[top].responded
  BY <1>5 DEF PendingCharges
<1>7. f[top] \in PendingMenus
  BY <1>6 DEF Pairs, PendingMenus
<1>8. f[top] <= m
  BY <1>1, <1>7
<1>9. c \in Nat /\ top \in Nat /\ m \in Nat /\ f[top] \in Nat
  BY <1>2, <1>3, <1>6, <1>7, TablesTyped DEF PendingMenus
<1>10. c < top => m < f[top]
  BY <1>3, <1>6 DEF Pairs
<1>. QED
  BY <1>3, <1>4, <1>5, <1>6, <1>8, <1>9, <1>10

LEMMA PairsRecorded ==
  ASSUME TypeOK, Matched, RecordResponse, FindMostRecentPending # 0,
         menus[FindMostRecentPending].origin = "cobranca",
         crashes' = crashes
  PROVE  Matched'
<1>. SUFFICES ASSUME crashes' = 0  PROVE  \E f : Pairs(f)'
  BY DEF Matched
<1>. DEFINE m == FindMostRecentPending
            top == Newest(PendingCharges)
<1>1. PICK f : Pairs(f)
  BY DEF Matched
<1>2. PendingCharges # {} /\ top \in DOMAIN charges /\ f[top] = m
  BY <1>1, NewestPair
<1>3. /\ MenusSame /\ ChargesSame
      /\ menus'[m].resolved /\ charges'[top].responded
      /\ \A k \in DOMAIN menus \ {m} : menus'[k] = menus[k]
      /\ \A c \in DOMAIN charges \ {top} : charges'[c] = charges[c]
  BY <1>2, Recorded
<1>4. /\ f \in [DOMAIN charges' -> DOMAIN menus']
      /\ \A c, e \in DOMAIN charges' : c < e => f[c] < f[e]
  BY <1>1, <1>3 DEF Pairs, MenusSame, ChargesSame
<1>5. \A c \in DOMAIN charges' :
        menus'[f[c]].origin = "cobranca" /\ menus'[f[c]].item = charges'[c].item
  BY <1>1, <1>3 DEF Pairs, MenusSame, ChargesSame
<1>6. ASSUME NEW c \in DOMAIN charges'
      PROVE  menus'[f[c]].resolved = charges'[c].responded
  <2>1. c \in DOMAIN charges /\ f[c] \in DOMAIN menus
    BY <1>1, <1>3 DEF Pairs, ChargesSame
  <2>2. CASE c = top
    <3>1. menus'[m] \in MenuRow /\ charges'[top] \in ChargeRow
      BY <1>3, <2>1, <2>2, <1>2, ElementOfSeq DEF MenusSame, ChargesSame
    <3>2. menus'[m].resolved = TRUE /\ charges'[top].responded = TRUE
      BY <1>3, <3>1 DEF MenuRow, ChargeRow
    <3>. QED
      BY <1>2, <2>2, <3>2
  <2>3. CASE c # top
    <3>1. c \in Nat /\ top \in Nat
      BY <1>2, <2>1, TablesTyped
    <3>2. f[c] # m
      <4>1. f[c] \in Nat /\ m \in Nat
        BY <2>1, <1>2, <1>1, TablesTyped DEF Pairs
      <4>2. c < top => f[c] < f[top]
        BY <1>1, <1>2, <2>1 DEF Pairs
      <4>3. top < c => f[top] < f[c]
        BY <1>1, <1>2, <2>1 DEF Pairs
      <4>. QED
        BY <1>2, <2>3, <3>1, <4>1, <4>2, <4>3
    <3>3. menus'[f[c]] = menus[f[c]] /\ charges'[c] = charges[c]
      BY <1>3, <2>1, <2>3, <3>2
    <3>. QED
      BY <1>1, <2>1, <3>3 DEF Pairs
  <2>. QED
    BY <2>2, <2>3
<1>7. \A k \in DOMAIN menus' :
        menus'[k].origin = "cobranca" => \E c \in DOMAIN charges' : f[c] = k
  BY <1>1, <1>3 DEF Pairs, MenusSame, ChargesSame
<1>8. Pairs(f)'
  BY <1>4, <1>5, <1>6, <1>7 DEF Pairs
<1>. QED
  BY <1>8

\* A new question that is no charge's.
LEMMA PairsAppended ==
  ASSUME TypeOK, Matched, NEW row \in MenuRow, row.origin # "cobranca",
         menus' = Append(menus, row), UNCHANGED <<charges, crashes>>
  PROVE  Matched'
<1>. SUFFICES ASSUME crashes' = 0  PROVE  \E f : Pairs(f)'
  BY DEF Matched
<1>1. PICK f : Pairs(f)
  BY DEF Matched
<1>2. /\ DOMAIN menus \subseteq DOMAIN menus'
      /\ \A m \in DOMAIN menus : menus'[m] = menus[m]
      /\ \A m \in DOMAIN menus' \ DOMAIN menus : menus'[m].origin # "cobranca"
  <2>1. menus \in Seq(MenuRow)
    BY TablesTyped
  <2>2. /\ DOMAIN menus = 1 .. Len(menus) /\ Len(menus) \in Nat
        /\ DOMAIN menus' = 1 .. Len(menus) + 1
        /\ \A i \in DOMAIN menus : menus'[i] = menus[i]
        /\ menus'[Len(menus) + 1] = row
    BY <2>1, Appended
  <2>. QED
    BY <2>2
<1>3. /\ f \in [DOMAIN charges' -> DOMAIN menus']
      /\ \A c, e \in DOMAIN charges' : c < e => f[c] < f[e]
  BY <1>1, <1>2 DEF Pairs
<1>4. \A c \in DOMAIN charges' :
        /\ menus'[f[c]].origin = "cobranca"
        /\ menus'[f[c]].item = charges'[c].item
        /\ menus'[f[c]].resolved = charges'[c].responded
  BY <1>1, <1>2 DEF Pairs
<1>5. \A m \in DOMAIN menus' :
        menus'[m].origin = "cobranca" => \E c \in DOMAIN charges' : f[c] = m
  BY <1>1, <1>2 DEF Pairs
<1>6. Pairs(f)'
  BY <1>3, <1>4, <1>5 DEF Pairs
<1>. QED
  BY <1>6

LEMMA MenuRows ==
  ASSUME TypeOK, NEW n \in Nat, NEW q \in [1 .. n -> Chargeable],
         menus' = menus \o [k \in DOMAIN q |-> Menu("cobranca", q[k])]
  PROVE  /\ menus' \in Seq(MenuRow) /\ Len(menus') = Len(menus) + n
         /\ DOMAIN menus' = 1 .. Len(menus) + n
         /\ \A m \in DOMAIN menus : menus'[m] = menus[m]
         /\ \A k \in 1 .. n : menus'[Len(menus) + k] = Menu("cobranca", q[k])
<1>. DEFINE new == [k \in 1 .. n |-> Menu("cobranca", q[k])]
<1>1. menus' = menus \o new
  OBVIOUS
<1>2. Chargeable \subseteq Items
  BY DEF Chargeable, Open
<1>3. new \in [1 .. n -> MenuRow]
  BY <1>2 DEF MenuRow, Menu, Origins
<1>4. \A k \in 1 .. n : new[k] = Menu("cobranca", q[k])
  OBVIOUS
<1>5. menus \in Seq(MenuRow)
  BY TablesTyped
<1>. HIDE DEF new
<1>6. n \in Nat
  OBVIOUS
<1>7. /\ menus \o new \in Seq(MenuRow)
      /\ DOMAIN menus = 1 .. Len(menus) /\ Len(menus) \in Nat
      /\ Len(menus \o new) = Len(menus) + n
      /\ DOMAIN (menus \o new) = 1 .. Len(menus) + n
      /\ \A m \in DOMAIN menus : (menus \o new)[m] = menus[m]
      /\ \A k \in 1 .. n : (menus \o new)[Len(menus) + k] = new[k]
  BY <1>3, <1>5, <1>6, Concatenated, SMTT(60)
<1>. QED
  BY <1>1, <1>4, <1>7

\* New charges with their questions, pair by pair.
LEMMA PairsCharged ==
  ASSUME TypeOK, Matched, NEW n \in Nat, NEW q \in [1 .. n -> Chargeable],
         charges' = Charge(q), crashes' = crashes,
         menus' = menus \o [k \in DOMAIN q |-> Menu("cobranca", q[k])]
  PROVE  Matched'
<1>. SUFFICES ASSUME crashes' = 0  PROVE  \E f : Pairs(f)'
  BY DEF Matched
<1>. DEFINE l == Len(charges)
            w == Len(menus)
<1>1. PICK f : Pairs(f)
  BY DEF Matched
<1>2. /\ l \in Nat /\ w \in Nat
      /\ DOMAIN charges = 1 .. l /\ DOMAIN menus = 1 .. w
      /\ DOMAIN charges' = 1 .. l + n /\ DOMAIN menus' = 1 .. w + n
      /\ \A c \in DOMAIN charges : charges'[c] = charges[c]
      /\ \A m \in DOMAIN menus : menus'[m] = menus[m]
  BY TablesTyped, ChargeRows, MenuRows
<1>3. ASSUME NEW k \in 1 .. n
      PROVE  /\ charges'[l + k].item = q[k] /\ charges'[l + k].responded = FALSE
             /\ menus'[w + k].item = q[k] /\ menus'[w + k].resolved = FALSE
             /\ menus'[w + k].origin = "cobranca"
  <2>1. charges'[l + k] = [item |-> q[k], day |-> day, responded |-> FALSE]
    BY ChargeRows
  <2>2. menus'[w + k] = Menu("cobranca", q[k])
    BY MenuRows
  <2>. QED
    BY <2>1, <2>2 DEF Menu
<1>4. PICK g : g = [c \in 1 .. l + n |-> IF c <= l THEN f[c] ELSE w + (c - l)]
  OBVIOUS
<1>5. ASSUME NEW c \in DOMAIN charges'
      PROVE  /\ c \in Nat
             /\ c <= l => /\ c \in DOMAIN charges /\ g[c] = f[c]
                          /\ f[c] \in 1 .. w
             /\ c > l => c - l \in 1 .. n /\ g[c] = w + (c - l)
  <2>1. c \in 1 .. l + n /\ g[c] = IF c <= l THEN f[c] ELSE w + (c - l)
    BY <1>2, <1>4
  <2>2. CASE c <= l
    <3>1. c \in DOMAIN charges
      BY <1>2, <2>1, <2>2
    <3>2. f[c] \in 1 .. w
      BY <1>1, <1>2, <3>1 DEF Pairs
    <3>. QED
      BY <1>2, <2>1, <2>2, <3>1, <3>2
  <2>3. CASE c > l
    BY <1>2, <2>1, <2>3
  <2>. QED
    BY <1>2, <2>1, <2>2, <2>3
<1>6. g \in [DOMAIN charges' -> DOMAIN menus']
  <2>1. \A c \in 1 .. l + n : g[c] \in DOMAIN menus'
    BY <1>2, <1>5
  <2>. QED
    BY <1>2, <1>4, <2>1
<1>7. ASSUME NEW c \in DOMAIN charges', NEW e \in DOMAIN charges', c < e
      PROVE  g[c] < g[e]
  <2>1. CASE e <= l
    <3>1. c \in DOMAIN charges /\ e \in DOMAIN charges
          /\ g[c] = f[c] /\ g[e] = f[e]
      BY <1>2, <1>5, <1>7, <2>1
    <3>. QED
      BY <1>1, <1>7, <3>1 DEF Pairs
  <2>2. CASE e > l /\ c <= l
    <3>1. g[c] \in 1 .. w
      BY <1>5, <2>2
    <3>2. g[e] = w + (e - l) /\ e - l \in 1 .. n
      BY <1>5, <2>2
    <3>. QED
      BY <1>2, <3>1, <3>2
  <2>3. CASE e > l /\ c > l
    <3>1. g[c] = w + (c - l) /\ g[e] = w + (e - l) /\ c \in Nat /\ e \in Nat
      BY <1>5, <2>3
    <3>. QED
      BY <1>2, <1>7, <3>1
  <2>. QED
    BY <1>2, <1>5, <2>1, <2>2, <2>3
<1>8. ASSUME NEW c \in DOMAIN charges'
      PROVE  /\ menus'[g[c]].origin = "cobranca"
             /\ menus'[g[c]].item = charges'[c].item
             /\ menus'[g[c]].resolved = charges'[c].responded
  <2>1. CASE c <= l
    <3>1. c \in DOMAIN charges /\ g[c] = f[c] /\ f[c] \in DOMAIN menus
      BY <1>2, <1>5, <2>1
    <3>. QED
      BY <1>1, <1>2, <3>1 DEF Pairs
  <2>2. CASE c > l
    <3>. DEFINE k == c - l
    <3>1. k \in 1 .. n /\ g[c] = w + k /\ l + k = c
      BY <1>2, <1>5, <2>2
    <3>. HIDE DEF k
    <3>2. /\ charges'[l + k].item = q[k] /\ charges'[l + k].responded = FALSE
          /\ menus'[w + k].item = q[k] /\ menus'[w + k].resolved = FALSE
          /\ menus'[w + k].origin = "cobranca"
      BY <1>3, <3>1
    <3>. QED
      BY <3>1, <3>2
  <2>. QED
    BY <1>2, <1>5, <2>1, <2>2, SMTT(40)
<1>9. ASSUME NEW m \in DOMAIN menus', menus'[m].origin = "cobranca"
      PROVE  \E c \in DOMAIN charges' : g[c] = m
  <2>1. CASE m \in DOMAIN menus
    <3>1. PICK c \in DOMAIN charges : f[c] = m
      BY <1>1, <1>2, <1>9, <2>1 DEF Pairs
    <3>2. c \in DOMAIN charges' /\ c <= l
      BY <1>2, <3>1
    <3>3. g[c] = f[c]
      BY <1>2, <1>5, <3>2
    <3>. QED
      BY <3>1, <3>2, <3>3
  <2>2. CASE m \notin DOMAIN menus
    <3>. DEFINE c == l + (m - w)
    <3>1. c \in DOMAIN charges' /\ c > l /\ w + (c - l) = m
      BY <1>2, <2>2
    <3>2. g[c] = w + (c - l)
      BY <1>2, <1>5, <3>1
    <3>. QED
      BY <3>1, <3>2
  <2>. QED
    BY <2>1, <2>2
<1>10. Pairs(g)'
  BY <1>6, <1>7, <1>8, <1>9 DEF Pairs
<1>. QED
  BY <1>10

-----------------------------------------------------------------------------
(* Steps that do not handle a digit.                                       *)

MenusGrow ==
  /\ menus' \in Seq(MenuRow) /\ DOMAIN menus \subseteq DOMAIN menus'
  /\ Len(menus') \in Nat /\ Len(menus') >= Len(menus)
  /\ \A m \in DOMAIN menus : menus'[m] = menus[m]
  /\ \A m \in DOMAIN menus' \ DOMAIN menus : ~menus'[m].resolved

AnswerType == [phase : {"none", "arrived", "half", "replying"}, digit : 0 .. 3,
               menu : 0 .. Len(menus), asked : 0 .. Len(menus),
               acted : SUBSET Items, replayed : BOOLEAN]

LEMMA MenusUnchanged ==
  ASSUME TypeOK, UNCHANGED menus  PROVE  MenusGrow /\ MenusSame
  BY TablesTyped DEF MenusGrow, MenusSame

LEMMA ChargesUnchanged ==
  ASSUME TypeOK, UNCHANGED charges  PROVE  ChargesSame
  BY TablesTyped DEF ChargesSame

\* With menus only added, the rest of the state is as well typed as it was.
LEMMA GrowthTyped ==
  ASSUME TypeOK, MenusGrow
  PROVE  /\ outbox \in Seq([menu : 0 .. Len(menus'), day : 1 .. MaxDays])
         /\ seen \in 0 .. Len(menus')
         /\ answer \in AnswerType'
<1>. DEFINE S == [menu : 0 .. Len(menus), day : 1 .. MaxDays]
            T == [menu : 0 .. Len(menus'), day : 1 .. MaxDays]
<1>1. Len(menus) \in Nat /\ 0 .. Len(menus) \subseteq 0 .. Len(menus')
  BY TablesTyped DEF MenusGrow
<1>2. outbox \in Seq(S) /\ S \subseteq T
  BY <1>1 DEF TypeOK
<1>3. outbox \in Seq(T)
  BY ONLY <1>2, Widened
<1>4. seen \in 0 .. Len(menus')
  BY <1>1 DEF TypeOK
<1>5. answer \in AnswerType'
  BY <1>1 DEF TypeOK, AnswerType
<1>. QED
  BY <1>3, <1>4, <1>5

LEMMA AnswerKept ==
  ASSUME TypeOK, AnswerInv, MenusGrow, LoopFree, UNCHANGED <<answer, crashes>>
  PROVE  AnswerInv'
<1>1. answer.phase \notin {"half", "replying"}
  BY DEF LoopFree
<1>2. answer.menu # 0 => answer.menu \in DOMAIN menus
  BY TablesTyped DEF TypeOK
<1>3. AnswerActsOnItsMenu'
  BY <1>2 DEF AnswerInv, AnswerActsOnItsMenu, MenusGrow
<1>. QED
  BY <1>1, <1>3 DEF AnswerInv

LEMMA DecisionsKept ==
  ASSUME TypeOK, DecisionLostOnlyByCrash, MenusGrow, UNCHANGED <<answer, crashes>>
  PROVE  DecisionLostOnlyByCrash'
  BY DEF DecisionLostOnlyByCrash, MenusGrow

\* A step that leaves the two tables, the digit and the crashes alone.
LEMMA WorldKept ==
  ASSUME IInv, LoopFree, TypeOK', ReviewInv', day' >= day,
         UNCHANGED <<menus, charges, answer, crashes>>
  PROVE  IInv'
<1>1. TypeOK /\ day \in Nat /\ day' \in Nat
  BY DEF IInv, TypeOK
<1>2. MenusGrow /\ MenusSame /\ ChargesSame
  BY <1>1, MenusUnchanged, ChargesUnchanged
<1>3. ChargesInv'
  BY <1>1, <1>2, ChargesKept DEF IInv
<1>4. AnswerInv'
  BY <1>1, <1>2, AnswerKept DEF IInv
<1>5. Matched'
  BY <1>1, <1>2, PairsKept DEF IInv
<1>6. DecisionLostOnlyByCrash'
  BY <1>1, <1>2, DecisionsKept DEF IInv
<1>. QED
  BY <1>3, <1>4, <1>5, <1>6 DEF IInv

LEMMA DecisionOfReview ==
  PendingDecision # NoReview =>
    /\ PendingDecision.origin \in {"revisao", "higiene"}
    /\ PendingDecision.item \in Items
<1>1. Open \cap OftenSnoozed \subseteq Items /\ Open \cap overdue \subseteq Items
  BY DEF Open
<1>. QED
  BY <1>1, OldestIsItem DEF PendingDecision, Origins

LEMMA ReviewBeginsStep == ASSUME IInv, ReviewBegins  PROVE  IInv'
<1>1. ReviewInv'
  BY DecisionOfReview DEF ReviewBegins, ReviewInv
<1>2. review' \in [origin : Origins \cup {"none"}, item : Items \cup {0}]
  <2>1. PendingDecision = [origin |-> PendingDecision.origin,
                           item |-> PendingDecision.item]
    BY DEF PendingDecision, NoReview
  <2>. QED
    BY <2>1, DecisionOfReview DEF ReviewBegins, Origins
<1>3. TypeOK'
  BY <1>2 DEF ReviewBegins, IInv, TypeOK
<1>. QED
  BY <1>1, <1>3, WorldKept DEF ReviewBegins, IInv, TypeOK

LEMMA OwnerReadsStep ==
  ASSUME IInv, NEW r \in DOMAIN outbox, OwnerReads(r)  PROVE  IInv'
<1>. DEFINE S == [menu : 0 .. Len(menus), day : 1 .. MaxDays]
<1>1. outbox[r].menu \in 0 .. Len(menus)
  <2>1. outbox \in Seq(S)
    BY DEF IInv, TypeOK
  <2>. HIDE DEF S
  <2>2. outbox[r] \in S
    BY <2>1
  <2>. QED
    BY <2>2 DEF S
<1>2. TypeOK'
  BY <1>1 DEF OwnerReads, IInv, TypeOK
<1>. QED
  BY <1>2, WorldKept, SMTT(40) DEF OwnerReads, IInv, TypeOK, ReviewInv

LEMMA ChangedElsewhereStep ==
  ASSUME IInv, NEW i \in Items, NEW what \in {"close", "snooze"},
         ChangedElsewhere(i, what)
  PROVE  IInv'
<1>1. status' \in [Items -> Statuses] /\ overdue' \subseteq Items
  BY DEF ChangedElsewhere, Changes, IInv, TypeOK, Statuses
<1>2. TypeOK'
  BY <1>1 DEF ChangedElsewhere, IInv, TypeOK
<1>. QED
  BY <1>2, WorldKept DEF ChangedElsewhere, IInv, TypeOK, ReviewInv

LEMMA BecomesOverdueStep ==
  ASSUME IInv, NEW i \in Items, BecomesOverdue(i)  PROVE  IInv'
<1>1. TypeOK'
  BY DEF BecomesOverdue, IInv, TypeOK
<1>. QED
  BY <1>1, WorldKept DEF BecomesOverdue, IInv, TypeOK, ReviewInv

LEMMA MidnightStep == ASSUME IInv, Midnight  PROVE  IInv'
<1>1. MaxDays \in Nat
  BY MenusAssumption
<1>2. TypeOK' /\ day' >= day
  BY <1>1 DEF Midnight, IInv, TypeOK
<1>. QED
  BY <1>2, WorldKept DEF Midnight, IInv, ReviewInv

LEMMA ReviewEndsStep == ASSUME IInv, ReviewEnds  PROVE  IInv'
<1>. DEFINE row == Menu(review.origin, review.item)
<1>1. TypeOK /\ day \in 1 .. MaxDays /\ menus \in Seq(MenuRow)
  BY TablesTyped DEF IInv, TypeOK
<1>2. row \in MenuRow /\ ~row.resolved /\ row.origin = review.origin
  BY DEF ReviewEnds, IInv, ReviewInv, Menu, MenuRow, Origins
<1>3. menus' = Append(menus, row)
  BY DEF ReviewEnds
<1>. HIDE DEF row
<1>4. /\ menus' \in Seq(MenuRow) /\ Len(menus') = Len(menus) + 1
      /\ Len(menus) \in Nat
      /\ DOMAIN menus = 1 .. Len(menus) /\ DOMAIN menus' = 1 .. Len(menus) + 1
      /\ \A m \in DOMAIN menus : menus'[m] = menus[m]
      /\ menus'[Len(menus) + 1] = row
  BY <1>1, <1>2, <1>3, Appended
<1>5. MenusGrow
  BY <1>2, <1>4 DEF MenusGrow
<1>6. TypeOK'
  <2>. DEFINE S == [menu : 0 .. Len(menus'), day : 1 .. MaxDays]
  <2>1. outbox \in Seq(S) /\ Message(Len(menus) + 1) \in S
    BY <1>1, <1>4, <1>5, GrowthTyped DEF Message
  <2>2. outbox' \in Seq(S)
    BY <2>1, Appended DEF ReviewEnds
  <2>3. review' \in [origin : Origins \cup {"none"}, item : Items \cup {0}]
    BY DEF ReviewEnds, NoReview
  <2>4. seen' \in 0 .. Len(menus') /\ answer' \in AnswerType'
    BY <1>1, <1>5, GrowthTyped DEF ReviewEnds
  <2>. QED
    BY <1>1, <1>4, <2>2, <2>3, <2>4 DEF TypeOK, ReviewEnds, AnswerType, MenuRow
<1>7. ReviewInv' /\ UNCHANGED <<charges, answer, crashes, day>> /\ LoopFree
  BY DEF ReviewEnds, ReviewInv
<1>8. ChargesInv'
  BY <1>1, <1>7, ChargesUnchanged, ChargesKept DEF IInv
<1>9. AnswerInv' /\ DecisionLostOnlyByCrash'
  BY <1>1, <1>5, <1>7, AnswerKept, DecisionsKept DEF IInv
<1>10. Matched'
  <2>1. row.origin # "cobranca"
    BY <1>2 DEF ReviewEnds, IInv, ReviewInv
  <2>. QED
    BY <1>1, <1>2, <1>3, <1>7, <2>1, PairsAppended DEF IInv
<1>. QED
  BY <1>6, <1>7, <1>8, <1>9, <1>10 DEF IInv
LEMMA CheckAndSendDueStep == ASSUME IInv, CheckAndSendDue  PROVE  IInv'
<1>. DEFINE n == Budget
            S == [menu : 0 .. Len(menus'), day : 1 .. MaxDays]
<1>1. PICK q \in Batches(n) :
        /\ charges' = Charge(q)
        /\ outbox' = outbox \o [k \in DOMAIN q |-> Message(Len(menus) + k)]
        /\ menus' = menus \o [k \in DOMAIN q |-> Menu("cobranca", q[k])]
  BY DEF CheckAndSendDue
<1>2. TypeOK /\ Len(menus) \in Nat /\ day \in 1 .. MaxDays
      /\ DOMAIN menus = 1 .. Len(menus)
  BY TablesTyped DEF IInv, TypeOK
<1>3. n \in Nat /\ Cardinality(ChargedOn(day)) + n <= DailyChargeCap
  BY <1>2, BudgetFits DEF CheckAndSendDue
<1>4. q \in [1 .. n -> Chargeable] /\ IsInjective(q) /\ DOMAIN q = 1 .. n
  BY <1>1 DEF Batches
<1>5. UNCHANGED <<status, overdue, review, seen, answer, answers, day, crashes>>
      /\ LoopFree
  BY DEF CheckAndSendDue
<1>. HIDE DEF n
<1>6. charges' \in Seq(ChargeRow)
  BY <1>1, <1>2, <1>3, <1>4, ChargeRows
<1>7. /\ menus' \in Seq(MenuRow) /\ Len(menus') = Len(menus) + n
      /\ DOMAIN menus' = 1 .. Len(menus) + n
      /\ \A m \in DOMAIN menus : menus'[m] = menus[m]
      /\ \A k \in 1 .. n : menus'[Len(menus) + k] = Menu("cobranca", q[k])
  BY <1>1, <1>2, <1>3, <1>4, MenuRows
<1>8. MenusGrow
  <2>1. ASSUME NEW m \in DOMAIN menus' \ DOMAIN menus  PROVE  ~menus'[m].resolved
    <3>1. m - Len(menus) \in 1 .. n /\ m = Len(menus) + (m - Len(menus))
      BY <1>2, <1>3, <1>7
    <3>2. menus'[m] = Menu("cobranca", q[m - Len(menus)])
      BY <1>7, <3>1
    <3>. QED
      BY <3>2 DEF Menu
  <2>. QED
    BY <1>2, <1>3, <1>7, <2>1 DEF MenusGrow
<1>9. outbox' \in Seq(S)
  <2>. DEFINE new == [k \in 1 .. n |-> Message(Len(menus) + k)]
  <2>1. outbox \in Seq(S)
    BY <1>2, <1>8, GrowthTyped
  <2>2. new \in [1 .. n -> S]
    BY <1>2, <1>3, <1>7 DEF Message
  <2>3. outbox' = outbox \o new
    BY <1>1, <1>4
  <2>. HIDE DEF new, S
  <2>4. outbox \o new \in Seq(S)
    BY ONLY <1>3, <2>1, <2>2, Concatenated
  <2>. QED
    BY <2>3, <2>4
<1>10. TypeOK'
  BY <1>2, <1>5, <1>6, <1>7, <1>8, <1>9, GrowthTyped
  DEF TypeOK, AnswerType, MenuRow, ChargeRow
<1>11. ChargesInv'
  BY <1>1, <1>2, <1>3, <1>4, <1>5, ChargesAdded DEF IInv
<1>12. Matched'
  BY <1>1, <1>2, <1>3, <1>4, <1>5, PairsCharged DEF IInv
<1>13. AnswerInv' /\ DecisionLostOnlyByCrash'
  BY <1>2, <1>5, <1>8, AnswerKept, DecisionsKept DEF IInv
<1>14. ReviewInv'
  BY <1>5 DEF IInv, ReviewInv
<1>. QED
  BY <1>10, <1>11, <1>12, <1>13, <1>14 DEF IInv

-----------------------------------------------------------------------------
(* The death of the process.                                               *)

\* What the boot makes of the digit: the half that was done stays done.
LEMMA DeathKeeps ==
  ASSUME IInv, Dies, UNCHANGED menus
  PROVE  /\ crashes' \in 0 .. MaxCrashes /\ answer' \in AnswerType'
         /\ review' \in [origin : Origins \cup {"none"}, item : Items \cup {0}]
         /\ AnswerInv' /\ ReviewInv' /\ Matched' /\ DecisionLostOnlyByCrash'
<1>1. /\ crashes \in Nat /\ crashes' = crashes + 1 /\ MaxCrashes \in Nat
      /\ crashes' \in 0 .. MaxCrashes
  BY MenusAssumption, SMTT(40) DEF Dies, IInv, TypeOK
<1>2. Matched' /\ DecisionLostOnlyByCrash'
  BY <1>1 DEF Matched, DecisionLostOnlyByCrash
<1>3. review' \in [origin : Origins \cup {"none"}, item : Items \cup {0}]
      /\ ReviewInv'
  BY DEF Dies, NoReview, ReviewInv
<1>4. /\ answer \in AnswerType /\ AnswerType' = AnswerType
      /\ 0 \in 0 .. Len(menus)
  BY TablesTyped DEF IInv, TypeOK, AnswerType
<1>5. /\ IsFiniteSet(answer.acted) /\ Cardinality(answer.acted) \in Nat
      /\ Cardinality(answer.acted) <= 1 + crashes
  BY FS_CardinalityType DEF IInv, AnswerInv, AnswerActsOnItsMenu
<1>6. CASE answer.phase = "none" /\ answer' = answer
  <2>1. AnswerActsOnItsMenu'
    BY <1>1, <1>5, <1>6 DEF IInv, AnswerInv, AnswerActsOnItsMenu
  <2>. QED
    BY <1>1, <1>2, <1>3, <1>4, <1>6, <2>1 DEF IInv, AnswerInv
<1>7. CASE /\ answer.phase # "none"
           /\ answer' = [answer EXCEPT !.phase = "arrived", !.menu = 0,
                                       !.replayed = TRUE]
  <2>1. /\ answer' \in AnswerType /\ answer'.phase = "arrived"
        /\ answer'.menu = 0 /\ answer'.replayed /\ answer'.acted = answer.acted
        /\ answer'.digit = answer.digit
    BY <1>4, <1>7 DEF AnswerType
  <2>2. AnswerActsOnItsMenu'
    BY <1>1, <1>5, <2>1 DEF AnswerActsOnItsMenu
  <2>3. AnswerInv'
    BY <1>1, <1>5, <1>7, <2>1, <2>2 DEF IInv, AnswerInv
  <2>. QED
    BY <1>1, <1>2, <1>3, <1>4, <2>1, <2>3
<1>8. CASE answer' = NoAnswer
  <2>1. IsFiniteSet({}) /\ Cardinality({}) = 0
    BY FS_EmptySet
  <2>2. /\ answer'.phase = "none" /\ answer'.menu = 0 /\ answer'.acted = {}
        /\ answer' \in AnswerType
    BY <1>4, <1>8 DEF NoAnswer, AnswerType
  <2>3. AnswerActsOnItsMenu'
    BY <1>1, <2>1, <2>2 DEF AnswerActsOnItsMenu
  <2>4. AnswerInv'
    BY <2>1, <2>2, <2>3 DEF AnswerInv
  <2>. QED
    BY <1>1, <1>2, <1>3, <1>4, <2>2, <2>4
<1>. QED
  BY <1>6, <1>7, <1>8 DEF Dies

LEMMA CrashStep == ASSUME IInv, Crash  PROVE  IInv'
<1>1. TypeOK /\ day \in Nat
  BY DEF IInv, TypeOK
<1>2. Dies /\ UNCHANGED <<status, overdue, menus, charges, outbox, seen, answers, day>>
  BY DEF Crash
<1>3. ChargesInv'
  BY <1>1, <1>2, ChargesUnchanged, ChargesKept DEF IInv
<1>4. TypeOK'
  BY <1>1, <1>2, DeathKeeps DEF TypeOK, AnswerType
<1>. QED
  BY <1>2, <1>3, <1>4, DeathKeeps DEF IInv

LEMMA ChargeCutShortStep == ASSUME IInv, ChargeCutShort  PROVE  IInv'
<1>. DEFINE S == [menu : 0 .. Len(menus), day : 1 .. MaxDays]
<1>1. PICK i \in Chargeable :
        /\ charges' = Charge(<<i>>)
        /\ outbox' = outbox \/ outbox' = Append(outbox, Message(0))
  BY DEF ChargeCutShort
<1>2. Dies /\ UNCHANGED <<status, overdue, menus, seen, answers, day>>
  BY DEF ChargeCutShort
<1>3. TypeOK /\ Len(menus) \in Nat /\ day \in 1 .. MaxDays
  BY TablesTyped DEF IInv, TypeOK
<1>4. Budget \in Nat /\ Budget > 0
      /\ Cardinality(ChargedOn(day)) + Budget <= DailyChargeCap
  BY <1>3, BudgetFits DEF ChargeCutShort
<1>5. Cardinality(ChargedOn(day)) + 1 <= DailyChargeCap
  BY <1>3, <1>4, ChargedOnFinite, MenusAssumption
<1>6. <<i>> \in [1 .. 1 -> Chargeable] /\ IsInjective(<<i>>) /\ 1 \in Nat
  BY DEF IsInjective
<1>7. ChargesInv'
  BY <1>1, <1>2, <1>3, <1>5, <1>6, ChargesAdded DEF IInv
<1>8. charges' \in Seq(ChargeRow)
  BY <1>1, <1>3, <1>6, ChargeRows
<1>9. outbox' \in Seq(S)
  <2>1. outbox \in Seq(S) /\ Message(0) \in S
    BY <1>3 DEF TypeOK, Message
  <2>2. Append(outbox, Message(0)) \in Seq(S)
    BY ONLY <2>1, Appended
  <2>. QED
    BY <1>1, <2>1, <2>2
<1>10. TypeOK'
  BY <1>2, <1>3, <1>8, <1>9, DeathKeeps DEF TypeOK, AnswerType, ChargeRow
<1>. QED
  BY <1>2, <1>7, <1>10, DeathKeeps DEF IInv

-----------------------------------------------------------------------------
(* The digit.                                                              *)

LEMMA AnswerMoved ==
  ASSUME answer \in AnswerType, NEW m \in 0 .. Len(menus), NEW A \in SUBSET Items,
         NEW p \in {"none", "arrived", "half", "replying"},
         \/ answer' = [answer EXCEPT !.phase = p, !.menu = m, !.acted = A]
         \/ answer' = [answer EXCEPT !.phase = p, !.menu = m] /\ A = answer.acted
         \/ answer' = [answer EXCEPT !.phase = p, !.acted = A] /\ m = answer.menu
         \/ /\ answer' = [answer EXCEPT !.phase = p]
            /\ m = answer.menu /\ A = answer.acted
  PROVE  /\ answer' \in AnswerType
         /\ answer'.phase = p /\ answer'.menu = m /\ answer'.acted = A
         /\ answer'.digit = answer.digit /\ answer'.replayed = answer.replayed
<1>1. answer' = [phase |-> p, digit |-> answer.digit, menu |-> m,
                 asked |-> answer.asked, acted |-> A,
                 replayed |-> answer.replayed]
  BY DEF AnswerType
<1>2. /\ answer.digit \in 0 .. 3 /\ answer.asked \in 0 .. Len(menus)
      /\ answer.replayed \in BOOLEAN
  BY DEF AnswerType
<1>3. answer' \in AnswerType
  BY <1>1, <1>2 DEF AnswerType
<1>. QED
  BY <1>1, <1>3

\* Where the answer and its menu stand, unfolded once for the steps below.
LEMMA AnswerFacts ==
  ASSUME IInv
  PROVE  /\ TypeOK /\ answer \in AnswerType /\ crashes \in Nat /\ day \in Nat
         /\ IsFiniteSet(answer.acted) /\ Cardinality(answer.acted) \in Nat
         /\ Cardinality(answer.acted) <= 1 + crashes
         /\ answer.phase = "half" => answer.menu \in DOMAIN menus
         /\ FindMostRecentPending # 0 =>
              /\ FindMostRecentPending \in DOMAIN menus
              /\ ~menus[FindMostRecentPending].resolved
  BY NewestMenu, FS_CardinalityType, SMTT(40)
  DEF IInv, TypeOK, AnswerType, AnswerInv, AnswerActsOnItsMenu, PendingMenus

\* The state that a step of the digit leaves alone is as well typed as it was.
LEMMA DigitTyped ==
  ASSUME TypeOK, MenusSame, ChargesSame, status' \in [Items -> Statuses],
         overdue' \subseteq Items, answer' \in AnswerType,
         UNCHANGED <<outbox, review, seen, answers, day, crashes>>
  PROVE  TypeOK'
  BY DEF TypeOK, MenusSame, ChargesSame, AnswerType, MenuRow, ChargeRow

\* A handled digit waits to be marked, having changed the item of its menu.
LEMMA Replying ==
  ASSUME IInv, MenusSame, crashes' = crashes, answer.phase # "none",
         answer' \in AnswerType, answer'.phase = "replying",
         answer'.digit = answer.digit, answer'.replayed = answer.replayed,
         IsFiniteSet(answer'.acted), Cardinality(answer'.acted) <= 1 + crashes,
         ~answer.replayed /\ answer'.menu # 0 =>
           answer'.acted \subseteq {menus[answer'.menu].item}
  PROVE  AnswerInv'
<1>1. answer'.menu # 0 => answer'.menu \in DOMAIN menus
  BY AnswerFacts, TablesTyped DEF AnswerType
<1>2. AnswerActsOnItsMenu'
  BY <1>1 DEF AnswerActsOnItsMenu, MenusSame
<1>3. answer'.digit \in 1 .. 3
  BY DEF IInv, AnswerInv
<1>. QED
  BY <1>2, <1>3 DEF AnswerInv

\* The menu hit is ended with a word on what became of it; no other changes.
LEMMA DecisionEnded ==
  ASSUME IInv, NEW m \in DOMAIN menus, crashes' = crashes, MenusSame,
         menus'[m].done # "no",
         \A k \in DOMAIN menus \ {m} : menus'[k] = menus[k],
         answer.phase = "half" => answer.menu = m
  PROVE  DecisionLostOnlyByCrash'
  BY DEF IInv, DecisionLostOnlyByCrash, MenusSame

LEMMA ApplyTyped ==
  ASSUME TypeOK, NEW m \in DOMAIN menus, NEW d \in 1 .. 3, Apply(m, d)
  PROVE  status' \in [Items -> Statuses] /\ overdue' \subseteq Items
<1>1. menus[m].item \in Items
  BY TablesTyped DEF MenuRow
<1>2. status \in [Items -> Statuses] /\ overdue \subseteq Items
  BY DEF TypeOK
<1>. QED
  BY <1>1, <1>2 DEF Apply, Changes, Statuses

LEMMA OwnerAnswersStep ==
  ASSUME IInv, NEW d \in 1 .. 3, OwnerAnswers(d)  PROVE  IInv'
<1>1. TypeOK /\ day \in Nat /\ crashes \in Nat
  BY AnswerFacts
<1>2. UNCHANGED <<status, overdue, menus, charges, outbox, review, seen, day, crashes>>
  BY DEF OwnerAnswers
<1>3. MenusSame /\ MenusGrow /\ ChargesSame
  BY <1>1, <1>2, MenusUnchanged, ChargesUnchanged
<1>4. /\ answer' \in AnswerType /\ answer'.phase = "arrived"
      /\ answer'.menu = 0 /\ answer'.acted = {} /\ answer'.digit = d
  <2>1. answer' = [phase |-> "arrived", digit |-> d, menu |-> 0, asked |-> seen,
                   acted |-> {}, replayed |-> FALSE]
    BY DEF OwnerAnswers, NoAnswer
  <2>2. seen \in 0 .. Len(menus) /\ 0 \in 0 .. Len(menus) /\ d \in 0 .. 3
    BY <1>1, TablesTyped DEF TypeOK
  <2>. QED
    BY <2>1, <2>2 DEF AnswerType
<1>5. TypeOK'
  <2>1. answers' \in 0 .. MaxAnswers
    <3>1. answers \in 0 .. MaxAnswers /\ MaxAnswers \in Nat
      BY <1>1, MenusAssumption DEF TypeOK
    <3>. QED
      BY <3>1 DEF OwnerAnswers
  <2>. QED
    BY <1>1, <1>2, <1>4, <2>1 DEF TypeOK, AnswerType
<1>6. AnswerInv'
  <2>1. IsFiniteSet({}) /\ Cardinality({}) = 0
    BY FS_EmptySet
  <2>2. AnswerActsOnItsMenu'
    BY <1>1, <1>2, <1>4, <2>1 DEF AnswerActsOnItsMenu
  <2>. QED
    BY <1>1, <1>2, <1>4, <2>1, <2>2 DEF AnswerInv
<1>7. ChargesInv' /\ Matched'
  BY <1>1, <1>2, <1>3, ChargesKept, PairsKept DEF IInv
<1>8. DecisionLostOnlyByCrash'
  BY <1>2 DEF OwnerAnswers, IInv, DecisionLostOnlyByCrash
<1>. QED
  BY <1>2, <1>5, <1>6, <1>7, <1>8 DEF IInv, ReviewInv

LEMMA DigitFallsThroughStep == ASSUME IInv, DigitFallsThrough  PROVE  IInv'
<1>1. TypeOK /\ day \in Nat
  BY AnswerFacts
<1>2. UNCHANGED <<status, overdue, menus, charges, outbox, review, seen,
                  answers, day, crashes>>
  BY DEF DigitFallsThrough
<1>3. MenusSame /\ MenusGrow /\ ChargesSame
  BY <1>1, <1>2, MenusUnchanged, ChargesUnchanged
<1>4. /\ answer.phase = "arrived"
      /\ answer' \in AnswerType /\ answer'.phase = "replying"
      /\ answer'.menu = answer.menu /\ answer'.acted = answer.acted
      /\ answer'.digit = answer.digit /\ answer'.replayed = answer.replayed
  BY AnswerFacts DEF DigitFallsThrough, AnswerType
<1>5. TypeOK'
  BY <1>1, <1>2, <1>3, <1>4, DigitTyped DEF TypeOK
<1>6. AnswerInv'
  BY <1>2, <1>3, <1>4, AnswerFacts, Replying DEF IInv, AnswerInv
<1>7. ChargesInv' /\ Matched'
  BY <1>1, <1>2, <1>3, ChargesKept, PairsKept DEF IInv
<1>8. DecisionLostOnlyByCrash'
  BY <1>2, <1>4 DEF IInv, DecisionLostOnlyByCrash
<1>. QED
  BY <1>2, <1>5, <1>6, <1>7, <1>8 DEF IInv, ReviewInv

LEMMA MarkProcessedStep == ASSUME IInv, MarkProcessed  PROVE  IInv'
<1>1. TypeOK /\ day \in Nat
  BY AnswerFacts
<1>2. UNCHANGED <<status, overdue, menus, charges, outbox, review, seen,
                  answers, day, crashes>>
  BY DEF MarkProcessed
<1>3. MenusSame /\ MenusGrow /\ ChargesSame
  BY <1>1, <1>2, MenusUnchanged, ChargesUnchanged
<1>4. /\ answer.phase = "replying"
      /\ answer' \in AnswerType /\ answer'.phase = "none"
      /\ answer'.menu = answer.menu /\ answer'.acted = answer.acted
      /\ answer'.replayed = answer.replayed
  BY AnswerFacts DEF MarkProcessed, AnswerType
<1>5. TypeOK'
  BY <1>1, <1>2, <1>3, <1>4, DigitTyped DEF TypeOK
<1>6. AnswerInv'
  BY <1>2, <1>4, AnswerFacts DEF IInv, AnswerInv, AnswerActsOnItsMenu
<1>7. ChargesInv' /\ Matched'
  BY <1>1, <1>2, <1>3, ChargesKept, PairsKept DEF IInv
<1>8. DecisionLostOnlyByCrash'
  BY <1>2, <1>4 DEF IInv, DecisionLostOnlyByCrash
<1>. QED
  BY <1>2, <1>5, <1>6, <1>7, <1>8 DEF IInv, ReviewInv
LEMMA ChargeMootStep == ASSUME IInv, ChargeMoot  PROVE  IInv'
<1>. DEFINE m == FindMostRecentPending
<1>1. /\ answer.phase = "arrived" /\ m # 0 /\ menus[m].origin = "cobranca"
      /\ RecordResponse
      /\ answer' = [answer EXCEPT !.phase = "replying", !.menu = m]
      /\ UNCHANGED <<status, overdue, outbox, review, seen, answers, day, crashes>>
  BY DEF ChargeMoot
<1>2. TypeOK /\ day \in Nat /\ m \in DOMAIN menus /\ answer \in AnswerType
      /\ DOMAIN menus = 1 .. Len(menus)
  BY <1>1, AnswerFacts, TablesTyped
<1>. HIDE DEF m
<1>3. /\ MenusSame /\ ChargesSame /\ menus'[m].done # "no"
      /\ \A k \in DOMAIN menus \ {m} : menus'[k] = menus[k]
  BY <1>1, <1>2, Recorded DEF m
<1>4. /\ answer' \in AnswerType /\ answer'.phase = "replying"
      /\ answer'.menu = m /\ answer'.acted = answer.acted
      /\ answer'.digit = answer.digit /\ answer'.replayed = answer.replayed
  <2>1. m \in 0 .. Len(menus) /\ answer.acted \in SUBSET Items
    BY <1>2 DEF AnswerType
  <2>. QED
    BY <1>1, <1>2, <2>1, AnswerMoved
<1>5. TypeOK'
  BY <1>1, <1>2, <1>3, <1>4, DigitTyped DEF TypeOK
<1>6. AnswerInv'
  <2>1. ~answer.replayed => answer'.acted = {}
    BY <1>1, <1>4 DEF IInv, AnswerInv
  <2>. QED
    BY <1>1, <1>3, <1>4, <2>1, AnswerFacts, Replying
<1>7. ChargesInv'
  BY <1>1, <1>2, <1>3, ChargesKept DEF IInv
<1>8. Matched'
  BY <1>1, <1>2, PairsRecorded DEF IInv, m
<1>9. DecisionLostOnlyByCrash'
  BY <1>1, <1>2, <1>3, DecisionEnded
<1>. QED
  BY <1>1, <1>5, <1>6, <1>7, <1>8, <1>9 DEF IInv, ReviewInv

LEMMA ChargeRecordedStep == ASSUME IInv, ChargeRecorded  PROVE  IInv'
<1>. DEFINE m == FindMostRecentPending
<1>1. /\ answer.phase = "half" /\ menus[answer.menu].origin = "cobranca"
      /\ RecordResponse
      /\ answer' = [answer EXCEPT !.phase = "replying"]
      /\ UNCHANGED <<status, overdue, outbox, review, seen, answers, day, crashes>>
  BY DEF ChargeRecorded
<1>2. TypeOK /\ day \in Nat /\ answer \in AnswerType
      /\ DOMAIN menus = 1 .. Len(menus) /\ Len(menus) \in Nat
  BY AnswerFacts, TablesTyped
<1>3. answer.menu = m /\ m \in DOMAIN menus /\ m # 0
  BY <1>1, <1>2 DEF IInv, AnswerInv
<1>. HIDE DEF m
<1>4. /\ MenusSame /\ ChargesSame /\ menus'[m].done # "no"
      /\ \A k \in DOMAIN menus \ {m} : menus'[k] = menus[k]
  BY <1>1, <1>2, <1>3, Recorded DEF m
<1>5. /\ answer' \in AnswerType /\ answer'.phase = "replying"
      /\ answer'.menu = answer.menu /\ answer'.acted = answer.acted
      /\ answer'.digit = answer.digit /\ answer'.replayed = answer.replayed
  BY <1>1, <1>2 DEF AnswerType
<1>6. TypeOK'
  BY <1>1, <1>2, <1>4, <1>5, DigitTyped DEF TypeOK
<1>7. AnswerInv'
  <2>1. ~answer.replayed /\ answer.menu # 0 =>
          answer.acted \subseteq {menus[answer.menu].item}
    BY DEF IInv, AnswerInv, AnswerActsOnItsMenu
  <2>. QED
    BY <1>1, <1>4, <1>5, <2>1, AnswerFacts, Replying
<1>8. ChargesInv'
  BY <1>1, <1>2, <1>4, ChargesKept DEF IInv
<1>9. Matched'
  BY <1>1, <1>2, <1>3, PairsRecorded DEF IInv, m
<1>10. DecisionLostOnlyByCrash'
  BY <1>1, <1>3, <1>4, DecisionEnded
<1>. QED
  BY <1>1, <1>6, <1>7, <1>8, <1>9, <1>10 DEF IInv, ReviewInv

LEMMA ChargeAnsweredStep == ASSUME IInv, ChargeAnswered  PROVE  IInv'
<1>. DEFINE m == FindMostRecentPending
            i == menus[m].item
            row == [menus[m] EXCEPT !.done = "applied"]
<1>1. /\ answer.phase = "arrived" /\ m # 0 /\ menus[m].origin = "cobranca"
      /\ Apply(m, answer.digit)
      /\ menus' = [menus EXCEPT ![m].done = "applied"]
      /\ answer' = [answer EXCEPT !.phase = "half", !.menu = m,
                                  !.acted = @ \cup {i}]
      /\ UNCHANGED <<charges, outbox, review, seen, answers, day, crashes>>
  BY DEF ChargeAnswered
<1>2. TypeOK /\ day \in Nat /\ m \in DOMAIN menus /\ answer \in AnswerType
      /\ DOMAIN menus = 1 .. Len(menus) /\ Len(menus) \in Nat
      /\ crashes \in Nat /\ ~menus[m].resolved
  BY <1>1, AnswerFacts, TablesTyped
<1>3. menus \in Seq(MenuRow) /\ menus[m] \in MenuRow
  BY <1>2, TablesTyped
<1>4. /\ row \in MenuRow /\ row.done = "applied" /\ row.item = menus[m].item
      /\ row.origin = menus[m].origin /\ row.resolved = menus[m].resolved
      /\ menus' = [menus EXCEPT ![m] = row]
  BY <1>1, <1>3 DEF MenuRow
<1>. HIDE DEF row, m
<1>5. /\ menus' \in Seq(MenuRow) /\ Len(menus') = Len(menus)
      /\ DOMAIN menus' = DOMAIN menus /\ menus'[m] = row
      /\ \A k \in DOMAIN menus \ {m} : menus'[k] = menus[k]
  BY ONLY <1>2, <1>3, <1>4, Rewritten
<1>6. /\ MenusSame /\ ChargesSame /\ menus'[m].done # "no"
      /\ \A k \in DOMAIN menus : menus'[k].resolved = menus[k].resolved
  BY <1>1, <1>2, <1>4, <1>5, ChargesUnchanged DEF MenusSame
<1>7. i \in Items
  BY <1>3 DEF MenuRow
<1>8. /\ answer' \in AnswerType /\ answer'.phase = "half"
      /\ answer'.menu = m /\ answer'.acted = answer.acted \cup {i}
      /\ answer'.digit = answer.digit /\ answer'.replayed = answer.replayed
  <2>1. m \in 0 .. Len(menus) /\ answer.acted \cup {i} \in SUBSET Items
    BY <1>2, <1>7 DEF AnswerType
  <2>. QED
    BY <1>1, <1>2, <2>1, AnswerMoved, ZenonT(60)
<1>9. answer.digit \in 1 .. 3 /\ IsFiniteSet(answer.acted)
      /\ Cardinality(answer.acted) <= crashes
      /\ (~answer.replayed => answer.acted = {})
  BY <1>1 DEF IInv, AnswerInv
<1>10. TypeOK'
  <2>1. status' \in [Items -> Statuses] /\ overdue' \subseteq Items
    BY <1>1, <1>2, <1>9, ApplyTyped
  <2>. QED
    BY <1>1, <1>2, <1>6, <1>8, <2>1, DigitTyped
<1>11. AnswerInv'
  <2>1. IsFiniteSet(answer'.acted) /\ Cardinality(answer'.acted) <= 1 + crashes
    <3>1. Cardinality(answer.acted) \in Nat
      BY <1>9, FS_CardinalityType
    <3>2. /\ IsFiniteSet(answer.acted \cup {i})
          /\ Cardinality(answer.acted \cup {i}) =
               IF i \in answer.acted THEN Cardinality(answer.acted)
               ELSE Cardinality(answer.acted) + 1
      BY <1>9, FS_AddElement
    <3>. QED
      BY <1>2, <1>8, <1>9, <3>1, <3>2
  <2>2. FindMostRecentPending' = m
    <3>1. PendingMenus' = PendingMenus
      BY <1>5, <1>6 DEF PendingMenus
    <3>. QED
      BY <3>1 DEF FindMostRecentPending, m
  <2>3. AnswerActsOnItsMenu'
    BY <1>1, <1>2, <1>6, <1>8, <1>9, <2>1 DEF AnswerActsOnItsMenu, MenusSame
  <2>. QED
    BY <1>1, <1>2, <1>6, <1>8, <1>9, <2>1, <2>2, <2>3 DEF AnswerInv, MenusSame
<1>12. ChargesInv' /\ Matched'
  BY <1>1, <1>2, <1>6, ChargesKept, PairsKept DEF IInv
<1>13. DecisionLostOnlyByCrash'
  BY <1>1, <1>2, <1>5, <1>6, DecisionEnded
<1>. QED
  BY <1>1, <1>10, <1>11, <1>12, <1>13 DEF IInv, ReviewInv

LEMMA DecisionAnsweredStep == ASSUME IInv, DecisionAnswered  PROVE  IInv'
<1>. DEFINE m == FindMostRecentPending
            row == [menus[m] EXCEPT !.resolved = TRUE]
<1>1. /\ answer.phase = "arrived" /\ m # 0
      /\ menus[m].origin \in {"revisao", "higiene"}
      /\ menus' = [menus EXCEPT ![m].resolved = TRUE]
      /\ answer' = [answer EXCEPT !.phase = "half", !.menu = m]
      /\ UNCHANGED <<status, overdue, charges, outbox, review, seen, answers,
                     day, crashes>>
  BY DEF DecisionAnswered
<1>2. TypeOK /\ day \in Nat /\ m \in DOMAIN menus /\ answer \in AnswerType
      /\ DOMAIN menus = 1 .. Len(menus) /\ Len(menus) \in Nat
      /\ crashes \in Nat
  BY <1>1, AnswerFacts, TablesTyped
<1>3. menus \in Seq(MenuRow) /\ menus[m] \in MenuRow
  BY <1>2, TablesTyped
<1>4. /\ row \in MenuRow /\ row.resolved /\ row.item = menus[m].item
      /\ row.origin = menus[m].origin
      /\ menus' = [menus EXCEPT ![m] = row]
  BY <1>1, <1>3 DEF MenuRow
<1>. HIDE DEF row, m
<1>5. /\ menus' \in Seq(MenuRow) /\ Len(menus') = Len(menus)
      /\ DOMAIN menus' = DOMAIN menus /\ menus'[m] = row
      /\ \A k \in DOMAIN menus \ {m} : menus'[k] = menus[k]
  BY ONLY <1>2, <1>3, <1>4, Rewritten
<1>6. MenusSame /\ ChargesSame
  BY <1>1, <1>2, <1>4, <1>5, ChargesUnchanged DEF MenusSame
<1>7. /\ answer' \in AnswerType /\ answer'.phase = "half"
      /\ answer'.menu = m /\ answer'.acted = answer.acted
      /\ answer'.digit = answer.digit /\ answer'.replayed = answer.replayed
  <2>1. m \in 0 .. Len(menus) /\ answer.acted \in SUBSET Items
    BY <1>2 DEF AnswerType
  <2>. QED
    BY <1>1, <1>2, <2>1, AnswerMoved
<1>8. answer.digit \in 1 .. 3 /\ IsFiniteSet(answer.acted)
      /\ Cardinality(answer.acted) <= crashes
      /\ (~answer.replayed => answer.acted = {})
  BY <1>1 DEF IInv, AnswerInv
<1>9. TypeOK'
  BY <1>1, <1>2, <1>6, <1>7, DigitTyped DEF TypeOK
<1>10. AnswerInv'
  <2>1. AnswerActsOnItsMenu'
    BY <1>1, <1>2, <1>7, <1>8, AnswerFacts DEF AnswerActsOnItsMenu
  <2>2. menus'[m].resolved /\ menus'[m].origin # "cobranca"
    BY <1>1, <1>4, <1>5
  <2>. QED
    BY <1>1, <1>2, <1>5, <1>7, <1>8, <2>1, <2>2 DEF AnswerInv
<1>11. ChargesInv'
  BY <1>1, <1>2, <1>6, ChargesKept DEF IInv
<1>12. Matched'
  <2>1. \A k \in DOMAIN menus : menus[k].origin = "cobranca" =>
          menus'[k].resolved = menus[k].resolved
    BY <1>1, <1>5
  <2>. QED
    BY <1>1, <1>2, <1>6, <2>1, PairsKept DEF IInv
<1>13. DecisionLostOnlyByCrash'
  BY <1>1, <1>5, <1>7 DEF IInv, DecisionLostOnlyByCrash
<1>. QED
  BY <1>1, <1>9, <1>10, <1>11, <1>12, <1>13 DEF IInv, ReviewInv

LEMMA DecisionAppliedStep == ASSUME IInv, DecisionApplied  PROVE  IInv'
<1>. DEFINE m == answer.menu
            i == menus[m].item
<1>1. /\ answer.phase = "half" /\ menus[m].origin \in {"revisao", "higiene"}
      /\ UNCHANGED <<charges, outbox, review, seen, answers, day, crashes>>
  BY DEF DecisionApplied
<1>2. TypeOK /\ day \in Nat /\ m \in DOMAIN menus /\ answer \in AnswerType
      /\ crashes \in Nat
  BY <1>1, AnswerFacts
<1>3. answer.digit \in 1 .. 3 /\ IsFiniteSet(answer.acted)
      /\ Cardinality(answer.acted) <= crashes
      /\ (~answer.replayed => answer.acted = {})
  BY <1>1 DEF IInv, AnswerInv
<1>4. \/ /\ Apply(m, answer.digit) /\ menus' = Resolved(m, "applied")
         /\ answer' = [answer EXCEPT !.phase = "replying",
                                     !.acted = @ \cup {i}]
      \/ /\ menus' = Resolved(m, "moot") /\ UNCHANGED <<status, overdue>>
         /\ answer' = [answer EXCEPT !.phase = "replying"]
  BY DEF DecisionApplied, EffectTarget
<1>5. status' \in [Items -> Statuses] /\ overdue' \subseteq Items
  <2>1. CASE Apply(m, answer.digit)
    BY <1>2, <1>3, <2>1, ApplyTyped
  <2>2. CASE UNCHANGED <<status, overdue>>
    BY <1>2, <2>2, SMTT(40) DEF TypeOK
  <2>. QED
    BY <1>4, <2>1, <2>2
<1>6. /\ MenusSame /\ menus'[m].done # "no"
      /\ \A k \in DOMAIN menus \ {m} : menus'[k] = menus[k]
  BY <1>2, <1>4, ResolvedRows
<1>7. i \in Items
  BY <1>2, TablesTyped DEF MenuRow
<1>8. /\ answer' \in AnswerType /\ answer'.phase = "replying"
      /\ answer'.menu = m
      /\ answer'.acted = answer.acted \/ answer'.acted = answer.acted \cup {i}
      /\ answer'.digit = answer.digit /\ answer'.replayed = answer.replayed
  <2>1. /\ m \in 0 .. Len(menus) /\ answer.acted \in SUBSET Items
        /\ answer.acted \cup {i} \in SUBSET Items
    <3>1. m \in 1 .. Len(menus) /\ Len(menus) \in Nat
      BY <1>2, TablesTyped
    <3>2. answer.acted \in SUBSET Items
      BY <1>2 DEF AnswerType
    <3>. QED
      BY <1>7, <3>1, <3>2
  <2>2. CASE answer' = [answer EXCEPT !.phase = "replying", !.acted = @ \cup {i}]
    <3>1. answer' = [answer EXCEPT !.phase = "replying",
                                   !.acted = answer.acted \cup {i}]
      BY <1>2, <2>2 DEF AnswerType
    <3>. QED
      BY <1>2, <2>1, <3>1, AnswerMoved
  <2>3. CASE answer' = [answer EXCEPT !.phase = "replying"]
    BY <1>2, <2>1, <2>3, AnswerMoved
  <2>. QED
    BY <1>4, <2>2, <2>3
<1>9. ChargesSame
  BY <1>1, <1>2, ChargesUnchanged
<1>10. TypeOK'
  BY <1>1, <1>2, <1>5, <1>6, <1>8, <1>9, DigitTyped
<1>11. IsFiniteSet(answer'.acted) /\ Cardinality(answer'.acted) <= 1 + crashes
  <2>1. Cardinality(answer.acted) \in Nat
    BY <1>3, FS_CardinalityType
  <2>2. /\ IsFiniteSet(answer.acted \cup {i})
        /\ Cardinality(answer.acted \cup {i}) =
             IF i \in answer.acted THEN Cardinality(answer.acted)
             ELSE Cardinality(answer.acted) + 1
    BY <1>3, FS_AddElement
  <2>. QED
    BY <1>2, <1>3, <1>8, <2>1, <2>2
<1>12. AnswerInv'
  <2>1. ~answer.replayed => answer'.acted \subseteq {i}
    BY <1>3, <1>8
  <2>2. ~answer.replayed /\ answer'.menu # 0 =>
          answer'.acted \subseteq {menus[answer'.menu].item}
    BY <1>8, <2>1
  <2>. QED
    BY <1>1, <1>6, <1>8, <1>11, <2>2, Replying
<1>13. ChargesInv'
  BY <1>1, <1>2, <1>9, ChargesKept DEF IInv
<1>14. Matched'
  <2>1. \A k \in DOMAIN menus : menus[k].origin = "cobranca" =>
          menus'[k].resolved = menus[k].resolved
    BY <1>1, <1>6
  <2>. QED
    BY <1>1, <1>2, <1>6, <2>1, PairsKept DEF IInv
<1>15. DecisionLostOnlyByCrash'
  BY <1>1, <1>2, <1>6, DecisionEnded
<1>. QED
  BY <1>1, <1>10, <1>12, <1>13, <1>14, <1>15 DEF IInv, ReviewInv

-----------------------------------------------------------------------------
(* The invariant.                                                          *)

LEMMA InitInv == ASSUME Init  PROVE  IInv
<1>1. TypeOK
  BY MenusAssumption
  DEF Init, TypeOK, NoReview, NoAnswer, Statuses
<1>2. \A d : ChargedOn(d) = {}
  BY DEF Init, ChargedOn
<1>3. DailyChargeCap \in Nat /\ Cardinality({}) = 0 /\ IsFiniteSet({})
  BY FS_EmptySet, MenusAssumption
<1>4. ChargesInv
  <2>1. OncePerDay
    BY <1>2, <1>3 DEF OncePerDay
  <2>2. DOMAIN charges = {}
    BY DEF Init
  <2>. QED
    BY <2>1, <2>2 DEF ChargesInv
<1>5. AnswerInv
  BY <1>3 DEF Init, AnswerInv, AnswerActsOnItsMenu, NoAnswer
<1>6. Matched
  <2>1. Pairs(<<>>)
    BY DEF Init, Pairs
  <2>. QED
    BY <2>1 DEF Matched
<1>7. ReviewInv /\ DecisionLostOnlyByCrash
  BY DEF Init, ReviewInv, DecisionLostOnlyByCrash
<1>. QED
  BY <1>1, <1>4, <1>5, <1>6, <1>7 DEF IInv

LEMMA StutterStep == ASSUME IInv, UNCHANGED vars  PROVE  IInv'
<1>1. TypeOK /\ day \in Nat /\ UNCHANGED <<menus, charges, answer, crashes, day>>
  BY DEF IInv, TypeOK, vars
<1>2. MenusGrow /\ MenusSame /\ ChargesSame
  BY <1>1, MenusUnchanged, ChargesUnchanged
<1>3. TypeOK' /\ ReviewInv'
  BY DEF IInv, TypeOK, ReviewInv, vars
<1>4. ChargesInv' /\ Matched' /\ DecisionLostOnlyByCrash'
  BY <1>1, <1>2, ChargesKept, PairsKept, DecisionsKept DEF IInv
<1>5. AnswerInv'
  BY <1>1 DEF IInv, AnswerInv, AnswerActsOnItsMenu, FindMostRecentPending,
              PendingMenus
<1>. QED
  BY <1>3, <1>4, <1>5 DEF IInv

LEMMA NextStep == ASSUME IInv, [Next]_vars  PROVE  IInv'
<1>1. CASE CheckAndSendDue \/ ReviewBegins \/ ReviewEnds
  BY <1>1, CheckAndSendDueStep, ReviewBeginsStep, ReviewEndsStep
<1>2. CASE \E r \in DOMAIN outbox : OwnerReads(r)
  BY <1>2, OwnerReadsStep
<1>3. CASE \E d \in 1 .. 3 : OwnerAnswers(d)
  BY <1>3, OwnerAnswersStep
<1>4. CASE DigitFallsThrough \/ ChargeMoot \/ ChargeAnswered \/ ChargeRecorded
  BY <1>4, DigitFallsThroughStep, ChargeMootStep, ChargeAnsweredStep,
     ChargeRecordedStep
<1>5. CASE DecisionAnswered \/ DecisionApplied \/ MarkProcessed
  BY <1>5, DecisionAnsweredStep, DecisionAppliedStep, MarkProcessedStep
<1>6. CASE \E i \in Items :
             \/ \E what \in {"close", "snooze"} : ChangedElsewhere(i, what)
             \/ BecomesOverdue(i)
  BY <1>6, ChangedElsewhereStep, BecomesOverdueStep
<1>7. CASE Midnight \/ Crash \/ ChargeCutShort
  BY <1>7, MidnightStep, CrashStep, ChargeCutShortStep
<1>8. CASE UNCHANGED vars
  BY <1>8, StutterStep
<1>. QED
  BY <1>1, <1>2, <1>3, <1>4, <1>5, <1>6, <1>7, <1>8 DEF Next

\* The invariant holds in every state, whatever the order of charges, reviews,
\* digits and crashes.
THEOREM MenusInvariance == Spec => []IInv
<1>1. Init => IInv
  BY InitInv
<1>2. IInv /\ [Next]_vars => IInv'
  BY NextStep
<1>. QED
  BY <1>1, <1>2, PTL DEF Spec

\* Rows of the tables and the digit under way are what the queries expect.
THEOREM MenusTypeCorrect == Spec => []TypeOK
<1>1. IInv => TypeOK
  BY DEF IInv
<1>. QED
  BY <1>1, MenusInvariance, PTL

\* No day exceeds its cap of charges and no item is charged twice in it.
THEOREM OncePerDayTheorem == Spec => []OncePerDay
<1>1. IInv => OncePerDay
  BY DEF IInv, ChargesInv
<1>. QED
  BY <1>1, MenusInvariance, PTL

\* A digit changes the item of the menu it hit and no other, but for one more
\* by crash and replay of its message.
THEOREM AnswerActsOnItsMenuTheorem == Spec => []AnswerActsOnItsMenu
<1>1. IInv => AnswerActsOnItsMenu
  BY DEF IInv, AnswerInv
<1>. QED
  BY <1>1, MenusInvariance, PTL

\* While nothing has crashed, the charges without a response are those of the
\* pending menus, in the same order: the two queries of recordResponse end a
\* menu and its own charge.
THEOREM MenusMatchChargesTheorem == Spec => []MenusMatchCharges
<1>1. ASSUME IInv  PROVE  MenusMatchCharges
  <2>. DEFINE asked == {m \in PendingMenus : menus[m].origin = "cobranca"}
  <2>. SUFFICES ASSUME crashes = 0
       PROVE  \E g \in [PendingCharges -> asked] :
                /\ \A m \in asked : \E c \in PendingCharges : g[c] = m
                /\ \A c, e \in PendingCharges : c < e => g[c] < g[e]
                /\ \A c \in PendingCharges : charges[c].item = menus[g[c]].item
    BY DEF MenusMatchCharges
  <2>1. PICK f : Pairs(f)
    BY <1>1 DEF IInv, Matched
  <2>. DEFINE g == [c \in PendingCharges |-> f[c]]
  <2>2. \A c \in PendingCharges : c \in DOMAIN charges /\ f[c] \in asked
    BY <2>1 DEF Pairs, PendingCharges, PendingMenus
  <2>3. g \in [PendingCharges -> asked]
    BY <2>2
  <2>4. ASSUME NEW m \in asked  PROVE  \E c \in PendingCharges : g[c] = m
    <3>1. m \in DOMAIN menus /\ ~menus[m].resolved /\ menus[m].origin = "cobranca"
      BY DEF PendingMenus
    <3>2. PICK c \in DOMAIN charges : f[c] = m
      BY <2>1, <3>1 DEF Pairs
    <3>3. c \in PendingCharges
      BY <2>1, <3>1, <3>2 DEF Pairs, PendingCharges
    <3>. QED
      BY <3>2, <3>3
  <2>5. \A c, e \in PendingCharges : c < e => g[c] < g[e]
    BY <2>1, <2>2 DEF Pairs
  <2>6. \A c \in PendingCharges : charges[c].item = menus[g[c]].item
    BY <2>1, <2>2 DEF Pairs
  <2>. QED
    BY <2>3, <2>4, <2>5, <2>6
<1>. QED
  BY <1>1, MenusInvariance, PTL

\* Only a crash between its two writes loses the owner's decision.
THEOREM DecisionLostTheorem == Spec => []DecisionLostOnlyByCrash
<1>1. IInv => DecisionLostOnlyByCrash
  BY DEF IInv
<1>. QED
  BY <1>1, MenusInvariance, PTL

\* A handled digit has closed the menu it hit.
THEOREM AnswerClosesMenuTheorem == Spec => AnswerClosesMenu
<1>. DEFINE Closes == answer.phase # "replying" /\ answer'.phase = "replying"
                        /\ answer'.menu # 0 => menus'[answer'.menu].resolved
<1>1. ASSUME IInv, Next, answer.phase # "replying", answer'.phase = "replying",
             answer'.menu # 0
      PROVE  menus'[answer'.menu].resolved
  <2>1. TypeOK /\ answer \in AnswerType
    BY <1>1, AnswerFacts
  <2>2. CASE ChargeMoot
    BY <1>1, <2>1, <2>2, Recorded DEF ChargeMoot, AnswerType
  <2>3. CASE ChargeRecorded
    <3>1. answer.menu = FindMostRecentPending /\ answer'.menu = answer.menu
      BY <1>1, <2>1, <2>3 DEF ChargeRecorded, AnswerType, IInv, AnswerInv
    <3>. QED
      BY <1>1, <2>1, <2>3, <3>1, Recorded DEF ChargeRecorded
  <2>4. CASE DecisionApplied
    <3>1. answer.menu \in DOMAIN menus
      BY <1>1, <2>4 DEF DecisionApplied, IInv, AnswerInv
    <3>2. answer'.menu = answer.menu
      BY <2>1, <2>4 DEF DecisionApplied, AnswerType
    <3>3. \E what \in {"applied", "moot"} : menus' = Resolved(answer.menu, what)
      BY <2>4 DEF DecisionApplied, EffectTarget
    <3>. QED
      BY <2>1, <3>1, <3>2, <3>3, ResolvedRows
  <2>5. CASE DigitFallsThrough
    <3>1. answer.menu = 0 /\ answer'.menu = answer.menu
      BY <1>1, <2>1, <2>5 DEF DigitFallsThrough, AnswerType, IInv, AnswerInv
    <3>. QED
      BY <1>1, <3>1
  <2>6. CASE ChargeAnswered \/ DecisionAnswered \/ MarkProcessed
    <3>1. answer'.phase \in {"half", "none"}
      BY <2>1, <2>6 DEF ChargeAnswered, DecisionAnswered, MarkProcessed, AnswerType
    <3>. QED
      BY <1>1, <3>1
  <2>7. CASE Crash \/ ChargeCutShort
    <3>1. answer' = answer \/ answer'.phase = "arrived" \/ answer' = NoAnswer
      BY <2>1, <2>7 DEF Crash, ChargeCutShort, Dies, AnswerType
    <3>. QED
      BY <1>1, <3>1 DEF NoAnswer
  <2>8. CASE \E d \in 1 .. 3 : OwnerAnswers(d)
    <3>1. answer'.phase = "arrived"
      BY <2>8 DEF OwnerAnswers, NoAnswer
    <3>. QED
      BY <1>1, <3>1
  <2>9. CASE \/ CheckAndSendDue \/ ReviewBegins \/ ReviewEnds \/ Midnight
             \/ \E r \in DOMAIN outbox : OwnerReads(r)
             \/ \E i \in Items :
                  \/ \E what \in {"close", "snooze"} : ChangedElsewhere(i, what)
                  \/ BecomesOverdue(i)
    <3>1. answer' = answer
      BY <2>9 DEF CheckAndSendDue, ReviewBegins, ReviewEnds, Midnight, OwnerReads,
                  ChangedElsewhere, BecomesOverdue
    <3>. QED
      BY <1>1, <3>1
  <2>. QED
    BY <1>1, <2>2, <2>3, <2>4, <2>5, <2>6, <2>7, <2>8, <2>9 DEF Next
<1>2. ASSUME UNCHANGED vars  PROVE  Closes
  BY <1>2 DEF vars
<1>3. IInv /\ [Next]_vars => [Closes]_vars
  BY <1>1, <1>2
<1>. QED
  BY <1>3, MenusInvariance, PTL DEF Spec, AnswerClosesMenu

=============================================================================
