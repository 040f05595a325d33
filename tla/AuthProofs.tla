----------------------------- MODULE AuthProofs -----------------------------
(***************************************************************************)
(* Theorems about Authentication, for any requests, keys, burst, rate and  *)
(* number of hash threads: AuthInv is inductive, and with it attempts stay *)
(* within the bucket, slots are accounted for and grants are current.      *)
(***************************************************************************)
EXTENDS Authentication, FiniteSetTheorems, TLAPS

(* The hashes that hold a slot.                                            *)
Held == {r \in Request : future[r] \in {"queued", "running"}}

-----------------------------------------------------------------------------
(* Arithmetic of the bucket.                                               *)
LEMMA ProductIsNat == Burst * Cost \in Nat /\ Burst * Cost >= Cost
<1>1. \A m, n \in Nat \ {0} : m * n \in Nat /\ m * n >= n
  BY SMT
<1> QED
  BY <1>1, AuthAssumption

LEMMA OneMoreCosts == \A c, d \in Int : c * (d + 1) = c * d + c
BY SMT

LEMMA RefilledBounds ==
    ASSUME AuthTypeOK
    PROVE  /\ Refilled \in Nat /\ Refilled <= Burst * Cost
           /\ Refilled <= tokens + (now - updated)
<1>1. tokens \in Nat /\ now \in Nat /\ updated \in Nat /\ updated <= now
  BY AuthAssumption, ProductIsNat DEF AuthTypeOK
<1> QED
  BY <1>1, ProductIsNat DEF Refilled, Least

(* Slots and their hashes.                                                 *)
LEMMA HeldFinite == IsFiniteSet(Held) /\ Cardinality(Held) \in Nat
<1>1. Held \subseteq Request
  BY DEF Held
<1> QED
  BY <1>1, AuthAssumption, FS_Subset, FS_CardinalityType

LEMMA HeldAsSlots == SlotsAccounted <=> slots + Cardinality(Held) = Workers
BY DEF SlotsAccounted, Held

LEMMA HeldUnchanged ==
    ASSUME SlotsAccounted, UNCHANGED <<slots, future>>
    PROVE  SlotsAccounted'
BY DEF SlotsAccounted

LEMMA BucketUnchanged ==
    ASSUME BucketHeld, UNCHANGED <<now, tokens, updated, admitted, before>>
    PROVE  BucketHeld'
BY DEF BucketHeld

LEMMA RowsUnchanged ==
    ASSUME RowsHeld, UNCHANGED <<spent, revoked, handler>>
    PROVE  RowsHeld'
BY DEF RowsHeld

LEMMA GrantsUnchanged ==
    ASSUME GrantsAreCurrent, UNCHANGED <<spent, granted, handler>>
    PROVE  GrantsAreCurrent'
BY DEF GrantsAreCurrent

-----------------------------------------------------------------------------
(* What a step of handler r leaves of the facts about rows and grants.     *)
LEMMA StepType ==
    ASSUME AuthTypeOK, NEW r \in Request, NEW s \in HandlerState, Step(r, s)
    PROVE  handler' \in [Request -> HandlerState]
BY DEF AuthTypeOK, Step

LEMMA StepRows ==
    ASSUME AuthTypeOK, RowsHeld, NEW r \in Request, NEW s, Step(r, s),
           UNCHANGED <<spent, revoked>>,
           s.pc # "charge",
           s.row = "active" => KeyOf[r] \in Key /\ KeyOf[r] \notin spent[r]
    PROVE  RowsHeld'
<1> SUFFICES ASSUME NEW x \in Request
             PROVE  /\ spent[x] \subseteq revoked
                    /\ handler'[x].pc = "charge" =>
                          handler'[x].row = "none" /\ handler'[x].answer = "none"
                    /\ handler'[x].row = "active" => KeyOf[x] \in Key /\ KeyOf[x] \notin spent[x]
  BY DEF RowsHeld
<1>1. spent[x] \subseteq revoked
  BY DEF RowsHeld
<1>2. CASE x = r
  <2>1. handler'[x] = s
    BY <1>2 DEF Step, AuthTypeOK
  <2> QED
    BY <1>1, <1>2, <2>1
<1>3. CASE x # r
  <2>1. handler'[x] = handler[x]
    BY <1>3 DEF Step, AuthTypeOK
  <2> QED
    BY <1>1, <2>1 DEF RowsHeld
<1> QED
  BY <1>2, <1>3

LEMMA StepGrants ==
    ASSUME AuthTypeOK, GrantsAreCurrent, NEW r \in Request, NEW s, Step(r, s),
           UNCHANGED <<spent, granted>>,
           s.answer = "granted" => handler[r].answer = "granted"
    PROVE  GrantsAreCurrent'
<1> SUFFICES ASSUME NEW x \in Request, handler'[x].answer = "granted"
             PROVE  handler[x].answer = "granted"
  BY DEF GrantsAreCurrent
<1>1. CASE x = r
  <2>1. handler'[x] = s
    BY <1>1 DEF Step, AuthTypeOK
  <2> QED
    BY <1>1, <2>1
<1>2. CASE x # r
  <2>1. handler'[x] = handler[x]
    BY <1>2 DEF Step, AuthTypeOK
  <2> QED
    BY <2>1
<1> QED
  BY <1>1, <1>2

(* Answers other than a grant keep both facts.                             *)
LEMMA AnswerKeeps ==
    ASSUME AuthTypeOK, RowsHeld, GrantsAreCurrent, NEW r \in Request,
           NEW a \in AuthAnswers \ {"granted"}, AnswerWith(r, a),
           UNCHANGED <<spent, revoked, granted>>
    PROVE  handler' \in [Request -> HandlerState] /\ RowsHeld' /\ GrantsAreCurrent'
<1> DEFINE s == [handler[r] EXCEPT !.pc = "answered", !.answer = a]
<1>1. s \in HandlerState /\ s.pc = "answered" /\ s.answer = a /\ s.row = handler[r].row
  <2>1. handler[r] \in HandlerState
    BY DEF AuthTypeOK
  <2> QED
    BY <2>1 DEF HandlerState, AuthAnswers
<1>2. Step(r, s)
  BY DEF AnswerWith
<1>3. s.row = "active" => KeyOf[r] \in Key /\ KeyOf[r] \notin spent[r]
  BY <1>1 DEF RowsHeld
<1> HIDE DEF s
<1> QED
  BY <1>1, <1>2, <1>3, StepType, StepRows, StepGrants

(* So does a move to the next step.                                        *)
LEMMA MoveKeeps ==
    ASSUME AuthTypeOK, RowsHeld, GrantsAreCurrent, NEW r \in Request,
           NEW p \in {"load", "submit", "await", "gone"},
           Step(r, [handler[r] EXCEPT !.pc = p]),
           UNCHANGED <<spent, revoked, granted>>
    PROVE  handler' \in [Request -> HandlerState] /\ RowsHeld' /\ GrantsAreCurrent'
<1> DEFINE s == [handler[r] EXCEPT !.pc = p]
<1>1. s \in HandlerState /\ s.pc = p /\ s.answer = handler[r].answer /\ s.row = handler[r].row
  <2>1. handler[r] \in HandlerState
    BY DEF AuthTypeOK
  <2> QED
    BY <2>1 DEF HandlerState
<1>2. Step(r, s)
  OBVIOUS
<1>3. s.row = "active" => KeyOf[r] \in Key /\ KeyOf[r] \notin spent[r]
  BY <1>1 DEF RowsHeld
<1> HIDE DEF s
<1> QED
  BY <1>1, <1>2, <1>3, StepType, StepRows, StepGrants

-----------------------------------------------------------------------------
(* The bucket and the budget start full.                                   *)
LEMMA AuthInitial == AuthInit => AuthInv
<1> SUFFICES ASSUME AuthInit PROVE AuthInv
  OBVIOUS
<1> USE DEF AuthInit
<1>1. AuthTypeOK
  <2>1. handler \in [Request -> HandlerState]
    BY DEF HandlerState
  <2>2. now \in 0..MaxTime /\ updated \in 0..now /\ tokens \in 0..(Burst * Cost)
        /\ slots \in 0..Workers
    BY AuthAssumption, ProductIsNat
  <2>3. received \in [Request -> 0..MaxTime] /\ granted \in [Request -> 0..MaxTime]
    BY AuthAssumption
  <2> QED
    BY <2>1, <2>2, <2>3 DEF AuthTypeOK, FutureStates
<1>2. BucketHeld
  <2> SUFFICES ASSUME NEW t \in 0..now
               PROVE  IF t <= updated
                      THEN Cost * (admitted - before[t]) + tokens
                             <= Burst * Cost + (updated - t)
                      ELSE admitted = before[t]
    BY DEF BucketHeld
  <2>1. \A c \in Nat : c * 0 = 0
    BY SMT
  <2>2. t = 0 /\ t <= updated /\ updated - t = 0
    <3>1. now = 0 /\ updated = 0
      OBVIOUS
    <3> HIDE DEF AuthInit
    <3>2. t \in 0..0
      BY <3>1
    <3>3. t = 0
      BY <3>2
    <3> QED
      BY <3>1, <3>3
  <2>3. before[t] = 0
    BY <2>2, AuthAssumption
  <2>4. Cost * (admitted - before[t]) = 0
    <3>1. admitted - before[t] = 0
      BY <2>3
    <3> QED
      BY <2>1, <3>1, AuthAssumption
  <2> HIDE DEF AuthInit
  <2>5. tokens = Burst * Cost
    BY DEF AuthInit
  <2> QED
    BY <2>2, <2>4, <2>5, ProductIsNat
<1>3. SlotsAccounted
  <2>1. {r \in Request : future[r] \in {"queued", "running"}} = {}
    OBVIOUS
  <2>2. Cardinality({}) = 0
    BY FS_EmptySet
  <2>3. slots = Workers /\ Workers \in Nat
    BY AuthAssumption
  <2> HIDE DEF AuthInit
  <2>4. Workers + 0 = Workers
    BY <2>3
  <2> QED
    BY <2>1, <2>2, <2>3, <2>4 DEF SlotsAccounted
<1>4. RowsHeld /\ GrantsAreCurrent /\ FuturesHeld
  BY DEF RowsHeld, GrantsAreCurrent, FuturesHeld
<1> QED
  BY <1>1, <1>2, <1>3, <1>4 DEF AuthInv

-----------------------------------------------------------------------------
(* One lemma per action.                                                   *)
LEMMA FuturesStep ==
    ASSUME AuthTypeOK, FuturesHeld, NEW r \in Request, NEW s, Step(r, s),
           \A x \in Request \ {r} : future'[x] = future[x],
           s.pc \in {"charge", "load", "submit"} => future'[r] = "none"
    PROVE  FuturesHeld'
<1> SUFFICES ASSUME NEW x \in Request, handler'[x].pc \in {"charge", "load", "submit"}
             PROVE  future'[x] = "none"
  BY DEF FuturesHeld
<1>1. CASE x = r
  <2>1. handler'[x] = s
    BY <1>1 DEF Step, AuthTypeOK
  <2> QED
    BY <1>1, <2>1
<1>2. CASE x # r
  <2>1. handler'[x] = handler[x] /\ future'[x] = future[x]
    BY <1>2 DEF Step, AuthTypeOK
  <2> QED
    BY <2>1 DEF FuturesHeld
<1> QED
  BY <1>1, <1>2

(* An admitted attempt costs what it takes from the bucket.                *)
LEMMA ConsumeBucket ==
    ASSUME AuthTypeOK, BucketHeld, UNCHANGED <<now, before>>, updated' = now,
           \/ Refilled < Cost /\ tokens' = Refilled /\ admitted' = admitted
           \/ Refilled >= Cost /\ tokens' = Refilled - Cost /\ admitted' = admitted + 1
    PROVE  BucketHeld' /\ tokens' \in 0..(Burst * Cost) /\ admitted' \in Nat
<1>1. /\ now \in Nat /\ updated \in Nat /\ updated <= now /\ tokens \in Nat
      /\ admitted \in Nat /\ Cost \in Nat /\ MaxTime \in Nat /\ now <= MaxTime
  BY AuthAssumption, ProductIsNat DEF AuthTypeOK
<1>2. /\ Refilled \in Nat /\ Refilled <= Burst * Cost
      /\ Refilled <= tokens + (now - updated)
  BY RefilledBounds
<1>3. tokens' \in 0..(Burst * Cost) /\ admitted' \in Nat
  BY <1>1, <1>2, ProductIsNat
<1>4. ASSUME NEW t \in 0..now
      PROVE  Cost * (admitted' - before[t]) + tokens' <= Burst * Cost + (now - t)
  <2> DEFINE d == admitted - before[t]
  <2>1. before[t] \in Nat /\ d \in Int /\ t \in Nat /\ t <= now
    <3>1. t \in 0..MaxTime
      BY <1>1
    <3> QED
      BY <3>1, <1>1 DEF AuthTypeOK
  <2>2. Cost * d \in Int /\ Cost * (d + 1) = Cost * d + Cost
    <3>1. \A c, e \in Int : c * e \in Int
      BY SMT
    <3> QED
      BY <1>1, <2>1, <3>1, OneMoreCosts
  <2>3. Cost * d + Refilled <= Burst * Cost + (now - t)
    <3>1. CASE t <= updated
      <4>1. Cost * d + tokens <= Burst * Cost + (updated - t)
        BY <3>1 DEF BucketHeld
      <4> HIDE DEF d
      <4> QED
        BY <4>1, <1>1, <1>2, <2>1, <2>2, ProductIsNat
    <3>2. CASE t > updated
      <4>1. admitted = before[t]
        BY <3>2, <1>1, <2>1 DEF BucketHeld
      <4>2. d = 0
        BY <4>1, <2>1, <1>1
      <4>3. Cost * d = 0
        <5>1. \A c \in Nat : c * 0 = 0
          BY SMT
        <5> QED
          BY <4>2, <5>1, <1>1
      <4> HIDE DEF d
      <4> QED
        BY <4>3, <1>1, <1>2, <2>1, ProductIsNat
    <3> QED
      BY <3>1, <3>2, <1>1, <2>1
  <2>4. CASE Refilled < Cost /\ tokens' = Refilled /\ admitted' = admitted
    BY <2>3, <2>4
  <2>5. CASE Refilled >= Cost /\ tokens' = Refilled - Cost /\ admitted' = admitted + 1
    <3>1. admitted' - before[t] = d + 1
      BY <2>5, <2>1, <1>1
    <3>2. Cost * (admitted' - before[t]) = Cost * d + Cost
      BY <3>1, <2>2
    <3> HIDE DEF d
    <3> QED
      BY <3>2, <2>5, <2>2, <2>3, <1>1, <1>2, <2>1, ProductIsNat
  <2> QED
    BY <2>4, <2>5
<1>5. BucketHeld'
  <2> SUFFICES ASSUME NEW t \in 0..now
               PROVE  IF t <= now
                      THEN Cost * (admitted' - before[t]) + tokens' <= Burst * Cost + (now - t)
                      ELSE admitted' = before[t]
    BY DEF BucketHeld
  <2> QED
    BY <1>4, <1>1
<1> QED
  BY <1>3, <1>5

(* A charged request holds no row and no grant, so what it is remembered   *)
(* to have arrived under may be written.                                   *)
LEMMA ChargedKeeps ==
    ASSUME AuthTypeOK, RowsHeld, GrantsAreCurrent, NEW r \in Request,
           NEW s, Step(r, s), UNCHANGED <<revoked, granted>>,
           spent' = [spent EXCEPT ![r] = revoked],
           s.pc # "charge", s.row = "none", s.answer # "granted"
    PROVE  RowsHeld' /\ GrantsAreCurrent'
<1>1. handler'[r] = s /\ spent'[r] = revoked
  BY DEF Step, AuthTypeOK
<1>2. \A x \in Request \ {r} : handler'[x] = handler[x] /\ spent'[x] = spent[x]
  BY DEF Step, AuthTypeOK
<1>3. RowsHeld'
  <2> SUFFICES ASSUME NEW x \in Request
               PROVE  /\ spent'[x] \subseteq revoked
                      /\ handler'[x].pc = "charge" =>
                            handler'[x].row = "none" /\ handler'[x].answer = "none"
                      /\ handler'[x].row = "active" =>
                            KeyOf[x] \in Key /\ KeyOf[x] \notin spent'[x]
    BY DEF RowsHeld
  <2>1. CASE x = r
    BY <1>1, <2>1
  <2>2. CASE x # r
    <3>1. handler'[x] = handler[x] /\ spent'[x] = spent[x]
      BY <1>2, <2>2
    <3> QED
      BY <3>1 DEF RowsHeld
  <2> QED
    BY <2>1, <2>2
<1>4. GrantsAreCurrent'
  <2> SUFFICES ASSUME NEW x \in Request, handler'[x].answer = "granted"
               PROVE  /\ KeyOf[x] \in Key /\ x \in Honest \cap Scoped
                      /\ KeyOf[x] \notin spent'[x] /\ granted[x] < Expiry[KeyOf[x]]
    BY DEF GrantsAreCurrent
  <2>1. x # r
    BY <1>1
  <2>2. handler'[x] = handler[x] /\ spent'[x] = spent[x]
    BY <1>2, <2>1
  <2> QED
    BY <2>2 DEF GrantsAreCurrent
<1> QED
  BY <1>3, <1>4

LEMMA ConsumeKeeps ==
    ASSUME AuthInv, NEW r \in Request, Consume(r)
    PROVE  AuthInv'
<1> USE DEF AuthInv
<1>1. BucketHeld' /\ tokens' \in 0..(Burst * Cost) /\ admitted' \in Nat
  <2>1. UNCHANGED <<now, before>> /\ updated' = now
    BY DEF Consume
  <2>2. \/ Refilled < Cost /\ tokens' = Refilled /\ admitted' = admitted
        \/ Refilled >= Cost /\ tokens' = Refilled - Cost /\ admitted' = admitted + 1
    BY DEF Consume
  <2> QED
    BY <2>1, <2>2, ConsumeBucket
<1>2. handler[r] \in HandlerState /\ handler[r].row = "none" /\ handler[r].answer = "none"
  BY DEF Consume, AuthTypeOK, RowsHeld
<1>3. PICK s \in HandlerState : /\ Step(r, s) /\ s.row = "none" /\ s.answer # "granted"
                                /\ s.pc \in {"load", "answered"}
  <2>1. CASE Step(r, [handler[r] EXCEPT !.pc = "load"])
    <3>1. [handler[r] EXCEPT !.pc = "load"] \in HandlerState
      BY <1>2 DEF HandlerState
    <3> QED
      BY <1>2, <2>1, <3>1 DEF HandlerState
  <2>2. CASE Step(r, [handler[r] EXCEPT !.pc = "answered", !.answer = "busy"])
    <3>1. [handler[r] EXCEPT !.pc = "answered", !.answer = "busy"] \in HandlerState
      BY <1>2 DEF HandlerState, AuthAnswers
    <3> QED
      BY <1>2, <2>2, <3>1 DEF HandlerState
  <2> QED
    BY <2>1, <2>2 DEF Consume, AnswerWith
<1>4. handler' \in [Request -> HandlerState]
  BY <1>3, StepType
<1>5. RowsHeld' /\ GrantsAreCurrent'
  BY <1>3, ChargedKeeps DEF Consume
<1>6. future' = future /\ slots' = slots
  BY DEF Consume
<1>7. FuturesHeld'
  <2>1. future[r] = "none"
    BY DEF Consume, FuturesHeld
  <2> QED
    BY <1>3, <1>6, <2>1, FuturesStep
<1>8. SlotsAccounted'
  BY <1>6, HeldUnchanged
<1>9. AuthTypeOK'
  <2>1. now' \in 0..MaxTime /\ updated' \in 0..now'
    BY AuthAssumption DEF Consume, AuthTypeOK
  <2>2. received' \in [Request -> 0..MaxTime] /\ spent' \in [Request -> SUBSET Key]
    BY DEF Consume, AuthTypeOK
  <2>3. UNCHANGED <<slots, pool, future, revoked, granted, before>>
    BY DEF Consume
  <2> QED
    BY <1>1, <1>4, <2>1, <2>2, <2>3 DEF AuthTypeOK
<1> QED
  BY <1>1, <1>5, <1>7, <1>8, <1>9

LEMMA LoadKeyKeeps ==
    ASSUME AuthInv, NEW r \in Request, LoadKey(r)
    PROVE  AuthInv'
<1> USE DEF AuthInv
<1>0. UNCHANGED <<bucketVars, hashVars, timeVars, requestHistory>>
  BY DEF LoadKey
<1>1. UNCHANGED <<now, tokens, updated, slots, pool, future, revoked, received, spent,
                  granted, admitted, before>>
  BY <1>0 DEF bucketVars, hashVars, timeVars, requestHistory
<1>2. handler' \in [Request -> HandlerState] /\ RowsHeld' /\ GrantsAreCurrent' /\ FuturesHeld'
  <2>0. handler[r] \in HandlerState /\ future[r] = "none" /\ spent[r] \subseteq revoked
    BY DEF LoadKey, AuthTypeOK, FuturesHeld, RowsHeld
  <2>1. CASE AnswerWith(r, "unauthorized")
    <3>1. handler' \in [Request -> HandlerState] /\ RowsHeld' /\ GrantsAreCurrent'
      <4>1. "unauthorized" \in AuthAnswers \ {"granted"}
        BY DEF AuthAnswers
      <4> QED
        BY <1>1, <2>1, <4>1, AnswerKeeps
    <3>2. FuturesHeld'
      BY <1>1, <2>0, <2>1, FuturesStep DEF AnswerWith
    <3> QED
      BY <3>1, <3>2
  <2>2. ASSUME NEW w \in {"unknown", "revoked", "active"},
               w = "active" => KeyOf[r] # NoKey /\ KeyOf[r] \notin revoked,
               Step(r, [handler[r] EXCEPT !.pc = "submit", !.row = w])
        PROVE  handler' \in [Request -> HandlerState] /\ RowsHeld' /\ GrantsAreCurrent'
                 /\ FuturesHeld'
    <3> DEFINE s == [handler[r] EXCEPT !.pc = "submit", !.row = w]
    <3>1. s \in HandlerState /\ s.pc = "submit" /\ s.row = w /\ s.answer = handler[r].answer
      BY <2>0 DEF HandlerState
    <3>2. Step(r, s)
      BY <2>2
    <3>3. s.row = "active" => KeyOf[r] \in Key /\ KeyOf[r] \notin spent[r]
      BY <2>0, <2>2, <3>1, AuthAssumption
    <3> HIDE DEF s
    <3>4. handler' \in [Request -> HandlerState]
      BY <3>1, <3>2, StepType
    <3>5. RowsHeld'
      BY <1>1, <3>1, <3>2, <3>3, StepRows
    <3>6. GrantsAreCurrent'
      BY <1>1, <3>1, <3>2, StepGrants
    <3>7. FuturesHeld'
      BY <1>1, <2>0, <3>2, FuturesStep
    <3> QED
      BY <3>4, <3>5, <3>6, <3>7
  <2> DEFINE row == IF KeyOf[r] = NoKey THEN "unknown"
                    ELSE IF KeyOf[r] \in revoked THEN "revoked" ELSE "active"
  <2>3. row \in {"unknown", "revoked", "active"}
        /\ (row = "active" => KeyOf[r] # NoKey /\ KeyOf[r] \notin revoked)
    OBVIOUS
  <2>4. AnswerWith(r, "unauthorized")
          \/ Step(r, [handler[r] EXCEPT !.pc = "submit", !.row = row])
    BY DEF LoadKey
  <2> HIDE DEF row
  <2> QED
    BY <2>1, <2>2, <2>3, <2>4
<1>3. AuthTypeOK'
  BY <1>1, <1>2 DEF AuthTypeOK
<1> QED
  BY <1>1, <1>2, <1>3, BucketUnchanged, HeldUnchanged

(* A hash that is submitted takes one slot, one that ends gives it back.   *)
LEMMA SlotTaken ==
    ASSUME AuthTypeOK, SlotsAccounted, NEW r \in Request, future[r] = "none",
           slots > 0, slots' = slots - 1, future' = [future EXCEPT ![r] = "queued"]
    PROVE  SlotsAccounted' /\ slots' \in 0..Workers /\ future' \in [Request -> FutureStates]
<1>1. Held' = Held \cup {r} /\ r \notin Held
  BY DEF Held, AuthTypeOK
<1>2. IsFiniteSet(Held) /\ Cardinality(Held) \in Nat
  BY HeldFinite
<1>3. Cardinality(Held') = Cardinality(Held) + 1
  BY <1>1, <1>2, FS_AddElement
<1>4. slots \in Nat /\ slots <= Workers /\ Workers \in Nat
  BY AuthAssumption DEF AuthTypeOK
<1>5. slots + Cardinality(Held) = Workers
  BY HeldAsSlots
<1>6. slots' + Cardinality(Held') = Workers
  BY <1>2, <1>3, <1>4, <1>5
<1>7. SlotsAccounted'
  BY <1>6 DEF SlotsAccounted, Held
<1> QED
  BY <1>4, <1>7 DEF AuthTypeOK, FutureStates

LEMMA SlotFreed ==
    ASSUME AuthTypeOK, SlotsAccounted, NEW r \in Request, future[r] \in {"queued", "running"},
           NEW v \in {"finished", "cancelled"},
           slots' = slots + 1, future' = [future EXCEPT ![r] = v]
    PROVE  SlotsAccounted' /\ slots' \in 0..Workers /\ future' \in [Request -> FutureStates]
<1>1. Held' = Held \ {r} /\ r \in Held
  BY DEF Held, AuthTypeOK
<1>2. IsFiniteSet(Held) /\ Cardinality(Held) \in Nat
  BY HeldFinite
<1>3. Cardinality(Held') = Cardinality(Held) - 1
  BY <1>1, <1>2, FS_RemoveElement
<1>4. Cardinality(Held') \in Nat
  <2>1. IsFiniteSet(Held')
    BY <1>1, <1>2, FS_RemoveElement
  <2> QED
    BY <2>1, FS_CardinalityType
<1>5. slots \in Nat /\ slots <= Workers /\ Workers \in Nat
  BY AuthAssumption DEF AuthTypeOK
<1>6. slots + Cardinality(Held) = Workers
  BY HeldAsSlots
<1>7. slots' + Cardinality(Held') = Workers /\ slots' \in 0..Workers
  BY <1>2, <1>3, <1>4, <1>5, <1>6
<1>8. SlotsAccounted'
  BY <1>7 DEF SlotsAccounted, Held
<1> QED
  BY <1>7, <1>8 DEF AuthTypeOK, FutureStates

LEMMA SubmitHashKeeps ==
    ASSUME AuthInv, NEW r \in Request, SubmitHash(r)
    PROVE  AuthInv'
<1> USE DEF AuthInv
<1>0. UNCHANGED <<pool, bucketVars, timeVars, requestHistory>>
  BY DEF SubmitHash
<1>1. UNCHANGED <<now, tokens, updated, pool, revoked, received, spent,
                  granted, admitted, before>>
  BY <1>0 DEF bucketVars, timeVars, requestHistory
<1>2. handler[r].pc = "submit" /\ future[r] = "none" /\ handler[r] \in HandlerState
  BY DEF SubmitHash, FuturesHeld, AuthTypeOK
<1>3. CASE \E a \in {"busy", "error"} : AnswerWith(r, a) /\ UNCHANGED <<slots, future>>
  <2>1. PICK a \in {"busy", "error"} : AnswerWith(r, a) /\ UNCHANGED <<slots, future>>
    BY <1>3
  <2>2. a \in AuthAnswers \ {"granted"}
    BY DEF AuthAnswers
  <2>3. handler' \in [Request -> HandlerState] /\ RowsHeld' /\ GrantsAreCurrent'
    BY <1>1, <2>1, <2>2, AnswerKeeps
  <2>4. FuturesHeld'
    BY <1>2, <2>1, FuturesStep DEF AnswerWith
  <2>5. AuthTypeOK'
    BY <1>1, <2>1, <2>3 DEF AuthTypeOK
  <2> QED
    BY <1>1, <2>1, <2>3, <2>4, <2>5, BucketUnchanged, HeldUnchanged
<1>4. CASE /\ slots > 0 /\ slots' = slots - 1
           /\ future' = [future EXCEPT ![r] = "queued"]
           /\ Step(r, [handler[r] EXCEPT !.pc = "await"])
  <2>1. SlotsAccounted' /\ slots' \in 0..Workers /\ future' \in [Request -> FutureStates]
    BY <1>2, <1>4, SlotTaken
  <2>2. handler' \in [Request -> HandlerState] /\ RowsHeld' /\ GrantsAreCurrent'
    BY <1>1, <1>4, MoveKeeps
  <2>3. FuturesHeld'
    <3> DEFINE s == [handler[r] EXCEPT !.pc = "await"]
    <3>1. s.pc = "await" /\ Step(r, s)
      BY <1>2, <1>4 DEF HandlerState
    <3>2. \A x \in Request \ {r} : future'[x] = future[x]
      BY <1>4 DEF AuthTypeOK
    <3> HIDE DEF s
    <3> QED
      BY <3>1, <3>2, FuturesStep
  <2>4. AuthTypeOK'
    BY <1>1, <2>1, <2>2 DEF AuthTypeOK
  <2> QED
    BY <1>1, <2>1, <2>2, <2>3, <2>4, BucketUnchanged
<1> QED
  BY <1>3, <1>4 DEF SubmitHash

(* Threads change the hashes only.                                         *)
LEMMA StartHashKeeps ==
    ASSUME AuthInv, NEW r \in Request, StartHash(r)
    PROVE  AuthInv'
<1> USE DEF AuthInv
<1>0. UNCHANGED <<slots, pool, handler, bucketVars, timeVars, requestHistory>>
  BY DEF StartHash
<1>1. UNCHANGED <<now, tokens, updated, slots, pool, handler, revoked, received, spent,
                  granted, admitted, before>>
  BY <1>0 DEF bucketVars, timeVars, requestHistory
<1>2. future[r] = "queued" /\ future' = [future EXCEPT ![r] = "running"]
  BY DEF StartHash
<1>3. SlotsAccounted'
  <2>1. Held' = Held
    BY <1>2 DEF Held, AuthTypeOK
  <2> QED
    BY <1>1, <2>1 DEF SlotsAccounted, Held
<1>4. FuturesHeld'
  <2> SUFFICES ASSUME NEW x \in Request, handler[x].pc \in {"charge", "load", "submit"}
               PROVE  future'[x] = "none"
    BY <1>1 DEF FuturesHeld
  <2>1. future[x] = "none"
    BY DEF FuturesHeld
  <2> QED
    BY <2>1, <1>2 DEF AuthTypeOK
<1>5. AuthTypeOK'
  BY <1>1, <1>2 DEF AuthTypeOK, FutureStates
<1> QED
  BY <1>1, <1>3, <1>4, <1>5, BucketUnchanged, RowsUnchanged, GrantsUnchanged

LEMMA FinishHashKeeps ==
    ASSUME AuthInv, NEW r \in Request, FinishHash(r)
    PROVE  AuthInv'
<1> USE DEF AuthInv
<1>0. UNCHANGED <<pool, handler, bucketVars, timeVars, requestHistory>>
  BY DEF FinishHash
<1>1. UNCHANGED <<now, tokens, updated, pool, handler, revoked, received, spent,
                  granted, admitted, before>>
  BY <1>0 DEF bucketVars, timeVars, requestHistory
<1>2. future[r] = "running" /\ future' = [future EXCEPT ![r] = "finished"] /\ slots' = slots + 1
  BY DEF FinishHash
<1>3. SlotsAccounted' /\ slots' \in 0..Workers /\ future' \in [Request -> FutureStates]
  BY <1>2, SlotFreed
<1>4. FuturesHeld'
  <2> SUFFICES ASSUME NEW x \in Request, handler[x].pc \in {"charge", "load", "submit"}
               PROVE  future'[x] = "none"
    BY <1>1 DEF FuturesHeld
  <2>1. future[x] = "none"
    BY DEF FuturesHeld
  <2> QED
    BY <2>1, <1>2 DEF AuthTypeOK
<1>5. AuthTypeOK'
  BY <1>1, <1>3 DEF AuthTypeOK
<1> QED
  BY <1>1, <1>3, <1>4, <1>5, BucketUnchanged, RowsUnchanged, GrantsUnchanged

(* A grant is given for a row that is active and a key still unexpired,    *)
(* and for what that key allows.                                           *)
LEMMA GrantIsUsable ==
    ASSUME NEW r \in Request
    PROVE  /\ PlaneAnswer(r) \in {"granted", "unauthorized", "forbidden"}
           /\ PlaneAnswer(r) = "granted" => Usable(r) /\ r \in Scoped
<1>1. Plane[r] \in {"ingest", "ci", "query"}
  BY AuthAssumption
<1>2. CASE Plane[r] = "ingest"
  BY <1>2 DEF PlaneAnswer, IngestAnswer
<1>3. CASE Plane[r] = "ci"
  BY <1>3 DEF PlaneAnswer, CiAnswer
<1>4. CASE Plane[r] = "query"
  BY <1>4 DEF PlaneAnswer, QueryAnswer
<1> QED
  BY <1>1, <1>2, <1>3, <1>4

LEMMA CheckKeyKeeps ==
    ASSUME AuthInv, NEW r \in Request, CheckKey(r)
    PROVE  AuthInv'
<1> USE DEF AuthInv
<1>0. UNCHANGED <<received, spent, bucketVars, hashVars, timeVars>>
  BY DEF CheckKey
<1>1. UNCHANGED <<now, tokens, updated, slots, pool, future, revoked, received, spent,
                  admitted, before>>
  BY <1>0 DEF bucketVars, hashVars, timeVars
<1> DEFINE a == PlaneAnswer(r)
           s == [handler[r] EXCEPT !.pc = "answered", !.answer = a]
           t == IF a = "granted" THEN now ELSE 0
<1>2. a \in {"granted", "unauthorized", "forbidden"} /\ (a = "granted" => Usable(r) /\ r \in Scoped)
  BY GrantIsUsable
<1>3. Step(r, s) /\ granted' = [granted EXCEPT ![r] = t]
  BY DEF CheckKey, AnswerWith
<1>4. t \in 0..MaxTime /\ (a = "granted" => t = now)
  BY AuthAssumption DEF AuthTypeOK
<1> HIDE DEF a, t
<1>5. s \in HandlerState /\ s.pc = "answered" /\ s.answer = a /\ s.row = handler[r].row
  <2>1. handler[r] \in HandlerState
    BY DEF AuthTypeOK
  <2> QED
    BY <1>2, <2>1 DEF HandlerState, AuthAnswers
<1> HIDE DEF s
<1>6. handler' \in [Request -> HandlerState]
  BY <1>3, <1>5, StepType
<1>7. RowsHeld'
  <2>1. s.row = "active" => KeyOf[r] \in Key /\ KeyOf[r] \notin spent[r]
    BY <1>5 DEF RowsHeld
  <2> QED
    BY <1>1, <1>3, <1>5, <2>1, StepRows
<1>8. GrantsAreCurrent'
  <2> SUFFICES ASSUME NEW x \in Request, handler'[x].answer = "granted"
               PROVE  /\ KeyOf[x] \in Key /\ x \in Honest \cap Scoped
                      /\ KeyOf[x] \notin spent[x] /\ granted'[x] < Expiry[KeyOf[x]]
    BY <1>1 DEF GrantsAreCurrent
  <2>1. CASE x = r
    <3>1. handler'[x] = s /\ granted'[x] = t
      BY <1>3, <2>1 DEF Step, AuthTypeOK
    <3>2. Usable(r) /\ r \in Scoped /\ t = now
      BY <1>2, <1>4, <1>5, <3>1
    <3> QED
      BY <2>1, <3>1, <3>2 DEF Usable, Unexpired, RowsHeld
  <2>2. CASE x # r
    <3>1. handler'[x] = handler[x] /\ granted'[x] = granted[x]
      BY <1>3, <2>2 DEF Step, AuthTypeOK
    <3> QED
      BY <3>1 DEF GrantsAreCurrent
  <2> QED
    BY <2>1, <2>2
<1>9. FuturesHeld'
  BY <1>1, <1>3, <1>5, FuturesStep
<1>10. AuthTypeOK'
  <2>1. granted' \in [Request -> 0..MaxTime]
    BY <1>3, <1>4 DEF AuthTypeOK
  <2> QED
    BY <1>1, <1>6, <2>1 DEF AuthTypeOK
<1> QED
  BY <1>1, <1>7, <1>8, <1>9, <1>10, BucketUnchanged, HeldUnchanged

LEMMA DisconnectKeeps ==
    ASSUME AuthInv, NEW r \in Request, Disconnect(r)
    PROVE  AuthInv'
<1> USE DEF AuthInv
<1>0. UNCHANGED <<pool, bucketVars, timeVars, requestHistory>>
  BY DEF Disconnect
<1>1. UNCHANGED <<now, tokens, updated, pool, revoked, received, spent,
                  granted, admitted, before>>
  BY <1>0 DEF bucketVars, timeVars, requestHistory
<1>2. Step(r, [handler[r] EXCEPT !.pc = "gone"])
  BY DEF Disconnect
<1>3. handler' \in [Request -> HandlerState] /\ RowsHeld' /\ GrantsAreCurrent'
  BY <1>1, <1>2, MoveKeeps
<1>4. /\ SlotsAccounted' /\ slots' \in 0..Workers /\ future' \in [Request -> FutureStates]
      /\ \A x \in Request \ {r} : future'[x] = future[x]
  <2>1. CASE /\ future[r] = "queued" /\ slots' = slots + 1
             /\ future' = [future EXCEPT ![r] = "cancelled"]
    <3>1. SlotsAccounted' /\ slots' \in 0..Workers /\ future' \in [Request -> FutureStates]
      BY <2>1, SlotFreed
    <3>2. \A x \in Request \ {r} : future'[x] = future[x]
      BY <2>1 DEF AuthTypeOK
    <3> QED
      BY <3>1, <3>2
  <2>2. CASE UNCHANGED <<future, slots>>
    BY <2>2, HeldUnchanged DEF AuthTypeOK
  <2> QED
    BY <2>1, <2>2 DEF Disconnect
<1>5. FuturesHeld'
  <2> DEFINE s == [handler[r] EXCEPT !.pc = "gone"]
  <2>1. s.pc = "gone" /\ Step(r, s)
    <3>1. handler[r] \in HandlerState
      BY DEF AuthTypeOK
    <3> QED
      BY <1>2, <3>1 DEF HandlerState
  <2> HIDE DEF s
  <2> QED
    BY <1>4, <2>1, FuturesStep
<1>6. AuthTypeOK'
  BY <1>1, <1>3, <1>4 DEF AuthTypeOK
<1> QED
  BY <1>1, <1>3, <1>4, <1>5, <1>6, BucketUnchanged

(* Closing the pool ends every queued hash at once.                        *)
LEMMA ClosePoolKeeps ==
    ASSUME AuthInv, ClosePool
    PROVE  AuthInv'
<1> USE DEF AuthInv
<1>0. UNCHANGED <<bucketVars, timeVars, requestHistory>>
  BY DEF ClosePool
<1>1. UNCHANGED <<now, tokens, updated, revoked, received, spent, granted, admitted, before>>
  BY <1>0 DEF bucketVars, timeVars, requestHistory
<1> DEFINE queued == {r \in Request : future[r] = "queued"}
<1>2. /\ future' = [r \in Request |-> IF r \in queued THEN "cancelled" ELSE future[r]]
      /\ slots' = slots + Cardinality(queued)
      /\ handler' = [r \in Request |->
                       IF r \in queued THEN [handler[r] EXCEPT !.pc = "gone"] ELSE handler[r]]
      /\ pool' = "closed"
  BY DEF ClosePool
<1>3. SlotsAccounted' /\ slots' \in 0..Workers
  <2>1. Held' = Held \ queued /\ Held \cap queued = queued
    BY <1>2 DEF Held
  <2> HIDE DEF queued
  <2>2. IsFiniteSet(Held) /\ Cardinality(Held) \in Nat
    BY HeldFinite
  <2>3. IsFiniteSet(Held') /\ Cardinality(Held') = Cardinality(Held) - Cardinality(queued)
    BY <2>1, <2>2, FS_Difference
  <2>4. IsFiniteSet(queued)
    BY <2>1, <2>2, FS_Intersection
  <2>5. Cardinality(queued) \in Nat /\ Cardinality(Held') \in Nat
    BY <2>3, <2>4, FS_CardinalityType
  <2>6. slots + Cardinality(Held) = Workers
    BY HeldAsSlots
  <2>7. slots \in Nat /\ Workers \in Nat
    BY AuthAssumption DEF AuthTypeOK
  <2>8. slots' = slots + Cardinality(queued)
    BY <1>2
  <2>9. slots' + Cardinality(Held') = Workers /\ slots' \in 0..Workers
    BY <2>2, <2>3, <2>5, <2>6, <2>7, <2>8
  <2> QED
    BY <2>9 DEF SlotsAccounted, Held
<1> HIDE DEF queued
<1>4. \A x \in Request :
        /\ handler[x] \in HandlerState /\ handler'[x] \in HandlerState
        /\ handler'[x].row = handler[x].row /\ handler'[x].answer = handler[x].answer
        /\ \/ handler'[x].pc = "gone"
           \/ handler'[x] = handler[x] /\ future'[x] = future[x]
  <2> SUFFICES ASSUME NEW x \in Request
               PROVE  /\ handler[x] \in HandlerState /\ handler'[x] \in HandlerState
                      /\ handler'[x].row = handler[x].row
                      /\ handler'[x].answer = handler[x].answer
                      /\ \/ handler'[x].pc = "gone"
                         \/ handler'[x] = handler[x] /\ future'[x] = future[x]
    OBVIOUS
  <2>1. handler[x] \in HandlerState
    BY DEF AuthTypeOK
  <2>2. CASE x \in queued
    <3>1. handler'[x] = [handler[x] EXCEPT !.pc = "gone"]
      BY <1>2, <2>2
    <3> DEFINE s == [handler[x] EXCEPT !.pc = "gone"]
    <3>2. /\ s \in HandlerState /\ s.row = handler[x].row /\ s.pc = "gone"
          /\ s.answer = handler[x].answer
      BY <2>1 DEF HandlerState
    <3>3. handler'[x] = s
      BY <3>1
    <3> HIDE DEF s
    <3> QED
      BY <2>1, <3>2, <3>3
  <2>3. CASE x \notin queued
    <3>1. handler'[x] = handler[x] /\ future'[x] = future[x]
      BY <1>2, <2>3
    <3> QED
      BY <2>1, <3>1
  <2> QED
    BY <2>2, <2>3
<1>5. handler' \in [Request -> HandlerState]
  <2> DEFINE f(r) == IF r \in queued THEN [handler[r] EXCEPT !.pc = "gone"] ELSE handler[r]
  <2>1. handler' = [r \in Request |-> f(r)]
    BY <1>2
  <2>2. \A x \in Request : handler'[x] \in HandlerState
    BY <1>4
  <2> HIDE DEF f
  <2> QED
    BY <2>1, <2>2
<1>6. RowsHeld'
  <2> SUFFICES ASSUME NEW x \in Request
               PROVE  /\ spent[x] \subseteq revoked
                      /\ handler'[x].pc = "charge" =>
                            handler'[x].row = "none" /\ handler'[x].answer = "none"
                      /\ handler'[x].row = "active" =>
                            KeyOf[x] \in Key /\ KeyOf[x] \notin spent[x]
    BY <1>1 DEF RowsHeld
  <2> QED
    BY <1>4 DEF RowsHeld
<1>7. GrantsAreCurrent'
  BY <1>1, <1>4 DEF GrantsAreCurrent
<1>8. FuturesHeld'
  BY <1>4 DEF FuturesHeld
<1>9. AuthTypeOK'
  <2>1. future' \in [Request -> FutureStates]
    BY <1>2 DEF AuthTypeOK, FutureStates
  <2>2. pool' \in {"open", "closed"}
    BY <1>2
  <2> QED
    BY <1>1, <1>3, <1>5, <2>1, <2>2 DEF AuthTypeOK
<1> QED
  BY <1>1, <1>3, <1>6, <1>7, <1>8, <1>9, BucketUnchanged

LEMMA RevokeKeeps ==
    ASSUME AuthInv, NEW k \in Key, Revoke(k)
    PROVE  AuthInv'
<1> USE DEF AuthInv
<1>0. UNCHANGED <<now, handler, bucketVars, hashVars, requestHistory>>
  BY DEF Revoke
<1>1. UNCHANGED <<now, tokens, updated, slots, pool, future, handler, received, spent,
                  granted, admitted, before>>
  BY <1>0 DEF bucketVars, hashVars, requestHistory
<1>2. revoked' = revoked \cup {k}
  BY DEF Revoke
<1>3. RowsHeld'
  BY <1>1, <1>2 DEF RowsHeld
<1>4. FuturesHeld'
  BY <1>1 DEF FuturesHeld
<1>5. AuthTypeOK'
  BY <1>1, <1>2 DEF AuthTypeOK
<1> QED
  BY <1>1, <1>3, <1>4, <1>5, BucketUnchanged, HeldUnchanged, GrantsUnchanged

(* A tick opens a stretch in which nothing has been admitted yet.          *)
LEMMA TickKeeps ==
    ASSUME AuthInv, Tick
    PROVE  AuthInv'
<1> USE DEF AuthInv
<1>0. UNCHANGED <<tokens, updated, admitted, revoked, handler, hashVars, requestHistory>>
  BY DEF Tick
<1>1. UNCHANGED <<tokens, updated, slots, pool, future, handler, revoked, received, spent,
                  granted, admitted>>
  BY <1>0 DEF hashVars, requestHistory
<1>2. now < MaxTime /\ now' = now + 1 /\ before' = [before EXCEPT ![now + 1] = admitted]
  BY DEF Tick
<1>3. /\ now \in Nat /\ updated \in Nat /\ updated <= now /\ MaxTime \in Nat
      /\ now + 1 \in 0..MaxTime
  BY <1>2, AuthAssumption DEF AuthTypeOK
<1>4. BucketHeld'
  <2> SUFFICES ASSUME NEW t \in 0..(now + 1)
               PROVE  IF t <= updated
                      THEN Cost * (admitted - before'[t]) + tokens
                             <= Burst * Cost + (updated - t)
                      ELSE admitted = before'[t]
    BY <1>1, <1>2 DEF BucketHeld
  <2>1. CASE t = now + 1
    <3>1. before'[t] = admitted /\ ~(t <= updated)
      BY <2>1, <1>2, <1>3 DEF AuthTypeOK
    <3> QED
      BY <3>1
  <2>2. CASE t # now + 1
    <3>1. t \in 0..now /\ t \in 0..MaxTime
      BY <2>2, <1>3
    <3>2. before'[t] = before[t]
      BY <3>1, <2>2, <1>2 DEF AuthTypeOK
    <3> QED
      BY <3>1, <3>2 DEF BucketHeld
  <2> QED
    BY <2>1, <2>2
<1>5. AuthTypeOK'
  <2>1. now' \in 0..MaxTime /\ updated' \in 0..now'
    BY <1>1, <1>2, <1>3
  <2>2. before' \in [0..MaxTime -> Nat]
    BY <1>2 DEF AuthTypeOK
  <2> QED
    BY <1>1, <2>1, <2>2 DEF AuthTypeOK
<1>6. FuturesHeld'
  BY <1>1 DEF FuturesHeld
<1> QED
  BY <1>1, <1>4, <1>5, <1>6, HeldUnchanged, RowsUnchanged, GrantsUnchanged

LEMMA StutterKeeps ==
    ASSUME AuthInv, UNCHANGED authVars
    PROVE  AuthInv'
<1> USE DEF AuthInv, authVars
<1>1. AuthTypeOK'
  BY DEF AuthTypeOK
<1>2. FuturesHeld'
  BY DEF FuturesHeld
<1> QED
  BY <1>1, <1>2, BucketUnchanged, HeldUnchanged, RowsUnchanged, GrantsUnchanged

LEMMA AuthStep ==
    ASSUME AuthInv, [AuthNext]_authVars
    PROVE  AuthInv'
<1>1. ASSUME NEW r \in Request,
             Consume(r) \/ LoadKey(r) \/ SubmitHash(r) \/ CheckKey(r)
      PROVE  AuthInv'
  BY <1>1, ConsumeKeeps, LoadKeyKeeps, SubmitHashKeeps, CheckKeyKeeps
<1>2. ASSUME NEW r \in Request, StartHash(r) \/ FinishHash(r) \/ Disconnect(r)
      PROVE  AuthInv'
  BY <1>2, StartHashKeeps, FinishHashKeeps, DisconnectKeeps
<1>3. ASSUME NEW k \in Key, Revoke(k) PROVE AuthInv'
  BY <1>3, RevokeKeeps
<1> QED
  BY <1>1, <1>2, <1>3, ClosePoolKeeps, TickKeeps, StutterKeeps DEF AuthNext

-----------------------------------------------------------------------------
(* AuthInv holds in every reachable state of the budgets of auth_budget.py *)
(* and the handlers of the three planes, for any constants.                *)
THEOREM AuthInductive == AuthSpec => []AuthInv
BY AuthInitial, AuthStep, PTL DEF AuthSpec

(* Tokens stay between zero and the burst, the semaphore between zero and  *)
(* the number of hash threads, and the last refill is never in the future. *)
THEOREM AuthTypeCorrect == AuthSpec => []AuthTypeOK
<1>1. AuthInv => AuthTypeOK
  BY DEF AuthInv
<1> QED
  BY <1>1, AuthInductive, PTL

(* AuthAttemptBudget.consume lets at most the burst and the refill of the  *)
(* stretch through, over every stretch of time ending now.                 *)
THEOREM AttemptsAreBounded == AuthSpec => []AttemptsBounded
<1>1. AuthInv => AttemptsBounded
  <2> SUFFICES ASSUME AuthInv, NEW t \in 0..now
               PROVE  Cost * (admitted - before[t]) <= Burst * Cost + (now - t)
    BY DEF AttemptsBounded
  <2>0. /\ now \in 0..MaxTime /\ updated \in 0..now
        /\ tokens \in 0..(Burst * Cost) /\ admitted \in Nat
    BY DEF AuthInv, AuthTypeOK
  <2>1. /\ now \in Nat /\ updated \in Nat /\ updated <= now /\ tokens \in Nat
        /\ admitted \in Nat /\ Cost \in Nat /\ MaxTime \in Nat /\ now <= MaxTime
    BY <2>0, AuthAssumption, ProductIsNat
  <2>2. t \in Nat /\ t <= now /\ t \in 0..MaxTime
    BY <2>1
  <2>3. before[t] \in Nat
    BY <2>2 DEF AuthInv, AuthTypeOK
  <2> DEFINE d == admitted - before[t]
  <2>4. Cost * d \in Int
    <3>1. \A c, e \in Int : c * e \in Int
      BY SMT
    <3> QED
      BY <2>1, <2>3, <3>1
  <2>5. CASE t <= updated
    <3>1. Cost * d + tokens <= Burst * Cost + (updated - t)
      BY <2>5 DEF AuthInv, BucketHeld
    <3> HIDE DEF d
    <3>2. Cost * d <= Burst * Cost + (now - t)
      BY <3>1, <2>1, <2>2, <2>4, ProductIsNat
    <3> QED
      BY <3>2 DEF d
  <2>6. CASE ~(t <= updated)
    <3>0. admitted = before[t]
      BY <2>6 DEF AuthInv, BucketHeld
    <3>1. d = 0
      BY <3>0, <2>1, <2>3
    <3>2. Cost * d = 0
      <4>1. \A c \in Nat : c * 0 = 0
        BY SMT
      <4> QED
        BY <3>1, <4>1, <2>1
    <3> HIDE DEF d
    <3>3. Cost * d <= Burst * Cost + (now - t)
      BY <3>2, <2>1, <2>2, ProductIsNat
    <3> QED
      BY <3>3 DEF d
  <2> QED
    BY <2>5, <2>6
<1> QED
  BY <1>1, AuthInductive, PTL

(* BoundedHashVerifier never loses a slot nor frees one twice, whatever    *)
(* is cancelled.                                                           *)
THEOREM SlotsHold == AuthSpec => []SlotsAccounted
<1>1. AuthInv => SlotsAccounted
  BY DEF AuthInv
<1> QED
  BY <1>1, AuthInductive, PTL

(* The planes return principals only for keys that were unrevoked at       *)
(* arrival and unexpired after the hash, and for what the key allows.      *)
THEOREM GrantsHold == AuthSpec => []GrantsAreCurrent
<1>1. AuthInv => GrantsAreCurrent
  BY DEF AuthInv
<1> QED
  BY <1>1, AuthInductive, PTL
=============================================================================
