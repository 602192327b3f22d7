---------------------------- MODULE ClientProofs ----------------------------
(***************************************************************************)
(* A client gives out only a result that came under F + 1 ids, and loses   *)
(* one only when two calls of Response overlap, for any replicas, answers  *)
(* and number of calls at once.                                            *)
(***************************************************************************)
EXTENDS Client, FiniteSetTheorems, TLAPS

\* The group of v has the F + 1 members an answer needs; some group has.
Backed(groups, v) == Cardinality(groups[v]) >= F + 1
Big == \E v \in Values : Backed(collection, v)

\* What a call has found out: that there is such a group, then the result of one.
CallOK(c, groups) ==
    /\ c.at = "choose" => \E v \in Values : Backed(groups, v)
    /\ c.at = "send" => Backed(groups, c.value)
CallsOK == \A s \in Slots : CallOK(calls[s], collection)

\* A call is about to notice the big group, or has.
Noticed ==
    ~overlapped /\ result = None /\ Big =>
        \E s \in Slots : \/ calls[s].at \in {"choose", "send"}
                         \/ calls[s].at = "count" /\ Enough

Inv == TypeOK /\ CallsOK /\ AnswerBacked /\ Noticed

-----------------------------------------------------------------------------
LEMMA Sizes ==
  ASSUME TypeOK
  PROVE  /\ F \in Int
         /\ \A v \in Values : IsFiniteSet(collection[v]) /\ Cardinality(collection[v]) \in Nat
<1>1. Cardinality(Replicas) \in Nat
  BY FS_CardinalityType, ReplicasAssumption
<1>2. F \in Int
  BY <1>1 DEF F
<1>3. \A v \in Values : IsFiniteSet(collection[v])
  BY FS_Subset, ReplicasAssumption DEF TypeOK
<1> QED
  BY <1>2, <1>3, FS_CardinalityType

\* AddResponse: groups only grow, by one member at most, and the first to reach
\* F + 1 is seen to be of that size.
LEMMA Grows ==
  ASSUME TypeOK, NEW v \in Values, NEW r \in Ids,
         collection' = [collection EXCEPT ![v] = @ \cup {r}]
  PROVE  /\ collection' \in [Values -> SUBSET Ids]
         /\ Big => Big'
         /\ \A w \in Values : Backed(collection, w) => Backed(collection', w)
         /\ ~Big /\ Big' => Enough'
<1>1. collection' \in [Values -> SUBSET Ids]
  BY DEF TypeOK
<1>2. \A w \in Values : w # v => collection'[w] = collection[w]
  BY DEF TypeOK
<1>3. collection'[v] = collection[v] \cup {r}
  BY DEF TypeOK
<1>4. IsFiniteSet(collection[v])
  BY Sizes
<1>5. /\ Cardinality(collection'[v]) \in Nat
      /\ \/ Cardinality(collection'[v]) = Cardinality(collection[v])
         \/ Cardinality(collection'[v]) = Cardinality(collection[v]) + 1
  <2>1. IsFiniteSet(collection'[v])
    BY <1>3, <1>4, FS_AddElement
  <2> QED
    BY <1>3, <1>4, <2>1, FS_AddElement, FS_CardinalityType, Sizes
<1> DEFINE old == [w \in Values |-> Cardinality(collection[w])]
           new == [w \in Values |-> Cardinality(collection'[w])]
<1>6. /\ old \in [Values -> Nat] /\ new \in [Values -> Nat] /\ F \in Int
      /\ \A w \in Values : w # v => new[w] = old[w]
      /\ new[v] \in {old[v], old[v] + 1}
  <2>1. old \in [Values -> Nat] /\ F \in Int
    BY Sizes
  <2>2. \A w \in Values : w # v => new[w] = old[w]
    BY <1>2
  <2>3. new[v] \in Nat /\ new[v] \in {old[v], old[v] + 1}
    BY <1>5
  <2>4. \A w \in Values : new[w] \in Nat
    BY <2>1, <2>2, <2>3
  <2>5. new \in [Values -> Nat]
    BY <2>4
  <2> QED
    BY <2>1, <2>2, <2>3, <2>5
<1>7. Big <=> \E w \in Values : old[w] >= F + 1
  BY DEF Big, Backed
<1>8. Big' <=> \E w \in Values : new[w] >= F + 1
  BY DEF Big, Backed
<1>9. Enough' <=> \E x \in Values : new[x] = F + 1 /\ \A w \in Values : new[w] <= new[x]
  BY DEF Enough, Largest
<1>12. \A w \in Values : (Backed(collection, w) <=> old[w] >= F + 1)
                         /\ (Backed(collection', w) <=> new[w] >= F + 1)
  BY DEF Backed
<1> HIDE DEF old, new
<1>10. Big => Big'
  BY <1>6, <1>7, <1>8
<1>11. ASSUME ~Big, Big' PROVE Enough'
  <2>1. \A w \in Values : old[w] <= F
    BY <1>6, <1>7, <1>11
  <2>2. PICK w \in Values : new[w] >= F + 1
    BY <1>8, <1>11
  <2>3. w = v /\ new[v] = F + 1
    BY <1>6, <2>1, <2>2
  <2>4. \A x \in Values : new[x] <= new[v]
    BY <1>6, <2>1, <2>3
  <2> QED
    BY <1>9, <2>3, <2>4
<1>13. \A w \in Values : Backed(collection, w) => Backed(collection', w)
  <2>1. \A w \in Values : old[w] \in Nat /\ new[w] \in Nat /\ old[w] <= new[w]
    BY <1>6
  <2>2. \A w \in Values : old[w] >= F + 1 => new[w] >= F + 1
    BY <1>6, <2>1
  <2> QED
    BY <1>12, <2>2
<1> QED
  BY <1>1, <1>10, <1>11, <1>13

\* A step that leaves the groups and the result alone.
LEMMA Kept ==
  ASSUME Inv, UNCHANGED <<collection, result, overlapped>>
  PROVE  /\ AnswerBacked' /\ (Big' <=> Big) /\ (Enough' <=> Enough)
         /\ \A v \in Values : Backed(collection', v) <=> Backed(collection, v)
  BY DEF Inv, AnswerBacked, Big, Backed, Enough, Largest

LEMMA CallsKept ==
  ASSUME TypeOK, CallsOK, UNCHANGED <<collection, calls>>
  PROVE  CallsOK'
  BY DEF CallsOK, CallOK, Big, Backed

LEMMA InitInv == Init => Inv
<1> SUFFICES ASSUME Init PROVE Inv
  OBVIOUS
<1>1. TypeOK
  BY DEF Init, TypeOK
<1>2. AnswerBacked /\ CallsOK
  BY DEF Init, AnswerBacked, CallsOK, CallOK, Free
<1>3. ~Big
  <2>1. Cardinality(Replicas) \in Nat /\ Cardinality(Replicas) # 0
    BY FS_EmptySet, FS_CardinalityType, ReplicasAssumption
  <2>2. \A v \in Values : Cardinality(collection[v]) = 0
    BY FS_EmptySet DEF Init
  <2>3. F >= 0
    BY <2>1 DEF F
  <2> QED
    BY <1>1, <2>2, <2>3, Sizes DEF Big, Backed
<1> QED
  BY <1>1, <1>2, <1>3 DEF Inv, Noticed

\* The HTTP handler leaves the calls and the groups alone.
LEMMA HttpInv == Inv /\ (SendRequest \/ RequestReturns \/ Timeout) => Inv'
<1> SUFFICES ASSUME Inv, SendRequest \/ RequestReturns \/ Timeout PROVE Inv'
  OBVIOUS
<1>1. /\ UNCHANGED <<collection, calls, result, overlapped>>
      /\ http' \in {"calling", "waiting", "gone"} /\ registered' \in BOOLEAN
  BY DEF Inv, TypeOK, SendRequest, RequestReturns, Timeout, Register
<1>2. TypeOK'
  BY <1>1 DEF Inv, TypeOK
<1>3. CallsOK'
  BY <1>1, CallsKept DEF Inv
<1>4. Noticed'
  BY <1>1, Kept DEF Inv, Noticed
<1> QED
  BY <1>1, <1>2, <1>3, <1>4, Kept DEF Inv

LEMMA ReceiveInv ==
  ASSUME Inv, NEW s \in Slots, NEW r \in Ids, NEW v \in Values, Receive(s, r, v)
  PROVE  Inv'
<1> DEFINE new == [at |-> "lookup", replica |-> r, value |-> v, channel |-> FALSE]
<1>1. calls' = [calls EXCEPT ![s] = new] /\ calls[s].at = "free"
  BY DEF Receive, Free
<1>2. new \in Calls /\ CallOK(new, collection')
  BY DEF Calls, CallOK, Receive
<1> HIDE DEF new
<1>3. TypeOK'
  BY <1>1, <1>2 DEF Inv, TypeOK, Receive
<1>4. CallsOK'
  BY <1>1, <1>2, Kept DEF Inv, TypeOK, CallsOK, CallOK, Receive
<1>5. Noticed'
  BY <1>1, Kept DEF Inv, TypeOK, Noticed, Receive
<1> QED
  BY <1>3, <1>4, <1>5, Kept DEF Inv, Receive

\* The call in slot s becomes c.
LEMMA CallBecomes ==
  ASSUME TypeOK, NEW s \in Slots, NEW c \in Calls \cup {Free}, calls' = [calls EXCEPT ![s] = c]
  PROVE  /\ calls' \in [Slots -> Calls \cup {Free}] /\ calls'[s] = c
         /\ \A t \in Slots : t # s => calls'[t] = calls[t]
         /\ (/\ CallsOK /\ CallOK(c, collection')
             /\ (\A v \in Values : Backed(collection, v) => Backed(collection', v)))
            => CallsOK'
<1>1. /\ calls' \in [Slots -> Calls \cup {Free}] /\ calls'[s] = c
      /\ \A t \in Slots : t # s => calls'[t] = calls[t]
  BY DEF TypeOK
<1>2. ASSUME CallsOK, CallOK(c, collection'),
             \A v \in Values : Backed(collection, v) => Backed(collection', v),
             NEW t \in Slots
      PROVE  CallOK(calls'[t], collection')
  <2>1. CASE t = s
    BY <1>1, <1>2, <2>1 DEF CallOK, Backed
  <2>2. CASE t # s
    <3>1. calls'[t] = calls[t] /\ CallOK(calls[t], collection)
      BY <1>1, <1>2, <2>2 DEF CallsOK
    <3>2. calls[t].at = "send" => calls[t].value \in Values
      BY DEF TypeOK, Calls, Free
    <3> QED
      BY <1>2, <3>1, <3>2 DEF CallOK, Backed
  <2> QED
    BY <2>1, <2>2
<1> QED
  BY <1>1, <1>2 DEF CallsOK

LEMMA StepInv ==
  ASSUME Inv, NEW s \in Slots, CallStep(s)
  PROVE  Inv'
<1> DEFINE call == calls[s]
<1>1. call \in Calls \cup {Free} /\ CallOK(call, collection) /\ TypeOK
  BY DEF Inv, TypeOK, CallsOK
<1>2. call.at # "free" => call \in Calls
  BY <1>1 DEF Free
<1>3. CASE Lookup(s)
  <2> DEFINE c == [call EXCEPT !.at = "add", !.channel = registered]
  <2>1. calls' = [calls EXCEPT ![s] = c] /\ call.at = "lookup"
    BY <1>1, <1>3 DEF Lookup, TypeOK
  <2>2. c \in Calls /\ c.at = "add" /\ c.replica = call.replica /\ c.value = call.value
    BY <1>1, <1>2, <2>1 DEF Calls, TypeOK
  <2>3. CallOK(c, collection')
    BY <1>1, <2>1, <2>2 DEF CallOK
  <2> HIDE DEF c
  <2>4. TypeOK'
    BY <1>1, <1>3, <2>1, <2>2, CallBecomes DEF TypeOK, Lookup
  <2>5. CallsOK' /\ Noticed'
    BY <1>1, <1>3, <2>1, <2>2, <2>3, CallBecomes, Kept DEF Inv, CallsOK, CallOK, Noticed, Lookup
  <2> QED
    BY <1>3, <2>4, <2>5, Kept DEF Inv, Lookup
<1>4. CASE AddResponse(s)
  <2> DEFINE c == [call EXCEPT !.at = "count"]
  <2>1. calls' = [calls EXCEPT ![s] = c] /\ call.at = "add"
    BY <1>1, <1>4 DEF AddResponse, Goto, TypeOK
  <2>2. c \in Calls /\ c.at = "count" /\ CallOK(c, collection')
    BY <1>1, <1>2, <2>1 DEF Calls, CallOK
  <2>3. call.value \in Values /\ call.replica \in Ids
    BY <1>2, <2>1 DEF Calls
  <2>4. collection' = [collection EXCEPT ![call.value] = @ \cup {call.replica}]
    BY <1>4 DEF AddResponse, Key
  <2> HIDE DEF c
  <2>5. /\ calls' \in [Slots -> Calls \cup {Free}] /\ calls'[s] = c
        /\ \A t \in Slots : t # s => calls'[t] = calls[t]
    BY <1>1, <2>1, <2>2, CallBecomes
  <2>6. /\ collection' \in [Values -> SUBSET Ids]
        /\ (Big => Big') /\ (~Big /\ Big' => Enough')
        /\ \A w \in Values : Backed(collection, w) => Backed(collection', w)
    BY <1>1, <2>3, <2>4, Grows
  <2>7. TypeOK'
    BY <1>1, <1>4, <2>5, <2>6 DEF TypeOK, AddResponse
  <2>8. AnswerBacked'
    <3>1. result' = result /\ result \in Values \cup {None}
      BY <1>1, <1>4 DEF AddResponse, TypeOK
    <3> QED
      BY <2>6, <3>1 DEF Inv, AnswerBacked, Backed
  <2>9. CallsOK'
    BY <1>1, <2>1, <2>2, <2>6, CallBecomes DEF Inv
  <2>10. Noticed'
    <3> SUFFICES ASSUME ~overlapped', result' = None, Big'
                 PROVE  \E t \in Slots : \/ calls'[t].at \in {"choose", "send"}
                                         \/ calls'[t].at = "count" /\ Enough'
      BY DEF Noticed
    <3>1. ~overlapped /\ result = None /\ \A t \in Slots : calls[t].at # "count"
      BY <1>4 DEF AddResponse
    <3>2. CASE Big
      <4>1. PICK t \in Slots : calls[t].at \in {"choose", "send"}
        BY <3>1, <3>2 DEF Inv, Noticed
      <4>2. calls'[t] = calls[t]
        BY <2>1, <2>5, <4>1
      <4> QED
        BY <4>1, <4>2
    <3>3. CASE ~Big
      BY <2>2, <2>5, <2>6, <3>3
    <3> QED
      BY <3>2, <3>3
  <2> QED
    BY <1>4, <2>7, <2>8, <2>9, <2>10 DEF Inv
<1>5. CASE CountResponses(s)
  <2> DEFINE c == IF Enough THEN [call EXCEPT !.at = "choose"] ELSE Free
  <2>1. calls' = [calls EXCEPT ![s] = c] /\ call.at = "count"
    BY <1>1, <1>5 DEF CountResponses, Goto, Return, TypeOK
  <2>2. Enough => Big
    BY <1>1, Sizes DEF Enough, Big, Backed, Largest
  <2>3. c \in Calls \cup {Free} /\ CallOK(c, collection') /\ (Enough => c.at = "choose")
    <3>1. CASE Enough
      <4>1. Big' /\ c = [call EXCEPT !.at = "choose"] /\ call \in Calls
        BY <1>2, <1>5, <2>1, <2>2, <3>1, Kept DEF CountResponses
      <4>2. c \in Calls /\ c.at = "choose"
        BY <4>1 DEF Calls
      <4>3. \E v \in Values : Backed(collection', v)
        BY <4>1 DEF Big
      <4> QED
        BY <3>1, <4>2, <4>3 DEF CallOK
    <3>2. CASE ~Enough
      BY <3>2 DEF CallOK, Free
    <3> QED
      BY <3>1, <3>2
  <2> HIDE DEF c
  <2>4. TypeOK'
    BY <1>1, <1>5, <2>1, <2>3, CallBecomes DEF TypeOK, CountResponses
  <2>5. CallsOK'
    BY <1>1, <1>5, <2>1, <2>3, CallBecomes, Kept DEF Inv, CallsOK, CallOK, CountResponses
  <2>6. Noticed'
    <3> SUFFICES ASSUME ~overlapped, result = None, Big
                 PROVE  \E t \in Slots : \/ calls'[t].at \in {"choose", "send"}
                                         \/ calls'[t].at = "count" /\ Enough'
      BY <1>5, Kept DEF Noticed, CountResponses
    <3>1. CASE Enough
      BY <1>1, <2>1, <2>3, <3>1, CallBecomes
    <3>2. CASE ~Enough
      <4>1. PICK t \in Slots : calls[t].at \in {"choose", "send"}
        BY <3>2 DEF Inv, Noticed
      <4> QED
        BY <1>1, <2>1, <2>3, <4>1, CallBecomes
    <3> QED
      BY <3>1, <3>2
  <2> QED
    BY <1>5, <2>4, <2>5, <2>6, Kept DEF Inv, CountResponses
<1>6. ASSUME NEW v \in Values, ChooseResponse(s, v) PROVE Inv'
  <2> DEFINE c == [call EXCEPT !.at = "send", !.value = v]
  <2>1. calls' = [calls EXCEPT ![s] = c] /\ call.at = "choose"
    BY <1>1, <1>6 DEF ChooseResponse, TypeOK
  <2>2. c \in Calls /\ c.at = "send" /\ c.value = v
    BY <1>1, <1>2, <2>1 DEF Calls
  <2>3. Backed(collection', v)
    <3>1. PICK w \in Values : Cardinality(collection[w]) >= F + 1
      BY <1>1, <2>1 DEF CallOK, Big, Backed
    <3>2. Cardinality(collection[w]) <= Cardinality(collection[v])
      BY <1>6 DEF ChooseResponse, GetResponse, Largest
    <3>3. Cardinality(collection[v]) >= F + 1
      BY <1>1, <3>1, <3>2, Sizes
    <3> QED
      BY <1>6, <3>3 DEF Backed, ChooseResponse
  <2>4. CallOK(c, collection')
    BY <2>2, <2>3 DEF CallOK
  <2> HIDE DEF c
  <2>5. TypeOK'
    BY <1>1, <1>6, <2>1, <2>2, CallBecomes DEF TypeOK, ChooseResponse
  <2>6. CallsOK' /\ Noticed'
    BY <1>1, <1>6, <2>1, <2>2, <2>4, CallBecomes, Kept
       DEF Inv, CallsOK, CallOK, Noticed, ChooseResponse
  <2> QED
    BY <1>6, <2>5, <2>6, Kept DEF Inv, ChooseResponse
<1>7. CASE SendResult(s)
  <2>1. calls' = [calls EXCEPT ![s] = Free] /\ call.at = "send"
    BY <1>7 DEF SendResult, Return
  <2>2. result' = call.value /\ call.value \in Values /\ Backed(collection, call.value)
    BY <1>1, <1>2, <1>7 DEF SendResult, CallOK, Calls, Free
  <2>3. TypeOK'
    BY <1>1, <1>7, <2>1, <2>2, CallBecomes, ValuesAssumption DEF TypeOK, SendResult
  <2>4. collection' = collection
    BY <1>7 DEF SendResult
  <2>5. CallsOK'
    <3>1. CallOK(Free, collection')
      BY DEF CallOK, Free
    <3>2. \A v \in Values : Backed(collection, v) => Backed(collection', v)
      BY <2>4
    <3> QED
      BY <1>1, <2>1, <3>1, <3>2, CallBecomes DEF Inv
  <2>6. AnswerBacked' /\ Noticed'
    BY <2>2, <2>4, ValuesAssumption DEF AnswerBacked, Backed, Noticed
  <2> QED
    BY <2>3, <2>4, <2>5, <2>6 DEF Inv
<1> QED
  BY <1>3, <1>4, <1>5, <1>6, <1>7 DEF CallStep

LEMMA Invariant == Spec => []Inv
<1>1. Inv /\ [Next]_vars => Inv'
  <2> SUFFICES ASSUME Inv, [Next]_vars PROVE Inv'
    OBVIOUS
  <2>1. CASE Next
    BY <2>1, HttpInv, ReceiveInv, StepInv DEF Next
  <2>2. CASE UNCHANGED vars
    BY <2>2 DEF vars, Inv, TypeOK, CallsOK, CallOK, AnswerBacked, Noticed,
                Big, Backed, Enough, Largest
  <2> QED
    BY <2>1, <2>2
<1> QED
  BY <1>1, InitInv, PTL DEF Spec

\* The maps, the calls and the handler keep their types.
THEOREM ClientTypes == Spec => []TypeOK
<1>1. Inv => TypeOK
  BY DEF Inv
<1> QED
  BY <1>1, Invariant, PTL

\* SendRequest's caller receives only a result that came under F + 1 replica ids.
THEOREM AnswersAreBacked == Spec => []AnswerBacked
<1>1. Inv => AnswerBacked
  BY DEF Inv
<1> QED
  BY <1>1, Invariant, PTL

\* Response loses a result that came under F + 1 ids only when two calls overlap.
THEOREM LossNeedsOverlap == Spec => []LostOnlyOnOverlap
<1>1. Inv => LostOnlyOnOverlap
  BY DEF Inv, Noticed, Big, Backed, LostOnlyOnOverlap, Free
<1> QED
  BY <1>1, Invariant, PTL
=============================================================================
