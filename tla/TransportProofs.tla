-------------------------- MODULE TransportProofs --------------------------
(***************************************************************************)
(* What Enable and Disable leave behind, and where the retries stop, for   *)
(* any messages, retries and capacity.                                     *)
(***************************************************************************)
EXTENDS Transport, TLAPS

\* With Enable between its signal and its assignment the service is as good as enabled.
Overtaken ==
    /\ toggle = "enable" \/ (toggle = "none" /\ enabled)
    /\ run \in {"leaving", "parked"}
    => overtaken

Inv == TypeOK /\ Overtaken

LEMMA InitInv == Init => Inv
<1> SUFFICES ASSUME Init PROVE Inv
  OBVIOUS
<1>1. TypeOK
  <2>1. method \in [Messages -> [Attempts -> {"none", "arrived", "waiting", "taken", "refused"}]]
    BY DEF Init
  <2>2. call \in [Messages -> {"idle", "trying", "succeeded", "gaveUp"}] /\ 0 \in 0..MaxRetries
    BY TransportAssumption DEF Init
  <2>3. attempt \in [Messages -> 0..MaxRetries]
    BY <2>2 DEF Init
  <2>4. run \in {"busy", "select", "leaving", "parked"}
    BY DEF Init
  <2>5. requests \in 0..Capacity
    BY TransportAssumption DEF Init
  <2>6. enabled \in BOOLEAN /\ overtaken \in BOOLEAN
    BY DEF Init
  <2>7. toggle = "none"
    BY DEF Init
  <2> QED
    BY <2>1, <2>2, <2>3, <2>4, <2>5, <2>6, <2>7 DEF TypeOK
<1>2. Overtaken
  BY DEF Init, Overtaken
<1> QED
  BY <1>1, <1>2 DEF Inv

\* Progress of one attempt inside the service.
LEMMA Moves ==
  ASSUME TypeOK, NEW m \in Messages, NEW k \in Attempts,
         NEW at \in {"arrived", "waiting", "taken", "refused"}, Goto(m, k, at)
  PROVE  method' \in [Messages -> [Attempts -> {"none", "arrived", "waiting", "taken", "refused"}]]
  BY DEF TypeOK, Goto

LEMMA SenderInv ==
  ASSUME Inv, NEW m \in Messages, SenderStep(m)
  PROVE  Inv'
<1> USE DEF Inv
<1>1. Overtaken'
  BY DEF SenderStep, SendRPCToPeer, Succeeds, TimesOut, toggleVars, Overtaken
<1>2. CASE SendRPCToPeer(m)
  BY <1>1, <1>2, TransportAssumption DEF SendRPCToPeer, toggleVars, TypeOK
<1>3. CASE Succeeds(m)
  BY <1>1, <1>3 DEF Succeeds, toggleVars, TypeOK
<1>4. CASE TimesOut(m)
  <2>1. attempt[m] \in Nat /\ MaxRetries \in Nat
    BY TransportAssumption DEF TypeOK
  <2>2. CASE attempt[m] < MaxRetries
    <3>1. attempt' = [attempt EXCEPT ![m] = @ + 1] /\ UNCHANGED call
      BY <1>4, <2>2 DEF TimesOut, Retry
    <3>2. attempt[m] + 1 \in 0..MaxRetries
      BY <2>1, <2>2
    <3> QED
      BY <1>1, <1>4, <3>1, <3>2 DEF TimesOut, toggleVars, TypeOK
  <2>3. CASE ~(attempt[m] < MaxRetries)
    <3>1. call' = [call EXCEPT ![m] = "gaveUp"] /\ UNCHANGED attempt
      BY <1>4, <2>3 DEF TimesOut, Retry
    <3> QED
      BY <1>1, <1>4, <3>1 DEF TimesOut, toggleVars, TypeOK
  <2> QED
    BY <2>2, <2>3
<1> QED
  BY <1>2, <1>3, <1>4 DEF SenderStep

LEMMA ServiceInv == Inv /\ ServiceStep => Inv'
<1> SUFFICES ASSUME Inv, ServiceStep PROVE Inv'
  OBVIOUS
<1> USE DEF Inv
<1>1. ASSUME NEW m \in Messages, NEW k \in Attempts, Arrives(m, k) PROVE Inv'
  <2>1. method[m][k] = "none" /\ Goto(m, k, "arrived")
    BY <1>1 DEF Arrives
  <2>2. TypeOK'
    BY <1>1, <2>1, Moves DEF Arrives, senderVars, toggleVars, TypeOK
  <2>3. Overtaken'
    BY <1>1 DEF Arrives, senderVars, toggleVars, Overtaken
  <2> QED
    BY <2>2, <2>3
<1>2. ASSUME NEW m \in Messages, NEW k \in Attempts, Method(m, k) PROVE Inv'
  <2>1. method[m][k] = "arrived" /\ (Goto(m, k, "waiting") \/ Goto(m, k, "refused"))
    BY <1>2 DEF Method
  <2>2. TypeOK'
    BY <1>2, <2>1, Moves DEF Method, senderVars, toggleVars, TypeOK
  <2>3. Overtaken'
    BY <1>2 DEF Method, senderVars, toggleVars, Overtaken
  <2> QED
    BY <2>2, <2>3
<1>3. CASE Request
  BY <1>3, TransportAssumption
     DEF Request, senderVars, toggleVars, TypeOK, Overtaken
<1>4. CASE EnablePut
  BY <1>4 DEF EnablePut, senderVars, TypeOK, Overtaken
<1>5. CASE DisablePut
  BY <1>5 DEF DisablePut, senderVars, TypeOK, Overtaken
<1>6. CASE ToggleSets
  BY <1>6 DEF ToggleSets, senderVars, TypeOK, Overtaken
<1> QED
  BY <1>1, <1>2, <1>3, <1>4, <1>5, <1>6 DEF ServiceStep

LEMMA RunInv == Inv /\ RunStep => Inv'
<1> SUFFICES ASSUME Inv, RunStep PROVE Inv'
  OBVIOUS
<1> USE DEF Inv
<1>1. CASE ToSelect
  BY <1>1 DEF ToSelect, senderVars, toggleVars, TypeOK, Overtaken
<1>2. CASE TakeRequest
  BY <1>2, TransportAssumption
     DEF TakeRequest, senderVars, toggleVars, TypeOK, Overtaken
<1>3. CASE Park
  BY <1>3 DEF Park, senderVars, toggleVars, TypeOK, Overtaken
<1>4. ASSUME NEW m \in Messages, NEW k \in Attempts, TakeInput(m, k) PROVE Inv'
  <2>1. method[m][k] = "waiting" /\ Goto(m, k, "taken")
    BY <1>4 DEF TakeInput
  <2>2. TypeOK'
    BY <1>4, <2>1, Moves DEF TakeInput, senderVars, toggleVars, TypeOK
  <2>3. Overtaken'
    BY <1>4 DEF TakeInput, senderVars, toggleVars, Overtaken
  <2> QED
    BY <2>2, <2>3
<1> QED
  BY <1>1, <1>2, <1>3, <1>4 DEF RunStep

LEMMA Invariant == Spec => []Inv
<1>1. Inv /\ [Next]_vars => Inv'
  <2> SUFFICES ASSUME Inv, [Next]_vars PROVE Inv'
    OBVIOUS
  <2>1. CASE Next
    BY <2>1, SenderInv, ServiceInv, RunInv DEF Next
  <2>2. CASE UNCHANGED vars
    BY <2>2 DEF vars, Inv, TypeOK, Overtaken
  <2> QED
    BY <2>1, <2>2
<1> QED
  BY <1>1, InitInv, PTL DEF Spec

\* Every variable keeps its type; in particular the sender stops at MaxRetries.
THEOREM TransportTypes == Spec => []TypeOK
<1>1. Inv => TypeOK
  BY DEF Inv
<1> QED
  BY <1>1, Invariant, PTL

\* The service is open to a node that is not there only after an Enable that came
\* before Run waited for it.
THEOREM DeafNodeWasOvertaken == Spec => []DeafOnlyIfOvertaken
<1>1. Inv => DeafOnlyIfOvertaken
  BY DEF Inv, Overtaken, DeafOnlyIfOvertaken
<1> QED
  BY <1>1, Invariant, PTL
=============================================================================
