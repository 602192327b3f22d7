------------------------------- MODULE Client -------------------------------
(***************************************************************************)
(* One request of a client: SendRequest, the gRPC calls Response it brings *)
(* (client/client.go), and the HTTP handler that waits for the result      *)
(* (client/http_server.go).  Requests share nothing but the maps keyed by  *)
(* their time stamps.                                                      *)
(*                                                                         *)
(* Each Response runs in a goroutine of its own and takes three locks one  *)
(* after the other; it is cut between them.  The environment sends it any  *)
(* result under any replica id, as often as it likes: Response takes the   *)
(* id from the message and nothing ties it to the sender, so one faulty    *)
(* replica can answer under all of them.                                   *)
(***************************************************************************)
EXTENDS Integers, FiniteSets

CONSTANTS
    Replicas,       \* the nodes of the configuration, which F is computed from
    Ids,            \* the ReplicaIds that answers name
    Values,         \* the possible results
    Slots,          \* bound: the Response calls served at once
    None

VARIABLES
    http,           \* the HTTP handler: "start", "calling", "waiting", "answered", "gone"
    registered,     \* callbackChannels has the time stamp
    collection,     \* ResponseCollection: value -> the ids it came under
    calls,          \* the Response goroutine in each slot
    result,         \* what the HTTP handler received
    overlapped      \* history: two calls were between adding and counting at once

vars == <<http, registered, collection, calls, result, overlapped>>

F == (Cardinality(Replicas) - 1) \div 3

Free == [at |-> "free", replica |-> None, value |-> None, channel |-> FALSE]
Calls == [at : {"lookup", "add", "count", "choose", "send"}, replica : Ids,
          value : Values, channel : BOOLEAN]

ASSUME ReplicasAssumption ==
    /\ IsFiniteSet(Replicas) /\ Replicas # {}
    /\ IsFiniteSet(Ids)
ASSUME ValuesAssumption ==
    /\ IsFiniteSet(Values) /\ None \notin Values

Init ==
    /\ http = "start"
    /\ registered = FALSE
    /\ collection = [v \in Values |-> {}]
    /\ calls = [s \in Slots |-> Free]
    /\ result = None
    /\ overlapped = FALSE

-----------------------------------------------------------------------------
(* The HTTP handler.  An operator MUT_X is X with a plausible slip in it.    *)

MUT_Register(step) == registered' = (registered \/ step = "return")
Register(step) == registered' = (registered \/ step = "send")

\* Up to the call of Request.
SendRequest ==
    /\ http = "start"
    /\ http' = "calling"
    /\ Register("send")
    /\ UNCHANGED <<collection, calls, result, overlapped>>

\* Request returned, failed or timed out; the handler does not look which.
RequestReturns ==
    /\ http = "calling"
    /\ http' = "waiting"
    /\ Register("return")
    /\ UNCHANGED <<collection, calls, result, overlapped>>

Timeout ==
    /\ http = "waiting"
    /\ http' = "gone"
    /\ UNCHANGED <<registered, collection, calls, result, overlapped>>

-----------------------------------------------------------------------------
(* Response                                                                  *)

Goto(s, at) == calls' = [calls EXCEPT ![s].at = at]
Return(s) == calls' = [calls EXCEPT ![s] = Free]

\* An answer arrives once the request was sent.
Receive(s, r, v) ==
    /\ calls[s] = Free
    /\ http # "start"
    /\ calls' = [calls EXCEPT ![s] =
                    [at |-> "lookup", replica |-> r, value |-> v, channel |-> FALSE]]
    /\ UNCHANGED <<http, registered, collection, result, overlapped>>

\* Under c.mu; a missing collection is made.
Lookup(s) ==
    /\ calls[s].at = "lookup"
    /\ calls' = [calls EXCEPT ![s].at = "add", ![s].channel = registered]
    /\ UNCHANGED <<http, registered, collection, result, overlapped>>

MUT_Key(call) == call.value
Key(call) == call.replica
AddResponse(s) ==
    /\ calls[s].at = "add"
    /\ collection' = [collection EXCEPT ![calls[s].value] = @ \cup {Key(calls[s])}]
    /\ overlapped' = (overlapped \/ \E t \in Slots : calls[t].at = "count")
    /\ Goto(s, "count")
    /\ UNCHANGED <<http, registered, result>>

\* GetSize, whose argument is unused: the size of the largest group.
Largest == {v \in Values : \A w \in Values : Cardinality(collection[w]) <= Cardinality(collection[v])}
MUT_Enough == \E v \in Largest : Cardinality(collection[v]) = F + 2
Enough == \E v \in Largest : Cardinality(collection[v]) = F + 1
CountResponses(s) ==
    /\ calls[s].at = "count"
    /\ IF Enough THEN Goto(s, "choose") ELSE Return(s)
    /\ UNCHANGED <<http, registered, collection, result, overlapped>>

\* Of several largest groups the map's order decides.
MUT_GetResponse == {v \in Values : collection[v] # {}}
GetResponse == {v \in Largest : collection[v] # {}}
ChooseResponse(s, v) ==
    /\ calls[s].at = "choose"
    /\ v \in GetResponse
    /\ calls' = [calls EXCEPT ![s].at = "send", ![s].value = v]
    /\ UNCHANGED <<http, registered, collection, result, overlapped>>

\* The channel is unbuffered, and nil if the look-up did not find it.
SendResult(s) ==
    /\ calls[s].at = "send"
    /\ calls[s].channel
    /\ http = "waiting"
    /\ http' = "answered"
    /\ result' = calls[s].value
    /\ Return(s)
    /\ UNCHANGED <<registered, collection, overlapped>>

-----------------------------------------------------------------------------
CallStep(s) ==
    \/ Lookup(s) \/ AddResponse(s) \/ CountResponses(s) \/ SendResult(s)
    \/ \E v \in Values : ChooseResponse(s, v)

Next ==
    \/ SendRequest \/ RequestReturns \/ Timeout
    \/ \E s \in Slots : CallStep(s)
    \/ \E s \in Slots, r \in Ids, v \in Values : Receive(s, r, v)

\* The context of Request expires, and a goroutine that can run does.  Nothing is
\* assumed of answers, nor of how long the HTTP handler has patience.
Spec == Init /\ [][Next]_vars /\ WF_vars(RequestReturns) /\ \A s \in Slots : WF_vars(CallStep(s))

-----------------------------------------------------------------------------
TypeOK ==
    /\ http \in {"start", "calling", "waiting", "answered", "gone"}
    /\ registered \in BOOLEAN /\ overlapped \in BOOLEAN
    /\ collection \in [Values -> SUBSET Ids]
    /\ calls \in [Slots -> Calls \cup {Free}]
    /\ result \in Values \cup {None}

\* The result handed out came under F + 1 different replica ids, although the group is
\* counted under one lock and picked under another and the groups grow between.  It is
\* right only if at most F ids are used for wrong results, which is more than that at
\* most F replicas are faulty: nothing in Response ties an id to a sender.
AnswerBacked == result # None => Cardinality(collection[result]) >= F + 1

\* An answer is lost only when two calls of Response counted each other's response:
\* the test is for equality, and the group then skips F + 1.
LostOnlyOnOverlap ==
    /\ \E v \in Values : Cardinality(collection[v]) >= F + 1
    /\ \A s \in Slots : calls[s] = Free
    => result # None \/ overlapped

\* A Response blocks for ever only if the HTTP handler has left.
ResponseReturns ==
    \A s \in Slots : calls[s] # Free ~> (calls[s] = Free \/ http \in {"answered", "gone"})
=============================================================================
