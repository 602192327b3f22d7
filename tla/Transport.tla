----------------------------- MODULE Transport -----------------------------
(***************************************************************************)
(* How messages and the Enable and Disable calls of the load tester reach  *)
(* a node: Sender.SendRPCToPeer (pbft/sender.go) with its retries, the     *)
(* gRPC methods of Service (pbft/service.go) and the loop of Node.Run      *)
(* (pbft/node.go) at the other end of unbuffered channels.                 *)
(*                                                                         *)
(* The method of a message waits on inputCh for as long as it takes: it    *)
(* does not look at its context, so the call may time out and be repeated  *)
(* while the first copy still waits, and a copy taken long after counts as *)
(* any other.  Enable and Disable do not wait: their signal is lost unless *)
(* Run is at the other end just then, but Service.Enabled is set anyway.   *)
(***************************************************************************)
EXTENDS Naturals

CONSTANTS
    Messages,       \* the calls of SendRPCToPeer
    MaxRetries,     \* Grpc.MaxRetries
    Capacity        \* of the request channel

VARIABLES
    call,           \* SendRPCToPeer: "idle", "trying", "succeeded", "gaveUp"
    attempt,        \* its loop counter
    method,         \* the Service method each attempt runs, and how far it is
    run,            \* Run: "busy", "select", "leaving" (disabled, not yet at line 117), "parked"
    requests,       \* the length of the request channel
    enabled,        \* Service.Enabled
    toggle,         \* Enable or Disable between its signal and its assignment
    overtaken       \* history: an Enable was ignored while Run was leaving

vars == <<call, attempt, method, run, requests, enabled, toggle, overtaken>>
senderVars == <<call, attempt>>
toggleVars == <<enabled, toggle, overtaken>>

Attempts == 1..MaxRetries

ASSUME TransportAssumption == MaxRetries \in Nat \ {0} /\ Capacity \in Nat \ {0}

\* EnabledByDefault sets both flags.  A node that starts disabled first broadcasts its
\* GetStatus: until Run waits for Enable, one that comes is lost, as after Disable.
Init ==
    /\ call = [m \in Messages |-> "idle"]
    /\ attempt = [m \in Messages |-> 0]
    /\ method = [m \in Messages |-> [k \in Attempts |-> "none"]]
    /\ enabled \in BOOLEAN
    /\ run = IF enabled THEN "busy" ELSE "leaving"
    /\ requests = 0
    /\ toggle = "none"
    /\ overtaken = FALSE

-----------------------------------------------------------------------------
(* The sender.  An operator MUT_X is X with a plausible slip in it.          *)

SendRPCToPeer(m) ==
    /\ call[m] = "idle"
    /\ call' = [call EXCEPT ![m] = "trying"]
    /\ attempt' = [attempt EXCEPT ![m] = 1]
    /\ UNCHANGED <<method, run, requests, toggleVars>>

Succeeds(m) ==
    /\ call[m] = "trying"
    /\ method[m][attempt[m]] \in {"taken", "refused"}
    /\ call' = [call EXCEPT ![m] = "succeeded"]
    /\ UNCHANGED <<attempt, method, run, requests, toggleVars>>

\* The call failed, or the answer is late; the answer to an old attempt is not heard.
MUT_Retry(m) == call' = [call EXCEPT ![m] = "trying"] /\ attempt' = [attempt EXCEPT ![m] = @ + 1]
Retry(m) ==
    IF attempt[m] < MaxRetries
      THEN attempt' = [attempt EXCEPT ![m] = @ + 1] /\ UNCHANGED call
      ELSE call' = [call EXCEPT ![m] = "gaveUp"] /\ UNCHANGED attempt
TimesOut(m) ==
    /\ call[m] = "trying"
    /\ Retry(m)
    /\ UNCHANGED <<method, run, requests, toggleVars>>

-----------------------------------------------------------------------------
(* The service                                                               *)

Goto(m, k, at) == method' = [method EXCEPT ![m][k] = at]

\* An attempt reaches the service, perhaps after its time, or never does.
Arrives(m, k) ==
    /\ k <= attempt[m]
    /\ method[m][k] = "none"
    /\ Goto(m, k, "arrived")
    /\ UNCHANGED <<senderVars, run, requests, toggleVars>>

\* PrePrepare, Prepare, Commit, Checkpoint, GetStatus and Status are alike: a disabled
\* service answers that all is well.
Method(m, k) ==
    /\ method[m][k] = "arrived"
    /\ Goto(m, k, IF enabled THEN "waiting" ELSE "refused")
    /\ UNCHANGED <<senderVars, run, requests, toggleVars>>

\* A client's request is put on its channel or turned away.
Request ==
    /\ enabled
    /\ requests < Capacity
    /\ requests' = requests + 1
    /\ UNCHANGED <<senderVars, method, run, toggleVars>>

Waiting == \E m \in Messages, k \in Attempts : method[m][k] = "waiting"

MUT_EnablePut ==
    /\ toggle = "none"
    /\ toggle' = "enable"
    /\ IF run = "parked" /\ ~enabled THEN run' = "busy" /\ overtaken' = FALSE
                                     ELSE overtaken' = (overtaken \/ run = "leaving") /\ UNCHANGED run
    /\ UNCHANGED <<senderVars, method, requests, enabled>>
EnablePut ==
    /\ toggle = "none"
    /\ toggle' = "enable"
    /\ IF run = "parked" THEN run' = "busy" /\ overtaken' = FALSE
                         ELSE overtaken' = (overtaken \/ run = "leaving") /\ UNCHANGED run
    /\ UNCHANGED <<senderVars, method, requests, enabled>>

\* Run waits in its select only when none of its channels has anything for it.
DisablePut ==
    /\ toggle = "none"
    /\ toggle' = "disable"
    /\ IF run = "select" /\ ~Waiting /\ requests = 0 THEN run' = "leaving" ELSE UNCHANGED run
    /\ UNCHANGED <<senderVars, method, requests, enabled, overtaken>>

MUT_ToggleSets ==
    /\ toggle # "none"
    /\ enabled' = (enabled \/ toggle = "enable")
    /\ toggle' = "none"
    /\ UNCHANGED <<senderVars, method, run, requests, overtaken>>
ToggleSets ==
    /\ toggle # "none"
    /\ enabled' = (toggle = "enable")
    /\ toggle' = "none"
    /\ UNCHANGED <<senderVars, method, run, requests, overtaken>>

-----------------------------------------------------------------------------
(* Node.Run                                                                  *)

\* The handler of a message returns, or Run resumes after Enable.
ToSelect ==
    /\ run = "busy"
    /\ run' = "select"
    /\ UNCHANGED <<senderVars, method, requests, toggleVars>>

MUT_TakeInput(m, k) ==
    /\ run = "select"
    /\ requests = 0
    /\ method[m][k] = "waiting"
    /\ run' = "busy"
    /\ Goto(m, k, "taken")
    /\ UNCHANGED <<senderVars, requests, toggleVars>>
TakeInput(m, k) ==
    /\ run = "select"
    /\ method[m][k] = "waiting"
    /\ run' = "busy"
    /\ Goto(m, k, "taken")
    /\ UNCHANGED <<senderVars, requests, toggleVars>>

TakeRequest ==
    /\ run = "select"
    /\ requests > 0
    /\ run' = "busy"
    /\ requests' = requests - 1
    /\ UNCHANGED <<senderVars, method, toggleVars>>

\* exhaustChannel(EnableCh) finds nothing: an unbuffered channel holds nothing, and
\* Enable does not wait at it.
Park ==
    /\ run = "leaving"
    /\ run' = "parked"
    /\ UNCHANGED <<senderVars, method, requests, toggleVars>>

-----------------------------------------------------------------------------
SenderStep(m) == SendRPCToPeer(m) \/ Succeeds(m) \/ TimesOut(m)
ServiceStep ==
    \/ \E m \in Messages, k \in Attempts : Arrives(m, k) \/ Method(m, k)
    \/ Request \/ EnablePut \/ DisablePut \/ ToggleSets
RunStep == ToSelect \/ TakeRequest \/ Park \/ \E m \in Messages, k \in Attempts : TakeInput(m, k)

Next == (\E m \in Messages : SenderStep(m)) \/ ServiceStep \/ RunStep

\* Run keeps running and ends each handler; its select picks among the ready channels
\* at random and the methods queue up at inputCh, so each gets its turn.
Fairness ==
    /\ WF_vars(ToSelect) /\ WF_vars(Park) /\ WF_vars(ToggleSets)
    /\ \A m \in Messages, k \in Attempts : SF_vars(TakeInput(m, k))
Spec == Init /\ [][Next]_vars /\ Fairness

-----------------------------------------------------------------------------
TypeOK ==
    /\ call \in [Messages -> {"idle", "trying", "succeeded", "gaveUp"}]
    /\ attempt \in [Messages -> 0..MaxRetries]
    /\ method \in [Messages -> [Attempts -> {"none", "arrived", "waiting", "taken", "refused"}]]
    /\ run \in {"busy", "select", "leaving", "parked"}
    /\ requests \in 0..Capacity
    /\ enabled \in BOOLEAN /\ overtaken \in BOOLEAN
    /\ toggle \in {"none", "enable", "disable"}

\* The service lets messages through to a node that is not there to take them only
\* after an Enable came too early: between Disable's signal and Run's wait for the next
\* Enable, or, at a node that is disabled by default, before Run first waits for one.
DeafOnlyIfOvertaken ==
    toggle = "none" /\ enabled /\ run \in {"leaving", "parked"} => overtaken

\* A message let through is taken, unless the node is disabled first.
WaitingIsTaken ==
    \A m \in Messages, k \in Attempts :
        method[m][k] = "waiting" ~> method[m][k] = "taken" \/ run \in {"leaving", "parked"}

\* However Enable and Disable met Run, Enable called again and again brings the node
\* back for good.
RepeatedEnableWorks ==
    <>[](toggle # "disable") /\ []<>(toggle = "enable") => <>[](run \in {"busy", "select"})
=============================================================================
