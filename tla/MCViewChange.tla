---------------------------- MODULE MCViewChange ----------------------------
(***************************************************************************)
(* Four replicas and two views after view 0.  The votes are those of one   *)
(* history.  In view 0, p1 has a stable checkpoint at 1; 2 was prepared by *)
(* self alone; 3 was prepared by the peers and committed.  View 1 was      *)
(* formed by the peers: it carried "nil" at 2 and the request at 3.  A     *)
(* replica that missed view 1 votes for view 2 with what it prepared in    *)
(* view 0.                                                                 *)
(*                                                                         *)
(* TLC evaluates X <- Y anew at each use of X but a constant Y only once:  *)
(* hence the second names.                                                 *)
(***************************************************************************)
EXTENDS ViewChange, TLC

CONSTANTS self, p1, p2, p3

Everyone == {self, p1, p2, p3}
MCReplicas == Everyone

Entry(n, v, d) == [seq |-> n, view |-> v, digest |-> d, prepares |-> {p1, p2}]
Raced(n, v) == [seq |-> n, view |-> v, digest |-> "", prepares |-> {p3}]
Vote(s, entries) == [stable |-> s, prepared |-> entries, headless |-> FALSE]

Carried == {Entry(2, 1, "nil"), Entry(3, 1, "")}
Executed == {Entry(1, 0, ""), Entry(3, 0, "")}
ContentOf ==
    [missed   |-> Vote(0, {Entry(1, 0, ""), Entry(2, 0, "")}),
     executed |-> Vote(0, Executed),
     headless |-> [Vote(0, Executed) EXCEPT !.headless = TRUE],
     fresh    |-> Vote(1, {}),
     stable   |-> Vote(1, Carried),
     carried  |-> Vote(0, Carried),
     raced    |-> Vote(0, Carried \cup {Raced(1, 1)})]
MCContent == ContentOf

VotesOf ==
    (self :> <<{"missed"}, {"missed", "fresh", "stable"}>>)
 @@ (p1 :> <<{}, {"stable"}>>)
 @@ (p2 :> <<{"executed"}, {"raced"}>>)
 @@ (p3 :> <<{"headless"}, {"carried"}>>)
MCVotes == VotesOf

\* Self leads view 2.
Second == [w \in Views |-> IF w = 2 THEN self ELSE p1]
MCSecond == Second
=============================================================================
