------------------------------- MODULE DirectCall -------------------------------
(***************************************************************************)
(* What a page of the console may rely on when it uses an endpoint of the  *)
(* API slice: as if it called OpenNebula itself.  One request is asked,    *)
(* the call it means is performed at most once, and the reply agrees with  *)
(* what became of the call.  A reply may also be empty: then the page      *)
(* knows nothing, and the call may still happen.                           *)
(***************************************************************************)
CONSTANTS
  Asks,         \* what pages can ask for
  Meant(_, _),  \* Meant(a, c): the call c is the one that a asks for
  None

VARIABLES
  ask,      \* the request of the page
  calls,    \* the calls performed for it
  verdict,  \* what became of the call
  reply     \* what the page is told

vars == <<ask, calls, verdict, reply>>

Init == ask = None /\ calls = {} /\ verdict = None /\ reply = None

Ask ==
  /\ ask = None
  /\ ask' \in Asks
  /\ UNCHANGED <<calls, verdict, reply>>

\* A request that was rejected is not performed later.
Perform ==
  /\ ask # None /\ calls = {} /\ reply # "rejected"
  /\ \E c \in calls' : calls' = {c} /\ Meant(ask, c)
  /\ UNCHANGED <<ask, verdict, reply>>

\* "unknown": the caller cannot tell whether the call had its effect.
Decide ==
  /\ calls # {} /\ verdict = None
  /\ verdict' \in {"done", "refused", "unknown"}
  /\ UNCHANGED <<ask, calls, reply>>

Reply ==
  /\ ask # None /\ reply = None
  /\ \/ reply' = "data" /\ verdict \in {"done", "unknown"}
     \/ reply' = "rejected" /\ verdict # "done" /\ (calls # {} => verdict # None)
     \/ reply' = "empty"
  /\ UNCHANGED <<ask, calls, verdict>>

Next == Ask \/ Perform \/ Decide \/ Reply

Spec == Init /\ [][Next]_vars

=================================================================================
