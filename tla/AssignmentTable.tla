-------------------------- MODULE AssignmentTable --------------------------
(***************************************************************************)
(* What the table device_cluster_assignment promises to whoever reads it,  *)
(* as if it had a single careful writer.  A row is written whole, for one  *)
(* device and flavour at a time: the document and the requirement of a row *)
(* belong together and to the row's device, its cluster was allowed by a   *)
(* document of the device, and its date is the date of the write.  Nothing *)
(* else changes a row, and a row goes only by the purge of everything that *)
(* has expired, and of nothing else.                                       *)
(*                                                                         *)
(* Module CognitSystem implements this with three processes, none of which *)
(* holds a lock the others respect.                                        *)
(***************************************************************************)
EXTENDS Naturals

CONSTANTS
    Clusters,
    DocIds,
    Reqs,        \* requirements: dev, flavour, want
    Admits,      \* want -> clusters with the right confidentiality and provider
    FlavoursOf,  \* cluster -> its flavours
    KeepDays     \* how long an unused row is kept

VARIABLES
    rows,     \* (device, flavour) -> cluster, document, requirement, date
    known,    \* per document, the requirements it has contained
    date

vars == <<rows, known, date>>

KeyOf(r) == <<r.dev, r.flavour>>

\* Cluster c is right for requirement r.
Meets(c, r) == r.flavour \in FlavoursOf[c] /\ c \in Admits[r.want]

\* Some document has been one of key k and has allowed cluster c.
Suits(k, c) ==
    \E id \in DocIds : \E r, s \in known[id] : KeyOf(s) = k /\ Meets(c, r)

Init ==
    /\ rows = [k \in {} |-> {}]
    /\ known = [id \in DocIds |-> {}]
    /\ date = 0

\* A document is created or rewritten.
Record(id, r) ==
    /\ known' = [known EXCEPT ![id] = @ \cup {r}]
    /\ UNCHANGED <<rows, date>>

NextDate ==
    /\ date' = date + 1
    /\ UNCHANGED <<rows, known>>

\* A device is assigned a cluster: its row is new, or replaced as a whole.
Assign(c, id, r) ==
    /\ r \in known[id]
    /\ Suits(KeyOf(r), c)
    /\ rows' = [k \in DOMAIN rows \cup {KeyOf(r)} |->
                  IF k = KeyOf(r)
                  THEN [cluster |-> c, reqId |-> id, req |-> r, seen |-> date]
                  ELSE rows[k]]
    /\ UNCHANGED <<known, date>>

\* A device has asked again: its row is as young as on the first day.
Renew(k) ==
    /\ rows' = [rows EXCEPT ![k].seen = date]
    /\ UNCHANGED <<known, date>>

Purge ==
    /\ rows' = [k \in {x \in DOMAIN rows : date <= rows[x].seen + KeepDays} |-> rows[k]]
    /\ UNCHANGED <<known, date>>

Next ==
    \/ \E id \in DocIds, r \in Reqs : Record(id, r)
    \/ NextDate
    \/ \E c \in Clusters, id \in DocIds, r \in Reqs : Assign(c, id, r)
    \/ \E k \in DOMAIN rows : Renew(k)
    \/ Purge

Spec == Init /\ [][Next]_vars
============================================================================
