----------------------------- MODULE MC_OneApiCache -----------------------------
(***************************************************************************)
(* OneApiCache with the kinds of object and change of the endpoint table:  *)
(* every detail with every list of its resource and every mutation.        *)
(***************************************************************************)
EXTENDS OneApiCache, OneApiEndpoints, TLC

\* Lists that no patch addresses.
SideLists == {"getHostsAdmin", "getFiles", "getBackups", "getVmsPaginated"}

\* The details that open a socket.
WithSocket == {"getVm", "getHost", "getImage", "getVNetwork"}

Details(t) == {e \in DOMAIN t : t[e].kind = "query" /\ One \in t[e].tags /\ "id" \in t[e].sends}
Lists(t) == {e \in DOMAIN t : t[e].kind = "query" /\ Pool \in t[e].tags}
Mutations(t) == {e \in DOMAIN t : t[e].kind = "mutation" /\ "id" \in t[e].sends}

KindOf(t, d, l, m) ==
  LET side == IF l \in SideLists THEN {List, "hole"} ELSE {}
  IN  [detailTags |-> t[d].tags, listTags |-> t[l].tags,
       listMaps |-> l = "getProviders",
       detailPatches |-> P \in t[d].patches /\ l \notin SideLists,
       socket |-> d \in WithSocket,
       patches |-> t[m].patches \ side, tags |-> t[m].tags,
       removes |-> t[m].cmd[2] = "delete"]

\* These take the names from the lists of users and groups, and patch nothing
\* while one of the two is not in the store.
Ownerships ==
  {"changeDatastoreOwnership", "changeAppOwnership", "changeVNetOwnership",
   "changeVNTemplateOwnership", "changeProviderOwnership",
   "changeServiceTemplateOwnership", "changeGroup", "changeVmOwnership",
   "changeVMGroupOwnership", "changeTemplateOwnership", "changeVrOwnership"}

KindsOf(t, d, l, m) ==
  LET k == KindOf(t, d, l, m)
  IN  {k} \cup (IF m \in Ownerships THEN {[k EXCEPT !.patches = {}]} ELSE {})

AllKinds ==
  UNION UNION
    {{KindsOf(t, d, l, m) : d \in Details(t), l \in Lists(t), m \in Mutations(t)} :
       t \in {EndpointTables[i] : i \in DOMAIN EndpointTables}}

\* The changes of the page are alike.
AnyOrder == Permutations(Changes)

================================================================================
