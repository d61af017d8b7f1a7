------------------------------ MODULE OneApiCache ------------------------------
(***************************************************************************)
(* The browser's cache of one object: its detail (getX) and its entry in   *)
(* the list (getXs), kept by RTK Query under the rules each endpoint gives *)
(* it: the tags a query provides and a mutation invalidates, the optimistic*)
(* patches of onQueryStarted and their undo, and the events of the hook    *)
(* socket.                                                                 *)
(*                                                                         *)
(* The content of the object is one value: Initial, i once change i has    *)
(* been made, Foreign once somebody else has changed it.  A view has no    *)
(* data (Missing), a value, or (the list) no entry for the object (Absent) *)
(* or an entry overwritten by undefined.  Blank is the empty object a lost *)
(* response is fulfilled with.                                             *)
(***************************************************************************)
EXTENDS Integers, Sequences

CONSTANTS
  Kinds,       \* the kinds of object and of change, from the endpoint table
  Changes,     \* the changes this page makes
  MaxDeeds,    \* changes, by this page or by others, and responses that are lost
  MaxOpens     \* times a view is opened

Detail == "detail"
List   == "list"
Views  == {Detail, List}
Orphan == "orphan"
Queries == Views \cup {Orphan}

Initial == "initial"
Gone    == "gone"
Foreign == "foreign"
Missing == "missing"
Absent  == "absent"
Undefined == "hole"
Blank   == "blank"
None    == "none"
Asked   == "asked"
Values  == Changes \cup {Initial, Foreign}

\* Every query provides a tag, a list that lacks the object included, and no
\* mutation patches a view that it removes the object from.
ASSUME KindsAssumption ==
  \A k \in Kinds : /\ k.detailTags # {}
                   /\ k.listTags \ {"in pool"} # {}
                   /\ k.removes => k.patches \cap Views = {}

ASSUME ChangesAssumption ==
  Changes \cap {Initial, Gone, Foreign, Missing, Absent, Undefined, Blank, None, Asked} = {}

VARIABLES
  kind,     \* the kind under study, fixed at the start
  server,   \* the object in the core
  cache,    \* what each view holds
  fetch,    \* the query in flight of each view: None, asked, or what it read
  open,     \* the views some component is subscribed to
  provided, \* the tags each view provided when it was last filled
  change,   \* for each change: the page's side, the core's side, the undo
  events,   \* hook events on their way to the detail view
  linked,   \* the socket of the detail knows the list
  budget,   \* how many deeds and openings remain
  owed,     \* views whose next rest must agree with the core
  clean     \* for each change: views that rely on its patch alone

vars == <<kind, server, cache, fetch, open, provided, change, events, linked,
          budget, owed, clean>>

-----------------------------------------------------------------------------
HasData(v) == cache[v] # Missing

\* A patch finds the object.  An entry that a lost answer left blank has no id.
HasEntry(v) ==
  /\ cache[v] \notin {Missing, Absent, Undefined}
  /\ v = List => cache[v] # Blank

\* A view is in the store from its first query until it is removed.
Stored(v) == HasData(v) \/ fetch[v] # None \/ provided[v] # {}

\* The tags of a mutation against the tags a view provided.  A tag without an
\* id stands for all the tags of its type.
Touches(m, p) ==
  \/ "one" \in m \cap p
  \/ "in pool" \in m \cap p
  \/ "pool" \in m /\ p \cap {"in pool", "pool"} # {}
  \/ "every" \in m /\ "one" \in p

Invalidates(v) == Touches(kind.tags, provided[v])

-----------------------------------------------------------------------------
(***************************************************************************)
(* Queries.                                                                *)
(***************************************************************************)

\* A view without data, or (refetchOnMountOrArgChange) with data that is older
\* than 30 seconds, is fetched when a component subscribes to it.  The socket
\* of the detail takes down the queries that exist when its entry is added.
Open(v) ==
  /\ v \notin open /\ budget.opens > 0
  /\ open' = open \cup {v}
  /\ budget' = [budget EXCEPT !.opens = @ - 1]
  /\ \/ fetch[v] = None /\ fetch' = [fetch EXCEPT ![v] = Asked]
        /\ clean' = [i \in Changes |-> {}]
     \/ (HasData(v) \/ fetch[v] # None) /\ UNCHANGED <<fetch, clean>>
  /\ linked' = IF v = Detail /\ ~Stored(Detail) THEN Stored(List) ELSE linked
  /\ UNCHANGED <<kind, server, cache, provided, change, events, owed>>

Close(v) ==
  /\ v \in open
  /\ open' = open \ {v}
  /\ UNCHANGED <<kind, server, cache, fetch, provided, change, events, linked,
                 budget, owed, clean>>

\* The store drops what nobody has been subscribed to for a while.  With the
\* detail goes its socket, but a query in flight goes on without a view: onQueryStarted
\* still waits for its answer.  The model follows the last such query.
Detached(gone, f) ==
  [f EXCEPT ![Orphan] = IF Detail \in gone /\ fetch[Detail] # None THEN fetch[Detail] ELSE @]

Remove(v) ==
  /\ cache' = [cache EXCEPT ![v] = Missing]
  /\ fetch' = Detached({v}, [fetch EXCEPT ![v] = None])
  /\ provided' = [provided EXCEPT ![v] = {}]
  /\ events' = IF v = Detail THEN <<>> ELSE events

Expire(v) ==
  /\ v \notin open /\ Stored(v)
  /\ Remove(v)
  /\ UNCHANGED <<kind, server, open, change, linked, budget, owed, clean>>

\* The core answers a query.
Read(v) ==
  /\ fetch[v] = Asked
  /\ fetch' = [fetch EXCEPT ![v] = server]
  /\ UNCHANGED <<kind, server, cache, open, provided, change, events, linked,
                 budget, owed, clean>>

\* getX writes the object it received into the list, if the list has an entry
\* for it: updateResourceOnPool.  Next to a hole the search for it throws.
OnList(value) ==
  IF kind.detailPatches /\ HasEntry(List) THEN value ELSE cache[List]

ArriveDetail(value) ==
  /\ cache' = [v \in Views |-> IF v = Detail THEN value ELSE OnList(value)]
  /\ provided' = [provided EXCEPT ![Detail] = kind.detailTags]

ArriveList(value) ==
  /\ cache' = [cache EXCEPT ![List] = value]
  /\ provided' = [provided EXCEPT ![List] =
                    IF value = Absent THEN kind.listTags \ {"in pool"} ELSE kind.listTags]

\* The answer to a query whose view was removed.
ArriveOrphan(value) ==
  /\ cache' = [cache EXCEPT ![List] = OnList(value)]
  /\ UNCHANGED provided

\* The detail of an object that is gone is refused: the query fails, its data
\* stays, and removeResourceOnPool changes nothing.
FailDetail ==
  /\ provided' = [provided EXCEPT ![Detail] = kind.detailTags]
  /\ UNCHANGED cache

Arrive(v) ==
  /\ fetch[v] \notin {None, Asked}
  /\ LET got == fetch[v]
     IN  \/ v = Detail /\ got = Gone /\ FailDetail
         \/ v = Detail /\ got # Gone /\ ArriveDetail(got)
         \/ v = List /\ ArriveList(IF got = Gone THEN Absent ELSE got)
         \/ v = Orphan /\ got = Gone /\ UNCHANGED <<cache, provided>>
         \/ v = Orphan /\ got # Gone /\ ArriveOrphan(got)
  /\ fetch' = [fetch EXCEPT ![v] = None]
  /\ UNCHANGED <<kind, server, open, change, events, linked, budget, owed, clean>>

\* A response that is lost fulfils the query all the same, with nothing in it,
\* unless the list is made from it by data.map: then the query fails.
LoseFetch(v) ==
  /\ fetch[v] # None /\ budget.deeds > 0
  /\ budget' = [budget EXCEPT !.deeds = @ - 1]
  /\ \/ v = Detail /\ ArriveDetail(Blank)
     \/ v = List /\ ~kind.listMaps /\ ArriveList(Absent)
     \/ v = List /\ kind.listMaps /\ UNCHANGED <<cache, provided>>
     \/ v = Orphan /\ ArriveOrphan(Blank)
  /\ fetch' = [fetch EXCEPT ![v] = None]
  /\ owed' = {}
  /\ clean' = [i \in Changes |-> {}]
  /\ UNCHANGED <<kind, server, open, change, events, linked>>

-----------------------------------------------------------------------------
(***************************************************************************)
(* Mutations.                                                              *)
(***************************************************************************)
Waiting(i) == change[i].page = "waiting"

\* Mutant: views without the object are patched, too.
PatchedAll == kind.patches \cap Views

\* The patches: the views that hold the object show the change before the core
\* has made it, and remember what they showed.
Patched == {v \in kind.patches \cap Views : HasEntry(v)}

Holed == {v \in {List} : Undefined \in kind.patches /\ HasEntry(v)}

Start(i) ==
  /\ change[i].page = "idle" /\ budget.deeds > 0
  /\ \E v \in open : HasEntry(v)
  /\ budget' = [budget EXCEPT !.deeds = @ - 1]
  /\ change' = [change EXCEPT ![i] =
       [page |-> "waiting", core |-> "pending",
        undo |-> [v \in Views |-> IF v \in Patched \cup Holed THEN cache[v] ELSE None]]]
  /\ cache' = [v \in Views |-> IF v \in Patched THEN i
                               ELSE IF v \in Holed THEN Undefined ELSE cache[v]]
  /\ clean' = [j \in Changes |->
       IF j # i \/ (\E k \in Changes : Waiting(k)) \/ (\E v \in Queries : fetch[v] # None)
         THEN {}
         ELSE {v \in Patched : cache[v] = server /\ ~Invalidates(v)}]
  /\ UNCHANGED <<kind, server, fetch, open, provided, events, linked, owed>>

\* A change of the object may be announced to the socket of an open detail.
Announce(value) ==
  \/ UNCHANGED events
  \/ /\ kind.socket /\ HasData(Detail) /\ value # Gone
     /\ events' = Append(events, value)

Apply(i) ==
  /\ change[i].core = "pending" /\ server # Gone
  /\ server' = IF kind.removes THEN Gone ELSE i
  /\ change' = [change EXCEPT ![i].core = "applied"]
  /\ Announce(server')
  /\ owed' = {}
  /\ clean' = [j \in Changes |-> IF j = i THEN clean[j] ELSE {}]
  /\ UNCHANGED <<kind, cache, fetch, open, provided, linked, budget>>

Refuse(i) ==
  /\ change[i].core = "pending"
  /\ change' = [change EXCEPT ![i].core = "refused"]
  /\ UNCHANGED <<kind, server, cache, fetch, open, provided, events, linked,
                 budget, owed, clean>>

\* Mutant: the patched views are not queried again.
RepeatedUnpatched == {v \in open : Invalidates(v) /\ fetch[v] = None /\ v \notin Patched}

\* When a mutation settles, fulfilled or rejected, the views with its tags are
\* queried again.  A view nobody is subscribed to is removed, and a query that
\* is already in flight is not repeated.
Dropped == {v \in Views \ open : Stored(v) /\ Invalidates(v)}

Repeated == {v \in open : Invalidates(v) /\ fetch[v] = None}

\* An answer the core gave before its last change is still on its way.
Lagging(q) == fetch[q] \notin {None, Asked, server}

Invalidate(undo) ==
  /\ cache' = [v \in Views |->
       IF v \in Dropped THEN Missing
       ELSE IF undo[v] # None /\ cache[v] \notin {Missing, Absent} THEN undo[v]
       ELSE cache[v]]
  /\ fetch' = Detached(Dropped,
       [q \in Queries |-> IF q \in Dropped THEN None
                          ELSE IF q \in Repeated THEN Asked ELSE fetch[q]])
  /\ provided' = [v \in Views |-> IF v \in Dropped THEN {} ELSE provided[v]]
  /\ events' = IF Detail \in Dropped THEN <<>> ELSE events
  /\ owed' = IF \E q \in Queries : Lagging(q) THEN owed
              ELSE owed \cup {v \in open : Invalidates(v)}

\* Mutant: a refused mutation is not undone.
SettleAsIs(i) ==
  /\ Waiting(i) /\ change[i].core \in {"applied", "refused"}
  /\ change' = [change EXCEPT ![i].page = "done"]
  /\ Invalidate([v \in Views |-> None])
  /\ UNCHANGED <<kind, server, open, linked, budget, clean>>

Settle(i) ==
  /\ Waiting(i) /\ change[i].core \in {"applied", "refused"}
  /\ change' = [change EXCEPT ![i].page = "done"]
  /\ Invalidate(IF change[i].core = "refused" THEN change[i].undo
                ELSE [v \in Views |-> None])
  /\ UNCHANGED <<kind, server, open, linked, budget, clean>>

\* A lost response counts as fulfilled: no patch is undone.
LoseReply(i) ==
  /\ Waiting(i) /\ budget.deeds > 0
  /\ budget' = [budget EXCEPT !.deeds = @ - 1]
  /\ change' = [change EXCEPT ![i].page = "done"]
  /\ Invalidate([v \in Views |-> None])
  /\ clean' = [j \in Changes |-> {}]
  /\ UNCHANGED <<kind, server, open, linked>>

-----------------------------------------------------------------------------
(***************************************************************************)
(* Others.                                                                 *)
(***************************************************************************)
ForeignChange ==
  /\ server # Gone /\ budget.deeds > 0
  /\ budget' = [budget EXCEPT !.deeds = @ - 1]
  /\ server' \in {Foreign, Gone}
  /\ Announce(server')
  /\ owed' = {}
  /\ clean' = [j \in Changes |-> {}]
  /\ UNCHANGED <<kind, cache, fetch, open, provided, change, linked>>

\* UpdateFromSocket: an event overwrites the detail, and the entry of a list
\* that the socket knows.
Deliver ==
  /\ events # <<>> /\ HasData(Detail)
  /\ cache' = [v \in Views |->
       IF v = Detail \/ (linked /\ HasEntry(List)) THEN Head(events) ELSE cache[v]]
  /\ events' = Tail(events)
  /\ owed' = IF Head(events) = server THEN owed ELSE {}
  /\ clean' = [j \in Changes |->
       IF Head(events) = server /\ change[j].core # "pending" THEN clean[j] ELSE {}]
  /\ UNCHANGED <<kind, server, fetch, open, provided, change, linked, budget>>

-----------------------------------------------------------------------------
Init ==
  /\ kind \in Kinds
  /\ server = Initial
  /\ cache = [v \in Views |-> Missing]
  /\ fetch = [q \in Queries |-> None]
  /\ open = {}
  /\ provided = [v \in Views |-> {}]
  /\ change = [i \in Changes |-> [page |-> "idle", core |-> "idle",
                                  undo |-> [v \in Views |-> None]]]
  /\ events = <<>>
  /\ linked = FALSE
  /\ budget = [deeds |-> MaxDeeds, opens |-> MaxOpens]
  /\ owed = {}
  /\ clean = [i \in Changes |-> {}]

Next ==
  \/ \E v \in Views : Open(v) \/ Close(v) \/ Expire(v)
  \/ \E q \in Queries : Read(q) \/ Arrive(q) \/ LoseFetch(q)
  \/ \E i \in Changes : Start(i) \/ Apply(i) \/ Refuse(i) \/ Settle(i) \/ LoseReply(i)
  \/ ForeignChange \/ Deliver

Spec == Init /\ [][Next]_vars

-----------------------------------------------------------------------------
\* A view shows the object as the core has it.  The detail of an object that
\* is gone keeps its last data.
Agrees(v) ==
  cache[v] = IF server # Gone THEN server ELSE IF v = List THEN Absent ELSE cache[v]

\* Nothing is on its way.
AtRest ==
  /\ \A q \in Queries : fetch[q] = None
  /\ \A i \in Changes : ~Waiting(i) /\ change[i].core # "pending"
  /\ events = <<>>

\* The type invariant.  A view with a subscriber has been filled or is being
\* queried, but for a list whose query may fail, and a view with data provides
\* tags by which a change can find it.
TypeOK ==
  /\ server \in Values \cup {Gone}
  /\ cache \in [Views -> Values \cup {Missing, Absent, Undefined, Blank}]
  /\ fetch \in [Queries -> Values \cup {None, Asked, Gone}]
  /\ open \subseteq Views /\ owed \subseteq Views
  /\ \A v \in Views : /\ v \in open => Stored(v) \/ (v = List /\ kind.listMaps)
                      /\ HasData(v) => provided[v] # {}

\* A view that was queried again because of a change shows, once everything has
\* arrived, what the core has: whether the change was accepted or refused, with
\* the patches and undos of other changes in between, and however the answers
\* were ordered.  The exceptions: an answer to an earlier query that the core gave
\* before the change was still on its way (the query is not repeated, and a late
\* detail also overwrites the list), somebody else made a later change, a
\* response was lost, or an event was late.
RepeatedViewsAgree == AtRest => \A v \in owed \cap open : Agrees(v)

\* A view that a change patches without invalidating it is right in the end on
\* the strength of the patch and its undo alone, provided no query and no other
\* change came in between.
PatchedViewsAgree == AtRest => \A i \in Changes : \A v \in clean[i] \cap open : Agrees(v)

================================================================================
