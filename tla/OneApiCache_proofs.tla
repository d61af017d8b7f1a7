--------------------------- MODULE OneApiCache_proofs ---------------------------
(***************************************************************************)
(* What the cache of the browser promises, for every table of endpoints,   *)
(* any number of changes and without a bound on what happens: a view that  *)
(* was queried again, or that relies on a patch, shows what the core has   *)
(* once everything has arrived.                                            *)
(*                                                                         *)
(* The inductive invariant has four parts.  Typed: the range of every      *)
(* variable.  InStore: a view with a subscriber is in the store, or is a   *)
(* list whose query failed and is owed nothing; a view with data is found  *)
(* by its tags.  Owes: while a view is owed the truth, no stale            *)
(* answer is on its way, and it has a query in flight, or agrees, or some  *)
(* change will invalidate it again.  Relies: a view that relies on a       *)
(* change holds the patch, the truth, or what the undo will restore.       *)
(***************************************************************************)
EXTENDS OneApiCache, TLAPS

Shown == Values \cup {Missing, Absent, Undefined, Blank}
Undos == [Views -> Values \cup {Blank, None}]
Records == [page : {"idle", "waiting", "done"},
            core : {"idle", "pending", "applied", "refused"}, undo : Undos]
FullTags(v) == IF v = Detail THEN kind.detailTags ELSE kind.listTags
NoEntryTags == kind.listTags \ {"in pool"}
TagSets == {{}, kind.detailTags, kind.listTags, NoEntryTags}

Typed ==
  /\ kind \in Kinds
  /\ server \in Values \cup {Gone}
  /\ cache \in [Views -> Shown]
  /\ fetch \in [Queries -> Values \cup {None, Asked, Gone}]
  /\ open \subseteq Views /\ owed \subseteq Views
  /\ provided \in [Views -> TagSets]
  /\ change \in [Changes -> Records]
  /\ events \in Seq(Values)
  /\ clean \in [Changes -> SUBSET Views]

InStore(v) ==
  /\ v \in open => Stored(v) \/ (v = List /\ kind.listMaps /\ v \notin owed)
  /\ HasData(v) => provided[v] # {}
  /\ ~HasData(v) /\ provided[v] # {} => v = Detail /\ server = Gone
  /\ provided[v] \in {{}, FullTags(v)} \cup (IF v = List THEN {NoEntryTags} ELSE {})

GoneIsGone == \A q \in Queries : fetch[q] = Gone => server = Gone

Lags == \E q \in Queries : Lagging(q)

Owes(v) ==
  /\ ~Lags
  /\ Touches(kind.tags, FullTags(v))
  /\ Invalidates(v) \/ ~HasData(v) \/ (v = List /\ cache[v] = Absent /\ server = Gone)
  /\ fetch[v] # None \/ Agrees(v) \/ ~HasData(v) \/ \E i \in Changes : Waiting(i)

\* The change is alone: no other is waiting, and no query or stale answer is about.
Alone(i) ==
  /\ \A k \in Changes : Waiting(k) => k = i
  /\ Waiting(i) => \A q \in Queries : fetch[q] = None
  /\ ~Waiting(i) => change[i].core # "pending" /\ ~Lags

Held(i, v) ==
  \/ ~HasData(v) /\ v \notin open
  \/ /\ Waiting(i) /\ change[i].core = "pending"
     /\ cache[v] = i /\ change[i].undo[v] = server
  \/ Waiting(i) /\ change[i].core = "applied" /\ Agrees(v)
  \/ /\ Waiting(i) /\ change[i].core = "refused"
     /\ change[i].undo[v] = server /\ cache[v] \in {i, server}
  \/ ~Waiting(i) /\ Agrees(v)

Relies(i, v) ==
  /\ Alone(i)
  /\ v \in kind.patches
  /\ fetch[v] = None /\ ~Invalidates(v)
  /\ Held(i, v)

InStores == \A v \in Views : InStore(v)
Owings   == \A v \in owed : Owes(v)
Relyings == \A i \in Changes : \A v \in clean[i] : Relies(i, v)

IInv == Typed /\ InStores /\ GoneIsGone /\ Owings /\ Relyings

\* Most steps are first-order reasoning; those that need records or sequences
\* name SMT.
USE Zenon

-----------------------------------------------------------------------------
\* The names of the views and of the values differ.
LEMMA Names ==
  /\ Detail # List /\ Detail # Orphan /\ List # Orphan
  /\ Detail \in Views /\ List \in Views /\ Orphan \notin Views
  /\ Detail \in Queries /\ List \in Queries /\ Orphan \in Queries
  /\ Views \subseteq Queries
  /\ \A v \in Views : v = Detail \/ v = List
  /\ \A q \in Queries : q = Detail \/ q = List \/ q = Orphan
  BY DEF Detail, List, Orphan, Views, Queries

LEMMA ValuesDiffer ==
  /\ \A x \in Values \cup {Gone} : x \notin {Missing, Absent, Undefined, Blank, None, Asked}
  /\ Gone \notin Values /\ Gone \notin Shown
  /\ \A x \in Values \cup {Blank} : x # Missing /\ x # Absent /\ x # None /\ x # Gone
  /\ Asked # None /\ Asked # Gone /\ None # Gone
  /\ Missing \in Shown /\ Absent \in Shown /\ Undefined \in Shown /\ Blank \in Shown
  /\ Values \subseteq Shown
  /\ Absent # Missing /\ Undefined # Missing /\ Blank # Missing /\ Undefined # Absent /\ Blank # Absent
  BY SMT, ChangesAssumption DEF Values, Shown, Initial, Gone, Foreign, Missing, Absent,
     Undefined, Blank, None, Asked

\* A mutation that finds a view by some of its tags finds it by all of them, and
\* none finds a view without tags.
LEMMA TouchesMore ==
  ASSUME NEW m, NEW p, NEW r, p \subseteq r, Touches(m, p)
  PROVE  Touches(m, r) /\ p # {}
  BY DEF Touches

-----------------------------------------------------------------------------
\* The ranges of the variables.
LEMMA TypedInit ==
  ASSUME Init
  PROVE  Typed
  <1>1. [v \in Views |-> None] \in Undos
    BY DEF Undos
  <1>2. change \in [Changes -> Records]
    BY <1>1, SMT DEF Init, Records
  <1>3. events \in Seq(Values)
    BY SMT DEF Init
  <1>4. {} \in TagSets
    BY DEF TagSets
  <1> QED
    BY <1>2, <1>3, <1>4, ValuesDiffer DEF Init, Typed, Values

\* What an answer writes into the two views.
LEMMA OnListTyped ==
  ASSUME Typed, NEW x \in Shown
  PROVE  OnList(x) \in Shown
  BY Names DEF OnList, Typed

LEMMA ArriveDetailTyped ==
  ASSUME Typed, NEW x \in Shown, ArriveDetail(x), UNCHANGED kind
  PROVE  /\ cache' \in [Views -> Shown]
         /\ (provided \in [Views -> TagSets])'
  <1>1. cache' \in [Views -> Shown]
    BY OnListTyped DEF ArriveDetail, Typed
  <1>2. TagSets' = TagSets /\ kind.detailTags \in TagSets
    BY DEF TagSets, NoEntryTags
  <1> QED
    BY <1>1, <1>2, Names DEF ArriveDetail, Typed

LEMMA ArriveListTyped ==
  ASSUME Typed, NEW x \in Shown, ArriveList(x), UNCHANGED kind
  PROVE  /\ cache' \in [Views -> Shown]
         /\ (provided \in [Views -> TagSets])'
  <1>1. cache' \in [Views -> Shown]
    BY Names DEF ArriveList, Typed
  <1>2. /\ TagSets' = TagSets
        /\ kind.listTags \in TagSets /\ kind.listTags \ {"in pool"} \in TagSets
    BY DEF TagSets, NoEntryTags
  <1> QED
    BY <1>1, <1>2, Names DEF ArriveList, Typed

LEMMA ArriveOrphanTyped ==
  ASSUME Typed, NEW x \in Shown, ArriveOrphan(x), UNCHANGED kind
  PROVE  /\ cache' \in [Views -> Shown]
         /\ (provided \in [Views -> TagSets])'
  <1>1. cache' \in [Views -> Shown]
    BY OnListTyped, Names DEF ArriveOrphan, Typed
  <1>2. TagSets' = TagSets
    BY DEF TagSets, NoEntryTags
  <1> QED
    BY <1>1, <1>2 DEF ArriveOrphan, Typed

LEMMA DetachedTyped ==
  ASSUME Typed, NEW g, NEW f \in [Queries -> Values \cup {None, Asked, Gone}]
  PROVE  Detached(g, f) \in [Queries -> Values \cup {None, Asked, Gone}]
  BY Names, SMT DEF Detached, Typed

LEMMA InvalidateTyped ==
  ASSUME Typed, NEW u \in Undos, Invalidate(u), UNCHANGED kind
  PROVE  /\ cache' \in [Views -> Shown]
         /\ fetch' \in [Queries -> Values \cup {None, Asked, Gone}]
         /\ (provided \in [Views -> TagSets])'
         /\ events' \in Seq(Values)
         /\ owed' \subseteq Views
  <1>1. cache' \in [Views -> Shown]
    <2>1. \A v \in Views : u[v] # None => u[v] \in Shown
      BY ValuesDiffer DEF Undos
    <2> QED BY <2>1, ValuesDiffer DEF Invalidate, Typed
  <1>2. [q \in Queries |-> IF q \in Dropped THEN None
                           ELSE IF q \in Repeated THEN Asked ELSE fetch[q]]
          \in [Queries -> Values \cup {None, Asked, Gone}]
    BY DEF Typed
  <1>3. fetch' \in [Queries -> Values \cup {None, Asked, Gone}]
    BY <1>2, DetachedTyped DEF Invalidate
  <1>4. (provided \in [Views -> TagSets])'
    BY DEF Invalidate, Typed, TagSets, NoEntryTags
  <1>5. events' \in Seq(Values)
    BY SMT DEF Invalidate, Typed
  <1>6. owed' \subseteq Views
    BY DEF Invalidate, Typed
  <1> QED BY <1>1, <1>3, <1>4, <1>5, <1>6

\* What a step does to a change.
LEMMA ChangeTyped ==
  ASSUME Typed, NEW i \in Changes
  PROVE  /\ [change EXCEPT ![i].core = "applied"] \in [Changes -> Records]
         /\ [change EXCEPT ![i].core = "refused"] \in [Changes -> Records]
         /\ [change EXCEPT ![i].page = "done"] \in [Changes -> Records]
<1>1. change \in [Changes -> Records]
  BY DEF Typed
<1>2. [change EXCEPT ![i].core = "applied"] \in [Changes -> Records]
  BY SMT, <1>1 DEF Records
<1>3. [change EXCEPT ![i].core = "refused"] \in [Changes -> Records]
  BY SMT, <1>1 DEF Records
<1>4. [change EXCEPT ![i].page = "done"] \in [Changes -> Records]
  BY SMT, <1>1 DEF Records
<1>5. QED
  BY <1>2, <1>3, <1>4

LEMMA AnnounceTyped ==
  ASSUME Typed, server' \in Values \cup {Gone}, Announce(server')
  PROVE  events' \in Seq(Values)
<1>1. events \in Seq(Values) /\ (server' # Gone => server' \in Values)
  BY DEF Typed
<1>2. \/ events' = events
      \/ server' # Gone /\ events' = Append(events, server')
  BY DEF Announce
<1>3. QED
  BY SMT, <1>1, <1>2

\* No step leaves the ranges.
LEMMA TypedStep ==
  ASSUME Typed, [Next]_vars
  PROVE  Typed'
  <1>0. ASSUME UNCHANGED kind PROVE TagSets' = TagSets /\ {} \in TagSets
    BY <1>0 DEF TagSets, NoEntryTags
  <1>1. ASSUME NEW v \in Views, Open(v) PROVE Typed'
    BY <1>0, <1>1, Names DEF Open, Typed
  <1>2. ASSUME NEW v \in Views, Close(v) PROVE Typed'
    BY <1>0, <1>2 DEF Close, Typed
  <1>3. ASSUME NEW v \in Views, Expire(v) PROVE Typed'
    <2>1. [fetch EXCEPT ![v] = None] \in [Queries -> Values \cup {None, Asked, Gone}]
      BY Names DEF Typed
    <2>2. fetch' \in [Queries -> Values \cup {None, Asked, Gone}]
      BY <1>3, <2>1, DetachedTyped DEF Expire, Remove
    <2>3. events' \in Seq(Values)
      BY <1>3, SMT DEF Expire, Remove, Typed
    <2> QED BY <1>0, <1>3, <2>2, <2>3, ValuesDiffer DEF Expire, Remove, Typed
  <1>4. ASSUME NEW q \in Queries, Read(q) PROVE Typed'
    BY <1>0, <1>4 DEF Read, Typed
  <1>5. ASSUME NEW q \in Queries, Arrive(q) PROVE Typed'
    <2>0. UNCHANGED kind
      BY <1>5 DEF Arrive
    <2>1. fetch[q] = Gone \/ fetch[q] \in Shown
      BY <1>5, ValuesDiffer DEF Arrive, Typed
    <2>2. /\ cache' \in [Views -> Shown]
          /\ (provided \in [Views -> TagSets])'
      <3>1. CASE FailDetail
        BY <1>0, <2>0, <3>1, Names DEF FailDetail, Typed, TagSets
      <3>2. CASE UNCHANGED <<cache, provided>>
        BY <1>0, <2>0, <3>2 DEF Typed
      <3>3. CASE fetch[q] # Gone /\ ArriveDetail(fetch[q])
        BY <2>0, <2>1, <3>3, ArriveDetailTyped
      <3>4. CASE ArriveList(IF fetch[q] = Gone THEN Absent ELSE fetch[q])
        BY <2>0, <2>1, <3>4, ArriveListTyped, ValuesDiffer
      <3>5. CASE fetch[q] # Gone /\ ArriveOrphan(fetch[q])
        BY <2>0, <2>1, <3>5, ArriveOrphanTyped
      <3> QED BY <1>5, <3>1, <3>2, <3>3, <3>4, <3>5 DEF Arrive
    <2> QED BY <1>0, <1>5, <2>2 DEF Arrive, Typed
  <1>6. ASSUME NEW q \in Queries, LoseFetch(q) PROVE Typed'
    <2>0. UNCHANGED kind
      BY <1>6 DEF LoseFetch
    <2>1. /\ cache' \in [Views -> Shown]
          /\ (provided \in [Views -> TagSets])'
      <3>1. CASE UNCHANGED <<cache, provided>>
        BY <1>0, <2>0, <3>1 DEF Typed
      <3>2. CASE ~UNCHANGED <<cache, provided>>
        BY <1>6, <2>0, <3>2, ValuesDiffer, ArriveDetailTyped, ArriveListTyped,
           ArriveOrphanTyped DEF LoseFetch
      <3> QED BY <3>1, <3>2
    <2> QED BY <1>0, <1>6, <2>1 DEF LoseFetch, Typed
  <1>7. ASSUME NEW i \in Changes, Start(i) PROVE Typed'
    <2>1. \A v \in Patched \cup Holed : cache[v] \in Values \cup {Blank}
      BY Names DEF Patched, Holed, HasEntry, Typed, Shown
    <2>2. [v \in Views |-> IF v \in Patched \cup Holed THEN cache[v] ELSE None] \in Undos
      BY <2>1 DEF Undos
    <2>3. change' \in [Changes -> Records]
      <3> DEFINE u == [v \in Views |-> IF v \in Patched \cup Holed THEN cache[v] ELSE None]
      <3>1. change' = [change EXCEPT ![i] = [page |-> "waiting", core |-> "pending", undo |-> u]]
        BY <1>7 DEF Start
      <3>2. u \in Undos
        BY <2>2
      <3> HIDE DEF u
      <3> QED BY <3>1, <3>2, SMT DEF Typed, Records
    <2>4. i \in Shown
      BY ValuesDiffer DEF Values
    <2>5. cache' \in [Views -> Shown]
      BY <1>7, <2>4, ValuesDiffer DEF Start, Typed
    <2>6. clean' \in [Changes -> SUBSET Views]
      BY <1>7 DEF Start, Patched
    <2> QED BY <1>0, <1>7, <2>3, <2>5, <2>6 DEF Start, Typed
  <1>8. ASSUME NEW i \in Changes, Apply(i) PROVE Typed'
    <2>1. server' \in Values \cup {Gone}
      BY <1>8 DEF Apply, Values
    <2>2. events' \in Seq(Values)
      BY <1>8, <2>1, AnnounceTyped DEF Apply
    <2>3. change' = [change EXCEPT ![i].core = "applied"]
      BY <1>8 DEF Apply
    <2>4. change' \in [Changes -> Records]
      BY <2>3, ChangeTyped
    <2>5. UNCHANGED <<kind, cache, fetch, open, provided>> /\ owed' = {}
      BY <1>8 DEF Apply
    <2>6. clean' \in [Changes -> SUBSET Views]
      BY <1>8 DEF Apply, Typed
    <2> QED BY <1>0, <2>1, <2>2, <2>4, <2>5, <2>6 DEF Typed
  <1>9. ASSUME NEW i \in Changes, Refuse(i) PROVE Typed'
    <2>1. change' = [change EXCEPT ![i].core = "refused"]
      BY <1>9 DEF Refuse
    <2>2. change' \in [Changes -> Records]
      BY <2>1, ChangeTyped
    <2>3. UNCHANGED <<kind, server, cache, fetch, open, owed, provided, events, clean>>
      BY <1>9 DEF Refuse
    <2> QED BY <1>0, <2>2, <2>3 DEF Typed
  <1>10. ASSUME NEW i \in Changes, Settle(i) PROVE Typed'
    <2>1. change[i].undo \in Undos /\ [v \in Views |-> None] \in Undos
      <3>1. [v \in Views |-> None] \in Undos
        BY DEF Undos
      <3> QED BY <3>1, SMT DEF Typed, Records
    <2>2. change' = [change EXCEPT ![i].page = "done"]
      BY <1>10 DEF Settle
    <2>3. change' \in [Changes -> Records]
      BY <2>2, ChangeTyped
    <2>4. UNCHANGED <<kind, server, open>> /\ clean' \in [Changes -> SUBSET Views]
      BY <1>10 DEF Settle, Typed
    <2>5. /\ cache' \in [Views -> Shown]
          /\ fetch' \in [Queries -> Values \cup {None, Asked, Gone}]
          /\ (provided \in [Views -> TagSets])'
          /\ events' \in Seq(Values)
          /\ owed' \subseteq Views
      BY <1>10, <2>1, <2>4, InvalidateTyped DEF Settle
    <2> QED BY <1>0, <2>3, <2>4, <2>5 DEF Typed
  <1>11. ASSUME NEW i \in Changes, LoseReply(i) PROVE Typed'
    <2>1. [v \in Views |-> None] \in Undos
      BY DEF Undos
    <2>2. change' = [change EXCEPT ![i].page = "done"]
      BY <1>11 DEF LoseReply
    <2>3. change' \in [Changes -> Records]
      BY <2>2, ChangeTyped
    <2>4. UNCHANGED <<kind, server, open>> /\ clean' \in [Changes -> SUBSET Views]
      BY <1>11 DEF LoseReply, Typed
    <2>5. /\ cache' \in [Views -> Shown]
          /\ fetch' \in [Queries -> Values \cup {None, Asked, Gone}]
          /\ (provided \in [Views -> TagSets])'
          /\ events' \in Seq(Values)
          /\ owed' \subseteq Views
      BY <1>11, <2>1, <2>4, InvalidateTyped DEF LoseReply
    <2> QED BY <1>0, <2>3, <2>4, <2>5 DEF Typed
  <1>12. ASSUME ForeignChange PROVE Typed'
    <2>1. server' \in Values \cup {Gone}
      BY <1>12 DEF ForeignChange, Values
    <2>2. events' \in Seq(Values)
      BY <1>12, <2>1, AnnounceTyped DEF ForeignChange
    <2> QED BY <1>0, <1>12, <2>1, <2>2 DEF ForeignChange, Typed
  <1>13. ASSUME Deliver PROVE Typed'
    <2>1. events' \in Seq(Values) /\ Head(events) \in Values
      BY <1>13, SMT DEF Deliver, Typed
    <2> QED BY <1>0, <1>13, <2>1, ValuesDiffer DEF Deliver, Typed
  <1>14. ASSUME UNCHANGED vars PROVE Typed'
    BY <1>0, <1>14 DEF vars, Typed
  <1> QED
    BY <1>1, <1>2, <1>3, <1>4, <1>5, <1>6, <1>7, <1>8, <1>9, <1>10, <1>11, <1>12,
       <1>13, <1>14 DEF Next

-----------------------------------------------------------------------------
\* What the steps do, view by view and change by change.
LEMMA InvalidateEffect ==
  ASSUME Typed, NEW u, Invalidate(u)
  PROVE  /\ \A v \in Dropped : cache'[v] = Missing /\ fetch'[v] = None /\ provided'[v] = {}
         /\ \A v \in Views \ Dropped :
              /\ provided'[v] = provided[v]
              /\ v \in Repeated => fetch'[v] = Asked
              /\ v \notin Repeated => fetch'[v] = fetch[v]
              /\ u[v] = None \/ cache[v] \in {Missing, Absent} => cache'[v] = cache[v]
              /\ u[v] # None /\ cache[v] \notin {Missing, Absent} => cache'[v] = u[v]
         /\ \/ fetch'[Orphan] = fetch[Orphan]
            \/ Detail \in Dropped /\ fetch'[Orphan] = fetch[Detail] /\ fetch[Detail] # None
  <1> DEFINE f == [q \in Queries |-> IF q \in Dropped THEN None
                                     ELSE IF q \in Repeated THEN Asked ELSE fetch[q]]
  <1>1. Dropped \subseteq Views /\ Repeated \subseteq Views
    BY DEF Dropped, Repeated, Typed
  <1>2. f \in [Queries -> Values \cup {None, Asked, Gone}]
    BY DEF Typed
  <1>3. /\ \A q \in Views : fetch'[q] = f[q]
        /\ fetch'[Orphan] = IF Detail \in Dropped /\ fetch[Detail] # None
                              THEN fetch[Detail] ELSE f[Orphan]
    <2>1. fetch' = Detached(Dropped, f)
      BY DEF Invalidate
    <2> HIDE DEF f
    <2> QED BY <1>2, <2>1, Names DEF Detached
  <1>4. f[Orphan] = fetch[Orphan]
    BY <1>1, Names
  <1>5. \A v \in Views : f[v] = IF v \in Dropped THEN None
                                ELSE IF v \in Repeated THEN Asked ELSE fetch[v]
    BY Names
  <1> HIDE DEF f
  <1>6. \A v \in Views :
          /\ cache'[v] = IF v \in Dropped THEN Missing
                         ELSE IF u[v] # None /\ cache[v] \notin {Missing, Absent} THEN u[v]
                         ELSE cache[v]
          /\ provided'[v] = IF v \in Dropped THEN {} ELSE provided[v]
    BY DEF Invalidate
  <1> QED BY <1>1, <1>3, <1>4, <1>5, <1>6

LEMMA ChangeEffect ==
  ASSUME Typed, NEW i \in Changes
  PROVE  /\ \A c : change' = [change EXCEPT ![i].core = c] =>
              /\ \A k \in Changes \ {i} : change'[k] = change[k]
              /\ change'[i].core = c /\ change'[i].page = change[i].page
              /\ change'[i].undo = change[i].undo
         /\ change' = [change EXCEPT ![i].page = "done"] =>
              /\ \A k \in Changes \ {i} : change'[k] = change[k]
              /\ change'[i].page = "done" /\ change'[i].core = change[i].core
              /\ change'[i].undo = change[i].undo
  BY SMT DEF Typed, Records

LEMMA RemoveEffect ==
  ASSUME Typed, NEW v \in Views, Remove(v)
  PROVE  /\ cache'[v] = Missing /\ fetch'[v] = None /\ provided'[v] = {}
         /\ \A w \in Views \ {v} : /\ cache'[w] = cache[w] /\ fetch'[w] = fetch[w]
                                   /\ provided'[w] = provided[w]
         /\ \/ fetch'[Orphan] = fetch[Orphan]
            \/ fetch'[Orphan] = fetch[Detail]
  <1> DEFINE f == [fetch EXCEPT ![v] = None]
  <1>1. /\ f \in [Queries -> Values \cup {None, Asked, Gone}]
        /\ f[v] = None /\ \A q \in Queries \ {v} : f[q] = fetch[q]
    BY Names DEF Typed
  <1>2. fetch' = Detached({v}, f)
    BY DEF Remove
  <1> HIDE DEF f
  <1>3. /\ \A q \in Views : fetch'[q] = f[q]
        /\ fetch'[Orphan] \in {fetch[Detail], f[Orphan]}
    BY <1>1, <1>2, Names DEF Detached
  <1> QED BY <1>1, <1>3, Names DEF Remove, Typed

\* An answer: what the two views and the tags become.
LEMMA ArriveEffect ==
  ASSUME Typed, NEW q \in Queries, Arrive(q)
  PROVE  /\ fetch'[q] = None /\ \A r \in Queries \ {q} : fetch'[r] = fetch[r]
         /\ q = Detail => /\ provided'[Detail] = kind.detailTags
                          /\ provided'[List] = provided[List]
                          /\ IF fetch[q] = Gone THEN cache' = cache
                             ELSE cache'[Detail] = fetch[q] /\ cache'[List] = OnList(fetch[q])
         /\ q = List => /\ cache'[Detail] = cache[Detail]
                        /\ provided'[Detail] = provided[Detail]
                        /\ IF fetch[q] = Gone
                             THEN cache'[List] = Absent /\ provided'[List] = NoEntryTags
                             ELSE cache'[List] = fetch[q] /\ provided'[List] = kind.listTags
         /\ q = Orphan => /\ provided' = provided /\ cache'[Detail] = cache[Detail]
                          /\ IF fetch[q] = Gone THEN cache' = cache
                             ELSE cache'[List] = OnList(fetch[q])
  <1>1. fetch'[q] = None /\ \A r \in Queries \ {q} : fetch'[r] = fetch[r]
    BY DEF Arrive, Typed
  <1>2. CASE q = Detail
    <2>1. CASE fetch[q] = Gone
      <3>1. FailDetail
        BY <1>2, <2>1, Names DEF Arrive
      <3> QED BY <1>1, <1>2, <2>1, <3>1, Names DEF FailDetail, Typed
    <2>2. CASE fetch[q] # Gone
      <3>1. ArriveDetail(fetch[q])
        BY <1>2, <2>2, Names DEF Arrive
      <3> QED BY <1>1, <1>2, <2>2, <3>1, Names DEF ArriveDetail, Typed
    <2> QED BY <2>1, <2>2
  <1>3. CASE q = List
    <2>1. fetch[q] # Gone => fetch[q] # Absent
      BY ValuesDiffer DEF Arrive, Typed
    <2>2. ArriveList(IF fetch[q] = Gone THEN Absent ELSE fetch[q])
      BY <1>3, Names DEF Arrive
    <2> QED BY <1>1, <1>3, <2>1, <2>2, Names DEF ArriveList, Typed, NoEntryTags
  <1>4. CASE q = Orphan
    BY <1>1, <1>4, Names DEF Arrive, ArriveOrphan, Typed
  <1> QED BY <1>2, <1>3, <1>4, Names

\* It leaves the query and the tags of another view alone.
LEMMA ArriveBeside ==
  ASSUME Typed, NEW q \in Queries, Arrive(q), NEW v \in Views, q # v
  PROVE  fetch'[v] = fetch[v] /\ provided'[v] = provided[v]
  <1>1. fetch'[v] = fetch[v]
    BY Names DEF Arrive, Typed
  <1>2. q = Detail => provided'[List] = provided[List]
    BY ArriveEffect
  <1>3. q = List => provided'[Detail] = provided[Detail]
    BY ArriveEffect
  <1>4. q = Orphan => provided' = provided
    BY ArriveEffect
  <1> QED BY <1>1, <1>2, <1>3, <1>4, Names

-----------------------------------------------------------------------------
\* A view with a subscriber stays in the store, under tags that find it.

LEMMA TagsFixed ==
  ASSUME UNCHANGED kind, NEW v
  PROVE  FullTags(v)' = FullTags(v) /\ NoEntryTags' = NoEntryTags
  BY DEF FullTags, NoEntryTags

LEMMA TagsFind ==
  ASSUME Typed
  PROVE  /\ kind.detailTags # {} /\ kind.listTags # {} /\ NoEntryTags # {}
         /\ FullTags(Detail) = kind.detailTags /\ FullTags(List) = kind.listTags
  BY KindsAssumption, Names DEF Typed, NoEntryTags, FullTags

LEMMA InStoreFrame ==
  ASSUME NEW v \in Views, InStore(v), UNCHANGED kind,
         cache'[v] = Missing <=> cache[v] = Missing, provided'[v] = provided[v],
         fetch[v] # None => fetch'[v] # None, v \in open' => v \in open,
         v \in owed' => v \in owed \/ Invalidates(v), server = Gone => server' = Gone
  PROVE  InStore(v)'
  <1>1. HasData(v)' <=> HasData(v)
    BY DEF HasData
  <1>2. Stored(v) => Stored(v)'
    BY <1>1 DEF Stored
  <1>3. Invalidates(v) => Stored(v)
    BY DEF Invalidates, Touches, Stored
  <1>4. v \in open' => Stored(v)' \/ (v = List /\ kind.listMaps /\ v \notin owed)'
    BY <1>2, <1>3 DEF InStore
  <1> QED BY <1>1, <1>4, TagsFixed DEF InStore

\* A view that has just been filled.
LEMMA InStoreFilled ==
  ASSUME Typed, NEW v \in Views, UNCHANGED kind, cache'[v] # Missing,
         provided'[v] = FullTags(v) \/ (v = List /\ provided'[v] = NoEntryTags)
  PROVE  InStore(v)'
  <1>1. provided'[v] # {}
    BY TagsFind, Names
  <1>2. HasData(v)' /\ Stored(v)'
    BY DEF HasData, Stored
  <1>3. FullTags(v)' = FullTags(v) /\ NoEntryTags' = NoEntryTags
    BY TagsFixed
  <1> QED BY <1>1, <1>2, <1>3 DEF InStore

\* A view that has just been removed.
LEMMA InStoreRemoved ==
  ASSUME NEW v \in Views, provided'[v] = {}, cache'[v] = Missing, v \notin open'
  PROVE  InStore(v)'
  BY DEF InStore, HasData

LEMMA InStoreInvalidate ==
  ASSUME Typed, InStores, NEW u \in Undos, Invalidate(u),
         UNCHANGED <<kind, open, server>>
  PROVE  InStores'
  <1> SUFFICES ASSUME NEW v \in Views PROVE InStore(v)'
    BY DEF InStores
  <1>1. CASE v \in Dropped
    BY <1>1, InvalidateEffect, InStoreRemoved DEF Dropped
  <1>2. CASE v \notin Dropped
    <2>1. cache'[v] = Missing <=> cache[v] = Missing
      <3>1. u[v] = None \/ u[v] # Missing
        BY ValuesDiffer DEF Undos
      <3>2. \/ cache'[v] = cache[v]
            \/ u[v] # None /\ cache[v] \notin {Missing, Absent} /\ cache'[v] = u[v]
        BY <1>2, InvalidateEffect, SMT
      <3> QED BY <3>1, <3>2
    <2>2. fetch[v] # None => fetch'[v] # None
      BY <1>2, InvalidateEffect, ValuesDiffer
    <2>3. v \in owed' => v \in owed \/ Invalidates(v)
      BY DEF Invalidate
    <2> QED BY <1>2, <2>1, <2>2, <2>3, InvalidateEffect, InStoreFrame DEF InStores
  <1> QED BY <1>1, <1>2

LEMMA InStoresArrive ==
  ASSUME Typed, InStores, GoneIsGone, NEW q \in Queries, Arrive(q)
  PROVE  InStores'
  <1> SUFFICES ASSUME NEW v \in Views PROVE InStore(v)'
    BY DEF InStores
  <1>0. InStore(v) /\ UNCHANGED <<kind, open, server, owed>>
    BY DEF InStores, Arrive
  <1>1. fetch[q] # Missing
    BY ValuesDiffer DEF Typed, Arrive
  <1>2. \/ OnList(fetch[q]) = cache[List]
        \/ OnList(fetch[q]) = fetch[q] /\ cache[List] # Missing
    BY DEF OnList, HasEntry
  <1>3. CASE q = v /\ ~(v = Detail /\ fetch[q] = Gone)
    <2>1. cache'[v] # Missing
      <3>1. CASE v = Detail
        BY <1>1, <1>3, <3>1, ArriveEffect
      <3>2. CASE v = List
        BY <1>1, <1>3, <3>2, ArriveEffect, ValuesDiffer
      <3> QED BY <3>1, <3>2, Names
    <2>2. provided'[v] = FullTags(v) \/ (v = List /\ provided'[v] = NoEntryTags)
      <3>1. CASE v = Detail
        BY <1>3, <3>1, ArriveEffect, TagsFind
      <3>2. CASE v = List
        BY <1>3, <3>2, ArriveEffect, TagsFind
      <3> QED BY <3>1, <3>2, Names
    <2> QED BY <1>0, <2>1, <2>2, InStoreFilled
  <1>4. CASE q = v /\ v = Detail /\ fetch[q] = Gone
    <2>1. server' = Gone
      BY <1>0, <1>4 DEF GoneIsGone
    <2>2. provided'[v] = FullTags(v) /\ provided'[v] # {}
      BY <1>4, ArriveEffect, TagsFind
    <2>3. FullTags(v)' = FullTags(v)
      BY <1>0, TagsFixed
    <2>4. Stored(v)'
      BY <2>2 DEF Stored
    <2> QED BY <1>4, <2>1, <2>2, <2>3, <2>4 DEF InStore
  <1>5. CASE q # v
    <2>1. fetch'[v] = fetch[v] /\ provided'[v] = provided[v]
      BY <1>5, ArriveBeside
    <2>2. cache'[v] = Missing <=> cache[v] = Missing
      <3>1. \/ cache'[v] = cache[v]
            \/ v = List /\ cache'[v] = OnList(fetch[q])
        BY <1>5, ArriveEffect, Names, SMT
      <3> QED BY <1>1, <1>2, <3>1
    <2> QED BY <1>0, <2>1, <2>2, InStoreFrame
  <1> QED BY <1>3, <1>4, <1>5

LEMMA InStoresLoseFetch ==
  ASSUME Typed, InStores, NEW q \in Queries, LoseFetch(q)
  PROVE  InStores'
  <1> SUFFICES ASSUME NEW v \in Views PROVE InStore(v)'
    BY DEF InStores
  <1>0. InStore(v) /\ UNCHANGED <<kind, open, server>> /\ owed' = {}
    BY DEF InStores, LoseFetch
  <1>1. OnList(Blank) = cache[List] \/ (OnList(Blank) = Blank /\ cache[List] # Missing)
    BY DEF OnList, HasEntry
  <1>2. CASE q = v /\ ~(v = List /\ kind.listMaps)
    <2>1. cache'[v] = Blank \/ cache'[v] = Absent
      BY <1>2, Names DEF LoseFetch, ArriveDetail, ArriveList, Typed
    <2>2. provided'[v] = FullTags(v) \/ (v = List /\ provided'[v] = NoEntryTags)
      BY <1>2, Names DEF LoseFetch, ArriveDetail, ArriveList, Typed, FullTags, NoEntryTags
    <2> QED BY <1>0, <2>1, <2>2, InStoreFilled, ValuesDiffer
  <1>3. CASE q # v
    <2>1. fetch'[v] = fetch[v]
      BY <1>3, Names DEF LoseFetch, Typed
    <2>2. provided'[v] = provided[v] /\ (cache'[v] = cache[v] \/ (v = List /\ cache'[v] = OnList(Blank)))
      <3>1. CASE q = Detail
        BY <1>3, <3>1, Names DEF LoseFetch, ArriveDetail, Typed
      <3>2. CASE q = List
        BY <1>3, <3>2, Names DEF LoseFetch, ArriveList, Typed
      <3>3. CASE q = Orphan
        BY <1>3, <3>3, Names DEF LoseFetch, ArriveOrphan, Typed
      <3> QED BY <3>1, <3>2, <3>3, Names
    <2>4. cache'[v] = Missing <=> cache[v] = Missing
      BY <1>1, <2>2, ValuesDiffer
    <2> QED BY <1>0, <2>1, <2>2, <2>4, InStoreFrame
  <1>4. CASE q = v /\ v = List /\ kind.listMaps
    <2>1. cache'[v] = cache[v] /\ provided'[v] = provided[v]
      BY <1>4, Names DEF LoseFetch
    <2>2. HasData(v)' <=> HasData(v)
      BY <2>1 DEF HasData
    <2> QED BY <1>0, <1>4, <2>1, <2>2, TagsFixed DEF InStore
  <1> QED BY <1>2, <1>3, <1>4

LEMMA InStoresStep ==
  ASSUME Typed, InStores, GoneIsGone, [Next]_vars
  PROVE  InStores'
  <1>1. ASSUME NEW w \in Views, Open(w) PROVE InStores'
    <2> SUFFICES ASSUME NEW v \in Views PROVE InStore(v)'
      BY DEF InStores
    <2>0. InStore(v) /\ UNCHANGED <<kind, cache, provided, server, owed>>
      BY <1>1 DEF InStores, Open
    <2>1. fetch[v] # None => fetch'[v] # None
      BY <1>1, Names, ValuesDiffer DEF Open, Typed
    <2>2. CASE v # w
      <3>1. v \in open' => v \in open
        BY <1>1, <2>2 DEF Open
      <3> QED BY <2>0, <2>1, <3>1, InStoreFrame
    <2>3. CASE v = w
      <3>1. HasData(v) \/ fetch'[v] # None
        BY <1>1, <2>3, Names, ValuesDiffer DEF Open, Typed
      <3>2. HasData(v)' <=> HasData(v)
        BY <2>0 DEF HasData
      <3>3. Stored(v)'
        BY <3>1, <3>2 DEF Stored
      <3>4. FullTags(v)' = FullTags(v) /\ NoEntryTags' = NoEntryTags
        BY <2>0, TagsFixed
      <3> QED BY <2>0, <3>2, <3>3, <3>4 DEF InStore
    <2> QED BY <2>2, <2>3
  <1>2. ASSUME NEW w \in Views, Close(w) PROVE InStores'
    BY <1>2, InStoreFrame DEF InStores, Close
  <1>3. ASSUME NEW w \in Views, Expire(w) PROVE InStores'
    <2> SUFFICES ASSUME NEW v \in Views PROVE InStore(v)'
      BY DEF InStores
    <2>0. InStore(v) /\ UNCHANGED <<kind, open, server, owed>> /\ Remove(w) /\ w \notin open
      BY <1>3 DEF InStores, Expire
    <2>1. CASE v = w
      BY <2>0, <2>1, RemoveEffect, InStoreRemoved
    <2>2. CASE v # w
      <3>1. cache'[v] = cache[v] /\ fetch'[v] = fetch[v] /\ provided'[v] = provided[v]
        BY <2>0, <2>2, RemoveEffect
      <3> QED BY <2>0, <3>1, InStoreFrame
    <2> QED BY <2>1, <2>2
  <1>4. ASSUME NEW q \in Queries, Read(q) PROVE InStores'
    <2>1. \A v \in Views : fetch[v] # None => fetch'[v] # None
      BY <1>4, Names, ValuesDiffer DEF Read, Typed
    <2> QED BY <1>4, <2>1, InStoreFrame DEF InStores, Read
  <1>5. ASSUME NEW q \in Queries, Arrive(q) PROVE InStores'
    BY <1>5, InStoresArrive
  <1>6. ASSUME NEW q \in Queries, LoseFetch(q) PROVE InStores'
    BY <1>6, InStoresLoseFetch
  <1>7. ASSUME NEW i \in Changes, Start(i) PROVE InStores'
    <2> SUFFICES ASSUME NEW v \in Views PROVE InStore(v)'
      BY DEF InStores
    <2>0. InStore(v) /\ UNCHANGED <<kind, open, server, fetch, provided, owed>>
      BY <1>7 DEF InStores, Start
    <2>1. i # Missing /\ Undefined # Missing
      BY ValuesDiffer DEF Values
    <2>2. \/ cache'[v] = cache[v]
          \/ cache'[v] \in {i, Undefined} /\ cache[v] # Missing
      BY <1>7, Names DEF Start, Patched, Holed, HasEntry
    <2> QED BY <2>0, <2>1, <2>2, InStoreFrame
  <1>8. ASSUME NEW i \in Changes, Apply(i) PROVE InStores'
    BY <1>8, InStoreFrame DEF InStores, Apply
  <1>9. ASSUME NEW i \in Changes, Refuse(i) PROVE InStores'
    BY <1>9, InStoreFrame DEF InStores, Refuse
  <1>10. ASSUME NEW i \in Changes, Settle(i) PROVE InStores'
    <2>1. change[i].undo \in Undos /\ [v \in Views |-> None] \in Undos
      <3>1. [v \in Views |-> None] \in Undos
        BY DEF Undos
      <3> QED BY <3>1, SMT DEF Typed, Records
    <2> QED BY <1>10, <2>1, InStoreInvalidate DEF Settle
  <1>11. ASSUME NEW i \in Changes, LoseReply(i) PROVE InStores'
    <2>1. [v \in Views |-> None] \in Undos
      BY DEF Undos
    <2> QED BY <1>11, <2>1, InStoreInvalidate DEF LoseReply
  <1>12. ASSUME ForeignChange PROVE InStores'
    BY <1>12, InStoreFrame DEF InStores, ForeignChange
  <1>13. ASSUME Deliver PROVE InStores'
    <2> SUFFICES ASSUME NEW v \in Views PROVE InStore(v)'
      BY DEF InStores
    <2>0. /\ InStore(v) /\ UNCHANGED <<kind, open, server, fetch, provided>>
          /\ v \in owed' => v \in owed
      BY <1>13 DEF InStores, Deliver
    <2>1. Head(events) # Missing
      <3>1. Head(events) \in Values
        BY <1>13, SMT DEF Deliver, Typed
      <3> QED BY <3>1, ValuesDiffer
    <2>2. \/ cache'[v] = cache[v]
          \/ cache'[v] = Head(events) /\ cache[v] # Missing
      BY <1>13, Names DEF Deliver, HasEntry, HasData
    <2> QED BY <2>0, <2>1, <2>2, InStoreFrame
  <1>14. ASSUME UNCHANGED vars PROVE InStores'
    BY <1>14, InStoreFrame DEF InStores, vars
  <1> QED
    BY <1>1, <1>2, <1>3, <1>4, <1>5, <1>6, <1>7, <1>8, <1>9, <1>10, <1>11, <1>12,
       <1>13, <1>14 DEF Next

-----------------------------------------------------------------------------
\* A query asks, reads what the core has, or goes on with what was read before;
\* and an object that is gone does not come back.
Moves == \A q \in Queries : \/ fetch'[q] \in {None, Asked, server}
                            \/ \E r \in Queries : fetch'[q] = fetch[r]

LEMMA InvalidateMoves ==
  ASSUME Typed, NEW u, Invalidate(u)
  PROVE  Moves
  <1> SUFFICES ASSUME NEW q \in Queries
               PROVE  fetch'[q] \in {None, Asked} \/ \E r \in Queries : fetch'[q] = fetch[r]
    BY DEF Moves
  <1>1. CASE q \in Views
    BY <1>1, InvalidateEffect
  <1>2. CASE q = Orphan
    BY <1>2, InvalidateEffect, Names
  <1> QED BY <1>1, <1>2, Names

LEMMA MovesStep ==
  ASSUME Typed, [Next]_vars
  PROVE  Moves /\ (server = Gone => server' = Gone)
  <1> DEFINE Goal == Moves /\ (server = Gone => server' = Gone)
  <1>1. ASSUME NEW v \in Views, Open(v) PROVE Goal
    BY <1>1, Names DEF Open, Moves, Typed
  <1>2. ASSUME NEW v \in Views, Close(v) PROVE Goal
    BY <1>2 DEF Close, Moves
  <1>3. ASSUME NEW v \in Views, Expire(v) PROVE Goal
    <2> SUFFICES ASSUME NEW q \in Queries
                 PROVE  fetch'[q] = None \/ \E r \in Queries : fetch'[q] = fetch[r]
      BY <1>3 DEF Moves, Expire
    <2>1. Remove(v)
      BY <1>3 DEF Expire
    <2>2. CASE q \in Views
      BY <2>1, <2>2, RemoveEffect
    <2>3. CASE q = Orphan
      BY <2>1, <2>3, RemoveEffect, Names
    <2> QED BY <2>2, <2>3, Names
  <1>4. ASSUME NEW q \in Queries, Read(q) PROVE Goal
    BY <1>4 DEF Read, Moves, Typed
  <1>5. ASSUME NEW q \in Queries, Arrive(q) PROVE Goal
    BY <1>5 DEF Arrive, Moves, Typed
  <1>6. ASSUME NEW q \in Queries, LoseFetch(q) PROVE Goal
    BY <1>6 DEF LoseFetch, Moves, Typed
  <1>7. ASSUME NEW i \in Changes, Start(i) PROVE Goal
    BY <1>7 DEF Start, Moves
  <1>8. ASSUME NEW i \in Changes, Apply(i) PROVE Goal
    BY <1>8 DEF Apply, Moves
  <1>9. ASSUME NEW i \in Changes, Refuse(i) PROVE Goal
    BY <1>9 DEF Refuse, Moves
  <1>10. ASSUME NEW i \in Changes, Settle(i) PROVE Goal
    BY <1>10, InvalidateMoves DEF Settle
  <1>11. ASSUME NEW i \in Changes, LoseReply(i) PROVE Goal
    BY <1>11, InvalidateMoves DEF LoseReply
  <1>12. ASSUME ForeignChange PROVE Goal
    BY <1>12 DEF ForeignChange, Moves
  <1>13. ASSUME Deliver PROVE Goal
    BY <1>13 DEF Deliver, Moves
  <1>14. ASSUME UNCHANGED vars PROVE Goal
    BY <1>14 DEF vars, Moves
  <1> QED
    BY <1>1, <1>2, <1>3, <1>4, <1>5, <1>6, <1>7, <1>8, <1>9, <1>10, <1>11, <1>12,
       <1>13, <1>14 DEF Next

LEMMA GoneIsGoneStep ==
  ASSUME Typed, GoneIsGone, [Next]_vars
  PROVE  GoneIsGone'
  BY MovesStep, ValuesDiffer DEF Moves, GoneIsGone

\* Only a change of the object can make an answer stale.
LEMMA LagsStep ==
  ASSUME Typed, [Next]_vars, UNCHANGED server, Lags'
  PROVE  Lags
  BY MovesStep DEF Moves, Lags, Lagging

-----------------------------------------------------------------------------
\* Views that are owed the truth.
LEMMA AgreesIs ==
  ASSUME NEW v
  PROVE  Agrees(v) <=> IF server # Gone THEN cache[v] = server
                       ELSE v = List => cache[v] = Absent
  BY DEF Agrees

LEMMA InvalidatesFull ==
  ASSUME NEW v \in Views, InStore(v), Invalidates(v)
  PROVE  Touches(kind.tags, FullTags(v))
  <1>1. provided[v] \subseteq FullTags(v)
    BY Names DEF InStore, FullTags, NoEntryTags
  <1> QED BY <1>1, TouchesMore DEF Invalidates

\* An owed view that a step leaves alone, or fills with what the core has.
LEMMA OwesFrame ==
  ASSUME Typed, [Next]_vars, NEW v \in Views, Owes(v), UNCHANGED <<kind, server>>,
         cache'[v] = cache[v] \/ (HasEntry(v) /\ server # Gone /\ cache'[v] = server),
         provided'[v] = provided[v],
         fetch'[v] # None \/ fetch[v] = None,
         \A i \in Changes : Waiting(i) => Waiting(i)'
  PROVE  Owes(v)'
  <1>1. ~Lags'
    BY LagsStep DEF Owes
  <1>2. Touches(kind.tags, FullTags(v))'
    BY TagsFixed DEF Owes
  <1>3. Invalidates(v)' <=> Invalidates(v)
    BY DEF Invalidates
  <1>4. CASE cache'[v] = cache[v]
    <2>1. (HasData(v)' <=> HasData(v)) /\ (Agrees(v)' <=> Agrees(v))
      BY <1>4 DEF HasData, Agrees
    <2> QED BY <1>1, <1>2, <1>3, <1>4, <2>1 DEF Owes
  <1>5. CASE HasEntry(v) /\ server # Gone /\ cache'[v] = server
    <2>1. HasData(v) /\ cache[v] # Absent
      BY <1>5 DEF HasEntry, HasData
    <2>2. Agrees(v)'
      BY <1>5 DEF Agrees
    <2> QED BY <1>1, <1>2, <1>3, <1>5, <2>1, <2>2 DEF Owes
  <1> QED BY <1>4, <1>5

\* The answer to the query of an owed view is what the core has.
LEMMA OwesArrive ==
  ASSUME Typed, NEW q \in Queries, Arrive(q), NEW v \in Views, Owes(v)
  PROVE  Owes(v)'
  <1>0. [Next]_vars /\ UNCHANGED <<kind, server, change>>
    BY DEF Next, Arrive
  <1>1. fetch[q] = server
    BY DEF Owes, Lags, Lagging, Arrive
  <1>2. CASE q = v
    <2>1. ~Lags'
      BY <1>0, LagsStep DEF Owes
    <2>2. Touches(kind.tags, FullTags(v))'
      BY <1>0, TagsFixed DEF Owes
    <2>3. Agrees(v)'
      BY <1>0, <1>1, <1>2, ArriveEffect, Names DEF Agrees
    <2>4. \/ provided'[v] = FullTags(v)
          \/ v = List /\ cache'[v] = Absent /\ server' = Gone
      BY <1>0, <1>1, <1>2, ArriveEffect, Names DEF FullTags
    <2>5. provided'[v] = FullTags(v) => Invalidates(v)'
      BY <1>0 DEF Invalidates, Owes
    <2> QED BY <2>1, <2>2, <2>3, <2>4, <2>5 DEF Owes
  <1>3. CASE q # v
    <2>1. fetch'[v] = fetch[v] /\ provided'[v] = provided[v]
      BY <1>3, ArriveBeside
    <2>2. \/ cache'[v] = cache[v]
          \/ v = List /\ server # Gone /\ cache'[v] = OnList(server)
      BY <1>1, <1>3, ArriveEffect, Names, SMT
    <2>3. cache'[v] = cache[v] \/ (HasEntry(v) /\ server # Gone /\ cache'[v] = server)
      BY <2>2 DEF OnList
    <2>4. \A i \in Changes : Waiting(i) => Waiting(i)'
      BY <1>0 DEF Waiting
    <2> QED BY <1>0, <2>1, <2>3, <2>4, OwesFrame
  <1> QED BY <1>2, <1>3

\* The patch of a change: the change is waiting, and will settle.
LEMMA OwesStart ==
  ASSUME Typed, NEW i \in Changes, Start(i), NEW v \in Views, Owes(v)
  PROVE  Owes(v)'
  <1>0. [Next]_vars /\ UNCHANGED <<kind, server, provided>>
    BY DEF Next, Start
  <1>1. ~Lags' /\ Touches(kind.tags, FullTags(v))'
    BY <1>0, LagsStep, TagsFixed DEF Owes
  <1>2. Waiting(i)'
    BY SMT DEF Start, Waiting, Typed
  <1>3. Invalidates(v)' <=> Invalidates(v)
    BY <1>0 DEF Invalidates
  <1>4. cache'[v] = cache[v] \/ HasEntry(v)
    BY Names DEF Start, Patched, Holed
  <1>5. CASE Invalidates(v)
    BY <1>1, <1>2, <1>3, <1>5 DEF Owes
  <1>6. CASE ~HasData(v) \/ (v = List /\ cache[v] = Absent /\ server = Gone)
    <2>1. cache'[v] = cache[v]
      BY <1>4, <1>6 DEF HasEntry, HasData
    <2> QED BY <1>0, <1>1, <1>2, <1>6, <2>1 DEF Owes, HasData
  <1> QED BY <1>5, <1>6 DEF Owes

\* The settlement of a change.  A view that it finds is queried again, unless
\* it is in flight or removed; a view that it cannot find holds no data, or no
\* entry of an object that is gone.
LEMMA OwesInvalidate ==
  ASSUME Typed, InStores, [Next]_vars, NEW u \in Undos, Invalidate(u),
         UNCHANGED <<kind, server, open>>,
         \A v \in owed : Owes(v)
  PROVE  \A v \in owed' : Owes(v)'
  <1> SUFFICES ASSUME NEW v \in owed' PROVE Owes(v)'
    OBVIOUS
  <1>0. v \in Views /\ (v \in owed \/ (v \in open /\ Invalidates(v))) /\ ~Lags
    <2>1. IF Lags THEN owed' = owed ELSE owed' = owed \cup {w \in open : Invalidates(w)}
      BY DEF Invalidate, Lags
    <2>2. ~Lags
      BY <2>1 DEF Owes
    <2> QED BY <2>1, <2>2 DEF Typed
  <1>1. ~Lags'
    BY <1>0, LagsStep
  <1>2. Touches(kind.tags, FullTags(v))
    BY <1>0, InvalidatesFull DEF Owes, InStores
  <1>3. Touches(kind.tags, FullTags(v))'
    BY <1>2, TagsFixed
  <1>4. CASE v \in Dropped
    <2>1. ~HasData(v)'
      BY <1>4, InvalidateEffect DEF HasData
    <2> QED BY <1>1, <1>3, <2>1 DEF Owes
  <1>5. CASE v \notin Dropped /\ Invalidates(v)
    <2>1. Invalidates(v)'
      BY <1>0, <1>5, InvalidateEffect DEF Invalidates
    <2>2. CASE v \in open
      <3>1. fetch'[v] # None
        BY <1>0, <1>5, <2>2, InvalidateEffect, ValuesDiffer DEF Repeated
      <3> QED BY <1>1, <1>3, <2>1, <3>1 DEF Owes
    <2>3. CASE v \notin open
      <3>1. ~HasData(v)
        BY <1>0, <1>5, <2>3 DEF Dropped, Stored
      <3>2. ~HasData(v)'
        BY <1>0, <1>5, <3>1, InvalidateEffect DEF HasData
      <3> QED BY <1>1, <1>3, <3>2 DEF Owes
    <2> QED BY <2>2, <2>3
  <1>6. CASE v \notin Dropped /\ ~Invalidates(v)
    <2>1. ~HasData(v) \/ (v = List /\ cache[v] = Absent /\ server = Gone)
      BY <1>0, <1>6 DEF Owes
    <2>2. cache'[v] = cache[v]
      BY <1>0, <1>6, <2>1, InvalidateEffect DEF HasData
    <2>3. \/ ~HasData(v)'
          \/ v = List /\ cache'[v] = Absent /\ server' = Gone /\ Agrees(v)'
      BY <2>1, <2>2 DEF HasData, Agrees
    <2> QED BY <1>1, <1>3, <2>3 DEF Owes
  <1> QED BY <1>4, <1>5, <1>6

LEMMA OwesStep ==
  ASSUME Typed, InStores, Owings, [Next]_vars
  PROVE  Owings'
  <1>0. owed \subseteq Views
    BY DEF Typed
  <1>1. ASSUME NEW w \in Views, Open(w) PROVE Owings'
    <2>1. \A v \in Views : fetch'[v] # None \/ fetch[v] = None
      BY <1>1, Names, ValuesDiffer DEF Open, Typed
    <2> QED BY <1>0, <1>1, <2>1, OwesFrame DEF Open, Owings, Waiting
  <1>2. ASSUME NEW w \in Views, Close(w) PROVE Owings'
    BY <1>0, <1>2, OwesFrame DEF Close, Owings, Waiting
  <1>3. ASSUME NEW w \in Views, Expire(w) PROVE Owings'
    <2>1. Remove(w) /\ UNCHANGED <<kind, server, change, owed>>
      BY <1>3 DEF Expire
    <2>2. ASSUME NEW v \in owed PROVE Owes(v)'
      <3>1. CASE v = w
        <4>1. ~Lags' /\ Touches(kind.tags, FullTags(v))'
          BY <2>1, LagsStep, TagsFixed DEF Owes, Owings
        <4>2. ~HasData(v)'
          BY <2>1, <3>1, RemoveEffect DEF HasData
        <4> QED BY <4>1, <4>2 DEF Owes
      <3>2. CASE v # w
        <4>1. cache'[v] = cache[v] /\ fetch'[v] = fetch[v] /\ provided'[v] = provided[v]
          BY <1>0, <2>1, <3>2, RemoveEffect
        <4> QED BY <1>0, <2>1, <4>1, OwesFrame DEF Owings, Waiting
      <3> QED BY <3>1, <3>2
    <2> QED BY <2>1, <2>2 DEF Owings
  <1>4. ASSUME NEW q \in Queries, Read(q) PROVE Owings'
    <2>1. \A v \in Views : fetch'[v] # None \/ fetch[v] = None
      BY <1>4, Names, ValuesDiffer DEF Read, Typed
    <2> QED BY <1>0, <1>4, <2>1, OwesFrame DEF Read, Owings, Waiting
  <1>5. ASSUME NEW q \in Queries, Arrive(q) PROVE Owings'
    <2>1. owed' = owed
      BY <1>5 DEF Arrive
    <2> QED BY <1>0, <1>5, <2>1, OwesArrive DEF Owings
  <1>6. ASSUME NEW q \in Queries, LoseFetch(q) PROVE Owings'
    BY <1>6 DEF LoseFetch, Owings
  <1>7. ASSUME NEW i \in Changes, Start(i) PROVE Owings'
    <2>1. owed' = owed
      BY <1>7 DEF Start
    <2> QED BY <1>0, <1>7, <2>1, OwesStart DEF Owings
  <1>8. ASSUME NEW i \in Changes, Apply(i) PROVE Owings'
    BY <1>8 DEF Apply, Owings
  <1>9. ASSUME NEW i \in Changes, Refuse(i) PROVE Owings'
    <2>0. change'[i].page = change[i].page /\ \A k \in Changes \ {i} : change'[k] = change[k]
      BY <1>9, ChangeEffect DEF Refuse
    <2>1. \A k \in Changes : Waiting(k) => Waiting(k)'
      BY <2>0 DEF Waiting
    <2> QED BY <1>0, <1>9, <2>1, OwesFrame DEF Refuse, Owings
  <1>10. ASSUME NEW i \in Changes, Settle(i) PROVE Owings'
    <2>1. change[i].undo \in Undos /\ [v \in Views |-> None] \in Undos
      <3>1. [v \in Views |-> None] \in Undos
        BY DEF Undos
      <3> QED BY <3>1, SMT DEF Typed, Records
    <2> QED BY <1>10, <2>1, OwesInvalidate DEF Settle, Owings
  <1>11. ASSUME NEW i \in Changes, LoseReply(i) PROVE Owings'
    <2>1. [v \in Views |-> None] \in Undos
      BY DEF Undos
    <2> QED BY <1>11, <2>1, OwesInvalidate DEF LoseReply, Owings
  <1>12. ASSUME ForeignChange PROVE Owings'
    BY <1>12 DEF ForeignChange, Owings
  <1>13. ASSUME Deliver PROVE Owings'
    <2>1. CASE Head(events) # server
      BY <1>13, <2>1 DEF Deliver, Owings
    <2>2. CASE Head(events) = server
      <3>1. server # Gone
        <4>1. Head(events) \in Values
          BY <1>13, SMT DEF Deliver, Typed
        <4> QED BY <2>2, <4>1, ValuesDiffer
      <3>2. UNCHANGED <<kind, server, fetch, provided, change, owed>>
        BY <1>13, <2>2 DEF Deliver
      <3>3. ASSUME NEW v \in owed PROVE Owes(v)'
        <4>1. v = Detail \/ (v = List /\ (cache'[v] = cache[v] \/ (HasEntry(v) /\ cache'[v] = server)))
          BY <1>0, <1>13, <2>2, Names DEF Deliver
        <4>2. CASE v = Detail
          <5>1. cache'[v] = server /\ HasData(v) /\ v # List
            BY <1>13, <2>2, <4>2, Names DEF Deliver
          <5>2. Agrees(v)' /\ HasData(v)'
            BY <3>1, <3>2, <5>1, ValuesDiffer DEF Agrees, HasData, Typed
          <5>3. ~Lags' /\ Touches(kind.tags, FullTags(v))'
            BY <3>2, LagsStep, TagsFixed DEF Owes, Owings
          <5>4. Invalidates(v)'
            BY <3>2, <5>1 DEF Invalidates, Owes, Owings
          <5> QED BY <5>2, <5>3, <5>4 DEF Owes
        <4>3. CASE v = List
          BY <1>0, <3>1, <3>2, <4>1, <4>3, Names, OwesFrame DEF Owings, Waiting
        <4> QED BY <4>1, <4>2, <4>3
      <3> QED BY <3>2, <3>3 DEF Owings
    <2> QED BY <2>1, <2>2
  <1>14. ASSUME UNCHANGED vars PROVE Owings'
    BY <1>0, <1>14, OwesFrame DEF vars, Owings, Waiting
  <1> QED
    BY <1>1, <1>2, <1>3, <1>4, <1>5, <1>6, <1>7, <1>8, <1>9, <1>10, <1>11, <1>12,
       <1>13, <1>14 DEF Next

-----------------------------------------------------------------------------
\* Views that rely on a patch.
LEMMA AloneFrame ==
  ASSUME Typed, [Next]_vars, UNCHANGED <<server, change>>, NEW i \in Changes, Alone(i),
         (\A q \in Queries : fetch[q] = None) => \A q \in Queries : fetch'[q] = None
  PROVE  Alone(i)'
  <1>1. \A k \in Changes : Waiting(k)' <=> Waiting(k)
    BY DEF Waiting
  <1>2. Lags' => Lags
    BY LagsStep
  <1> QED BY <1>1, <1>2 DEF Alone

LEMMA HeldFrame ==
  ASSUME UNCHANGED <<server, change>>, NEW i \in Changes, NEW v \in Views, Held(i, v),
         \/ cache'[v] = cache[v]
         \/ /\ HasData(v) /\ server # Gone /\ cache'[v] = server
            /\ ~(Waiting(i) /\ change[i].core = "pending"),
         ~HasData(v) /\ v \in open' => v \in open
  PROVE  Held(i, v)'
  <1>1. Waiting(i)' <=> Waiting(i)
    BY DEF Waiting
  <1>2. CASE cache'[v] = cache[v]
    <2>1. (HasData(v)' <=> HasData(v)) /\ (Agrees(v)' <=> Agrees(v))
      BY <1>2 DEF HasData, Agrees
    <2> QED BY <1>1, <1>2, <2>1 DEF Held
  <1>3. CASE /\ HasData(v) /\ server # Gone /\ cache'[v] = server
             /\ ~(Waiting(i) /\ change[i].core = "pending")
    <2>1. Agrees(v)'
      BY <1>3 DEF Agrees
    <2> QED BY <1>1, <1>3, <2>1 DEF Held
  <1> QED BY <1>2, <1>3

LEMMA ReliesFrame ==
  ASSUME Typed, [Next]_vars, UNCHANGED <<kind, server, change>>,
         NEW i \in Changes, NEW v \in Views, Relies(i, v),
         (\A q \in Queries : fetch[q] = None) => \A q \in Queries : fetch'[q] = None,
         fetch'[v] = fetch[v], provided'[v] = provided[v],
         \/ cache'[v] = cache[v]
         \/ /\ HasData(v) /\ server # Gone /\ cache'[v] = server
            /\ ~(Waiting(i) /\ change[i].core = "pending"),
         ~HasData(v) /\ v \in open' => v \in open
  PROVE  Relies(i, v)'
  <1>1. Alone(i)' /\ Held(i, v)'
    BY AloneFrame, HeldFrame DEF Relies
  <1>2. Invalidates(v)' <=> Invalidates(v)
    BY DEF Invalidates
  <1> QED BY <1>1, <1>2 DEF Relies

LEMMA ReliesExpire ==
  ASSUME Typed, NEW w \in Views, Expire(w), NEW i \in Changes, NEW v \in Views, Relies(i, v)
  PROVE  Relies(i, v)'
  <1>0. Remove(w) /\ [Next]_vars /\ w \notin open /\ UNCHANGED <<kind, server, change, open>>
    BY DEF Expire, Next
  <1>1. (\A q \in Queries : fetch[q] = None) => \A q \in Queries : fetch'[q] = None
    BY <1>0, RemoveEffect, Names
  <1>2. CASE v = w
    <2>1. Alone(i)'
      BY <1>0, <1>1, AloneFrame DEF Relies
    <2>2. Held(i, v)' /\ fetch'[v] = None
      BY <1>0, <1>2, RemoveEffect DEF Held, HasData
    <2>3. ~Invalidates(v)'
      BY <1>0, <1>2, RemoveEffect, TouchesMore DEF Invalidates
    <2> QED BY <1>0, <2>1, <2>2, <2>3 DEF Relies
  <1>3. CASE v # w
    <2>1. cache'[v] = cache[v] /\ fetch'[v] = fetch[v] /\ provided'[v] = provided[v]
      BY <1>0, <1>3, RemoveEffect
    <2> QED BY <1>0, <1>1, <2>1, ReliesFrame
  <1> QED BY <1>2, <1>3

\* An answer that arrives beside a view that relies on a patch: the change has
\* settled, and the answer is what the core has.
LEMMA ReliesArrive ==
  ASSUME Typed, NEW q \in Queries, Arrive(q), NEW i \in Changes, NEW v \in Views, Relies(i, v)
  PROVE  Relies(i, v)'
  <1>0. [Next]_vars /\ UNCHANGED <<kind, server, change, open>> /\ fetch[q] # None
    BY DEF Next, Arrive
  <1>1. ~Waiting(i) /\ ~Lags /\ q # v
    BY <1>0 DEF Relies, Alone
  <1>2. fetch[q] = server
    BY <1>1 DEF Lags, Lagging, Arrive
  <1>3. fetch'[v] = fetch[v] /\ provided'[v] = provided[v]
    BY <1>1, ArriveBeside
  <1>4. \/ cache'[v] = cache[v]
        \/ v = List /\ server # Gone /\ cache'[v] = OnList(server)
    BY <1>1, <1>2, ArriveEffect, Names, SMT
  <1>5. cache'[v] = cache[v] \/ (HasData(v) /\ server # Gone /\ cache'[v] = server)
    BY <1>4 DEF OnList, HasEntry, HasData
  <1> QED BY <1>0, <1>1, <1>3, <1>5, ReliesFrame

\* The views that will rely on a change are those that showed the truth when
\* nothing else was going on.
LEMMA ReliesStart ==
  ASSUME Typed, NEW i \in Changes, Start(i), NEW j \in Changes, NEW v \in clean'[j]
  PROVE  Relies(j, v)'
  <1>0. UNCHANGED <<kind, server, fetch, open, provided>>
    BY DEF Start
  <1>1. /\ j = i /\ v \in Patched /\ cache[v] = server /\ ~Invalidates(v)
        /\ \A k \in Changes : ~Waiting(k)
        /\ \A q \in Queries : fetch[q] = None
    BY DEF Start
  <1>2. /\ change'[i].page = "waiting" /\ change'[i].core = "pending"
        /\ change'[i].undo = [w \in Views |-> IF w \in Patched \cup Holed THEN cache[w] ELSE None]
        /\ \A k \in Changes \ {i} : change'[k] = change[k]
    BY SMT DEF Start, Typed, Records
  <1>3. v \in Views /\ v \in kind.patches
    BY <1>1 DEF Patched
  <1>4. cache'[v] = i /\ change'[i].undo[v] = server
    <2>1. cache'[v] = i
      BY <1>1, <1>3 DEF Start
    <2>2. [w \in Views |-> IF w \in Patched \cup Holed THEN cache[w] ELSE None][v] = cache[v]
      BY <1>1, <1>3
    <2> QED BY <1>1, <1>2, <2>1, <2>2
  <1>5. Waiting(i)' /\ \A k \in Changes : Waiting(k)' => k = i
    BY <1>1, <1>2 DEF Waiting
  <1>6. Alone(i)'
    BY <1>0, <1>1, <1>5 DEF Alone
  <1>7. Held(i, v)'
    BY <1>0, <1>2, <1>4, <1>5 DEF Held
  <1>8. ~Invalidates(v)'
    BY <1>0, <1>1 DEF Invalidates
  <1> QED BY <1>0, <1>1, <1>3, <1>6, <1>7, <1>8, Names DEF Relies

\* The core makes the change: the patch becomes the truth.
LEMMA ReliesApply ==
  ASSUME Typed, NEW i \in Changes, Apply(i), NEW v \in Views, Relies(i, v)
  PROVE  Relies(i, v)'
  <1>0. UNCHANGED <<kind, cache, fetch, open, provided>>
    BY DEF Apply
  <1>1. change[i].core = "pending" /\ Waiting(i)
    BY DEF Apply, Relies, Alone
  <1>2. /\ change'[i].core = "applied" /\ change'[i].page = change[i].page
        /\ \A k \in Changes \ {i} : change'[k] = change[k]
    BY ChangeEffect DEF Apply
  <1>3. \A k \in Changes : Waiting(k)' <=> Waiting(k)
    BY <1>2 DEF Waiting
  <1>4. ~kind.removes
    BY KindsAssumption DEF Relies, Typed
  <1>5. server' = i /\ i # Gone
    BY <1>4, ValuesDiffer DEF Apply, Values
  <1>6. Alone(i)'
    BY <1>0, <1>1, <1>3 DEF Relies, Alone
  <1>7. (~HasData(v) /\ v \notin open) \/ cache[v] = i
    BY <1>1 DEF Relies, Held
  <1>8. Held(i, v)'
    <2>1. CASE cache[v] = i
      BY <1>0, <1>1, <1>2, <1>3, <1>5, <2>1 DEF Held, Agrees
    <2>2. CASE ~HasData(v) /\ v \notin open
      BY <1>0, <2>2 DEF Held, HasData
    <2> QED BY <1>7, <2>1, <2>2
  <1>9. ~Invalidates(v)'
    BY <1>0 DEF Invalidates, Relies
  <1> QED BY <1>0, <1>6, <1>8, <1>9 DEF Relies

\* The core refuses a change: the undo still holds the truth.
LEMMA ReliesRefuse ==
  ASSUME Typed, NEW i \in Changes, Refuse(i), NEW j \in Changes, NEW v \in Views, Relies(j, v)
  PROVE  Relies(j, v)'
  <1>0. [Next]_vars /\ UNCHANGED <<kind, server, cache, fetch, open, provided>>
    BY DEF Next, Refuse
  <1>1. /\ change'[i].core = "refused" /\ change'[i].page = change[i].page
        /\ change'[i].undo = change[i].undo
        /\ \A k \in Changes \ {i} : change'[k] = change[k]
    BY ChangeEffect DEF Refuse
  <1>2. \A k \in Changes : Waiting(k)' <=> Waiting(k)
    BY <1>1 DEF Waiting
  <1>3. (Lags' <=> Lags) /\ (HasData(v)' <=> HasData(v)) /\ (Agrees(v)' <=> Agrees(v))
        /\ (Invalidates(v)' <=> Invalidates(v))
    BY <1>0 DEF Lags, Lagging, HasData, Agrees, Invalidates
  <1>4. change'[j].core # "pending" \/ change'[j].core = change[j].core
    BY <1>1
  <1>5. Alone(j)'
    BY <1>0, <1>2, <1>3, <1>4 DEF Relies, Alone
  <1>6. Held(j, v)'
    <2>1. CASE j # i
      <3>1. change'[j] = change[j]
        BY <1>1, <2>1
      <3> QED BY <1>0, <1>2, <1>3, <3>1 DEF Relies, Held
    <2>2. CASE j = i
      <3>1. change[i].core = "pending"
        BY DEF Refuse
      <3>2. \/ ~HasData(v) /\ v \notin open
            \/ Waiting(i) /\ cache[v] = i /\ change[i].undo[v] = server
        BY <2>2, <3>1 DEF Relies, Held, Alone
      <3> QED BY <1>0, <1>1, <1>2, <1>3, <2>2, <3>2 DEF Held
    <2> QED BY <2>1, <2>2
  <1> QED BY <1>0, <1>3, <1>5, <1>6 DEF Relies

\* The change settles.  It was alone, so no other change can have relied on a
\* patch; an accepted one shows the truth, a refused one is undone.
LEMMA ReliesSettle ==
  ASSUME Typed, NEW i \in Changes, Settle(i), NEW j \in Changes, NEW v \in Views, Relies(j, v)
  PROVE  Relies(j, v)'
  <1> DEFINE u == IF change[i].core = "refused" THEN change[i].undo ELSE [w \in Views |-> None]
  <1>0. /\ [Next]_vars /\ UNCHANGED <<kind, server, open>> /\ Waiting(i)
        /\ change[i].core \in {"applied", "refused"} /\ Invalidate(u)
    BY DEF Next, Settle
  <1>1. j = i /\ \A q \in Queries : fetch[q] = None
    BY <1>0 DEF Relies, Alone
  <1>2. /\ change'[i].page = "done" /\ change'[i].core = change[i].core
        /\ \A k \in Changes \ {i} : change'[k] = change[k]
    BY ChangeEffect DEF Settle
  <1>3. \A k \in Changes : ~Waiting(k)'
    BY <1>0, <1>1, <1>2 DEF Waiting, Relies, Alone
  <1>4. ~Lags
    BY <1>1 DEF Lags, Lagging
  <1>5. Alone(i)'
    <2>1. ~Lags'
      BY <1>0, <1>4, LagsStep
    <2>2. change'[i].core # "pending"
      BY <1>0, <1>2
    <2> QED BY <1>3, <2>1, <2>2 DEF Alone
  <1>6. v \in Views \ Dropped /\ v \notin Repeated
    BY DEF Relies, Dropped, Repeated
  <1>7. u[v] = IF change[i].core = "refused" THEN change[i].undo[v] ELSE None
    OBVIOUS
  <1> HIDE DEF u
  <1>8. /\ provided'[v] = provided[v] /\ fetch'[v] = None
        /\ \/ cache'[v] = cache[v] /\ (u[v] = None \/ cache[v] \in {Missing, Absent})
           \/ cache'[v] = u[v] /\ u[v] # None
    <2>1. /\ provided'[v] = provided[v] /\ fetch'[v] = fetch[v]
          /\ u[v] = None \/ cache[v] \in {Missing, Absent} => cache'[v] = cache[v]
          /\ u[v] # None /\ cache[v] \notin {Missing, Absent} => cache'[v] = u[v]
      <3>1. Invalidate(u)
        BY <1>0
      <3> QED BY <1>6, <3>1, InvalidateEffect
    <2>2. fetch[v] = None
      BY <1>1, Names
    <2> QED BY <2>1, <2>2
  <1>9. ~Invalidates(v)'
    BY <1>0, <1>8 DEF Invalidates, Relies
  <1>10. Held(i, v)'
    <2>1. CASE ~HasData(v) /\ v \notin open
      <3>1. cache'[v] = Missing
        <4>1. v \in Views /\ cache[v] = Missing
          BY <2>1 DEF HasData
        <4> QED BY <1>0, <1>6, <4>1, InvalidateEffect
      <3> QED BY <1>0, <2>1, <3>1 DEF Held, HasData
    <2>2. CASE change[i].core = "applied" /\ Agrees(v)
      <3>1. cache'[v] = cache[v]
        BY <1>7, <1>8, <2>2
      <3>2. Agrees(v)'
        BY <1>0, <2>2, <3>1 DEF Agrees
      <3> QED BY <1>3, <3>2 DEF Held
    <2>3. CASE change[i].core = "refused" /\ change[i].undo[v] = server /\ cache[v] \in {i, server}
      <3>1. server \in Values
        <4>1. change[i].undo \in Undos
          BY SMT DEF Typed, Records
        <4> QED BY <2>3, <4>1, ValuesDiffer DEF Undos, Typed
      <3>2. cache[v] \notin {Missing, Absent} /\ server # None /\ server # Gone
        BY <2>3, <3>1, ValuesDiffer DEF Values
      <3>3. cache'[v] = server
        BY <1>7, <1>8, <2>3, <3>2
      <3>4. Agrees(v)'
        BY <1>0, <3>2, <3>3 DEF Agrees
      <3> QED BY <1>3, <3>4 DEF Held
    <2> QED BY <1>0, <1>1, <2>1, <2>2, <2>3 DEF Relies, Held
  <1> QED BY <1>0, <1>1, <1>5, <1>8, <1>9, <1>10 DEF Relies

\* An event that is up to date.
LEMMA ReliesDeliver ==
  ASSUME Typed, Deliver, NEW i \in Changes, NEW v \in Views, Relies(i, v),
         Head(events) = server, change[i].core # "pending"
  PROVE  Relies(i, v)'
  <1>0. [Next]_vars /\ UNCHANGED <<kind, server, fetch, open, provided, change>>
    BY DEF Next, Deliver
  <1>1. server # Gone
    <2>1. Head(events) \in Values
      BY SMT DEF Deliver, Typed
    <2> QED BY <2>1, ValuesDiffer
  <1>2. cache'[v] = cache[v] \/ (HasData(v) /\ cache'[v] = server)
    BY Names DEF Deliver, HasEntry, HasData
  <1> QED BY <1>0, <1>1, <1>2, ReliesFrame

LEMMA ReliesStep ==
  ASSUME Typed, Relyings, [Next]_vars
  PROVE  Relyings'
  <1>0. \A i \in Changes : clean[i] \subseteq Views
    BY DEF Typed
  <1>1. ASSUME NEW w \in Views, Open(w) PROVE Relyings'
    <2>1. CASE clean' = [i \in Changes |-> {}]
      BY <2>1 DEF Relyings
    <2>2. CASE (HasData(w) \/ fetch[w] # None) /\ UNCHANGED <<fetch, clean>>
      <3>1. ASSUME NEW i \in Changes, NEW v \in clean[i] PROVE Relies(i, v)'
        <4>1. ~HasData(v) /\ v \in open' => v \in open
          BY <1>1, <2>2, <3>1 DEF Open, Relyings, Relies
        <4> QED BY <1>0, <1>1, <2>2, <3>1, <4>1, ReliesFrame DEF Open, Relyings
      <3> QED BY <2>2, <3>1 DEF Relyings
    <2> QED BY <1>1, <2>1, <2>2 DEF Open
  <1>2. ASSUME NEW w \in Views, Close(w) PROVE Relyings'
    BY <1>0, <1>2, ReliesFrame DEF Close, Relyings
  <1>3. ASSUME NEW w \in Views, Expire(w) PROVE Relyings'
    <2>1. clean' = clean
      BY <1>3 DEF Expire
    <2> QED BY <1>0, <1>3, <2>1, ReliesExpire DEF Relyings
  <1>4. ASSUME NEW q \in Queries, Read(q) PROVE Relyings'
    <2>1. fetch[q] # None
      BY <1>4, ValuesDiffer DEF Read
    <2>2. UNCHANGED <<kind, server, change, cache, open, provided, clean>>
      BY <1>4 DEF Read
    <2>3. ASSUME NEW i \in Changes, NEW v \in clean[i] PROVE Relies(i, v)'
      <3>1. Relies(i, v) /\ v \in Views
        BY <1>0 DEF Relyings
      <3>2. fetch'[v] = fetch[v]
        BY <1>4, <2>1, <3>1, Names DEF Read, Relies, Typed
      <3> QED BY <2>1, <2>2, <3>1, <3>2, ReliesFrame
    <2> QED BY <2>2, <2>3 DEF Relyings
  <1>5. ASSUME NEW q \in Queries, Arrive(q) PROVE Relyings'
    <2>1. clean' = clean
      BY <1>5 DEF Arrive
    <2> QED BY <1>0, <1>5, <2>1, ReliesArrive DEF Relyings
  <1>6. ASSUME NEW q \in Queries, LoseFetch(q) PROVE Relyings'
    BY <1>6 DEF LoseFetch, Relyings
  <1>7. ASSUME NEW i \in Changes, Start(i) PROVE Relyings'
    BY <1>7, ReliesStart DEF Relyings
  <1>8. ASSUME NEW i \in Changes, Apply(i) PROVE Relyings'
    <2>1. \A j \in Changes : clean'[j] = IF j = i THEN clean[j] ELSE {}
      BY <1>8 DEF Apply
    <2> QED BY <1>0, <1>8, <2>1, ReliesApply DEF Relyings
  <1>9. ASSUME NEW i \in Changes, Refuse(i) PROVE Relyings'
    <2>1. clean' = clean
      BY <1>9 DEF Refuse
    <2> QED BY <1>0, <1>9, <2>1, ReliesRefuse DEF Relyings
  <1>10. ASSUME NEW i \in Changes, Settle(i) PROVE Relyings'
    <2>1. clean' = clean
      BY <1>10 DEF Settle
    <2> QED BY <1>0, <1>10, <2>1, ReliesSettle DEF Relyings
  <1>11. ASSUME NEW i \in Changes, LoseReply(i) PROVE Relyings'
    BY <1>11 DEF LoseReply, Relyings
  <1>12. ASSUME ForeignChange PROVE Relyings'
    BY <1>12 DEF ForeignChange, Relyings
  <1>13. ASSUME Deliver PROVE Relyings'
    <2>1. \A j \in Changes : clean'[j] =
            IF Head(events) = server /\ change[j].core # "pending" THEN clean[j] ELSE {}
      BY <1>13 DEF Deliver
    <2> QED BY <1>0, <1>13, <2>1, ReliesDeliver DEF Relyings
  <1>14. ASSUME UNCHANGED vars PROVE Relyings'
    BY <1>0, <1>14, ReliesFrame DEF vars, Relyings
  <1> QED
    BY <1>1, <1>2, <1>3, <1>4, <1>5, <1>6, <1>7, <1>8, <1>9, <1>10, <1>11, <1>12,
       <1>13, <1>14 DEF Next

-----------------------------------------------------------------------------
LEMMA IInvInit ==
  ASSUME Init
  PROVE  IInv
  <1>1. Typed
    BY TypedInit
  <1>2. InStores
    BY Names DEF Init, InStores, InStore, HasData
  <1>3. GoneIsGone
    BY ValuesDiffer DEF Init, GoneIsGone
  <1>4. Owings /\ Relyings
    BY DEF Init, Owings, Relyings
  <1> QED BY <1>1, <1>2, <1>3, <1>4 DEF IInv

LEMMA IInvStep ==
  ASSUME IInv, [Next]_vars
  PROVE  IInv'
  BY TypedStep, InStoresStep, GoneIsGoneStep, OwesStep, ReliesStep DEF IInv

\* The inductive invariant holds in every state of the cache.
LEMMA CacheInvariant == Spec => []IInv
  BY IInvInit, IInvStep, PTL DEF Spec

\* A view at rest that is open and owed has no query, and so has data that
\* agrees, or is the detail of an object that is gone.
LEMMA RestIsRight ==
  ASSUME IInv, AtRest
  PROVE  /\ \A v \in owed \cap open : Agrees(v)
         /\ \A i \in Changes : \A v \in clean[i] \cap open : Agrees(v)
  <1>1. ASSUME NEW v \in owed, v \in open PROVE Agrees(v)
    <2>1. v \in Views /\ Owes(v) /\ InStore(v)
      BY <1>1 DEF IInv, Typed, Owings, InStores
    <2>2. Agrees(v) \/ ~HasData(v)
      BY <2>1, Names DEF AtRest, Owes
    <2>3. CASE ~HasData(v)
      <3>1. v = Detail /\ server = Gone
        BY <1>1, <2>1, <2>3, Names DEF InStore, Stored, AtRest
      <3> QED BY <3>1, Names DEF Agrees
    <2> QED BY <2>2, <2>3
  <1>2. ASSUME NEW i \in Changes, NEW v \in clean[i], v \in open PROVE Agrees(v)
    <2>1. Relies(i, v) /\ ~Waiting(i)
      BY <1>2 DEF IInv, Relyings, AtRest
    <2> QED BY <1>2, <2>1 DEF Relies, Held
  <1> QED BY <1>1, <1>2

\* Every variable stays in its range, a view that a component subscribes to is
\* in the store, a list whose query may fail aside, and a view with data provides
\* tags by which a change finds it:
\* the removal, the failure and the blank answer of a query (RTK Query under the
\* endpoints of modules/features/OneApi) never leave a view that no change can
\* reach.
THEOREM CacheTypeOK == Spec => []TypeOK
  <1>1. IInv => TypeOK
    BY Names DEF IInv, Typed, InStores, InStore, TypeOK, Shown
  <1> QED BY <1>1, CacheInvariant, PTL

\* A view that a settled mutation had queried again shows what the core has once
\* everything has arrived, whatever patches, undos, events and answers of other
\* changes came in between, for any number of changes and any endpoint whose
\* tags satisfy KindsAssumption.
THEOREM CacheRepeatedViewsAgree == Spec => []RepeatedViewsAgree
  <1>1. IInv => RepeatedViewsAgree
    BY RestIsRight DEF RepeatedViewsAgree
  <1> QED BY <1>1, CacheInvariant, PTL

\* A view that onQueryStarted patches and no tag invalidates is right in the end
\* on the strength of the patch and its undo alone.
THEOREM CachePatchedViewsAgree == Spec => []PatchedViewsAgree
  <1>1. IInv => PatchedViewsAgree
    BY RestIsRight DEF PatchedViewsAgree
  <1> QED BY <1>1, CacheInvariant, PTL

================================================================================
