---------------------------- MODULE RequestPath_proofs ----------------------------
(***************************************************************************)
(* The path of requests implements the direct call, is well typed, and     *)
(* leads every complete request to a route, for every table of commands    *)
(* and endpoints that satisfies the assumptions of RequestPath.            *)
(***************************************************************************)
EXTENDS RequestPath, TLAPS

\* What a request, its call and its answer have to do with each other at every
\* moment: the HTTP request is the one built for the ask, and the status code
\* says what became of the call.
Consistent ==
  /\ ask # None => ask \in Asks /\ http = requestConfig(ask)
  /\ ask = None => calls = {} /\ status = None /\ reply = None
  /\ calls = {} => verdict = None
  /\ status # None =>
       /\ status \in FunctionStatuses
       /\ calls # {} => verdict # None
       /\ calls = {} => status \in {401, 404, 500}
       /\ verdict = "done" => status \in {200, 204}
       /\ verdict = "refused" => status = 404
  /\ verdict \in {None, "done", "refused", "unknown"}
  /\ reply = "rejected" => status # None

\* Most steps are first-order reasoning; those that need arithmetic, records or
\* sequences name SMT.
USE Zenon

\* The parameters a command lists are among its names.
LEMMA ListedName ==
  ASSUME NEW c, NEW i \in DOMAIN c.params, NEW froms, c.params[i].from \in froms
  PROVE  c.params[i].name \in NamesFrom(c, froms) /\ c.params[i].name \in ParamNames(c)
BY DEF NamesFrom, ParamNames

\* Of what the browser maps, a parameter that is not the zone arrives as it is.
LEMMA MappedValue ==
  ASSUME NEW c, NEW froms, NEW values, NEW sz \in BOOLEAN, NEW n,
         n \in NamesFrom(c, froms), n # "zone"
  PROVE  LET m == Mapped(c, froms, values, sz)
         IN  /\ n \in DOMAIN m <=> n \in DOMAIN values
             /\ n \in DOMAIN values => m[n] = values[n]
BY DEF Mapped

\* The routes a request can take do not depend on the zone.
LEMMA RoutesOfAsk ==
  ASSUME NEW a \in Asks
  PROVE  \A c \in Routed(requestConfig(a)) :
           /\ c \in Commands
           /\ c.name = Endpoints[a.endpoint].cmd
           /\ Endpoints[a.endpoint].listed =>
                /\ c.params = CommandOf(Endpoints[a.endpoint]).params
                /\ c.path = CommandOf(Endpoints[a.endpoint]).path
<1> DEFINE b == [endpoint |-> a.endpoint, given |-> a.given, zone |-> DefaultZone]
<1>1. a.endpoint \in DOMAIN Endpoints /\ a.given \in Givens(a.endpoint)
  BY SMT DEF Asks
<1>2. /\ requestConfig(a).method = requestConfig(b).method
      /\ requestConfig(a).path = requestConfig(b).path
  BY DEF requestConfig
<1>3. \A k : Fitting(k, requestConfig(a)) = Fitting(k, requestConfig(b))
  BY <1>2 DEF Fitting
<1>4. Routed(requestConfig(a)) = Routed(requestConfig(b))
  BY <1>3 DEF Routed
<1>5. \A c \in Routed(requestConfig(a)) : c \in Commands
  BY DEF Routed, Fitting
<1>6. QED
  BY SMT, <1>1, <1>4, <1>5, RoutesAssumption

\* The values of an ask: what the caller passed, and the filter of the session.
LEMMA ExtendedValue ==
  ASSUME NEW c, NEW g, NEW n \in ParamNames(c)
  PROVE  LET v == Extended(c, g)
         IN  /\ n \in DOMAIN v <=> n \in g \/ n = "filter"
             /\ n \in g => v[n] = Given(n)
             /\ n \notin g /\ n = "filter" => v[n] = PoolFilter
BY DEF Extended

\* A value in the query string arrives.
LEMMA QueryArrives ==
  ASSUME NEW a \in Asks, NEW n,
         n \in NamesFrom(CommandOf(Endpoints[a.endpoint]), {"query"}), n # "zone"
  PROVE  LET v == Extended(CommandOf(Endpoints[a.endpoint]), a.given)
             q == requestConfig(a).query
         IN  /\ n \in DOMAIN q <=> n \in DOMAIN v
             /\ n \in DOMAIN v => q[n] = v[n]
<1> DEFINE C == CommandOf(Endpoints[a.endpoint])
           v == Extended(C, a.given)
           sz == SendsZone(a.given, a.zone)
           m == Mapped(C, {"query"}, v, sz)
<1>1. sz \in BOOLEAN
  BY DEF SendsZone
<1>2. (n \in DOMAIN m <=> n \in DOMAIN v) /\ (n \in DOMAIN v => m[n] = v[n])
  BY SMT, <1>1, MappedValue
<1>3. requestConfig(a).query = QueryString(C, v, sz, a.zone)
  BY DEF requestConfig
<1>4. QED
  BY <1>2, <1>3 DEF QueryString

\* A value in the body of a request that has one arrives.
LEMMA BodyArrives ==
  ASSUME NEW a \in Asks, NEW n,
         CommandOf(Endpoints[a.endpoint]).method # "GET",
         n \in NamesFrom(CommandOf(Endpoints[a.endpoint]), {"postBody"}),
         n # "zone"
  PROVE  LET v == Extended(CommandOf(Endpoints[a.endpoint]), a.given)
             q == requestConfig(a).body
         IN  /\ n \in DOMAIN q <=> n \in DOMAIN v
             /\ n \in DOMAIN v => q[n] = v[n]
<1> DEFINE C == CommandOf(Endpoints[a.endpoint])
           v == Extended(C, a.given)
           sz == SendsZone(a.given, a.zone)
           m == Mapped(C, {"postBody"}, v, sz)
<1>1. sz \in BOOLEAN
  BY DEF SendsZone
<1>2. (n \in DOMAIN m <=> n \in DOMAIN v) /\ (n \in DOMAIN v => m[n] = v[n])
  BY SMT, <1>1, MappedValue
<1>3. requestConfig(a).body = Body(C, v, sz)
  BY DEF requestConfig
<1>4. QED
  BY <1>2, <1>3 DEF Body

\* The browser replaces a path parameter by its value, if it has one.
LEMMA SegmentValue ==
  ASSUME NEW p, NEW m, p.kind # "literal"
  PROVE  /\ Segment(p, m).kind = "value" <=> p.text \in DOMAIN m
         /\ p.text \in DOMAIN m => Segment(p, m).value = m[p.text]
<1>1. CASE p.text \in DOMAIN m
  BY <1>1 DEF Segment
<1>2. CASE p.text \notin DOMAIN m
  BY <1>2 DEF Segment
<1>3. QED
  BY <1>1, <1>2

\* A value in the path is bound by a route with the path of the command.
LEMMA PathArrives ==
  ASSUME NEW a \in Asks, NEW c, NEW n, n # "zone",
         c.path = CommandOf(Endpoints[a.endpoint]).path,
         c.params = CommandOf(Endpoints[a.endpoint]).params,
         n \in NamesFrom(c, {"resource"}),
         \E j \in DOMAIN c.path : c.path[j].kind # "literal" /\ c.path[j].text = n
  PROVE  LET v == Extended(CommandOf(Endpoints[a.endpoint]), a.given)
             q == Bound(c, requestConfig(a))
         IN  /\ n \in DOMAIN q <=> n \in DOMAIN v
             /\ n \in DOMAIN v => q[n] = v[n]
<1> DEFINE C == CommandOf(Endpoints[a.endpoint])
           v == Extended(C, a.given)
           m == Mapped(C, {"resource"}, v, FALSE)
           h == requestConfig(a)
           at == {i \in DOMAIN c.path \cap DOMAIN h.path :
                    /\ c.path[i].kind # "literal" /\ c.path[i].text = n
                    /\ h.path[i].kind = "value"}
<1>1. h.path = [i \in DOMAIN C.path |-> Segment(C.path[i], m)]
  BY DEF requestConfig
<1>2. n \in NamesFrom(C, {"resource"})
  <2>1. PICK i \in DOMAIN c.params : c.params[i].from = "resource" /\ c.params[i].name = n
    BY DEF NamesFrom
  <2>2. i \in DOMAIN C.params /\ C.params[i].from = "resource" /\ C.params[i].name = n
    BY <2>1
  <2>3. QED
    BY <2>2 DEF NamesFrom
<1>3. (n \in DOMAIN m <=> n \in DOMAIN v) /\ (n \in DOMAIN v => m[n] = v[n])
  <2> HIDE DEF C, v
  <2>1. QED
    BY <1>2 DEF Mapped
<1>4. \A i \in DOMAIN c.path :
        c.path[i].kind # "literal" /\ c.path[i].text = n =>
          /\ h.path[i].kind = "value" <=> n \in DOMAIN m
          /\ n \in DOMAIN m => h.path[i].value = m[n]
  <2> SUFFICES ASSUME NEW i \in DOMAIN c.path,
                      c.path[i].kind # "literal", c.path[i].text = n
               PROVE  /\ h.path[i].kind = "value" <=> n \in DOMAIN m
                      /\ n \in DOMAIN m => h.path[i].value = m[n]
    OBVIOUS
  <2>1. h.path[i] = Segment(c.path[i], m)
    BY <1>1
  <2> HIDE DEF h, m
  <2>2. QED
    BY SMT, <2>1, SegmentValue
<1>5. at # {} <=> n \in DOMAIN m
  BY <1>1, <1>4
<1>6. \A i \in at : h.path[i].value = m[n]
  BY <1>4
<1>7. n \in DOMAIN Bound(c, h) <=> at # {}
  BY DEF Bound
<1>8. at # {} => Bound(c, h)[n] = h.path[CHOOSE i \in at : TRUE].value
  BY DEF Bound
<1>9. QED
  BY <1>3, <1>5, <1>6, <1>7, <1>8

\* The arguments of a call are the ones that were meant.
LEMMA ArgumentsMeant ==
  ASSUME NEW a \in Asks, NEW c \in Routed(requestConfig(a)), NEW i \in DOMAIN c.params,
         c.params[i].name # "zone"
  PROVE  LET n == c.params[i].name
             names == ParamNames(CommandOf(Endpoints[a.endpoint]))
         IN  getCommandParams(c, requestConfig(a))[i] =
               IF n \notin names THEN Default
               ELSE IF n \in a.given THEN Given(n)
               ELSE IF n = "filter" THEN PoolFilter
               ELSE Default
<1> DEFINE e == Endpoints[a.endpoint]
           C == CommandOf(e)
           p == c.params[i]
           n == p.name
           v == Extended(C, a.given)
           h == requestConfig(a)
           src == Source(c, h, p.from)
<1>1. a.endpoint \in DOMAIN Endpoints
  BY SMT DEF Asks
<1>2. getCommandParams(c, h)[i] = IF n \in DOMAIN src THEN src[n] ELSE Default
  BY DEF getCommandParams
<1>3. CASE e.listed
  <2>1. c.params = C.params /\ c.path = C.path
    BY <1>3, RoutesOfAsk
  <2>2. i \in DOMAIN C.params /\ p = C.params[i]
    BY <2>1
  <2>3. /\ p.from \in {"resource", "query", "postBody"}
        /\ C.method = "GET" => p.from # "postBody"
        /\ p.from = "resource" => \E j \in DOMAIN C.path :
                                     C.path[j].kind # "literal" /\ C.path[j].text = n
    BY <1>1, <2>2, PlacesAssumption
  <2>4. n \in NamesFrom(C, {p.from}) /\ n \in ParamNames(C)
    BY <2>2, ListedName
  <2>5. (n \in DOMAIN src <=> n \in DOMAIN v) /\ (n \in DOMAIN v => src[n] = v[n])
    <3>1. CASE p.from = "query"
      <4>1. src = h.query
        BY <3>1 DEF Source
      <4>2. QED
        BY <3>1, <4>1, <2>4, QueryArrives
    <3>2. CASE p.from = "postBody"
      <4>1. src = h.body
        BY <3>2 DEF Source
      <4>2. n \in NamesFrom(C, {"postBody"})
        BY <3>2, <2>2, ListedName
      <4>3. QED
        BY ZenonT(40), <3>2, <4>1, <4>2, <2>3, BodyArrives
    <3>3. CASE p.from = "resource"
      <4>1. src = Bound(c, h)
        BY <3>3 DEF Source
      <4>2. n \in NamesFrom(c, {"resource"})
        BY <3>3, ListedName
      <4>3. \E j \in DOMAIN c.path : c.path[j].kind # "literal" /\ c.path[j].text = n
        BY <3>3, <2>1, <2>3
      <4>4. n # "zone" /\ c.path = C.path /\ c.params = C.params
        BY <2>1
      <4>5. /\ n \in DOMAIN Bound(c, h) <=> n \in DOMAIN v
            /\ n \in DOMAIN v => Bound(c, h)[n] = v[n]
        <5> HIDE DEF n
        <5> QED
          BY SMT, <4>2, <4>3, <4>4, PathArrives
      <4>6. QED
        BY <4>1, <4>5
    <3>4. QED
      BY <2>3, <3>1, <3>2, <3>3
  <2>6. /\ n \in DOMAIN v <=> n \in a.given \/ n = "filter"
        /\ n \in a.given => v[n] = Given(n)
        /\ n \notin a.given /\ n = "filter" => v[n] = PoolFilter
    BY SMT, <2>4, ExtendedValue
  <2> HIDE DEF e, C, p, n, v, h, src
  <2>7. QED
    BY <1>2, <2>4, <2>5, <2>6 DEF n, p, h, C, e
<1>4. CASE ~e.listed
  <2>1. /\ C.params = <<>> /\ C.method = "GET"
        /\ C.path = <<[kind |-> "literal", text |-> e.cmd[1]],
                      [kind |-> "literal", text |-> e.cmd[2]]>>
    BY <1>4 DEF CommandOf
  <2>2. ParamNames(C) = {} /\ \A f : NamesFrom(C, f) = {}
    BY SMT, <2>1 DEF ParamNames, NamesFrom
  <2>3. \A f, w, sz : DOMAIN Mapped(C, f, w, sz) = {}
    BY <2>2 DEF Mapped
  <2>4. n \notin DOMAIN h.query /\ n \notin DOMAIN h.body
    <3>1. h.query = QueryString(C, v, SendsZone(a.given, a.zone), a.zone)
      BY DEF requestConfig
    <3>2. h.body = Body(C, v, SendsZone(a.given, a.zone))
      BY DEF requestConfig
    <3> HIDE DEF C, v, h
    <3>3. QED
      BY SMT, <2>3, <3>1, <3>2 DEF QueryString, Body
  <2>5. n \notin DOMAIN Bound(c, h)
    <3>1. h.path = [j \in DOMAIN C.path |->
                      Segment(C.path[j], Mapped(C, {"resource"}, v, FALSE))]
      BY DEF requestConfig
    <3>2. \A j \in DOMAIN C.path : C.path[j].kind = "literal"
      BY SMT, <2>1
    <3>3. \A j \in DOMAIN h.path : h.path[j].kind = "literal"
      <4> HIDE DEF C, v, h
      <4>1. QED
        BY SMT, <3>1, <3>2 DEF Segment
    <3>4. QED
      BY <3>3 DEF Bound
  <2>6. n \notin DOMAIN src
    BY <2>4, <2>5 DEF Source
  <2>7. QED
    BY <1>2, <2>2, <2>6
<1>5. QED
  BY <1>3, <1>4

\* A call goes to the zone the page selected.
LEMMA ZoneMeant ==
  ASSUME NEW a \in Asks, NEW z \in Targets(requestConfig(a)), "zone" \notin a.given
  PROVE  z = a.zone
<1> DEFINE C == CommandOf(Endpoints[a.endpoint])
           v == Extended(C, a.given)
           h == requestConfig(a)
           sz == SendsZone(a.given, a.zone)
<1>1. "zone" \notin DOMAIN v
  BY DEF Extended
<1>2. h.query = QueryString(C, v, sz, a.zone)
  BY DEF requestConfig
<1>3. "zone" \notin DOMAIN Mapped(C, {"query"}, v, sz)
  <2> HIDE DEF C, v, sz
  <2>1. QED
    BY <1>1 DEF Mapped
<1>4. CASE a.zone = DefaultZone
  <2>1. ~sz
    BY <1>4 DEF SendsZone
  <2>2. "zone" \notin DOMAIN h.query
    <3> HIDE DEF C, v, h, sz
    <3>1. QED
      BY <1>2, <1>3, <2>1 DEF QueryString
  <2>3. QED
    BY <1>4, <2>2 DEF Targets
<1>5. CASE a.zone # DefaultZone
  <2>1. sz
    BY <1>5 DEF SendsZone
  <2>2. "zone" \in DOMAIN h.query /\ h.query["zone"] = ZoneOf(a.zone)
    <3> HIDE DEF C, v, h, sz
    <3>1. QED
      BY <1>2, <1>3, <2>1 DEF QueryString
  <2>3. QED
    BY SMT, <2>2 DEF Targets, ZoneOf
<1>6. QED
  BY <1>4, <1>5

\* The server makes the call that was meant.
LEMMA CallMeant ==
  ASSUME NEW a \in Asks, NEW c \in Routed(requestConfig(a)),
         NEW z \in Targets(requestConfig(a))
  PROVE  Meant(a, [command |-> c, args |-> getCommandParams(c, requestConfig(a)),
                   zone |-> z])
<1> DEFINE k == [command |-> c, args |-> getCommandParams(c, requestConfig(a)),
                 zone |-> z]
<1>1. k.command = c /\ k.args = getCommandParams(c, requestConfig(a)) /\ k.zone = z
  OBVIOUS
<1>2. c.name = Endpoints[a.endpoint].cmd
  BY RoutesOfAsk
<1>3. DOMAIN k.args = DOMAIN c.params
  BY DEF getCommandParams
<1>4. "zone" \notin a.given => k.zone = a.zone
  BY ZoneMeant
<1> HIDE DEF k
<1>5. QED
  BY SMT, <1>1, <1>2, <1>3, <1>4, ArgumentsMeant DEF Meant

\* Consistent holds at the start, and every step keeps it.
LEMMA ConsistentInit == Init => Consistent
BY NoneAssumption DEF Init, Consistent

LEMMA ConsistentNext == Consistent /\ [Next]_vars => Consistent'
<1> SUFFICES ASSUME Consistent, [Next]_vars PROVE Consistent'
  OBVIOUS
<1> USE NoneAssumption DEF Consistent
<1>1. CASE Send
  BY SMT, <1>1 DEF Send
<1>2. CASE Receive
  <2>1. /\ ask # None /\ calls = {} /\ status = None
        /\ UNCHANGED <<ask, http, verdict, reply>>
    BY <1>2 DEF Receive
  <2>2. \/ status' \in {401, 404, 500} /\ calls' = {}
        \/ status' = None /\ calls' # {}
    BY ZenonT(60), <1>2 DEF Receive, Answer
  <2>3. QED
    BY SMT, <2>1, <2>2 DEF FunctionStatuses
<1>3. CASE CoreAnswers
  <2>1. calls # {} /\ verdict = None /\ UNCHANGED <<ask, http, calls, reply>>
    BY ZenonT(40), <1>3 DEF CoreAnswers
  <2>2. status = None
    BY <2>1
  <2>3. \/ verdict' = "done" /\ status' \in {200, 204}
        \/ verdict' = "refused" /\ status' = 404
        \/ verdict' = "refused" /\ status' = None
        \/ verdict' = "unknown" /\ status' = 500
    BY <1>3 DEF CoreAnswers
  <2>4. QED
    BY SMT, <2>1, <2>2, <2>3 DEF FunctionStatuses
<1>4. CASE FunctionAnswers
  BY ZenonT(40), <1>4 DEF FunctionAnswers
<1>5. CASE Settle
  BY SMT, <1>5 DEF Settle, Result
<1>6. CASE GiveUp
  BY SMT, <1>6 DEF GiveUp
<1>7. CASE UNCHANGED vars
  BY SMT, <1>7 DEF vars
<1>8. QED
  BY ZenonT(40), <1>1, <1>2, <1>3, <1>4, <1>5, <1>6, <1>7 DEF Next

\* Every step of the request path is a step of the direct call, or none.
LEMMA StepSimulates ==
  ASSUME Consistent, [Next]_vars
  PROVE  [Direct!Next]_(Direct!vars)
<1> USE NoneAssumption
<1>1. CASE Send
  BY <1>1 DEF Send, Direct!Next, Direct!Ask
<1>2. CASE Receive
  <2>1. /\ ask # None /\ calls = {} /\ status = None
        /\ UNCHANGED <<ask, http, verdict, reply>>
    BY <1>2 DEF Receive
  <2>2. ask \in Asks /\ http = requestConfig(ask)
    BY <2>1 DEF Consistent
  <2>3. reply # "rejected"
    BY <2>1 DEF Consistent
  <2>4. CASE UNCHANGED calls
    BY <2>1, <2>4 DEF Direct!vars
  <2>5. CASE \E c \in Routed(http), z \in Targets(http) :
               calls' = {[command |-> c, args |-> getCommandParams(c, http), zone |-> z]}
    <3>1. PICK c \in Routed(http), z \in Targets(http) :
            calls' = {[command |-> c, args |-> getCommandParams(c, http), zone |-> z]}
      BY <2>5
    <3> DEFINE k == [command |-> c, args |-> getCommandParams(c, http), zone |-> z]
    <3>2. Meant(ask, k)
      BY <2>2, CallMeant
    <3>3. calls' = {k}
      BY <3>1
    <3> HIDE DEF k
    <3>4. Direct!Perform
      BY <2>1, <2>3, <3>2, <3>3 DEF Direct!Perform
    <3>5. QED
      BY <3>4 DEF Direct!Next
  <2>6. QED
    BY ZenonT(40), <1>2, <2>4, <2>5 DEF Receive, Answer
<1>3. CASE CoreAnswers
  BY ZenonT(40), <1>3 DEF CoreAnswers, Direct!Next, Direct!Decide
<1>4. CASE FunctionAnswers
  BY <1>4 DEF FunctionAnswers, Direct!Next, Direct!Decide
<1>5. CASE Settle
  <2>1. /\ status # None /\ reply = None /\ reply' = Result(status)
        /\ UNCHANGED <<ask, calls, verdict>>
    BY <1>5 DEF Settle
  <2>2. ask # None /\ status \in FunctionStatuses
    BY ZenonT(40), <2>1 DEF Consistent
  <2>3. /\ calls # {} => verdict # None
        /\ calls = {} => status \in {401, 404, 500} /\ verdict = None
        /\ verdict = "done" => status \in {200, 204}
        /\ verdict = "refused" => status = 404
    BY ZenonT(60), <2>1 DEF Consistent
  <2>4. CASE status = 204
    BY <2>1, <2>2, <2>4 DEF Result, Direct!Next, Direct!Reply
  <2>5. CASE status \in {200, 202}
    <3>1. calls # {} /\ verdict # None /\ verdict # "refused"
      BY SMT, <2>3, <2>5
    <3>2. verdict \in {"done", "unknown"}
      BY <3>1 DEF Consistent
    <3>3. QED
      BY SMT, <2>1, <2>2, <2>5, <3>2 DEF Result, Direct!Next, Direct!Reply
  <2>6. CASE status \in FunctionStatuses \ {200, 202, 204}
    BY SMT, <2>1, <2>2, <2>3, <2>6 DEF FunctionStatuses, Result, Direct!Next, Direct!Reply
  <2>7. QED
    BY <2>2, <2>4, <2>5, <2>6
<1>6. CASE GiveUp
  BY <1>6 DEF GiveUp, Direct!Next, Direct!Reply
<1>7. CASE UNCHANGED vars
  BY <1>7 DEF vars, Direct!vars
<1>8. QED
  BY <1>1, <1>2, <1>3, <1>4, <1>5, <1>6, <1>7 DEF Next

\* What travels through the browser, the router and the middlewares is, for the
\* page, a direct call: the command the endpoint names, with the arguments the
\* caller meant, in the selected zone, at most once; a rejected request has not
\* been performed and never will be.
THEOREM PathImplementsDirectCall == Spec => DirectSpec
<1>1. Init => Direct!Init
  BY DEF Init, Direct!Init
<1>2. Spec => []Consistent
  BY ConsistentInit, ConsistentNext, PTL DEF Spec
<1>3. Consistent /\ [Next]_vars => [Direct!Next]_(Direct!vars)
  BY StepSimulates
<1>4. QED
  BY <1>1, <1>2, <1>3, PTL DEF Spec, DirectSpec, Direct!Spec

-----------------------------------------------------------------------------
(* A request finds its route. *)

\* The segments the browser builds for a path fit the segments of that path.
LEMMA SegmentReached ==
  ASSUME NEW p, NEW m, NEW isLast \in BOOLEAN,
         p.kind \in {"literal", "param", "optional"},
         p.kind = "param" => p.text \in DOMAIN m,
         p.kind = "optional" => p.text \in DOMAIN m \/ isLast
  PROVE  SegmentFits(p, Segment(p, m), isLast)
<1>1. CASE p.kind = "literal"
  BY <1>1 DEF SegmentFits, Segment
<1>2. CASE p.kind # "literal" /\ p.text \in DOMAIN m
  BY <1>2 DEF SegmentFits, Segment
<1>3. CASE p.kind = "optional" /\ isLast
  BY <1>3 DEF SegmentFits, Segment
<1>4. QED
  BY <1>1, <1>2, <1>3

\* A request with all the path parameters its command needs has a route.
LEMMA HasRoute ==
  ASSUME NEW a \in Asks, Endpoints[a.endpoint].listed,
         \A i \in DOMAIN CommandOf(Endpoints[a.endpoint]).path :
           CommandOf(Endpoints[a.endpoint]).path[i].kind = "param" =>
             CommandOf(Endpoints[a.endpoint]).path[i].text \in a.given
  PROVE  Routed(requestConfig(a)) # {}
<1> DEFINE C == CommandOf(Endpoints[a.endpoint])
           v == Extended(C, a.given)
           m == Mapped(C, {"resource"}, v, FALSE)
           h == requestConfig(a)
           Segments == [kind : {"literal", "param", "optional"}, text : STRING]
<1>1. a.endpoint \in DOMAIN Endpoints /\ a.given \in Givens(a.endpoint)
  BY SMT DEF Asks
<1>2. /\ C \in Commands /\ C.kind \in {"core", "function"}
      /\ C.path \in Seq(Segments)
      /\ \A i \in DOMAIN C.path :
           C.path[i].kind # "literal" => C.path[i].text \in NamesFrom(C, {"resource"})
      /\ \A i \in DOMAIN C.path \ {Len(C.path)} :
           C.path[i].kind = "optional" => C.path[i].text \in DOMAIN v
  BY <1>1, PathsAssumption
<1>3. h.method = C.method /\ h.path = [i \in DOMAIN C.path |-> Segment(C.path[i], m)]
  BY DEF requestConfig
<1>4. DOMAIN m = NamesFrom(C, {"resource"}) \cap DOMAIN v
  <2> HIDE DEF C, v
  <2>1. QED
    BY DEF Mapped
<1>5. a.given \subseteq DOMAIN v
  BY DEF Extended
<1>6. \A i \in DOMAIN C.path : SegmentFits(C.path[i], Segment(C.path[i], m), i = Len(C.path))
  <2> SUFFICES ASSUME NEW i \in DOMAIN C.path
               PROVE  SegmentFits(C.path[i], Segment(C.path[i], m), i = Len(C.path))
    OBVIOUS
  <2>1. C.path[i].kind \in {"literal", "param", "optional"}
    <3> HIDE DEF C, Segments
    <3>1. C.path[i] \in Segments
      BY SMT, <1>2
    <3>2. \A x \in Segments : x.kind \in {"literal", "param", "optional"}
      BY DEF Segments
    <3>3. QED
      BY <3>1, <3>2
  <2>2. C.path[i].kind = "param" => C.path[i].text \in DOMAIN m
    <3> HIDE DEF v, m
    <3>1. QED
      BY <1>2, <1>4, <1>5
  <2>3. C.path[i].kind = "optional" => C.path[i].text \in DOMAIN m \/ i = Len(C.path)
    <3> HIDE DEF C, v, m
    <3>1. QED
      BY <1>2, <1>4
  <2> HIDE DEF C, v, m
  <2>4. QED
    BY <2>1, <2>2, <2>3, SegmentReached
<1>7. DOMAIN h.path = DOMAIN C.path /\ Len(h.path) = Len(C.path) /\ Len(C.path) \in Nat
  <2> HIDE DEF C, h, m
  <2>1. DOMAIN C.path = 1..Len(C.path) /\ Len(C.path) \in Nat
    BY SMT, <1>2
  <2>2. h.path \in Seq({Segment(C.path[i], m) : i \in DOMAIN C.path})
    BY SMT, <1>3, <2>1
  <2>3. QED
    BY SMT, <1>3, <2>1, <2>2
<1>8. PathFits(C.path, h.path)
  <2> HIDE DEF C, h, m
  <2>1. \A i \in DOMAIN h.path : SegmentFits(C.path[i], h.path[i], i = Len(h.path))
    BY <1>3, <1>6, <1>7
  <2>2. QED
    BY SMT, <1>7, <2>1 DEF PathFits
<1>9. C \in Fitting(C.kind, h)
  <2> HIDE DEF C, h
  <2>1. QED
    BY <1>2, <1>3, <1>8 DEF Fitting
<1>10. QED
  <2> HIDE DEF C, h
  <2>1. Fitting("core", h) # {} \/ Fitting("function", h) # {}
    BY <1>2, <1>9
  <2>2. QED
    BY <2>1 DEF Routed, h

\* The state of a request between its steps: Consistent, the types, and why the
\* server answers 404 without a call.
PathInv == Consistent /\ TypeOK /\ (status = 404 /\ calls = {} => Routed(http) = {})

LEMMA PathInvInit == Init => PathInv
BY SMT, ConsistentInit, NoneAssumption DEF Init, PathInv, TypeOK, FunctionStatuses

LEMMA PathInvNext == PathInv /\ [Next]_vars => PathInv'
<1> SUFFICES ASSUME PathInv, [Next]_vars PROVE PathInv'
  OBVIOUS
<1>0. Consistent /\ Consistent'
  BY ConsistentNext DEF PathInv
<1> USE NoneAssumption
<1>1. CASE Send
  <2>1. PICK a \in Asks : ask' = a /\ http' = requestConfig(a)
    BY <1>1 DEF Send
  <2>2. UNCHANGED <<calls, verdict, status, reply>> /\ status = None /\ calls = {}
    BY ZenonT(40), <1>0, <1>1 DEF Send, Consistent
  <2>3. a.endpoint \in DOMAIN Endpoints /\ a.zone \in Zones
    BY ZenonT(60) DEF Asks
  <2>4. requestConfig(a).method \in {"GET", "POST", "PUT", "PATCH", "DELETE"}
    BY <2>3, PathsAssumption DEF requestConfig
  <2>5. a # None /\ requestConfig(a) # None
    OBVIOUS
  <2>6. (ask' = None) = (http' = None)
    BY <2>1, <2>5
  <2>7. TypeOK'
    BY <2>1, <2>2, <2>3, <2>4, <2>6 DEF TypeOK, PathInv
  <2>8. QED
    BY SMT, <1>0, <2>2, <2>7 DEF PathInv, FunctionStatuses
<1>2. CASE Receive
  <2>1. status = None /\ UNCHANGED <<ask, http, verdict, reply>>
    BY <1>2 DEF Receive
  <2>2. \A c \in calls' : DOMAIN c.args = DOMAIN c.command.params /\ c.zone \in KnownZones
    <3>1. CASE UNCHANGED calls
      BY <3>1 DEF PathInv, TypeOK
    <3>2. CASE \E c \in Routed(http), z \in Targets(http) \cap KnownZones :
                 calls' = {[command |-> c, args |-> getCommandParams(c, http), zone |-> z]}
      BY SMT, <3>2 DEF getCommandParams
    <3>3. QED
      BY <1>2, <3>1, <3>2 DEF Receive, Answer
  <2>3. TypeOK'
    BY SMT, <1>0, <2>1, <2>2 DEF PathInv, TypeOK, Consistent
  <2>4. status' = 404 => Routed(http') = {}
    BY SMT, <1>2, <2>1 DEF Receive, Answer, FunctionStatuses
  <2>5. QED
    BY <1>0, <2>3, <2>4 DEF PathInv
<1>3. CASE CoreAnswers \/ FunctionAnswers \/ Settle \/ GiveUp \/ UNCHANGED vars
  <2>1. UNCHANGED <<ask, http, calls>>
    BY <1>3 DEF CoreAnswers, FunctionAnswers, Settle, GiveUp, vars
  <2>2. status' # status => calls # {}
    BY <1>3 DEF CoreAnswers, FunctionAnswers, Settle, GiveUp, vars
  <2>3. verdict' \in {None, "done", "refused", "unknown"}
    BY <1>0 DEF Consistent
  <2>4. status' \in {None} \cup FunctionStatuses
    BY ZenonT(40), <1>0 DEF Consistent
  <2>5. reply' \in {None, "data", "empty", "rejected"}
    BY <1>3 DEF CoreAnswers, FunctionAnswers, Settle, GiveUp, vars, Result, PathInv, TypeOK
  <2>6. TypeOK'
    BY <2>1, <2>3, <2>4, <2>5 DEF PathInv, TypeOK
  <2>7. QED
    BY ZenonT(40), <1>0, <2>1, <2>2, <2>6 DEF PathInv
<1>4. QED
  BY <1>1, <1>2, <1>3 DEF Next

LEMMA PathInvariant == Spec => []PathInv
BY PathInvInit, PathInvNext, PTL DEF Spec

\* Every reachable state of a request is well typed: what is sent is a request
\* of the ask, and a call that is made has an argument for every parameter of
\* its command and goes to a zone the server knows.
THEOREM PathTypeOK == Spec => []TypeOK
<1>1. PathInv => TypeOK
  BY DEF PathInv
<1>2. QED
  BY <1>1, PathInvariant, PTL

\* Every request of a listed endpoint whose path parameters are all passed finds
\* a route: the router answers 404 to none of them.
THEOREM PathReached == Spec => []Reached
<1>1. PathInv => Reached
  <2> SUFFICES ASSUME PathInv, status = 404, calls = {}, Endpoints[ask.endpoint].listed
               PROVE  \E i \in DOMAIN CommandOf(Endpoints[ask.endpoint]).path :
                        /\ CommandOf(Endpoints[ask.endpoint]).path[i].kind = "param"
                        /\ CommandOf(Endpoints[ask.endpoint]).path[i].text \notin ask.given
    BY DEF Reached
  <2>1. Routed(http) = {}
    BY DEF PathInv
  <2>2. status # None
    <3>1. 404 \in FunctionStatuses
      BY SMT DEF FunctionStatuses
    <3>2. None \notin FunctionStatuses
      BY NoneAssumption
    <3>3. QED
      BY <3>1, <3>2
  <2>3. ask \in Asks /\ http = requestConfig(ask)
    BY <2>2 DEF PathInv, Consistent
  <2>4. QED
    BY <2>1, <2>3, HasRoute
<1>2. QED
  BY <1>1, PathInvariant, PTL

===================================================================================
