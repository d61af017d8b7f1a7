------------------------------ MODULE RequestPath ------------------------------
(***************************************************************************)
(* One request on its way through FireEdge: from an endpoint of the API    *)
(* slice in the browser, over HTTP, through the router of the server, to   *)
(* an XML-RPC call of the core (or a function of the server) and back.     *)
(*                                                                         *)
(*   Send             baseQuery and requestConfig build the HTTP request   *)
(*   Receive          the router matches it, the middlewares check the     *)
(*                    session and the zone, getCommandParams puts the      *)
(*                    arguments in order                                   *)
(*   CoreAnswers,     the core (or the function) answers and the answer    *)
(*   FunctionAnswers  becomes a status code                                *)
(*   Settle           the interceptor and baseQuery turn it into a result  *)
(*   GiveUp           the timeout of the HTTP client, or a lost connection *)
(*                                                                         *)
(* A value is represented by where it comes from: the caller's parameter   *)
(* (Given), the filter of the session (PoolFilter), the selected zone, or  *)
(* the default of the command.                                             *)
(***************************************************************************)
EXTENDS Integers, Sequences

CONSTANTS
  Commands,     \* the commands the server routes
  Endpoints,    \* the endpoints of the slice, a record by name
  Givens(_),    \* the sets of parameters pages pass to an endpoint
  Zones,        \* the zones a page can select
  KnownZones,   \* the zones the server is configured with
  DefaultZone,
  None

VARIABLES
  ask,      \* the endpoint used, the parameters passed, the selected zone
  http,     \* the HTTP request
  calls,    \* the calls the server makes for it
  verdict,  \* what becomes of the call
  status,   \* the status code the server answers with
  reply     \* the result of the endpoint's promise

vars == <<ask, http, calls, verdict, status, reply>>

-----------------------------------------------------------------------------
Given(n)   == [of |-> "caller", name |-> n]
PoolFilter == [of |-> "session", name |-> "filter"]
ZoneOf(z)  == [of |-> "zone", name |-> z]
Default    == [of |-> "default", name |-> ""]

ParamNames(c) == {c.params[i].name : i \in DOMAIN c.params}
NamesFrom(c, froms) ==
  {c.params[i].name : i \in {j \in DOMAIN c.params : c.params[j].from \in froms}}

\* The command record of an endpoint.  An endpoint whose module imports
\* another table finds nothing there, and is left with the bare name.
CommandOf(e) ==
  IF e.listed
    THEN CHOOSE c \in Commands : c.name = e.cmd
    ELSE [name |-> e.cmd, kind |-> "core", auth |-> TRUE, method |-> "GET",
          path |-> <<[kind |-> "literal", text |-> e.cmd[1]],
                     [kind |-> "literal", text |-> e.cmd[2]]>>,
          params |-> <<>>]

-----------------------------------------------------------------------------
(***************************************************************************)
(* The browser.                                                            *)
(***************************************************************************)

\* baseQuery adds the filter of the session where a command takes one.
Extended(c, given) ==
  [n \in given \cup (ParamNames(c) \cap {"filter"}) |->
     IF n \in given THEN Given(n) ELSE PoolFilter]

\* Of the parameters passed, only those the command lists are mapped.  The
\* selected zone travels in the query string, in place of a parameter of
\* that name, unless the caller passed one.
SendsZone(given, zone) == "zone" \notin given /\ zone # DefaultZone

Mapped(c, froms, values, sendsZone) ==
  LET names == NamesFrom(c, froms) \cap DOMAIN values
  IN  [n \in names \ (IF sendsZone THEN {"zone"} ELSE {}) |-> values[n]]

QueryString(c, values, sendsZone, zone) ==
  LET q == Mapped(c, {"query"}, values, sendsZone)
  IN  [n \in DOMAIN q \cup (IF sendsZone THEN {"zone"} ELSE {}) |->
         IF n \in DOMAIN q THEN q[n] ELSE ZoneOf(zone)]

\* Path parameters are replaced by their values, or by nothing.
Segment(p, values) ==
  IF p.kind = "literal" THEN [kind |-> "literal", text |-> p.text]
  ELSE IF p.text \in DOMAIN values THEN [kind |-> "value", value |-> values[p.text]]
  ELSE [kind |-> "empty"]

\* Browsers send no body with a GET request.
Body(c, values, sendsZone) ==
  Mapped(c, IF c.method = "GET" THEN {} ELSE {"postBody"}, values, sendsZone)

requestConfig(a) ==
  LET c == CommandOf(Endpoints[a.endpoint])
      values == Extended(c, a.given)
      sendsZone == SendsZone(a.given, a.zone)
  IN  [method |-> c.method,
       path   |-> [i \in DOMAIN c.path |->
                     Segment(c.path[i], Mapped(c, {"resource"}, values, FALSE))],
       query  |-> QueryString(c, values, sendsZone, a.zone),
       body   |-> Body(c, values, sendsZone)]

Asks == UNION {[endpoint : {e}, given : Givens(e), zone : Zones] :
                 e \in DOMAIN Endpoints}

Send ==
  /\ ask = None
  /\ \E a \in Asks : ask' = a /\ http' = requestConfig(a)
  /\ UNCHANGED <<calls, verdict, status, reply>>

-----------------------------------------------------------------------------
(***************************************************************************)
(* The server.                                                             *)
(***************************************************************************)

\* A segment against a segment of a route.  An optional parameter may be
\* missing at the end of the path.
SegmentFits(p, s, isLast) ==
  CASE p.kind = "literal"  -> s.kind = "literal" /\ s.text = p.text
    [] p.kind = "param"    -> s.kind # "empty"
    [] p.kind = "optional" -> s.kind # "empty" \/ isLast

PathFits(pattern, path) ==
  /\ Len(path) <= Len(pattern)
  /\ \A i \in DOMAIN path : SegmentFits(pattern[i], path[i], i = Len(path))
  /\ \A i \in DOMAIN pattern \ DOMAIN path : pattern[i].kind = "optional"

Fitting(kind, h) ==
  {c \in Commands :
     c.kind = kind /\ c.method = h.method /\ PathFits(c.path, h.path)}

\* Mutant: only the commands are registered.
RoutedCore(h) == Fitting("core", h)

\* The functions of the server are registered before the commands.
Routed(h) ==
  LET functions == Fitting("function", h)
  IN  IF functions # {} THEN functions ELSE Fitting("core", h)

\* What the router binds to a path parameter.
Bound(c, h) ==
  LET at(n) == {i \in DOMAIN c.path \cap DOMAIN h.path :
                  /\ c.path[i].kind # "literal" /\ c.path[i].text = n
                  /\ h.path[i].kind = "value"}
  IN  [n \in {m \in NamesFrom(c, {"resource"}) : at(m) # {}} |->
         h.path[CHOOSE i \in at(n) : TRUE].value]

\* Where the server looks for a parameter.
Source(c, h, from) ==
  CASE from = "resource" -> Bound(c, h)
    [] from = "query"    -> h.query
    [] OTHER             -> h.body

\* The arguments, in the order of the command's parameters.
getCommandParams(c, h) ==
  [i \in DOMAIN c.params |->
     LET p == c.params[i]
         source == Source(c, h, p.from)
     IN  IF p.name \in DOMAIN source THEN source[p.name] ELSE Default]

\* Mutant: the zone of the request is ignored.
TargetsDefault(h) == {DefaultZone}

\* A zone of the caller's own can be any.
Targets(h) ==
  IF "zone" \notin DOMAIN h.query THEN {DefaultZone}
  ELSE IF h.query["zone"].of = "zone" THEN {h.query["zone"].name}
  ELSE Zones

Answer(s) == status' = s /\ UNCHANGED calls

\* Mutant: the zone is not looked up.
ReceiveAnyZone ==
  /\ ask # None /\ calls = {} /\ status = None
  /\ LET routes == Routed(http)
     IN  \/ routes = {} /\ Answer(404)
         \/ (\E c \in routes : c.auth) /\ Answer(401)
         \/ \E c \in routes, z \in Targets(http) :
              /\ calls' = {[command |-> c, args |-> getCommandParams(c, http),
                            zone |-> z]}
              /\ UNCHANGED status
  /\ UNCHANGED <<ask, http, verdict, reply>>

\* No route; no session, or one that has expired; a zone the server does not
\* know; or the call.
Receive ==
  /\ ask # None /\ calls = {} /\ status = None
  /\ LET routes == Routed(http)
         zones  == Targets(http)
     IN  \/ routes = {} /\ Answer(404)
         \/ (\E c \in routes : c.auth) /\ Answer(401)
         \/ routes # {} /\ zones \ KnownZones # {} /\ Answer(500)
         \/ \E c \in routes, z \in zones \cap KnownZones :
              /\ calls' = {[command |-> c, args |-> getCommandParams(c, http),
                            zone |-> z]}
              /\ UNCHANGED status
  /\ UNCHANGED <<ask, http, verdict, reply>>

\* parseReturnWorker: a value is 200, the empty string 204, and a message
\* (a refusal, or a fault that carries one) 404.  A fault without a message
\* never reaches the callback.  When the core cannot be reached, or the
\* connection breaks, the answer stays 500.
CoreAnswers ==
  /\ verdict = None /\ \E c \in calls : c.command.kind = "core"
  /\ \/ verdict' = "done" /\ status' \in {200, 204}
     \/ verdict' = "refused" /\ status' = 404
     \/ verdict' = "refused" /\ status' = None
     \/ verdict' = "unknown" /\ status' = 500
  /\ UNCHANGED <<ask, http, calls, reply>>

\* The functions of the server make several calls each: their answers are
\* not interpreted here.
FunctionStatuses == {200, 202, 204, 400, 401, 404, 405, 409, 500, 503}

FunctionAnswers ==
  /\ verdict = None /\ \E c \in calls : c.command.kind = "function"
  /\ verdict' = "unknown"
  /\ status' \in FunctionStatuses
  /\ UNCHANGED <<ask, http, calls, reply>>

-----------------------------------------------------------------------------
(***************************************************************************)
(* Back in the browser.                                                    *)
(***************************************************************************)

\* The interceptor rejects a response without data, and one of 400 or more;
\* baseQuery turns the rejected 204 into a success without data.
Result(s) ==
  CASE s = 204 -> "empty"
    [] s < 400 /\ s # 204 -> "data"
    [] OTHER -> "rejected"

Settle ==
  /\ status # None /\ reply = None
  /\ reply' = Result(status)
  /\ UNCHANGED <<ask, http, calls, verdict, status>>

\* The interceptor returns the error of a timeout or a lost connection as if
\* it were a response: the promise is fulfilled, without data.
GiveUp ==
  /\ ask # None /\ reply = None
  /\ reply' = "empty"
  /\ UNCHANGED <<ask, http, calls, verdict, status>>

-----------------------------------------------------------------------------
Init ==
  /\ ask = None /\ http = None /\ calls = {}
  /\ verdict = None /\ status = None /\ reply = None

Next ==
  \/ Send
  \/ Receive \/ CoreAnswers \/ FunctionAnswers
  \/ Settle \/ GiveUp

Spec == Init /\ [][Next]_vars

-----------------------------------------------------------------------------
(***************************************************************************)
(* What the tables have to satisfy, which nothing in the program checks.   *)
(***************************************************************************)
ASSUME NoneAssumption ==
  /\ None \notin Asks /\ None \notin {requestConfig(a) : a \in Asks}
  /\ None \notin {"done", "refused", "unknown", "data", "empty", "rejected"}
  /\ None \notin FunctionStatuses

\* The parameters of an endpoint's command have places they can travel in.
ASSUME PlacesAssumption ==
  \A e \in DOMAIN Endpoints :
    LET c == CommandOf(Endpoints[e])
    IN  \A i \in DOMAIN c.params :
          /\ c.params[i].from \in {"resource", "query", "postBody"}
          /\ c.method = "GET" => c.params[i].from # "postBody"
          /\ c.params[i].from = "resource" =>
               \E j \in DOMAIN c.path :
                 c.path[j].kind # "literal" /\ c.path[j].text = c.params[i].name

\* The path of an endpoint's command can be walked: its parameters are listed,
\* and only the last of those that are optional may be left out by a page.
ASSUME PathsAssumption ==
  \A e \in DOMAIN Endpoints :
    LET c == CommandOf(Endpoints[e])
    IN  /\ c.method \in {"GET", "POST", "PUT", "PATCH", "DELETE"}
        /\ Endpoints[e].listed =>
             /\ c \in Commands /\ c.kind \in {"core", "function"}
             /\ c.path \in Seq([kind : {"literal", "param", "optional"}, text : STRING])
             /\ \A i \in DOMAIN c.path :
                  c.path[i].kind # "literal" => c.path[i].text \in NamesFrom(c, {"resource"})
             /\ \A i \in DOMAIN c.path \ {Len(c.path)} : \A g \in Givens(e) :
                  c.path[i].kind = "optional" => c.path[i].text \in DOMAIN Extended(c, g)

\* A request that is routed is routed to the command its endpoint names.
ASSUME RoutesAssumption ==
  \A e \in DOMAIN Endpoints : \A g \in Givens(e) :
    \A c \in Routed(requestConfig([endpoint |-> e, given |-> g, zone |-> DefaultZone])) :
      /\ c.name = Endpoints[e].cmd
      /\ Endpoints[e].listed => /\ c.params = CommandOf(Endpoints[e]).params
                                /\ c.path = CommandOf(Endpoints[e]).path

-----------------------------------------------------------------------------
\* The call an ask means: the command its endpoint names, with the values of
\* the caller for the parameters that command lists, and in the zone the
\* caller selected.  A zone that is itself an argument is left open.
Meant(a, c) ==
  LET e == Endpoints[a.endpoint]
      names == ParamNames(CommandOf(e))
  IN  /\ c.command.name = e.cmd
      /\ DOMAIN c.args = DOMAIN c.command.params
      /\ \A i \in DOMAIN c.args :
           LET n == c.command.params[i].name
           IN  n # "zone" =>
                 c.args[i] = IF n \notin names THEN Default
                             ELSE IF n \in a.given THEN Given(n)
                             ELSE IF n = "filter" THEN PoolFilter
                             ELSE Default
      /\ "zone" \notin a.given => c.zone = a.zone

\* The path of requests implements the direct call.
Direct == INSTANCE DirectCall WITH
            Asks <- Asks, Meant <- Meant, None <- None,
            ask <- ask, calls <- calls, verdict <- verdict, reply <- reply
DirectSpec == Direct!Spec

\* The type invariant.
TypeOK ==
  /\ ask # None => ask.endpoint \in DOMAIN Endpoints /\ ask.zone \in Zones
  /\ (ask = None) = (http = None)
  /\ http # None => http.method \in {"GET", "POST", "PUT", "PATCH", "DELETE"}
  /\ \A c \in calls :
       DOMAIN c.args = DOMAIN c.command.params /\ c.zone \in KnownZones
  /\ verdict \in {None, "done", "refused", "unknown"}
  /\ status \in {None} \cup FunctionStatuses
  /\ reply \in {None, "data", "empty", "rejected"}

\* Every request of an endpoint whose path parameters are all passed, and
\* whose command is in the table it was looked up in, finds a route.
Reached ==
  (status = 404 /\ calls = {}) =>
    LET e == Endpoints[ask.endpoint]
    IN  e.listed => \E i \in DOMAIN CommandOf(e).path :
                      /\ CommandOf(e).path[i].kind = "param"
                      /\ CommandOf(e).path[i].text \notin ask.given

=================================================================================
