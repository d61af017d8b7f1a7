----------------------------- MODULE MC_RequestPath -----------------------------
(***************************************************************************)
(* RequestPath with the tables of the program: every endpoint, every       *)
(* command and every route.                                                *)
(***************************************************************************)
EXTENDS RequestPath, OneApiEndpoints, ServerRoutes, SequencesExt

CONSTANTS z0, z1, z2

\* The path of a command: its name, and its path parameters, all optional.
CorePath(r, m, ps) ==
  <<L(r), L(m)>> \o
    SelectSeq([i \in DOMAIN ps |->
                 IF ps[i].from = "resource" THEN O(ps[i].name) ELSE L("")],
              LAMBDA p : p.kind = "optional")

Flat(t, Entry(_, _, _)) ==
  UNION {{Entry(r, m, t[r][m]) : m \in DOMAIN t[r]} : r \in DOMAIN t}

CoreCommand(r, m, c) ==
  [name |-> <<r, m>>, kind |-> "core", auth |-> TRUE, method |-> c.method,
   path |-> CorePath(r, m, c.params), params |-> c.params]
FunctionCommand(r, m, c) ==
  [name |-> <<r, m>>, kind |-> "function", auth |-> c.auth, method |-> c.method,
   path |-> c.path, params |-> c.params]

CommandSet ==
  UNION {Flat(CommandTables[i], CoreCommand) : i \in DOMAIN CommandTables}
  \cup UNION {Flat(RouteTables[i], FunctionCommand) : i \in DOMAIN RouteTables}
AllCommands == CommandSet

EndpointTable == FoldLeft(@@, EndpointTables[1], Tail(EndpointTables))
AllEndpoints == EndpointTable

\* Pages pass everything an endpoint knows of, all of it but the filter or the
\* zone, or the id alone.
SomeGivens ==
  [e \in DOMAIN AllEndpoints |->
     LET cs == {c \in AllCommands : c.name = AllEndpoints[e].cmd}
         all == AllEndpoints[e].sends
                  \cup UNION {{c.params[i].name : i \in DOMAIN c.params} : c \in cs}
     IN  {all, all \ {"filter"}, all \ {"zone"}, all \cap {"id"}}]
GivensOf(e) == SomeGivens[e]

AllZones == {z0, z1, z2}
SomeZones == {z0, z1}

=================================================================================
