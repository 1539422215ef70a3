---------------------------- MODULE MCGatekeeper ----------------------------
(* The way of a request to its handler, in three small instances that run   *)
(* one beside the other: the wire it comes in on, the route it takes, and   *)
(* those who keep the gate. One of them moves in a behaviour.               *)
EXTENDS Gatekeeper, HttpWire, Routing, TLC
CONSTANTS b1, b2, clerk, editor, chief

VARIABLE part

(* The gate: sessions with and without the guard against forged forms; JWT  *)
(* with the administration interface, whose sessions share the store.       *)
AllModes == {[jwt |-> FALSE, csrf |-> TRUE, fixed |-> FALSE, admin |-> FALSE],
             [jwt |-> FALSE, csrf |-> FALSE, fixed |-> TRUE, admin |-> FALSE],
             [jwt |-> TRUE, csrf |-> FALSE, fixed |-> TRUE, admin |-> TRUE]}
VisitsOf == [b \in Ips |-> IF b = b2 THEN {"page"} ELSE Paths]

(* The wire: three requests each, with and without a body.                  *)
Sized(head, body, close, expect) == [head |-> head, body |-> body, close |-> close, expect |-> expect]
Scripts == {<<Sized(2, 2, FALSE, FALSE), Sized(1, 1, FALSE, TRUE), Sized(1, 0, TRUE, FALSE)>>,
            <<Sized(1, 0, FALSE, FALSE), Sized(1, 3, FALSE, FALSE), Sized(1, 1, FALSE, FALSE)>>}
NoWire == WireInit(<< >>, TRUE)

(* The routes: tables of four whose paths overlap in every way; a route     *)
(* with roles and capabilities for every small graph of inheritance, with   *)
(* its cycles; and the tables of the framework beside one of their own.     *)
AllMethods == {"GET", "POST", "DELETE", "PATCH"}
AllRoles == {clerk, editor, chief, SuperAdmin}
Sets == INSTANCE FiniteSetsExt
S(name) == Static(name)
P(name) == Par(name)
Route(path, method, handler) == Plain(path, method, <<handler>>)
Loose == [r \in Roles |-> << >>]
NoRoutes == RoutingInit(<< >>, Loose, << >>)

Overlapping ==
  {Route(way[1], "GET", way[2]) :
     way \in {<<<< >>, "root">>, <<<<P("id")>>, "one">>, <<<<S("a")>>, "a">>, <<<<S("a"), P("x")>>, "a of x">>,
              <<<<P("p"), S("a")>>, "a of p">>, <<<<P("p"), P("p")>>, "two">>}}
  \cup {Standalone(Route(<<P("n")>>, <<"POST", "GET">>, "posted")),
        Route(<<P("n")>>, "GET", "again")}
Tables == {<<T, {late}>> : T \in {T \in SUBSET Overlapping : Cardinality(T) = 2}, late \in Overlapping}
Declared == <<[status |-> 404, handler |-> "first"], [status |-> 403, handler |-> "other"], [status |-> 404, handler |-> "last"]>>
Asked == [method : {"GET", "POST"}, path : UNION {[1..n -> {S("a"), S("b"), P("id")}] : n \in 0..2}, role : {NoRole}]

Guarded(role, caps) ==
  <<{Controller(<<S("guarded")>>, [path |-> << >>, method |-> <<"POST", "GET">>, handler |-> <<"g">>,
                                       role |-> role, caps |-> caps])}>>
Graphs == {[r \in Roles |-> IF r \in DOMAIN g THEN g[r] ELSE << >>] :
             g \in [{clerk, editor, chief} -> {<< >>, <<clerk>>, <<editor>>, <<chief>>, <<editor, chief>>, <<chief, editor>>}]}
Capabilities == {<< >>, << <<editor>> >>, << <<chief, editor>>, <<clerk>> >>}
Knocks == [method : {"GET"}, path : {<<S("guarded")>>}, role : {NoRole, SuperAdmin, clerk, editor}]

InSomeOrder(routes) == Sets!FoldSet(LAMBDA route, phases : Append(phases, {route}), << >>, routes)
File(name, bracketed, underscored) == [name |-> name, bracketed |-> bracketed, underscored |-> underscored]
Pages == {Route(PagePath(<<File("blog", FALSE, FALSE), File("slug", TRUE, FALSE)>>), "GET", "blog"),
          Route(PagePath(<<File("index", FALSE, FALSE)>>), "GET", "home")}
Framework(slug) ==
  <<Pages>> \o InSomeOrder(AdminTable(slug) \cup AdminActions(slug)) \o InSomeOrder(AdminPages \cup AdminGraphs)
  \o InSomeOrder(SwaggerRoutes)
  \o InSomeOrder(McpRoutes("mcp")) \o <<{Route(<<S("admin"), P("kind"), P("key")>>, "GET", "own")}>>
Tour == [method : {"GET", "POST"}, role : {NoRole},
         path : {<< >>, <<S("mcp")>>, <<S("blog"), S("x")>>, <<S("blog"), S("x"), S("y")>>}
                \cup {<<S("admin"), S(s)>> \o t : s \in {"login", "api"},
                        t \in {<< >>, <<S("search")>>, <<S("7")>>, <<S("delete")>>, <<S("action"), S("7")>>}}]

Idle == part # "gate" /\ Init /\ mode = CHOOSE m \in Modes : TRUE
Starts ==
  \/ part = "gate" /\ Init /\ NoWire /\ NoRoutes
  \/ /\ part = "wire" /\ Idle /\ NoRoutes
     /\ \E script \in Scripts, polite \in BOOLEAN : WireInit(script, polite)
  \/ part = "table" /\ Idle /\ NoWire /\ \E t \in Tables : RoutingInit(t, Loose, Declared)
  \/ /\ part = "roles" /\ Idle /\ NoWire
     /\ \E g \in Graphs, role \in {NoRole, editor, chief}, caps \in Capabilities :
          RoutingInit(Guarded(role, caps), g, << >>)
  \/ part = "framework" /\ Idle /\ NoWire /\ RoutingInit(Framework("login"), Loose, << >>)

Moves ==
  /\ UNCHANGED part
  /\ \/ part = "gate" /\ Next /\ UNCHANGED <<wire, routing>>
     \/ part = "wire" /\ WireNext /\ UNCHANGED <<vars, routing>>
     \/ part = "table" /\ RoutingNext(Asked) /\ UNCHANGED <<vars, wire>>
     \/ part = "roles" /\ RoutingNext(Knocks) /\ UNCHANGED <<vars, wire>>
     \/ part = "framework" /\ RoutingNext(Tour) /\ UNCHANGED <<vars, wire>>

Run == Starts /\ [][Moves]_<<vars, part, wire, routing>>
=============================================================================
