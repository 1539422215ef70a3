------------------------------- MODULE Routing -------------------------------
(***************************************************************************)
(* The router: how routes are entered into the trie while the application  *)
(* boots, how a request finds its target, and who may go through           *)
(* (src/src/routing/engine/builder/registerer.rs, matcher.rs, router.rs,   *)
(* admin.rs, mcp.rs, fs.rs, context.rs, security/errors.rs and the macros  *)
(* controller.rs and catch.rs). A segment of a path is [par, name]: ":id"  *)
(* is [par |-> TRUE, name |-> "id"], and a request may hold it as well.    *)
(***************************************************************************)
EXTENDS Integers, Sequences, FiniteSets
CONSTANTS Methods, Roles, NoRole, SuperAdmin

(* A route: path, method, handler, role (NoRole for none), caps: the roles   *)
(* that each of its capabilities allows.                                     *)
VARIABLE routing
(* pending: the phases of the boot to come, each a set of routes. children: *)
(* the nodes of the trie as sequences of keys. targets: node and method to  *)
(* RouteTarget. registered: the routes in the order of add_route. inherits: *)
(* role_inheritance. catches: status to #[catch] handler. answer: what      *)
(* became of the request.                                                   *)
NoAnswer == [kind |-> "none"]

(* The handlers declared as #[catch(status = ...)] register themselves      *)
(* before main; of two for one status the later stays.                      *)
LastOf(places) == CHOOSE k \in places : \A j \in places : j <= k
Catches(declared) ==
  [status \in {declared[k].status : k \in DOMAIN declared} |->
     declared[LastOf({k \in DOMAIN declared : declared[k].status = status})].handler]

RoutingInit(phases, inherits, declared) ==
  routing = [pending |-> phases, children |-> {<< >>}, targets |-> [x \in {} |-> x], registered |-> << >>,
             inherits |-> inherits, catches |-> Catches(declared), answer |-> NoAnswer]
-----------------------------------------------------------------------------
(***************************************************************************)
(* Registration                                                            *)
(***************************************************************************)
Static(name) == [par |-> FALSE, name |-> name]
Par(name) == [par |-> TRUE, name |-> name]

(* Mutation of SameBranch: every parameter has a branch of its own.         *)
BranchOfItsOwn(key, segment) == key = segment

(* A parameter takes the branch that is there, whatever its name.           *)
SameBranch(key, segment) == IF segment.par THEN key.par ELSE key = segment
Twins(node, path) == Len(node) = Len(path) /\ \A i \in DOMAIN path : SameBranch(node[i], path[i])

Upto(path, n) == SubSeq(path, 1, n)
Beginnings(path) == {Upto(path, n) : n \in 0..Len(path)}

(* The names of the parameters, at the depths where they stand.             *)
Names(path) == [i \in {i \in DOMAIN path : path[i].par} |-> path[i].name]
TargetOf(route) ==
  [handler |-> route.handler, role |-> route.role, caps |-> route.caps, names |-> Names(route.path)]

(* As far as the trie knows the path it is followed; what is left of it     *)
(* grows out of the node that it leads to.                                  *)
AddRoute(route) ==
  LET known == {n \in routing.children : \E start \in Beginnings(route.path) : Twins(n, start)}
      trunk == CHOOSE n \in known : \A o \in known : Len(o) <= Len(n)
      node == trunk \o SubSeq(route.path, Len(trunk) + 1, Len(route.path))
      place == <<node, route.method>>
      phase == Head(routing.pending)
  IN routing' = [routing EXCEPT
       !.children = @ \cup Beginnings(node),
       !.targets = [p \in DOMAIN @ \cup {place} |-> IF p = place THEN TargetOf(route) ELSE @[p]],
       !.registered = Append(@, route),
       !.pending = (IF phase = {route} THEN << >> ELSE <<phase \ {route}>>) \o Tail(@)]

(* The next route of the phase; those that the linker collects, and those of *)
(* the admin tables, come in any order, and the ones of .route one by one.   *)
Register == routing.pending # << >> /\ \E route \in Head(routing.pending) : AddRoute(route)

(* What the macros and the crawler make of a declaration: the path of a      *)
(* controller is put before the one of its method, and the last of several   *)
(* method attributes counts. A page file is named by its path without the    *)
(* extension; "[name]" and "[..name]" become parameters called "*name", and  *)
(* so does what follows a "_" wherever it stands.                            *)
Controller(base, declared) ==
  [declared EXCEPT !.path = base \o declared.path, !.method = declared.method[Len(declared.method)]]
Standalone(declared) == [declared EXCEPT !.method = declared.method[1]]
PagePath(file) ==
  LET Segment(s) == IF s.bracketed \/ s.underscored THEN Par("*" \o s.name) ELSE Static(s.name)
      path == IF file[Len(file)] = [name |-> "index", bracketed |-> FALSE, underscored |-> FALSE]
              THEN SubSeq(file, 1, Len(file) - 1) ELSE file
  IN [i \in DOMAIN path |-> Segment(path[i])]

(* register_admin_routes, for one table and for one that has actions, and    *)
(* register_mcp_routes under the prefix.                                     *)
Plain(path, method, handler) ==
  [path |-> path, method |-> method, handler |-> handler, role |-> NoRole, caps |-> << >>]
AdminTable(slug) ==
  LET r == <<Static("admin"), Static(slug)>>
      Sub(name, method) == Plain(Append(r, Static(name)), method, <<slug, name>>)
  IN {Plain(r, "GET", <<slug, "list">>), Plain(Append(r, Par("id")), "GET", <<slug, "detail">>)}
     \cup {Sub(name, "GET") : name \in {"search", "query-explorer", "export", "bulk-create-modal"}}
     \cup {Sub(name, "POST") : name \in {"bulk-delete", "bulk-create"}}
     \cup {Sub("delete", "DELETE"), Sub("update-cell", "PATCH")}
AdminActions(slug) ==
  {Plain(<<Static("admin"), Static(slug), Static(kind), Par("action_name")>>, "POST", <<slug, kind>>)
     : kind \in {"action", "bulk-action"}}
(* The pages of the panel, those of the graphs it draws, and the            *)
(* documentation of register_swagger_routes.                                *)
AdminPages ==
  {Plain(<<Static("admin"), Static(name)>>, "GET", <<"admin", name>>)
     : name \in {"dashboard", "metrics", "login", "mcp"}}
  \cup {Plain(<<Static("admin"), Static("api"), Static(name)>>, "GET", <<"api", name>>)
     : name \in {"search-palette", "metrics", "mcp", "logout"}}
  \cup {Plain(<<Static("admin"), Static("api"), Static(name)>>, "POST", <<"api", name>>)
     : name \in {"create-table", "login"}}
  \cup {Plain(<<Static("admin"), Static("api"), Static("alter-table"), Par("table_slug"), Static("add-column")>>,
              "POST", <<"api", "add-column">>),
        Plain(<<Static("admin"), Static("mcp"), Static("api"), Static("toggle")>>, "POST", <<"mcp", "toggle">>),
        Plain(<<Static("admin"), Static("settings"), Static("security")>>, "GET", <<"settings", "security">>)}
AdminGraphs ==
  {Plain(<<Static("admin"), Static("rbac-matrix")>>, "GET", <<"admin", "rbac-matrix">>)}
  \cup {Plain(<<Static("admin"), Static(kind), Static("topology")>>, "GET", <<kind, "topology">>) : kind \in {"di", "jobs"}}
SwaggerRoutes ==
  {Plain(<<Static("admin"), Static("docs")>> \o rest, "GET", <<"docs">> \o rest) : rest \in {<< >>, <<Static("openapi.json")>>}}
McpRoutes(prefix) ==
  {Plain(<<Static(prefix)>>, call[1], <<"mcp", call[2]>>)
     : call \in {<<"POST", "streamable">>, <<"GET", "info">>, <<"DELETE", "terminate">>}}
  \cup {Plain(<<Static(prefix), Static(call[2])>>, call[1], <<"mcp", call[2]>>)
     : call \in {<<"GET", "sse">>, <<"POST", "message">>}}
-----------------------------------------------------------------------------
(***************************************************************************)
(* Roles                                                                   *)
(***************************************************************************)
(* check_inheritance: a depth-first search that keeps no record of where it *)
(* has been. A climb deeper than there are roles has come round a cycle and *)
(* will not return: the stack overflows and the process dies.               *)
First(said) ==
  LET heard == {i \in DOMAIN said : said[i] # "no"} IN
  IF heard = {} THEN "no" ELSE said[CHOOSE i \in heard : \A j \in heard : i <= j]
Climb(inherits, target, below) ==
  [r \in Roles |->
     IF r = target THEN "yes"
     ELSE First([i \in DOMAIN inherits[r] |-> IF inherits[r][i] = target THEN "yes" ELSE below[inherits[r][i]]])]
CheckInheritance(inherits, role, target) ==
  LET climbed[d \in 0..Cardinality(Roles)] ==
        IF d = 0 THEN [r \in Roles |-> IF r = target THEN "yes" ELSE "overflow"]
        ELSE Climb(inherits, target, climbed[d - 1])
  IN climbed[Cardinality(Roles)][role]

(* Mutation of HasRole: only what a role itself inherits is asked.          *)
HasRoleDirect(inherits, role, target) ==
  IF role = NoRole THEN "no"
  ELSE IF role \in {target, SuperAdmin} \/ \E i \in DOMAIN inherits[role] : inherits[role][i] = target
  THEN "yes" ELSE "no"

HasRole(inherits, role, target) ==
  IF role = NoRole THEN "no"
  ELSE LET inherited == CheckInheritance(inherits, role, target) IN
       IF inherited = "no" /\ role = SuperAdmin THEN "yes" ELSE inherited

(* The checks of the generated wrapper: the roles of one capability after    *)
(* the other, the first that is held ends the search in its own capability.  *)
OneOf(inherits, role, allowed) == First([i \in DOMAIN allowed |-> HasRole(inherits, role, allowed[i])])
Authorized(inherits, role, caps) ==
  LET held == {OneOf(inherits, role, caps[i]) : i \in DOMAIN caps}
  IN IF "overflow" \in held THEN "overflow" ELSE IF caps = << >> \/ "yes" \in held THEN "yes" ELSE "no"
-----------------------------------------------------------------------------
(***************************************************************************)
(* A request                                                               *)
(***************************************************************************)
(* match_route: at every node a child that is called like the segment comes  *)
(* first, and what is below the other is not tried.                          *)
Leads(node, path) ==
  /\ Len(node) = Len(path)
  /\ \A i \in DOMAIN path :
       IF Append(Upto(node, i - 1), path[i]) \in routing.children THEN node[i] = path[i] ELSE node[i].par

(* The values that were captured on the way meet the names of the target,   *)
(* the first the first; of two parameters of one name the last stays.       *)
Rank(places, i) == Cardinality({j \in places : j <= i})
Zipped(names, captured, path) ==
  LET pairs == {p \in (DOMAIN names) \X captured : Rank(DOMAIN names, p[1]) = Rank(captured, p[2])} IN
  {<<names[p[1]], path[p[2]]>> : p \in {p \in pairs : \A q \in pairs : names[q[1]] = names[p[1]] => q[1] <= p[1]}}

MatchRoute(method, path) ==
  LET ends == {n \in routing.children : Leads(n, path)}
      node == CHOOSE n \in ends : TRUE
      given == {m \in Methods : <<node, m>> \in DOMAIN routing.targets}
      target == routing.targets[<<node, method>>]
  IN IF ends = {} \/ given = {} THEN [kind |-> "NotFound"]
     ELSE IF method \notin given THEN [kind |-> "MethodNotAllowed"]
     ELSE [kind |-> "Found", target |-> target,
           params |-> Zipped(target.names, {i \in DOMAIN path : node[i] # path[i]}, path)]

(* default_framework_error_handler: the #[catch] handler of the status, or   *)
(* the page of the framework.                                                *)
ErrorPage(status) == [kind |-> "page", status |-> status]
ErrorAnswer(status) ==
  IF status \in DOMAIN routing.catches THEN [kind |-> "caught", status |-> status, by |-> routing.catches[status]]
  ELSE ErrorPage(status)

Call(target, role) ==
  LET role_check == IF target.role = NoRole THEN "yes" ELSE HasRole(routing.inherits, role, target.role)
      cap_check == Authorized(routing.inherits, role, target.caps)
  IN CASE role_check = "overflow" -> "overflow" [] role_check = "no" -> "forbidden"
       [] role_check = "yes" -> CASE cap_check = "overflow" -> "overflow" [] cap_check = "no" -> "forbidden"
                                  [] cap_check = "yes" -> "called"

Outcome(request) ==
  LET result == MatchRoute(request.method, request.path) IN
  CASE result.kind = "NotFound" -> ErrorAnswer(404)
    [] result.kind = "MethodNotAllowed" -> ErrorAnswer(405)
    [] result.kind = "Found" -> [kind |-> Call(result.target, request.role),
                                 handler |-> result.target.handler, params |-> result.params]

(* A request once the server runs.                                          *)
Serve(request) ==
  /\ routing.pending = << >> /\ routing.answer = NoAnswer
  /\ routing' = [routing EXCEPT !.answer = [request |-> request, result |-> Outcome(request)]]
RoutingNext(requests) == Register \/ \E request \in requests : Serve(request)
RoutingSpec(phases, inherits, declared, requests) ==
  RoutingInit(phases, inherits, declared) /\ [][RoutingNext(requests)]_routing
-----------------------------------------------------------------------------
Settled == routing.answer # NoAnswer
Reply == routing.answer.result
Request == routing.answer.request
Reached == Settled /\ Reply.kind \in {"called", "forbidden", "overflow"}

(* What the docs promise of a table of routes, without a trie: a route fits  *)
(* a path of its length whose fixed segments are its own, and is shadowed by *)
(* one that goes the same way up to a segment that is fixed there and a      *)
(* parameter here; the last one of a shape and a method replaces the others. *)
Fits(route, path) ==
  /\ Len(route.path) = Len(path)
  /\ \A i \in DOMAIN path : route.path[i].par \/ route.path[i] = path[i]
Agree(one, other, n) ==
  \A i \in 1..n : one.path[i].par = other.path[i].par /\ (one.path[i].par \/ one.path[i] = other.path[i])
Shadowed(route, path) ==
  \E k \in DOMAIN routing.registered : LET other == routing.registered[k] IN
    \E i \in DOMAIN path :
      /\ Len(other.path) >= i /\ Agree(route, other, i - 1)
      /\ route.path[i].par /\ other.path[i] = path[i]
Candidates(path) ==
  {k \in DOMAIN routing.registered :
     Fits(routing.registered[k], path) /\ ~ Shadowed(routing.registered[k], path)}

(* A parameter's value is the segment at its place; of two of one name the  *)
(* last counts.                                                             *)
Bound(route, path) ==
  {<<route.path[i].name, path[i]>> :
     i \in {i \in DOMAIN route.path :
            route.path[i].par /\ \A j \in DOMAIN route.path : route.path[j] = route.path[i] => j <= i}}

(* A request is answered by the last route registered for its method among   *)
(* those that fit its path and are not shadowed, with the parameters under   *)
(* that route's own names, whatever other routes were entered before or      *)
(* after; with 405 if only other methods are; with 404 if there is none; and *)
(* the latter two by the #[catch] handler declared for the status, if any.   *)
MatchIsPriority ==
  Settled /\ (\A i \in DOMAIN Request.path : ~ Request.path[i].par) =>
    LET fit == Candidates(Request.path)
        mine == {k \in fit : routing.registered[k].method = Request.method}
        route == routing.registered[LastOf(mine)]
        IsError(status) ==
          /\ Reply.kind \in {"caught", "page"} /\ Reply.status = status
          /\ Reply.kind = "caught" <=> status \in DOMAIN routing.catches
    IN CASE fit = {} -> IsError(404)
         [] fit # {} /\ mine = {} -> IsError(405)
         [] mine # {} -> /\ Reached
                         /\ Reply.handler = route.handler
                         /\ Reply.params = Bound(route, Request.path)

(* The roles that one reaches in the graph of role_inheritance: those in    *)
(* every set that holds it and all that its members inherit.                *)
Closed(C) == \A r \in C : \A i \in DOMAIN routing.inherits[r] : routing.inherits[r][i] \in C
Reach(role) == {r \in Roles : \A C \in SUBSET Roles : role \in C /\ Closed(C) => r \in C}
Acyclic == \A r \in Roles : \A i \in DOMAIN routing.inherits[r] : r \notin Reach(routing.inherits[r][i])
Holds(role, wanted) == role # NoRole /\ (role = SuperAdmin \/ wanted \in Reach(role))
MayCall(role, target) ==
  /\ target.role = NoRole \/ Holds(role, target.role)
  /\ target.caps = << >> \/ \E i \in DOMAIN target.caps : \E j \in DOMAIN target.caps[i] : Holds(role, target.caps[i][j])

(* A handler runs exactly for those whose role is, or inherits along any     *)
(* path, the role of the route and one that some capability of it allows;    *)
(* the search ends for every graph without a cycle, and whatever the graph   *)
(* it lets nobody through who may not.                                       *)
RolesFollowTree ==
  Reached =>
    LET found == MatchRoute(Request.method, Request.path) IN
    /\ Reply.kind = "called" => MayCall(Request.role, found.target)
    /\ Reply.kind = "forbidden" => ~ MayCall(Request.role, found.target)
    /\ Acyclic => Reply.kind # "overflow"

(* A request reaches the handler that the table of routes promises, and     *)
(* runs it if and only if the tree of roles lets it.                        *)
RoutesAreRight == MatchIsPriority /\ RolesFollowTree
=============================================================================
