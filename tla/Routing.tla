------------------------------- MODULE Routing -------------------------------
(***************************************************************************)
(* Router (src/src/http/router.cpp).  A path is the sequence of what       *)
(* stands between its slashes, empty parts included: "/health" is          *)
(* <<"", "health">>, "/health/" is <<"", "health", "">>.  Static routes    *)
(* are looked up by the text, dynamic ones by the non-empty parts, so the  *)
(* two kinds disagree about "/health/".                                    *)
(***************************************************************************)
EXTENDS Naturals, Sequences, FiniteSetsExt

CONSTANTS Routes,   \* the registered routes, in order: records [method, path]
          Params    \* the parts that start with a colon

IsPath(path) == Len(path) \in Nat /\ DOMAIN path = 1..Len(path)

ASSUME RoutingAssumption ==
    /\ Len(Routes) \in Nat /\ DOMAIN Routes = 1..Len(Routes)
    /\ \A i \in DOMAIN Routes :
          /\ Routes[i].method \in {"GET", "POST", "PUT", "DELETE"}
          /\ IsPath(Routes[i].path)
          /\ Routes[i] = [method |-> Routes[i].method, path |-> Routes[i].path]

\* The non-empty parts in their order: the n-th is the one with n of them up to it.
SplitPath(path) ==
    LET kept == {i \in DOMAIN path : path[i] # ""}
        UpTo(i) == {j \in kept : j <= i}
    IN  [n \in 1..Cardinality(kept) |-> path[CHOOSE i \in kept : Cardinality(UpTo(i)) = n]]

IsDynamicPattern(path) == \E i \in DOMAIN path : path[i] \in Params

\* Seeded fault: the path may be longer than the pattern.
MatchPrefix(pattern, path) ==
    LET want == SplitPath(pattern) have == SplitPath(path)
    IN  /\ Len(want) <= Len(have)
        /\ \A i \in DOMAIN want : want[i] \in Params \/ want[i] = have[i]
\* The parts agree one by one, a parameter with anything.
MatchPath(pattern, path) ==
    LET want == SplitPath(pattern) have == SplitPath(path)
    IN  /\ Len(want) = Len(have)
        /\ \A i \in DOMAIN want : want[i] \in Params \/ want[i] = have[i]

\* RegisterRoute: a second static registration replaces the first.
MatchStatic(method, path) ==
    {i \in DOMAIN Routes : /\ Routes[i] = [method |-> method, path |-> path]
                           /\ ~IsDynamicPattern(Routes[i].path)}

MatchDynamic(method, path) ==
    {i \in DOMAIN Routes : /\ Routes[i].method = method
                           /\ IsDynamicPattern(Routes[i].path)
                           /\ MatchPath(Routes[i].path, path)}

\* path_methods_, which TrackPath fills for static paths only.
AllowedMethods(path) ==
    {Routes[i].method : i \in {j \in DOMAIN Routes : /\ Routes[j].path = path
                                                     /\ ~IsDynamicPattern(path)}}

\* The route that answers, or the refusal.
Route(method, path) ==
    LET static == MatchStatic(method, path)
        dynamic == MatchDynamic(method, path)
        allow == AllowedMethods(path)
    IN  CASE static # {} -> [code |-> 200, route |-> Max(static), allow |-> {}]
          [] static = {} /\ dynamic # {} -> [code |-> 200, route |-> Min(dynamic), allow |-> {}]
          [] static = {} /\ dynamic = {} /\ allow # {} -> [code |-> 405, route |-> 0, allow |-> allow]
          [] OTHER -> [code |-> 404, route |-> 0, allow |-> {}]
=============================================================================
