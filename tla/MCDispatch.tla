------------------------------ MODULE MCDispatch ------------------------------
(***************************************************************************)
(* Requests on two IO threads, for TLC: routes like those of main.cpp, and *)
(* requests that meet every branch of the chain.                           *)
(***************************************************************************)
EXTENDS Dispatch

CONSTANTS t1, t2, u1,          \* threads and a user
          id                   \* a path parameter

R(m, p) == [method |-> m, path |-> p]
MCRoutes == <<R("GET", <<"">>), R("GET", <<"", "health">>), R("PUT", <<"", "users", id>>),
              R("POST", <<"", "echo">>), R("GET", <<"", "crash">>), R("POST", <<"", "login">>),
              R("POST", <<"", "logout">>), R("GET", <<"", id>>)>>
Q(m, p, tok) == [method |-> m, path |-> p, token |-> tok]
MCLogin == <<"", "login">>
MCLogout == <<"", "logout">>
MCCrash == <<"", "crash">>
MCRequests ==
    [t \in {t1, t2} |->
        IF t = t1 THEN {Q("POST", MCLogin, TRUE), Q("POST", MCLogout, TRUE)}
        ELSE {Q("POST", MCLogin, FALSE), Q("OPTIONS", <<"", "health">>, FALSE),
              Q("GET", <<"">>, FALSE), Q("POST", <<"", "health">>, TRUE),
              Q("GET", <<"", "echo">>, TRUE), Q("PUT", <<"", "users", "7", "x">>, TRUE),
              Q("GET", MCCrash, TRUE), Q("GET", <<"", "health", "">>, TRUE)}]
MCPublic == {<<"">>}

===============================================================================
