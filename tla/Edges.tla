-------------------------------- MODULE Edges --------------------------------
(***************************************************************************)
(* The two edges of the program: its connections to clients, and its calls *)
(* to providers through the gateway or the model router.  They share no    *)
(* state (each of the router's providers has a gateway of its own), so one *)
(* behaviour exercises one of them, as in Services.                        *)
(***************************************************************************)
EXTENDS HttpConnection, AiGateway, ModelRouter

VARIABLE exercised   \* the edge that this behaviour is about

connectionVars == vars
edgesVars == <<exercised, connectionVars, gatewayVars, routerVars>>

InitEdges ==
    /\ exercised \in {"connection", "gateway", "router"}
    /\ Init /\ InitGateway /\ InitRouter

NextEdges ==
    /\ UNCHANGED exercised
    /\ \/ exercised = "connection" /\ Next /\ UNCHANGED <<gatewayVars, routerVars>>
       \/ exercised = "gateway" /\ NextGateway /\ UNCHANGED <<connectionVars, routerVars>>
       \/ exercised = "router" /\ NextRouter /\ UNCHANGED <<connectionVars, gatewayVars>>

\* The fairness of FairSpec and FairRouterSpec, where that edge is exercised.
EdgesFairness ==
    /\ \A a \in Addresses :
          /\ WF_vars(exercised = "connection" /\ Receive(a))
          /\ \A q \in Requests : WF_vars(exercised = "connection" /\ EndStream(a, q))
    /\ \A t \in Threads : WF_routerVars(exercised = "router" /\ Progress(t))
    /\ WF_routerVars(exercised = "router" /\ SecondPasses)

EdgesSpec == InitEdges /\ [][NextEdges]_edgesVars /\ EdgesFairness
=============================================================================
