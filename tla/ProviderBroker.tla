--------------------------- MODULE ProviderBroker ---------------------------
(***************************************************************************)
(* The provider broker of src/src/controller/provider-broker.mjs: one      *)
(* listener per invocation on a port no earlier invocation was allowed to  *)
(* reach, one capability, and requests that are held while their body is   *)
(* read.  A process reaches the one port its Seatbelt profile names.       *)
(***************************************************************************)
EXTENDS ProcessSupervisor

CONSTANTS
    Ports,          \* ports the system may hand out
    NoPort          \* none

ASSUME PortAssumption == NoPort \notin Ports

VARIABLES
    broker,         \* its port, and its capability: the invocation and whether it is revoked
    usedPorts,      \* ports of all brokers of the run so far
    pinned,         \* the port in the profile of each invocation
    held            \* requests whose token was accepted: <<invocation of the process, of the token>>

brokerVars == <<broker, usedPorts, pinned, held>>

Closed == [port |-> NoPort, inv |-> NoInv, revoked |-> FALSE]

InitBroker == /\ broker = Closed
              /\ usedPorts = {}
              /\ pinned = [i \in Invs |-> NoPort]
              /\ held = {}

\* Faulty: whatever port the system hands out is taken.
StartBrokerAnywhere == \E port \in Ports :
                           /\ broker' = [Closed EXCEPT !.port = port]
                           /\ usedPorts' = usedPorts \cup {port}
                           /\ UNCHANGED <<pinned, held>>

\* startProviderBroker: sixteen tries to find a port that is not in avoidPorts.
StartBroker == \E port \in Ports \ usedPorts :
                   /\ broker' = [Closed EXCEPT !.port = port]
                   /\ usedPorts' = usedPorts \cup {port}
                   /\ UNCHANGED <<pinned, held>>

Pin(i) == pinned' = [pinned EXCEPT ![i] = broker.port] /\ UNCHANGED <<broker, usedPorts, held>>

RegisterInvocation(i) == broker' = [broker EXCEPT !.inv = i] /\ UNCHANGED <<usedPorts, pinned, held>>

RevokeInvocation == broker' = [broker EXCEPT !.revoked = TRUE] /\ UNCHANGED <<usedPorts, pinned, held>>

\* close: the capabilities are forgotten and every connection is cut.
CloseBroker == broker' = Closed /\ held' = {} /\ UNCHANGED <<usedPorts, pinned>>

\* What the profile of its boundary lets a process reach.
Reaches(p) == broker.port # NoPort /\ pinned[proc[p].inv] = broker.port

\* handleRequest up to the await of the body.  Every process that can read the worktree
\* knows the token: what keeps others out is the port.
Ask(p) == /\ Live(p)
          /\ proc[p].inv \in Invs
          /\ Reaches(p)
          /\ broker.inv # NoInv /\ ~broker.revoked
          /\ held' = held \cup {<<proc[p].inv, broker.inv>>}
          /\ UNCHANGED <<broker, usedPorts, pinned, proc, sup>>

\* The body has arrived, and the request goes upstream with nothing checked again; or the client
\* went away, the body is too large, or it names a route or another model.
Respond(r) == /\ r \in held
              /\ held' = held \ {r}
              /\ UNCHANGED <<broker, usedPorts, pinned, proc, sup>>
=============================================================================
