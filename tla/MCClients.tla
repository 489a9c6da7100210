------------------------------ MODULE MCClients ------------------------------
(* The daemon's three clients, and the log they page through.  The clients    *)
(* share nothing but the daemon, whose part each module has for itself, so a  *)
(* behaviour is one of theirs, or the log's, while the others do nothing: a   *)
(* page that makes no call, an inspector that was closed, a browser that is   *)
(* not running, a store nobody writes to.                                     *)
EXTENDS ChromeSimTransport, InspectorSync, AgentReload, EventStore

CONSTANTS Clients,     \* those a run looks at
          MaxEvents    \* bound on the length of protocol_events
VARIABLE client        \* the one a behaviour is of

ClientsInit ==
    /\ client \in Clients
    /\ TransportInit
    /\ InspectorFrom(IF client = "inspector" THEN "connecting" ELSE "stopped")
    /\ AgentFrom(IF client = "dev-agent" THEN "config" ELSE "off")
    /\ StoreInit

Others(vs) == UNCHANGED <<vs, client>>

ClientsNext ==
    \/ client = "chrome-sim" /\ TransportNext /\ Others(<<ivars, avars, storeVars>>)
    \/ client = "inspector" /\ InspectorNext /\ Others(<<tvars, avars, storeVars>>)
    \/ client = "dev-agent" /\ AgentNext /\ Others(<<tvars, ivars, storeVars>>)
    \/ /\ client = "store" /\ Len(events) < MaxEvents
       /\ StoreWrites({0}) /\ Others(<<tvars, ivars, avars>>)

ClientsSpec == ClientsInit /\ [][ClientsNext]_<<tvars, ivars, avars, storeVars, client>>

\* Nothing of a client that does nothing is ever enabled that fairness is about.
ClientsFairSpec ==
    ClientsSpec /\ TransportFairness /\ InspectorFairness /\ AgentFairness
=============================================================================
