------------------------------ MODULE Service ------------------------------
(***************************************************************************)
(* The server from its start: a module is read, its world is made or       *)
(* found, and then whoever is a player in it may come in.  Until the world *)
(* is ready nobody is heard; what the players then do to it is the subject *)
(* of the other modules, so from there on only the players are kept.       *)
(***************************************************************************)
EXTENDS Bootstrap, Access

CONSTANTS
    Modules,    \* the files a module may consist of
    WorldNames  \* MUDL_WORLD

vars == <<loaderVars, bootVars, accessVars>>

Init == LoaderInit(Modules, WorldNames) /\ BootInit /\ AccessInit

\* hydrate: the players there are, and what the login looks at.
PlayerIds == {id \in DOMAIN rows : id[1] = "player"}
AsPlayer(id) == [name |-> Get(rows[id].props, "name", Nobody), token |-> Get(rows[id].props, "login_token", Nobody)]

\* SessionManager::open: also after a start that failed.
Serve ==
    /\ loading.at = "loaded" /\ boot.at = "ready"
    /\ OpenSessions([id \in PlayerIds |-> AsPlayer(id)])
    /\ text' = Empty /\ wanted' = "" /\ loading' = [StartLoading EXCEPT !.at = "serving"]
    /\ rows' = [id \in PlayerIds |-> Shell] /\ counters' = Empty
    /\ boot' = [Starting EXCEPT !.at = "serving"] /\ stops' = MaxStops /\ whole' = FALSE

Next ==
    \/ LoaderNext /\ UNCHANGED <<bootVars, accessVars>>
    \/ BootNext /\ UNCHANGED <<loaderVars, accessVars>>
    \/ Serve
    \/ AccessNext /\ UNCHANGED <<loaderVars, bootVars>>

Spec == Init /\ [][Next]_vars

\* Rows are of ids that were allocated; a world has an error or its places, and
\* nobody is in before it is there.
TypeOK ==
    /\ loading.at \in {"universe", "expand", "loaded", "failed", "serving"}
    /\ ToSet(loading.sources) \subseteq DOMAIN text /\ loading.visited \subseteq DOMAIN text
    /\ boot.at \in ToSet(Phases) \cup {"start", "ready", "serving"} /\ boot.stage \in {"number", "shell", "commit", "hang", "finish"}
    /\ \A id \in DOMAIN rows \ DOMAIN Residents :
         id[1] \in {"player", "area", "room", "item"} /\ loading.at # "serving" =>
           id[3] < Get(counters, <<id[1], id[2]>>, 1)
    /\ boot.held # Nil /\ boot.stage \notin {"number", "shell"} => boot.held \in DOMAIN rows
    /\ \A id \in PlaceIds(boot.names) : id \in DOMAIN rows
    /\ stops \in 0 .. MaxStops /\ whole \in BOOLEAN
    /\ seat \in [Nicks -> DOMAIN players \cup {Nobody}]
    /\ shown \in [Nicks -> Secrets \cup {Nobody}] /\ account \in [Nicks -> Accounts \cup {Nobody}]
    /\ clock \in 0 .. MaxClock
    /\ \A n \in DOMAIN buckets, k \in RateLimitKinds :
         buckets[n][k].tokens \in 0 .. Full(k) /\ buckets[n][k].last \in 0 .. clock
    /\ policy = Nobody => \A n \in Nicks : seat[n] = Nobody
=============================================================================
