------------------------------ MODULE Gateway ------------------------------
(***************************************************************************)
(* SessionManager and the IRC dispatch above it: many nicks, one world.    *)
(*                                                                         *)
(* A message is handled by a task: it looks the nick up in the manager     *)
(* (one async mutex), runs the command under the mutex of that nick's      *)
(* Session, and delivers the outcome, which may persist the world.  Login  *)
(* and logout keep the manager while they await; a command lets go of it   *)
(* once it has cloned the handle of its session.  Saving is one step here: *)
(* WorldStore is about what happens inside it.                             *)
(*                                                                         *)
(* A nick's player stands somewhere three times: the actor object in the   *)
(* graph, its row, and the location its PlayerSession caches.              *)
(***************************************************************************)
EXTENDS Naturals, FiniteSets

CONSTANTS
    Nicks,       \* normalized nicks
    Actors,      \* player objects in the graph
    Places,      \* places an actor can stand in
    Home,        \* home_location, where a killed player wakes up; not everybody has one
    World,       \* the world channel; a room channel is named by its place
    Handles,     \* sessions, as Arc<Mutex<Session>>
    Tasks,       \* message handlers
    None,        \* no actor, no session, no task, no place
    Accounts,    \* the actors a nick's credentials open: verify_login
    Verbs,       \* the messages and calls in play
    InOrder,     \* a nick's next message waits for its last one
    MaxFailures  \* bound: failing saves

VerbKinds == {"login", "go", "warp", "attack", "say", "quit", "drop", "connect", "release", "forget"}

ASSUME GatewayAssumption ==
    /\ Home \in [Actors -> Places \cup {None}]
    /\ World \notin Places
    /\ None \notin Actors \cup Handles \cup Tasks \cup Places
    /\ Accounts \in [Nicks -> SUBSET Actors]
    /\ Verbs \subseteq VerbKinds
    /\ InOrder \in BOOLEAN
    /\ MaxFailures \in Nat

VARIABLES
    bound,     \* ConnectionRegistry.by_nick
    sessions,  \* SessionManager.sessions
    owned,     \* sessions that connect() handed to its caller
    player,    \* the PlayerSession inside each Session
    manager,   \* the task inside the manager's mutex
    lock,      \* the task inside each session's mutex
    place,     \* where each actor object is in the graph
    row,       \* where each actor's row says it is
    dirty,     \* actors marked for the next save
    lost,      \* actors whose mark an error took along, their place unsaved
    channels,  \* the channels the bot is in
    task,      \* what each handler is in the middle of
    failures   \* failed saves so far

vars == <<bound, sessions, owned, player, manager, lock, place, row, dirty, lost, channels, task, failures>>
registry == <<bound, sessions, owned>>
world == <<place, row, dirty, lost>>

Steps == {"idle", "handle", "lock", "act", "wake", "audience", "peek", "logout", "clone", "write",
          "flush", "sync", "save"}

NoPlayer == [actor |-> None, at |-> None]

\* spot is the room a quit parts, or the home a killer is sent to; part and join
\* are the channel_sync of the outcome, todo the nicks whose session
\* players_in_room_async has yet to lock, copy the PlayerSession that a logout
\* cloned.
Idle == [pc |-> "idle", nick |-> None, verb |-> "none", handle |-> None, spot |-> None,
         part |-> {}, join |-> {}, todo |-> {}, copy |-> NoPlayer]

Init ==
    /\ bound = [n \in Nicks |-> None]
    /\ sessions = [n \in Nicks |-> None]
    /\ owned = [n \in Nicks |-> None]
    /\ player = [h \in Handles |-> NoPlayer]
    /\ manager = None
    /\ lock = [h \in Handles |-> None]
    /\ place \in [Actors -> Places]
    /\ row = place
    /\ dirty = {}
    /\ lost = {}
    /\ channels = {World}
    /\ task = [t \in Tasks |-> Idle]
    /\ failures = 0

At(t, step) == task[t].pc = step
Become(t, r) == task' = [task EXCEPT ![t] = r]
Goto(t, step) == Become(t, [task[t] EXCEPT !.pc = step])
Finish(t) == Become(t, Idle)
Nick(t) == task[t].nick
Busy(n) == \E t \in Tasks : task[t].nick = n

\* The command's guard is dropped.  (Mutant: it outlives the command.)
KeepSession(h) == lock
Unlocked(h) == [lock EXCEPT ![h] = None]

(***************************************************************************)
(* SessionManager                                                          *)
(***************************************************************************)

\* is_actor_bound of registry b.
IsActorBound(b, a) == \E n \in Nicks : b[n] = a

\* reclaim_orphan_nick: a binding to this actor without a stored session is
\* taken for one whose owner dropped it.
Reclaimed(n, a) == sessions[n] = None /\ bound[n] = a
AfterReclaim(n, a) == IF Reclaimed(n, a) THEN [bound EXCEPT ![n] = None] ELSE bound

FreeHandle(h) ==
    /\ \A n \in Nicks : sessions[n] # h /\ owned[n] # h
    /\ \A t \in Tasks : task[t].handle # h

\* PlayerSession::restore: the cache is where the actor is.
Restored(a) == [actor |-> a, at |-> place[a]]

\* build_connection on registry b.
Connected(b, n, a, h) ==
    /\ b[n] = None
    /\ FreeHandle(h)
    /\ bound' = [b EXCEPT ![n] = a]
    /\ player' = [player EXCEPT ![h] = Restored(a)]

\* dispatch_login, with the manager locked throughout.  A refusal (the actor
\* or the nick is in use) changes nothing.
Login(t, n, a, h) ==
    /\ manager = None
    /\ sessions[n] = None
    /\ LET b == AfterReclaim(n, a) IN
         /\ ~IsActorBound(b, a)
         /\ Connected(b, n, a, h)
    /\ sessions' = [sessions EXCEPT ![n] = h]
    /\ Become(t, [Idle EXCEPT !.pc = "sync", !.nick = n, !.verb = "login",
                              !.join = {World, place[a]}])
    /\ UNCHANGED <<owned, manager, lock, world, channels, failures>>

\* connect(): the same, but the caller keeps the session.
Connect(n, a, h) ==
    /\ manager = None
    /\ ~IsActorBound(bound, a)
    /\ Connected(bound, n, a, h)
    /\ owned' = [owned EXCEPT ![n] = h]
    /\ UNCHANGED <<sessions, manager, lock, world, channels, task, failures>>

\* The owner drops the session and forgets to release it.
Forget(n) ==
    /\ owned[n] # None
    /\ owned' = [owned EXCEPT ![n] = None]
    /\ UNCHANGED <<bound, sessions, player, manager, lock, world, channels, task, failures>>

\* persist_to_actor.
Stand(a, p) ==
    /\ place' = [place EXCEPT ![a] = p]
    /\ dirty' = dirty \cup {a}
    /\ lost' = lost \ {a}

(***************************************************************************)
(* persist_changes over the marked actors, standing where `where` says.    *)
(***************************************************************************)

\* The marks are taken and the rows of S written.
Written(where, marked, S) ==
    /\ row' = [a \in Actors |-> IF a \in S THEN where[a] ELSE row[a]]
    /\ dirty' = {}
    /\ lost' = (lost \cup marked) \ S

\* A failure puts the marks back; but not when it is that of the reload after a
\* conflict, or of the last flush, which may have written some of the rows.
Unwritten(where, marked) ==
    /\ marked # {} /\ failures < MaxFailures
    /\ failures' = failures + 1
    /\ \/ dirty' = marked /\ lost' = lost \ marked /\ UNCHANGED row
       \/ \E S \in SUBSET marked : S # marked /\ Written(where, marked, S)

Saved == Written(place, dirty, dirty) /\ UNCHANGED place
SaveFailed == Unwritten(place, dirty) /\ UNCHANGED place

\* release(): persist_connection_state, then unbind; an error leaves the nick
\* bound and the owner with its session.
Release(n) ==
    /\ manager = None
    /\ owned[n] # None /\ bound[n] # None
    /\ LET s == player[owned[n]]
           stood == [place EXCEPT ![s.actor] = s.at]
           marked == dirty \cup {s.actor}
       IN /\ place' = stood
          /\ \/ /\ Written(stood, marked, marked)
                /\ bound' = [bound EXCEPT ![n] = None]
                /\ owned' = [owned EXCEPT ![n] = None]
                /\ UNCHANGED failures
             \/ Unwritten(stood, marked) /\ UNCHANGED <<bound, owned>>
    /\ UNCHANGED <<sessions, player, manager, lock, channels, task>>

(***************************************************************************)
(* dispatch_command: a message of nick n with verb v arrives.              *)
(***************************************************************************)

\* The loop of bin/irc.rs awaits a message before it takes the next; here only
\* messages of one nick wait for each other.  (Mutant: each gets a task.)
Spawned(n) == TRUE
MayStart(n) == InOrder => ~Busy(n)

\* QUIT, or PART of the world channel, goes straight to logout; any other
\* message of a logged-in nick starts with a look into the manager.
Receive(t, n, v) ==
    /\ At(t, "idle") /\ MayStart(n) /\ manager = None
    /\ v \in Verbs \cap {"go", "warp", "attack", "say", "quit", "drop"}
    /\ IF v = "drop" THEN bound[n] # None ELSE sessions[n] # None
    /\ Become(t, [Idle EXCEPT !.nick = n, !.verb = v,
           !.pc = IF v = "drop" THEN "logout" ELSE "handle"])
    /\ UNCHANGED <<registry, player, manager, lock, world, channels, failures>>

\* session_handle, cloned under a second lock of the manager.
Handle(t) ==
    /\ At(t, "handle") /\ manager = None
    /\ LET h == sessions[Nick(t)] IN
         IF h # None
         THEN Become(t, [task[t] EXCEPT !.handle = h,
                  !.pc = IF task[t].verb = "quit" THEN "peek" ELSE "lock"])
         ELSE IF task[t].verb = "quit" THEN Goto(t, "logout") ELSE Finish(t)
    /\ UNCHANGED <<registry, player, manager, lock, world, channels, failures>>

Lock(t) ==
    /\ At(t, "lock") /\ lock[task[t].handle] = None
    /\ lock' = [lock EXCEPT ![task[t].handle] = t]
    /\ Goto(t, "act")
    /\ UNCHANGED <<registry, player, manager, world, channels, failures>>

\* The channel_sync of a move.
Entered(from, to) == IF from # to THEN {to} ELSE {}
Left(from, to) == IF from # to THEN {from} ELSE {}

\* go_impl: the graph and the cache move together, then on_enter scripts run.
Moved(t, to) ==
    LET h == task[t].handle
        from == player[h].at
    IN /\ player' = [player EXCEPT ![h].at = to]
       /\ Become(t, [task[t] EXCEPT !.pc = "sync", !.handle = None, !.spot = None,
              !.part = Left(from, to), !.join = Entered(from, to)])
       /\ lock' = Unlocked(h)

Go(t, to) ==
    /\ At(t, "act") /\ task[t].verb = "go"
    /\ Stand(player[task[t].handle].actor, to)
    /\ Moved(t, to)
    /\ UNCHANGED <<registry, manager, row, channels, failures>>

\* The same with an on_enter script that teleports the actor on: Teleport
\* sets the location of the object only.
Warp(t, to, on) ==
    /\ At(t, "act") /\ task[t].verb = "warp"
    /\ Stand(player[task[t].handle].actor, on)
    /\ Moved(t, to)
    /\ UNCHANGED <<registry, manager, row, channels, failures>>

\* Where a is when he was killed: home, if he has one.
Respawn(a) == IF Home[a] = None THEN place[a] ELSE Home[a]

\* attack_creature kills the player, who was struck back, or another one found
\* in the room of the session, logged in or not, and moves the victim under one
\* lock of the world; the session follows the victim home, set_current_location
\* takes the player along under another.
Die(t, a) ==
    /\ At(t, "act") /\ task[t].verb = "attack"
    /\ LET s == player[task[t].handle] IN a = s.actor \/ place[a] = s.at
    /\ Stand(a, Respawn(a))
    /\ Become(t, [task[t] EXCEPT !.pc = "wake", !.spot = Respawn(a)])
    /\ UNCHANGED <<registry, player, manager, lock, row, channels, failures>>

Wake(t) ==
    /\ At(t, "wake")
    /\ Stand(player[task[t].handle].actor, task[t].spot)
    /\ Moved(t, task[t].spot)
    /\ UNCHANGED <<registry, manager, row, channels, failures>>

Say(t) ==
    /\ At(t, "act") /\ task[t].verb = "say"
    /\ lock' = Unlocked(task[t].handle)
    /\ Become(t, [task[t] EXCEPT !.pc = "audience"])
    /\ UNCHANGED <<registry, player, manager, world, channels, failures>>

\* deliver_command_result locks the manager and, with it, one after another
\* the sessions of all others.
Gather(t) ==
    /\ At(t, "audience") /\ manager = None
    /\ manager' = t
    /\ Become(t, [task[t] EXCEPT !.handle = None,
           !.todo = {n \in Nicks \ {Nick(t)} : sessions[n] # None}])
    /\ UNCHANGED <<registry, player, lock, world, channels, failures>>

Listen(t) ==
    /\ At(t, "audience") /\ manager = t
    /\ IF task[t].todo = {}
       THEN manager' = None /\ Finish(t)
       ELSE \E n \in task[t].todo :
              /\ lock[sessions[n]] = None
              /\ Become(t, [task[t] EXCEPT !.todo = @ \ {n}])
              /\ UNCHANGED manager
    /\ UNCHANGED <<registry, player, lock, world, channels, failures>>

(***************************************************************************)
(* Logout                                                                  *)
(***************************************************************************)

\* dispatch_quit first reads the room, to part its channel.
Peek(t) ==
    /\ At(t, "peek") /\ lock[task[t].handle] = None
    /\ Become(t, [task[t] EXCEPT !.pc = "logout", !.spot = player[task[t].handle].at,
                                 !.handle = None])
    /\ UNCHANGED <<registry, player, manager, lock, world, channels, failures>>

\* NotConnected, or the session leaves the map while its nick stays bound.
Logout(t) ==
    /\ At(t, "logout") /\ manager = None
    /\ IF bound[Nick(t)] = None \/ sessions[Nick(t)] = None
       THEN Finish(t) /\ UNCHANGED <<sessions, manager>>
       ELSE /\ manager' = t
            /\ sessions' = [sessions EXCEPT ![Nick(t)] = None]
            /\ Become(t, [task[t] EXCEPT !.pc = "clone", !.handle = sessions[Nick(t)]])
    /\ UNCHANGED <<bound, owned, player, lock, world, channels, failures>>

Clone(t) ==
    /\ At(t, "clone") /\ lock[task[t].handle] = None
    /\ Become(t, [task[t] EXCEPT !.pc = "write", !.copy = player[task[t].handle]])
    /\ UNCHANGED <<registry, player, manager, lock, world, channels, failures>>

\* persist_connection_state: the cached location is written to the actor.
Write(t) ==
    /\ At(t, "write")
    /\ Stand(task[t].copy.actor, task[t].copy.at)
    /\ Goto(t, "flush")
    /\ UNCHANGED <<registry, player, manager, lock, row, channels, failures>>

\* Mutant: the nick stays bound.
StayBound(n) == bound
Unbound(n) == [bound EXCEPT ![n] = None]

Flush(t) ==
    /\ At(t, "flush")
    /\ Saved
    /\ bound' = Unbound(Nick(t))
    /\ manager' = None
    /\ IF task[t].verb = "quit"
       THEN Become(t, [Idle EXCEPT !.pc = "sync", !.nick = Nick(t), !.verb = "quit",
                !.part = {World, task[t].spot} \ {None}])
       ELSE Finish(t)
    /\ UNCHANGED <<sessions, owned, player, lock, channels, failures>>

FlushFails(t) ==
    /\ At(t, "flush")
    /\ SaveFailed
    /\ sessions' = [sessions EXCEPT ![Nick(t)] = task[t].handle]
    /\ manager' = None
    /\ Finish(t)
    /\ UNCHANGED <<bound, owned, player, lock, channels>>

(***************************************************************************)
(* IrcBot::deliver: part, join, and persist if the outcome says so.        *)
(***************************************************************************)

Part(t) ==
    /\ At(t, "sync") /\ task[t].part # {}
    /\ channels' = channels \ task[t].part
    /\ Become(t, [task[t] EXCEPT !.part = {}])
    /\ UNCHANGED <<registry, player, manager, lock, world, failures>>

Join(t) ==
    /\ At(t, "sync") /\ task[t].part = {}
    /\ channels' = channels \cup task[t].join
    /\ IF task[t].verb = "quit" THEN Finish(t) ELSE Become(t, [task[t] EXCEPT !.pc = "save", !.join = {}])
    /\ UNCHANGED <<registry, player, manager, lock, world, failures>>

\* Mutant: the outcome forgets to ask for it.
NotSaved == UNCHANGED world
Persist == Saved

Save(t) ==
    /\ At(t, "save") /\ manager = None
    /\ Persist
    /\ Finish(t)
    /\ UNCHANGED <<registry, player, manager, lock, channels, failures>>

\* The error is dropped.
SaveFails(t) ==
    /\ At(t, "save") /\ manager = None
    /\ SaveFailed
    /\ Finish(t)
    /\ UNCHANGED <<registry, player, manager, lock, channels>>

Command(t) ==
    \/ \E n \in Nicks, v \in VerbKinds : Receive(t, n, v)
    \/ \E n \in Nicks, h \in Handles : \E a \in Accounts[n] :
         "login" \in Verbs /\ At(t, "idle") /\ MayStart(n) /\ Login(t, n, a, h)

Continue(t) ==
    \/ Handle(t) \/ Lock(t)
    \/ \E p \in Places : Go(t, p)
    \/ \E p, q \in Places : Warp(t, p, q)
    \/ \E a \in Actors : Die(t, a)
    \/ Wake(t) \/ Say(t) \/ Gather(t) \/ Listen(t)
    \/ Peek(t) \/ Logout(t) \/ Clone(t) \/ Write(t) \/ Flush(t)
    \/ Part(t) \/ Join(t) \/ Save(t)

Library ==
    \/ "connect" \in Verbs /\ \E n \in Nicks, h \in Handles : \E a \in Accounts[n] : Connect(n, a, h)
    \/ "release" \in Verbs /\ \E n \in Nicks : Release(n)
    \/ "forget" \in Verbs /\ \E n \in Nicks : Forget(n)

Next ==
    \/ \E t \in Tasks : Command(t) \/ Continue(t) \/ FlushFails(t) \/ SaveFails(t)
    \/ Library

Spec == Init /\ [][Next]_vars

\* A handler that began goes on; tokio's mutexes are first come, first served.
Fairness == \A t \in Tasks : SF_vars(Continue(t))
FairSpec == Spec /\ Fairness

(***************************************************************************)
(* Properties.                                                             *)
(***************************************************************************)

PlayerRec == [actor : Actors \cup {None}, at : Places \cup {None}]

\* Every variable has its type, and whoever is inside a session's mutex is a
\* command that has a handle of it.
TypeOK ==
    /\ bound \in [Nicks -> Actors \cup {None}]
    /\ sessions \in [Nicks -> Handles \cup {None}]
    /\ owned \in [Nicks -> Handles \cup {None}]
    /\ player \in [Handles -> PlayerRec]
    /\ manager \in Tasks \cup {None}
    /\ lock \in [Handles -> Tasks \cup {None}]
    /\ place \in [Actors -> Places]
    /\ row \in [Actors -> Places]
    /\ dirty \subseteq Actors
    /\ lost \subseteq Actors
    /\ channels \subseteq Places \cup {World}
    /\ \A t \in Tasks : task[t].pc \in Steps
    /\ failures \in 0..MaxFailures
    /\ \A h \in Handles : lock[h] # None => task[lock[h]].handle = h /\ task[lock[h]].pc \in {"act", "wake"}

LoggingOut(t, n) == Nick(t) = n /\ task[t].pc \in {"clone", "write", "flush"}

\* A nick is bound exactly as long as it has a session, in the map or in the
\* hands of its logout, and it is bound to that session's actor; and an actor
\* is driven by one connection: the actor-in-use guard holds against every
\* interleaving of logins and logouts.
RegistryAgrees ==
    /\ \A n \in Nicks :
        /\ bound[n] # None <=> sessions[n] # None \/ \E t \in Tasks : LoggingOut(t, n)
        /\ sessions[n] # None => player[sessions[n]].actor = bound[n]
    /\ \A m, n \in Nicks :
        m # n /\ sessions[m] # None /\ sessions[n] # None =>
            player[sessions[m]].actor # player[sessions[n]].actor

\* This step is the blow with which nick n kills a, in the room n stands in.
Strikes(n, a) ==
    \E t \in Tasks :
        /\ Nick(t) = n /\ task[t].verb = "attack" /\ At(t, "act") /\ task'[t].pc = "wake"
        /\ place[a] = player[task[t].handle].at /\ place'[a] = Home[a]

\* An actor is moved by the one nick that is connected to it, or by the blow of
\* a connected nick that kills it in the room both are in: no command outlives
\* the logout of its nick.
CommandsNeedLogin ==
    [][\A a \in Actors : place'[a] # place[a] =>
         \E n \in Nicks : bound[n] # None /\ (bound[n] = a \/ Strikes(n, a))]_vars

AtRest == \A t \in Tasks : At(t, "idle")

\* With every message handled the rows know where everyone is, but for those a
\* failed save left behind: still marked, or of the marks the error took along.
SavedAtRest ==
    AtRest => \A a \in Actors :
        row[a] # place[a] => failures > 0 /\ a \in dirty \cup lost

\* The lock order manager, session, world: every message gets its answer.
EveryMessageAnswered == \A t \in Tasks : ~At(t, "idle") ~> At(t, "idle")

(***************************************************************************)
(* What the docs say and the code does not keep (README, "Disagreements").  *)
(***************************************************************************)

\* Cached current place: kept in sync with the actor object's location.
CacheInSync ==
    AtRest => \A n \in Nicks :
        sessions[n] # None => player[sessions[n]].at = place[player[sessions[n]].actor]

\* The bot hears the world channel while somebody is logged in.
WorldChannelHeld ==
    AtRest /\ (\E n \in Nicks : sessions[n] # None) => World \in channels

\* It is in the channel of the room of every player who is logged in.
RoomChannelsHeld ==
    AtRest => \A n \in Nicks : sessions[n] # None => player[sessions[n]].at \in channels

\* The nick remains reserved until release.
NickReserved ==
    \A n \in Nicks : owned[n] # None => bound[n] = player[owned[n]].actor /\ sessions[n] = None
====
