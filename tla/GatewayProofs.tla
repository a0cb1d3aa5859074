--------------------------- MODULE GatewayProofs ---------------------------
(***************************************************************************)
(* What the gateway guarantees for any number of nicks, actors, sessions   *)
(* and message handlers.                                                   *)
(***************************************************************************)
EXTENDS Gateway, TLAPS

(***************************************************************************)
(* Type correctness: a session that somebody can reach is of a player.     *)
(***************************************************************************)

Standing == [actor : Actors, at : Places]

Rooms == Places \cup {World}

TaskState ==
    [pc : Steps, nick : Nicks \cup {None}, verb : VerbKinds \cup {"none"}, handle : Handles \cup {None},
     spot : Places \cup {None}, part : SUBSET Rooms, join : SUBSET Rooms, todo : SUBSET Nicks,
     copy : PlayerRec]

HandleSteps == {"lock", "act", "wake", "peek", "clone", "write", "flush"}
LockSteps == {"act", "wake"}

\* A handler past its first look has the nick, and the session where it needs it.
Shape(t) ==
    /\ task[t].pc # "idle" => Nick(t) \in Nicks
    /\ task[t].pc \in HandleSteps => task[t].handle # None
    /\ task[t].handle # None => player[task[t].handle] \in Standing
    /\ task[t].pc = "write" => task[t].copy \in Standing
    /\ task[t].pc = "wake" => task[t].spot \in Places

TypeInv ==
    /\ TypeOK
    /\ \A t \in Tasks : task[t] \in TaskState /\ Shape(t)
    /\ task = [t \in Tasks |-> task[t]]
    /\ \A n \in Nicks : sessions[n] # None => player[sessions[n]] \in Standing
    /\ \A n \in Nicks : owned[n] # None => player[owned[n]] \in Standing

\* A task's next record, and what others keep.
LEMMA BecomeValue ==
    ASSUME TypeInv, NEW t \in Tasks, NEW r, Become(t, r)
    PROVE  /\ task'[t] = r
           /\ \A u \in Tasks : u # t => task'[u] = task[u]
           /\ task' = [u \in Tasks |-> task'[u]]
BY DEF Become, TypeInv

\* What a handler that is idle looks like.
LEMMA IdleType ==
    /\ Idle \in TaskState
    /\ Idle.pc = "idle" /\ Idle.handle = None /\ Idle.nick = None /\ Idle.verb = "none"
<1>1. NoPlayer \in PlayerRec /\ "idle" \in Steps
  BY DEF NoPlayer, PlayerRec, Steps
<1>2. QED BY <1>1 DEF Idle, TaskState

\* The state of the sessions while a task goes from one step to the next.
LEMMA StepType ==
    ASSUME TypeInv, NEW t \in Tasks, NEW r \in TaskState, Become(t, r),
           bound' \in [Nicks -> Actors \cup {None}],
           sessions' \in [Nicks -> Handles \cup {None}],
           owned' = owned,
           player' \in [Handles -> PlayerRec],
           manager' \in Tasks \cup {None},
           lock' \in [Handles -> Tasks \cup {None}],
           place' \in [Actors -> Places], row' \in [Actors -> Places], dirty' \subseteq Actors /\ lost' \subseteq Actors,
           channels' \subseteq Rooms, failures' \in 0..MaxFailures,
           \A h \in Handles : player'[h] = player[h] \/ player'[h] \in Standing,
           r.pc # "idle" => r.nick \in Nicks,
           r.pc \in HandleSteps => r.handle # None,
           r.handle # None => player'[r.handle] \in Standing,
           r.pc = "write" => r.copy \in Standing,
           r.pc = "wake" => r.spot \in Places,
           \A n \in Nicks : sessions'[n] # None => player'[sessions'[n]] \in Standing,
           \A h \in Handles :
               \/ lock'[h] = None
               \/ lock'[h] = t /\ r.handle = h /\ r.pc \in LockSteps
               \/ lock'[h] = lock[h] /\ lock[h] # t
    PROVE  TypeInv'
<1>1. /\ task'[t] = r /\ \A u \in Tasks : u # t => task'[u] = task[u]
      /\ task' = [u \in Tasks |-> task'[u]]
  BY BecomeValue
<1>2. ASSUME NEW u \in Tasks PROVE task'[u] \in TaskState /\ Shape(u)'
  <2>1. CASE u = t
    BY <1>1, <2>1 DEF Shape, Nick
  <2>2. CASE u # t
    <3>1. task[u] \in TaskState /\ Shape(u) /\ task'[u] = task[u]
      BY <1>1, <2>2 DEF TypeInv
    <3>2. task[u].handle \in Handles \cup {None}
      BY <3>1 DEF TaskState
    <3>3. QED BY <3>1, <3>2 DEF Shape, Nick
  <2>3. QED BY <2>1, <2>2
<1>3. \A n \in Nicks : owned'[n] # None => player'[owned'[n]] \in Standing
  <2>1. owned \in [Nicks -> Handles \cup {None}]
    BY DEF TypeInv, TypeOK
  <2>2. QED BY <2>1 DEF TypeInv
<1>4. ASSUME NEW h \in Handles, lock'[h] # None
      PROVE  task'[lock'[h]].handle = h /\ task'[lock'[h]].pc \in LockSteps
  <2>1. lock' [h] \in Tasks
    BY <1>4
  <2>2. CASE lock'[h] = t /\ r.handle = h /\ r.pc \in LockSteps
    BY <1>1, <2>2
  <2>3. CASE lock'[h] = lock[h] /\ lock[h] # t
    <3>1. task[lock[h]].handle = h /\ task[lock[h]].pc \in LockSteps
      BY <1>4, <2>3 DEF TypeInv, TypeOK, LockSteps
    <3>2. QED BY <1>1, <2>1, <2>3, <3>1
  <2>4. QED BY <1>4, <2>2, <2>3
<1>5. TypeOK'
  <2>1. owned' \in [Nicks -> Handles \cup {None}]
    BY DEF TypeInv, TypeOK
  <2>2. \A u \in Tasks : task'[u].pc \in Steps
    BY <1>2 DEF TaskState
  <2>3. QED BY <1>4, <2>1, <2>2 DEF TypeOK, Rooms, LockSteps
<1>6. QED BY <1>1, <1>2, <1>3, <1>5 DEF TypeInv

\* A step that leaves registry, sessions and their mutexes alone.
LEMMA QuietType ==
    ASSUME TypeInv, NEW t \in Tasks, NEW r \in TaskState, Become(t, r),
           registry' = registry, player' = player, lock' = lock, manager' \in Tasks \cup {None},
           place' \in [Actors -> Places], row' \in [Actors -> Places], dirty' \subseteq Actors /\ lost' \subseteq Actors,
           channels' \subseteq Rooms, failures' \in 0..MaxFailures,
           task[t].pc \notin LockSteps,
           r.pc # "idle" => r.nick \in Nicks,
           r.pc \in HandleSteps => r.handle # None,
           r.handle # None => player[r.handle] \in Standing,
           r.pc = "write" => r.copy \in Standing,
           r.pc = "wake" => r.spot \in Places
    PROVE  TypeInv'
<1>1. UNCHANGED <<bound, sessions, owned>>
  BY DEF registry
<1>2. \A h \in Handles : lock'[h] = None \/ (lock'[h] = lock[h] /\ lock[h] # t)
  BY DEF TypeInv, TypeOK, LockSteps
<1>3. /\ bound' \in [Nicks -> Actors \cup {None}]
      /\ sessions' \in [Nicks -> Handles \cup {None}]
      /\ player' \in [Handles -> PlayerRec]
      /\ lock' \in [Handles -> Tasks \cup {None}]
  BY <1>1 DEF TypeInv, TypeOK
<1>4. \A n \in Nicks : sessions'[n] # None => player'[sessions'[n]] \in Standing
  BY <1>1 DEF TypeInv
<1>5. QED BY <1>1, <1>2, <1>3, <1>4, StepType

\* What is saved is where the actors are.
LEMMA SavedType ==
    ASSUME TypeInv, Saved \/ SaveFailed
    PROVE  place' \in [Actors -> Places] /\ row' \in [Actors -> Places] /\ dirty' \subseteq Actors /\ lost' \subseteq Actors
BY DEF Saved, SaveFailed, Written, Unwritten, TypeInv, TypeOK

\* The fields of a handler.
LEMMA TaskType ==
    ASSUME TypeInv, NEW t \in Tasks
    PROVE  /\ task[t] \in TaskState
           /\ Shape(t)
           /\ task[t].handle \in Handles \cup {None}
           /\ task[t].nick \in Nicks \cup {None}
           /\ task[t].copy \in PlayerRec
           /\ task[t].part \subseteq Rooms /\ task[t].join \subseteq Rooms
BY DEF TypeInv, TaskState

\* Who is inside a session's mutex has a handle of it.
LEMMA LockOwner ==
    ASSUME TypeInv, NEW t \in Tasks, NEW h \in Handles, lock[h] = t
    PROVE  task[t].handle = h /\ task[t].pc \in LockSteps
<1>1. lock[h] # None
  BY GatewayAssumption
<1>2. QED BY <1>1 DEF TypeInv, TypeOK, LockSteps

\* A message arrives.
LEMMA ReceiveType ==
    ASSUME TypeInv, NEW t \in Tasks, NEW n \in Nicks, NEW v \in VerbKinds, Receive(t, n, v)
    PROVE  /\ TypeInv'
           /\ task'[t].pc \in {"logout", "handle"}
           /\ task'[t].nick = n /\ task'[t].verb = v
<1> DEFINE pc == IF v = "drop" THEN "logout" ELSE "handle"
           r == [Idle EXCEPT !.nick = n, !.verb = v, !.pc = pc]
<1>1. Become(t, r) /\ task[t].pc = "idle"
  BY DEF Receive, At
<1>2. pc \in {"logout", "handle"} /\ pc \in Steps
  BY DEF Steps
<1> HIDE DEF pc
<1>3. /\ r \in TaskState /\ r.pc = pc /\ r.nick = n /\ r.verb = v /\ r.handle = None
  BY ONLY <1>2, IdleType, n \in Nicks, v \in VerbKinds DEF TaskState
<1> HIDE DEF r
<1>4. task'[t] = r
  BY <1>1, BecomeValue
<1>5. TypeInv'
  <2>1. /\ UNCHANGED <<registry, player, manager, lock, place, row, dirty, lost, channels, failures>>
    BY DEF Receive, world
  <2>2. /\ manager' \in Tasks \cup {None} /\ place' \in [Actors -> Places] /\ row' \in [Actors -> Places]
        /\ dirty' \subseteq Actors /\ lost' \subseteq Actors /\ channels' \subseteq Rooms /\ failures' \in 0..MaxFailures
    BY <2>1 DEF TypeInv, TypeOK, Rooms
  <2>3. QED BY <1>1, <1>2, <1>3, <2>1, <2>2, QuietType DEF LockSteps, HandleSteps
<1>6. QED BY <1>2, <1>3, <1>4, <1>5

\* A step that touches its own record and the manager only.
LEMMA AloneType ==
    ASSUME TypeInv, NEW t \in Tasks, NEW r \in TaskState, Become(t, r),
           registry' = registry, player' = player, lock' = lock, manager' \in Tasks \cup {None},
           world' = world, channels' = channels, failures' \in 0..MaxFailures,
           task[t].pc \notin LockSteps,
           r.pc # "idle" => r.nick \in Nicks,
           r.pc \in HandleSteps => r.handle # None,
           r.handle # None => player[r.handle] \in Standing,
           r.pc = "write" => r.copy \in Standing,
           r.pc = "wake" => r.spot \in Places
    PROVE  TypeInv'
<1>1. /\ place' \in [Actors -> Places] /\ row' \in [Actors -> Places]
      /\ dirty' \subseteq Actors /\ lost' \subseteq Actors /\ channels' \subseteq Rooms
  BY DEF world, TypeInv, TypeOK, Rooms
<1>2. QED BY <1>1, QuietType

\* A handler that is done.
LEMMA FinishType ==
    ASSUME TypeInv, NEW t \in Tasks, Finish(t),
           registry' = registry, player' = player, lock' = lock, manager' \in Tasks \cup {None},
           place' \in [Actors -> Places], row' \in [Actors -> Places], dirty' \subseteq Actors /\ lost' \subseteq Actors,
           channels' \subseteq Rooms, failures' \in 0..MaxFailures,
           task[t].pc \notin LockSteps
    PROVE  TypeInv' /\ task'[t] = Idle
<1>1. task'[t] = Idle
  BY BecomeValue DEF Finish
<1>2. TypeInv'
  BY IdleType, QuietType DEF Finish, HandleSteps
<1>3. QED BY <1>1, <1>2

\* It looks the session up.
LEMMA HandleType ==
    ASSUME TypeInv, NEW t \in Tasks, Handle(t)
    PROVE  /\ TypeInv'
           /\ \/ /\ task'[t].pc \in {"lock", "peek"} /\ task'[t].nick = task[t].nick
                 /\ task'[t].verb = task[t].verb
                 /\ task'[t].handle = sessions[task[t].nick]
              \/ task'[t].pc = "logout" /\ task'[t].nick = task[t].nick /\ task'[t].verb = task[t].verb
              \/ task'[t] = Idle
<1> DEFINE h == sessions[Nick(t)]
           pc == IF task[t].verb = "quit" THEN "peek" ELSE "lock"
           r == [task[t] EXCEPT !.handle = h, !.pc = pc]
           l == [task[t] EXCEPT !.pc = "logout"]
<1>1. /\ UNCHANGED <<registry, player, manager, lock, world, channels, failures>>
      /\ task[t].pc = "handle" /\ task[t].nick \in Nicks
      /\ task[t] \in TaskState /\ Shape(t)
  BY TaskType DEF Handle, At, Shape, Nick
<1>2. /\ place' \in [Actors -> Places] /\ row' \in [Actors -> Places] /\ dirty' \subseteq Actors /\ lost' \subseteq Actors
      /\ manager' \in Tasks \cup {None} /\ channels' \subseteq Rooms /\ failures' \in 0..MaxFailures
      /\ h \in Handles \cup {None} /\ (h # None => player[h] \in Standing)
  BY <1>1 DEF world, TypeInv, TypeOK, Rooms, Nick
<1>3. CASE Become(t, r) /\ h # None
  <2>1. pc \in {"lock", "peek"} /\ pc \in Steps
    BY DEF Steps
  <2> HIDE DEF pc
  <2>2. /\ r \in TaskState /\ r.pc = pc /\ r.handle = h /\ r.nick = task[t].nick
        /\ r.verb = task[t].verb
    BY ONLY <1>1, <1>2, <2>1 DEF TaskState
  <2>3. Become(t, r)
    BY <1>3
  <2> HIDE DEF r
  <2>4. task'[t] = r
    BY <2>3, BecomeValue
  <2>5. TypeInv'
    BY <1>1, <1>2, <1>3, <2>1, <2>2, <2>3, AloneType DEF LockSteps
  <2>6. QED BY <2>1, <2>2, <2>4, <2>5 DEF Nick
<1>4. CASE Become(t, l)
  <2>1. /\ l \in TaskState /\ l.pc = "logout" /\ l.handle = task[t].handle /\ l.nick = task[t].nick
        /\ l.verb = task[t].verb
    BY ONLY <1>1 DEF TaskState, Steps
  <2>2. Become(t, l)
    BY <1>4
  <2> HIDE DEF l
  <2>3. task'[t] = l
    BY <2>2, BecomeValue
  <2>4. TypeInv'
    BY <1>1, <1>2, <2>1, <2>2, AloneType DEF Shape, HandleSteps, LockSteps
  <2>5. QED BY <2>1, <2>3, <2>4
<1>5. CASE Finish(t)
  BY <1>1, <1>2, <1>5, FinishType DEF LockSteps
<1>6. QED BY <1>3, <1>4, <1>5 DEF Handle, Goto

\* It gets into the session.
LEMMA LockType ==
    ASSUME TypeInv, NEW t \in Tasks, Lock(t)
    PROVE  /\ TypeInv'
           /\ task'[t].pc = "act" /\ task'[t].nick = task[t].nick /\ task'[t].verb = task[t].verb
           /\ task'[t].handle = task[t].handle
<1> DEFINE r == [task[t] EXCEPT !.pc = "act"]
           h == task[t].handle
<1>1. /\ Become(t, r) /\ task[t].pc = "lock" /\ lock' = [lock EXCEPT ![h] = t]
      /\ UNCHANGED <<registry, player, manager, world, channels, failures>>
  BY DEF Lock, At, Goto
<1>2. task[t] \in TaskState /\ h \in Handles /\ player[h] \in Standing /\ task[t].nick \in Nicks
  BY <1>1, TaskType DEF Shape, HandleSteps, Nick
<1>3. /\ r \in TaskState /\ r.pc = "act" /\ r.nick = task[t].nick /\ r.handle = h
      /\ r.verb = task[t].verb
  BY ONLY <1>2 DEF TaskState, Steps
<1> HIDE DEF r
<1>4. task'[t] = r
  BY <1>1, BecomeValue
<1>5. /\ \A x \in Handles : lock[x] # t
      /\ lock \in [Handles -> Tasks \cup {None}]
  BY <1>1, LockOwner DEF TypeInv, TypeOK, LockSteps
<1>6. \A x \in Handles : (lock'[x] = t /\ h = x) \/ lock'[x] = lock[x]
  BY <1>1, <1>2, <1>5
<1>7. lock' \in [Handles -> Tasks \cup {None}]
  BY <1>1, <1>5
<1>8. TypeInv'
  <2>1. /\ bound' \in [Nicks -> Actors \cup {None}]
        /\ sessions' \in [Nicks -> Handles \cup {None}] /\ owned' = owned
        /\ player' \in [Handles -> PlayerRec] /\ manager' \in Tasks \cup {None}
        /\ place' \in [Actors -> Places] /\ row' \in [Actors -> Places] /\ dirty' \subseteq Actors /\ lost' \subseteq Actors
        /\ channels' \subseteq Rooms /\ failures' \in 0..MaxFailures
    BY <1>1 DEF registry, world, TypeInv, TypeOK, Rooms
  <2>2. \A n \in Nicks : sessions'[n] # None => player'[sessions'[n]] \in Standing
    BY <1>1 DEF registry, TypeInv
  <2> HIDE DEF h
  <2>3. \A x \in Handles :
          \/ lock'[x] = None
          \/ lock'[x] = t /\ r.handle = x /\ r.pc \in LockSteps
          \/ lock'[x] = lock[x] /\ lock[x] # t
    BY <1>3, <1>5, <1>6 DEF LockSteps
  <2>4. /\ \A x \in Handles : player'[x] = player[x] \/ player'[x] \in Standing
        /\ r.handle # None => player'[r.handle] \in Standing
        /\ r.pc # "idle" => r.nick \in Nicks
        /\ r.pc \in HandleSteps => r.handle # None
        /\ r.pc \notin {"write", "wake"}
    BY <1>1, <1>2, <1>3, GatewayAssumption
  <2>5. Become(t, r) /\ r \in TaskState
    BY <1>1, <1>3
  <2>6. QED BY <1>7, <2>1, <2>2, <2>3, <2>4, <2>5, StepType
<1>9. QED BY <1>3, <1>4, <1>8

\* A move: the session has the new place, its mutex is free.
LEMMA MovedType ==
    ASSUME TypeInv, NEW t \in Tasks, NEW to \in Places, NEW on \in Places, Moved(t, to),
           task[t].pc \in LockSteps, Stand(player[task[t].handle].actor, on),
           UNCHANGED <<registry, manager, row, channels, failures>>
    PROVE  /\ TypeInv'
           /\ task'[t].pc = "sync" /\ task'[t].nick = task[t].nick /\ task'[t].verb = task[t].verb
           /\ \A h \in Handles : player'[h].actor = player[h].actor
<1> DEFINE h == task[t].handle
           from == player[h].at
           pt == Left(from, to)
           jn == Entered(from, to)
           r == [task[t] EXCEPT !.pc = "sync", !.handle = None, !.spot = None, !.part = pt, !.join = jn]
           e == [player[h] EXCEPT !.at = to]
<1>1. /\ Become(t, r) /\ lock' = [lock EXCEPT ![h] = None]
      /\ player' = [player EXCEPT ![h].at = to]
  BY DEF Moved, Unlocked
<1>2. /\ task[t] \in TaskState /\ h \in Handles /\ player[h] \in Standing /\ task[t].nick \in Nicks
      /\ player \in [Handles -> PlayerRec] /\ lock \in [Handles -> Tasks \cup {None}]
  BY TaskType DEF Shape, HandleSteps, LockSteps, Nick, TypeInv, TypeOK
<1>3. pt \subseteq Rooms /\ jn \subseteq Rooms
  BY <1>2 DEF Left, Entered, Rooms, Standing
<1> HIDE DEF pt, jn
<1>4. /\ r \in TaskState /\ r.pc = "sync" /\ r.nick = task[t].nick /\ r.handle = None
      /\ r.verb = task[t].verb
  BY ONLY <1>2, <1>3 DEF TaskState, Steps
<1>5. e \in Standing /\ e.actor = player[h].actor
  BY <1>2 DEF Standing
<1>6. player'[h] = e /\ \A x \in Handles : x # h => player'[x] = player[x]
  BY <1>1, <1>2
<1> HIDE DEF r, e
<1>7. task'[t] = r
  BY <1>1, BecomeValue
<1>8. ASSUME NEW x \in Handles PROVE lock'[x] = None \/ (lock'[x] = lock[x] /\ lock[x] # t)
  <2>1. CASE x = h
    BY <1>1, <1>2, <2>1
  <2>2. CASE x # h
    <3>1. lock[x] # t
      BY <2>2, LockOwner
    <3>2. QED BY <1>1, <1>2, <2>2, <3>1
  <2>3. QED BY <2>1, <2>2
<1>9. /\ player' \in [Handles -> PlayerRec]
      /\ \A x \in Handles : player'[x] = player[x] \/ player'[x] \in Standing
  <2>1. Standing \subseteq PlayerRec
    BY DEF Standing, PlayerRec
  <2>2. \A x \in Handles : player'[x] = player[x] \/ player'[x] \in Standing
    <3> HIDE DEF h
    <3>1. QED BY <1>5, <1>6
  <2>3. player' = [x \in Handles |-> player'[x]]
    BY <1>1, <1>2
  <2>4. QED BY <1>2, <2>1, <2>2, <2>3
<1>10. TypeInv'
  <2>1. /\ bound' \in [Nicks -> Actors \cup {None}]
        /\ sessions' \in [Nicks -> Handles \cup {None}] /\ owned' = owned
        /\ manager' \in Tasks \cup {None}
        /\ row' \in [Actors -> Places]
        /\ channels' \subseteq Rooms /\ failures' \in 0..MaxFailures
    BY DEF registry, TypeInv, TypeOK, Rooms
  <2>2. player[h].actor \in Actors
    BY <1>2 DEF Standing
  <2>3. place' \in [Actors -> Places] /\ dirty' \subseteq Actors /\ lost' \subseteq Actors
    BY <2>2 DEF Stand, TypeInv, TypeOK
  <2>4. \A n \in Nicks : sessions'[n] # None => player'[sessions'[n]] \in Standing
    <3>1. ASSUME NEW n \in Nicks, sessions'[n] # None PROVE player'[sessions'[n]] \in Standing
      <4>1. sessions'[n] = sessions[n] /\ sessions[n] \in Handles /\ player[sessions[n]] \in Standing
        BY <2>1, <3>1 DEF registry, TypeInv, TypeOK
      <4>2. QED BY <1>9, <4>1
    <3>2. QED BY <3>1
  <2>5. lock' \in [Handles -> Tasks \cup {None}]
    BY <1>1, <1>2
  <2>6. /\ r.pc \notin HandleSteps /\ r.pc \notin {"write", "wake"} /\ r.handle = None /\ r.nick \in Nicks
    BY <1>2, <1>4 DEF HandleSteps
  <2>7. Become(t, r) /\ r \in TaskState
    BY <1>1, <1>4
  <2>8. \A x \in Handles : lock'[x] = None \/ (lock'[x] = lock[x] /\ lock[x] # t)
    BY <1>8
  <2>9. QED BY <1>9, <2>1, <2>3, <2>4, <2>5, <2>6, <2>7, <2>8, StepType
<1>11. \A x \in Handles : player'[x].actor = player[x].actor
  <2> HIDE DEF h
  <2>1. QED BY <1>5, <1>6
<1>12. QED BY <1>4, <1>7, <1>10, <1>11

\* The commands that move the player.
LEMMA ActType ==
    ASSUME TypeInv, NEW t \in Tasks,
           (\E p \in Places : Go(t, p)) \/ (\E p, q \in Places : Warp(t, p, q)) \/ Wake(t)
    PROVE  /\ TypeInv'
           /\ task[t].pc \in LockSteps
           /\ task'[t].pc = "sync" /\ task'[t].nick = task[t].nick /\ task'[t].verb = task[t].verb
           /\ \A h \in Handles : player'[h].actor = player[h].actor
<1>1. task[t].pc \in LockSteps
  BY DEF Go, Warp, Wake, At, LockSteps
<1>2. ASSUME NEW p \in Places, Go(t, p) PROVE \E to, on \in Places :
        /\ Moved(t, to) /\ Stand(player[task[t].handle].actor, on)
        /\ UNCHANGED <<registry, manager, row, channels, failures>>
  BY <1>2 DEF Go
<1>3. ASSUME NEW p \in Places, NEW q \in Places, Warp(t, p, q) PROVE \E to, on \in Places :
        /\ Moved(t, to) /\ Stand(player[task[t].handle].actor, on)
        /\ UNCHANGED <<registry, manager, row, channels, failures>>
  BY <1>3 DEF Warp
<1>4. ASSUME Wake(t) PROVE \E to, on \in Places :
        /\ Moved(t, to) /\ Stand(player[task[t].handle].actor, on)
        /\ UNCHANGED <<registry, manager, row, channels, failures>>
  <2>1. task[t].spot \in Places
    BY <1>4, TaskType DEF Wake, At, Shape
  <2>2. QED BY <1>4, <2>1 DEF Wake
<1>5. QED BY <1>1, <1>2, <1>3, <1>4, MovedType

\* Where the killed wakes up is a place.
LEMMA RespawnType == ASSUME TypeInv, NEW a \in Actors PROVE Respawn(a) \in Places
BY GatewayAssumption DEF Respawn, TypeInv, TypeOK

\* Somebody is killed.
LEMMA DieType ==
    ASSUME TypeInv, NEW t \in Tasks, NEW a \in Actors, Die(t, a)
    PROVE  /\ TypeInv'
           /\ task'[t].pc = "wake" /\ task'[t].nick = task[t].nick /\ task'[t].verb = task[t].verb
           /\ task'[t].handle = task[t].handle
<1> DEFINE p == Respawn(a)
           r == [task[t] EXCEPT !.pc = "wake", !.spot = p]
           h == task[t].handle
<1>1. /\ Become(t, r) /\ task[t].pc = "act" /\ Stand(a, p) /\ p \in Places
      /\ UNCHANGED <<registry, player, manager, lock, row, channels, failures>>
  BY RespawnType DEF Die, At
<1>2. task[t] \in TaskState /\ h \in Handles /\ player[h] \in Standing /\ task[t].nick \in Nicks
  BY <1>1, TaskType DEF Shape, HandleSteps, Nick
<1> HIDE DEF p
<1>3. /\ r \in TaskState /\ r.pc = "wake" /\ r.nick = task[t].nick /\ r.handle = h
      /\ r.verb = task[t].verb /\ r.spot = p
  BY ONLY <1>1, <1>2 DEF TaskState, Steps
<1> HIDE DEF r
<1>4. task'[t] = r
  BY <1>1, BecomeValue
<1>5. TypeInv'
  <2>1. /\ bound' \in [Nicks -> Actors \cup {None}]
        /\ sessions' \in [Nicks -> Handles \cup {None}] /\ owned' = owned
        /\ player' \in [Handles -> PlayerRec] /\ manager' \in Tasks \cup {None}
        /\ lock' \in [Handles -> Tasks \cup {None}] /\ row' \in [Actors -> Places]
        /\ channels' \subseteq Rooms /\ failures' \in 0..MaxFailures
    BY <1>1 DEF registry, TypeInv, TypeOK, Rooms
  <2>2. place' \in [Actors -> Places] /\ dirty' \subseteq Actors /\ lost' \subseteq Actors
    BY <1>1 DEF Stand, TypeInv, TypeOK
  <2>3. \A n \in Nicks : sessions'[n] # None => player'[sessions'[n]] \in Standing
    BY <1>1 DEF registry, TypeInv
  <2>4. \A x \in Handles :
          \/ lock'[x] = None
          \/ lock'[x] = t /\ r.handle = x /\ r.pc \in LockSteps
          \/ lock'[x] = lock[x] /\ lock[x] # t
    BY <1>1, <1>3, LockOwner DEF LockSteps
  <2>5. /\ \A x \in Handles : player'[x] = player[x] \/ player'[x] \in Standing
        /\ r.handle # None /\ player'[r.handle] \in Standing
        /\ r.nick \in Nicks /\ r.pc # "write" /\ r.spot \in Places
    BY <1>1, <1>2, <1>3, GatewayAssumption
  <2>6. Become(t, r) /\ r \in TaskState
    BY <1>1, <1>3
  <2>7. QED BY <2>1, <2>2, <2>3, <2>4, <2>5, <2>6, StepType
<1>6. QED BY <1>3, <1>4, <1>5

\* The player speaks.
LEMMA SayType ==
    ASSUME TypeInv, NEW t \in Tasks, Say(t)
    PROVE  /\ TypeInv'
           /\ task[t].pc = "act" /\ task[t].verb = "say"
           /\ task'[t].pc = "audience" /\ task'[t].nick = task[t].nick
<1> DEFINE r == [task[t] EXCEPT !.pc = "audience"]
           h == task[t].handle
<1>1. /\ Become(t, r) /\ task[t].pc = "act" /\ task[t].verb = "say" /\ lock' = [lock EXCEPT ![h] = None]
      /\ UNCHANGED <<registry, player, manager, world, channels, failures>>
  BY DEF Say, At, Unlocked
<1>2. /\ task[t] \in TaskState /\ h \in Handles /\ player[h] \in Standing /\ task[t].nick \in Nicks
      /\ lock \in [Handles -> Tasks \cup {None}]
  BY <1>1, TaskType DEF Shape, HandleSteps, Nick, TypeInv, TypeOK
<1>3. /\ r \in TaskState /\ r.pc = "audience" /\ r.nick = task[t].nick /\ r.handle = h
  BY ONLY <1>2 DEF TaskState, Steps
<1> HIDE DEF r
<1>4. task'[t] = r
  BY <1>1, BecomeValue
<1>5. TypeInv'
  <2>1. /\ bound' \in [Nicks -> Actors \cup {None}]
        /\ sessions' \in [Nicks -> Handles \cup {None}] /\ owned' = owned
        /\ player' \in [Handles -> PlayerRec] /\ manager' \in Tasks \cup {None}
        /\ place' \in [Actors -> Places] /\ row' \in [Actors -> Places] /\ dirty' \subseteq Actors /\ lost' \subseteq Actors
        /\ channels' \subseteq Rooms /\ failures' \in 0..MaxFailures
    BY <1>1 DEF registry, world, TypeInv, TypeOK, Rooms
  <2>2. \A n \in Nicks : sessions'[n] # None => player'[sessions'[n]] \in Standing
    BY <1>1 DEF registry, TypeInv
  <2>3. lock' \in [Handles -> Tasks \cup {None}]
    BY <1>1, <1>2
  <2>4. ASSUME NEW x \in Handles PROVE lock'[x] = None \/ (lock'[x] = lock[x] /\ lock[x] # t)
    <3>1. CASE x = h
      BY <1>1, <1>2, <3>1
    <3>2. CASE x # h
      BY <1>1, <1>2, <3>2, LockOwner
    <3>3. QED BY <3>1, <3>2
  <2>5. /\ \A x \in Handles : player'[x] = player[x] \/ player'[x] \in Standing
        /\ r.handle # None /\ player'[r.handle] \in Standing
        /\ r.nick \in Nicks /\ r.pc \notin {"write", "wake"}
    BY <1>1, <1>2, <1>3, GatewayAssumption
  <2>6. Become(t, r) /\ r \in TaskState
    BY <1>1, <1>3
  <2>7. QED BY <2>1, <2>2, <2>3, <2>4, <2>5, <2>6, StepType
<1>6. QED BY <1>1, <1>3, <1>4, <1>5

\* The audience is gathered, under the manager's mutex.
LEMMA AudienceType ==
    ASSUME TypeInv, NEW t \in Tasks, Gather(t) \/ Listen(t)
    PROVE  /\ TypeInv'
           /\ task[t].pc = "audience"
           /\ (task'[t].pc = "audience" /\ task'[t].nick = task[t].nick) \/ task'[t] = Idle
<1>1. /\ UNCHANGED <<registry, player, lock, world, channels, failures>> /\ task[t].pc = "audience"
      /\ task[t] \in TaskState /\ Shape(t) /\ task[t].nick \in Nicks
  BY TaskType DEF Gather, Listen, At, Shape, Nick
<1>2. /\ place' \in [Actors -> Places] /\ row' \in [Actors -> Places] /\ dirty' \subseteq Actors /\ lost' \subseteq Actors
      /\ channels' \subseteq Rooms /\ failures' \in 0..MaxFailures /\ manager' \in Tasks \cup {None}
  BY <1>1 DEF world, TypeInv, TypeOK, Rooms, Gather, Listen
<1>3. ASSUME NEW S \in SUBSET Nicks, NEW h \in {None, task[t].handle},
             Become(t, [task[t] EXCEPT !.handle = h, !.todo = S])
      PROVE  TypeInv' /\ task'[t].pc = "audience" /\ task'[t].nick = task[t].nick
  <2> DEFINE r == [task[t] EXCEPT !.handle = h, !.todo = S]
  <2>1. Become(t, r)
    BY <1>3
  <2>2. /\ r \in TaskState /\ r.pc = "audience" /\ r.nick = task[t].nick /\ r.handle = h
    BY ONLY <1>1, S \in SUBSET Nicks, h \in {None, task[t].handle} DEF TaskState
  <2>3. r.handle # None => player[r.handle] \in Standing
    BY <1>1, <2>2 DEF Shape
  <2> HIDE DEF r
  <2>4. task'[t] = r
    BY <2>1, BecomeValue
  <2>5. TypeInv'
    BY <1>1, <1>2, <2>1, <2>2, <2>3, AloneType DEF LockSteps, HandleSteps
  <2>6. QED BY <2>2, <2>4, <2>5
<1>4. CASE Gather(t)
  <2> DEFINE S == {n \in Nicks \ {Nick(t)} : sessions[n] # None}
  <2>1. Become(t, [task[t] EXCEPT !.handle = None, !.todo = S]) /\ S \in SUBSET Nicks
    BY <1>4 DEF Gather
  <2> HIDE DEF S
  <2>2. QED BY <1>1, <1>3, <2>1
<1>5. CASE Listen(t) /\ ~Finish(t)
  <2>1. PICK n \in task[t].todo : Become(t, [task[t] EXCEPT !.todo = @ \ {n}])
    BY <1>5 DEF Listen
  <2> DEFINE S == task[t].todo \ {n}
             h == task[t].handle
  <2>2. S \in SUBSET Nicks
    BY <1>1 DEF TaskState
  <2>3. [task[t] EXCEPT !.todo = @ \ {n}] = [task[t] EXCEPT !.handle = h, !.todo = S]
    BY ONLY <1>1 DEF TaskState
  <2>4. Become(t, [task[t] EXCEPT !.handle = h, !.todo = S])
    BY <2>1, <2>3
  <2> HIDE DEF S
  <2>5. QED BY <1>1, <1>3, <2>2, <2>4
<1>6. CASE Finish(t)
  BY <1>1, <1>2, <1>6, FinishType DEF LockSteps
<1>7. QED BY <1>1, <1>4, <1>5, <1>6

\* QUIT reads the room, and either message then takes the session away.
LEMMA PeekType ==
    ASSUME TypeInv, NEW t \in Tasks, Peek(t)
    PROVE  /\ TypeInv'
           /\ task'[t].pc = "logout" /\ task'[t].nick = task[t].nick /\ task'[t].verb = task[t].verb
<1> DEFINE p == player[task[t].handle].at
           r == [task[t] EXCEPT !.pc = "logout", !.spot = p, !.handle = None]
<1>1. /\ Become(t, r) /\ task[t].pc = "peek"
      /\ UNCHANGED <<registry, player, manager, lock, world, channels, failures>>
  BY DEF Peek, At
<1>2. /\ task[t] \in TaskState /\ task[t].nick \in Nicks /\ p \in Places
  BY <1>1, TaskType DEF Shape, HandleSteps, Nick, Standing
<1> HIDE DEF p
<1>3. /\ r \in TaskState /\ r.pc = "logout" /\ r.nick = task[t].nick /\ r.handle = None
      /\ r.verb = task[t].verb
  BY ONLY <1>2 DEF TaskState, Steps
<1> HIDE DEF r
<1>4. task'[t] = r
  BY <1>1, BecomeValue
<1>5. manager' \in Tasks \cup {None} /\ failures' \in 0..MaxFailures
  BY <1>1 DEF TypeInv, TypeOK
<1>6. TypeInv'
  BY <1>1, <1>2, <1>3, <1>5, AloneType DEF LockSteps, HandleSteps
<1>7. QED BY <1>3, <1>4, <1>6

\* The session leaves the map.
LEMMA LogoutType ==
    ASSUME TypeInv, NEW t \in Tasks, Logout(t)
    PROVE  /\ TypeInv'
           /\ task[t].pc = "logout"
           /\ \/ task'[t] = Idle /\ UNCHANGED <<sessions, manager>>
              \/ /\ bound[task[t].nick] # None /\ sessions[task[t].nick] # None
                 /\ manager' = t /\ sessions' = [sessions EXCEPT ![task[t].nick] = None]
                 /\ task'[t].pc = "clone" /\ task'[t].nick = task[t].nick
                 /\ task'[t].verb = task[t].verb /\ task'[t].handle = sessions[task[t].nick]
<1> DEFINE n == task[t].nick
           h == sessions[n]
           r == [task[t] EXCEPT !.pc = "clone", !.handle = h]
<1>1. /\ UNCHANGED <<bound, owned, player, lock, world, channels, failures>> /\ task[t].pc = "logout"
      /\ task[t] \in TaskState /\ n \in Nicks /\ sessions \in [Nicks -> Handles \cup {None}]
  BY TaskType DEF Logout, At, Shape, Nick, TypeInv, TypeOK
<1>2. /\ bound' \in [Nicks -> Actors \cup {None}] /\ owned' = owned
      /\ player' \in [Handles -> PlayerRec] /\ lock' \in [Handles -> Tasks \cup {None}]
      /\ place' \in [Actors -> Places] /\ row' \in [Actors -> Places] /\ dirty' \subseteq Actors /\ lost' \subseteq Actors
      /\ channels' \subseteq Rooms /\ failures' \in 0..MaxFailures
  BY <1>1 DEF world, TypeInv, TypeOK, Rooms
<1>3. CASE Finish(t) /\ UNCHANGED <<sessions, manager>>
  <2>1. manager' \in Tasks \cup {None}
    BY <1>3 DEF TypeInv, TypeOK
  <2>2. QED BY <1>1, <1>2, <1>3, <2>1, FinishType DEF LockSteps, registry
<1>4. CASE /\ bound[n] # None /\ h # None
           /\ manager' = t /\ sessions' = [sessions EXCEPT ![n] = None] /\ Become(t, r)
  <2>1. h \in Handles /\ player[h] \in Standing
    BY <1>1, <1>4 DEF TypeInv
  <2>2. /\ sessions' \in [Nicks -> Handles \cup {None}] /\ manager' \in Tasks \cup {None}
        /\ \A m \in Nicks : sessions'[m] # None => sessions'[m] = sessions[m]
    BY <1>1, <1>4
  <2>3. \A m \in Nicks : sessions'[m] # None => player'[sessions'[m]] \in Standing
    BY <1>1, <2>2 DEF TypeInv
  <2>4. /\ r \in TaskState /\ r.pc = "clone" /\ r.nick = n /\ r.handle = h /\ r.verb = task[t].verb
    BY ONLY <1>1, <2>1 DEF TaskState, Steps
  <2>5. Become(t, r)
    BY <1>4
  <2> HIDE DEF r
  <2>6. task'[t] = r
    BY <2>5, BecomeValue
  <2>7. \A x \in Handles : lock'[x] = None \/ (lock'[x] = lock[x] /\ lock[x] # t)
    BY <1>1, LockOwner DEF LockSteps
  <2>8. /\ \A x \in Handles : player'[x] = player[x] \/ player'[x] \in Standing
        /\ r.handle # None /\ player'[r.handle] \in Standing
        /\ r.nick \in Nicks /\ r.pc \notin {"write", "wake"}
    BY <1>1, <1>4, <2>1, <2>4
  <2>9. TypeInv'
    BY <1>2, <2>2, <2>3, <2>4, <2>5, <2>7, <2>8, StepType
  <2>10. QED BY <1>1, <1>4, <2>4, <2>6, <2>9
<1>5. QED BY <1>3, <1>4 DEF Logout, Nick

\* It is read once more,
LEMMA CloneType ==
    ASSUME TypeInv, NEW t \in Tasks, Clone(t)
    PROVE  /\ TypeInv'
           /\ task[t].pc = "clone"
           /\ task'[t].pc = "write" /\ task'[t].nick = task[t].nick /\ task'[t].verb = task[t].verb
           /\ task'[t].handle = task[t].handle /\ task'[t].copy = player[task[t].handle]
<1> DEFINE h == task[t].handle
           c == player[h]
           r == [task[t] EXCEPT !.pc = "write", !.copy = c]
<1>1. /\ Become(t, r) /\ task[t].pc = "clone"
      /\ UNCHANGED <<registry, player, manager, lock, world, channels, failures>>
  BY DEF Clone, At
<1>2. /\ task[t] \in TaskState /\ task[t].nick \in Nicks /\ h # None /\ c \in Standing
  BY <1>1, TaskType DEF Shape, HandleSteps, Nick
<1>3. c \in PlayerRec
  BY <1>2 DEF Standing, PlayerRec
<1> HIDE DEF c
<1>4. /\ r \in TaskState /\ r.pc = "write" /\ r.nick = task[t].nick /\ r.handle = h
      /\ r.verb = task[t].verb /\ r.copy = c
  BY ONLY <1>2, <1>3 DEF TaskState, Steps
<1> HIDE DEF r
<1>5. task'[t] = r
  BY <1>1, BecomeValue
<1>6. manager' \in Tasks \cup {None} /\ failures' \in 0..MaxFailures
  BY <1>1 DEF TypeInv, TypeOK
<1>7. TypeInv'
  BY <1>1, <1>2, <1>4, <1>6, AloneType DEF LockSteps, c
<1>8. QED BY <1>1, <1>4, <1>5, <1>7 DEF c

\* and written to the actor.
LEMMA WriteType ==
    ASSUME TypeInv, NEW t \in Tasks, Write(t)
    PROVE  /\ TypeInv'
           /\ task[t].pc = "write"
           /\ task'[t].pc = "flush" /\ task'[t].nick = task[t].nick /\ task'[t].verb = task[t].verb
           /\ task'[t].handle = task[t].handle
<1> DEFINE h == task[t].handle
           c == task[t].copy
           r == [task[t] EXCEPT !.pc = "flush"]
<1>1. /\ Become(t, r) /\ task[t].pc = "write" /\ Stand(c.actor, c.at)
      /\ UNCHANGED <<registry, player, manager, lock, row, channels, failures>>
  BY DEF Write, At, Goto
<1>2. /\ task[t] \in TaskState /\ task[t].nick \in Nicks /\ h # None /\ player[h] \in Standing
      /\ c.actor \in Actors /\ c.at \in Places
  BY <1>1, TaskType DEF Shape, HandleSteps, Nick, Standing
<1>3. /\ r \in TaskState /\ r.pc = "flush" /\ r.nick = task[t].nick /\ r.handle = h
      /\ r.verb = task[t].verb
  BY ONLY <1>2 DEF TaskState, Steps
<1> HIDE DEF r
<1>4. task'[t] = r
  BY <1>1, BecomeValue
<1>5. /\ place' \in [Actors -> Places] /\ dirty' \subseteq Actors /\ lost' \subseteq Actors
  BY <1>1, <1>2 DEF Stand, TypeInv, TypeOK
<1>6. /\ manager' \in Tasks \cup {None} /\ failures' \in 0..MaxFailures
      /\ row' \in [Actors -> Places] /\ channels' \subseteq Rooms
  BY <1>1 DEF TypeInv, TypeOK, Rooms
<1>7. TypeInv'
  BY <1>1, <1>2, <1>3, <1>5, <1>6, QuietType DEF LockSteps
<1>8. QED BY <1>1, <1>3, <1>4, <1>7

\* The logout is saved and the nick is free.
LEMMA FlushType ==
    ASSUME TypeInv, NEW t \in Tasks, Flush(t)
    PROVE  /\ TypeInv'
           /\ task[t].pc = "flush"
           /\ task'[t] = Idle \/ (task'[t].pc = "sync" /\ task'[t].nick = task[t].nick /\ task'[t].verb = "quit"
                                  /\ task'[t].handle = None)
<1> DEFINE n == task[t].nick
           pt == {World, task[t].spot} \ {None}
           r == [Idle EXCEPT !.pc = "sync", !.nick = n, !.verb = "quit", !.part = pt]
<1>1. /\ Saved /\ bound' = Unbound(n) /\ manager' = None /\ task[t].pc = "flush"
      /\ UNCHANGED <<sessions, owned, player, lock, channels, failures>>
      /\ Finish(t) \/ Become(t, r)
  BY DEF Flush, At, Nick
<1>2. task[t] \in TaskState /\ n \in Nicks
  BY <1>1, TaskType DEF Shape, Nick
<1>3. pt \subseteq Rooms
  BY <1>2 DEF TaskState, Rooms
<1> HIDE DEF pt
<1>4. PICK s \in TaskState : Become(t, s) /\ s.handle = None
                             /\ (s = Idle \/ (s.pc = "sync" /\ s.nick = n /\ s.verb = "quit"))
  <2>1. CASE Finish(t)
    BY <2>1, IdleType DEF Finish
  <2>2. CASE Become(t, r)
    <3>1. r \in TaskState /\ r.pc = "sync" /\ r.nick = n /\ r.verb = "quit" /\ r.handle = None
      BY ONLY <1>2, <1>3, IdleType DEF TaskState, Steps, VerbKinds
    <3> HIDE DEF r
    <3>2. QED BY <2>2, <3>1
  <2>3. QED BY <1>1, <2>1, <2>2
<1>5. task'[t] = s
  BY <1>4, BecomeValue
<1>6. /\ bound' \in [Nicks -> Actors \cup {None}]
      /\ sessions' \in [Nicks -> Handles \cup {None}] /\ owned' = owned
      /\ player' \in [Handles -> PlayerRec] /\ manager' \in Tasks \cup {None}
      /\ lock' \in [Handles -> Tasks \cup {None}]
      /\ channels' \subseteq Rooms /\ failures' \in 0..MaxFailures
  BY <1>1 DEF Unbound, TypeInv, TypeOK, Rooms
<1>7. place' \in [Actors -> Places] /\ row' \in [Actors -> Places] /\ dirty' \subseteq Actors /\ lost' \subseteq Actors
  BY <1>1, SavedType
<1>8. \A m \in Nicks : sessions'[m] # None => player'[sessions'[m]] \in Standing
  BY <1>1 DEF TypeInv
<1>9. \A x \in Handles : lock'[x] = None \/ (lock'[x] = lock[x] /\ lock[x] # t)
  BY <1>1, LockOwner DEF LockSteps
<1>10. s.pc \notin HandleSteps /\ s.pc \notin {"write", "wake"} /\ (s.pc # "idle" => s.nick \in Nicks)
  BY <1>2, <1>4, IdleType DEF HandleSteps
<1>11. TypeInv'
  BY <1>1, <1>4, <1>6, <1>7, <1>8, <1>9, <1>10, StepType
<1>12. QED BY <1>1, <1>4, <1>5, <1>11

\* It could not be saved: the session comes back.
LEMMA FlushFailsType ==
    ASSUME TypeInv, NEW t \in Tasks, FlushFails(t)
    PROVE  TypeInv' /\ task[t].pc = "flush" /\ task'[t] = Idle
<1> DEFINE n == task[t].nick
           h == task[t].handle
<1>1. /\ sessions' = [sessions EXCEPT ![n] = h] /\ manager' = None /\ Finish(t)
      /\ task[t].pc = "flush" /\ failures' \in 0..MaxFailures /\ SaveFailed
      /\ UNCHANGED <<bound, owned, player, lock, channels>>
  BY GatewayAssumption DEF FlushFails, SaveFailed, Unwritten, At, Nick, TypeInv, TypeOK
<1>2. n \in Nicks /\ h \in Handles /\ player[h] \in Standing /\ sessions \in [Nicks -> Handles \cup {None}]
  BY <1>1, TaskType DEF Shape, Nick, HandleSteps, TypeInv, TypeOK
<1>3. sessions' \in [Nicks -> Handles \cup {None}] /\ \A m \in Nicks : sessions'[m] \in {sessions[m], h}
  BY <1>1, <1>2
<1>4. \A m \in Nicks : sessions'[m] # None => player'[sessions'[m]] \in Standing
  BY <1>1, <1>2, <1>3 DEF TypeInv
<1>5. /\ bound' \in [Nicks -> Actors \cup {None}] /\ owned' = owned
      /\ player' \in [Handles -> PlayerRec] /\ manager' \in Tasks \cup {None}
      /\ lock' \in [Handles -> Tasks \cup {None}]
      /\ place' \in [Actors -> Places] /\ row' \in [Actors -> Places] /\ dirty' \subseteq Actors /\ lost' \subseteq Actors
      /\ channels' \subseteq Rooms
  BY <1>1, SavedType DEF TypeInv, TypeOK, Rooms
<1>6. \A x \in Handles : lock'[x] = None \/ (lock'[x] = lock[x] /\ lock[x] # t)
  BY <1>1, LockOwner DEF LockSteps
<1>7. task'[t] = Idle /\ Become(t, Idle)
  BY <1>1, BecomeValue DEF Finish
<1>8. TypeInv'
  BY <1>1, <1>3, <1>4, <1>5, <1>6, <1>7, IdleType, StepType DEF HandleSteps
<1>9. QED BY <1>1, <1>7, <1>8

\* The outcome's channels, and its save.
LEMMA DeliverType ==
    ASSUME TypeInv, NEW t \in Tasks, Part(t) \/ Join(t) \/ Save(t) \/ SaveFails(t)
    PROVE  /\ TypeInv'
           /\ task[t].pc \in {"sync", "save"}
           /\ UNCHANGED registry /\ UNCHANGED player /\ UNCHANGED manager
           /\ \/ task[t].pc = "sync" /\ task'[t].pc \in {"sync", "save"}
                 /\ task'[t].nick = task[t].nick /\ task'[t].verb = task[t].verb
                 /\ UNCHANGED world /\ failures' = failures
                 /\ (task'[t].pc = "sync" \/ task[t].verb # "quit")
              \/ task'[t] = Idle /\ task[t].verb = "quit" /\ task[t].pc = "sync"
                 /\ UNCHANGED world /\ failures' = failures
              \/ task'[t] = Idle /\ task[t].pc = "save" /\ Saved /\ failures' = failures
              \/ task'[t] = Idle /\ task[t].pc = "save" /\ SaveFailed
<1>1. /\ UNCHANGED <<registry, player, manager, lock>> /\ task[t].pc \in {"sync", "save"}
      /\ task[t] \in TaskState /\ Shape(t) /\ task[t].nick \in Nicks
      /\ task[t].part \subseteq Rooms /\ task[t].join \subseteq Rooms
      /\ manager' \in Tasks \cup {None}
  BY TaskType DEF Part, Join, Save, SaveFails, At, Shape, Nick, TypeInv, TypeOK
<1>2. ASSUME NEW pc \in {"sync", "save"}, NEW p \in SUBSET Rooms, NEW j \in SUBSET Rooms,
             Become(t, [task[t] EXCEPT !.pc = pc, !.part = p, !.join = j]),
             UNCHANGED world, channels' \subseteq Rooms, failures' = failures
      PROVE  TypeInv' /\ task'[t].pc = pc /\ task'[t].nick = task[t].nick /\ task'[t].verb = task[t].verb
  <2> DEFINE r == [task[t] EXCEPT !.pc = pc, !.part = p, !.join = j]
  <2>1. Become(t, r)
    BY <1>2
  <2>2. /\ r \in TaskState /\ r.pc = pc /\ r.nick = task[t].nick /\ r.handle = task[t].handle
        /\ r.verb = task[t].verb
    BY ONLY <1>1, pc \in {"sync", "save"}, p \in SUBSET Rooms, j \in SUBSET Rooms DEF TaskState, Steps
  <2> HIDE DEF r
  <2>3. task'[t] = r
    BY <2>1, BecomeValue
  <2>4. /\ place' \in [Actors -> Places] /\ row' \in [Actors -> Places] /\ dirty' \subseteq Actors /\ lost' \subseteq Actors
        /\ failures' \in 0..MaxFailures
    BY <1>2 DEF world, TypeInv, TypeOK
  <2>5. r.pc \notin HandleSteps /\ (r.handle # None => player[r.handle] \in Standing)
        /\ task[t].pc \notin LockSteps
    BY <1>1, <2>2 DEF HandleSteps, Shape, LockSteps
  <2>6. TypeInv'
    BY <1>1, <1>2, <2>1, <2>2, <2>4, <2>5, QuietType DEF HandleSteps
  <2>7. QED BY <2>2, <2>3, <2>6
<1>3. ASSUME Finish(t), UNCHANGED channels, Saved \/ SaveFailed, failures' \in 0..MaxFailures
      PROVE  TypeInv' /\ task'[t] = Idle
  <2>1. place' \in [Actors -> Places] /\ row' \in [Actors -> Places] /\ dirty' \subseteq Actors /\ lost' \subseteq Actors
        /\ channels' \subseteq Rooms
    BY <1>3, SavedType DEF TypeInv, TypeOK, Rooms
  <2>2. QED BY <1>1, <1>3, <2>1, FinishType DEF LockSteps
<1>4. CASE Part(t)
  <2>1. [task[t] EXCEPT !.part = {}] = [task[t] EXCEPT !.pc = "sync", !.part = {}, !.join = task[t].join]
    <3>1. task[t].pc = "sync"
      BY <1>4 DEF Part, At
    <3>2. QED BY ONLY <1>1, <3>1 DEF TaskState
  <2> DEFINE j == task[t].join
  <2>2. Become(t, [task[t] EXCEPT !.pc = "sync", !.part = {}, !.join = j])
    BY <1>4, <2>1 DEF Part
  <2>3. channels' \subseteq Rooms /\ UNCHANGED world /\ failures' = failures /\ task[t].pc = "sync"
    BY <1>4 DEF Part, At, TypeInv, TypeOK, Rooms
  <2>4. j \in SUBSET Rooms /\ {} \in SUBSET Rooms
    BY <1>1
  <2> HIDE DEF j
  <2>5. TypeInv' /\ task'[t].pc = "sync" /\ task'[t].nick = task[t].nick /\ task'[t].verb = task[t].verb
    BY <1>2, <2>2, <2>3, <2>4
  <2>6. QED BY <1>1, <2>3, <2>5
<1>5. CASE Join(t)
  <2>1. UNCHANGED world /\ failures' = failures /\ task[t].pc = "sync" /\ channels' \subseteq Rooms
    BY <1>1, <1>5 DEF Join, At, TypeInv, TypeOK, Rooms
  <2>2. CASE Finish(t) /\ task[t].verb = "quit"
    <3>1. /\ place' \in [Actors -> Places] /\ row' \in [Actors -> Places] /\ dirty' \subseteq Actors /\ lost' \subseteq Actors
          /\ failures' \in 0..MaxFailures
      BY <2>1 DEF world, TypeInv, TypeOK
    <3>2. QED BY <1>1, <2>1, <2>2, <3>1, FinishType DEF LockSteps
  <2>3. CASE Become(t, [task[t] EXCEPT !.pc = "save", !.join = {}]) /\ task[t].verb # "quit"
    <3> DEFINE p == task[t].part
    <3>1. [task[t] EXCEPT !.pc = "save", !.join = {}] = [task[t] EXCEPT !.pc = "save", !.part = p, !.join = {}]
      BY ONLY <1>1 DEF TaskState
    <3>2. Become(t, [task[t] EXCEPT !.pc = "save", !.part = p, !.join = {}])
      BY <2>3, <3>1
    <3>3. p \in SUBSET Rooms /\ {} \in SUBSET Rooms
      BY <1>1
    <3> HIDE DEF p
    <3>4. TypeInv' /\ task'[t].pc = "save" /\ task'[t].nick = task[t].nick /\ task'[t].verb = task[t].verb
      BY <1>2, <2>1, <3>2, <3>3
    <3>5. QED BY <1>1, <2>1, <2>3, <3>4
  <2>4. QED BY <1>5, <2>2, <2>3 DEF Join
<1>6. CASE Save(t)
  <2>1. Finish(t) /\ UNCHANGED channels /\ Saved /\ failures' = failures /\ task[t].pc = "save"
    BY <1>6 DEF Save, At, Persist
  <2>2. failures' \in 0..MaxFailures
    BY <2>1 DEF TypeInv, TypeOK
  <2>3. QED BY <1>1, <1>3, <2>1, <2>2
<1>7. CASE SaveFails(t)
  <2>1. Finish(t) /\ UNCHANGED channels /\ SaveFailed /\ task[t].pc = "save"
    BY <1>7 DEF SaveFails, At
  <2>2. failures' \in 0..MaxFailures
    BY <2>1, GatewayAssumption DEF SaveFailed, Unwritten, TypeInv, TypeOK
  <2>3. QED BY <1>1, <1>3, <2>1, <2>2
<1>8. QED BY <1>4, <1>5, <1>6, <1>7

\* A session is made over a handle nobody has: those in use stay as they are.
LEMMA ConnectedStays ==
    ASSUME TypeInv, NEW b \in [Nicks -> Actors \cup {None}], NEW n \in Nicks, NEW a \in Actors,
           NEW h \in Handles, Connected(b, n, a, h)
    PROVE  /\ player' \in [Handles -> PlayerRec]
           /\ player'[h] = Restored(a) /\ Restored(a) \in Standing /\ Restored(a).actor = a
           /\ \A x \in Handles : x # h => player'[x] = player[x]
           /\ bound' \in [Nicks -> Actors \cup {None}]
           /\ bound'[n] = a /\ \A m \in Nicks : m # n => bound'[m] = b[m]
           /\ \A m \in Nicks : sessions[m] # h /\ owned[m] # h
           /\ \A u \in Tasks : task[u].handle # h
<1>1. Restored(a) \in Standing /\ Restored(a).actor = a /\ Standing \subseteq PlayerRec
  BY DEF Restored, Standing, PlayerRec, TypeInv, TypeOK
<1>2. player' = [player EXCEPT ![h] = Restored(a)] /\ bound' = [b EXCEPT ![n] = a] /\ FreeHandle(h)
  BY DEF Connected
<1>3. player \in [Handles -> PlayerRec]
  BY DEF TypeInv, TypeOK
<1>4. QED BY <1>1, <1>2, <1>3 DEF FreeHandle

\* A login.
LEMMA LoginType ==
    ASSUME TypeInv, NEW t \in Tasks, NEW n \in Nicks, NEW a \in Actors, NEW h \in Handles,
           At(t, "idle"), Login(t, n, a, h)
    PROVE  /\ TypeInv'
           /\ sessions' = [sessions EXCEPT ![n] = h]
           /\ task'[t].pc = "sync" /\ task'[t].nick = n /\ task'[t].verb = "login"
           /\ task'[t].handle = None
<1> DEFINE b == AfterReclaim(n, a)
           jn == {World, place[a]}
           r == [Idle EXCEPT !.pc = "sync", !.nick = n, !.verb = "login", !.join = jn]
<1>1. /\ Connected(b, n, a, h) /\ sessions' = [sessions EXCEPT ![n] = h] /\ Become(t, r)
      /\ UNCHANGED <<owned, manager, lock, world, channels, failures>> /\ task[t].pc = "idle"
  BY DEF Login, At
<1>2. b \in [Nicks -> Actors \cup {None}] /\ sessions \in [Nicks -> Handles \cup {None}]
  BY DEF AfterReclaim, TypeInv, TypeOK
<1>3. jn \subseteq Rooms
  BY DEF Rooms, TypeInv, TypeOK
<1> HIDE DEF b, jn
<1>4. r \in TaskState /\ r.pc = "sync" /\ r.nick = n /\ r.verb = "login" /\ r.handle = None
  BY ONLY <1>3, IdleType, n \in Nicks DEF TaskState, Steps, VerbKinds
<1> HIDE DEF r
<1>5. task'[t] = r
  BY <1>1, BecomeValue
<1>6. /\ player' \in [Handles -> PlayerRec]
      /\ player'[h] = Restored(a) /\ Restored(a) \in Standing
      /\ \A x \in Handles : x # h => player'[x] = player[x]
      /\ bound' \in [Nicks -> Actors \cup {None}]
  BY <1>1, <1>2, ConnectedStays
<1>7. /\ sessions' \in [Nicks -> Handles \cup {None}] /\ owned' = owned
      /\ manager' \in Tasks \cup {None} /\ lock' \in [Handles -> Tasks \cup {None}]
      /\ place' \in [Actors -> Places] /\ row' \in [Actors -> Places] /\ dirty' \subseteq Actors /\ lost' \subseteq Actors
      /\ channels' \subseteq Rooms /\ failures' \in 0..MaxFailures
  BY <1>1, <1>2 DEF world, TypeInv, TypeOK, Rooms
<1>8. ASSUME NEW m \in Nicks, sessions'[m] # None PROVE player'[sessions'[m]] \in Standing
  <2>1. CASE sessions'[m] = h
    BY <1>6, <2>1
  <2>2. CASE sessions'[m] # h
    <3>1. sessions'[m] = sessions[m] /\ sessions[m] \in Handles /\ player[sessions[m]] \in Standing
      BY <1>1, <1>2, <1>8, <2>2 DEF TypeInv
    <3>2. QED BY <1>6, <2>2, <3>1
  <2>3. QED BY <2>1, <2>2
<1>9. \A x \in Handles : lock'[x] = None \/ (lock'[x] = lock[x] /\ lock[x] # t)
  BY <1>1, LockOwner DEF LockSteps
<1>10. \A x \in Handles : player'[x] = player[x] \/ player'[x] \in Standing
  BY <1>6
<1>11. r.pc \notin HandleSteps /\ r.pc \notin {"write", "wake"}
  BY <1>4 DEF HandleSteps
<1>12. TypeInv'
  BY <1>1, <1>4, <1>6, <1>7, <1>8, <1>9, <1>10, <1>11, StepType
<1>13. QED BY <1>1, <1>4, <1>5, <1>12

\* The calls of the library, which no handler makes.
LEMMA LibraryType ==
    ASSUME TypeInv, Library
    PROVE  TypeInv' /\ task' = task
<1>1. task' = task /\ manager' = manager /\ lock' = lock /\ channels' = channels /\ sessions' = sessions
  BY DEF Library, Connect, Release, Forget
<1>2. ASSUME bound' \in [Nicks -> Actors \cup {None}],
             owned' \in [Nicks -> Handles \cup {None}],
             player' \in [Handles -> PlayerRec],
             place' \in [Actors -> Places], row' \in [Actors -> Places], dirty' \subseteq Actors /\ lost' \subseteq Actors,
             failures' \in 0..MaxFailures,
             \A u \in Tasks : task[u].handle # None => player'[task[u].handle] \in Standing,
             \A n \in Nicks : sessions[n] # None => player'[sessions[n]] \in Standing,
             \A n \in Nicks : owned'[n] # None => player'[owned'[n]] \in Standing
      PROVE  TypeInv'
  <2>1. TypeOK'
    BY <1>1, <1>2 DEF TypeInv, TypeOK
  <2>2. \A u \in Tasks : task'[u] \in TaskState /\ Shape(u)'
    BY <1>1, <1>2 DEF TypeInv, Shape, Nick
  <2>3. QED BY <1>1, <1>2, <2>1, <2>2 DEF TypeInv
<1>3. ASSUME NEW n \in Nicks, NEW h \in Handles, NEW a \in Accounts[n], Connect(n, a, h)
      PROVE  TypeInv'
  <2>1. /\ Connected(bound, n, a, h) /\ owned' = [owned EXCEPT ![n] = h]
        /\ UNCHANGED <<sessions, world, failures>> /\ a \in Actors
        /\ bound \in [Nicks -> Actors \cup {None}] /\ owned \in [Nicks -> Handles \cup {None}]
        /\ sessions \in [Nicks -> Handles \cup {None}]
    BY <1>3, GatewayAssumption DEF Connect, TypeInv, TypeOK
  <2>2. /\ player' \in [Handles -> PlayerRec]
        /\ player'[h] = Restored(a) /\ Restored(a) \in Standing
        /\ \A x \in Handles : x # h => player'[x] = player[x]
        /\ bound' \in [Nicks -> Actors \cup {None}]
        /\ \A m \in Nicks : sessions[m] # h
        /\ \A u \in Tasks : task[u].handle # h
    BY <2>1, ConnectedStays
  <2>3. owned' \in [Nicks -> Handles \cup {None}] /\ place' \in [Actors -> Places]
        /\ row' \in [Actors -> Places] /\ dirty' \subseteq Actors /\ lost' \subseteq Actors /\ failures' \in 0..MaxFailures
    BY <2>1 DEF world, TypeInv, TypeOK
  <2>4. \A u \in Tasks : task[u].handle # None => player'[task[u].handle] \in Standing
    BY <2>2, TaskType DEF Shape
  <2>5. \A m \in Nicks : sessions[m] # None => player'[sessions[m]] \in Standing
    BY <2>1, <2>2 DEF TypeInv
  <2>6. ASSUME NEW m \in Nicks, owned'[m] # None PROVE player'[owned'[m]] \in Standing
    <3>1. CASE owned'[m] = h
      BY <2>2, <3>1
    <3>2. CASE owned'[m] # h
      <4>1. owned'[m] = owned[m] /\ owned[m] \in Handles /\ player[owned[m]] \in Standing
        BY <2>1, <2>6, <3>2 DEF TypeInv
      <4>2. QED BY <2>2, <3>2, <4>1
    <3>3. QED BY <3>1, <3>2
  <2>7. QED BY <1>2, <2>2, <2>3, <2>4, <2>5, <2>6
<1>4. ASSUME NEW n \in Nicks, Forget(n) PROVE TypeInv'
  <2>1. /\ owned' = [owned EXCEPT ![n] = None] /\ UNCHANGED <<bound, player, world, failures>>
        /\ owned \in [Nicks -> Handles \cup {None}]
    BY <1>4 DEF Forget, TypeInv, TypeOK
  <2>2. /\ bound' \in [Nicks -> Actors \cup {None}] /\ owned' \in [Nicks -> Handles \cup {None}]
        /\ player' \in [Handles -> PlayerRec]
        /\ place' \in [Actors -> Places] /\ row' \in [Actors -> Places] /\ dirty' \subseteq Actors /\ lost' \subseteq Actors
        /\ failures' \in 0..MaxFailures
    BY <2>1 DEF world, TypeInv, TypeOK
  <2>3. \A u \in Tasks : task[u].handle # None => player'[task[u].handle] \in Standing
    BY <2>1, TaskType DEF Shape
  <2>4. \A m \in Nicks : sessions[m] # None => player'[sessions[m]] \in Standing
    BY <2>1 DEF TypeInv
  <2>5. \A m \in Nicks : owned'[m] # None => player'[owned'[m]] \in Standing
    BY <2>1 DEF TypeInv
  <2>6. QED BY <1>2, <2>2, <2>3, <2>4, <2>5
<1>5. ASSUME NEW n \in Nicks, Release(n) PROVE TypeInv'
  <2>1. /\ owned[n] # None /\ UNCHANGED <<sessions, player>> /\ player[owned[n]] \in Standing
        /\ owned \in [Nicks -> Handles \cup {None}] /\ bound \in [Nicks -> Actors \cup {None}]
    BY <1>5 DEF Release, TypeInv, TypeOK
  <2>2. player[owned[n]].actor \in Actors /\ player[owned[n]].at \in Places
    BY <2>1 DEF Standing
  <2>3. /\ bound' \in [Nicks -> Actors \cup {None}] /\ owned' \in [Nicks -> Handles \cup {None}]
        /\ \A m \in Nicks : owned'[m] # None => owned'[m] = owned[m]
    BY <1>5, <2>1 DEF Release
  <2>4. /\ place' \in [Actors -> Places] /\ dirty' \subseteq Actors /\ lost' \subseteq Actors
    BY <1>5, <2>2 DEF Release, Written, Unwritten, TypeInv, TypeOK
  <2>5. row' \in [Actors -> Places]
    BY <1>5, <2>4 DEF Release, Written, Unwritten, TypeInv, TypeOK
  <2>6. failures' \in 0..MaxFailures
    BY <1>5, GatewayAssumption DEF Release, Unwritten, TypeInv, TypeOK
  <2>7. player' \in [Handles -> PlayerRec]
    BY <2>1 DEF TypeInv, TypeOK
  <2>8. \A u \in Tasks : task[u].handle # None => player'[task[u].handle] \in Standing
    BY <2>1, TaskType DEF Shape
  <2>9. \A m \in Nicks : /\ sessions[m] # None => player'[sessions[m]] \in Standing
                         /\ owned'[m] # None => player'[owned'[m]] \in Standing
    BY <2>1, <2>3 DEF TypeInv
  <2>10. QED BY <1>2, <2>3, <2>4, <2>5, <2>6, <2>7, <2>8, <2>9
<1>6. QED BY <1>1, <1>3, <1>4, <1>5 DEF Library

\* The start.
LEMMA InitType == Init => TypeInv
<1> SUFFICES ASSUME Init PROVE TypeInv
  OBVIOUS
<1>1. TypeOK
  BY GatewayAssumption DEF Init, TypeOK, NoPlayer, PlayerRec, Idle, Steps
<1>2. \A t \in Tasks : task[t] = Idle
  BY DEF Init
<1>3. \A t \in Tasks : task[t] \in TaskState /\ Shape(t)
  BY <1>2, IdleType DEF Shape, HandleSteps
<1>4. QED BY <1>1, <1>3 DEF Init, TypeInv

\* Every step keeps the types.
LEMMA NextType == TypeInv /\ [Next]_vars => TypeInv'
<1> SUFFICES ASSUME TypeInv, [Next]_vars PROVE TypeInv'
  OBVIOUS
<1>1. ASSUME NEW t \in Tasks, Command(t) PROVE TypeInv'
  <2>1. \A n \in Nicks : Accounts[n] \subseteq Actors
    BY GatewayAssumption
  <2>2. QED BY <1>1, <2>1, ReceiveType, LoginType DEF Command
<1>2. ASSUME NEW t \in Tasks, Continue(t) PROVE TypeInv'
  BY <1>2, HandleType, LockType, ActType, DieType, SayType, AudienceType, PeekType, LogoutType, CloneType,
     WriteType, FlushType, DeliverType
     DEF Continue
<1>3. ASSUME NEW t \in Tasks, FlushFails(t) \/ SaveFails(t) PROVE TypeInv'
  BY <1>3, FlushFailsType, DeliverType
<1>4. CASE UNCHANGED vars
  BY <1>4 DEF vars, TypeInv, TypeOK, Shape, Nick
<1>5. QED BY <1>1, <1>2, <1>3, <1>4, LibraryType DEF Next

\* Every variable keeps its type, and a session's mutex is held only by a
\* command that has a handle of that session: no command is left inside the
\* mutex of a session it let go of.
THEOREM GatewayTypeCorrect == Spec => []TypeOK
<1>1. TypeInv => TypeOK
  BY DEF TypeInv
<1>2. QED BY <1>1, InitType, NextType, PTL DEF Spec

\* A step of one handler is a step of no other.
LEMMA Others ==
    ASSUME TypeInv, NEW t \in Tasks, Command(t) \/ Continue(t) \/ FlushFails(t) \/ SaveFails(t)
    PROVE  \A u \in Tasks : u # t => task'[u] = task[u]
<1>1. \E r : Become(t, r)
  <2>1. CASE Command(t)
    BY <2>1 DEF Command, Receive, Login
  <2>2. CASE Handle(t) \/ Lock(t) \/ (\E a \in Actors : Die(t, a)) \/ Say(t) \/ Gather(t) \/ Listen(t) \/ Peek(t) \/ Logout(t)
    BY <2>2 DEF Handle, Lock, Die, Say, Gather, Listen, Peek, Logout, Goto, Finish
  <2>3. CASE (\E p \in Places : Go(t, p)) \/ (\E p, q \in Places : Warp(t, p, q)) \/ Wake(t)
    BY <2>3 DEF Go, Warp, Wake, Moved
  <2>4. CASE Clone(t) \/ Write(t) \/ Flush(t) \/ FlushFails(t)
    BY <2>4 DEF Clone, Write, Flush, FlushFails, Goto, Finish
  <2>5. CASE Part(t) \/ Join(t) \/ Save(t) \/ SaveFails(t)
    BY <2>5 DEF Part, Join, Save, SaveFails, Finish
  <2>6. QED BY <2>1, <2>2, <2>3, <2>4, <2>5 DEF Continue
<1>2. PICK r : Become(t, r)
  BY <1>1
<1>3. QED BY <1>2, BecomeValue

(***************************************************************************)
(* What is not in a row is marked, or its mark went with a failed save; and *)
(* what is marked is on its way there.                                     *)
(***************************************************************************)

\* The handlers that will still save, or report that they could not.
Owes(t) == task[t].pc \in {"wake", "flush", "save"} \/ (task[t].pc = "sync" /\ task[t].verb # "quit")

RowsKnown == \A a \in Actors : row[a] # place[a] => a \in dirty \/ (a \in lost /\ failures > 0)
Promised == dirty # {} => failures > 0 \/ \E t \in Tasks : Owes(t)
Sleeper(t) == task[t].pc = "wake" => task[t].verb # "quit"

SaveInv ==
    /\ RowsKnown
    /\ Promised
    /\ \A t \in Tasks : Sleeper(t)

\* The four ways to keep it: touch nothing and keep the promise, move an actor
\* and promise to save, save, or fail.
LEMMA SaveStep ==
    ASSUME TypeInv, SaveInv, NEW t \in Tasks, \A u \in Tasks : u # t => task'[u] = task[u], Sleeper(t)',
           \/ UNCHANGED world /\ failures' = failures /\ (Owes(t) => Owes(t)')
           \/ RowsKnown' /\ Owes(t)'
           \/ Saved /\ failures' = failures
           \/ SaveFailed
    PROVE  SaveInv'
<1> failures \in Nat
  BY GatewayAssumption DEF TypeInv, TypeOK
<1>1. \A u \in Tasks : Sleeper(u)'
  BY DEF SaveInv, Sleeper
<1>2. RowsKnown'
  <2>1. CASE UNCHANGED world /\ failures' = failures
    BY <2>1 DEF SaveInv, RowsKnown, world
  <2>2. CASE Saved /\ failures' = failures
    BY <2>2 DEF Saved, Written, SaveInv, RowsKnown, TypeInv, TypeOK
  <2>3. CASE SaveFailed
    <3>1. failures' > 0 /\ UNCHANGED place
      BY <2>3 DEF SaveFailed, Unwritten
    <3>2. CASE dirty' = dirty /\ lost' = lost \ dirty /\ UNCHANGED row
      BY <3>1, <3>2 DEF SaveInv, RowsKnown
    <3>3. ASSUME NEW S \in SUBSET dirty, Written(place, dirty, S) PROVE RowsKnown'
      BY <3>1, <3>3 DEF Written, SaveInv, RowsKnown, TypeInv, TypeOK
    <3>4. QED BY <2>3, <3>2, <3>3 DEF SaveFailed, Unwritten
  <2>4. QED BY <2>1, <2>2, <2>3
<1>3. Promised'
  <2>1. CASE UNCHANGED world /\ failures' = failures /\ (Owes(t) => Owes(t)')
    <3>1. ASSUME NEW u \in Tasks, Owes(u) PROVE Owes(u)'
      BY <2>1, <3>1 DEF Owes
    <3>2. QED BY <2>1, <3>1 DEF SaveInv, Promised, world
  <2>2. CASE Owes(t)' \/ SaveFailed
    BY <2>2 DEF SaveFailed, Unwritten, Promised
  <2>3. CASE Saved
    BY <2>3 DEF Saved, Written, Promised
  <2>4. QED BY <2>1, <2>2, <2>3
<1>4. QED BY <1>1, <1>2, <1>3 DEF SaveInv

\* An actor that is put somewhere is marked.
LEMMA StandKnown ==
    ASSUME TypeInv, RowsKnown, NEW a \in Actors, NEW p \in Places, Stand(a, p),
           UNCHANGED <<row, failures>>
    PROVE  RowsKnown'
BY DEF Stand, RowsKnown, TypeInv, TypeOK

\* The session of a handler that acts is a player's.
LEMMA ActorOf ==
    ASSUME TypeInv, NEW t \in Tasks, task[t].pc \in HandleSteps
    PROVE  player[task[t].handle].actor \in Actors /\ player[task[t].handle].at \in Places
BY TaskType DEF Shape, Standing

\* Every step of a handler keeps the promise.
LEMMA SaveHandler ==
    ASSUME TypeInv, SaveInv, NEW t \in Tasks, Command(t) \/ Continue(t) \/ FlushFails(t) \/ SaveFails(t)
    PROVE  SaveInv'
<1>1. \A u \in Tasks : u # t => task'[u] = task[u]
  BY Others
<1>2. RowsKnown /\ Sleeper(t) /\ failures \in Nat
  BY GatewayAssumption DEF SaveInv, TypeInv, TypeOK
<1>3. ASSUME UNCHANGED world, failures' = failures, ~Owes(t), Sleeper(t)' PROVE SaveInv'
  BY <1>1, <1>3, SaveStep
<1>4. ASSUME NEW n \in Nicks, NEW v \in VerbKinds, Receive(t, n, v) PROVE SaveInv'
  <2>1. ~Owes(t) /\ UNCHANGED world /\ failures' = failures
    BY <1>4 DEF Receive, At, Owes
  <2>2. Sleeper(t)'
    BY <1>4, ReceiveType DEF Sleeper
  <2>3. QED BY <1>3, <2>1, <2>2
<1>5. ASSUME NEW n \in Nicks, NEW a \in Actors, NEW h \in Handles, At(t, "idle"), Login(t, n, a, h)
      PROVE  SaveInv'
  <2>1. ~Owes(t) /\ UNCHANGED world /\ failures' = failures
    BY <1>5 DEF Login, At, Owes
  <2>2. Sleeper(t)'
    BY <1>5, LoginType DEF Sleeper
  <2>3. QED BY <1>3, <2>1, <2>2
<1>6. CASE Handle(t) \/ Lock(t) \/ Say(t) \/ Gather(t) \/ Listen(t) \/ Peek(t) \/ Logout(t) \/ Clone(t)
  <2>1. ~Owes(t) /\ UNCHANGED world /\ failures' = failures
    BY <1>6 DEF Handle, Lock, Say, Gather, Listen, Peek, Logout, Clone, At, Owes
  <2>2. Sleeper(t)'
    BY <1>6, IdleType, HandleType, LockType, SayType, AudienceType, PeekType, LogoutType, CloneType DEF Sleeper
  <2>3. QED BY <1>3, <2>1, <2>2
<1>7. CASE (\E p \in Places : Go(t, p)) \/ (\E p, q \in Places : Warp(t, p, q)) \/ Wake(t)
  <2>1. PICK q \in Places : Stand(player[task[t].handle].actor, q) /\ UNCHANGED <<row, failures>>
    BY <1>7, TaskType DEF Go, Warp, Wake, At, Shape
  <2>2. /\ task[t].pc \in LockSteps /\ task'[t].pc = "sync" /\ task'[t].verb = task[t].verb
    BY <1>7, ActType
  <2>3. task[t].verb # "quit"
    BY <1>2, <1>7 DEF Go, Warp, Wake, At, Sleeper
  <2>4. RowsKnown'
    BY <1>2, <2>1, <2>2, ActorOf, StandKnown DEF LockSteps, HandleSteps
  <2>5. QED BY <1>1, <2>2, <2>3, <2>4, SaveStep DEF Owes, Sleeper
<1>8. ASSUME NEW a \in Actors, Die(t, a) PROVE SaveInv'
  <2>1. /\ Stand(a, Respawn(a)) /\ UNCHANGED <<row, failures>> /\ task[t].pc = "act"
        /\ task[t].verb = "attack"
    BY <1>8 DEF Die, At
  <2>2. task'[t].pc = "wake" /\ task'[t].verb = task[t].verb
    BY <1>8, DieType
  <2>3. RowsKnown'
    BY <1>2, <2>1, RespawnType, StandKnown
  <2>4. QED BY <1>1, <2>1, <2>2, <2>3, SaveStep DEF Owes, Sleeper
<1>9. CASE Write(t)
  <2>1. Stand(task[t].copy.actor, task[t].copy.at) /\ UNCHANGED <<row, failures>> /\ task[t].pc = "write"
    BY <1>9 DEF Write, At
  <2>2. task'[t].pc = "flush"
    BY <1>9, WriteType
  <2>3. task[t].copy.actor \in Actors /\ task[t].copy.at \in Places
    BY <2>1, TaskType DEF Shape, Standing
  <2>4. RowsKnown'
    BY <1>2, <2>1, <2>3, StandKnown
  <2>5. QED BY <1>1, <2>2, <2>4, SaveStep DEF Owes, Sleeper
<1>10. CASE Flush(t)
  <2>1. Saved /\ failures' = failures
    BY <1>10 DEF Flush
  <2>2. Sleeper(t)'
    BY <1>10, FlushType, IdleType DEF Sleeper
  <2>3. QED BY <1>1, <2>1, <2>2, SaveStep
<1>11. CASE FlushFails(t)
  <2>1. SaveFailed
    BY <1>11 DEF FlushFails
  <2>2. Sleeper(t)'
    BY <1>11, FlushFailsType, IdleType DEF Sleeper
  <2>3. QED BY <1>1, <2>1, <2>2, SaveStep
<1>12. CASE Part(t) \/ Join(t) \/ Save(t) \/ SaveFails(t)
  <2>1. CASE /\ task[t].pc = "sync" /\ task'[t].pc \in {"sync", "save"} /\ task'[t].verb = task[t].verb
             /\ UNCHANGED world /\ failures' = failures /\ (task'[t].pc = "sync" \/ task[t].verb # "quit")
    <3>1. Owes(t) => Owes(t)'
      BY <2>1 DEF Owes
    <3>2. QED BY <1>1, <2>1, <3>1, SaveStep DEF Sleeper
  <2>2. CASE task'[t] = Idle /\ task[t].verb = "quit" /\ task[t].pc = "sync" /\ UNCHANGED world
             /\ failures' = failures
    BY <1>3, <2>2, IdleType DEF Owes, Sleeper
  <2>3. CASE task'[t] = Idle /\ Saved /\ failures' = failures
    BY <1>1, <2>3, IdleType, SaveStep DEF Sleeper
  <2>4. CASE task'[t] = Idle /\ SaveFailed
    BY <1>1, <2>4, IdleType, SaveStep DEF Sleeper
  <2>5. QED BY <1>12, <2>1, <2>2, <2>3, <2>4, DeliverType
<1>13. \A n \in Nicks : Accounts[n] \subseteq Actors
  BY GatewayAssumption
<1>14. QED BY <1>4, <1>5, <1>6, <1>7, <1>8, <1>9, <1>10, <1>11, <1>12, <1>13 DEF Command, Continue

\* So does the library, whose release saves like a logout does.
LEMMA SaveLibrary ==
    ASSUME TypeInv, SaveInv, Library
    PROVE  SaveInv'
<1>1. task' = task
  BY LibraryType
<1>2. \A t \in Tasks : Sleeper(t)'
  BY <1>1 DEF SaveInv, Sleeper
<1>3. CASE UNCHANGED world /\ failures' = failures
  BY <1>1, <1>2, <1>3 DEF SaveInv, RowsKnown, Promised, Owes, world
<1>4. ASSUME NEW n \in Nicks, Release(n) PROVE SaveInv'
  <2> DEFINE s == player[owned[n]]
             stood == [place EXCEPT ![s.actor] = s.at]
             marked == dirty \cup {s.actor}
  <2>1. s.actor \in Actors /\ s.at \in Places
    BY <1>4 DEF Release, TypeInv, Standing
  <2>2. /\ place' = stood
        /\ \/ Written(stood, marked, marked) /\ UNCHANGED failures
           \/ Unwritten(stood, marked)
    BY <1>4 DEF Release
  <2>3. /\ place \in [Actors -> Places] /\ row \in [Actors -> Places] /\ failures \in Nat /\ RowsKnown
        /\ marked \subseteq Actors
        /\ \A a \in Actors : a \notin marked => stood[a] = place[a]
    BY <2>1, GatewayAssumption DEF SaveInv, TypeInv, TypeOK
  <2>4. \A a \in Actors : a \notin marked /\ row[a] # stood[a] => a \in lost /\ failures > 0
    BY <2>3 DEF RowsKnown
  <2>5. CASE Written(stood, marked, marked) /\ UNCHANGED failures
    <3> HIDE DEF stood, marked
    <3>1. RowsKnown'
      BY <2>2, <2>3, <2>4, <2>5 DEF Written, RowsKnown
    <3>2. QED BY <1>2, <2>5, <3>1 DEF Written, SaveInv, Promised
  <2>6. CASE Unwritten(stood, marked)
    <3> HIDE DEF stood, marked
    <3>1. failures' > 0
      BY <2>3, <2>6 DEF Unwritten
    <3>2. CASE dirty' = marked /\ lost' = lost \ marked /\ UNCHANGED row
      BY <1>2, <2>2, <2>3, <2>4, <3>1, <3>2 DEF SaveInv, RowsKnown, Promised
    <3>3. ASSUME NEW S \in SUBSET marked, Written(stood, marked, S) PROVE SaveInv'
      <4>1. RowsKnown'
        BY <2>2, <2>3, <2>4, <3>1, <3>3 DEF Written, RowsKnown
      <4>2. QED BY <1>2, <3>1, <4>1 DEF SaveInv, Promised
    <3>4. QED BY <2>6, <3>2, <3>3 DEF Unwritten
  <2>7. QED BY <2>2, <2>5, <2>6
<1>5. QED BY <1>3, <1>4 DEF Library, Connect, Forget

\* Once every message is handled the rows know where every actor stands: a
\* move, a death, a teleport by a script or a logout may be missing from the
\* rows only while some handler is on its way to save it, or after a save
\* failed, and then the actor is marked for the next one or its mark is among
\* those the error took along.
THEOREM SavesAtRest == Spec => []SavedAtRest
<1>1. Init => SaveInv
  <2> SUFFICES ASSUME Init PROVE SaveInv
    OBVIOUS
  <2>1. \A t \in Tasks : task[t] = Idle
    BY DEF Init
  <2>2. QED BY <2>1, IdleType DEF Init, SaveInv, RowsKnown, Promised, Sleeper
<1>2. TypeInv /\ SaveInv /\ [Next]_vars => SaveInv'
  <2> SUFFICES ASSUME TypeInv, SaveInv, [Next]_vars PROVE SaveInv'
    OBVIOUS
  <2>1. CASE UNCHANGED vars
    BY <2>1 DEF vars, SaveInv, RowsKnown, Promised, Owes, Sleeper
  <2>2. QED BY <2>1, SaveHandler, SaveLibrary DEF Next
<1>3. TypeInv /\ SaveInv => SavedAtRest
  <2> SUFFICES ASSUME TypeInv, SaveInv, AtRest, NEW a \in Actors, row[a] # place[a]
               PROVE  failures > 0 /\ a \in dirty \cup lost
    BY DEF SavedAtRest
  <2>1. a \in dirty \/ (a \in lost /\ failures > 0)
    BY DEF SaveInv, RowsKnown
  <2>2. \A t \in Tasks : ~Owes(t)
    BY DEF AtRest, At, Owes
  <2>3. QED BY <2>1, <2>2 DEF SaveInv, Promised
<1>4. QED BY <1>1, <1>2, <1>3, InitType, NextType, PTL DEF Spec

(***************************************************************************)
(* The registry, as the bot uses it: a nick's next message waits for its   *)
(* last one (the loop of bin/irc.rs takes one message at a time), and      *)
(* nobody calls connect and release past it.  Without the first a command  *)
(* can outlive the logout of its nick; the second hands out sessions that  *)
(* their owner may drop (NickReserved).                                    *)
(***************************************************************************)

BotOnly == InOrder = TRUE /\ Verbs \cap {"connect", "release", "forget"} = {}

SessionSteps == {"lock", "act", "wake", "peek"}
LogoutSteps == {"clone", "write", "flush"}

\* A command has the handle that is stored for its nick; a logout holds the
\* manager, and in its hands is the session its nick is bound for.
Registered(t) ==
    /\ task[t].pc \in SessionSteps => sessions[Nick(t)] = task[t].handle
    /\ task[t].pc \in LogoutSteps =>
         /\ manager = t /\ sessions[Nick(t)] = None
         /\ bound[Nick(t)] # None /\ player[task[t].handle].actor = bound[Nick(t)]
    /\ task[t].pc = "write" => task[t].copy.actor = bound[Nick(t)]

StoredIsBound ==
    \A n \in Nicks : sessions[n] # None => bound[n] # None /\ player[sessions[n]].actor = bound[n]
BoundIsHeld ==
    \A n \in Nicks : bound[n] # None => sessions[n] # None \/ \E t \in Tasks : LoggingOut(t, n)
OneNickEach ==
    \A m, n \in Nicks : m # n /\ bound[m] # None => bound[m] # bound[n]
OneAtATime ==
    \A t, u \in Tasks : task[t].pc # "idle" /\ task[u].pc # "idle" /\ Nick(t) = Nick(u) => t = u

RegInv ==
    /\ StoredIsBound
    /\ BoundIsHeld
    /\ OneNickEach
    /\ OneAtATime
    /\ \A t \in Tasks : Registered(t)

\* Who gets the manager finds nobody logging out.
LEMMA NobodyLeaving ==
    ASSUME TypeInv, RegInv, NEW t \in Tasks, manager = None \/ manager = t, NEW u \in Tasks, u # t
    PROVE  task[u].pc \notin LogoutSteps
<1>1. u # None
  BY GatewayAssumption
<1>2. QED BY <1>1 DEF RegInv, Registered

\* The types of the registry.
LEMMA RegTypes ==
    ASSUME TypeInv
    PROVE  /\ bound \in [Nicks -> Actors \cup {None}]
           /\ sessions \in [Nicks -> Handles \cup {None}]
           /\ player \in [Handles -> PlayerRec]
           /\ None \notin Actors /\ None \notin Handles /\ None \notin Tasks
           /\ \A t \in Tasks : task[t].pc # "idle" => task[t].nick \in Nicks
           /\ \A t \in Tasks : task[t].pc \in HandleSteps => task[t].handle \in Handles
BY TaskType, GatewayAssumption DEF TypeInv, TypeOK, Shape, Nick

\* One handler stays the only one of its nick.
LEMMA StillOne ==
    ASSUME TypeInv, RegInv, NEW t \in Tasks, \A u \in Tasks : u # t => task'[u] = task[u],
           \/ task'[t].pc = "idle"
           \/ task[t].pc # "idle" /\ task'[t].nick = task[t].nick
           \/ ~Busy(task'[t].nick)
    PROVE  OneAtATime'
<1>1. ASSUME NEW u \in Tasks, u # t, task'[u].pc # "idle", task'[t].pc # "idle"
      PROVE  task'[u].nick # task'[t].nick
  <2>1. task'[u] = task[u] /\ task[u].pc # "idle"
    BY <1>1
  <2>2. CASE ~Busy(task'[t].nick)
    BY <2>1, <2>2 DEF Busy
  <2>3. CASE task[t].pc # "idle" /\ task'[t].nick = task[t].nick
    <3>1. task[u].nick # task[t].nick
      BY <1>1, <2>1, <2>3 DEF RegInv, OneAtATime, Nick
    <3>2. QED BY <2>1, <2>3, <3>1
  <2>4. QED BY <1>1, <2>2, <2>3
<1>2. ASSUME NEW u \in Tasks, NEW v \in Tasks, task'[u].pc # "idle", task'[v].pc # "idle",
             task'[u].nick = task'[v].nick
      PROVE  u = v
  <2>1. CASE u = t \/ v = t
    BY <1>1, <1>2, <2>1
  <2>2. CASE u # t /\ v # t
    BY <1>2, <2>2 DEF RegInv, OneAtATime, Nick
  <2>3. QED BY <2>1, <2>2
<1>3. QED BY <1>2 DEF OneAtATime, Nick

\* A step that leaves the registry alone.
LEMMA RegStep ==
    ASSUME TypeInv, RegInv, NEW t \in Tasks, \A u \in Tasks : u # t => task'[u] = task[u],
           UNCHANGED <<bound, sessions>>, \A h \in Handles : player'[h].actor = player[h].actor,
           manager' = manager \/ manager = None \/ manager = t,
           task'[t].pc = "idle" \/ (task[t].pc # "idle" /\ task'[t].nick = task[t].nick) \/ ~Busy(task'[t].nick),
           task[t].pc \in LogoutSteps => task'[t].pc \in LogoutSteps /\ task'[t].nick = task[t].nick,
           Registered(t)'
    PROVE  RegInv'
<1> USE RegTypes
<1>1. OneAtATime'
  BY StillOne
<1>2. ASSUME NEW u \in Tasks PROVE Registered(u)'
  <2>1. CASE u = t
    BY <2>1
  <2>2. CASE u # t
    <3>1. task'[u] = task[u] /\ Registered(u)
      BY <2>2 DEF RegInv
    <3>2. task[u].pc \in LogoutSteps => manager' = manager /\ player'[task[u].handle].actor = player[task[u].handle].actor
      BY <2>2, NobodyLeaving DEF LogoutSteps, HandleSteps
    <3>3. QED BY <3>1, <3>2 DEF Registered, Nick
  <2>3. QED BY <2>1, <2>2
<1>3. StoredIsBound'
  BY DEF RegInv, StoredIsBound
<1>4. BoundIsHeld'
  <2>1. ASSUME NEW u \in Tasks, NEW n \in Nicks, LoggingOut(u, n) PROVE LoggingOut(u, n)'
    BY <2>1 DEF LoggingOut, LogoutSteps, Nick
  <2>2. QED BY <2>1 DEF RegInv, BoundIsHeld
<1>5. OneNickEach'
  BY DEF RegInv, OneNickEach
<1>6. QED BY <1>1, <1>2, <1>3, <1>4, <1>5 DEF RegInv

\* A login finds its nick unbound and gives it an actor nobody drives.
LEMMA LoginRegisters ==
    ASSUME TypeInv, RegInv, NEW t \in Tasks, NEW n \in Nicks, NEW a \in Actors, NEW h \in Handles,
           At(t, "idle"), ~Busy(n), Login(t, n, a, h)
    PROVE  RegInv' /\ UNCHANGED place
<1> USE RegTypes
<1>1. /\ manager = None /\ UNCHANGED <<manager, place>> /\ task[t].pc = "idle" /\ sessions[n] = None
      /\ sessions' = [sessions EXCEPT ![n] = h]
      /\ ~IsActorBound(AfterReclaim(n, a), a) /\ Connected(AfterReclaim(n, a), n, a, h)
  BY DEF Login, At, world
<1>2. \A u \in Tasks : task[u].pc \notin LogoutSteps
  BY <1>1, NobodyLeaving DEF LogoutSteps
<1>3. bound[n] = None
  BY <1>1, <1>2 DEF RegInv, BoundIsHeld, LoggingOut, LogoutSteps
<1>4. AfterReclaim(n, a) = bound
  BY <1>1, <1>3 DEF AfterReclaim, Reclaimed
<1>5. ~IsActorBound(bound, a) /\ Connected(bound, n, a, h)
  BY <1>1, <1>4
<1>6. /\ player'[h].actor = a
      /\ \A x \in Handles : x # h => player'[x] = player[x]
      /\ bound'[n] = a /\ \A m \in Nicks : m # n => bound'[m] = bound[m]
      /\ \A m \in Nicks : sessions[m] # h
      /\ \A u \in Tasks : task[u].handle # h
  BY <1>5, ConnectedStays
<1>7. \A u \in Tasks : u # t => task'[u] = task[u]
  BY BecomeValue DEF Login
<1>8. task'[t].pc = "sync" /\ task'[t].nick = n
  BY LoginType
<1>9. OneAtATime'
  BY <1>7, <1>8, StillOne
<1>10. ASSUME NEW u \in Tasks PROVE Registered(u)'
  <2>1. CASE u = t
    BY <1>8, <2>1 DEF Registered, SessionSteps, LogoutSteps
  <2>2. CASE u # t
    <3>1. task'[u] = task[u] /\ Registered(u) /\ task[u].pc \notin LogoutSteps
      BY <1>2, <1>7, <2>2 DEF RegInv
    <3>2. task[u].pc \in SessionSteps => task[u].nick \in Nicks /\ task[u].nick # n
      BY DEF SessionSteps, Busy
    <3>3. task[u].pc \in SessionSteps => sessions'[task[u].nick] = sessions[task[u].nick]
      BY <1>1, <3>2
    <3>4. QED BY <3>1, <3>3 DEF Registered, Nick, LogoutSteps
  <2>3. QED BY <2>1, <2>2
<1>11. StoredIsBound'
  <2>1. ASSUME NEW m \in Nicks, m # n, sessions'[m] # None PROVE bound'[m] # None /\ player'[sessions'[m]].actor = bound'[m]
    <3>1. sessions'[m] = sessions[m] /\ bound'[m] = bound[m] /\ player'[sessions[m]] = player[sessions[m]]
      BY <1>1, <1>6, <2>1
    <3>2. QED BY <2>1, <3>1 DEF RegInv, StoredIsBound
  <2>2. sessions'[n] = h
    BY <1>1
  <2>3. QED BY <1>6, <2>1, <2>2 DEF StoredIsBound
<1>12. BoundIsHeld'
  <2>1. ASSUME NEW m \in Nicks, m # n, bound'[m] # None PROVE sessions'[m] # None
    <3>1. bound[m] # None /\ sessions'[m] = sessions[m]
      BY <1>1, <1>6, <2>1
    <3>2. QED BY <1>2, <3>1 DEF RegInv, BoundIsHeld, LoggingOut, LogoutSteps
  <2>2. sessions'[n] # None
    BY <1>1
  <2>3. QED BY <2>1, <2>2 DEF BoundIsHeld
<1>13. OneNickEach'
  <2>1. \A m \in Nicks : bound[m] # a
    BY <1>5 DEF IsActorBound
  <2>2. QED BY <1>6, <2>1 DEF RegInv, OneNickEach
<1>14. QED BY <1>1, <1>9, <1>10, <1>11, <1>12, <1>13 DEF RegInv

\* A logout takes the session out of the map, and keeps the manager.
LEMMA LogoutRegisters ==
    ASSUME TypeInv, RegInv, NEW t \in Tasks, Logout(t)
    PROVE  RegInv'
<1> USE RegTypes
<1> DEFINE n == task[t].nick
<1>1. /\ manager = None /\ task[t].pc = "logout" /\ UNCHANGED <<bound, player>>
      /\ \A u \in Tasks : u # t => task'[u] = task[u]
      /\ n \in Nicks
  BY Others DEF Logout, At, Continue
<1>2. CASE task'[t] = Idle /\ UNCHANGED <<sessions, manager>>
  BY <1>1, <1>2, IdleType, RegStep DEF Registered, SessionSteps, LogoutSteps
<1>3. CASE /\ bound[n] # None /\ sessions[n] # None
           /\ manager' = t /\ sessions' = [sessions EXCEPT ![n] = None]
           /\ task'[t].pc = "clone" /\ task'[t].nick = n /\ task'[t].handle = sessions[n]
  <2> HIDE DEF n
  <2>0. n = task[t].nick
    BY DEF n
  <2>1. OneAtATime'
    BY <1>1, <1>3, <2>0, StillOne
  <2>2. sessions'[n] = None /\ \A m \in Nicks : m # n => sessions'[m] = sessions[m]
    BY <1>1, <1>3
  <2>3. ASSUME NEW u \in Tasks PROVE Registered(u)'
    <3>1. CASE u = t
      <4>1. player[sessions[n]].actor = bound[n]
        BY <1>1, <1>3 DEF RegInv, StoredIsBound
      <4>2. QED BY <1>1, <1>3, <2>2, <3>1, <4>1 DEF Registered, Nick, SessionSteps
    <3>2. CASE u # t
      <4>1. task'[u] = task[u] /\ Registered(u) /\ task[u].pc \notin LogoutSteps
        BY <1>1, <3>2, NobodyLeaving DEF RegInv
      <4>2. task[u].pc \in SessionSteps => task[u].nick \in Nicks /\ task[u].nick # n
        BY <1>1, <2>0, <3>2 DEF RegInv, OneAtATime, Nick, SessionSteps
      <4>3. QED BY <2>2, <4>1, <4>2 DEF Registered, Nick, LogoutSteps
    <3>3. QED BY <3>1, <3>2
  <2>4. StoredIsBound'
    BY <1>1, <2>2 DEF RegInv, StoredIsBound
  <2>5. ASSUME NEW m \in Nicks, m = n PROVE LoggingOut(t, m)'
    BY <1>3, <2>5 DEF LoggingOut, Nick
  <2>6. BoundIsHeld'
    <3>1. ASSUME NEW m \in Nicks, m # n, bound[m] # None PROVE sessions'[m] # None
      <4>1. \A u \in Tasks : ~LoggingOut(u, m)
        <5>1. ~LoggingOut(t, m)
          BY <1>1 DEF LoggingOut
        <5>2. QED BY <1>1, <5>1, NobodyLeaving DEF LoggingOut, LogoutSteps
      <4>2. QED BY <2>2, <3>1, <4>1 DEF RegInv, BoundIsHeld
    <3>2. QED BY <1>1, <2>5, <3>1 DEF BoundIsHeld
  <2>7. OneNickEach'
    BY <1>1 DEF RegInv, OneNickEach
  <2>8. QED BY <2>1, <2>3, <2>4, <2>6, <2>7 DEF RegInv
<1>4. QED BY <1>2, <1>3, LogoutType

\* When it is through the nick is free; when it fails the session is back.
LEMMA FlushRegisters ==
    ASSUME TypeInv, RegInv, NEW t \in Tasks, Flush(t) \/ FlushFails(t)
    PROVE  RegInv'
<1> USE RegTypes
<1> DEFINE n == task[t].nick
           h == task[t].handle
<1>1. /\ task[t].pc = "flush" /\ UNCHANGED player /\ manager' = None
      /\ \A u \in Tasks : u # t => task'[u] = task[u]
      /\ n \in Nicks /\ h \in Handles
  BY Others DEF Flush, FlushFails, At, Continue, HandleSteps
<1>2. manager = t /\ sessions[n] = None /\ bound[n] # None /\ player[h].actor = bound[n]
  BY <1>1 DEF RegInv, Registered, Nick, LogoutSteps
<1>3. /\ Flush(t) => UNCHANGED sessions /\ bound' = [bound EXCEPT ![n] = None]
      /\ FlushFails(t) => UNCHANGED bound /\ sessions' = [sessions EXCEPT ![n] = h]
  BY DEF Flush, FlushFails, Unbound, Nick
<1>4. /\ \A m \in Nicks : m # n => sessions'[m] = sessions[m] /\ bound'[m] = bound[m]
      /\ \/ sessions'[n] = None /\ bound'[n] = None
         \/ sessions'[n] = h /\ bound'[n] = bound[n]
  BY <1>1, <1>2, <1>3
<1>5. \A u \in Tasks : u # t => task[u].pc \notin LogoutSteps
  BY <1>2, NobodyLeaving
<1>6. task'[t] = Idle \/ (task'[t].pc = "sync" /\ task'[t].nick = task[t].nick)
  BY FlushType, FlushFailsType
<1>7. OneAtATime'
  BY <1>1, <1>6, IdleType, StillOne
<1>8. \A u \in Tasks : u # t /\ task[u].pc # "idle" => task[u].nick \in Nicks /\ task[u].nick # n
  BY <1>1 DEF RegInv, OneAtATime, Nick
<1> HIDE DEF n, h
<1>9. ASSUME NEW u \in Tasks PROVE Registered(u)'
  <2>1. CASE u = t
    BY <1>6, <2>1, IdleType DEF Registered, SessionSteps, LogoutSteps
  <2>2. CASE u # t
    <3>1. task'[u] = task[u] /\ Registered(u) /\ task[u].pc \notin LogoutSteps
      BY <1>1, <1>5, <2>2 DEF RegInv
    <3>2. task[u].pc \in SessionSteps => sessions'[task[u].nick] = sessions[task[u].nick]
      BY <1>4, <1>8, <2>2 DEF SessionSteps
    <3>3. QED BY <3>1, <3>2 DEF Registered, Nick, LogoutSteps
  <2>3. QED BY <2>1, <2>2
<1>10. StoredIsBound'
  BY <1>1, <1>2, <1>4 DEF RegInv, StoredIsBound
<1>11. BoundIsHeld'
  <2>1. ASSUME NEW m \in Nicks, m # n, bound'[m] # None PROVE sessions'[m] # None
    <3>1. \A u \in Tasks : ~LoggingOut(u, m)
      <4>1. ~LoggingOut(t, m)
        BY <2>1 DEF LoggingOut, Nick, n
      <4>2. QED BY <1>5, <4>1 DEF LoggingOut, LogoutSteps
    <3>2. QED BY <1>4, <2>1, <3>1 DEF RegInv, BoundIsHeld
  <2>2. bound'[n] # None => sessions'[n] # None
    BY <1>1, <1>4
  <2>3. QED BY <2>1, <2>2 DEF BoundIsHeld
<1>12. OneNickEach'
  BY <1>1, <1>4 DEF RegInv, OneNickEach
<1>13. QED BY <1>7, <1>9, <1>10, <1>11, <1>12 DEF RegInv

\* Every step of a handler keeps the registry.
LEMMA RegHandler ==
    ASSUME BotOnly, TypeInv, RegInv, NEW t \in Tasks,
           Command(t) \/ Continue(t) \/ FlushFails(t) \/ SaveFails(t)
    PROVE  RegInv'
<1> USE RegTypes
<1>1. \A u \in Tasks : u # t => task'[u] = task[u]
  BY Others
<1>2. Registered(t)
  BY DEF RegInv
<1>3. ASSUME NEW n \in Nicks, NEW v \in VerbKinds, Receive(t, n, v) PROVE RegInv'
  <2>1. /\ UNCHANGED <<bound, sessions, player, manager>> /\ ~Busy(n) /\ task[t].pc = "idle"
    BY <1>3 DEF Receive, registry, At, MayStart, BotOnly
  <2>2. task'[t].pc \in {"logout", "handle"} /\ task'[t].nick = n
    BY <1>3, ReceiveType
  <2>3. Registered(t)'
    BY <2>2 DEF Registered, SessionSteps, LogoutSteps
  <2>4. QED BY <1>1, <2>1, <2>2, <2>3, RegStep DEF LogoutSteps
<1>4. ASSUME NEW n \in Nicks, NEW a \in Actors, NEW h \in Handles, At(t, "idle"), MayStart(n), Login(t, n, a, h)
      PROVE  RegInv'
  BY <1>4, LoginRegisters DEF MayStart, BotOnly
<1>5. CASE Handle(t)
  <2>1. UNCHANGED <<bound, sessions, player, manager>> /\ task[t].pc = "handle"
    BY <1>5 DEF Handle, registry, At
  <2>2. \/ /\ task'[t].pc \in {"lock", "peek"} /\ task'[t].nick = task[t].nick
           /\ task'[t].handle = sessions[task[t].nick]
        \/ task'[t].pc = "logout" /\ task'[t].nick = task[t].nick
        \/ task'[t].pc = "idle"
    BY <1>5, HandleType, IdleType
  <2>3. Registered(t)'
    BY <2>1, <2>2 DEF Registered, SessionSteps, LogoutSteps, Nick
  <2>4. QED BY <1>1, <2>1, <2>2, <2>3, RegStep DEF LogoutSteps
<1>6. CASE Lock(t) \/ (\E a \in Actors : Die(t, a))
  <2>1. UNCHANGED <<bound, sessions, player, manager>> /\ task[t].pc \in {"lock", "act"}
    BY <1>6 DEF Lock, Die, registry, At
  <2>2. task'[t].pc \in {"act", "wake"} /\ task'[t].nick = task[t].nick /\ task'[t].handle = task[t].handle
    BY <1>6, LockType, DieType
  <2>3. Registered(t)'
    BY <1>2, <2>1, <2>2 DEF Registered, SessionSteps, LogoutSteps, Nick
  <2>4. QED BY <1>1, <2>1, <2>2, <2>3, RegStep DEF LogoutSteps
<1>7. CASE (\E p \in Places : Go(t, p)) \/ (\E p, q \in Places : Warp(t, p, q)) \/ Wake(t)
  <2>1. UNCHANGED <<bound, sessions, manager>>
    BY <1>7 DEF Go, Warp, Wake, registry
  <2>2. /\ task[t].pc \in LockSteps /\ task'[t].pc = "sync" /\ task'[t].nick = task[t].nick
        /\ \A h \in Handles : player'[h].actor = player[h].actor
    BY <1>7, ActType
  <2>3. Registered(t)'
    BY <2>2 DEF Registered, SessionSteps, LogoutSteps
  <2>4. QED BY <1>1, <2>1, <2>2, <2>3, RegStep DEF LogoutSteps, LockSteps
<1>8. CASE Say(t) \/ Gather(t) \/ Listen(t)
  <2>1. /\ UNCHANGED <<bound, sessions, player>>
        /\ manager' = manager \/ manager = None \/ manager = t
    BY <1>8 DEF Say, Gather, Listen, registry
  <2>2. /\ task[t].pc \in {"act", "audience"}
        /\ (task'[t].pc = "audience" /\ task'[t].nick = task[t].nick) \/ task'[t].pc = "idle"
    BY <1>8, SayType, AudienceType, IdleType
  <2>3. Registered(t)'
    BY <2>2 DEF Registered, SessionSteps, LogoutSteps
  <2>4. QED BY <1>1, <2>1, <2>2, <2>3, RegStep DEF LogoutSteps
<1>9. CASE Peek(t)
  <2>1. UNCHANGED <<bound, sessions, player, manager>> /\ task[t].pc = "peek"
    BY <1>9 DEF Peek, registry, At
  <2>2. task'[t].pc = "logout" /\ task'[t].nick = task[t].nick
    BY <1>9, PeekType
  <2>3. Registered(t)'
    BY <2>2 DEF Registered, SessionSteps, LogoutSteps
  <2>4. QED BY <1>1, <2>1, <2>2, <2>3, RegStep DEF LogoutSteps
<1>10. CASE Clone(t) \/ Write(t)
  <2>1. UNCHANGED <<bound, sessions, player, manager>> /\ task[t].pc \in LogoutSteps
    BY <1>10, CloneType, WriteType DEF Clone, Write, registry, LogoutSteps
  <2>2. /\ task'[t].pc \in LogoutSteps /\ task'[t].nick = task[t].nick /\ task'[t].handle = task[t].handle
        /\ task'[t].pc = "write" => task'[t].copy = player[task[t].handle]
    BY <1>10, CloneType, WriteType DEF LogoutSteps
  <2>3. Registered(t)'
    BY <1>2, <2>1, <2>2 DEF Registered, SessionSteps, LogoutSteps, Nick
  <2>4. QED BY <1>1, <2>1, <2>2, <2>3, RegStep DEF LogoutSteps
<1>11. CASE Part(t) \/ Join(t) \/ Save(t) \/ SaveFails(t)
  <2>1. UNCHANGED <<bound, sessions, player, manager>> /\ task[t].pc \in {"sync", "save"}
    BY <1>11, DeliverType DEF registry
  <2>2. task'[t].pc = "idle" \/ (task'[t].pc \in {"sync", "save"} /\ task'[t].nick = task[t].nick)
    BY <1>11, DeliverType, IdleType
  <2>3. Registered(t)'
    BY <2>2 DEF Registered, SessionSteps, LogoutSteps
  <2>4. QED BY <1>1, <2>1, <2>2, <2>3, RegStep DEF LogoutSteps
<1>12. \A n \in Nicks : Accounts[n] \subseteq Actors
  BY GatewayAssumption
<1>13. QED BY <1>3, <1>4, <1>5, <1>6, <1>7, <1>8, <1>9, <1>10, <1>11, <1>12, LogoutRegisters, FlushRegisters
           DEF Command, Continue

\* And the library is not called.
LEMMA RegNext ==
    ASSUME BotOnly
    PROVE  TypeInv /\ RegInv /\ [Next]_vars => RegInv'
<1> SUFFICES ASSUME TypeInv, RegInv, [Next]_vars PROVE RegInv'
  OBVIOUS
<1>1. CASE UNCHANGED vars
  BY <1>1 DEF vars, RegInv, StoredIsBound, BoundIsHeld, OneNickEach, OneAtATime, Registered, LoggingOut, Nick
<1>2. ~Library
  BY DEF Library, BotOnly
<1>3. QED BY <1>1, <1>2, RegHandler DEF Next

\* At the start nobody is there.
LEMMA RegInit == Init => RegInv
<1> SUFFICES ASSUME Init PROVE RegInv
  OBVIOUS
<1>1. \A t \in Tasks : task[t].pc = "idle"
  BY IdleType DEF Init
<1>2. QED BY <1>1 DEF Init, RegInv, StoredIsBound, BoundIsHeld, OneNickEach, OneAtATime, Registered,
      SessionSteps, LogoutSteps

\* However logins and logouts of any number of nicks interleave: a nick is
\* bound exactly while its session is stored or in the hands of its logout, it
\* is bound to that session's actor, and no two nicks drive one actor.
THEOREM RegistryHolds ==
    ASSUME BotOnly
    PROVE  Spec => []RegistryAgrees
<1>1. TypeInv /\ RegInv => RegistryAgrees
  <2> SUFFICES ASSUME TypeInv, RegInv PROVE RegistryAgrees
    OBVIOUS
  <2>1. ASSUME NEW n \in Nicks
        PROVE  /\ bound[n] # None <=> sessions[n] # None \/ \E t \in Tasks : LoggingOut(t, n)
               /\ sessions[n] # None => player[sessions[n]].actor = bound[n]
    <3>1. ASSUME NEW t \in Tasks, LoggingOut(t, n) PROVE bound[n] # None
      BY <3>1 DEF RegInv, Registered, LoggingOut, LogoutSteps
    <3>2. QED BY <3>1 DEF RegInv, StoredIsBound, BoundIsHeld
  <2>2. ASSUME NEW m \in Nicks, NEW n \in Nicks, m # n, sessions[m] # None, sessions[n] # None
        PROVE  player[sessions[m]].actor # player[sessions[n]].actor
    BY <2>2 DEF RegInv, StoredIsBound, OneNickEach
  <2>3. QED BY <2>1, <2>2 DEF RegistryAgrees
<1>2. QED BY <1>1, InitType, NextType, RegInit, RegNext, PTL DEF Spec

\* Only a step of a command or of a logout moves an actor. Both have the session
\* of a nick that is bound, to the actor they move unless it is struck dead.
Moves(a) == \E n \in Nicks : bound[n] # None /\ (bound[n] = a \/ Strikes(n, a))

LEMMA Movers ==
    ASSUME BotOnly, TypeInv, RegInv, Next
    PROVE  \A a \in Actors : place'[a] # place[a] => Moves(a)
<1> USE RegTypes
<1>1. ASSUME NEW b \in Actors, NEW p, Stand(b, p), \E n \in Nicks : bound[n] = b,
             NEW a \in Actors, place'[a] # place[a]
      PROVE  Moves(a)
  BY <1>1 DEF Stand, Moves, TypeInv, TypeOK
<1>2. ASSUME NEW t \in Tasks, task[t].pc \in LockSteps
      PROVE  /\ player[task[t].handle].actor \in Actors
             /\ task[t].nick \in Nicks
             /\ bound[task[t].nick] = player[task[t].handle].actor
  <2>1. /\ player[task[t].handle].actor \in Actors
        /\ task[t].nick \in Nicks /\ task[t].handle \in Handles
    BY <1>2, ActorOf DEF LockSteps, HandleSteps
  <2>2. sessions[task[t].nick] = task[t].handle
    BY <1>2 DEF RegInv, Registered, LockSteps, SessionSteps, Nick
  <2>3. bound[task[t].nick] = player[task[t].handle].actor
    BY <2>1, <2>2 DEF RegInv, StoredIsBound
  <2>4. QED BY <2>1, <2>3
<1>3. ASSUME NEW t \in Tasks, (\E p \in Places : Go(t, p)) \/ (\E p, q \in Places : Warp(t, p, q)) \/ Wake(t)
      PROVE  \A a \in Actors : place'[a] # place[a] => Moves(a)
  <2>1. task[t].pc \in LockSteps /\ \E p : Stand(player[task[t].handle].actor, p)
    BY <1>3 DEF Go, Warp, Wake, At, LockSteps
  <2>2. QED BY <1>1, <1>2, <2>1
<1>4. ASSUME NEW t \in Tasks, NEW b \in Actors, Die(t, b), NEW a \in Actors, place'[a] # place[a]
      PROVE  Moves(a)
  <2> DEFINE s == player[task[t].handle]
  <2>1. /\ task[t].pc = "act" /\ task[t].verb = "attack" /\ Stand(b, Respawn(b))
        /\ b = s.actor \/ place[b] = s.at
    BY <1>4 DEF Die, At
  <2>2. /\ s.actor \in Actors /\ task[t].nick \in Nicks /\ bound[task[t].nick] = s.actor
    BY <1>2, <2>1 DEF LockSteps
  <2>3. CASE b = s.actor
    BY <1>1, <1>4, <2>1, <2>2, <2>3
  <2>4. CASE place[b] = s.at
    <3>1. a = b /\ place'[a] = Respawn(a)
      BY <1>4, <2>1 DEF Stand, TypeInv, TypeOK
    <3>2. place'[a] = Home[a]
      BY <1>4, <3>1 DEF Respawn
    <3>3. task'[t].pc = "wake"
      BY <1>4, DieType
    <3>4. Strikes(task[t].nick, a)
      BY <2>1, <2>4, <3>1, <3>2, <3>3 DEF Strikes, Nick, At
    <3>5. QED BY <2>2, <3>4 DEF Moves
  <2>5. QED BY <2>1, <2>3, <2>4
<1>5. ASSUME NEW t \in Tasks, Write(t)
      PROVE  \A a \in Actors : place'[a] # place[a] => Moves(a)
  <2>1. /\ task[t].pc = "write" /\ Stand(task[t].copy.actor, task[t].copy.at)
        /\ task[t].nick \in Nicks
    BY <1>5 DEF Write, At
  <2>2. task[t].copy.actor = bound[task[t].nick] /\ task[t].copy.actor \in Actors
    BY <2>1, TaskType DEF RegInv, Registered, Nick, Shape, Standing
  <2>3. QED BY <1>1, <2>1, <2>2
<1>6. ASSUME NEW t \in Tasks,
             \/ Command(t) \/ Handle(t) \/ Lock(t) \/ Say(t) \/ Gather(t) \/ Listen(t) \/ Peek(t) \/ Logout(t)
             \/ Clone(t) \/ Flush(t) \/ FlushFails(t) \/ Part(t) \/ Join(t) \/ Save(t) \/ SaveFails(t)
      PROVE  place' = place
  BY <1>6 DEF Command, Receive, Login, Handle, Lock, Say, Gather, Listen, Peek, Logout, Clone, Flush, FlushFails,
              Part, Join, Save, SaveFails, Persist, Saved, SaveFailed, world
<1>7. ~Library
  BY DEF Library, BotOnly
<1>8. QED BY <1>3, <1>4, <1>5, <1>6, <1>7 DEF Next, Continue

\* Nobody but its own nick moves an actor, except by killing it in the room both
\* are in; and no command outlives the logout of its nick, so a nick that moves
\* or kills anybody is connected.
THEOREM OnlyConnectedMove ==
    ASSUME BotOnly
    PROVE  Spec => CommandsNeedLogin
<1>1. TypeInv /\ RegInv /\ [Next]_vars
        => [\A a \in Actors : place'[a] # place[a] =>
              \E n \in Nicks : bound[n] # None /\ (bound[n] = a \/ Strikes(n, a))]_vars
  BY Movers DEF Moves
<1>2. QED BY <1>1, InitType, NextType, RegInit, RegNext, PTL DEF Spec, CommandsNeedLogin
=============================================================================
