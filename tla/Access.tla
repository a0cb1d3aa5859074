------------------------------- MODULE Access -------------------------------
(***************************************************************************)
(* Who may come in over IRC, as whom, and how often a nick is heard: the   *)
(* login policy and the token buckets behind dispatch_command.  What a     *)
(* command does and how handlers interleave is said elsewhere; here a line *)
(* is handled in one step.                                                 *)
(*                                                                         *)
(* Tokens of a bucket are counted in parts of 1/Window, so that a second   *)
(* adds Burst parts and a line costs Window of them.                       *)
(***************************************************************************)
EXTENDS Integers, Sequences

CONSTANTS
    Nicks,          \* sanitized nicks
    Secrets,        \* what can be given as a token
    Accounts,       \* what the network may say a nick has identified as
    Policies,       \* the LoginAuthPolicy and IrcIdentityPolicy a process may be started with
    Burst, Window,  \* BucketSpec of each kind
    MaxClock,       \* bound: seconds
    MaxLines,       \* bound: lines that are counted
    Nobody          \* no player, no token

RateLimitKinds == {"command", "movement", "ooc"}

ASSUME AccessAssumption ==
    /\ \A k \in RateLimitKinds : Burst[k] \in Nat \ {0} /\ Window[k] \in Nat \ {0}
    /\ \A p \in Policies : {p.require_auth, p.require_account_tag} \subseteq BOOLEAN
    /\ Nobody \notin Nicks \cup Secrets \cup Accounts
ASSUME ClockAssumption == MaxClock \in Nat

VARIABLES
    players,  \* the player objects of the world, each its name and login_token
    policy,
    seat,     \* the player a nick is
    shown,    \* the token with which it last came in
    account,  \* and what it was identified as then
    buckets,  \* RateLimiter.identities; what is not there is not counted yet
    clock,
    accepted, \* when the lines of a nick were let through, since its bucket is there
    lines     \* counted so far

accessVars == <<players, policy, seat, shown, account, buckets, clock, accepted, lines>>

NoLines == [k \in RateLimitKinds |-> <<>>]
AccessInit ==
    /\ players = [p \in {} |-> Nobody]
    /\ policy = Nobody
    /\ seat = [n \in Nicks |-> Nobody]
    /\ shown = [n \in Nicks |-> Nobody]
    /\ account = [n \in Nicks |-> Nobody]
    /\ buckets = [n \in {} |-> Nobody]
    /\ clock = 0
    /\ accepted = [n \in Nicks |-> NoLines]
    /\ lines = 0

\* Serving begins with those who are in the world.
OpenSessions(those) ==
    /\ players' = those
    /\ policy' \in Policies
    /\ UNCHANGED <<seat, shown, account, buckets, clock, accepted, lines>>

(***************************************************************************)
(* RateLimiter                                                             *)
(***************************************************************************)

Full(k) == Burst[k] * Window[k]
FullBuckets == [k \in RateLimitKinds |-> [tokens |-> Full(k), last |-> clock]]
BucketsOf(n) == IF n \in DOMAIN buckets THEN buckets[n] ELSE FullBuckets

\* Mutant: a quiet nick saves up more than a burst.
Unbounded(b, k) == [tokens |-> b.tokens + (clock - b.last) * Burst[k], last |-> clock]
Refill(b, k) ==
    LET filled == b.tokens + (clock - b.last) * Burst[k] IN
      [tokens |-> IF filled > Full(k) THEN Full(k) ELSE filled, last |-> clock]

Allows(n, k) == Refill(BucketsOf(n)[k], k).tokens >= Window[k]

\* check: the bucket is there from the first line on, and is filled up also
\* when the line is refused.
Check(n, k) ==
    /\ lines < MaxLines /\ lines' = lines + 1
    /\ LET b == Refill(BucketsOf(n)[k], k)
           left == IF Allows(n, k) THEN [b EXCEPT !.tokens = @ - Window[k]] ELSE b
       IN buckets' = [m \in DOMAIN buckets \cup {n} |->
                        IF m = n THEN [BucketsOf(n) EXCEPT ![k] = left] ELSE buckets[m]]
    /\ accepted' = IF Allows(n, k) THEN [accepted EXCEPT ![n][k] = Append(@, clock)] ELSE accepted

\* forget_identity.
Forget(n) ==
    /\ buckets' = [m \in DOMAIN buckets \ {n} |-> buckets[m]]
    /\ accepted' = [accepted EXCEPT ![n] = NoLines]

(***************************************************************************)
(* IrcIdentityPolicy                                                       *)
(***************************************************************************)

IsStrict == policy.require_account_tag \/ DOMAIN policy.account_bindings # {}

\* verify_irc_identity, of every line before anything else is done about it; a
\* is Nobody without a tag, and where it says that nobody is identified.
Identified(n, a) ==
    /\ policy.require_account_tag => a # Nobody
    /\ n \in DOMAIN policy.account_bindings => a = policy.account_bindings[n]

(***************************************************************************)
(* Login                                                                   *)
(***************************************************************************)

\* resolve_player_by_token: the environment wins over the property, and a
\* token of two players is none.
Holders(token) ==
    {p \in DOMAIN policy.env_tokens : policy.env_tokens[p] = token}
    \cup {p \in DOMAIN players \ DOMAIN policy.env_tokens : players[p].token = token}
ByToken(token) ==
    IF token # Nobody /\ \E p \in Holders(token) : Holders(token) = {p} THEN Holders(token) ELSE {}

\* resolve_player_for_login; of several of the same name it may be any.
ResolvePlayer(n, who, token) ==
    CASE who # Nobody -> {who} \cap DOMAIN players
      [] ByToken(token) # {} -> ByToken(token) \cap DOMAIN players
      [] policy.require_auth -> {}
      [] OTHER -> {p \in DOMAIN players : players[p].name = n}

ExpectedToken(p) ==
    IF p \in DOMAIN policy.env_tokens THEN policy.env_tokens[p] ELSE players[p].token
MayClaim(n, p) ==
    IF n \in DOMAIN policy.identity_bindings THEN policy.identity_bindings[n] = p
    ELSE DOMAIN policy.identity_bindings = {}
\* Mutant: no token will do for a player who has none.
VerifyMissing(n, p, token) == policy.require_auth => MayClaim(n, p) /\ token = ExpectedToken(p)
VerifyLogin(n, p, token) ==
    policy.require_auth => MayClaim(n, p) /\ token # Nobody /\ token = ExpectedToken(p)

\* dispatch_login; a player who is in already is refused.
Login(n, who, token, a) ==
    /\ seat[n] = Nobody
    /\ Check(n, "command")
    /\ \/ /\ Allows(n, "command")
          /\ \E p \in ResolvePlayer(n, who, token) :
               /\ VerifyLogin(n, p, token)
               /\ \A m \in Nicks : seat[m] # p
               /\ seat' = [seat EXCEPT ![n] = p]
               /\ shown' = [shown EXCEPT ![n] = token]
               /\ account' = [account EXCEPT ![n] = a]
       \/ /\ Allows(n, "command") =>
               \/ ResolvePlayer(n, who, token) = {}
               \/ \E p \in ResolvePlayer(n, who, token) :
                    ~VerifyLogin(n, p, token) \/ \E m \in Nicks : seat[m] = p
          /\ UNCHANGED <<seat, shown, account>>
    /\ UNCHANGED <<players, policy, clock>>

(***************************************************************************)
(* Lines.                                                                  *)
(***************************************************************************)

\* Verbs to stand for all: "north" is the name of an exit, "set" is typed
\* with an @.
Verbs == {"look", "set", "go", "north", "drop"}
Moves == {"go", "north"}
CountedAs(verb) == IF verb \in {"look", "set"} THEN "command" ELSE "movement"

\* A verb that is counted as movement is looked at by the limiter only when
\* it moves; so "drop" and "attack" never are.
Command(n, verb) ==
    /\ CountedAs(verb) = "command"
    /\ Check(n, "command")
    /\ UNCHANGED <<players, policy, seat, shown, account, clock>>
Go(n, verb) ==
    /\ seat[n] # Nobody
    /\ CountedAs(verb) = "movement" /\ verb \in Moves
    /\ Check(n, "movement")
    /\ UNCHANGED <<players, policy, seat, shown, account, clock>>
WorldOoc(n) ==
    /\ seat[n] # Nobody
    /\ Check(n, "ooc")
    /\ UNCHANGED <<players, policy, seat, shown, account, clock>>

\* logout; who cannot be saved, or quits too quickly, stays.
Leave(n) ==
    /\ seat' = [seat EXCEPT ![n] = Nobody]
    /\ shown' = [shown EXCEPT ![n] = Nobody]
    /\ account' = [account EXCEPT ![n] = Nobody]
    /\ Forget(n)
    /\ UNCHANGED lines
Quit(n) ==
    /\ seat[n] # Nobody
    /\ \/ Allows(n, "command") /\ Leave(n)
       \/ Check(n, "command") /\ UNCHANGED <<seat, shown, account>>
    /\ UNCHANGED <<players, policy, clock>>
Disconnect(n) ==
    /\ seat[n] # Nobody
    /\ Leave(n)
    /\ UNCHANGED <<players, policy, clock>>

Second ==
    /\ policy # Nobody /\ clock < MaxClock
    /\ clock' = clock + 1
    /\ UNCHANGED <<players, policy, seat, shown, account, buckets, accepted, lines>>

\* Where no account is asked for, it does not matter which one is told.
Tags == IF IsStrict THEN Accounts \cup {Nobody} ELSE {Nobody}

AccessNext ==
    \/ Second
    \/ \E n \in Nicks :
         /\ policy # Nobody
         /\ \/ \E a \in Tags :
                 /\ Identified(n, a)
                 /\ \/ \E who \in DOMAIN players \cup {Nobody}, token \in Secrets \cup {Nobody} :
                         Login(n, who, token, a)
                    \/ \E verb \in Verbs : Command(n, verb) \/ Go(n, verb)
                    \/ WorldOoc(n) \/ Quit(n)
            \/ Disconnect(n)

\* Where a login must be proven, whoever is in has shown the one token that
\* the operator or the builder gave to this player; a nick that is bound is
\* no one but whom it is bound to, by whom it is bound to, and nobody is in
\* twice.
Proven ==
    \A n \in Nicks : seat[n] # Nobody =>
      /\ \A m \in Nicks \ {n} : seat[m] # seat[n]
      /\ policy.require_auth =>
           /\ shown[n] \in Secrets
           /\ shown[n] = ExpectedToken(seat[n])
           /\ n \in DOMAIN policy.identity_bindings => policy.identity_bindings[n] = seat[n]
      /\ policy.require_account_tag => account[n] \in Accounts
      /\ n \in DOMAIN policy.account_bindings => account[n] = policy.account_bindings[n]

\* However lines are spread over time, between any two of them no more were
\* let through than a burst and what time has refilled since.
Throttled ==
    \A n \in Nicks, k \in RateLimitKinds :
      LET times == accepted[n][k] IN
        \A i, j \in DOMAIN times : i <= j =>
          (j - i + 1) * Window[k] <= Full(k) + (times[j] - times[i]) * Burst[k]

\* And no one is shut out: who was let through last a token's time ago is
\* heard again, however often it was refused in between.
Recovers ==
    \A n \in DOMAIN buckets, k \in RateLimitKinds :
      LET times == accepted[n][k] IN
        times = <<>> \/ (clock - times[Len(times)]) * Burst[k] >= Window[k] => Allows(n, k)

Admission == Proven /\ Throttled /\ Recovers
=============================================================================
