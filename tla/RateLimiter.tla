------------------------------ MODULE RateLimiter -----------------------------
(* RestRateLimiter: how often a peer of the access point may ask and change,     *)
(* kept in a table of a few peers, in ticks that wrap.                           *)
EXTENDS Integers, FiniteSets, Absence

CONSTANTS
    Clients,            \* peer addresses
    MaxPeers,           \* MAX_PEERS
    MaxRequests,        \* MAX_REQUESTS_PER_WINDOW
    RequestWindow,      \* REQUEST_WINDOW_MS
    MaxMutations,       \* MAX_MUTATIONS_PER_WINDOW
    MutationWindow,     \* MUTATION_WINDOW_MS
    ConfigCooldown,     \* CONFIG_COOLDOWN_MS
    PeerStale,          \* PEER_STALE_MS
    TickRange           \* ticks wrap here

ASSUME LimiterAssumption ==
    /\ {MaxPeers, MaxRequests, RequestWindow, MaxMutations, MutationWindow,
        ConfigCooldown, PeerStale, TickRange} \subseteq Nat \ {0}
    /\ TickRange % 2 = 0
    /\ \A t \in {RequestWindow, MutationWindow, ConfigCooldown, PeerStale} :
          2 * t < TickRange /\ t <= PeerStale
    /\ None \notin 0 .. TickRange - 1

VARIABLES
    now,        \* the tick counter
    limiter,    \* the table of peers, and the latch
    granted     \* what was granted of late, in time that does not wrap

limiterVars == <<now, limiter, granted>>

(* time.ticks_diff(): the signed distance within half the range. *)
TicksDiff(newer, older) ==
    LET half == TickRange \div 2
    IN ((newer - older + half) % TickRange) - half

(* Every question about the past passes through _difference(), which takes a    *)
(* negative distance for a broken clock.                                        *)
Since(tick) == TicksDiff(now, tick)

PeerState ==
    [requestStart |-> now, requests |-> 0, mutationStart |-> now, mutations |-> 0,
     config |-> None, seen |-> now]

LimiterInit ==
    /\ now \in 0 .. TickRange - 1
    /\ limiter = [peers |-> [p \in {} |-> PeerState], faulted |-> FALSE]
    /\ granted = [p \in Clients |-> [requests |-> {}, mutations |-> {}, commits |-> {}]]

-------------------------------------------------------------------------------
Known == DOMAIN limiter.peers

(* Faulty: any peer makes room for a new one. *)
AnyPeer == Known

(* A full table takes a new peer only for one that has long been silent. *)
Replaceable ==
    {p \in Known : Since(limiter.peers[p].seen) >= PeerStale}

(* Faulty: one row too many. *)
FullLate == Cardinality(Known) > MaxPeers

Full == Cardinality(Known) >= MaxPeers

ClockFails(ticks) == \E t \in ticks \ {None} : Since(t) < 0

(* The tables in which c has a row; the longest silent peer is the first to go. *)
WithRow(c) ==
    IF c \in Known THEN {limiter.peers}
    ELSE LET kept == IF ~Full THEN {Known}
                     ELSE {Known \ {p} : p \in {q \in Replaceable :
                             \A r \in Replaceable :
                                Since(limiter.peers[r].seen) <= Since(limiter.peers[q].seen)}}
         IN {[p \in k \cup {c} |-> IF p = c THEN PeerState ELSE limiter.peers[p]] : k \in kept}

(* One use of a window: it starts anew when it is over. *)
Renewed(started, count, duration) ==
    IF Since(started) >= duration THEN [started |-> now, count |-> 0]
    ELSE [started |-> started, count |-> count]

Cooling(row) == row.config # None /\ Since(row.config) < ConfigCooldown

(* What a request leaves of its row: a refused change has still used a request.  *)
Used(row, kind) ==
    LET r == Renewed(row.requestStart, row.requests, RequestWindow)
        m == Renewed(row.mutationStart, row.mutations, MutationWindow)
        asked == [row EXCEPT !.requestStart = r.started, !.requests = r.count + 1]
        changed == [asked EXCEPT !.mutationStart = m.started, !.mutations = m.count + 1]
        As(left, outcome) == [row |-> left, outcome |-> outcome]
    IN IF ClockFails({row.requestStart}) THEN As(row, "fault")
       ELSE IF r.count >= MaxRequests THEN As(row, "refused")
       ELSE IF kind = "read" THEN As([asked EXCEPT !.seen = now], "granted")
       ELSE IF ClockFails({row.mutationStart}) THEN As(asked, "fault")
       ELSE IF m.count >= MaxMutations THEN As(asked, "refused")
       ELSE IF kind = "config" /\ ClockFails({row.config}) THEN As(changed, "fault")
       ELSE IF kind = "config" /\ Cooling(row) THEN As(changed, "refused")
       ELSE As([changed EXCEPT !.seen = now], "granted")

(* What was granted, by age, for as long as the window of each kind is long. *)
Logged(log) == log \cup {<<0, Cardinality({x \in log : x[1] = 0})>>}

Grant(c, kind, committed) ==
    granted' = [granted EXCEPT ![c] =
        [requests |-> Logged(@.requests),
         mutations |-> IF kind = "read" THEN @.mutations ELSE Logged(@.mutations),
         commits |-> IF committed THEN Logged(@.commits) ELSE @.commits]]

Fails(table) ==
    /\ limiter' = [peers |-> table, faulted |-> TRUE]
    /\ UNCHANGED granted

(* One request through handle(): authorize(), the route, complete().  STOP asks  *)
(* the limiter nothing and is not here.                                         *)
Ask(c) ==
    /\ ~limiter.faulted
    /\ IF c \notin Known /\ Full /\ ClockFails({limiter.peers[p].seen : p \in Known})
       THEN Fails(limiter.peers)
       ELSE \E table \in WithRow(c), kind \in {"read", "control", "config"}, commits \in BOOLEAN :
              LET used == Used(table[c], kind)
                  kept == [table EXCEPT ![c] = used.row]
              IN \/ used.outcome = "fault" /\ Fails(kept)
                 \/ /\ used.outcome = "refused"
                    /\ limiter' = [limiter EXCEPT !.peers = kept]
                    /\ UNCHANGED granted
                 \/ /\ used.outcome = "granted"
                    /\ commits => kind = "config"
                    /\ limiter' = [limiter EXCEPT !.peers =
                                     IF commits THEN [kept EXCEPT ![c].config = now] ELSE kept]
                    /\ Grant(c, kind, commits)
    /\ UNCHANGED now

Older(s, window) == {<<x[1] + 1, x[2]>> : x \in {y \in s : y[1] + 1 < window}}

LimiterTick ==
    /\ now' = (now + 1) % TickRange
    /\ granted' = [c \in Clients |->
          [requests |-> Older(granted[c].requests, RequestWindow),
           mutations |-> Older(granted[c].mutations, MutationWindow),
           commits |-> Older(granted[c].commits, ConfigCooldown)]]
    /\ UNCHANGED limiter

LimiterNext == LimiterTick \/ \E c \in Clients : Ask(c)

LimiterSpec == LimiterInit /\ [][LimiterNext]_limiterVars

-------------------------------------------------------------------------------
LimiterTypeOK ==
    /\ now \in 0 .. TickRange - 1
    /\ Known \subseteq Clients /\ Cardinality(Known) <= MaxPeers
    /\ limiter.faulted \in BOOLEAN

(* A crowd of peers does not buy any of them more: across evictions, the wrap    *)
(* and two windows that touch, no peer is granted more than two windows' worth    *)
(* within one, and no second change of the configuration within the cooldown.     *)
QuotasHold ==
    \A c \in Clients :
        /\ Cardinality(granted[c].requests) <= 2 * MaxRequests
        /\ Cardinality(granted[c].mutations) <= 2 * MaxMutations
        /\ Cardinality(granted[c].commits) <= 1

(* "wrap-safe ticks": while the clock runs the limiter never takes it for broken. *)
WrapIsSafe == ~limiter.faulted
===============================================================================
